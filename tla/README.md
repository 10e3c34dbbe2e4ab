# PoseAnchor: specifications, model checking and proofs

PoseAnchor is a SteamVR driver that hooks the pose callbacks of other drivers, runs a
filter on the poses of Vive Trackers, and predicts poses when callbacks go silent. This
directory holds TLA+ modules of the parts of it where order, time and concurrency decide
whether it is right, TLC configurations that check them on small instances, and TLAPS
proofs for every value of the constants. Paths below are relative to the repository.

## 1. Inventory

| Component | State | Operations | Interacts with |
| --- | --- | --- | --- |
| `PoseFilter` (`src/core/tracker_filter.cpp`) | state, warm-up count, trusted sample, hold anchor, candidate, recovery, arrival and tick stamps | `push`, `tick`, `reset` | called by `ServerProvider` under `slot.mutex` |
| `InterfaceHooks` (`src/driver/hooks.cpp`) | hook targets and trampolines, `instance_`, `inFlight_`, `detourShutdown_`, one route (lane) per device | `install`, `remove`, the detours, `filterAndForward`, `submitPose`, `observeInterface` | every thread of vrserver that reports poses; calls the host |
| `ServerProvider` (`src/driver/server_provider.cpp`) | `active_`, `runFramesInFlight_`, one slot per device (filter, last pose, generation, armed) | `Init`, `Cleanup`, `RunFrame`, `isFilterTarget`, `filterPose`, `isCurrentPoseGeneration` | hooks, registry, filters |
| `DeviceRegistry` (`src/driver/device_registry.cpp`) | kind per device, `pendingMask_`, metadata, retry deadlines and attempts | `requestClassification`, `classifyPending`, `reset` | callbacks set bits, `RunFrame` classifies, SteamVR answers property queries |
| `PoseAdapter` (`src/driver/pose_adapter.cpp`) | none; the slot keeps the last transforms and pose for it | `toSample`, `applyOutput`, transform tests | pure conversions |
| Status parser (`src/status/status_parser.cpp`) | summary of a log while it is read, position of the JSON cursor | `parseVrServerLog`, `findJsonStringArray`, `registrationStateFromInspection` | reads what the driver logged and what `vrpathreg` wrote |
| Status window (`src/status/status_main.cpp`) | the page on the screen | `refreshStatus`: registration, process, log, page | a process of its own; sees vrserver only through its log |
| Installer and uninstaller (`installer/PoseAnchor.iss`) | registration plan, backup and its hash, `DriverRegistrationRollbackFailed` | inspect, back up, replace, verify, roll back, remove | SteamVR's registry file through `vrpathreg`; other programs edit it |
| Build and developer scripts | none | | |

What is hard in it:

* **Two clocks.** The filter measures silence, gaps and evidence on the arrival clock, but
  prediction and the hold window on kinematic stamps that lead or lag it.
* **Evidence across interruptions.** Candidates and warm-up must not survive gaps, bad
  samples and ticks.
* **Four kinds of threads.** Callbacks (any thread, possibly nested by the host on one
  thread), the watchdog in `RunFrame`, interface requests, and `Init`/`Cleanup`.
* **Check, unlock, use.** A predicted pose is built under `slot.mutex`, validated and sent
  later under the device's lane.
* **Removal under load.** Trampolines are freed while callbacks are inside the detours.
* **Partial identities.** A device is classified while SteamVR still publishes it.
* **Logs and registry files written by others**, read and changed by the status window
  and the installer.

`PROJECT.json` lists the components with their status, the hazards with their lines and
the properties aimed at each, and maps every definition to the lines it stands for.

## 2. Plan

Order, most important behaviour first. All modules below exist.

1. `PoseFilter`, with `PoseFilterProofs`.
2. `PoseForwarding` (hooks and provider together: their states only make sense together),
   shown to implement `PoseRelay`, the abstract promise about what the host sees, with
   `PoseForwardingProofs` (lifetime, then order).
3. `DeviceRegistry`, with `DeviceRegistryProofs`.
4. `DriverRegistration`, with `DriverRegistrationProofs`.
5. `HookInstall`: two host versions, shared functions, trampolines, failing MinHook calls.
6. `VrServerLog` (how a log is read) and `StatusSession` (the driver that writes it and the
   window that reads it, with `HookInstall` inside), shown to implement `StatusReport`, the
   abstract promise about what the window says; `StatusSessionProofs` is about 5 and 6.
7. `TransitionLog`, `RegistrationInspection`, `PoseSlot`: a log line's way from the driver
   into the window's counts, a registry file's way into a verdict, a pose's way into world
   coordinates and back, with `TransitionLogProofs` (which is also about how `VrServerLog`
   reads), `RegistrationInspectionProofs` and `PoseSlotProofs`.

Every safety property that a passing run checks is proved (section 6); liveness is checked only.

## 3. Modules

**`PoseFilter`** has one action per entry point: `Push(s)` for a callback with sample `s`
(with one `Handle...` per state, as in the code), `Disconnect`, `Tick`, and `Elapse` for
time. The code only ever subtracts stamps, so the module keeps the *age* of every stamp;
ages saturate beyond every threshold (`AgeCapAssumption`), which makes the state space
finite without bounding time. One integer coordinate stands for the pose and one for its
velocity; gates, repair, blend and limits keep their formulas. `run`, `goods` and
`holdAge` are histories that follow the callbacks, not the filter's own counters, so the
properties compare what the filter concluded with what really arrived.

**`PoseForwarding`** gives every thread a stack of calls, each with a program counter, so
that the host can nest a callback inside a call it is serving. Every lock, atomic and
call into the host is a step; a critical section of `slot.mutex` is one step because it
never blocks and never calls out. A filter is reduced to `Cold`, `Live` or `Lost`, and a
push or a tick has any outcome `PoseFilter` allows. `slot[d].captured` stands for "the
generation is still the one the watchdog captured". `Faults` says what may throw.

**`PoseRelay`** is the abstract specification of 2: callbacks go through at any time, a
prediction is shown only while it continues the newest pose, and after the out-of-range
pose nothing but a callback is shown. `FollowsRelay` is the refinement.

**`DeviceRegistry`** interleaves callbacks (load of the kind, then the request), the pass
of `RunFrame` (exchange, per device: class query, one query per property, decision,
metadata, kind or backoff, then the put-back), SteamVR publishing properties, time in
units of 100 ms and resets. A property answer is a match, other, empty or not there yet.

**`DriverRegistration`** is Setup and the uninstaller as programs with a program counter:
every run of `vrpathreg`, every copy, hash and replacement is one step. `vrpathreg` is not
in the repository; `Found` and `Rewritten` say what the installer may assume of it. Exit
codes 0 and 1 of `finddriver` prove "exactly one" and "none", the list that comes with 2
may be incomplete, a call may not start or lose its output, and a write may fail before,
after or half-way through, whatever it reports except success for half a file. Between any
two steps another program may edit the registry, vrserver or the status window may start,
SteamVR may go, the backup may be spoilt, and the program may be killed: its variables and
`{tmp}` are lost, the registry and a stage file beside it stay. `before` and `interfered`
are histories: the registry when Setup last checked it, and whether anybody else has
changed it since. A file is a set of entries, missing, or half written.

**`HookInstall`** is what `install`, `observeInterface` and `remove` do to the functions of
the host. A function is a model value; a version (`"005"`, `"006"`) has one detour, one
recorded target and one trampoline. `mutex_` lets one `installPoseHook` run at a time
(`job`), but the detours take no mutex, so creating, enabling and recording a hook are steps
of their own, and each MinHook call that can fail may. `patched` and `enabled` are MinHook's
own state, against which the driver's pointers are compared.

**`VrServerLog`** is `parseVrServerLog` and the evidence drawn from its summary, as
operators: one per message, applied by a recursive function to line after line
(`ReadLines`), those of earlier processes left out. **`StatusSession`**
extends it and `HookInstall`: vrserver starts, writes a first line, loads the driver, which
installs hooks and logs as `Init`, `install`, `observeInterface` and `Cleanup` do, may unload
and load it again, and may die at every step, in the middle of a line too; the next vrserver
goes on with the old log or an empty one. The window scans for the process, reads the log or
any tail of it, and shows a page; each of its calls may fail. **`StatusReport`** is the
promise: facts change at any time, and a page may claim only what was the case at some
moment since the refresh began. `Truth` is the mapping from the state of the driver to those
facts; between a change and the line that tells of it a fact has both values, because no
reader of a log could do better.

**`TransitionLog`** joins `recordStateChange` (one line a second per destination, the others
counted into the next line) with the parser that adds the counts up again.
**`RegistrationInspection`** is the recursive-descent reader of `openvrpaths.vrpath` over tokens and
`inspectRegistration`; the file may be edited, written half, missing or locked. `skipValue`,
`skipArray` and `skipObject` call one another: they are one recursive function (`Ends`) from what
is skipped, where, and how deep, to the position after it, or `Malformed`; `parseWanted` and the
loop over the members are two more. The reference beside it knows no parser: it counts open
brackets (`Level`), finds the innermost of them (`Within`), and says of each token whether it may
follow the one before it there (`Fits`).
**`PoseSlot`** is `PoseAdapter` and the branches of `filterPose` and `RunFrame` that choose
its transforms, over integer vectors and quaternions whose rotations turn a cube onto itself,
so that composition, conjugation and non-commutativity are exact. Its filter is any filter
that does one of three things: stay cold, where it calls every sample invalid and asks for a
change of the pose only if the sample is good (`StayCold`: `handleCold` and, for a bad sample,
`invalidOutput` with `modified` false); accept the sample, repaired or not (`Accept`); or, with
a pose in memory, answer with a pose of its own (`AnswerFrom`). It is cold exactly while it
has no memory, and a gap may make it so before any sample.

`MC...` modules only give values to constants, except that `MCSubjects` also chooses, in the
initial state, which of the last three machines a behaviour is about; they share no state.

## 4. Runs

| Run | Question | Result |
| --- | --- | --- |
| `PoseFilter` | validity, evidence, warm-up, malformed poses under all sequences of good, bad and missing callbacks; silence ends in an invalid pose, a stream is tracked again | holds |
| `PoseFilterMotion` | hand-overs, repaired speeds and the hold window with moving trackers and stamps that lead or lag | holds |
| `PoseFilterLead` | "Lost shows an invalid pose" (docs/behavior.md:36) with a lead beyond the silence floor | violated |
| `PoseForwarding` | disarming, refinement of `PoseRelay`; two callback threads, failing filter | holds |
| `PoseForwardingReentry` | lifetime of trampolines and exactly-once forwarding: nested calls, `Cleanup` during `RunFrame`, throwing lock and host | holds |
| `PoseForwardingLive` | `Cleanup` ends | holds |
| `PoseForwardingOverlap` | "an old prediction never overwrites a newer pose" (docs/development.md:98) when `Cleanup` overlaps `RunFrame` | violated |
| `DeviceRegistry` | classification of six identities while their properties appear; one request is enough | holds |
| `DeviceRegistryTwo` | requests for one device during the pass for another | holds |
| `DriverRegistration` | Setup twice and the uninstaller under failing tools, crashes and other programs: what the user is told is true, nothing dangling, restores exact, a retried uninstall ends | holds |
| `StatusSession` | trampolines while hooks are added, shared and fail; refinement of `StatusReport` while vrserver loads, unloads, dies and restarts | holds |
| `Subjects` | counts and events read back from a rate-limited log; the verdict on a damaged registry file against what JSON says of it; poses through coordinates and back | holds |

The two violations are listed under `findings` with the lines they contradict. In short:

* `holdOutput()` looks at elapsed time only. An anchor whose kinematic stamp leads the
  arrival clock by more than the 25 ms silence floor is still "in the future" when `Lost`
  is ticked again, so a valid pose is published in `Lost`. `LostStaysInvalid` (section 6)
  proves that a lead within the floor cannot do this.
  For the same reason a Hold entered with a leading stamp lasts longer than `holdSeconds` on
  the arrival clock; `HoldWindow` states the bound that does hold.
* During `Cleanup` a callback no longer takes the lane, so it can overtake a prediction
  that passed its generation test. With `Init` and `Cleanup` between frames
  (`PoseForwarding`) predictions are never stale.

### Bounds

* `PoseFilter` runs: thresholds of 1 to 6 time units that keep the order of the real ones
  (silence floor < kinematic gap < hold < reset gap) and make every count reachable; two
  or three positions chosen on both sides of every gate. `AgeCap` is not a bound but a
  saturation point. `MinPeriod` separates two callbacks of one device.
* `PoseForwarding` runs: one device, since nothing is shared between devices except the
  counters and the mutex; one or two callback threads; nesting to depth 2. The host
  re-enters for the device it serves only (section 7).
* `DeviceRegistry` runs: the real backoff 1, 2, 4, 8, 10 (in 100 ms) and attempt limit;
  `ScanCap` bounds how long one pass takes, `MaxSessions` the number of resets, `Late`
  which properties may appear late.
* `DriverRegistration` run: this copy, two other copies, since "none", "exactly one" and
  "several" is all that exit codes tell apart, and one other driver; every initial
  registry over them. Three faults (`MaxFaults`: a step fails, its rollback fails, and the
  fallback after it), one change from outside (`MaxEdits`) and two runs of Setup
  (`MaxSetups`), so that one meets what another left. Deadlock is not checked: with
  nothing installed and Setup not run again the system really stops.

* `StatusSession` run: two functions, since two versions can share one or not; two vrserver
  processes, six lines and one refresh, enough for a whole session of one process and the
  beginning of the next, or for two loads in one. A refresh keeps nothing but its page, so
  one shows all; once it is over nothing else happens (`Watched`), and deadlock is not
  checked. Process p starts at time 2p and its lines carry 2p+1: the clock does not go back,
  and stamps of two processes differ. A vrserver line precedes the driver's first. While one
  thread writes a line others that want to write wait. The registration is `Registered`
  throughout, because it is inspected on its own in `Subjects`. Functions are symmetric.
* `Subjects` run, one machine at a time. The log: two destinations, two trackers of which
  one fits, two events kept, a counter that saturates at 1 and a sum that saturates at 2,
  five changes and five lines, an interval of two clock steps; exact counts are thus seen of one
  change a destination, and `CountsTrusted` has them for any width. The file: three documents (two
  lists one edit apart, a nested member of the wanted name, an empty object), up to two
  edits with any token of `EditTokens` anywhere, cut anywhere, brackets at most two deep.
  The pose: two bodies with non-commuting orientations, four transforms of each kind of which
  three lie within the tolerance or are `q` and `-q`. Each machine stops at its bounds, so
  deadlock is not checked.

### Fairness

* `PoseFilter`: time passes (`Elapse`) and `RunFrame` keeps calling `tick` (`Tick`): the
  watchdog runs on vrserver's frame loop.
* `PoseForwarding`: every thread that can step does, and a call into the host returns,
  having called back finitely often. Nothing is assumed about what the host starts.
* `DeviceRegistry`: passes keep coming, time passes, published properties appear, and a
  callback under way goes on. No device is assumed to call again.
* `StatusSession` and `Subjects` check safety only: a refresh is a call without waiting.
* `DriverRegistration`: a program under way goes on, the user closes what blocks the
  uninstaller, installs SteamVR again when it is missing, and starts the uninstaller
  again. `UninstallEnds` is about exactly such a user. It also says what is out of the
  installer's hands: a registry that cannot be read, and several other copies, whose list
  from `vrpathreg` proves no absence.

## 5. Properties worth knowing

Every property is commented where it is defined. The ones that took the most care:
`CandidateSupported` (the filter's evidence never exceeds the real stream's),
`ContinuousHandOver`, `FollowsRelay`, `NothingUsedAfterRemoval`, `RequestKept`,
`RollbackIsHonest`, `SuccessIsComplete`, `FollowsReport`, `RegistrationIsReference`,
`HostSeesFilterOutput`. For every property
of every passing run `PROJECT.json` names a plausible bug in the code that breaks
it; the mutated operators stand next to the originals in the modules (`...Late`,
`...Kept`, `AtOnce` and so on).

What came up while modelling the window, without any property failing:

* The parser knows a failed hook by "pose hook" and "could not be hooked" in one message
  (`status_parser.cpp:559`), but the driver's only such line says "current pose *host* could
  not be hooked" (`hooks.cpp:49`) and is read as nothing. When the context hook succeeds and
  the pose hook does not, the window therefore says "No" only because the log covers the
  session; with a truncated log it says "Unknown". `InstallLine` writes that line as `other`.
* vrserver may restart between the process scan and the read. Lines of both processes are
  then parsed as one session, and a hook announced before the second load line is credited
  to the first. The page is still true of some moment of the refresh, which is all
  `StatusReport` asks.
* `HostSeesFilterOutput` needs heads that do not creep: `filterPose` compares each callback's
  head transform with the previous one only, while a pose the filter has kept is older.
* It also has one exception, which it names. A callback whose world transform is malformed is
  given to the filter as a bad sample (`server_provider.cpp:280`). A cold filter answers a bad
  sample with an invalid pose but `modified` false (`tracker_filter.cpp:219`, `:732`), so
  `filterPose` does not apply the answer (`:288`): during warm-up such a pose reaches the host as
  it came, malformed transform included, and valid if the driver called it so. Malformed numbers
  of the pose itself are different: there `handleCold` sets `modified` (`:231`, and
  `MalformedFailsClosed`). The documents disagree about the case: `docs/behavior.md:34` gives
  "無効pose" (an invalid pose) as the output of Cold, `:55` says a malformed transform always
  passes the original pose through, and the comment at `server_provider.cpp:281` that such a
  sample is never accepted, which the filter itself indeed does not. Of a warm filter `:55` is
  not what the code does: it holds.

## 6. Proofs

`PoseFilterProofs` proves `Spec => []TypeOK` (`TypeCorrectness`) for all thresholds,
positions, velocities and offsets that meet the named assumptions. `TypeOK` is not
inductive: that samples keep velocities within the reported range needs the fact that
repair limits the interval velocity to the reported speed (`LimitedWithin`, cited for each
of the places that repair), and `TypeInv` adds what the handlers rely on.

On it build:

* `LostStaysInvalid`: under `LeadBounded` (no offset leads beyond the silence floor),
  `Spec => []LostOutputsInvalid`. The inductive invariant `LostInv` says that in Lost the
  anchor is older than the hold window on the clock any tick or callback may use; it is
  needed because `HoldOutput` itself does not look at the state.
* `CandidateIsSupported`: `Spec => []CandidateSupported`, with `CandInv`: the last sample
  of the candidate is the last callback, whenever there is a candidate, and its arrival is
  as old as that callback's, so the gap test of `updateCandidate` sees every gap.
* `ReacquisitionNeedsStream`: the action property `ReacquireNeedsStream`, from the same
  invariant, and `RecoveryIsEarned` (`RecoveryNeedsRun`): what the candidate claims is no
  more than what came, and the two ways out of Hold test it.
* `WarmupIsComplete` (`WarmupBeforeValid`), with `ColdInv`: the warm-up count never exceeds
  the good callbacks since the reset, and a cold filter answers nothing valid.
* `MalformedNeverRaw` (`MalformedFailsClosed`): one case per handler; no handler needs more
  than its own guard, but each has to be looked at.
* `RawNeverFaster` (`RawSpeedBounded`): five ways lead into Tracking, and each repairs the
  velocity against another neighbour. It assumes `WarmupGood > 1`: the settings allow
  `warmupGoodSamples` to be 1 (`tracker_filter.cpp:48` clamps to [1, 120]), and then the first
  sample after a reset is shown as it came, with no neighbour to check its velocity against.
* `HandOverContinuous` (`ContinuousHandOver`): a blend of weight zero is the held pose
  exactly, divisions included (`BlendAtStart`).
* `HoldIsShort` (`HoldWindow`), with `HoldAgeInv`: the anchor of a hold is younger than the
  hold by at most the lead of its kinematic stamp. `ExtremeOffsets` shows that the latest and
  the earliest offset exist, from the least element of a set of naturals (`LeastOfNaturals`).

`DeviceRegistryProofs` proves all of `DeviceRegistry`'s safety properties, for any number of
devices and callers, any identities and any scan length. `TypeInv` adds to the types that
the pass or the caller under way has a device. `NeverTorn` rests on `TornInv`: a device is
queried only while its kind is Unknown, and metadata are read only of a tracker.
`DecisionsRight` rests on `DecisionInv`, which says of every answer the pass has read that
the device really has it, or that it was not there yet and a retry is due, and of a decision
not yet stored that it is right; the property alone speaks of stored decisions only.
`RetriesWait` rests on `RetryInv`: the attempts count the queries, and the time since the
last one plus the rest of the wait is at least the backoff. A device that was due when the
pass read the clock counts from that reading, not from its own turn. `NoRequestLost` is
inductive once it is known which device the pass holds: the bit is in the mask, or in the
pass and not yet passed by.

`PoseForwardingProofs` is about the lifetime of what callbacks use, for any threads, devices,
depth of nesting, `Faults` and `Overlap`. `CountInv` is the core: `inFlight_` is the number of
calls on all stacks that have been counted and not uncounted, so zero means none, and `StackInv`
lets a call be named by its place in a stack while others come and go. On it rest `CallsInv`
(which calls may be at which step after shutdown began), `LifeInv` (after `Close` no instance),
and `HooksInv` (hooks are on only between installing and removing). They give `RemovalIsSafe`,
`InitIsAlone`, `HooksStayOff` and `PosesForwardedOnce`.

Its second half is about order. `LaneInv` says that the depth of a lane is the number of its
owner's calls that hold it, hence a lane has one owner; `CommitInv`, `OpenInv`, `PredictInv` and
`ShownInv` follow a predicted pose from the tick that made it to the host: while its watchdog
holds the lane and the generation is the captured one, nothing newer was shown. From them

* `VariablesTyped` and `SlotsStayArmed` (`TypeOK`, `ArmedStaysArmed`), without assumptions;
* `NoneIsStale` (`NoStalePrediction`) and `ForwardingFollowsRelay` (`FollowsRelay`, the
  refinement), under `Orderly`: `RunFrame` overlaps no `Init` or `Cleanup`, and the locks do
  not throw. Without it both are false, as the run `PoseForwardingOverlap` shows. In the
  refinement a raw delivery is `PoseRelay`'s `Forward`, the watchdog's step to the next device
  its `Predict`, the call into the host its `Show`; every other step stutters.

`DriverRegistrationProofs` proves `NeverDangling`: `Spec => []NoDanglingPath`, for every
set of copies and other drivers and every number of faults, edits and Setup runs.
`DanglingInv` adds what the property alone cannot carry from step to step: from the moment
Setup has copied its files until it ends they are on the disk, so whatever its rollback
writes back dangles nothing; and between the answer that proves absence and the deletion
the registry does not name this copy. The second part is why only a complete answer may
count as absence, and it uses that no other program registers this copy's path.

It also proves `RollbackHonest`, `SuccessComplete` and `RestoreExact`
(the properties `RollbackIsHonest`, `SuccessIsComplete`, `RestoreIsExact`) from one
invariant, `HonestInv == Session /\ (~interfered => Registry)`. `Session` follows the
program's own variables and holds whoever edits the file; `Registry` ties the file to
`before` at every step and is claimed only while nobody else has written. The split is
needed because an edit breaks the second half for the rest of the session and the first
half must survive it. `RegistrationTyped` is `TypeOK`, which needs that between hash and copy
the hash is that of a file that was there.

`StatusSessionProofs` proves `HookSafety`: `HookSpec => []DetoursHaveTrampolines`, for every set
of functions. The property is not inductive: it says nothing of what a failing or a second
`installPoseHook` may overwrite. `HookInv` adds that an enabled function is recorded as a
target, or is the one being recorded; that a recorded version has that target's trampoline;
that a version without a target has none, except in the course of its own job; and that the
job under way is one the choice at line 206 let through. The line that refuses a second
implementation of a version is what carries the proof: without it `EnableHook` would leave the
first implementation with the second one's trampoline.

`SessionHookSafety` carries this over to `StatusSession`, where vrserver loads, unloads, dies
at any step and starts again: every step of a session is a step of `HookInstall` or leaves its
variables alone (`SessionHooks`). `SessionIsTyped` is `TypeOK`; `SessionInv` adds who may hold
`mutex_` in each phase, that a line being written exists, and that no line of the log is from
the future.

`TransitionLogProofs` is about `TransitionLog` and about how a log is read. A log is read line
by line (`ReadLines`, a recursive function over the number of lines); that the function exists
and that one more line is one more application of `ReadLine` (`ReadNone`, `ReadAppend`,
`TailAppend`) is proved by an induction over a set of numbers, which the provers can do
(`SetInduction`, from the least element of a set of naturals), where they cannot instantiate
the library's induction theorems. On that rest, for every interval, clock, counter width, ring
size and number of trackers, whatever calls fail:

* `TransitionIsTyped`: `TransitionTypeOK`.
* `CountsTrusted` (`CountsAreMinimums`). The property is about the window's counts alone, but a
  count still in the driver comes back with a later line. `CountsInv` therefore says for every
  tail of the log that what the window counts and what the driver holds back are together no
  more than the changes there were (`Minimum`), and, for the whole log while nothing was
  forgotten, exactly as many up to the width of the counters (`Exact`). A tail that does not
  reach back to the load counts nothing, which needs that the summary knows it is not loaded.
* `SummaryFaithful` (`SummaryIsReference`). `KeptInv` follows the ring: what it holds, turned so
  that the oldest comes first, is the end of the events since the load, and the slot after the
  newest is where the next is written; and the trackers are those named since the load, with
  the flag if and only if one had no room.

`StatusSessionProofs` also proves `SessionFollowsReport`: `Spec => FollowsReport`, the refinement
of `StatusReport`, for any numbers of processes, lines and refreshes, wherever vrserver is
killed, whatever it keeps of the old log, and for every tail the window may read, torn lines
included. The inductive invariant is `ReportInv`, in layers:

* `HooksHeld` and `DriverHeld`: where the driver is while it writes each kind of line, and which
  hooks are recorded and enabled then. A hook line can be under way only while something is
  enabled, a failure line only while nothing is.
* `LogFits`: every tail of the complete lines, read for the process that runs (`TailsOf`), fits
  the driver (`Fits`), and the whole log tells all there is to tell (`WholeFits`). `Fits` has
  to say more than the page shows: a hook line that came before its load line is pending, and
  belongs to the load that follows. What a line proves stays so (`GoesOn`) until the line of
  the next change ends or the process does. `FitsRead` is the step for one more line.
* `OldStamps`: once a line is older than a process all lines before it are. So a tail that
  reaches back to an older line reads as the whole log does (`SnapshotCovered`, by `OldPrefix`),
  and `Covered` may take its silence for evidence.
* `SeenInv` and `ReadInv`: what is the case is remembered while the window looks, and every tail,
  read for the process that the scan *found*, says only what was the case since (`Says`),
  whichever process runs by now. Here the argument for a page that mixes two processes is made:
  what the lines of the later one say was the case too (`LooksOn`, `SaysOn`, `LineSays`).

`ReadLogHonest` follows `LoadEvidence`, `HookEvidence` and `Overview` from such a summary to the
page (`LoadedHonest`, `HookHonest`, `PageHonest`); `ReportStep` maps the steps: those of vrserver
and the scan that finds it to `Change`, a page to `Show`, an exception to `Fail`. The invariant
was checked by TLC on a small instance before it was proved.

`RegistrationInspectionProofs` proves `InspectionIsReference`: `RegistrationSpec =>
[]RegistrationIsReference`, for files of any length, any depth limit, any originals and any
edits. The verdict is a function of the state, so the invariant it needs is the type
(`InspectionTyped`); all the work is in showing that the recursive descent, which sees one token
at a time, and the reference, which sees the file at once, agree on every sequence of tokens:

* *Levels.* One token changes `Level` by one at most (`LevelStep`), so between two positions
  whose levels lie on either side of a number there is the bracket that opened it
  (`OpensBetween`) or closed it (`Falls`). `Inside(o, p)` is said of a token whose innermost
  bracket is o; then `Within(p) = o` (`WithinIs`), and `FitsElement`, `FitsMember` and the five
  after them say what `Fits` asks for there.
* *The functions exist.* A recursive function is a `CHOOSE`; that there is something to choose
  follows because each call goes further on, or asks for a value where the rest of a container
  was asked for (`Rank`). `FixedPoint` builds the function by an induction over a set of numbers
  (`SetInduction`), and `EndsExist`, `ListsExist` and `FinderExists` apply it.
* *What they return.* `ValueAt(p, q)` and `RestAt(o, p, q)` say, in the words of the reference,
  that a value, or the rest of the container o, is well formed from p to just before q.
  `EndsRead` shows that `skipValue` at the depth that is open returns q exactly if it is, and
  `Malformed` exactly if there is no such q; `ListsRead` the same of a list of strings, with how
  often each path occurs in it.
* *The member.* `FindsRead` follows the loop of `findTopLevelMember` from any member on, whatever
  was found before: it is malformed exactly if the rest is, or a wanted value is no list of
  strings, or there are two of them, and else the list it gives is the one wanted. From the first
  member on this is the reference's `WellFormed`, `Members`, `OnlyStrings` and `Listing`
  (`WellFormedIs`, `MembersAre`, `ListIs`, `UsableIs`), and `InspectedRight` goes through the
  verdicts.

A nested member of the wanted name is not one (`Level` tells), a second one at the top makes the
file unusable even if both agree, and a file cut anywhere is never read as a shorter one: these
are the cases in which the two halves could differ, and the proof has to pass through each.

`PoseSlotProofs` proves that the host sees what the filter meant, for all positions and
rates, all orientations and all transforms whose rotations turn a cube onto itself
(`ShapeAssumption`). The algebra comes in linear pieces: `ExactTurn` shows that the division
in `Rotate` leaves no rest for such a turn, which makes `Rotate` a matrix (`RotateValue`);
`TurnedBack` that the conjugate's undoes it; `TimesUndone` that multiplying by a quaternion and its
conjugate scales by its square, which is no change of rotation. `Answered` puts that together for
an answer that is applied; `LeftAlone` is about one that is not, which is right about a pose in a
usable space, and about one in a malformed space comes from a cold filter only. `MemoryInv` is
about the slot:
the transform the filter's memory is told in is usable, and the head it was taken with differs
by no change from the slot's. `HostSeesWorldPose` needs no assumption about heads;
`HostSeesWhatFilterMeant` (`HostSeesFilterOutput`, which also speaks of the head transform)
assumes `HeadsDoNotCreep`: to differ by no change is transitive for the heads that occur.

Assumptions: those on constants in `PoseFilter`, `PoseForwarding`, `DeviceRegistry`,
`DriverRegistration`, `HookInstall`, `VrServerLog`, `TransitionLog`, `RegistrationInspection`,
`StatusSession` and `PoseSlot` (each evaluated by TLC in every run of the module), and `LeadBounded`, `WarmupGood > 1`, `Orderly` and `HeadsDoNotCreep`
where a theorem states them. TLC and the proofs use the same definitions.

Only model-checked are the liveness properties (`StreamIsTracked`, `SilenceDropsPose`,
`CleanupEnds`, the registry's and the uninstaller's): fairness and `ENABLED` are beyond the
prover. `TypesOK` of `MCSubjects` is the three type invariants that `TransitionIsTyped`,
`InspectionTyped` and `SlotIsTyped` prove of its three machines.

## 7. Not modelled

* Quaternions in the filter: rotation passes through the same gates as translation;
  hemisphere choice and normalisation do not affect control. Rounding everywhere.
  Non-finite velocities are repaired in the code
  before the gates and are not enumerated.
* `tau * (1 - exp(-t / tau))` is replaced by `min(t, tau)`, which has the same limits, is
  monotone and never exceeds `t`.
* The silence threshold `max(25 ms, 2.5 * EWMA)`: any value from the floor up.
* Arrival clocks that go backwards; the filter's diagnostics; settings, except that
  `filterEnabled` is either way in `StatusSession`; `driver_main.cpp`, and the rate limit of
  the two warnings about transforms, which has the form of `recordStateChange`'s.
* Fields the code leaves stale while nothing reads them are parked at a fixed value.
* In `DeviceRegistry`: an exception during a pass, after the mask was exchanged. `RunFrame` would
  leave with the bits the pass had taken (`server_provider.cpp:155`); a device that is still
  Unknown asks again with its next callback, one that no longer calls is not asked for again.
* Re-entry of the host across devices: two lanes taken in opposite orders would deadlock;
  nothing in the sources says whether a host does this.
* In the installer: `VR_PATHREG_OVERRIDE` (fixed for a process, refused at the first
  check), locating SteamVR, path normalisation (an entry is its normalised path), messages,
  and exceptions of the hash function other than as a failed step. Two installers at once,
  and another program that registers this copy's own path; the script guards against
  neither.
* In the status window and its parser: the characters of a line or a string (a line is a
  message, a JSON string a token: UTF-8, escapes, numbers and white space are abstracted),
  calendar arithmetic, `normalizeWindowsPath` and the lexical classification of paths (a path
  is what it leads to; that the manifest of another copy cannot be read, which makes it a
  foreign driver, is therefore no case of its own), locating Steam and the log, and the dialog.
  They are pure functions of text, best tested as such. A local clock that is set back.
* In a log: tracker and transition lines after an unload. The parser ignores them, but neither
  `StatusSession` nor `TransitionLog` has a driver that writes one.
* Build, packaging and developer scripts: sequential, without state of their own.
