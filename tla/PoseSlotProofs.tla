--------------------------- MODULE PoseSlotProofs ---------------------------
(* Proofs about PoseSlot: whatever calibrations, malformed transforms and    *)
(* silences came before, the host puts a tracker where the filter says.      *)
EXTENDS PoseSlot, SequenceTheorems, TLAPS

(***************************************************************************)
(* The algebra.                                                            *)
(***************************************************************************)
\* What Times() computes, component by component.
LEMMA TimesValue ==
  ASSUME NEW p \in Quaternions, NEW q \in Quaternions
  PROVE  /\ Times(p, q) \in Quaternions
         /\ Times(p, q)[1] = p[1] * q[1] - (p[2] * q[2] + p[3] * q[3] + p[4] * q[4])
         /\ Times(p, q)[2] = p[1] * q[2] + q[1] * p[2] + (p[3] * q[4] - p[4] * q[3])
         /\ Times(p, q)[3] = p[1] * q[3] + q[1] * p[3] + (p[4] * q[2] - p[2] * q[4])
         /\ Times(p, q)[4] = p[1] * q[4] + q[1] * p[4] + (p[2] * q[3] - p[3] * q[2])
<1> DEFINE w == p[1] * q[1] - Dot(Turn(p), Turn(q))
           v == Plus(Plus([i \in 1 .. 3 |-> p[1] * q[i + 1]], [i \in 1 .. 3 |-> q[1] * p[i + 1]]),
                     Cross(Turn(p), Turn(q)))
<1>1. w \in Int /\ w = p[1] * q[1] - (p[2] * q[2] + p[3] * q[3] + p[4] * q[4])
  BY DEF Quaternions, Dot, Turn
<1>2. /\ v \in Vectors
      /\ v[1] = p[1] * q[2] + q[1] * p[2] + (p[3] * q[4] - p[4] * q[3])
      /\ v[2] = p[1] * q[3] + q[1] * p[3] + (p[4] * q[2] - p[2] * q[4])
      /\ v[3] = p[1] * q[4] + q[1] * p[4] + (p[2] * q[3] - p[3] * q[2])
  BY DEF Quaternions, Vectors, Plus, Cross, Turn
<1>3. Times(p, q) = <<w>> \o v
  BY DEF Times
<1> HIDE DEF w, v
<1>4. v \in Seq(Int) /\ Len(v) = 3
  <2>1. v \in Seq(Int)
    BY <1>2, SeqDef DEF Vectors
  <2>2. Len(v) \in Nat /\ DOMAIN v = 1 .. Len(v)
    BY <2>1, LenProperties
  <2>3. DOMAIN v = 1 .. 3
    BY <1>2 DEF Vectors
  <2>4. 1 .. Len(v) = 1 .. 3 /\ Len(v) \in Nat
    BY <2>2, <2>3, Zenon
  <2>5. \A n \in Nat : 1 .. n = 1 .. 3 => n = 3
    OBVIOUS
  <2> QED
    BY <2>1, <2>4, <2>5, Zenon
<1>5. <<w>> \in Seq(Int) /\ Len(<<w>>) = 1 /\ <<w>>[1] = w
  BY <1>1
<1> DEFINE u == <<w>>
           c == u \o v
<1>6. /\ c \in Seq(Int) /\ Len(c) = Len(u) + Len(v)
      /\ \A i \in 1 .. Len(u) + Len(v) : c[i] = IF i <= Len(u) THEN u[i] ELSE v[i - Len(u)]
  BY <1>4, <1>5, ConcatProperties, Zenon
<1>7. Times(p, q) = c
  BY <1>3
<1>8. Len(u) = 1 /\ u[1] = w
  BY <1>5
<1> HIDE DEF u, c
<1>9. /\ c \in Quaternions
      /\ c[1] = w /\ c[2] = v[1] /\ c[3] = v[2] /\ c[4] = v[3]
  <2>1. Len(c) = 4
    BY <1>4, <1>6, <1>8
  <2>2. c \in Quaternions
    BY <1>6, <2>1, LenProperties DEF Quaternions
  <2>3. \A i \in 1 .. 4 : c[i] = IF i <= 1 THEN u[i] ELSE v[i - 1]
    BY <1>4, <1>6, <1>8
  <2> QED
    BY <1>8, <2>2, <2>3
<1> QED
  BY <1>1, <1>2, <1>7, <1>9

LEMMA ConjugateValue ==
  ASSUME NEW q \in Quaternions
  PROVE  /\ Conjugate(q) \in Quaternions
         /\ Conjugate(q)[1] = q[1] /\ Conjugate(q)[2] = -q[2]
         /\ Conjugate(q)[3] = -q[3] /\ Conjugate(q)[4] = -q[4]
BY DEF Conjugate, Quaternions

\* Turning back and forth scales a quaternion, and a scaled one is the same turn.
LEMMA TimesUndone ==
  ASSUME NEW r \in Quaternions, NEW o \in Quaternions
  PROVE  SameRotation(Times(r, Times(Conjugate(r), o)), o)
<1> DEFINE m == Times(Conjugate(r), o)
           t == Times(r, m)
           n == r[1] * r[1] + r[2] * r[2] + r[3] * r[3] + r[4] * r[4]
<1>1. /\ m \in Quaternions
      /\ m[1] = r[1] * o[1] + (r[2] * o[2] + r[3] * o[3] + r[4] * o[4])
      /\ m[2] = r[1] * o[2] - o[1] * r[2] - (r[3] * o[4] - r[4] * o[3])
      /\ m[3] = r[1] * o[3] - o[1] * r[3] - (r[4] * o[2] - r[2] * o[4])
      /\ m[4] = r[1] * o[4] - o[1] * r[4] - (r[2] * o[3] - r[3] * o[2])
  <2>1. Conjugate(r) \in Quaternions
    BY ConjugateValue
  <2> QED
    BY <2>1, ConjugateValue, TimesValue DEF Quaternions
<1> HIDE DEF m
<1>2. /\ t \in Quaternions
      /\ t[1] = r[1] * m[1] - (r[2] * m[2] + r[3] * m[3] + r[4] * m[4])
      /\ t[2] = r[1] * m[2] + m[1] * r[2] + (r[3] * m[4] - r[4] * m[3])
      /\ t[3] = r[1] * m[3] + m[1] * r[3] + (r[4] * m[2] - r[2] * m[4])
      /\ t[4] = r[1] * m[4] + m[1] * r[4] + (r[2] * m[3] - r[3] * m[2])
  BY <1>1, TimesValue
<1> HIDE DEF t
<1>3. /\ r[1] \in Int /\ r[2] \in Int /\ r[3] \in Int /\ r[4] \in Int
      /\ o[1] \in Int /\ o[2] \in Int /\ o[3] \in Int /\ o[4] \in Int
      /\ n \in Int
  BY DEF Quaternions
<1>4. t[1] = n * o[1] /\ t[2] = n * o[2] /\ t[3] = n * o[3] /\ t[4] = n * o[4]
  <2>1. n = r[1] * r[1] + r[2] * r[2] + r[3] * r[3] + r[4] * r[4]
    OBVIOUS
  <2> HIDE DEF n
  <2>2. t[1] = n * o[1]
    BY <1>1, <1>2, <1>3, <2>1
  <2>3. t[2] = n * o[2]
    BY <1>1, <1>2, <1>3, <2>1
  <2>4. t[3] = n * o[3]
    BY <1>1, <1>2, <1>3, <2>1
  <2>5. t[4] = n * o[4]
    <3>1. /\ m[1] = r[1] * o[1] + r[2] * o[2] + r[3] * o[3] + r[4] * o[4]
          /\ m[2] = r[1] * o[2] - o[1] * r[2] - r[3] * o[4] + r[4] * o[3]
          /\ m[3] = r[1] * o[3] - o[1] * r[3] - r[4] * o[2] + r[2] * o[4]
          /\ m[4] = r[1] * o[4] - o[1] * r[4] - r[2] * o[3] + r[3] * o[2]
      BY <1>1, <1>3
    <3>2. t[4] = r[1] * m[4] + m[1] * r[4] + (r[2] * m[3] - r[3] * m[2])
      BY <1>2
    <3> QED
      BY <1>3, <2>1, <3>1, <3>2
  <2> QED
    BY <2>2, <2>3, <2>4, <2>5
<1> HIDE DEF n
<1> DEFINE s == QuatDot(o, o)
<1>5. s \in Int /\ s = o[1] * o[1] + (o[2] * o[2] + o[3] * o[3] + o[4] * o[4])
  BY <1>3 DEF QuatDot, Dot, Turn
<1>6. QuatDot(t, o) = t[1] * o[1] + (t[2] * o[2] + t[3] * o[3] + t[4] * o[4])
  BY DEF QuatDot, Dot, Turn
<1>7. QuatDot(t, t) = t[1] * t[1] + (t[2] * t[2] + t[3] * t[3] + t[4] * t[4])
  BY DEF QuatDot, Dot, Turn
<1> HIDE DEF s
<1>8. QuatDot(t, o) = n * s
  BY <1>3, <1>4, <1>5, <1>6
<1>9. QuatDot(t, t) = n * n * s
  BY <1>3, <1>4, <1>5, <1>7
<1>10. (n * s) * (n * s) = (n * n * s) * s
  BY <1>3, <1>5
<1> QED
  BY <1>8, <1>9, <1>10, Zenon DEF SameRotation, t, m, s

\* One coordinate of a turned vector: the square of the quaternion, and what the
\* turn adds, that many times over.
Units == {-1, 0, 1}
Sizes == {1, 2, 4}
Size(a, b, c, d) == a * a + (b * b + c * c + d * d)
Slant(a, b, c, d, x, y, z) == a * (c * z - d * y) + (c * (b * y - c * x) - d * (d * x - b * z))

\* For a turn of a cube the division is exact.
LEMMA ExactTurn ==
  ASSUME NEW a \in Units, NEW b \in Units, NEW c \in Units, NEW d \in Units,
         NEW x \in Int, NEW y \in Int, NEW z \in Int,
         Size(a, b, c, d) \in Sizes
  PROVE  LET n == Size(a, b, c, d)
             e == Slant(a, b, c, d, x, y, z)
         IN  x + (2 * e) \div n \in Int /\ n * (x + (2 * e) \div n) = n * x + 2 * e
<1> USE DEF Units, Sizes
<1> DEFINE n == Size(a, b, c, d)
           e == Slant(a, b, c, d, x, y, z)
<1>0. /\ n = a * a + (b * b + c * c + d * d)
      /\ e = a * (c * z - d * y) + (c * (b * y - c * x) - d * (d * x - b * z))
  BY DEF Size, Slant
<1>1. e \in Int /\ n \in {1, 2, 4}
  BY <1>0
<1> SUFFICES x + (2 * e) \div n \in Int /\ n * (x + (2 * e) \div n) = n * x + 2 * e
  OBVIOUS
<1> HIDE DEF n, e
<1>2. CASE n = 1
  BY <1>1, <1>2
<1>3. CASE n = 2
  BY <1>1, <1>3
<1>4. CASE n = 4
  <2>1. a \in {-1, 1} /\ b \in {-1, 1} /\ c \in {-1, 1} /\ d \in {-1, 1}
    BY <1>0, <1>4
  <2>2. PICK k \in {-1, 0, 1} : b * c - a * d = 2 * k
    BY <2>1
  <2>3. PICK l \in {-1, 0, 1} : a * c + b * d = 2 * l
    BY <2>1
  <2>4. c * c = 1 /\ d * d = 1
    BY <2>1
  <2>5. e = y * (b * c - a * d) + z * (a * c + b * d) - x * (c * c) - x * (d * d)
    BY <1>0
  <2>6. e = y * (2 * k) + z * (2 * l) - 2 * x
    BY <2>2, <2>3, <2>4, <2>5
  <2>7. 2 * e = 4 * (y * k + z * l - x)
    BY <2>6
  <2>8. y * k + z * l - x \in Int
    OBVIOUS
  <2>9. (2 * e) \div 4 = y * k + z * l - x
    BY <2>7, <2>8
  <2> QED
    BY <1>4, <2>7, <2>8, <2>9
<1> QED
  BY <1>1, <1>2, <1>3, <1>4

\* Rotate(), component by component; each is the same formula, with the axes
\* moved on by one.
Slant1(q, v) == Slant(q[1], q[2], q[3], q[4], v[1], v[2], v[3])
Slant2(q, v) == Slant(q[1], q[3], q[4], q[2], v[2], v[3], v[1])
Slant3(q, v) == Slant(q[1], q[4], q[2], q[3], v[3], v[1], v[2])

LEMMA RotateValue ==
  ASSUME NEW q, NEW v
  PROVE  /\ Rotate(q, v)[1] = v[1] + (2 * Slant1(q, v)) \div QuatDot(q, q)
         /\ Rotate(q, v)[2] = v[2] + (2 * Slant2(q, v)) \div QuatDot(q, q)
         /\ Rotate(q, v)[3] = v[3] + (2 * Slant3(q, v)) \div QuatDot(q, q)
<1> DEFINE c == Cross(Turn(q), v)
           d == Cross(Turn(q), c)
<1>1. /\ c[1] = q[3] * v[3] - q[4] * v[2] /\ c[2] = q[4] * v[1] - q[2] * v[3]
      /\ c[3] = q[2] * v[2] - q[3] * v[1]
  BY DEF Cross, Turn
<1> HIDE DEF c
<1>2. /\ d[1] = q[3] * c[3] - q[4] * c[2] /\ d[2] = q[4] * c[1] - q[2] * c[3]
      /\ d[3] = q[2] * c[2] - q[3] * c[1]
  BY DEF Cross, Turn
<1>3. Rotate(q, v) = [i \in 1 .. 3 |-> v[i] + (2 * (q[1] * c[i] + d[i])) \div QuatDot(q, q)]
  BY Zenon DEF Rotate, c, d
<1> HIDE DEF d
<1>4. /\ q[1] * c[1] + d[1] = Slant1(q, v) /\ q[1] * c[2] + d[2] = Slant2(q, v)
      /\ q[1] * c[3] + d[3] = Slant3(q, v)
  BY <1>1, <1>2, Zenon DEF Slant1, Slant2, Slant3, Slant
<1>5. 1 \in 1 .. 3 /\ 2 \in 1 .. 3 /\ 3 \in 1 .. 3
  OBVIOUS
<1> QED
  BY <1>3, <1>4, <1>5, Zenon

LEMMA TurnedValue ==
  ASSUME NEW q \in CubeTurns, NEW v \in Vectors
  PROVE  LET n == QuatDot(q, q) IN
         /\ n \in Sizes /\ Rotate(q, v) \in Vectors
         /\ n * Rotate(q, v)[1] = n * v[1] + 2 * Slant1(q, v)
         /\ n * Rotate(q, v)[2] = n * v[2] + 2 * Slant2(q, v)
         /\ n * Rotate(q, v)[3] = n * v[3] + 2 * Slant3(q, v)
<1> DEFINE n == QuatDot(q, q)
           w == Rotate(q, v)
<1>1. /\ q[1] \in Units /\ q[2] \in Units /\ q[3] \in Units /\ q[4] \in Units
      /\ n \in Sizes
  BY DEF CubeTurns, Units, Sizes
<1>2. v[1] \in Int /\ v[2] \in Int /\ v[3] \in Int
  BY DEF Vectors
<1>3. /\ n = Size(q[1], q[2], q[3], q[4]) /\ n = Size(q[1], q[3], q[4], q[2])
      /\ n = Size(q[1], q[4], q[2], q[3])
  <2>1. n = q[1] * q[1] + (q[2] * q[2] + q[3] * q[3] + q[4] * q[4])
    BY DEF QuatDot, Dot, Turn
  <2> HIDE DEF n
  <2> QED
    BY <1>1, <2>1 DEF Size, Units
<1>4. /\ w[1] = v[1] + (2 * Slant1(q, v)) \div n /\ w[2] = v[2] + (2 * Slant2(q, v)) \div n
      /\ w[3] = v[3] + (2 * Slant3(q, v)) \div n
  BY RotateValue, Zenon
<1> HIDE DEF n
<1>5. /\ v[1] + (2 * Slant1(q, v)) \div n \in Int
      /\ n * (v[1] + (2 * Slant1(q, v)) \div n) = n * v[1] + 2 * Slant1(q, v)
  <2> DEFINE m == Size(q[1], q[2], q[3], q[4])
             s == Slant(q[1], q[2], q[3], q[4], v[1], v[2], v[3])
  <2>1. m = n /\ s = Slant1(q, v) /\ m \in Sizes
    BY <1>1, <1>3, Zenon DEF Slant1
  <2>2. v[1] + (2 * s) \div m \in Int /\ m * (v[1] + (2 * s) \div m) = m * v[1] + 2 * s
    BY <1>1, <1>2, <2>1, ExactTurn
  <2> QED
    BY <2>1, <2>2, Zenon
<1>6. /\ v[2] + (2 * Slant2(q, v)) \div n \in Int
      /\ n * (v[2] + (2 * Slant2(q, v)) \div n) = n * v[2] + 2 * Slant2(q, v)
  <2> DEFINE m == Size(q[1], q[3], q[4], q[2])
             s == Slant(q[1], q[3], q[4], q[2], v[2], v[3], v[1])
  <2>1. m = n /\ s = Slant2(q, v) /\ m \in Sizes
    BY <1>1, <1>3, Zenon DEF Slant2
  <2>2. v[2] + (2 * s) \div m \in Int /\ m * (v[2] + (2 * s) \div m) = m * v[2] + 2 * s
    BY <1>1, <1>2, <2>1, ExactTurn
  <2> QED
    BY <2>1, <2>2, Zenon
<1>7. /\ v[3] + (2 * Slant3(q, v)) \div n \in Int
      /\ n * (v[3] + (2 * Slant3(q, v)) \div n) = n * v[3] + 2 * Slant3(q, v)
  <2> DEFINE m == Size(q[1], q[4], q[2], q[3])
             s == Slant(q[1], q[4], q[2], q[3], v[3], v[1], v[2])
  <2>1. m = n /\ s = Slant3(q, v) /\ m \in Sizes
    BY <1>1, <1>3, Zenon DEF Slant3
  <2>2. v[3] + (2 * s) \div m \in Int /\ m * (v[3] + (2 * s) \div m) = m * v[3] + 2 * s
    BY <1>1, <1>2, <2>1, ExactTurn
  <2> QED
    BY <2>1, <2>2, Zenon
<1>8. w = [i \in 1 .. 3 |-> w[i]]
  BY DEF Rotate
<1> HIDE DEF w
<1>9. w \in Vectors
  BY <1>4, <1>5, <1>6, <1>7, <1>8 DEF Vectors
<1> QED
  BY <1>1, <1>4, <1>5, <1>6, <1>7, <1>9, Zenon DEF n, w

LEMMA ConjugateTurns ==
  ASSUME NEW q \in CubeTurns
  PROVE  /\ Conjugate(q) \in CubeTurns /\ q \in Quaternions
         /\ QuatDot(Conjugate(q), Conjugate(q)) = QuatDot(q, q)
<1>1. /\ q[1] \in Units /\ q[2] \in Units /\ q[3] \in Units /\ q[4] \in Units
      /\ q \in Quaternions
  BY DEF CubeTurns, Units, Quaternions
<1>2. Conjugate(q) \in [1 .. 4 -> {-1, 0, 1}]
  BY <1>1 DEF Conjugate, Units
<1>3. QuatDot(Conjugate(q), Conjugate(q)) = QuatDot(q, q)
  BY <1>1 DEF Conjugate, QuatDot, Dot, Turn, Units
<1> QED
  BY <1>1, <1>2, <1>3 DEF CubeTurns

\* s is coordinate x of the vector (x, y, z) after a turn.
TurnsTo(n, a, b, c, d, x, y, z, s) == s \in Int /\ n * s = n * x + 2 * Slant(a, b, c, d, x, y, z)

\* One coordinate, turned by the conjugate and turned back.
ThereAndBack(n, a, b, c, d, x, y, z, s, t, u, k) ==
  /\ a \in Int /\ b \in Int /\ c \in Int /\ d \in Int
  /\ n \in Sizes /\ n = Size(a, b, c, d)
  /\ x \in Int /\ y \in Int /\ z \in Int
  /\ TurnsTo(n, a, -b, -c, -d, x, y, z, s)
  /\ TurnsTo(n, a, -c, -d, -b, y, z, x, t)
  /\ TurnsTo(n, a, -d, -b, -c, z, x, y, u)
  /\ TurnsTo(n, a, b, c, d, s, t, u, k)

LEMMA SlantUndone ==
  ASSUME NEW n, NEW a, NEW b, NEW c, NEW d, NEW x, NEW y, NEW z, NEW s, NEW t, NEW u, NEW k,
         ThereAndBack(n, a, b, c, d, x, y, z, s, t, u, k)
  PROVE  k = x
<1> USE DEF ThereAndBack, TurnsTo
<1>1. n = a * a + (b * b + c * c + d * d) /\ n \in Int
  BY DEF Size, Sizes
<1> DEFINE S == n * x + 2 * Slant(a, -b, -c, -d, x, y, z)
           T == n * y + 2 * Slant(a, -c, -d, -b, y, z, x)
           U == n * z + 2 * Slant(a, -d, -b, -c, z, x, y)
<1>2. S = n * x + 2 * (a * (d * y - c * z) + (c * (b * y - c * x) - d * (d * x - b * z)))
  BY <1>1 DEF Slant
<1>3. T = n * y + 2 * (a * (b * z - d * x) + (d * (c * z - d * y) - b * (b * y - c * x)))
  BY <1>1 DEF Slant
<1>4. U = n * z + 2 * (a * (c * x - b * y) + (b * (d * x - b * z) - c * (c * z - d * y)))
  BY <1>1 DEF Slant
<1>5. n * s = S /\ n * t = T /\ n * u = U
  OBVIOUS
<1> HIDE DEF S, T, U
<1>6. n * (n * k) = n * S + 2 * (a * (c * U - d * T) + (c * (b * T - c * S) - d * (d * S - b * U)))
  <2>1. s \in Int /\ t \in Int /\ u \in Int /\ k \in Int
    OBVIOUS
  <2>2. n * Slant(a, b, c, d, s, t, u) = Slant(a, b, c, d, S, T, U)
    <3>1. n * Slant(a, b, c, d, s, t, u) = Slant(a, b, c, d, n * s, n * t, n * u)
      BY <1>1, <2>1 DEF Slant
    <3> QED
      BY <1>5, <3>1, Zenon
  <2> DEFINE e == Slant(a, b, c, d, s, t, u)
  <2>3. n * k = n * s + 2 * e
    OBVIOUS
  <2>4. e \in Int
    BY <2>1 DEF Slant
  <2> HIDE DEF e
  <2>5. n * (n * k) = n * (n * s) + 2 * (n * e)
    BY <1>1, <2>1, <2>3, <2>4
  <2> QED
    BY <1>5, <2>2, <2>5, Zenon DEF Slant, e
<1>7. n * S + 2 * (a * (c * U - d * T) + (c * (b * T - c * S) - d * (d * S - b * U))) = n * (n * x)
  BY <1>1, <1>2, <1>3, <1>4
<1>8. n * (n * k) = n * (n * x)
  BY <1>6, <1>7
<1> QED
  BY <1>8 DEF Sizes

\* What is turned from the world into the driver's space and back is unchanged.
LEMMA TurnedBack ==
  ASSUME NEW q \in CubeTurns, NEW v \in Vectors
  PROVE  Rotate(Conjugate(q), v) \in Vectors /\ Rotate(q, Rotate(Conjugate(q), v)) = v
<1> DEFINE r == Conjugate(q)
           w == Rotate(r, v)
           u == Rotate(q, w)
           n == QuatDot(q, q)
<1>1. r \in CubeTurns /\ QuatDot(r, r) = n /\ q \in Quaternions
  BY ConjugateTurns
<1>2. r[1] = q[1] /\ r[2] = -q[2] /\ r[3] = -q[3] /\ r[4] = -q[4]
  BY <1>1, ConjugateValue
<1> HIDE DEF r
<1>3. /\ n \in Sizes /\ w \in Vectors
      /\ n * w[1] = n * v[1] + 2 * Slant1(r, v)
      /\ n * w[2] = n * v[2] + 2 * Slant2(r, v)
      /\ n * w[3] = n * v[3] + 2 * Slant3(r, v)
  BY <1>1, TurnedValue, Zenon
<1> HIDE DEF w
<1>4. /\ u \in Vectors
      /\ n * u[1] = n * w[1] + 2 * Slant1(q, w)
      /\ n * u[2] = n * w[2] + 2 * Slant2(q, w)
      /\ n * u[3] = n * w[3] + 2 * Slant3(q, w)
  BY <1>3, TurnedValue, Zenon
<1> HIDE DEF u
<1>5. /\ n = Size(q[1], q[2], q[3], q[4]) /\ n = Size(q[1], q[3], q[4], q[2])
      /\ n = Size(q[1], q[4], q[2], q[3])
  <2>1. n = q[1] * q[1] + (q[2] * q[2] + q[3] * q[3] + q[4] * q[4])
    BY DEF QuatDot, Dot, Turn
  <2> HIDE DEF n
  <2> QED
    BY <1>1, <2>1 DEF Size, Quaternions
<1> HIDE DEF n
<1>6. /\ q[1] \in Int /\ q[2] \in Int /\ q[3] \in Int /\ q[4] \in Int
      /\ v[1] \in Int /\ v[2] \in Int /\ v[3] \in Int
      /\ w[1] \in Int /\ w[2] \in Int /\ w[3] \in Int
      /\ u[1] \in Int /\ u[2] \in Int /\ u[3] \in Int
  BY <1>1, <1>3, <1>4 DEF Vectors, Quaternions
<1>7. /\ TurnsTo(n, q[1], -q[2], -q[3], -q[4], v[1], v[2], v[3], w[1])
      /\ TurnsTo(n, q[1], -q[3], -q[4], -q[2], v[2], v[3], v[1], w[2])
      /\ TurnsTo(n, q[1], -q[4], -q[2], -q[3], v[3], v[1], v[2], w[3])
  BY <1>2, <1>3, <1>6, Zenon DEF Slant1, Slant2, Slant3, TurnsTo
<1>8. /\ TurnsTo(n, q[1], q[2], q[3], q[4], w[1], w[2], w[3], u[1])
      /\ TurnsTo(n, q[1], q[3], q[4], q[2], w[2], w[3], w[1], u[2])
      /\ TurnsTo(n, q[1], q[4], q[2], q[3], w[3], w[1], w[2], u[3])
  BY <1>4, <1>6, Zenon DEF Slant1, Slant2, Slant3, TurnsTo
<1>9. u[1] = v[1]
  <2>1. ThereAndBack(n, q[1], q[2], q[3], q[4], v[1], v[2], v[3], w[1], w[2], w[3], u[1])
    BY <1>3, <1>5, <1>6, <1>7, <1>8, Zenon DEF ThereAndBack
  <2> QED
    BY <2>1, SlantUndone
<1>10. u[2] = v[2]
  <2>1. ThereAndBack(n, q[1], q[3], q[4], q[2], v[2], v[3], v[1], w[2], w[3], w[1], u[2])
    BY <1>3, <1>5, <1>6, <1>7, <1>8, Zenon DEF ThereAndBack
  <2> QED
    BY <2>1, SlantUndone
<1>11. u[3] = v[3]
  <2>1. ThereAndBack(n, q[1], q[4], q[2], q[3], v[3], v[1], v[2], w[3], w[1], w[2], u[3])
    BY <1>3, <1>5, <1>6, <1>7, <1>8, Zenon DEF ThereAndBack
  <2> QED
    BY <2>1, SlantUndone
<1>12. u = v
  BY <1>4, <1>9, <1>10, <1>11 DEF Vectors
<1> QED
  BY <1>3, <1>12, Zenon DEF u, w, r

(***************************************************************************)
(* The adapter: into the world and back.                                   *)
(***************************************************************************)
Worlds == [position : Vectors, orientation : Quaternions, rate : Vectors]
Transforms == [rotation : CubeTurns, translation : Vectors]

LEMMA SampleTyped ==
  ASSUME NEW body \in Worlds, NEW t \in Transforms
  PROVE  ToSample(body, t) \in Worlds
<1>1. t.rotation \in CubeTurns /\ t.translation \in Vectors /\ t.rotation \in Quaternions
  BY ConjugateTurns DEF Transforms
<1>2. body.position \in Vectors /\ body.orientation \in Quaternions /\ body.rate \in Vectors
  BY DEF Worlds
<1> DEFINE p == Rotate(t.rotation, body.position)
           q == Times(t.rotation, body.orientation)
           r == Rotate(t.rotation, body.rate)
<1>3. p \in Vectors /\ r \in Vectors
  BY <1>1, <1>2, TurnedValue, Zenon
<1>4. q \in Quaternions
  BY <1>1, <1>2, TimesValue, Zenon
<1>5. ToSample(body, t) = [position |-> Plus(p, t.translation), orientation |-> q, rate |-> r]
  BY Zenon DEF ToSample, Body
<1> HIDE DEF p, q, r
<1>6. Plus(p, t.translation) \in Vectors
  BY <1>1, <1>3 DEF Plus, Vectors
<1> QED
  BY <1>3, <1>4, <1>5, <1>6 DEF Worlds

\* applyOutput() undoes toSample(), up to the sign and the scale of a quaternion.
LEMMA OutputSeen ==
  ASSUME NEW world \in Worlds, NEW t \in Transforms
  PROVE  SameBody(ToSample(Body(Rotate(Conjugate(t.rotation), Minus(world.position, t.translation)),
                                Times(Conjugate(t.rotation), world.orientation),
                                Rotate(Conjugate(t.rotation), world.rate)), t),
                  world)
<1> DEFINE q == t.rotation
           b == Body(Rotate(Conjugate(q), Minus(world.position, t.translation)),
                     Times(Conjugate(q), world.orientation),
                     Rotate(Conjugate(q), world.rate))
           s == ToSample(b, t)
<1>1. q \in CubeTurns /\ t.translation \in Vectors /\ q \in Quaternions
  BY ConjugateTurns DEF Transforms
<1>2. world.position \in Vectors /\ world.orientation \in Quaternions /\ world.rate \in Vectors
  BY DEF Worlds
<1>3. /\ b.position = Rotate(Conjugate(q), Minus(world.position, t.translation))
      /\ b.orientation = Times(Conjugate(q), world.orientation)
      /\ b.rate = Rotate(Conjugate(q), world.rate)
  BY Zenon DEF Body
<1>4. /\ s.position = Plus(Rotate(q, b.position), t.translation)
      /\ s.orientation = Times(q, b.orientation) /\ s.rate = Rotate(q, b.rate)
  BY Zenon DEF ToSample, Body
<1> HIDE DEF b, s
<1>5. Minus(world.position, t.translation) \in Vectors
  BY <1>1, <1>2 DEF Minus, Vectors
<1>6. Rotate(q, b.position) = Minus(world.position, t.translation)
  BY <1>1, <1>3, <1>5, TurnedBack, Zenon
<1>7. s.position = world.position
  BY <1>1, <1>2, <1>4, <1>6 DEF Plus, Minus, Vectors
<1>8. s.rate = world.rate
  BY <1>1, <1>2, <1>3, <1>4, TurnedBack, Zenon
<1>9. SameRotation(s.orientation, world.orientation)
  BY <1>1, <1>2, <1>3, <1>4, TimesUndone, Zenon
<1> QED
  BY <1>7, <1>8, <1>9, Zenon DEF SameBody, s, b

LEMMA NoChange == ASSUME NEW t \in Transforms PROVE ~TransformChanged(t, t)
<1> DEFINE shift == Minus(t.translation, t.translation)
<1>1. shift[1] = 0 /\ shift[2] = 0 /\ shift[3] = 0
  BY DEF Transforms, Vectors, Minus
<1> HIDE DEF shift
<1>2. Dot(shift, shift) = 0
  BY <1>1 DEF Dot
<1>3. Tolerance * Tolerance >= 0
  BY SlotAssumption
<1>4. ~(Dot(shift, shift) > Tolerance * Tolerance)
  BY <1>2, <1>3, SlotAssumption
<1>5. SameRotation(t.rotation, t.rotation)
  BY Zenon DEF SameRotation
<1> QED
  BY <1>4, <1>5, Zenon DEF TransformChanged, shift

(***************************************************************************)
(* The slot.                                                               *)
(***************************************************************************)
\* Heads that differ by no change from a third do not differ by one from each other.
HeadsDoNotCreep ==
  \A a, b, c \in Heads :
    ~TransformChanged(a, b) /\ ~TransformChanged(b, c) => ~TransformChanged(a, c)

\* One head, as far as that can be said.
SameHead(a, b) == HeadsDoNotCreep => ~TransformChanged(a, b)

\* A filter's memory is of the world, and of the head the callbacks still have.
MemoryInv ==
  kept # Nothing =>
    /\ Read(slot.transform) /\ Read(slot.driverFromHead)
    /\ kept.world \in Worlds /\ kept.head \in Heads
    /\ SameHead(kept.head, slot.driverFromHead)

SlotInv ==
  /\ slot.transform \in Spaces \cup {Unusable}
  /\ slot.driverFromHead \in Heads \cup {Unusable}
  /\ slot.lastDriverPose # Nothing =>
       /\ slot.lastDriverPose \in Poses /\ slot.lastDriverPose.head = slot.driverFromHead
       /\ Read(slot.transform) /\ Read(slot.driverFromHead)

\* Of HostSeesFilterOutput, what needs nothing of the heads.
SeenInWorld ==
  meant # Unfiltered =>
    /\ Read(sent.space) =>
         SameBody(ToSample(sent.body, sent.space), meant.world) /\ sent.valid = meant.valid
    /\ ~Read(sent.space) => ~meant.modified /\ ~meant.valid /\ kept = Nothing

SeenInv ==
  /\ SeenInWorld
  /\ meant # Unfiltered => (meant.valid => SameHead(meant.head, sent.head))

PoseInv == SlotInv /\ MemoryInv /\ SeenInv

LEMMA Shapes ==
  /\ Bodies \subseteq Worlds
  /\ \A t \in Spaces \cup Heads : t \in Transforms /\ Read(t)
  /\ ~Read(Unusable)
BY ShapeAssumption, SlotAssumption DEF Worlds, Transforms, Read

\* What the host is told, when the filter answers for a pose.
LEMMA Answered ==
  ASSUME NEW pose \in Poses, NEW t \in Spaces, NEW valid \in BOOLEAN,
         NEW world \in Worlds, NEW head,
         meant' = Answer(TRUE, valid, world, head), sent' = ApplyOutput(pose, meant', t),
         valid => SameHead(head, pose.head)
  PROVE  SeenInv'
<1> DEFINE b == Body(Rotate(Conjugate(t.rotation), Minus(world.position, t.translation)),
                     Times(Conjugate(t.rotation), world.orientation),
                     Rotate(Conjugate(t.rotation), world.rate))
<1>1. t \in Transforms /\ Read(t)
  BY Shapes
<1>2. meant'.valid = valid /\ meant'.world = world /\ meant'.head = head
  BY Zenon DEF Answer
<1>3. sent' = [pose EXCEPT !.body = b, !.space = t, !.valid = valid, !.connected = TRUE]
  BY <1>2, Zenon DEF ApplyOutput
<1>4. SameBody(ToSample(b, t), world)
  BY <1>1, OutputSeen
<1> HIDE DEF b
<1>5. sent'.body = b /\ sent'.space = t /\ sent'.valid = valid /\ sent'.head = pose.head
  BY <1>3 DEF Poses
<1> QED
  BY <1>1, <1>2, <1>4, <1>5, Zenon DEF SeenInv, SeenInWorld

\* And when its answer changes nothing: good as the filter says, or bad to a cold one.
LEMMA LeftAlone ==
  ASSUME NEW pose \in Poses, NEW t \in Spaces, NEW valid \in BOOLEAN,
         valid = (pose.valid /\ Read(pose.space)), Read(pose.space) => t = pose.space,
         meant' = Answer(FALSE, valid, ToSample(pose.body, t), pose.head), sent' = pose,
         pose.head \in Heads, ~valid => kept' = Nothing
  PROVE  SeenInv'
<1>1. /\ meant'.modified = FALSE /\ meant'.valid = valid
      /\ meant'.world = ToSample(pose.body, t) /\ meant'.head = pose.head
  BY Zenon DEF Answer
<1>2. ASSUME Read(pose.space)
      PROVE  SameBody(ToSample(sent'.body, sent'.space), meant'.world) /\ sent'.valid = meant'.valid
  <2>1. pose.valid \in BOOLEAN
    BY DEF Poses
  <2>2. valid = pose.valid
    BY <1>2, <2>1, Zenon
  <2>3. SameBody(meant'.world, meant'.world)
    BY Zenon DEF SameBody, SameRotation
  <2>4. ToSample(sent'.body, sent'.space) = meant'.world
    BY <1>1, <1>2, Zenon
  <2> QED
    BY <1>1, <2>2, <2>3, <2>4, Zenon
<1>3. ASSUME ~Read(pose.space) PROVE valid = FALSE /\ kept' = Nothing
  BY <1>3, Zenon
<1>4. SameHead(meant'.head, sent'.head)
  <2>1. ~TransformChanged(pose.head, pose.head)
    BY Shapes, NoChange
  <2> QED
    BY <1>1, <2>1, Zenon DEF SameHead
<1> QED
  BY <1>1, <1>2, <1>3, <1>4, Zenon DEF SeenInv, SeenInWorld

\* A pose the filter was not asked about says nothing for it.
LEMMA Unanswered == ASSUME meant' = Unfiltered PROVE SeenInv'
BY Zenon DEF SeenInv, SeenInWorld

LEMMA BypassKeeps ==
  ASSUME NEW pose, NEW t \in Spaces \cup {Unusable}, NEW h \in Heads \cup {Unusable},
         Bypass(pose, t, h)
  PROVE  PoseInv'
<1>1. /\ slot' = [lastDriverPose |-> Nothing, transform |-> t, driverFromHead |-> h]
      /\ kept' = Nothing /\ meant' = Unfiltered
  BY DEF Bypass
<1>2. SlotInv' /\ MemoryInv'
  BY <1>1 DEF SlotInv, MemoryInv
<1> QED
  BY <1>1, <1>2, Unanswered DEF PoseInv

LEMMA FilterKeeps ==
  ASSUME PoseInv, NEW pose \in Poses \cup {Disconnected}, Filter(pose)
  PROVE  PoseInv'
<1> DEFINE t == IF Read(pose.space) THEN pose.space ELSE slot.transform
           sample == Kept(ToSample(pose.body, t), pose.head)
           good == pose.valid /\ Read(pose.space)
<1>1. /\ Steady(pose) /\ Read(t)
      /\ slot' = [lastDriverPose |-> pose, transform |-> t, driverFromHead |-> pose.head]
      /\ Push(sample, good)
      /\ sent' = IF meant'.modified THEN ApplyOutput(pose, meant', t) ELSE pose
  BY Zenon DEF Filter
<1>2. pose \in Poses /\ pose.head \in Heads /\ Read(pose.head)
  <2>1. Read(pose.head)
    BY <1>1 DEF Steady
  <2>2. ~Read(Disconnected.head)
    BY Shapes DEF Disconnected
  <2> QED
    BY <2>1, <2>2 DEF Poses, Read
<1>3. t \in Spaces
  BY <1>1, <1>2 DEF Poses, Read, PoseInv, SlotInv
<1>4. pose.body \in Worlds /\ t \in Transforms /\ pose.head \in Transforms
  BY <1>2, <1>3, Shapes DEF Poses
<1> HIDE DEF t
<1>5. sample.world \in Worlds /\ sample.head = pose.head
  BY <1>4, SampleTyped DEF Kept
<1>6. SameHead(pose.head, pose.head)
  BY <1>4, NoChange DEF SameHead
<1>7. ASSUME kept # Nothing
      PROVE  /\ kept.world \in Worlds /\ kept.head \in Heads
             /\ SameHead(kept.head, pose.head)
  <2>1. /\ kept.world \in Worlds /\ kept.head \in Heads
        /\ SameHead(kept.head, slot.driverFromHead) /\ Read(slot.driverFromHead)
    BY <1>7 DEF PoseInv, MemoryInv
  <2>2. slot.driverFromHead \in Heads
    BY <2>1 DEF PoseInv, SlotInv, Read
  <2>3. ~TransformChanged(slot.driverFromHead, pose.head)
    BY <1>1, <1>2, <2>1 DEF Steady, HasMoved
  <2> QED
    BY <1>2, <2>1, <2>2, <2>3, Zenon DEF SameHead, HeadsDoNotCreep
<1>8. good \in BOOLEAN
  BY <1>2 DEF Poses
<1>9. Read(pose.space) => t = pose.space
  BY Zenon DEF t
<1> DEFINE Others(memory) == {memory} \cup (IF good THEN {sample} ELSE {})
<1>10. PICK memory \in {kept, Nothing} :
         \/ memory = Nothing /\ StayCold(sample, good)
         \/ good /\ Accept(sample)
         \/ memory # Nothing /\ AnswerFrom(Others(memory))
  BY <1>1, Zenon DEF Push
<1>11. ASSUME memory # Nothing
       PROVE  \A k \in Others(memory) : /\ k.world \in Worlds /\ k.head \in Heads
                                       /\ SameHead(k.head, pose.head)
  <2> HIDE DEF sample, good
  <2> QED
    BY <1>2, <1>5, <1>6, <1>7, <1>10, <1>11
<1>12. SlotInv'
  BY <1>1, <1>2, <1>3 DEF SlotInv
<1>13. ASSUME NEW k, kept' = k, k # Nothing => /\ k.world \in Worlds /\ k.head \in Heads
                                              /\ SameHead(k.head, pose.head)
       PROVE  MemoryInv'
  BY <1>1, <1>2, <1>13 DEF MemoryInv
<1>14. ASSUME NEW valid \in BOOLEAN, NEW world \in Worlds, NEW head,
              meant' = Answer(TRUE, valid, world, head),
              valid => SameHead(head, pose.head)
       PROVE  SeenInv'
  <2>1. meant'.modified = TRUE
    BY <1>14 DEF Answer
  <2>2. sent' = ApplyOutput(pose, meant', t)
    BY <1>1, <2>1, Zenon
  <2> QED
    BY <1>2, <1>3, <1>14, <2>2, Answered
<1>15. ASSUME NEW valid \in BOOLEAN, valid = good, ~valid => kept' = Nothing,
              meant' = Answer(FALSE, valid, sample.world, sample.head)
       PROVE  SeenInv'
  <2>1. meant'.modified = FALSE
    BY <1>15 DEF Answer
  <2>2. sent' = pose
    BY <1>1, <2>1, Zenon
  <2>3. sample.world = ToSample(pose.body, t) /\ sample.head = pose.head
    BY DEF Kept
  <2>4. meant' = Answer(FALSE, valid, ToSample(pose.body, t), pose.head)
    BY <1>15, <2>3, Zenon
  <2>5. valid = (pose.valid /\ Read(pose.space))
    BY <1>15, Zenon DEF good
  <2> HIDE DEF sample, good
  <2> QED
    BY <1>2, <1>3, <1>9, <1>15, <2>2, <2>4, <2>5, LeftAlone
<1> HIDE DEF sample, good
<1>16. CASE StayCold(sample, good)
  <2>1. kept' = Nothing /\ meant' = Answer(good, FALSE, sample.world, sample.head)
    BY <1>16 DEF StayCold
  <2>2. MemoryInv'
    BY <1>13, <2>1, Zenon
  <2>3. SeenInv'
    <3>1. CASE good
      BY <1>5, <1>8, <1>14, <2>1, <3>1
    <3>2. CASE ~good
      BY <1>8, <1>15, <2>1, <3>2
    <3> QED
      BY <3>1, <3>2
  <2> QED
    BY <1>12, <2>2, <2>3 DEF PoseInv
<1>17. CASE good /\ Accept(sample)
  <2>1. PICK modified \in BOOLEAN :
          kept' = sample /\ meant' = Answer(modified, TRUE, sample.world, sample.head)
    BY <1>17 DEF Accept
  <2>2. MemoryInv'
    BY <1>2, <1>5, <1>6, <1>13, <2>1
  <2>3. SeenInv'
    <3>1. CASE modified
      BY <1>5, <1>6, <1>14, <2>1, <3>1
    <3>2. CASE ~modified
      BY <1>8, <1>15, <1>17, <2>1, <3>2
    <3> QED
      BY <3>1, <3>2
  <2> QED
    BY <1>12, <2>2, <2>3 DEF PoseInv
<1>18. CASE memory # Nothing /\ AnswerFrom(Others(memory))
  <2>1. PICK k \in Others(memory), valid \in BOOLEAN :
          kept' \in Others(memory) /\ meant' = Answer(TRUE, valid, k.world, k.head)
    BY <1>18, Zenon DEF AnswerFrom
  <2> HIDE DEF Others
  <2>2. MemoryInv'
    BY <1>11, <1>13, <1>18, <2>1
  <2>3. SeenInv'
    BY <1>11, <1>14, <1>18, <2>1
  <2> QED
    BY <1>12, <2>2, <2>3 DEF PoseInv
<1> QED
  BY <1>10, <1>16, <1>17, <1>18

LEMMA FilterPoseKeeps ==
  ASSUME PoseInv, FilterPose
  PROVE  PoseInv'
<1>1. PICK pose \in Poses \cup {Disconnected} :
        \/ BypassNoHead(pose) \/ BypassNewHead(pose) \/ BypassNewSpace(pose)
        \/ BypassNoSpace(pose) \/ Filter(pose)
  BY Zenon DEF FilterPose
<1>2. pose.space \in Spaces \cup {Unusable} /\ pose.head \in Heads \cup {Unusable}
  <2>1. Disconnected.space = Unusable /\ Disconnected.head = Unusable
    BY Zenon DEF Disconnected
  <2>2. CASE pose \in Poses
    BY <2>2 DEF Poses
  <2>3. CASE pose = Disconnected
    BY <2>1, <2>3
  <2> QED
    BY <2>2, <2>3
<1>3. slot.transform \in Spaces \cup {Unusable} /\ slot.driverFromHead \in Heads \cup {Unusable}
  BY DEF PoseInv, SlotInv
<1>4. CASE BypassNoHead(pose)
  BY <1>4, BypassKeeps DEF BypassNoHead
<1>5. CASE BypassNewHead(pose)
  BY <1>2, <1>3, <1>5, BypassKeeps DEF BypassNewHead
<1>6. CASE BypassNewSpace(pose)
  BY <1>2, <1>3, <1>6, BypassKeeps DEF BypassNewSpace
<1>7. CASE BypassNoSpace(pose)
  BY <1>2, <1>3, <1>7, BypassKeeps DEF BypassNoSpace
<1> QED
  BY <1>1, <1>4, <1>5, <1>6, <1>7, FilterKeeps

LEMMA RunFrameKeeps ==
  ASSUME PoseInv, RunFrame
  PROVE  PoseInv'
<1>1. /\ slot.lastDriverPose # Nothing /\ kept # Nothing /\ kept' = kept
      /\ sent' = ApplyOutput(slot.lastDriverPose, meant', slot.transform)
  BY DEF RunFrame
<1>2. PICK valid \in BOOLEAN :
        /\ meant' = Answer(TRUE, valid, kept.world, kept.head)
        /\ slot' = IF valid THEN slot ELSE [slot EXCEPT !.lastDriverPose = Nothing]
  BY Zenon DEF RunFrame
<1>3. /\ slot.transform \in Spaces /\ slot.lastDriverPose \in Poses
      /\ slot.lastDriverPose.head = slot.driverFromHead
  BY <1>1 DEF PoseInv, SlotInv, Read
<1>4. kept.world \in Worlds /\ SameHead(kept.head, slot.driverFromHead)
  BY <1>1 DEF PoseInv, MemoryInv
<1>5. SeenInv'
  BY <1>1, <1>2, <1>3, <1>4, Answered
<1>6. /\ slot'.transform = slot.transform /\ slot'.driverFromHead = slot.driverFromHead
      /\ slot'.lastDriverPose \in {slot.lastDriverPose, Nothing}
  BY <1>2 DEF PoseInv
<1>7. SlotInv' /\ MemoryInv'
  BY <1>1, <1>6, Zenon DEF PoseInv, SlotInv, MemoryInv
<1> QED
  BY <1>5, <1>7 DEF PoseInv

LEMMA PoseInvInit == PoseInit => PoseInv
BY DEF PoseInit, PoseInv, SlotInv, MemoryInv, SeenInv, SeenInWorld, Fresh

LEMMA PoseInvNext ==
  ASSUME PoseInv, [PoseNext]_poseVars
  PROVE  PoseInv'
<1>1. CASE InitSlot
  <2>1. SlotInv' /\ MemoryInv'
    BY <1>1 DEF InitSlot, Fresh, SlotInv, MemoryInv
  <2> QED
    BY <1>1, <2>1, Zenon DEF InitSlot, PoseInv, SeenInv, SeenInWorld
<1>2. CASE UNCHANGED poseVars
  BY <1>2, Zenon DEF poseVars, PoseInv, SlotInv, MemoryInv, SeenInv, SeenInWorld
<1> QED
  BY <1>1, <1>2, FilterPoseKeeps, RunFrameKeeps DEF PoseNext

\* For all positions, orientations and rates, all calibrations that turn a cube
\* onto itself, and any filter of Push(): whenever the filter was asked, a pose in
\* a usable space reaches the host as the world pose and with the validity that
\* the filter gave, changed or not; and one in an unusable space only if the
\* filter was cold, and called it invalid (PoseAdapter, filterPose(), RunFrame()).
THEOREM HostSeesWorldPose == PoseSpec => []SeenInWorld
<1>1. PoseInv /\ [PoseNext]_poseVars => PoseInv'
  BY PoseInvNext
<1>2. PoseInv => SeenInWorld
  BY DEF PoseInv, SeenInv
<1> QED
  BY <1>1, <1>2, PoseInvInit, PTL DEF PoseSpec

\* It also appends the head transform that a valid pose was taken with, if heads
\* do not creep (filterPose(), applyOutput()).
THEOREM HostSeesWhatFilterMeant ==
  ASSUME HeadsDoNotCreep
  PROVE  PoseSpec => []HostSeesFilterOutput
<1>1. PoseInv /\ [PoseNext]_poseVars => PoseInv'
  BY PoseInvNext
<1>2. PoseInv => HostSeesFilterOutput
  BY HeadsDoNotCreep, Zenon DEF PoseInv, SeenInv, SeenInWorld, SameHead, HostSeesFilterOutput
<1> QED
  BY <1>1, <1>2, PoseInvInit, PTL DEF PoseSpec

\* A slot that may predict has a pose, a transform and a head it can use, and so
\* does a filter with a memory (filterPose(), RunFrame()).
THEOREM SlotIsTyped == PoseSpec => []SlotTypeOK
<1>1. PoseInv /\ [PoseNext]_poseVars => PoseInv'
  BY PoseInvNext
<1>2. PoseInv => SlotTypeOK
  BY DEF PoseInv, SlotInv, MemoryInv, SlotTypeOK
<1> QED
  BY <1>1, <1>2, PoseInvInit, PTL DEF PoseSpec

=============================================================================
