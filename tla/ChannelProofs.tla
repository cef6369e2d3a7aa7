----------------------------- MODULE ChannelProofs ----------------------------
(* Proofs about Channel, for any packets, any payloads, any places at which    *)
(* the network cuts the bytes and any thresholds of compression: the frames    *)
(* come out as they were put in, in order and in time, and the two ends keep   *)
(* what Stream says of a connection.                                           *)
EXTENDS Channel, WellFoundedInduction, SequenceTheorems, FiniteSetTheorems, TLAPS

-------------------------------------------------------------------------------
(* Numbers.                                                                    *)

\* A set of numbers has a least one.
LEMMA Least ==
  ASSUME NEW S, S \subseteq Nat, S # {}
  PROVE  \E m \in S : \A n \in S : m <= n
<1> DEFINE Earlier == OpToRel(<, Nat)
<1>1. IsWellFoundedOn(Earlier, Nat)
  BY NatLessThanWellFounded
<1>2. PICK m \in S : \A n \in S : ~(<<n, m>> \in Earlier)
  BY <1>1, WFMin, Zenon
<1>3. \A n \in S : ~(n < m)
  BY <1>2 DEF OpToRel
<1> QED
  BY <1>3

\* A set of numbers that has 0 and goes on to n from n - 1 has all up to N.
LEMMA Stepwise ==
  ASSUME NEW N \in Nat, NEW T, 0 \in T,
         \A n \in 1..N : n - 1 \in T => n \in T
  PROVE  0..N \subseteq T
<1> DEFINE Left == {n \in 0..N : n \notin T}
<1>1. SUFFICES ASSUME Left # {} PROVE FALSE
  OBVIOUS
<1>2. Left \subseteq Nat
  BY SMT
<1>3. PICK n \in Left : \A m \in Left : n <= m
  <2> HIDE DEF Left
  <2> QED
    BY <1>1, <1>2, Least
<1>4. n \in 1..N
  OBVIOUS
<1>5. n - 1 \notin Left
  BY <1>3, <1>4
<1> QED
  BY <1>3, <1>4, <1>5

\* Min and Max of two numbers are numbers, and which.
LEMMA MinOf ==
  ASSUME NEW a \in Int, NEW b \in Int
  PROVE  Min({a, b}) = IF a <= b THEN a ELSE b
BY DEF Min

-------------------------------------------------------------------------------
(* Buffers: the runs of a buffer and the bytes in them.                        *)

\* The i-th byte lies in the k-th run.
InRun(b, k, i) == k \in 1..Len(b) /\ i <= b[k][2] /\ (k = 1 \/ b[k - 1][2] < i)

LEMMA Runs ==
  ASSUME NEW b, IsBuffer(b)
  PROVE  /\ Len(b) \in Nat /\ Size(b) \in Nat
         /\ \A i \in 1..Len(b) : /\ b[i][1] \in Int /\ b[i][2] \in Nat /\ b[i][2] > 0
                                 /\ b[i] = <<b[i][1], b[i][2]>>
         /\ b = [i \in 1..Len(b) |-> b[i]]
         /\ Size(b) = 0 <=> b = <<>>
         /\ Len(b) = 0 <=> b = <<>>
         /\ b # <<>> => Size(b) = b[Len(b)][2] /\ Len(b) \in 1..Len(b)
<1>1. b \in Seq(Int \X Nat) /\ Len(b) \in Nat
  BY DEF IsBuffer
<1>2. \A i \in 1..Len(b) : b[i] \in Int \X Nat
  BY <1>1
<1>3. \A i \in 1..Len(b) : b[i][1] \in Int /\ b[i][2] \in Nat /\ b[i] = <<b[i][1], b[i][2]>>
  BY <1>2
<1>4. Len(b) = 0 <=> b = <<>>
  BY <1>1
<1>5. \A i \in 1..Len(b) : b[i][2] > 0
  <2> SUFFICES ASSUME NEW i \in 1..Len(b) PROVE b[i][2] > 0
    OBVIOUS
  <2>1. CASE i = 1
    BY <1>1, <1>4, <2>1 DEF IsBuffer
  <2>2. CASE i # 1
    <3>1. i - 1 \in 1..Len(b) - 1 /\ i - 1 \in 1..Len(b) /\ (i - 1) + 1 = i
      BY <1>1, <2>2
    <3>2. b[i - 1][2] < b[i][2]
      BY <3>1 DEF IsBuffer
    <3>3. b[i - 1][2] \in Nat /\ b[i][2] \in Nat
      BY <1>3, <3>1
    <3>4. \A x, y \in Nat : x < y => y > 0
      OBVIOUS
    <3> QED
      BY <3>2, <3>3, <3>4
  <2> QED
    BY <2>1, <2>2
<1>6. b # <<>> => Size(b) = b[Len(b)][2] /\ Len(b) \in 1..Len(b)
  BY <1>1, <1>4 DEF Size
<1>7. Size(b) \in Nat /\ (Size(b) = 0 <=> b = <<>>)
  BY <1>3, <1>4, <1>5, <1>6 DEF Size
<1>8. b = [i \in 1..Len(b) |-> b[i]]
  BY <1>1
<1> QED
  BY <1>1, <1>3, <1>4, <1>5, <1>6, <1>7, <1>8

\* Runs end one behind the other.
LEMMA RunsRise ==
  ASSUME NEW b, IsBuffer(b), NEW j \in 1..Len(b), NEW i \in 1..j
  PROVE  b[i][2] + (j - i) <= b[j][2]
<1> DEFINE T == {n \in 0..j - i : b[i][2] + n <= b[i + n][2]}
<1>1. Len(b) \in Nat /\ \A k \in 1..Len(b) : b[k][2] \in Nat
  BY Runs
<1>2. 0 \in T
  BY <1>1
<1>3. ASSUME NEW n \in 1..j - i, n - 1 \in T PROVE n \in T
  <2>1. i + n - 1 \in 1..Len(b) - 1 /\ (i + n - 1) + 1 = i + n /\ i + (n - 1) = i + n - 1
        /\ i + n \in 1..Len(b)
    BY <1>1
  <2>2. b[i + n - 1][2] < b[i + n][2]
    BY <2>1 DEF IsBuffer
  <2>3. b[i][2] + (n - 1) <= b[i + n - 1][2]
    BY <1>3, <2>1
  <2>4. b[i][2] \in Nat /\ b[i + n][2] \in Nat /\ b[i + n - 1][2] \in Nat
    BY <1>1, <2>1
  <2>5. b[i][2] + n <= b[i + n][2]
    <3>1. \A x, y, z \in Nat : x + (n - 1) <= y /\ y < z => x + n <= z
      OBVIOUS
    <3> QED
      BY <2>2, <2>3, <2>4, <3>1
  <2> QED
    BY <2>5
<1>4. j - i \in Nat
  BY <1>1
<1>5. j - i \in T
  <2> HIDE DEF T
  <2>1. 0..j - i \subseteq T
    BY <1>2, <1>3, <1>4, Stepwise
  <2> QED
    BY <1>4, <2>1
<1>6. i + (j - i) = j
  BY <1>1
<1> QED
  BY <1>5, <1>6

\* Each byte lies in one run, and Run finds it.
LEMMA RunIs ==
  ASSUME NEW b, IsBuffer(b), NEW i \in 1..Size(b)
  PROVE  /\ InRun(b, Run(b, i), i)
         /\ \A k : InRun(b, k, i) => k = Run(b, i)
<1>1. /\ Len(b) \in Nat /\ Size(b) \in Nat /\ b # <<>>
      /\ \A k \in 1..Len(b) : b[k][2] \in Nat
      /\ Size(b) = b[Len(b)][2] /\ Len(b) \in 1..Len(b)
  BY Runs
<1> DEFINE S == {k \in 1..Len(b) : i <= b[k][2]}
<1>2. S \subseteq Nat /\ Len(b) \in S
  BY <1>1
<1>3. PICK m \in S : \A n \in S : m <= n
  <2> HIDE DEF S
  <2> QED
    BY <1>2, Least
<1>4. InRun(b, m, i)
  <2>1. CASE m = 1
    BY <2>1 DEF InRun
  <2>2. CASE m # 1
    <3>1. m - 1 \in 1..Len(b) /\ m - 1 \notin S
      BY <1>1, <1>3, <2>2
    <3>2. b[m - 1][2] < i
      BY <1>1, <3>1
    <3> QED
      BY <3>2 DEF InRun
  <2> QED
    BY <2>1, <2>2
<1>5. InRun(b, Run(b, i), i)
  <2>1. \E k \in 1..Len(b) : i <= b[k][2] /\ (k = 1 \/ b[k - 1][2] < i)
    BY <1>4 DEF InRun
  <2> QED
    BY <2>1 DEF Run, InRun
<1>6. ASSUME NEW k, NEW l, InRun(b, k, i), InRun(b, l, i), k < l PROVE FALSE
  <2>1. k \in 1..Len(b) /\ l \in 1..Len(b) /\ i <= b[k][2] /\ b[l - 1][2] < i
    BY <1>1, <1>6 DEF InRun
  <2>2. l - 1 \in 1..Len(b) /\ k \in 1..l - 1
    BY <1>1, <1>6, <2>1
  <2>3. b[k][2] + (l - 1 - k) <= b[l - 1][2]
    BY <2>2, RunsRise
  <2>4. l - 1 - k \in Nat /\ b[k][2] \in Nat /\ b[l - 1][2] \in Nat /\ i \in Nat
    BY <1>1, <2>1, <2>2
  <2>5. \A x, y, z \in Nat : x + z <= y /\ y < i => ~(i <= x)
    BY <2>4
  <2> QED
    BY <2>1, <2>3, <2>4, <2>5
<1>7. ASSUME NEW k, InRun(b, k, i) PROVE k = Run(b, i)
  <2>1. k \in Nat /\ Run(b, i) \in Nat
    BY <1>1, <1>5, <1>7 DEF InRun
  <2>2. ~(k < Run(b, i)) /\ ~(Run(b, i) < k)
    BY <1>5, <1>6, <1>7
  <2> QED
    BY <2>1, <2>2
<1> QED
  BY <1>5, <1>7

\* The byte in the run.
LEMMA ByteIn ==
  ASSUME NEW b, IsBuffer(b), NEW k, NEW i \in 1..Size(b), InRun(b, k, i)
  PROVE  ByteAt(b, i) = b[k][1] /\ ByteAt(b, i) \in Int
<1>1. k = Run(b, i)
  BY RunIs
<1> QED
  BY <1>1, Runs DEF ByteAt, InRun

\* A run's last byte, and the first of the next run, lie in it.
LEMMA RunEdges ==
  ASSUME NEW b, IsBuffer(b), NEW k \in 1..Len(b)
  PROVE  /\ b[k][2] \in 1..Size(b) /\ InRun(b, k, b[k][2])
         /\ k < Len(b) => b[k][2] + 1 \in 1..Size(b) /\ InRun(b, k + 1, b[k][2] + 1)
<1>1. /\ Len(b) \in Nat /\ Len(b) \in 1..Len(b) /\ Size(b) = b[Len(b)][2] /\ Size(b) \in Nat
      /\ \A j \in 1..Len(b) : b[j][2] \in Nat /\ b[j][2] > 0
  BY Runs
<1>2. b[k][2] + (Len(b) - k) <= b[Len(b)][2]
  BY <1>1, RunsRise
<1>3. k # 1 => b[k - 1][2] < b[k][2]
  <2> SUFFICES ASSUME k # 1 PROVE b[k - 1][2] < b[k][2]
    OBVIOUS
  <2>1. k - 1 \in 1..k
    OBVIOUS
  <2>2. b[k - 1][2] + (k - (k - 1)) <= b[k][2]
    BY <2>1, RunsRise
  <2>3. k - 1 \in 1..Len(b)
    BY <1>1
  <2> QED
    BY <1>1, <2>2, <2>3
<1>4. b[k][2] \in 1..Size(b) /\ InRun(b, k, b[k][2])
  BY <1>1, <1>2, <1>3 DEF InRun
<1>5. ASSUME k < Len(b) PROVE b[k][2] + 1 \in 1..Size(b) /\ InRun(b, k + 1, b[k][2] + 1)
  <2>1. k + 1 \in 1..Len(b) /\ k \in 1..k + 1 /\ k \in 1..Len(b) - 1
    BY <1>1, <1>5
  <2>2. b[k][2] + (k + 1 - k) <= b[k + 1][2]
    BY <2>1, RunsRise
  <2>3. b[k][2] + 1 <= b[k + 1][2] /\ b[k][2] \in Nat
    BY <1>1, <2>1, <2>2
  <2> QED
    BY <1>1, <1>2, <1>5, <2>1, <2>3 DEF InRun
<1> QED
  BY <1>4, <1>5

\* Two buffers with the same bytes are the same buffer.
LEMMA SameBytes ==
  ASSUME NEW a, NEW b, IsBuffer(a), IsBuffer(b), Size(a) = Size(b),
         \A i \in 1..Size(a) : ByteAt(a, i) = ByteAt(b, i)
  PROVE  a = b
<1> DEFINE Differ(k) == k > Len(b) \/ a[k] # b[k]
<1>1. ASSUME NEW c, NEW d, IsBuffer(c), IsBuffer(d), Size(c) = Size(d),
             \A i \in 1..Size(c) : ByteAt(c, i) = ByteAt(d, i),
             NEW k \in 1..Len(c), k \in 1..Len(d),
             k = 1 \/ c[k - 1][2] = d[k - 1][2],
             c[k][2] < d[k][2]
      PROVE  FALSE
  <2>1. /\ Len(c) \in Nat /\ Len(d) \in Nat /\ c[k][2] \in Nat /\ d[k][2] \in Nat
        /\ Size(c) \in Nat /\ Size(c) = c[Len(c)][2] /\ c # <<>> /\ c[k][2] > 0
    BY <1>1, Runs
  <2>2. d[k][2] <= Size(c) /\ InRun(c, k, c[k][2]) /\ InRun(d, k, d[k][2])
    <3>1. d[k][2] \in 1..Size(d) /\ InRun(d, k, d[k][2])
      BY <1>1, RunEdges
    <3>2. InRun(c, k, c[k][2])
      BY <1>1, RunEdges
    <3> QED
      BY <1>1, <3>1, <3>2
  <2>3. k < Len(c)
    BY <1>1, <2>1, <2>2
  <2>4. c[k][2] + 1 \in 1..Size(c) /\ InRun(c, k + 1, c[k][2] + 1)
        /\ c[k][2] \in 1..Size(c)
    BY <1>1, <2>3, RunEdges
  <2>5. InRun(d, k, c[k][2]) /\ InRun(d, k, c[k][2] + 1)
    <3>1. c[k][2] <= d[k][2] /\ c[k][2] + 1 <= d[k][2]
      BY <1>1, <2>1
    <3>2. k = 1 \/ d[k - 1][2] < c[k][2]
      BY <1>1, <2>2 DEF InRun
    <3>3. ASSUME k # 1 PROVE d[k - 1][2] < c[k][2] + 1
      <4>1. k - 1 \in 1..Len(d)
        BY <1>1, <2>1, <3>3
      <4>2. d[k - 1][2] \in Nat
        BY <1>1, <4>1, Runs
      <4>3. d[k - 1][2] < c[k][2]
        BY <3>2, <3>3
      <4>4. c[k][2] \in Nat
        BY <1>1, <2>2, Runs DEF InRun
      <4>5. \A x, y \in Nat : x < y => x < y + 1
        OBVIOUS
      <4> QED
        BY <4>2, <4>3, <4>4, <4>5
    <3> QED
      BY <1>1, <3>1, <3>2, <3>3 DEF InRun
  <2>6. ByteAt(c, c[k][2]) = c[k][1] /\ ByteAt(c, c[k][2] + 1) = c[k + 1][1]
    BY <1>1, <2>2, <2>4, ByteIn
  <2>7. ByteAt(d, c[k][2]) = d[k][1] /\ ByteAt(d, c[k][2] + 1) = d[k][1]
    BY <1>1, <2>4, <2>5, ByteIn
  <2>8. c[k][1] # c[k + 1][1]
    <3>1. k \in 1..Len(c) - 1
      BY <2>1, <2>3
    <3> QED
      BY <1>1, <3>1 DEF IsBuffer
  <2> QED
    BY <1>1, <2>4, <2>6, <2>7, <2>8
<1>2. /\ Len(a) \in Nat /\ Len(b) \in Nat
      /\ \A i \in 1..Len(a) : a[i][2] \in Nat /\ a[i] = <<a[i][1], a[i][2]>>
      /\ \A i \in 1..Len(b) : b[i][2] \in Nat /\ b[i] = <<b[i][1], b[i][2]>>
      /\ a = [i \in 1..Len(a) |-> a[i]] /\ b = [i \in 1..Len(b) |-> b[i]]
  BY Runs
<1> DEFINE M == IF Len(a) <= Len(b) THEN Len(a) ELSE Len(b)
<1> DEFINE T == {n \in 0..M : \A i \in 1..n : a[i] = b[i]}
<1>3. 0 \in T /\ M \in Nat
  BY <1>2
<1>4. ASSUME NEW n \in 1..M, n - 1 \in T PROVE n \in T
  <2>1. n \in 1..Len(a) /\ n \in 1..Len(b)
    BY <1>2
  <2>2. n = 1 \/ a[n - 1] = b[n - 1]
    <3>1. n = 1 \/ n - 1 \in 1..n - 1
      OBVIOUS
    <3>2. \A i \in 1..n - 1 : a[i] = b[i]
      BY <1>4
    <3> QED
      BY <3>1, <3>2
  <2>3. a[n][2] = b[n][2]
    <3>1. ~(a[n][2] < b[n][2])
      BY <1>1, <2>1, <2>2
    <3>2. \A i \in 1..Size(b) : ByteAt(b, i) = ByteAt(a, i)
      OBVIOUS
    <3>3. ~(b[n][2] < a[n][2])
      BY <1>1, <2>1, <2>2, <3>2
    <3> QED
      BY <1>2, <2>1, <3>1, <3>3
  <2>4. a[n][1] = b[n][1]
    <3>1. a[n][2] \in 1..Size(a) /\ InRun(a, n, a[n][2]) /\ InRun(b, n, b[n][2])
      BY <2>1, RunEdges
    <3>2. ByteAt(a, a[n][2]) = a[n][1] /\ ByteAt(b, a[n][2]) = b[n][1]
      BY <2>3, <3>1, ByteIn
    <3> QED
      BY <3>1, <3>2
  <2>5. a[n] = b[n]
    BY <1>2, <2>1, <2>3, <2>4
  <2>6. \A i \in 1..n : i = n \/ i \in 1..n - 1
    BY <1>2
  <2> QED
    BY <1>4, <2>5, <2>6
<1>5. \A i \in 1..M : a[i] = b[i]
  <2> HIDE DEF M
  <2>1. M \in 0..M
    BY <1>3
  <2>2. 0..M \subseteq T
    <3> HIDE DEF T
    <3> QED
      BY <1>3, <1>4, Stepwise
  <2> QED
    BY <2>1, <2>2
<1>6. Len(a) = Len(b)
  <2>1. ASSUME NEW c, NEW d, IsBuffer(c), IsBuffer(d), Size(c) = Size(d),
               Len(c) < Len(d), \A i \in 1..Len(c) : c[i] = d[i]
        PROVE  FALSE
    <3>1. Len(c) \in Nat /\ Len(d) \in Nat /\ d # <<>> /\ Size(d) > 0
      BY <2>1, Runs
    <3>2. Len(c) \in 1..Len(c) /\ Size(c) = c[Len(c)][2] /\ Size(d) = d[Len(d)][2]
      BY <2>1, <3>1, Runs
    <3>3. Len(c) \in 1..Len(d) /\ Len(d) \in 1..Len(d)
      BY <2>1, <3>1, <3>2
    <3>4. d[Len(c)][2] + (Len(d) - Len(c)) <= d[Len(d)][2]
      BY <2>1, <3>2, <3>3, RunsRise
    <3>5. d[Len(c)][2] = d[Len(d)][2] /\ d[Len(c)][2] \in Nat
      BY <2>1, <3>2, <3>3, Runs
    <3> QED
      BY <2>1, <3>1, <3>4, <3>5
  <2>2. ASSUME Len(a) < Len(b) PROVE FALSE
    <3>1. \A i \in 1..Len(a) : a[i] = b[i]
      <4>1. M = Len(a)
        <5>1. Len(a) \in Nat /\ Len(b) \in Nat
          BY Runs
        <5>2. \A x, y \in Nat : (x < y => (IF x <= y THEN x ELSE y) = x)
                               /\ (y < x => (IF x <= y THEN x ELSE y) = y)
          OBVIOUS
        <5> QED
          BY <2>2, <5>1, <5>2
      <4> QED
        BY <1>5, <4>1, Zenon
    <3> QED
      BY <2>1, <2>2, <3>1
  <2>3. ASSUME Len(b) < Len(a) PROVE FALSE
    <3>1. \A i \in 1..Len(b) : b[i] = a[i]
      <4>1. M = Len(b)
        <5>1. Len(a) \in Nat /\ Len(b) \in Nat
          BY Runs
        <5>2. \A x, y \in Nat : (x < y => (IF x <= y THEN x ELSE y) = x)
                               /\ (y < x => (IF x <= y THEN x ELSE y) = y)
          OBVIOUS
        <5> QED
          BY <2>3, <5>1, <5>2
      <4> QED
        BY <1>5, <4>1, Zenon
    <3> QED
      BY <2>1, <2>3, <3>1
  <2>4. \A x, y \in Nat : x < y \/ y < x \/ x = y
    OBVIOUS
  <2> QED
    BY <1>2, <2>2, <2>3, <2>4
<1> QED
  BY <1>2, <1>5, <1>6

-------------------------------------------------------------------------------
(* Buffers: what the operations make of the bytes.                             *)

\* n equal bytes.
LEMMA Filled ==
  ASSUME NEW x \in Int, NEW n \in Nat
  PROVE  /\ IsBuffer(Fill(x, n)) /\ Size(Fill(x, n)) = n
         /\ \A i \in 1..n : ByteAt(Fill(x, n), i) = x
<1>1. CASE n = 0
  BY <1>1 DEF Fill, IsBuffer, Size
<1>2. CASE n # 0
  <2> DEFINE b == << <<x, n>> >>
  <2>1. Fill(x, n) = b /\ Len(b) = 1 /\ b[1][1] = x /\ b[1][2] = n /\ b # <<>>
    BY <1>2 DEF Fill
  <2>2. IsBuffer(b)
    BY <1>2, <2>1 DEF IsBuffer
  <2>3. Size(b) = n
    BY <2>1 DEF Size
  <2>4. ASSUME NEW i \in 1..n PROVE ByteAt(b, i) = x
    <3>1. InRun(b, 1, i)
      BY <2>1 DEF InRun
    <3> HIDE DEF b
    <3> QED
      BY <2>1, <2>2, <2>3, <3>1, ByteIn
  <2> QED
    BY <2>1, <2>2, <2>3, <2>4
<1> QED
  BY <1>1, <1>2

\* The buffer of no byte.
LEMMA NoBytes == IsBuffer(<<>>) /\ Size(<<>>) = 0
BY DEF IsBuffer, Size

\* A buffer is a buffer when its runs are, one by one and each with the next.
LEMMA BufferFrom ==
  ASSUME NEW b, NEW n \in Nat, b = [i \in 1..n |-> b[i]],
         \A i \in 1..n : b[i] = <<b[i][1], b[i][2]>> /\ b[i][1] \in Int /\ b[i][2] \in Nat,
         n > 0 => b[1][2] > 0,
         \A i \in 1..n - 1 : b[i][1] # b[i + 1][1] /\ b[i][2] < b[i + 1][2]
  PROVE  IsBuffer(b) /\ Len(b) = n /\ Size(b) = IF n = 0 THEN 0 ELSE b[n][2]
<1>1. \A i \in 1..n : b[i] \in Int \X Nat
  <2> TAKE i \in 1..n
  <2>1. PICK x, e : x = b[i][1] /\ e = b[i][2]
    OBVIOUS
  <2>2. b[i] = <<x, e>> /\ x \in Int /\ e \in Nat
    BY <2>1
  <2> QED
    BY <2>2
<1>2. b \in Seq(Int \X Nat) /\ Len(b) = n
  <2>1. b \in [1..n -> Int \X Nat]
    BY <1>1, Zenon
  <2> QED
    BY <2>1
<1>3. b = <<>> <=> n = 0
  BY <1>2
<1>4. b # <<>> => b[1][2] > 0
  BY <1>3
<1>5. IsBuffer(b)
  BY <1>2, <1>4 DEF IsBuffer
<1>6. Size(b) = IF n = 0 THEN 0 ELSE b[n][2]
  BY <1>2, <1>3, Zenon DEF Size
<1> QED
  BY <1>2, <1>5, <1>6

\* The runs of b from the k-th on, moved by d.
IsShift(c, b, k, d) ==
  /\ Len(c) = Len(b) - k + 1 /\ c \in Seq(Int \X Int)
  /\ \A i \in 1..Len(b) - k + 1 : /\ c[i] = <<b[k + i - 1][1], b[k + i - 1][2] + d>>
                                  /\ c[i][1] = b[k + i - 1][1]
                                  /\ c[i][2] = b[k + i - 1][2] + d
LEMMA Shifted ==
  ASSUME NEW b, IsBuffer(b), NEW k \in 1..Len(b) + 1, NEW d \in Int
  PROVE  IsShift(Shift(b, k, d), b, k, d)
<1>1. Len(b) \in Nat /\ Len(b) - k + 1 \in Nat
  BY Runs
<1>2. \A i \in 1..Len(b) - k + 1 : b[k + i - 1][1] \in Int /\ b[k + i - 1][2] \in Int
  <2> TAKE i \in 1..Len(b) - k + 1
  <2>1. k + i - 1 \in 1..Len(b)
    BY <1>1
  <2> QED
    BY <2>1, Runs
<1>3. Shift(b, k, d) \in [1..Len(b) - k + 1 -> Int \X Int]
  <2>1. ASSUME NEW i \in 1..Len(b) - k + 1
        PROVE  <<b[k + i - 1][1], b[k + i - 1][2] + d>> \in Int \X Int
    <3>1. PICK x, e : x = b[k + i - 1][1] /\ e = b[k + i - 1][2]
      OBVIOUS
    <3>2. x \in Int /\ e \in Int
      BY <1>2, <3>1, Zenon
    <3>3. e + d \in Int
      BY <3>2
    <3> QED
      BY <3>1, <3>2, <3>3
  <2> QED
    BY <2>1, Zenon DEF Shift
<1>4. Len(Shift(b, k, d)) = Len(b) - k + 1 /\ Shift(b, k, d) \in Seq(Int \X Int)
  BY <1>1, <1>3
<1>5. \A i \in 1..Len(b) - k + 1 :
        /\ Shift(b, k, d)[i] = <<b[k + i - 1][1], b[k + i - 1][2] + d>>
        /\ Shift(b, k, d)[i][1] = b[k + i - 1][1]
        /\ Shift(b, k, d)[i][2] = b[k + i - 1][2] + d
  BY DEF Shift
<1> QED
  BY <1>4, <1>5, Zenon DEF IsShift

\* The first n bytes.
LEMMA Taken ==
  ASSUME NEW b, IsBuffer(b), NEW n \in Nat
  PROVE  /\ IsBuffer(Take(b, n))
         /\ Size(Take(b, n)) = IF n <= Size(b) THEN n ELSE Size(b)
         /\ \A i \in 1..Size(Take(b, n)) : ByteAt(Take(b, n), i) = ByteAt(b, i)
<1>0. Size(b) \in Nat /\ Len(b) \in Nat
  BY Runs
<1>1. CASE n = 0
  BY <1>0, <1>1, NoBytes DEF Take
<1>2. CASE n # 0 /\ n >= Size(b)
  BY <1>0, <1>2 DEF Take
<1>3. CASE n # 0 /\ ~(n >= Size(b))
  <2>1. n \in 1..Size(b)
    BY <1>0, <1>3
  <2>2. PICK k : k = Run(b, n)
    OBVIOUS
  <2>3. InRun(b, k, n) /\ k \in 1..Len(b)
    BY <2>1, <2>2, RunIs DEF InRun
  <2>4. PICK x : x = b[k][1]
    OBVIOUS
  <2>5. x = ByteAt(b, n) /\ x \in Int
    BY <2>1, <2>3, <2>4, ByteIn
  <2>6. PICK c : c = SubSeq(b, 1, k - 1) \o << <<x, n>> >>
    OBVIOUS
  <2>7. Take(b, n) = c
    BY <1>3, <2>2, <2>5, <2>6 DEF Take
  <2>8. /\ c = [i \in 1..k |-> c[i]]
        /\ \A i \in 1..k - 1 : c[i] = b[i]
        /\ c[k] = <<x, n>>
    <3>1. b \in Seq(Int \X Nat)
      BY DEF IsBuffer
    <3>2. SubSeq(b, 1, k - 1) \in Seq(Int \X Nat) /\ Len(SubSeq(b, 1, k - 1)) = k - 1
          /\ \A i \in 1..k - 1 : SubSeq(b, 1, k - 1)[i] = b[i]
      <4>1. k - 1 \in Nat /\ k - 1 <= Len(b)
        BY <1>0, <2>3
      <4>2. PICK m \in Nat : m = k - 1 /\ m <= Len(b)
        BY <4>1
      <4>3. \A i \in 1..m : b[i] \in Int \X Nat
        BY <1>0, <3>1, <4>2
      <4>4. SubSeq(b, 1, m) \in Seq(Int \X Nat)
        BY <4>3, SubSeqProperties
      <4>5. Len(SubSeq(b, 1, m)) = IF 1 <= m THEN m - 1 + 1 ELSE 0
        BY <4>3, SubSeqProperties
      <4>6. \A i \in 1..m - 1 + 1 : SubSeq(b, 1, m)[i] = b[1 + i - 1]
        BY <4>3, SubSeqProperties
      <4>7. Len(SubSeq(b, 1, m)) = m
        BY <4>5
      <4>8. \A i \in 1..m : i \in 1..m - 1 + 1 /\ 1 + i - 1 = i
        OBVIOUS
      <4>9. \A i \in 1..m : SubSeq(b, 1, m)[i] = b[i]
        BY <4>6, <4>8, Zenon
      <4> QED
        BY <4>2, <4>4, <4>7, <4>9, Zenon
    <3>3. << <<x, n>> >> \in Seq(Int \X Nat) /\ Len(<< <<x, n>> >>) = 1
          /\ << <<x, n>> >>[1] = <<x, n>>
      BY <2>5
    <3>4. Len(c) = k /\ c \in Seq(Int \X Nat)
      <4>1. PICK p, q : p = SubSeq(b, 1, k - 1) /\ q = << <<x, n>> >>
        OBVIOUS
      <4>2. p \in Seq(Int \X Nat) /\ q \in Seq(Int \X Nat) /\ Len(p) = k - 1 /\ c = p \o q
            /\ Len(q) = 1
        BY <2>6, <3>2, <3>3, <4>1
      <4>3. p \o q \in Seq(Int \X Nat) /\ Len(p \o q) = Len(p) + Len(q)
        BY <4>2, ConcatProperties
      <4>4. Len(p) + Len(q) = k
        BY <2>3, <4>2
      <4> QED
        BY <4>2, <4>3, <4>4
    <3>5. c = [i \in 1..k |-> c[i]]
      BY <3>4
    <3>6. \A i \in 1..k - 1 : c[i] = b[i]
      <4> TAKE i \in 1..k - 1
      <4>1. PICK p, q : p = SubSeq(b, 1, k - 1) /\ q = << <<x, n>> >>
        OBVIOUS
      <4>2. p \in Seq(Int \X Nat) /\ q \in Seq(Int \X Nat) /\ i \in 1..Len(p) /\ c = p \o q
        BY <2>6, <3>2, <3>3, <4>1
      <4>3. c[i] = p[i]
        BY <4>2
      <4> QED
        BY <3>2, <4>1, <4>3
    <3>7. c[k] = <<x, n>>
      <4>1. PICK p, q : p = SubSeq(b, 1, k - 1) /\ q = << <<x, n>> >>
        OBVIOUS
      <4>2. p \in Seq(Int \X Nat) /\ q \in Seq(Int \X Nat) /\ Len(p) = k - 1 /\ c = p \o q
            /\ Len(q) = 1
        BY <2>6, <3>2, <3>3, <4>1
      <4>3. c[Len(p) + 1] = q[1]
        <5>1. \A i \in 1..Len(p) + Len(q) : c[i] = IF i <= Len(p) THEN p[i] ELSE q[i - Len(p)]
          BY <4>2, ConcatProperties, Zenon
        <5>2. Len(p) + 1 \in 1..Len(p) + Len(q) /\ ~(Len(p) + 1 <= Len(p)) /\ Len(p) + 1 - Len(p) = 1
          BY <4>2
        <5> QED
          BY <5>1, <5>2
      <4>4. Len(p) + 1 = k
        BY <2>3, <4>2
      <4> QED
        BY <3>3, <4>1, <4>3, <4>4
    <3> QED
      BY <3>5, <3>6, <3>7
  <2>9. /\ \A i \in 1..k : c[i][1] = b[i][1] /\ c[i][2] \in Nat /\ c[i][1] \in Int
                           /\ c[i] = <<c[i][1], c[i][2]>> /\ c[i][2] <= b[i][2]
        /\ \A i \in 1..k - 1 : c[i][2] = b[i][2]
        /\ c[k][2] = n
    <3>1. \A i \in 1..k : i \in 1..Len(b) /\ (i = k \/ i \in 1..k - 1)
      BY <1>0, <2>3
    <3>2. n <= b[k][2]
      BY <2>3 DEF InRun
    <3>3. c[k][2] = n /\ c[k][1] = x
      BY <2>8
    <3>4. \A i \in 1..Len(b) : b[i][1] \in Int /\ b[i][2] \in Nat /\ b[i] = <<b[i][1], b[i][2]>>
      BY Runs
    <3>5. \A i \in 1..k - 1 : /\ c[i][1] = b[i][1] /\ c[i][2] = b[i][2]
                               /\ c[i] = <<c[i][1], c[i][2]>>
      <4> TAKE i \in 1..k - 1
      <4>1. i \in 1..Len(b)
        BY <1>0, <2>3
      <4>2. c[i] = b[i]
        BY <2>8, Zenon
      <4> QED
        BY <3>4, <4>1, <4>2, Zenon
    <3>6. \A i \in 1..k : /\ c[i][1] = b[i][1]
                           /\ c[i] = <<c[i][1], c[i][2]>>
      BY <2>4, <2>8, <3>1, <3>3, <3>5
    <3>7. \A i \in 1..k : c[i][2] \in Nat /\ c[i][2] <= b[i][2]
      BY <3>1, <3>2, <3>3, <3>4, <3>5
    <3>8. \A i \in 1..k : c[i][1] \in Int
      BY <3>1, <3>4, <3>6
    <3> QED
      BY <3>3, <3>5, <3>6, <3>7, <3>8
  <2>10. \A i \in 1..k - 1 : c[i][1] # c[i + 1][1] /\ c[i][2] < c[i + 1][2]
    <3> TAKE i \in 1..k - 1
    <3>1. i \in 1..Len(b) - 1 /\ i + 1 \in 1..k /\ i \in 1..k
      BY <1>0, <2>3
    <3>2. b[i][1] # b[i + 1][1] /\ b[i][2] < b[i + 1][2]
      BY <3>1 DEF IsBuffer
    <3>3. CASE i + 1 = k
      <4>1. k # 1 /\ k - 1 = i
        BY <3>3
      <4>2. b[i][2] < n
        BY <2>3, <4>1 DEF InRun
      <4> QED
        BY <2>9, <3>1, <3>2, <3>3, <4>2
    <3>4. CASE i + 1 # k
      <4>1. i + 1 \in 1..k - 1
        BY <2>3, <3>1, <3>4
      <4> QED
        BY <2>9, <3>1, <3>2, <4>1
    <3> QED
      BY <3>3, <3>4
  <2>11. c[1][2] > 0
    <3>1. CASE k = 1
      BY <1>3, <2>9, <3>1
    <3>2. CASE k # 1
      <4>1. 1 \in 1..k - 1 /\ 1 \in 1..Len(b)
        BY <1>0, <2>3, <3>2
      <4>2. b[1][2] > 0
        BY <4>1, Runs
      <4> QED
        BY <2>9, <4>1, <4>2
    <3> QED
      BY <3>1, <3>2
  <2>12. IsBuffer(c) /\ Len(c) = k /\ Size(c) = n
    <3>1. k \in Nat /\ k # 0
      BY <2>3
    <3>2. IsBuffer(c) /\ Len(c) = k /\ Size(c) = IF k = 0 THEN 0 ELSE c[k][2]
      BY <2>8, <2>9, <2>10, <2>11, <3>1, BufferFrom
    <3> QED
      BY <2>9, <3>1, <3>2
  <2>13. ASSUME NEW i \in 1..n PROVE ByteAt(c, i) = ByteAt(b, i)
    <3>1. PICK l : l = Run(c, i)
      OBVIOUS
    <3>2. InRun(c, l, i) /\ l \in 1..k
      BY <2>12, <3>1, RunIs DEF InRun
    <3>3. i <= b[l][2]
      <4>1. i <= c[l][2] /\ c[l][2] <= b[l][2] /\ c[l][2] \in Nat /\ l \in 1..Len(b)
        <5>1. i <= c[l][2]
          BY <3>2 DEF InRun
        <5>2. c[l][2] <= b[l][2] /\ c[l][2] \in Nat
          BY <2>9, <3>2
        <5>3. l \in 1..Len(b)
          BY <1>0, <2>3, <3>2
        <5> QED
          BY <5>1, <5>2, <5>3
      <4> QED
        BY <4>1, Runs
    <3>4. l = 1 \/ b[l - 1][2] < i
      <4>1. l # 1 => l - 1 \in 1..k - 1
        BY <2>3, <3>2
      <4>2. l = 1 \/ c[l - 1][2] < i
        BY <3>2 DEF InRun
      <4> QED
        BY <2>9, <4>1, <4>2
    <3>5. InRun(b, l, i)
      BY <1>0, <2>3, <3>2, <3>3, <3>4 DEF InRun
    <3>6. i \in 1..Size(b)
      BY <1>0, <2>1
    <3>7. ByteAt(b, i) = b[l][1] /\ ByteAt(c, i) = c[l][1]
      BY <2>12, <3>2, <3>5, <3>6, ByteIn
    <3> QED
      BY <2>9, <3>2, <3>7
  <2> QED
    BY <1>0, <1>3, <2>7, <2>12, <2>13
<1> QED
  BY <1>1, <1>2, <1>3

\* The bytes behind the first n.
LEMMA Dropped ==
  ASSUME NEW b, IsBuffer(b), NEW n \in Nat
  PROVE  /\ IsBuffer(Drop(b, n))
         /\ Size(Drop(b, n)) = IF n <= Size(b) THEN Size(b) - n ELSE 0
         /\ \A i \in 1..Size(Drop(b, n)) : ByteAt(Drop(b, n), i) = ByteAt(b, n + i)
<1>0. Size(b) \in Nat /\ Len(b) \in Nat
  BY Runs
<1>1. CASE n >= Size(b)
  BY <1>0, <1>1, NoBytes DEF Drop
<1>2. CASE ~(n >= Size(b))
  <2>1. n + 1 \in 1..Size(b) /\ n < Size(b)
    BY <1>0, <1>2
  <2>2. PICK k : k = Run(b, n + 1)
    OBVIOUS
  <2>3. InRun(b, k, n + 1) /\ k \in 1..Len(b)
    BY <2>1, <2>2, RunIs DEF InRun
  <2>4. PICK c : c = Shift(b, k, -n)
    OBVIOUS
  <2>5. PICK m \in Nat : m = Len(b) - k + 1
    BY <1>0, <2>3
  <2>6. /\ Len(c) = m /\ c \in Seq(Int \X Int) /\ m # 0
        /\ \A i \in 1..m : c[i] = <<b[k + i - 1][1], b[k + i - 1][2] + (-n)>>
        /\ \A i \in 1..m : c[i][1] = b[k + i - 1][1] /\ c[i][2] = b[k + i - 1][2] + (-n)
    <3>1. k \in 1..Len(b) + 1 /\ -n \in Int
      BY <1>0, <2>3
    <3>2. m # 0
      BY <1>0, <2>3, <2>5
    <3>3. PICK d \in Int : d = -n
      BY <3>1
    <3>4. IsShift(Shift(b, k, d), b, k, d)
      BY <3>1, Shifted
    <3>5. IsShift(c, b, k, -n)
      BY <2>4, <3>3, <3>4, Zenon
    <3> QED
      BY <2>5, <3>2, <3>5, Zenon DEF IsShift
  <2>7. Drop(b, n) = c
    BY <1>2, <2>2, <2>4, <2>6, ConcatEmptySeq, Zenon DEF Drop
  <2>8. \A i \in 1..m : k + i - 1 \in 1..Len(b) /\ k \in 1..k + i - 1
    BY <1>0, <2>3, <2>5
  <2>9. b[k][2] > n
    BY <1>0, <2>3, Runs DEF InRun
  <2>10. \A i \in 1..m : c[i][1] \in Int /\ c[i][2] \in Nat /\ c[i][2] > 0
    <3> TAKE i \in 1..m
    <3>1. b[k][2] + (k + i - 1 - k) <= b[k + i - 1][2]
      <4>1. PICK j : j = k + i - 1
        OBVIOUS
      <4>2. j \in 1..Len(b) /\ k \in 1..j
        BY <2>8, <4>1
      <4>3. b[k][2] + (j - k) <= b[j][2]
        BY <4>2, RunsRise
      <4>4. k + i - 1 - k = j - k
        BY <2>3, <4>1
      <4> QED
        BY <4>1, <4>3, <4>4, Zenon
    <3>2. b[k + i - 1][1] \in Int /\ b[k + i - 1][2] \in Nat /\ b[k][2] \in Nat
      BY <2>3, <2>8, Runs
    <3>3. k + i - 1 - k \in Nat
      BY <2>3
    <3>4. \A x, y, z \in Nat : x > n /\ x + z <= y => y + (-n) \in Nat /\ y + (-n) > 0
      OBVIOUS
    <3> QED
      BY <2>6, <2>9, <3>1, <3>2, <3>3, <3>4
  <2>11. \A i \in 1..m : c[i] = <<c[i][1], c[i][2]>>
    BY <2>6, Zenon
  <2>12. \A i \in 1..m - 1 : c[i][1] # c[i + 1][1] /\ c[i][2] < c[i + 1][2]
    <3> TAKE i \in 1..m - 1
    <3>1. i \in 1..m /\ i + 1 \in 1..m /\ k + (i + 1) - 1 = (k + i - 1) + 1
          /\ k + i - 1 \in 1..Len(b) - 1 /\ k + i - 1 \in 1..Len(b) /\ (k + i - 1) + 1 \in 1..Len(b)
      BY <1>0, <2>3, <2>5
    <3>2. b[k + i - 1][1] # b[(k + i - 1) + 1][1] /\ b[k + i - 1][2] < b[(k + i - 1) + 1][2]
      BY <3>1 DEF IsBuffer
    <3>3. c[i][1] = b[k + i - 1][1] /\ c[i + 1][1] = b[(k + i - 1) + 1][1]
      BY <2>6, <3>1
    <3>4. c[i][2] = b[k + i - 1][2] + (-n) /\ c[i + 1][2] = b[(k + i - 1) + 1][2] + (-n)
      BY <2>6, <3>1
    <3>5. b[k + i - 1][2] \in Nat /\ b[(k + i - 1) + 1][2] \in Nat
      BY <3>1, Runs
    <3> QED
      BY <3>2, <3>3, <3>4, <3>5
  <2>13. IsBuffer(c) /\ Size(c) = Size(b) - n
    <3>1. c = [i \in 1..m |-> c[i]]
      BY <2>6
    <3>2. 1 \in 1..m /\ m \in 1..m /\ k + m - 1 = Len(b)
      BY <1>0, <2>3, <2>5, <2>6
    <3>3. c[1][2] > 0
      BY <2>10, <3>2
    <3>4. IsBuffer(c) /\ Size(c) = IF m = 0 THEN 0 ELSE c[m][2]
      BY <2>10, <2>11, <2>12, <3>1, <3>3, BufferFrom
    <3>5. c[m][2] = b[Len(b)][2] + (-n)
      BY <2>6, <3>2
    <3>6. Size(b) = b[Len(b)][2]
      BY <1>0, <2>1, Runs
    <3> QED
      BY <1>0, <2>6, <3>4, <3>5, <3>6
  <2>14. ASSUME NEW i \in 1..Size(b) - n PROVE ByteAt(c, i) = ByteAt(b, n + i)
    <3>1. PICK l : l = Run(c, i)
      OBVIOUS
    <3>2. InRun(c, l, i) /\ l \in 1..m
      BY <2>6, <2>13, <3>1, RunIs DEF InRun
    <3>3. n + i \in 1..Size(b) /\ n + i \in Nat /\ i \in Nat /\ i > 0
      BY <1>0
    <3>4. n + i <= b[k + l - 1][2]
      <4>1. i <= c[l][2] /\ c[l][2] = b[k + l - 1][2] + (-n) /\ b[k + l - 1][2] \in Nat
        BY <2>6, <2>8, <3>2, Runs DEF InRun
      <4> QED
        BY <3>3, <4>1
    <3>5. k + l - 1 = 1 \/ b[k + l - 1 - 1][2] < n + i
      <4>1. CASE l = 1
        <5>1. k = 1 \/ b[k - 1][2] < n + 1
          BY <2>3 DEF InRun
        <5>2. ASSUME k # 1 PROVE b[k - 1][2] < n + i
          <6>1. k - 1 \in 1..Len(b)
            BY <1>0, <2>3, <5>2
          <6>2. b[k - 1][2] \in Nat
            BY <6>1, Runs
          <6> QED
            BY <3>3, <5>1, <5>2, <6>2
        <5>3. k + l - 1 = k /\ k + l - 1 - 1 = k - 1
          BY <2>3, <4>1
        <5> QED
          BY <5>2, <5>3
      <4>2. CASE l # 1
        <5>1. l - 1 \in 1..m /\ k + (l - 1) - 1 = k + l - 1 - 1
          BY <2>3, <3>2, <4>2
        <5>2. c[l - 1][2] < i
          BY <3>2, <4>2 DEF InRun
        <5>3. c[l - 1][2] = b[k + l - 1 - 1][2] + (-n) /\ b[k + l - 1 - 1][2] \in Nat
          <6>1. c[l - 1][2] = b[k + (l - 1) - 1][2] + (-n)
            BY <2>6, <5>1
          <6>2. b[k + (l - 1) - 1][2] \in Nat
            BY <2>8, <5>1, Runs
          <6> QED
            BY <5>1, <6>1, <6>2
        <5>4. \A x \in Nat : x + (-n) < i => x < n + i
          BY <3>3
        <5> QED
          BY <5>2, <5>3, <5>4
      <4> QED
        BY <4>1, <4>2
    <3>6. InRun(b, k + l - 1, n + i)
      BY <2>8, <3>2, <3>4, <3>5 DEF InRun
    <3>7. ByteAt(b, n + i) = b[k + l - 1][1]
      BY <3>3, <3>6, ByteIn
    <3>8. ByteAt(c, i) = c[l][1]
      <4>1. i \in 1..Size(c)
        BY <2>13
      <4> QED
        BY <2>13, <3>2, <4>1, ByteIn
    <3> QED
      BY <2>6, <3>2, <3>7, <3>8
  <2> QED
    BY <1>0, <2>1, <2>7, <2>13, <2>14
<1> QED
  BY <1>1, <1>2

\* The runs of a and, behind la of them, those of b moved by the size of a.
Spliced(a, b, la, c) ==
  /\ c = [i \in 1..la + Len(b) |-> c[i]]
  /\ la = IF a[Len(a)][1] = b[1][1] THEN Len(a) - 1 ELSE Len(a)
  /\ \A i \in 1..la : c[i] = a[i]
  /\ \A i \in 1..Len(b) : c[la + i] = <<b[i][1], b[i][2] + Size(a)>>

LEMMA SplicedBytes ==
  ASSUME NEW a, NEW b, NEW c, NEW la, IsBuffer(a), IsBuffer(b), a # <<>>, b # <<>>,
         Spliced(a, b, la, c)
  PROVE  /\ IsBuffer(c) /\ Size(c) = Size(a) + Size(b)
         /\ \A i \in 1..Size(a) : ByteAt(c, i) = ByteAt(a, i)
         /\ \A i \in 1..Size(b) : ByteAt(c, Size(a) + i) = ByteAt(b, i)
<1>1. PICK sa, sb, lb : sa = Size(a) /\ sb = Size(b) /\ lb = Len(b)
  OBVIOUS
<1>2. sa \in Nat /\ sb \in Nat /\ lb \in Nat /\ sa > 0 /\ sb > 0 /\ lb > 0
  BY <1>1, Runs
<1>3. /\ Len(a) \in Nat /\ Len(a) \in 1..Len(a) /\ a[Len(a)][2] = sa
      /\ lb \in 1..lb /\ b[lb][2] = sb
  BY <1>1, Runs
<1>0. /\ la \in Nat /\ (la = Len(a) - 1 \/ la = Len(a))
      /\ la = Len(a) - 1 <=> a[Len(a)][1] = b[1][1]
  BY <1>3 DEF Spliced
<1>4. \A i \in 1..Len(a) : /\ a[i][1] \in Int /\ a[i][2] \in Nat /\ a[i][2] > 0
                           /\ a[i] = <<a[i][1], a[i][2]>>
  BY Runs
<1>5. \A i \in 1..lb : b[i][1] \in Int /\ b[i][2] \in Nat /\ b[i][2] > 0
  BY <1>1, Runs
<1>6. \A i \in 1..lb : /\ c[la + i] = <<b[i][1], b[i][2] + sa>>
                       /\ c[la + i][1] = b[i][1] /\ c[la + i][2] = b[i][2] + sa
  <2> TAKE i \in 1..lb
  <2>1. c[la + i] = <<b[i][1], b[i][2] + sa>>
    BY <1>1, Zenon DEF Spliced
  <2> QED
    BY <2>1
<1>7. \A i \in 1..la : i \in 1..Len(a)
  BY <1>0, <1>3
<1>8. \A i \in 1..la + lb : i \in 1..la \/ (i - la \in 1..lb /\ la + (i - la) = i)
  BY <1>0, <1>2
<1>9. \A i \in 1..la : c[i] = a[i] /\ c[i][1] = a[i][1] /\ c[i][2] = a[i][2]
  BY Zenon DEF Spliced
<1>10. \A i \in 1..la + lb : /\ c[i][1] \in Int /\ c[i][2] \in Nat /\ c[i][2] > 0
                             /\ c[i] = <<c[i][1], c[i][2]>>
  <2> TAKE i \in 1..la + lb
  <2>1. CASE i \in 1..la
    BY <1>4, <1>7, <1>9, <2>1
  <2>2. CASE i - la \in 1..lb /\ la + (i - la) = i
    <3>1. PICK j \in 1..lb : la + j = i
      BY <2>2
    <3>2. PICK x, e : x = b[j][1] /\ e = b[j][2]
      OBVIOUS
    <3>3. x \in Int /\ e \in Nat
      BY <1>5, <3>2, Zenon
    <3>4. c[i] = <<x, e + sa>>
      BY <1>6, <3>1, <3>2, Zenon
    <3>5. e + sa \in Nat /\ e + sa > 0
      BY <1>2, <3>3
    <3> QED
      BY <3>3, <3>4, <3>5
  <2> QED
    BY <1>8, <2>1, <2>2
<1>11. \A i \in 1..la : c[i][2] + (Len(a) - i) <= sa
  <2> TAKE i \in 1..la
  <2>1. i \in 1..Len(a) /\ Len(a) \in 1..Len(a)
    BY <1>3, <1>7
  <2>2. a[i][2] + (Len(a) - i) <= a[Len(a)][2]
    BY <2>1, RunsRise
  <2> QED
    BY <1>3, <1>9, <2>2
<1>12. \A i \in 1..la + lb - 1 : c[i][1] # c[i + 1][1] /\ c[i][2] < c[i + 1][2]
  <2> TAKE i \in 1..la + lb - 1
  <2>1. CASE i < la
    <3>1. i \in 1..la /\ i + 1 \in 1..la /\ i \in 1..Len(a) - 1
      BY <1>0, <1>2, <1>3, <2>1
    <3>2. a[i][1] # a[i + 1][1] /\ a[i][2] < a[i + 1][2]
      BY <3>1 DEF IsBuffer
    <3> QED
      BY <1>9, <3>1, <3>2
  <2>2. CASE i = la
    <3>1. i \in 1..la /\ 1 \in 1..lb
      BY <1>0, <1>2, <2>2
    <3>2. c[i + 1][1] = b[1][1] /\ c[i + 1][2] = b[1][2] + sa
      BY <1>6, <2>2, <3>1
    <3>3. c[i][1] = a[la][1]
      BY <1>9, <2>2, <3>1
    <3>6. c[i][2] \in Nat /\ c[i][2] + (Len(a) - i) <= sa
      <4>1. i \in 1..la + lb
        BY <1>0, <1>2, <2>2, <3>1
      <4> QED
        BY <1>10, <1>11, <2>2, <3>1, <4>1
    <3>7. c[i][2] <= sa
      BY <1>0, <1>2, <1>3, <2>2, <3>6
    <3>8. c[i][2] < c[i + 1][2]
      <4>1. PICK e : e = b[1][2]
        OBVIOUS
      <4>2. e \in Nat /\ e > 0 /\ c[i + 1][2] = e + sa
        BY <1>5, <3>1, <3>2, <4>1
      <4> QED
        BY <1>2, <3>6, <3>7, <4>2
    <3>4. CASE la = Len(a)
      <4>1. a[Len(a)][1] # b[1][1]
        BY <1>0, <1>3, <3>4
      <4> QED
        BY <3>2, <3>3, <3>4, <3>8, <4>1
    <3>5. CASE la = Len(a) - 1
      <4>1. la \in 1..Len(a) - 1 /\ la + 1 = Len(a)
        BY <1>0, <1>3, <2>2, <3>1, <3>5
      <4>2. a[la][1] # a[Len(a)][1]
        BY <4>1 DEF IsBuffer
      <4>4. b[1][1] # a[la][1]
        BY <1>0, <3>5, <4>2
      <4> QED
        BY <3>2, <3>3, <3>8, <4>4
    <3> QED
      BY <1>0, <3>4, <3>5
  <2>3. CASE i > la
    <3>1. PICK j : j = i - la
      OBVIOUS
    <3>2. j \in 1..lb /\ j + 1 \in 1..lb /\ j \in 1..lb - 1 /\ la + j = i /\ la + (j + 1) = i + 1
      BY <1>0, <1>2, <2>3, <3>1
    <3>3. b[j][1] # b[j + 1][1] /\ b[j][2] < b[j + 1][2]
      BY <1>1, <3>2 DEF IsBuffer
    <3>7. PICK d, e : d = b[j][2] /\ e = b[j + 1][2]
      OBVIOUS
    <3>4. c[i][1] = b[j][1] /\ c[i][2] = d + sa
      BY <1>6, <3>2, <3>7
    <3>5. c[i + 1][1] = b[j + 1][1] /\ c[i + 1][2] = e + sa
      BY <1>6, <3>2, <3>7
    <3>6. d \in Nat /\ e \in Nat /\ d < e
      BY <1>5, <3>2, <3>3, <3>7
    <3> QED
      BY <1>2, <3>3, <3>4, <3>5, <3>6
  <2> QED
    BY <1>0, <1>2, <2>1, <2>2, <2>3
<1>13. IsBuffer(c) /\ Len(c) = la + lb /\ Size(c) = sa + sb
  <2>1. la + lb \in Nat /\ la + lb > 0 /\ 1 \in 1..la + lb
    BY <1>0, <1>2
  <2>2. c[1][2] > 0 /\ c = [i \in 1..la + lb |-> c[i]]
    BY <1>1, <1>10, <2>1 DEF Spliced
  <2>3. IsBuffer(c) /\ Len(c) = la + lb /\ Size(c) = IF la + lb = 0 THEN 0 ELSE c[la + lb][2]
    <3>1. PICK m : m = la + lb
      OBVIOUS
    <3>2. /\ m \in Nat /\ c = [i \in 1..m |-> c[i]] /\ (m > 0 => c[1][2] > 0)
          /\ \A i \in 1..m : c[i] = <<c[i][1], c[i][2]>> /\ c[i][1] \in Int /\ c[i][2] \in Nat
      BY <1>10, <2>1, <2>2, <3>1, Zenon
    <3>3. \A i \in 1..m - 1 : c[i][1] # c[i + 1][1] /\ c[i][2] < c[i + 1][2]
      <4> TAKE i \in 1..m - 1
      <4>1. i \in 1..la + lb - 1
        BY <1>0, <1>2, <3>1
      <4> QED
        BY <1>12, <4>1
    <3>4. IsBuffer(c) /\ Len(c) = m /\ Size(c) = IF m = 0 THEN 0 ELSE c[m][2]
      BY <3>2, <3>3, BufferFrom
    <3> QED
      BY <3>1, <3>4, Zenon
  <2>4. c[la + lb][2] = sb + sa
    BY <1>3, <1>6
  <2> QED
    BY <1>2, <2>1, <2>3, <2>4
<1>14. ASSUME NEW i \in 1..sb PROVE ByteAt(c, sa + i) = ByteAt(b, i)
  <2>1. PICK l : l = Run(b, i)
    OBVIOUS
  <2>2. InRun(b, l, i) /\ l \in 1..lb
    BY <1>1, <2>1, RunIs DEF InRun
  <2>3. sa + i <= c[la + l][2]
    <3>1. PICK e : e = b[l][2]
      OBVIOUS
    <3>2. e \in Nat /\ i <= e /\ c[la + l][2] = e + sa
      BY <1>5, <1>6, <2>2, <3>1 DEF InRun
    <3> QED
      BY <1>2, <3>2
  <2>4. la + l = 1 \/ c[la + l - 1][2] < sa + i
    <3>1. CASE l = 1
      <4>1. la + l - 1 = la
        BY <1>0, <3>1
      <4>2. CASE la = 0
        BY <3>1, <4>2
      <4>3. CASE la # 0
        <5>1. la \in 1..la /\ la \in 1..la + lb /\ Len(a) - la \in Nat
          BY <1>0, <1>2, <1>3, <4>3
        <5>2. PICK e : e = c[la][2]
          OBVIOUS
        <5>3. e + (Len(a) - la) <= sa /\ e \in Nat
          BY <1>10, <1>11, <5>1, <5>2
        <5>4. e < sa + i
          BY <1>2, <5>1, <5>3
        <5> QED
          BY <4>1, <5>2, <5>4
      <4> QED
        BY <4>2, <4>3
    <3>2. CASE l # 1
      <4>1. b[l - 1][2] < i /\ l - 1 \in 1..lb /\ la + (l - 1) = la + l - 1
        BY <1>0, <1>2, <2>2, <3>2 DEF InRun
      <4>2. c[la + (l - 1)][2] = b[l - 1][2] + sa /\ b[l - 1][2] \in Nat
        BY <1>5, <1>6, <4>1
      <4> QED
        BY <1>2, <4>1, <4>2
    <3> QED
      BY <3>1, <3>2
  <2>5. InRun(c, la + l, sa + i) /\ sa + i \in 1..Size(c)
    <3>1. la + l \in 1..Len(c)
      BY <1>0, <1>2, <1>13, <2>2
    <3>2. sa + i \in 1..Size(c)
      BY <1>2, <1>13
    <3>3. (la + l) - 1 = la + l - 1
      BY <1>0, <2>2
    <3>4. la + l = 1 \/ c[(la + l) - 1][2] < sa + i
      BY <2>4, <3>3, Zenon
    <3>5. InRun(c, la + l, sa + i)
      BY <2>3, <3>1, <3>4, Zenon DEF InRun
    <3> QED
      BY <3>2, <3>5
  <2>6. ByteAt(c, sa + i) = c[la + l][1]
    BY <1>13, <2>5, ByteIn
  <2>7. ByteAt(b, i) = b[l][1]
    BY <1>1, <2>2, ByteIn
  <2> QED
    BY <1>6, <2>2, <2>6, <2>7
<1>15. ASSUME NEW i \in 1..sa PROVE ByteAt(c, i) = ByteAt(a, i)
  <2>0. i \in 1..Size(c)
    BY <1>2, <1>13
  <2>1. PICK l : l = Run(a, i)
    OBVIOUS
  <2>2. InRun(a, l, i) /\ l \in 1..Len(a)
    BY <1>1, <2>1, RunIs DEF InRun
  <2>3. ByteAt(a, i) = a[l][1]
    BY <1>1, <2>2, ByteIn
  <2>4. l = 1 \/ c[l - 1][2] < i
    <3>1. l # 1 => l - 1 \in 1..la
      BY <1>0, <1>3, <2>2
    <3> QED
      BY <1>9, <2>2, <3>1 DEF InRun
  <2>5. CASE l \in 1..la
    <3>1. i <= c[l][2]
      BY <1>9, <2>2, <2>5 DEF InRun
    <3>2. InRun(c, l, i)
      BY <1>0, <1>2, <1>13, <2>4, <2>5, <3>1 DEF InRun
    <3>3. ByteAt(c, i) = c[l][1]
      BY <1>13, <2>0, <3>2, ByteIn
    <3> QED
      BY <1>9, <2>3, <2>5, <3>3
  <2>6. CASE l \notin 1..la
    <3>1. l = Len(a) /\ la = Len(a) - 1 /\ l = la + 1
      BY <1>0, <1>3, <2>2, <2>6
    <3>2. a[l][1] = b[1][1] /\ 1 \in 1..lb
      BY <1>0, <1>2, <3>1
    <3>3. c[l][1] = b[1][1] /\ c[l][2] = b[1][2] + sa /\ b[1][2] \in Nat
      BY <1>5, <1>6, <3>1, <3>2
    <3>4. i <= c[l][2]
      BY <1>2, <3>3
    <3>5. InRun(c, l, i)
      BY <1>0, <1>2, <1>13, <2>2, <2>4, <3>1, <3>4 DEF InRun
    <3>6. ByteAt(c, i) = c[l][1]
      BY <1>13, <2>0, <3>5, ByteIn
    <3> QED
      BY <2>3, <3>2, <3>3, <3>6
  <2> QED
    BY <2>5, <2>6
<1> QED
  BY <1>1, <1>13, <1>14, <1>15

\* The bytes of a and then those of b.
LEMMA Joined ==
  ASSUME NEW a, NEW b, IsBuffer(a), IsBuffer(b)
  PROVE  /\ IsBuffer(Join(a, b)) /\ Size(Join(a, b)) = Size(a) + Size(b)
         /\ \A i \in 1..Size(a) : ByteAt(Join(a, b), i) = ByteAt(a, i)
         /\ \A i \in 1..Size(b) : ByteAt(Join(a, b), Size(a) + i) = ByteAt(b, i)
<1>0. /\ Size(a) \in Nat /\ Size(b) \in Nat /\ Len(a) \in Nat /\ Len(b) \in Nat
      /\ a \in Seq(Int \X Int) /\ b \in Seq(Int \X Int)
  <2>1. a \in Seq(Int \X Nat) /\ b \in Seq(Int \X Nat)
    BY DEF IsBuffer
  <2>2. Int \X Nat \subseteq Int \X Int
    OBVIOUS
  <2> QED
    BY <2>1, <2>2, SeqMonotonic, Runs
<1>1. PICK s : s = Shift(b, 1, Size(a))
  OBVIOUS
<1>2. /\ Len(s) = Len(b) /\ s \in Seq(Int \X Int)
      /\ \A i \in 1..Len(b) : s[i] = <<b[i][1], b[i][2] + Size(a)>>
  <2>1. 1 \in 1..Len(b) + 1 /\ Size(a) \in Int /\ Len(b) - 1 + 1 = Len(b)
    BY <1>0
  <2>2. /\ Len(s) = Len(b) - 1 + 1 /\ s \in Seq(Int \X Int)
        /\ \A i \in 1..Len(b) - 1 + 1 : s[i] = <<b[1 + i - 1][1], b[1 + i - 1][2] + Size(a)>>
    <3>1. IsShift(s, b, 1, Size(a))
      BY <1>1, <2>1, Shifted
    <3> QED
      BY <3>1, Zenon DEF IsShift
  <2>3. ASSUME NEW i \in 1..Len(b) PROVE s[i] = <<b[i][1], b[i][2] + Size(a)>>
    <3>1. 1 + i - 1 = i /\ i \in 1..Len(b) - 1 + 1
      BY <2>1
    <3>2. s[i] = <<b[1 + i - 1][1], b[1 + i - 1][2] + Size(a)>>
      BY <2>2, <3>1, Zenon
    <3> QED
      BY <3>1, <3>2, Zenon
  <2> QED
    BY <2>1, <2>2, <2>3
<1>3. CASE a = <<>>
  <2>1. Size(a) = 0
    BY <1>3, NoBytes
  <2>2. \A i \in 1..Len(b) : s[i] = b[i]
    <3> TAKE i \in 1..Len(b)
    <3>1. s[i] = <<b[i][1], b[i][2] + Size(a)>>
      BY <1>2, Zenon
    <3>2. b[i][2] \in Nat /\ b[i] = <<b[i][1], b[i][2]>>
      BY Runs
    <3>3. b[i][2] + Size(a) = b[i][2]
      BY <2>1, <3>2
    <3> QED
      BY <3>1, <3>2, <3>3, Zenon
  <2>3. s = b
    <3>1. s = [i \in 1..Len(b) |-> s[i]]
      BY <1>0, <1>2
    <3>2. b = [i \in 1..Len(b) |-> b[i]]
      BY Runs, Zenon
    <3>3. [i \in 1..Len(b) |-> s[i]] = [i \in 1..Len(b) |-> b[i]]
      BY <2>2, Zenon
    <3> QED
      BY <3>1, <3>2, <3>3, Zenon
  <2>4. Join(a, b) = b
    BY <1>1, <1>3, <2>3, <1>0, ConcatEmptySeq, Zenon DEF Join
  <2>5. \A i \in 1..Size(b) : Size(a) + i = i
    BY <1>0, <2>1
  <2>6. 1..Size(a) = {}
    BY <2>1
  <2> QED
    BY <1>0, <2>1, <2>4, <2>5, <2>6
<1>4. CASE b = <<>>
  <2>1. Size(b) = 0 /\ Len(b) = 0
    BY <1>4, NoBytes
  <2>2. s = <<>>
    BY <1>2, <2>1
  <2>3. Join(a, b) = a
    BY <1>1, <1>4, <2>2, <1>0, ConcatEmptySeq, Zenon DEF Join
  <2>4. 1..Size(b) = {}
    BY <2>1
  <2> QED
    BY <1>0, <2>1, <2>3, <2>4
<1>5. CASE a # <<>> /\ b # <<>>
  <2>1. PICK c : c = Join(a, b)
    OBVIOUS
  <2>2. Len(a) \in 1..Len(a) /\ Len(b) \in 1..Len(b)
    BY <1>5, Runs
  <2>3. PICK la : la = IF a[Len(a)][1] = b[1][1] THEN Len(a) - 1 ELSE Len(a)
    OBVIOUS
  <2>4. la \in Nat
    BY <1>0, <2>2, <2>3
  <2>5. PICK p : p = SubSeq(a, 1, la)
    OBVIOUS
  <2>6. /\ p \in Seq(Int \X Int) /\ Len(p) = la
        /\ \A i \in 1..la : p[i] = a[i]
    <3>1. la = Len(a) - 1 \/ la = Len(a)
      BY <2>3
    <3>2. \A i \in 1..la : a[i] \in Int \X Int /\ 1 + i - 1 = i
      BY <1>0, <3>1
    <3>3. /\ SubSeq(a, 1, la) \in Seq(Int \X Int)
          /\ Len(SubSeq(a, 1, la)) = IF 1 <= la THEN la - 1 + 1 ELSE 0
          /\ \A i \in 1..la - 1 + 1 : SubSeq(a, 1, la)[i] = a[1 + i - 1]
      BY <2>4, <3>2, SubSeqProperties
    <3>4. la - 1 + 1 = la
      BY <2>4
    <3>5. \A i \in 1..la : p[i] = a[i]
      BY <2>5, <3>2, <3>3, <3>4, Zenon
    <3>6. Len(p) = la
      BY <2>4, <2>5, <3>3, <3>4
    <3> QED
      BY <2>5, <3>3, <3>5, <3>6
  <2>7. c = p \o s
    <3>1. CASE a[Len(a)][1] = b[1][1]
      BY <1>1, <1>5, <2>1, <2>3, <2>5, <3>1 DEF Join
    <3>2. CASE a[Len(a)][1] # b[1][1]
      <4>1. p = a
        <5>1. la = Len(a)
          BY <2>3, <3>2
        <5> QED
          BY <1>0, <2>5, <5>1, SubSeqFull, Zenon
      <4> QED
        BY <1>1, <1>5, <2>1, <3>2, <4>1 DEF Join
    <3> QED
      BY <3>1, <3>2
  <2>8. /\ c \in Seq(Int \X Int) /\ Len(c) = la + Len(b)
        /\ \A i \in 1..la + Len(b) : c[i] = IF i <= la THEN p[i] ELSE s[i - la]
    <3>1. /\ p \o s \in Seq(Int \X Int) /\ Len(p \o s) = Len(p) + Len(s)
          /\ \A i \in 1..Len(p) + Len(s) : (p \o s)[i] = IF i <= Len(p) THEN p[i] ELSE s[i - Len(p)]
      <4>1. p \in Seq(Int \X Int) /\ s \in Seq(Int \X Int)
        BY <1>2, <2>6
      <4> QED
        BY ONLY <4>1, ConcatProperties, Zenon
    <3>2. Len(p) = la /\ Len(s) = Len(b)
      BY <1>2, <2>6
    <3> QED
      BY <2>7, <3>1, <3>2, Zenon
  <2>9. \A i \in 1..la : c[i] = a[i]
    <3> TAKE i \in 1..la
    <3>1. i \in 1..la + Len(b) /\ i <= la
      BY <1>0, <2>4
    <3> QED
      BY <2>6, <2>8, <3>1, Zenon
  <2>10. \A i \in 1..Len(b) : c[la + i] = <<b[i][1], b[i][2] + Size(a)>>
    <3> TAKE i \in 1..Len(b)
    <3>1. la + i \in 1..la + Len(b) /\ ~(la + i <= la) /\ la + i - la = i /\ (la + i) - la = i
      BY <1>0, <2>4
    <3>2. c[la + i] = s[i]
      BY <2>8, <3>1, Zenon
    <3> QED
      BY <1>2, <3>2, Zenon
  <2>11. c = [i \in 1..la + Len(b) |-> c[i]]
    BY <2>8
  <2>12. Spliced(a, b, la, c)
    BY <2>3, <2>9, <2>10, <2>11, Zenon DEF Spliced
  <2>13. /\ IsBuffer(c) /\ Size(c) = Size(a) + Size(b)
         /\ \A i \in 1..Size(a) : ByteAt(c, i) = ByteAt(a, i)
         /\ \A i \in 1..Size(b) : ByteAt(c, Size(a) + i) = ByteAt(b, i)
    BY <1>5, <2>12, SplicedBytes
  <2> QED
    BY <2>1, <2>13, Zenon
<1> QED
  BY <1>3, <1>4, <1>5

\* What was joined is taken apart again.
LEMMA Parted ==
  ASSUME NEW a, NEW b, IsBuffer(a), IsBuffer(b)
  PROVE  /\ Take(Join(a, b), Size(a)) = a
         /\ Drop(Join(a, b), Size(a)) = b
<1>1. PICK c, n, m : c = Join(a, b) /\ n = Size(a) /\ m = Size(b)
  OBVIOUS
<1>2. /\ IsBuffer(c) /\ Size(c) = n + m /\ n \in Nat /\ m \in Nat
      /\ \A i \in 1..n : ByteAt(c, i) = ByteAt(a, i)
      /\ \A i \in 1..m : ByteAt(c, n + i) = ByteAt(b, i)
  BY <1>1, Joined, Runs
<1>3. Take(c, n) = a
  <2>1. PICK t : t = Take(c, n)
    OBVIOUS
  <2>2. n <= Size(c)
    BY <1>2
  <2>3. IsBuffer(t) /\ Size(t) = n /\ \A i \in 1..n : ByteAt(t, i) = ByteAt(c, i)
    BY <1>2, <2>1, <2>2, Taken
  <2>4. \A i \in 1..n : ByteAt(t, i) = ByteAt(a, i)
    BY <1>2, <2>3
  <2> QED
    BY <1>1, <2>1, <2>3, <2>4, SameBytes
<1>4. Drop(c, n) = b
  <2>1. PICK t : t = Drop(c, n)
    OBVIOUS
  <2>2. n <= Size(c) /\ Size(c) - n = m
    BY <1>2
  <2>3. IsBuffer(t) /\ Size(t) = m /\ \A i \in 1..m : ByteAt(t, i) = ByteAt(c, n + i)
    BY <1>2, <2>1, <2>2, Dropped
  <2>4. \A i \in 1..m : ByteAt(t, i) = ByteAt(b, i)
    BY <1>2, <2>3
  <2> QED
    BY <1>1, <2>1, <2>3, <2>4, SameBytes
<1> QED
  BY <1>1, <1>3, <1>4

\* A buffer is the buffer of its bytes.
LEMMA TakenAll ==
  ASSUME NEW b, IsBuffer(b)
  PROVE  Take(b, Size(b)) = b /\ Drop(b, 0) = b
<1>1. Size(b) \in Nat /\ (Size(b) = 0 <=> b = <<>>)
  BY Runs
<1>2. Take(b, Size(b)) = b
  BY <1>1 DEF Take
<1>3. IsBuffer(Drop(b, 0)) /\ Size(Drop(b, 0)) = Size(b)
      /\ \A i \in 1..Size(b) : ByteAt(Drop(b, 0), i) = ByteAt(b, i)
  <2>1. 0 <= Size(b) /\ Size(b) - 0 = Size(b) /\ \A i \in 1..Size(b) : 0 + i = i
    BY <1>1
  <2>2. /\ IsBuffer(Drop(b, 0)) /\ Size(Drop(b, 0)) = Size(b)
        /\ \A i \in 1..Size(Drop(b, 0)) : ByteAt(Drop(b, 0), i) = ByteAt(b, 0 + i)
    BY <2>1, Dropped
  <2> QED
    BY <2>1, <2>2
<1> QED
  BY <1>2, <1>3, SameBytes

\* Dropping twice is dropping once.
LEMMA DroppedTwice ==
  ASSUME NEW b, IsBuffer(b), NEW m \in Nat, NEW n \in Nat, m + n <= Size(b)
  PROVE  Drop(Drop(b, m), n) = Drop(b, m + n)
<1>1. PICK c, d, e : c = Drop(b, m) /\ d = Drop(c, n) /\ e = Drop(b, m + n)
  OBVIOUS
<1>2. Size(b) \in Nat /\ m <= Size(b)
  BY Runs
<1>3. IsBuffer(c) /\ Size(c) = Size(b) - m /\ \A i \in 1..Size(c) : ByteAt(c, i) = ByteAt(b, m + i)
  BY <1>1, <1>2, Dropped
<1>4. IsBuffer(d) /\ Size(d) = Size(c) - n /\ \A i \in 1..Size(d) : ByteAt(d, i) = ByteAt(c, n + i)
  <2>1. n <= Size(c)
    BY <1>2, <1>3
  <2> QED
    BY <1>1, <1>3, <2>1, Dropped
<1>5. /\ IsBuffer(e) /\ Size(e) = Size(b) - (m + n)
      /\ \A i \in 1..Size(e) : ByteAt(e, i) = ByteAt(b, m + n + i)
  <2>1. m + n \in Nat
    OBVIOUS
  <2>2. /\ IsBuffer(e) /\ Size(e) = Size(b) - (m + n)
        /\ \A i \in 1..Size(e) : ByteAt(e, i) = ByteAt(b, (m + n) + i)
    BY <1>1, <2>1, Dropped
  <2> QED
    BY <2>2
<1>6. Size(d) = Size(e)
  BY <1>2, <1>3, <1>4, <1>5
<1>7. \A i \in 1..Size(d) : ByteAt(d, i) = ByteAt(e, i)
  <2> TAKE i \in 1..Size(d)
  <2>1. n + i \in 1..Size(c) /\ m + (n + i) = m + n + i /\ i \in 1..Size(e)
    BY <1>2, <1>3, <1>4, <1>6
  <2>2. ByteAt(d, i) = ByteAt(c, n + i)
    BY <1>4
  <2>3. ByteAt(c, n + i) = ByteAt(b, m + (n + i))
    BY <1>3, <2>1
  <2> QED
    BY <1>5, <2>1, <2>2, <2>3
<1> QED
  BY <1>1, <1>4, <1>5, <1>6, <1>7, SameBytes

\* The bytes of a sequence of bytes.
LEMMA BytesAre ==
  ASSUME NEW bs \in Seq(Int)
  PROVE  /\ IsBuffer(Bytes(bs)) /\ Size(Bytes(bs)) = Len(bs)
         /\ \A i \in 1..Len(bs) : ByteAt(Bytes(bs), i) = bs[i]
<1> DEFINE Upto(b, n) == /\ IsBuffer(b) /\ Size(b) = n
                         /\ \A i \in 1..n : ByteAt(b, i) = bs[i]
<1>0. Len(bs) \in Nat /\ \A i \in 1..Len(bs) : bs[i] \in Int
  OBVIOUS
<1>1. ASSUME NEW b, NEW n \in 1..Len(bs), Upto(b, n - 1)
      PROVE  Upto(Join(b, Fill(bs[n], 1)), n)
  <2>1. bs[n] \in Int /\ 1 \in Nat
    BY <1>0
  <2>2. PICK f : f = Fill(bs[n], 1)
    OBVIOUS
  <2>3. IsBuffer(f) /\ Size(f) = 1 /\ ByteAt(f, 1) = bs[n]
    <3>1. /\ IsBuffer(Fill(bs[n], 1)) /\ Size(Fill(bs[n], 1)) = 1
          /\ \A i \in 1..1 : ByteAt(Fill(bs[n], 1), i) = bs[n]
      BY <2>1, Filled
    <3>2. 1 \in 1..1
      OBVIOUS
    <3> QED
      BY <2>2, <3>1, <3>2
  <2>4. PICK c : c = Join(b, f)
    OBVIOUS
  <2>5. /\ IsBuffer(c) /\ Size(c) = (n - 1) + 1
        /\ \A i \in 1..n - 1 : ByteAt(c, i) = ByteAt(b, i)
        /\ \A i \in 1..1 : ByteAt(c, (n - 1) + i) = ByteAt(f, i)
    BY <1>1, <2>3, <2>4, Joined
  <2>6. ByteAt(c, n) = bs[n]
    <3>1. 1 \in 1..1 /\ (n - 1) + 1 = n
      OBVIOUS
    <3> QED
      BY <2>3, <2>5, <3>1, Zenon
  <2>7. \A i \in 1..n : ByteAt(c, i) = bs[i]
    <3>1. \A i \in 1..n : i = n \/ i \in 1..n - 1
      OBVIOUS
    <3> QED
      BY <1>1, <2>5, <2>6, <3>1
  <2>8. Size(c) = n
    BY <2>5
  <2> QED
    BY <2>2, <2>4, <2>5, <2>7, <2>8
<1>2. Upto(<<>>, 0)
  BY NoBytes
<1>3. \A n \in 0..Len(bs) : \E b : Upto(b, n)
  <2> DEFINE T == {n \in 0..Len(bs) : \E b : Upto(b, n)}
  <2>1. 0 \in T
    BY <1>0, <1>2
  <2>2. \A n \in 1..Len(bs) : n - 1 \in T => n \in T
    <3> HIDE DEF Upto
    <3> QED
      BY <1>1
  <2>3. 0..Len(bs) \subseteq T
    <3> HIDE DEF T
    <3> QED
      BY <1>0, <2>1, <2>2, Stepwise
  <2> QED
    BY <2>3
<1> DEFINE g == [i \in 0..Len(bs) |-> CHOOSE b : Upto(b, i)]
<1>4. \A n \in 0..Len(bs) : Upto(g[n], n)
  <2> HIDE DEF Upto
  <2> QED
    BY <1>3
<1>5. \A b, c, n : Upto(b, n) /\ Upto(c, n) => b = c
  BY SameBytes
<1>6. \A n \in 0..Len(bs) :
        g[n] = IF n = 0 THEN <<>> ELSE Join(g[n - 1], Fill(bs[n], 1))
  <2> TAKE n \in 0..Len(bs)
  <2> HIDE DEF Upto, g
  <2>1. CASE n = 0
    BY <1>2, <1>4, <1>5, <2>1
  <2>2. CASE n # 0
    <3>1. n - 1 \in 0..Len(bs) /\ n \in 1..Len(bs)
      BY <1>0, <2>2
    <3>2. Upto(Join(g[n - 1], Fill(bs[n], 1)), n)
      BY <1>1, <1>4, <3>1
    <3> QED
      BY <1>4, <1>5, <2>2, <3>2
  <2> QED
    BY <2>1, <2>2
<1> DEFINE Rec(h) == h = [i \in 0..Len(bs) |->
                            IF i = 0 THEN <<>> ELSE Join(h[i - 1], Fill(bs[i], 1))]
<1>7. Rec(g)
  <2>1. g = [i \in 0..Len(bs) |-> g[i]]
    <3> HIDE DEF Upto
    <3> QED
      OBVIOUS
  <2> HIDE DEF g
  <2>2. [i \in 0..Len(bs) |-> g[i]]
          = [i \in 0..Len(bs) |-> IF i = 0 THEN <<>> ELSE Join(g[i - 1], Fill(bs[i], 1))]
    BY <1>6, Zenon
  <2> QED
    BY <2>1, <2>2, Zenon
<1> DEFINE h == CHOOSE f : Rec(f)
<1>8. Rec(h)
  <2> HIDE DEF Rec, g
  <2> QED
    BY <1>7, Zenon
<1>9. \A n \in 0..Len(bs) : h[n] = IF n = 0 THEN <<>> ELSE Join(h[n - 1], Fill(bs[n], 1))
  <2> HIDE DEF h
  <2> QED
    BY <1>8, Zenon
<1>10. Bytes(bs) = h[Len(bs)]
  BY Zenon DEF Bytes
<1>11. \A n \in 0..Len(bs) : Upto(h[n], n)
  <2> HIDE DEF h
  <2> DEFINE T == {n \in 0..Len(bs) : Upto(h[n], n)}
  <2>1. 0 \in T
    BY <1>0, <1>2, <1>9
  <2>2. ASSUME NEW n \in 1..Len(bs), n - 1 \in T PROVE n \in T
    <3>1. h[n] = Join(h[n - 1], Fill(bs[n], 1))
      <4>1. n \in 0..Len(bs) /\ n # 0
        BY <1>0
      <4> QED
        BY <1>9, <4>1, Zenon
    <3>2. Upto(h[n], n)
      <4> HIDE DEF Upto
      <4> QED
        BY <1>1, <2>2, <3>1
    <3> QED
      BY <1>0, <3>2
  <2>3. 0..Len(bs) \subseteq T
    <3> HIDE DEF T
    <3> QED
      BY <1>0, <2>1, <2>2, Stepwise
  <2> QED
    BY <2>3
<1> QED
  <2> HIDE DEF h
  <2>1. Len(bs) \in 0..Len(bs)
    BY <1>0
  <2> QED
    BY <1>10, <1>11, <2>1

-------------------------------------------------------------------------------
(* Varints.                                                                    *)

\* Two buffers are alike as far as both go.
Alike(a, b) == \A i \in 1..Size(a) : i <= Size(b) => ByteAt(a, i) = ByteAt(b, i)

\* The septets of a number, with the last one that is not 0.
HasSeptets(v, ds, n) ==
  /\ n \in 1..5 /\ ds \in [1..5 -> 0..127] /\ ds[5] \in 0..7
  /\ n # 1 => ds[n] # 0
  /\ \A i \in 1..5 : i > n => ds[i] = 0
  /\ v = ds[1] + 128 * ds[2] + 2^14 * ds[3] + 2^21 * ds[4] + 2^28 * ds[5]

LEMMA IntMax == INT_MAX \in Nat /\ INT_MAX < 2147483648
BY SMT DEF INT_MAX

LEMMA SeptetsAre ==
  ASSUME NEW v \in 0..INT_MAX
  PROVE  \E n : /\ HasSeptets(v, Septets(v), n)
                /\ n = Max({1} \cup {i \in DOMAIN Septets(v) : Septets(v)[i] # 0})
<1> DEFINE ds == Septets(v)
<1>1. /\ ds[1] = v % 128 /\ ds[2] = (v \div 128) % 128 /\ ds[3] = (v \div 16384) % 128
      /\ ds[4] = (v \div 2097152) % 128 /\ ds[5] = (v \div 268435456) % 16
  <2>1. 128^0 = 1 /\ 128^1 = 128 /\ 128^2 = 16384 /\ 128^3 = 2097152 /\ 2^28 = 268435456
    BY SMT
  <2>2. v \div 1 = v
    BY SMT
  <2> QED
    BY <2>1, <2>2, SMT DEF Septets
<1>2. DOMAIN ds = 1..5 /\ ds = [i \in 1..5 |-> ds[i]]
  BY DEF Septets
<1> HIDE DEF ds
<1>3. v \in Nat /\ v < 2147483648
  BY IntMax, SMT
<1>4. ds[1] \in 0..127 /\ ds[2] \in 0..127 /\ ds[3] \in 0..127 /\ ds[4] \in 0..127
  BY <1>1, <1>3, SMT
<1>5. ds[5] \in 0..7
  BY <1>1, <1>3, SMT
<1>6. v = ds[1] + 128 * ds[2] + 16384 * ds[3] + 2097152 * ds[4] + 268435456 * ds[5]
  BY <1>1, <1>3, SMT
<1>7. ds \in [1..5 -> 0..127]
  <2>1. \A i \in 1..5 : ds[i] \in 0..127
    BY <1>4, <1>5
  <2> QED
    BY <1>2, <2>1
<1>8. v = ds[1] + 128 * ds[2] + 2^14 * ds[3] + 2^21 * ds[4] + 2^28 * ds[5]
  <2>1. 2^14 = 16384 /\ 2^21 = 2097152 /\ 2^28 = 268435456
    BY SMT
  <2> QED
    BY <1>6, <2>1, SMT
<1> DEFINE S == {1} \cup {i \in 1..5 : ds[i] # 0}
<1>9. PICK n \in S : \A i \in S : i <= n
  <2>1. CASE 5 \in S
    BY <2>1
  <2>2. CASE 5 \notin S /\ 4 \in S
    BY <2>2
  <2>3. CASE 5 \notin S /\ 4 \notin S /\ 3 \in S
    BY <2>3
  <2>4. CASE 5 \notin S /\ 4 \notin S /\ 3 \notin S /\ 2 \in S
    BY <2>4
  <2>5. CASE 5 \notin S /\ 4 \notin S /\ 3 \notin S /\ 2 \notin S
    BY <2>5
  <2> QED
    BY <2>1, <2>2, <2>3, <2>4, <2>5
<1>10. n = Max(S)
  <2>1. \A m \in S : (\A i \in S : i <= m) => m = n
    BY <1>9
  <2> HIDE DEF S
  <2> QED
    BY <1>9, <2>1 DEF Max
<1>11. HasSeptets(v, ds, n)
  <2>1. n \in 1..5
    BY <1>9
  <2>2. n # 1 => ds[n] # 0
    BY <1>9
  <2>3. \A i \in 1..5 : i > n => ds[i] = 0
    BY <1>9, <2>1
  <2> QED
    BY <1>5, <1>7, <1>8, <2>1, <2>2, <2>3 DEF HasSeptets
<1> QED
  BY <1>2, <1>10, <1>11 DEF ds

\* What WrVarint writes.
LEMMA VarintIs ==
  ASSUME NEW v \in 0..INT_MAX
  PROVE  \E ds, n : /\ HasSeptets(v, ds, n)
                    /\ IsBuffer(WrVarint(v)) /\ Size(WrVarint(v)) = n
                    /\ \A i \in 1..n : ByteAt(WrVarint(v), i) = IF i < n THEN ds[i] + 128 ELSE ds[i]
<1>1. PICK ds : ds = Septets(v)
  OBVIOUS
<1>2. PICK n : /\ HasSeptets(v, ds, n)
               /\ n = Max({1} \cup {i \in DOMAIN ds : ds[i] # 0})
  BY <1>1, SeptetsAre
<1>3. PICK w : w = [i \in 1..n |-> IF i < n THEN ds[i] + 128 ELSE ds[i]]
  OBVIOUS
<1>4. n \in 1..5 /\ \A i \in 1..5 : ds[i] \in 0..127
  BY <1>2 DEF HasSeptets
<1>5. w \in Seq(Int) /\ Len(w) = n /\ \A i \in 1..n : w[i] = IF i < n THEN ds[i] + 128 ELSE ds[i]
  <2>1. \A i \in 1..n : (IF i < n THEN ds[i] + 128 ELSE ds[i]) \in Int
    BY <1>4
  <2>2. w \in [1..n -> Int]
    BY <1>3, <2>1
  <2>3. n \in Nat
    BY <1>4
  <2> QED
    BY <1>3, <2>2, <2>3
<1>6. WrVarint(v) = Bytes(w)
  BY <1>1, <1>2, <1>3, Zenon DEF WrVarint, WrSeptets
<1>7. IsBuffer(Bytes(w)) /\ Size(Bytes(w)) = n /\ \A i \in 1..n : ByteAt(Bytes(w), i) = w[i]
  <2>1. IsBuffer(Bytes(w)) /\ Size(Bytes(w)) = Len(w)
        /\ \A i \in 1..Len(w) : ByteAt(Bytes(w), i) = w[i]
    BY <1>5, BytesAre
  <2> QED
    BY <1>5, <2>1
<1>8. IsBuffer(WrVarint(v)) /\ Size(WrVarint(v)) = n
      /\ \A i \in 1..n : ByteAt(WrVarint(v), i) = w[i]
  BY <1>6, <1>7, Zenon
<1>9. \A i \in 1..n : ByteAt(WrVarint(v), i) = IF i < n THEN ds[i] + 128 ELSE ds[i]
  BY <1>5, <1>8, Zenon
<1> QED
  BY <1>2, <1>8, <1>9, Zenon

\* The first cells of a buffer.
LEMMA CellsAre ==
  ASSUME NEW b, IsBuffer(b)
  PROVE  \E m \in 0..5 : /\ m = IF Size(b) < 5 THEN Size(b) ELSE 5
                         /\ DOMAIN Cells(b, 5) = 1..m
                         /\ \A i \in 1..m : Cells(b, 5)[i] = ByteAt(b, i)
<1>1. Size(b) \in Nat
  BY Runs
<1>2. PICK m \in 0..5 : m = IF Size(b) < 5 THEN Size(b) ELSE 5
  BY <1>1
<1>3. Min({5, Size(b)}) = m
  <2>1. Min({5, Size(b)}) = IF 5 <= Size(b) THEN 5 ELSE Size(b)
    BY <1>1, MinOf
  <2> QED
    BY <1>1, <1>2, <2>1
<1>4. Cells(b, 5) = [i \in 1..m |-> ByteAt(b, i)]
  BY <1>3 DEF Cells
<1> QED
  BY <1>2, <1>4

\* What begins like a varint is read as the number that was written.
LEMMA VarintRead ==
  ASSUME NEW v \in 0..INT_MAX, NEW b, IsBuffer(b), Alike(b, WrVarint(v)),
         Size(WrVarint(v)) <= Size(b)
  PROVE  RdVarint(b) = Got(v, Drop(b, Size(WrVarint(v))))
<1>1. PICK ds, n : /\ HasSeptets(v, ds, n)
                   /\ IsBuffer(WrVarint(v)) /\ Size(WrVarint(v)) = n
                   /\ \A i \in 1..n : ByteAt(WrVarint(v), i) = IF i < n THEN ds[i] + 128 ELSE ds[i]
  BY VarintIs
<1>2. n \in 1..5 /\ (\A i \in 1..5 : ds[i] \in 0..127) /\ ds[5] \in 0..7
      /\ \A i \in 1..5 : i > n => ds[i] = 0
  BY <1>1 DEF HasSeptets
<1>3. PICK bs : bs = Cells(b, 5)
  OBVIOUS
<1>4. PICK m \in 0..5 : /\ m = IF Size(b) < 5 THEN Size(b) ELSE 5
                        /\ DOMAIN bs = 1..m
                        /\ \A i \in 1..m : bs[i] = ByteAt(b, i)
  BY <1>3, CellsAre
<1>5. n <= m /\ \A i \in 1..n : i \in 1..Size(b) /\ i \in 1..m
  <2>1. Size(b) \in Nat /\ n <= Size(b)
    BY <1>1, Runs
  <2> QED
    BY <1>2, <1>4, <2>1
<1>6. \A i \in 1..n : bs[i] = IF i < n THEN ds[i] + 128 ELSE ds[i]
  <2> TAKE i \in 1..n
  <2>1. ByteAt(b, i) = ByteAt(WrVarint(v), i)
    BY <1>1, <1>2, <1>5 DEF Alike
  <2> QED
    BY <1>1, <1>4, <1>5, <2>1
<1> DEFINE S == {i \in DOMAIN bs : bs[i] < 128}
<1>7. n \in S /\ \A i \in S : n <= i
  <2>1. n \in S
    <3>1. n \in 1..n /\ n \in 1..m /\ ~(n < n) /\ n \in 1..5
      BY <1>2, <1>5
    <3>2. bs[n] = ds[n] /\ ds[n] \in 0..127
      BY <1>2, <1>6, <3>1
    <3>3. bs[n] < 128
      BY <3>2
    <3> QED
      BY <1>4, <3>1, <3>3
  <2>2. ASSUME NEW i \in S, i < n PROVE FALSE
    <3>1. i \in 1..n
      BY <1>2, <1>4, <2>2
    <3>2. bs[i] = ds[i] + 128 /\ ds[i] \in 0..127
      BY <1>2, <1>6, <2>2, <3>1
    <3> QED
      BY <3>2
  <2> QED
    BY <1>2, <1>4, <2>1, <2>2
<1>8. Min(S) = n /\ S # {}
  <2>1. \A k \in S : (\A i \in S : k <= i) => k = n
    BY <1>2, <1>4, <1>7
  <2> HIDE DEF S
  <2> QED
    BY <1>7, <2>1 DEF Min
<1>9. PICK d : d = [i \in 1..5 |-> IF i <= n THEN bs[i] % 128 ELSE 0]
  OBVIOUS
<1>10. RdSeptets(b, 5) = Got(d, Drop(b, n))
  BY <1>3, <1>8, <1>9, Zenon DEF RdSeptets
<1>11. \A i \in 1..5 : d[i] = ds[i]
  <2> TAKE i \in 1..5
  <2>1. CASE i <= n
    <3>1. i \in 1..n
      BY <1>2, <2>1
    <3>2. bs[i] = ds[i] + 128 \/ bs[i] = ds[i]
      BY <1>6, <3>1
    <3>3. ds[i] \in 0..127
      BY <1>2
    <3>4. bs[i] % 128 = ds[i]
      BY <3>2, <3>3
    <3> QED
      BY <1>9, <2>1, <3>4
  <2>2. CASE ~(i <= n)
    BY <1>2, <1>9, <2>2
  <2> QED
    BY <2>1, <2>2
<1>12. Signed(d[5] % 16, 4) = ds[5]
  <2>1. d[5] = ds[5] /\ ds[5] \in 0..7
    BY <1>2, <1>11
  <2>2. 2^(4 - 1) = 8
    OBVIOUS
  <2>3. d[5] % 16 = ds[5] /\ ~(ds[5] >= 8)
    BY <2>1
  <2> QED
    BY <2>2, <2>3 DEF Signed
<1>13. v = d[1] + 128 * d[2] + 2^14 * d[3] + 2^21 * d[4] + 2^28 * Signed(d[5] % 16, 4)
  <2>1. v = ds[1] + 128 * ds[2] + 2^14 * ds[3] + 2^21 * ds[4] + 2^28 * ds[5]
    BY <1>1 DEF HasSeptets
  <2>2. d[1] = ds[1] /\ d[2] = ds[2] /\ d[3] = ds[3] /\ d[4] = ds[4]
    BY <1>11
  <2>3. v = d[1] + 128 * d[2] + 2^14 * d[3] + 2^21 * d[4] + 2^28 * ds[5]
    BY <2>1, <2>2, Zenon
  <2> QED
    BY <1>12, <2>3, Zenon
<1>14. RdVarint(b) = Got(d[1] + 128 * d[2] + 2^14 * d[3] + 2^21 * d[4]
                           + 2^28 * Signed(d[5] % 16, 4), Drop(b, n))
  <2>1. PICK r, rest : r = RdSeptets(b, 5) /\ rest = Drop(b, n)
    OBVIOUS
  <2>2. r.ok /\ r.v = d /\ r.rest = rest
    BY <1>10, <2>1 DEF Got
  <2>3. RdVarint(b) = Got(r.v[1] + 128 * r.v[2] + 2^14 * r.v[3] + 2^21 * r.v[4]
                            + 2^28 * Signed(r.v[5] % 16, 4), r.rest)
    BY <2>1, <2>2, Zenon DEF RdVarint, AndThen
  <2>4. PICK x : x = d[1] + 128 * d[2] + 2^14 * d[3] + 2^21 * d[4] + 2^28 * Signed(d[5] % 16, 4)
    OBVIOUS
  <2>5. x = r.v[1] + 128 * r.v[2] + 2^14 * r.v[3] + 2^21 * r.v[4] + 2^28 * Signed(r.v[5] % 16, 4)
    BY <2>2, <2>4, Zenon
  <2>6. RdVarint(b) = Got(x, r.rest)
    BY <2>3, <2>5, Zenon
  <2> QED
    BY <2>1, <2>2, <2>4, <2>6, Zenon
<1> QED
  BY <1>1, <1>13, <1>14, Zenon

\* What is cut short within a varint is not read.
LEMMA VarintShort ==
  ASSUME NEW v \in 0..INT_MAX, NEW b, IsBuffer(b), Alike(b, WrVarint(v)),
         Size(b) < Size(WrVarint(v))
  PROVE  ~RdVarint(b).ok
<1>1. PICK ds, n : /\ HasSeptets(v, ds, n)
                   /\ IsBuffer(WrVarint(v)) /\ Size(WrVarint(v)) = n
                   /\ \A i \in 1..n : ByteAt(WrVarint(v), i) = IF i < n THEN ds[i] + 128 ELSE ds[i]
  BY VarintIs
<1>2. n \in 1..5 /\ (\A i \in 1..5 : ds[i] \in 0..127)
  BY <1>1 DEF HasSeptets
<1>3. PICK bs : bs = Cells(b, 5)
  OBVIOUS
<1>4. PICK m \in 0..5 : /\ m = IF Size(b) < 5 THEN Size(b) ELSE 5
                        /\ DOMAIN bs = 1..m
                        /\ \A i \in 1..m : bs[i] = ByteAt(b, i)
  BY <1>3, CellsAre
<1>5. \A i \in 1..m : i \in 1..n /\ i < n /\ i \in 1..Size(b) /\ i <= Size(WrVarint(v))
  <2>1. Size(b) \in Nat /\ Size(b) < n
    BY <1>1, Runs
  <2> QED
    BY <1>1, <1>2, <1>4, <2>1
<1>6. \A i \in 1..m : ~(bs[i] < 128)
  <2> TAKE i \in 1..m
  <2>1. bs[i] = ByteAt(WrVarint(v), i)
    BY <1>4, <1>5 DEF Alike
  <2>2. bs[i] = ds[i] + 128 /\ ds[i] \in 0..127
    BY <1>1, <1>2, <1>5, <2>1
  <2> QED
    BY <2>2
<1>7. {i \in DOMAIN bs : bs[i] < 128} = {}
  BY <1>4, <1>6
<1>8. RdSeptets(b, 5) = NoRead
  BY <1>3, <1>7, Zenon DEF RdSeptets
<1> QED
  BY <1>8 DEF RdVarint, AndThen, NoRead

\* A varint has one byte to five, and 0 has one.
LEMMA VarintSize ==
  ASSUME NEW v \in 0..INT_MAX
  PROVE  IsBuffer(WrVarint(v)) /\ Size(WrVarint(v)) \in 1..5 /\ (v = 0 => Size(WrVarint(v)) = 1)
<1>1. PICK ds, n : /\ HasSeptets(v, ds, n)
                   /\ IsBuffer(WrVarint(v)) /\ Size(WrVarint(v)) = n
  BY VarintIs
<1>2. /\ n \in 1..5 /\ (\A i \in 1..5 : ds[i] \in 0..127) /\ (n # 1 => ds[n] # 0)
      /\ v = ds[1] + 128 * ds[2] + 2^14 * ds[3] + 2^21 * ds[4] + 2^28 * ds[5]
  BY <1>1 DEF HasSeptets
<1>3. ASSUME v = 0 PROVE n = 1
  <2>1. ds[1] \in 0..127 /\ ds[2] \in 0..127 /\ ds[3] \in 0..127 /\ ds[4] \in 0..127 /\ ds[5] \in 0..127
    BY <1>2
  <2>2. 2^14 = 16384 /\ 2^21 = 2097152 /\ 2^28 = 268435456
    BY SMT
  <2>3. ds[2] = 0 /\ ds[3] = 0 /\ ds[4] = 0 /\ ds[5] = 0
    <3>1. PICK p, q, r, s, t : p = ds[1] /\ q = ds[2] /\ r = ds[3] /\ s = ds[4] /\ t = ds[5]
      BY SMT
    <3>2. 0 = p + 128 * q + 16384 * r + 2097152 * s + 268435456 * t
      BY <1>2, <1>3, <2>2, <3>1, SMT
    <3>3. p \in Nat /\ q \in Nat /\ r \in Nat /\ s \in Nat /\ t \in Nat
      BY <2>1, <3>1, SMT
    <3>4. q = 0 /\ r = 0 /\ s = 0 /\ t = 0
      BY <3>2, <3>3, SMT
    <3> QED
      BY <3>1, <3>4
  <2>4. n = 1 \/ n = 2 \/ n = 3 \/ n = 4 \/ n = 5
    BY <1>2
  <2> QED
    BY <1>2, <2>3, <2>4
<1> QED
  BY <1>1, <1>2, <1>3

\* What is alike to a and then b is alike to a, and to b behind it.
LEMMA AlikeParts ==
  ASSUME NEW a, NEW b, NEW c, IsBuffer(a), IsBuffer(b), IsBuffer(c), Alike(c, Join(a, b))
  PROVE  /\ Alike(c, a)
         /\ Size(a) <= Size(c) => Alike(Drop(c, Size(a)), b)
<1>1. PICK j, n, m : j = Join(a, b) /\ n = Size(a) /\ m = Size(b)
  OBVIOUS
<1>2. /\ IsBuffer(j) /\ Size(j) = n + m /\ n \in Nat /\ m \in Nat /\ Size(c) \in Nat
      /\ \A i \in 1..n : ByteAt(j, i) = ByteAt(a, i)
      /\ \A i \in 1..m : ByteAt(j, n + i) = ByteAt(b, i)
  BY <1>1, Joined, Runs
<1>3. \A i \in 1..Size(c) : i <= n + m => ByteAt(c, i) = ByteAt(j, i)
  BY <1>1, <1>2 DEF Alike
<1>4. \A i \in 1..Size(c) : i <= n => ByteAt(c, i) = ByteAt(a, i)
  <2> SUFFICES ASSUME NEW i \in 1..Size(c), i <= n PROVE ByteAt(c, i) = ByteAt(a, i)
    OBVIOUS
  <2>1. i <= n + m /\ i \in 1..n
    BY <1>2
  <2> QED
    BY <1>2, <1>3, <2>1
<1>5. ASSUME n <= Size(c) PROVE Alike(Drop(c, n), b)
  <2>1. PICK d : d = Drop(c, n)
    OBVIOUS
  <2>2. Size(d) = Size(c) - n /\ \A i \in 1..Size(d) : ByteAt(d, i) = ByteAt(c, n + i)
    BY <1>2, <1>5, <2>1, Dropped
  <2>3. ASSUME NEW i \in 1..Size(d), i <= m PROVE ByteAt(d, i) = ByteAt(b, i)
    <3>1. n + i \in 1..Size(c) /\ n + i <= n + m /\ i \in 1..m
      BY <1>2, <2>2, <2>3
    <3>2. ByteAt(d, i) = ByteAt(j, n + i)
      BY <1>3, <2>2, <3>1
    <3> QED
      BY <1>2, <3>1, <3>2
  <2> QED
    BY <1>1, <2>1, <2>3 DEF Alike
<1> QED
  BY <1>1, <1>4, <1>5 DEF Alike

\* What is alike and goes further begins with it.
LEMMA AlikeTaken ==
  ASSUME NEW a, NEW c, IsBuffer(a), IsBuffer(c), Alike(c, a), Size(a) <= Size(c)
  PROVE  Take(c, Size(a)) = a
<1>1. Size(a) \in Nat /\ Size(c) \in Nat
  BY Runs
<1>2. PICK t : t = Take(c, Size(a))
  OBVIOUS
<1>3. IsBuffer(t) /\ Size(t) = Size(a) /\ \A i \in 1..Size(a) : ByteAt(t, i) = ByteAt(c, i)
  BY <1>1, <1>2, Taken
<1>4. \A i \in 1..Size(a) : ByteAt(t, i) = ByteAt(a, i)
  <2> TAKE i \in 1..Size(a)
  <2>1. i \in 1..Size(c) /\ i <= Size(a)
    BY <1>1
  <2> QED
    BY <1>3, <2>1 DEF Alike
<1> QED
  BY <1>2, <1>3, <1>4, SameBytes

\* A varint and what follows it are read.
LEMMA VarintThen ==
  ASSUME NEW v \in 0..INT_MAX, NEW a, IsBuffer(a)
  PROVE  RdVarint(Join(WrVarint(v), a)) = Got(v, a)
<1>1. PICK w, j : w = WrVarint(v) /\ j = Join(w, a)
  OBVIOUS
<1>2. IsBuffer(w) /\ IsBuffer(j) /\ Size(w) \in Nat /\ Size(a) \in Nat /\ Size(j) = Size(w) + Size(a)
  BY <1>1, VarintSize, Joined, Runs
<1>3. Alike(j, j)
  BY DEF Alike
<1>4. Alike(j, w) /\ Size(w) <= Size(j)
  BY <1>1, <1>2, <1>3, AlikeParts
<1>5. RdVarint(j) = Got(v, Drop(j, Size(w)))
  BY <1>1, <1>2, <1>4, VarintRead
<1>6. Drop(j, Size(w)) = a
  BY <1>1, <1>2, Parted
<1> QED
  BY <1>1, <1>5, <1>6

-------------------------------------------------------------------------------
(* Frames.                                                                     *)

\* What the receiver makes of the inside of a frame.
Opened(inside, threshold, rest) ==
  IF threshold < 0 THEN Body(RdVarint(inside), rest) ELSE Unpacked(RdVarint(inside), rest)

Packet(it, rest) == [g |-> "ok", id |-> it.id, payload |-> Payload(it), rest |-> rest]

\* A frame is the length of its inside and its inside, which holds the packet.
LEMMA FrameIs ==
  ASSUME NEW it, Sendable(it), NEW threshold \in Int
  PROVE  \E r : /\ IsBuffer(r) /\ Size(r) \in 1..MAX_FRAME
                /\ Frame(threshold, it.id, Payload(it)) = Join(WrVarint(Size(r)), r)
                /\ \A rest : Opened(r, threshold, rest) = Packet(it, rest)
<1>1. PICK body, n, z, id, f : /\ body = BodyOf(it) /\ n = Size(body) /\ z = Compress(body) /\ id = it.id
                               /\ f = Frame(threshold, it.id, Payload(it))
  OBVIOUS
<1>2. /\ id \in 0..INT_MAX /\ IsBuffer(Payload(it)) /\ Size(body) < MAX_FRAME
      /\ IsBuffer(z) /\ Size(z) + 5 <= MAX_FRAME /\ Uncompress(z) = body
  BY <1>1 DEF Sendable
<1>3. MAX_FRAME \in Nat /\ MAX_FRAME <= INT_MAX - 8 /\ INT_MAX \in Nat
  BY WireConstants, IntMax
<1>4. IsBuffer(body) /\ n \in 1..MAX_FRAME - 1
  <2>1. PICK w : w = WrVarint(id)
    OBVIOUS
  <2>2. IsBuffer(w) /\ Size(w) \in 1..5 /\ Size(Payload(it)) \in Nat
    BY <1>2, <2>1, VarintSize, Runs
  <2>3. body = Join(w, Payload(it))
    BY <1>1, <2>1 DEF BodyOf
  <2>4. IsBuffer(body) /\ Size(body) = Size(w) + Size(Payload(it))
    BY <1>2, <2>2, <2>3, Joined
  <2> QED
    BY <1>1, <1>2, <1>3, <2>2, <2>4
<1>5. RdVarint(body) = Got(id, Payload(it))
  BY <1>1, <1>2, VarintThen DEF BodyOf
<1>6. \A rest : Body(RdVarint(body), rest) = Packet(it, rest)
  BY <1>1, <1>5 DEF Body, Got, Packet
<1>7. n \in 0..INT_MAX /\ 0 \in 0..INT_MAX /\ 0 <= MAX_FRAME /\ n # 0 /\ n <= MAX_FRAME
      /\ ~(n < 0) /\ ~(n > MAX_FRAME) /\ ~(0 < 0) /\ ~(0 > MAX_FRAME)
  BY <1>3, <1>4
<1>8. CASE threshold < 0
  <2>1. f = Join(WrVarint(n), body)
    <3>1. ~(threshold >= 0)
      BY <1>8
    <3> QED
      BY <1>1, <1>8, <3>1, Zenon DEF Frame, BodyOf
  <2>2. \A rest : Opened(body, threshold, rest) = Packet(it, rest)
    BY <1>6, <1>8 DEF Opened
  <2>3. Size(body) \in 1..MAX_FRAME
    BY <1>1, <1>3, <1>4
  <2> QED
    BY <1>1, <1>4, <2>1, <2>2, <2>3
<1>9. CASE threshold >= 0 /\ n < threshold
  <2>1. PICK w, r : w = WrVarint(0) /\ r = Join(w, body)
    OBVIOUS
  <2>2. IsBuffer(w) /\ Size(w) = 1
    BY <1>7, <2>1, VarintSize
  <2>3. IsBuffer(r) /\ Size(r) = 1 + n
    BY <1>1, <1>4, <2>1, <2>2, Joined
  <2>4. Size(r) = n + 1 /\ Size(r) \in 1..MAX_FRAME
    BY <1>3, <1>4, <2>3
  <2>5. f = Join(WrVarint(Size(r)), r)
    <3>1. ~(threshold < 0) /\ ~(n >= threshold)
      BY <1>4, <1>9
    <3> QED
      BY <1>1, <1>9, <2>1, <2>4, <3>1, Zenon DEF Frame, BodyOf
  <2>6. RdVarint(r) = Got(0, body)
    BY <1>4, <1>7, <2>1, VarintThen
  <2>7. \A rest : Opened(r, threshold, rest) = Packet(it, rest)
    <3> TAKE rest
    <3>1. ~(threshold < 0)
      BY <1>9
    <3>2. Opened(r, threshold, rest) = Unpacked(Got(0, body), rest)
      BY <2>6, <3>1, Zenon DEF Opened
    <3>3. Got(0, body).ok /\ Got(0, body).v = 0 /\ Got(0, body).rest = body
      BY DEF Got
    <3>4. Unpacked(Got(0, body), rest) = Body(RdVarint(body), rest)
      BY <1>7, <3>3, Zenon DEF Unpacked
    <3> QED
      BY <1>6, <3>2, <3>4
  <2> QED
    BY <1>1, <2>3, <2>4, <2>5, <2>7
<1>10. CASE threshold >= 0 /\ n >= threshold
  <2>1. PICK w, r : w = WrVarint(n) /\ r = Join(w, z)
    OBVIOUS
  <2>2. IsBuffer(w) /\ Size(w) \in 1..5 /\ Size(z) \in Nat
    BY <1>2, <1>7, <2>1, VarintSize, Runs
  <2>3. IsBuffer(r) /\ Size(r) = Size(w) + Size(z)
    BY <1>2, <2>1, <2>2, Joined
  <2>4. Size(r) = Size(z) + Size(w) /\ Size(r) \in 1..MAX_FRAME
    BY <1>2, <1>3, <2>2, <2>3
  <2>5. f = Join(WrVarint(Size(r)), r)
    <3>1. ~(threshold < 0) /\ ~(n < threshold)
      BY <1>4, <1>10
    <3> QED
      BY <1>1, <1>10, <2>1, <2>4, <3>1, Zenon DEF Frame, BodyOf
  <2>6. RdVarint(r) = Got(n, z)
    BY <1>2, <1>7, <2>1, VarintThen
  <2>7. \A rest : Opened(r, threshold, rest) = Packet(it, rest)
    <3> TAKE rest
    <3>1. ~(threshold < 0)
      BY <1>10
    <3>2. Opened(r, threshold, rest) = Unpacked(Got(n, z), rest)
      BY <2>6, <3>1, Zenon DEF Opened
    <3>3. Got(n, z).ok /\ Got(n, z).v = n /\ Got(n, z).rest = z
      BY DEF Got
    <3>4. Size(Uncompress(z)) = n
      BY <1>1, <1>2
    <3>5. Unpacked(Got(n, z), rest) = Body(RdVarint(body), rest)
      BY <1>2, <1>7, <3>3, <3>4, Zenon DEF Unpacked
    <3> QED
      BY <1>6, <3>2, <3>5
  <2> QED
    BY <1>1, <2>3, <2>4, <2>5, <2>7
<1>11. \/ threshold < 0
       \/ threshold >= 0 /\ n < threshold
       \/ threshold >= 0 /\ n >= threshold
  BY <1>4
<1> QED
  BY <1>8, <1>9, <1>10, <1>11

LEMMA FrameSize ==
  ASSUME NEW it, Sendable(it), NEW threshold \in Int
  PROVE  /\ IsBuffer(Frame(threshold, it.id, Payload(it)))
         /\ Size(Frame(threshold, it.id, Payload(it))) \in 1..MAX_FRAME + 5
<1>1. PICK f : f = Frame(threshold, it.id, Payload(it))
  OBVIOUS
<1>2. PICK r : IsBuffer(r) /\ Size(r) \in 1..MAX_FRAME /\ f = Join(WrVarint(Size(r)), r)
  BY <1>1, FrameIs
<1>3. MAX_FRAME \in Nat /\ MAX_FRAME <= INT_MAX - 8 /\ INT_MAX \in Nat
  BY WireConstants, IntMax
<1>4. PICK w : w = WrVarint(Size(r))
  OBVIOUS
<1>5. Size(r) \in 0..INT_MAX
  BY <1>2, <1>3
<1>6. IsBuffer(w) /\ Size(w) \in 1..5
  BY <1>4, <1>5, VarintSize
<1>7. IsBuffer(f) /\ Size(f) = Size(w) + Size(r)
  BY <1>2, <1>4, <1>6, Joined
<1>8. Size(f) \in 1..MAX_FRAME + 5
  BY <1>2, <1>3, <1>6, <1>7
<1> QED
  BY <1>1, <1>7, <1>8

\* chan_next takes out of what begins like a frame the packet that was put
\* into it, when the frame is there whole, and waits for more when it is not.
LEMMA FrameRead ==
  ASSUME NEW it, Sendable(it), NEW threshold \in Int, NEW b, IsBuffer(b),
         Alike(b, Frame(threshold, it.id, Payload(it)))
  PROVE  ChanNext(b, threshold) =
           IF Size(Frame(threshold, it.id, Payload(it))) <= Size(b)
           THEN Packet(it, Drop(b, Size(Frame(threshold, it.id, Payload(it)))))
           ELSE More
<1>1. PICK f : f = Frame(threshold, it.id, Payload(it))
  OBVIOUS
<1>2. PICK r : /\ IsBuffer(r) /\ Size(r) \in 1..MAX_FRAME /\ f = Join(WrVarint(Size(r)), r)
               /\ \A rest : Opened(r, threshold, rest) = Packet(it, rest)
  BY <1>1, FrameIs
<1>3. MAX_FRAME \in Nat /\ MAX_FRAME <= INT_MAX - 8 /\ INT_MAX \in Nat /\ Size(b) \in Nat
  BY WireConstants, IntMax, Runs
<1>4. PICK n, w, k : n = Size(r) /\ w = WrVarint(n) /\ k = Size(w)
  OBVIOUS
<1>5. n \in 0..INT_MAX /\ n \in Nat /\ ~(n <= 0) /\ ~(n > MAX_FRAME)
  BY <1>2, <1>3, <1>4
<1>6. IsBuffer(w) /\ k \in 1..5
  BY <1>4, <1>5, VarintSize
<1>7. Size(f) = k + n
  BY <1>2, <1>4, <1>6, Joined
<1>8. Alike(b, w) /\ (k <= Size(b) => Alike(Drop(b, k), r))
  BY <1>1, <1>2, <1>4, <1>6, AlikeParts
<1>9. CASE Size(b) < k
  <2>1. ~RdVarint(b).ok
    BY <1>4, <1>5, <1>8, <1>9, VarintShort
  <2>2. ChanNext(b, threshold) = More
    BY <2>1, Zenon DEF ChanNext, ChanFrame
  <2>3. ~(Size(f) <= Size(b))
    BY <1>3, <1>5, <1>6, <1>7, <1>9
  <2> QED
    BY <1>1, <2>2, <2>3, Zenon
<1>10. CASE k <= Size(b)
  <2>1. RdVarint(b) = Got(n, Drop(b, k))
    BY <1>4, <1>5, <1>8, <1>10, VarintRead
  <2>2. PICK d : d = Drop(b, k)
    OBVIOUS
  <2>3. IsBuffer(d) /\ Size(d) = Size(b) - k /\ Alike(d, r)
    BY <1>3, <1>6, <1>8, <1>10, <2>2, Dropped
  <2>4. Got(n, d).ok /\ Got(n, d).v = n /\ Got(n, d).rest = d
    BY DEF Got
  <2>5. CASE ~(Size(d) >= n)
    <3>1. ChanNext(b, threshold) = More
      BY <1>5, <2>1, <2>2, <2>4, <2>5, Zenon DEF ChanNext, ChanFrame, Whole
    <3>2. ~(Size(f) <= Size(b))
      BY <1>3, <1>5, <1>6, <1>7, <2>3, <2>5
    <3> QED
      BY <1>1, <3>1, <3>2, Zenon
  <2>6. CASE Size(d) >= n
    <3>1. Take(d, n) = r
      <4>1. Size(r) <= Size(d)
        BY <1>3, <1>4, <1>5, <1>6, <2>3, <2>6
      <4> QED
        BY <1>2, <1>4, <2>3, <4>1, AlikeTaken
    <3>2. Drop(d, n) = Drop(b, k + n)
      <4>1. k + n <= Size(b)
        BY <1>3, <1>5, <1>6, <2>3, <2>6
      <4> QED
        BY <1>5, <1>6, <2>2, <4>1, DroppedTwice
    <3>3. ChanNext(b, threshold) = Opened(r, threshold, Drop(d, n))
      BY <1>5, <2>1, <2>2, <2>4, <2>6, <3>1, Zenon DEF ChanNext, ChanFrame, Whole, Opened
    <3>4. Size(f) <= Size(b)
      BY <1>3, <1>5, <1>6, <1>7, <2>3, <2>6
    <3>5. ChanNext(b, threshold) = Packet(it, Drop(b, Size(f)))
      BY <1>2, <1>7, <3>2, <3>3, Zenon
    <3> QED
      BY <1>1, <3>4, <3>5, Zenon
  <2> QED
    BY <2>5, <2>6
<1>11. Size(b) < k \/ k <= Size(b)
  BY <1>3, <1>6
<1> QED
  BY <1>9, <1>10, <1>11

-------------------------------------------------------------------------------
(* The state of the two ends.                                                  *)

(* The threshold under which the n-th packet of a script goes: that of the     *)
(* last SetCompression before it.                                              *)
SwitchesBefore(s, n) == {j \in 1..n - 1 : IsSwitch(s.items[j])}
InForce(s, n) ==
  IF SwitchesBefore(s, n) = {} THEN s.comp ELSE s.items[Max(SwitchesBefore(s, n))].p.threshold

FrameOf(s, i) == Frame(InForce(s, i), s.items[i].id, Payload(s.items[i]))
Given(s, i) == Handle(s.items[i].id, Payload(s.items[i]), s.items[i])
Answers(s) == {Given(s, i) : i \in 1..Len(s.items)}

ScriptOK(s) ==
  /\ s.comp \in Int /\ s.slow \in Nat /\ Len(s.items) \in Nat
  /\ \A i \in 1..Len(s.items) : Sendable(s.items[i])

(* Where the first n frames end, when e says it of each: where its bytes do.   *)
EndOf(e, n) == IF n = 0 THEN 0 ELSE e[n]
EndsOf(s, e) ==
  /\ ScriptOK(s) /\ e \in Seq(Nat) /\ Len(e) <= Len(s.items)
  /\ \A i \in 1..Len(e) : e[i] = EndOf(e, i - 1) + Size(FrameOf(s, i))

(* Buffer b holds the bytes of the stream behind the first p, as far as they   *)
(* are of the frames that end at e.                                            *)
Stands(b, p, s, e) ==
  \A i \in 1..Len(e) : \A k \in 1..Size(FrameOf(s, i)) :
    LET q == EndOf(e, i - 1) + k
    IN  p < q /\ q <= p + Size(b) => ByteAt(b, q - p) = ByteAt(FrameOf(s, i), k)

Types ==
  /\ script \in {Scripts[k] : k \in DOMAIN Scripts}
  /\ sent \in 0..Len(Items) /\ Len(ends) = sent
  /\ IsBuffer(tx) /\ IsBuffer(pipe) /\ IsBuffer(rx)
  /\ written \in Nat /\ got \in Nat /\ slow \in 0..script.slow
  /\ Size(tx) <= BUF_CAP /\ Size(rx) <= BUF_CAP
  /\ log \in Seq(Answers(script)) /\ Len(log) <= sent
  /\ open \in {"yes", "closing", "no"}
  /\ why \in {"", "close-msg", "send-full", "cut"}
  /\ phase \in {"poll", "drain", "last", "gone"}

(* Each end is at the threshold of the packet it is at. *)
Thresholds == txc = InForce(script, sent + 1) /\ rxc = InForce(script, Len(log) + 1)

(* The bytes of each buffer, and where it stands in the stream. *)
Accounts ==
  /\ EndOf(ends, Len(log)) + Size(rx) = got
  /\ got + Size(pipe) = written
  /\ written <= EndOf(ends, sent)
  /\ open # "no" \/ why = "close-msg" => written + Size(tx) = EndOf(ends, sent)
Streams ==
  /\ Stands(rx, EndOf(ends, Len(log)), script, ends)
  /\ Stands(pipe, got, script, ends)
  /\ Stands(tx, written, script, ends)

(* A connection that was closed has nothing left to send. *)
Closed ==
  /\ why = "close-msg" => sent = Len(Items) /\ open # "yes"
  /\ open = "closing" => why = "close-msg"
  /\ open = "no" => tx = <<>>

(* Who waits or has gone left no whole frame, who saw the end has it all, and  *)
(* nothing was corrupt.                                                        *)
FrameWaits == Len(log) < sent /\ ends[Len(log) + 1] <= got
Rested ==
  /\ phase \in {"poll", "gone"} => ~FrameWaits
  /\ phase \in {"last", "gone"} => open = "no" /\ pipe = <<>>
  /\ corrupt = FALSE

(* What the handlers were given is what was sent, in order. *)
Verbatim == \A i \in 1..Len(log) : log[i] = Given(script, i)

IInv == /\ Types /\ EndsOf(script, ends) /\ Thresholds /\ Accounts /\ Streams /\ Closed /\ Rested /\ Verbatim

-------------------------------------------------------------------------------
(* Scripts and thresholds.                                                     *)

LEMMA ScriptsOK == \A k \in DOMAIN Scripts : ScriptOK(Scripts[k])
BY ScriptsSendable DEF ScriptOK

\* A set of numbers up to n has a greatest one.
LEMMA Greatest ==
  ASSUME NEW n \in Nat, NEW S, S \subseteq 1..n, S # {}
  PROVE  Max(S) \in S /\ \A i \in S : i <= Max(S)
<1> DEFINE Back == {n - i : i \in S}
<1>1. Back \subseteq Nat /\ Back # {}
  <2>1. \A i \in S : n - i \in Nat
    OBVIOUS
  <2>2. PICK i : i \in S
    OBVIOUS
  <2>3. n - i \in Back
    BY <2>2
  <2> QED
    BY <2>1, <2>3
<1>2. PICK d \in Back : \A e \in Back : d <= e
  <2> HIDE DEF Back
  <2> QED
    BY <1>1, Least
<1>3. PICK m \in S : d = n - m
  BY <1>2
<1>4. \A i \in S : i <= m
  <2> TAKE i \in S
  <2>1. d <= n - i
    BY <1>2
  <2> QED
    BY <1>3, <2>1
<1> QED
  BY <1>3, <1>4 DEF Max

\* The threshold after a packet.
LEMMA InForceIs ==
  ASSUME NEW s, ScriptOK(s)
  PROVE  /\ InForce(s, 1) = s.comp
         /\ \A n \in 1..Len(s.items) : InForce(s, n + 1) = ThresholdAfter(s.items[n], InForce(s, n))
         /\ \A n \in 1..Len(s.items) + 1 : InForce(s, n) \in Int
<1>1. InForce(s, 1) = s.comp
  BY DEF InForce, SwitchesBefore
<1>2. ASSUME NEW n \in 1..Len(s.items)
      PROVE  InForce(s, n + 1) = ThresholdAfter(s.items[n], InForce(s, n))
  <2>1. PICK A, B : A = SwitchesBefore(s, n) /\ B = SwitchesBefore(s, n + 1)
    OBVIOUS
  <2>2. /\ A = {j \in 1..n - 1 : IsSwitch(s.items[j])}
        /\ B = {j \in 1..n : IsSwitch(s.items[j])}
    <3>1. (n + 1) - 1 = n
      OBVIOUS
    <3>2. SwitchesBefore(s, n + 1) = {j \in 1..(n + 1) - 1 : IsSwitch(s.items[j])}
      BY Zenon DEF SwitchesBefore
    <3>3. SwitchesBefore(s, n) = {j \in 1..n - 1 : IsSwitch(s.items[j])}
      BY Zenon DEF SwitchesBefore
    <3> QED
      BY <2>1, <3>1, <3>2, <3>3, Zenon
  <2>3. CASE IsSwitch(s.items[n])
    <3>1. n \in B /\ B \subseteq 1..n
      BY <2>2, <2>3
    <3>2. Max(B) \in B /\ \A i \in B : i <= Max(B)
      <4>1. n \in Nat /\ B # {}
        BY <3>1
      <4> QED
        BY <3>1, <4>1, Greatest
    <3>3. Max(B) = n
      <4>1. n <= Max(B) /\ Max(B) \in 1..n
        BY <3>1, <3>2
      <4> QED
        BY <4>1
    <3>4. B # {}
      BY <3>1
    <3>5. InForce(s, n + 1) = s.items[n].p.threshold
      BY <2>1, <3>3, <3>4, Zenon DEF InForce
    <3> QED
      BY <2>3, <3>5 DEF ThresholdAfter
  <2>4. CASE ~IsSwitch(s.items[n])
    <3>1. A = B
      <4>1. \A j \in 1..n : j = n \/ j \in 1..n - 1
        OBVIOUS
      <4>2. \A j \in 1..n - 1 : j \in 1..n
        OBVIOUS
      <4> QED
        BY <2>2, <2>4, <4>1, <4>2
    <3>2. InForce(s, n + 1) = InForce(s, n)
      BY <2>1, <3>1, Zenon DEF InForce
    <3> QED
      BY <2>4, <3>2 DEF ThresholdAfter
  <2> QED
    BY <2>3, <2>4
<1>3. ASSUME NEW n \in 1..Len(s.items) + 1 PROVE InForce(s, n) \in Int
  <2>1. PICK A : A = SwitchesBefore(s, n)
    OBVIOUS
  <2>2. A = {j \in 1..n - 1 : IsSwitch(s.items[j])}
    BY <2>1 DEF SwitchesBefore
  <2>3. CASE A = {}
    BY <2>1, <2>3 DEF InForce, ScriptOK
  <2>4. CASE A # {}
    <3>1. n - 1 \in Nat /\ A \subseteq 1..n - 1
      BY <2>2
    <3>2. Max(A) \in A
      BY <2>4, <3>1, Greatest
    <3>3. IsSwitch(s.items[Max(A)]) /\ Max(A) \in 1..Len(s.items)
      <4>1. Len(s.items) \in Nat
        BY DEF ScriptOK
      <4> QED
        BY <2>2, <3>1, <3>2, <4>1
    <3>4. s.items[Max(A)].p.threshold \in Int
      BY <3>3 DEF ScriptOK, Sendable
    <3> QED
      BY <2>1, <2>4, <3>4 DEF InForce
  <2> QED
    BY <2>3, <2>4
<1> QED
  BY <1>1, <1>2, <1>3

\* The frames of a script.
LEMMA FrameOfIs ==
  ASSUME NEW s, ScriptOK(s), NEW i \in 1..Len(s.items)
  PROVE  /\ Sendable(s.items[i]) /\ InForce(s, i) \in Int
         /\ IsBuffer(FrameOf(s, i)) /\ Size(FrameOf(s, i)) \in 1..MAX_FRAME + 5
<1>1. Sendable(s.items[i]) /\ i \in 1..Len(s.items) + 1
  BY DEF ScriptOK
<1>2. InForce(s, i) \in Int
  BY <1>1, InForceIs
<1> QED
  BY <1>1, <1>2, FrameSize DEF FrameOf

-------------------------------------------------------------------------------
(* The stream of bytes.                                                        *)

LEMMA EndOfType ==
  ASSUME NEW e \in Seq(Nat), NEW n \in 0..Len(e)
  PROVE  EndOf(e, n) \in Nat
BY DEF EndOf

\* A frame has at least one byte, so each ends behind the one before it.
LEMMA EndsRise ==
  ASSUME NEW s, NEW e, EndsOf(s, e), NEW n \in 0..Len(e), NEW m \in 0..Len(e), n < m
  PROVE  EndOf(e, n) < EndOf(e, m)
<1>1. Len(e) \in Nat /\ \A i \in 1..Len(e) : e[i] \in Nat
  BY DEF EndsOf
<1>2. \A i \in 1..Len(e) : EndOf(e, i - 1) < EndOf(e, i) /\ EndOf(e, i - 1) \in Nat /\ EndOf(e, i) \in Nat
  <2> TAKE i \in 1..Len(e)
  <2>1. PICK x, y, z : x = EndOf(e, i - 1) /\ y = EndOf(e, i) /\ z = Size(FrameOf(s, i))
    OBVIOUS
  <2>2. i - 1 \in 0..Len(e) /\ i \in 0..Len(e) /\ i \in 1..Len(s.items) /\ i # 0
    BY <1>1 DEF EndsOf, ScriptOK
  <2>3. x \in Nat /\ y \in Nat
    BY <2>1, <2>2, EndOfType DEF EndsOf
  <2>4. z \in 1..MAX_FRAME + 5
    BY <2>1, <2>2, FrameOfIs DEF EndsOf
  <2>5. y = x + z
    BY <2>1, <2>2 DEF EndsOf, EndOf
  <2> QED
    BY <2>1, <2>3, <2>4, <2>5
<1> DEFINE T == {d \in 0..m - n : d = 0 \/ EndOf(e, n) < EndOf(e, n + d)}
<1>3. 0 \in T /\ m - n \in Nat
  BY <1>1
<1>4. ASSUME NEW d \in 1..m - n, d - 1 \in T PROVE d \in T
  <2>1. n + d \in 1..Len(e) /\ (n + d) - 1 = n + (d - 1) /\ n + d \in 0..Len(e)
    BY <1>1
  <2>2. EndOf(e, n + (d - 1)) < EndOf(e, n + d)
    BY <1>2, <2>1
  <2>3. EndOf(e, n + (d - 1)) \in Nat /\ EndOf(e, n + d) \in Nat /\ EndOf(e, n) \in Nat
    <3>1. EndOf(e, n) \in Nat
      BY EndOfType DEF EndsOf
    <3> QED
      BY <1>2, <2>1, <3>1
  <2>4. d - 1 = 0 \/ EndOf(e, n) < EndOf(e, n + (d - 1))
    BY <1>4
  <2>5. d - 1 = 0 => n + (d - 1) = n
    BY <2>1
  <2>6. EndOf(e, n) < EndOf(e, n + d)
    BY <2>2, <2>3, <2>4, <2>5
  <2> QED
    BY <2>6
<1>5. 0..m - n \subseteq T
  <2> HIDE DEF T
  <2> QED
    BY <1>3, <1>4, Stepwise
<1>6. m - n \in 0..m - n /\ m - n # 0 /\ n + (m - n) = m
  BY <1>1, <1>3
<1>7. m - n \in T
  BY <1>5, <1>6
<1> QED
  BY <1>6, <1>7

\* Nothing stands anywhere.
LEMMA NothingStands ==
  ASSUME NEW p \in Nat, NEW s, NEW e, EndsOf(s, e)
  PROVE  Stands(<<>>, p, s, e)
<1>1. Size(<<>>) = 0
  BY NoBytes
<1>2. SUFFICES ASSUME NEW i \in 1..Len(e), NEW k \in 1..Size(FrameOf(s, i)),
                      p < EndOf(e, i - 1) + k, EndOf(e, i - 1) + k <= p + 0
               PROVE  FALSE
  BY <1>1 DEF Stands
<1>3. EndOf(e, i - 1) \in Nat
  <2>1. i - 1 \in 0..Len(e)
    BY DEF EndsOf
  <2> QED
    BY <2>1, EndOfType DEF EndsOf
<1> QED
  BY <1>2, <1>3

\* The position of a byte of a frame.
LEMMA Position ==
  ASSUME NEW s, NEW e, EndsOf(s, e), NEW i \in 1..Len(e), NEW k \in 1..Size(FrameOf(s, i))
  PROVE  EndOf(e, i - 1) + k \in Nat /\ EndOf(e, i - 1) + k <= EndOf(e, i)
         /\ EndOf(e, i - 1) < EndOf(e, i - 1) + k
<1>1. Len(e) \in Nat /\ i - 1 \in 0..Len(e) /\ i \in 1..Len(s.items)
  BY DEF EndsOf, ScriptOK
<1>2. EndOf(e, i - 1) \in Nat
  BY <1>1, EndOfType DEF EndsOf
<1>3. EndOf(e, i) = EndOf(e, i - 1) + Size(FrameOf(s, i))
  BY DEF EndsOf, EndOf
<1>4. Size(FrameOf(s, i)) \in Nat
  BY <1>1, FrameOfIs DEF EndsOf
<1> QED
  BY <1>2, <1>3, <1>4

\* A part of what stands, stands.
LEMMA PartsStand ==
  ASSUME NEW b, IsBuffer(b), NEW p \in Nat, NEW s, NEW e, EndsOf(s, e), Stands(b, p, s, e),
         NEW n \in 0..Size(b)
  PROVE  Stands(Take(b, n), p, s, e) /\ Stands(Drop(b, n), p + n, s, e)
<1>1. Size(b) \in Nat /\ n \in Nat /\ n <= Size(b)
  BY Runs
<1>2. PICK t, d : t = Take(b, n) /\ d = Drop(b, n)
  OBVIOUS
<1>3. Size(t) = n /\ \A i \in 1..n : ByteAt(t, i) = ByteAt(b, i)
  BY <1>1, <1>2, Taken
<1>4. Size(d) = Size(b) - n /\ \A i \in 1..Size(d) : ByteAt(d, i) = ByteAt(b, n + i)
  BY <1>1, <1>2, Dropped
<1>5. ASSUME NEW i \in 1..Len(e), NEW k \in 1..Size(FrameOf(s, i)), NEW q, q = EndOf(e, i - 1) + k
      PROVE  /\ q \in Nat
             /\ p < q /\ q <= p + Size(b) => ByteAt(b, q - p) = ByteAt(FrameOf(s, i), k)
  <2>1. q \in Nat
    BY <1>5, Position
  <2> QED
    BY <1>5, <2>1 DEF Stands
<1>6. ASSUME NEW i \in 1..Len(e), NEW k \in 1..Size(FrameOf(s, i)), NEW q, q = EndOf(e, i - 1) + k,
             p < q, q <= p + n
      PROVE  ByteAt(t, q - p) = ByteAt(FrameOf(s, i), k)
  <2>1. q \in Nat
    BY <1>5, <1>6
  <2>2. q <= p + Size(b) /\ q - p \in 1..n
    BY <1>1, <1>6, <2>1
  <2>3. ByteAt(b, q - p) = ByteAt(FrameOf(s, i), k)
    BY <1>5, <1>6, <2>2
  <2> QED
    BY <1>3, <2>2, <2>3
<1>7. ASSUME NEW i \in 1..Len(e), NEW k \in 1..Size(FrameOf(s, i)), NEW q, q = EndOf(e, i - 1) + k,
             p + n < q, q <= (p + n) + (Size(b) - n)
      PROVE  ByteAt(d, q - (p + n)) = ByteAt(FrameOf(s, i), k)
  <2>1. q \in Nat
    BY <1>5, <1>7
  <2>2. p < q /\ q <= p + Size(b) /\ q - (p + n) \in 1..Size(d) /\ n + (q - (p + n)) = q - p
    BY <1>1, <1>4, <1>7, <2>1
  <2>3. ByteAt(b, q - p) = ByteAt(FrameOf(s, i), k)
    BY <1>5, <1>7, <2>2
  <2> QED
    BY <1>4, <2>2, <2>3
<1>8. Stands(t, p, s, e)
  BY <1>3, <1>6 DEF Stands
<1>9. Stands(d, p + n, s, e)
  BY <1>4, <1>7 DEF Stands
<1> QED
  BY <1>2, <1>8, <1>9

\* What stands one behind the other stands together.
LEMMA JoinStands ==
  ASSUME NEW a, NEW b, IsBuffer(a), IsBuffer(b), NEW p \in Nat, NEW s, NEW e, EndsOf(s, e),
         Stands(a, p, s, e), Stands(b, p + Size(a), s, e)
  PROVE  Stands(Join(a, b), p, s, e)
<1>1. PICK n, m, c : n = Size(a) /\ m = Size(b) /\ c = Join(a, b)
  OBVIOUS
<1>2. /\ n \in Nat /\ m \in Nat /\ Size(c) = n + m
      /\ \A i \in 1..n : ByteAt(c, i) = ByteAt(a, i)
      /\ \A i \in 1..m : ByteAt(c, n + i) = ByteAt(b, i)
  BY <1>1, Joined, Runs
<1>3. ASSUME NEW i \in 1..Len(e), NEW k \in 1..Size(FrameOf(s, i)), NEW q, q = EndOf(e, i - 1) + k,
             p < q, q <= p + (n + m)
      PROVE  ByteAt(c, q - p) = ByteAt(FrameOf(s, i), k)
  <2>1. q \in Nat
    BY <1>3, Position
  <2>2. CASE q <= p + n
    <3>1. ByteAt(a, q - p) = ByteAt(FrameOf(s, i), k)
      BY <1>1, <1>3, <2>2 DEF Stands
    <3>2. q - p \in 1..n
      BY <1>2, <1>3, <2>1, <2>2
    <3> QED
      BY <1>2, <3>1, <3>2
  <2>3. CASE p + n < q
    <3>1. q <= (p + n) + m /\ q - (p + n) \in 1..m /\ n + (q - (p + n)) = q - p
      BY <1>2, <1>3, <2>1, <2>3
    <3>2. ByteAt(b, q - (p + n)) = ByteAt(FrameOf(s, i), k)
      BY <1>1, <1>3, <2>3, <3>1 DEF Stands
    <3>3. ByteAt(c, n + (q - (p + n))) = ByteAt(b, q - (p + n))
      BY <1>2, <3>1
    <3> QED
      BY <3>1, <3>2, <3>3
  <2> QED
    BY <1>2, <2>1, <2>2, <2>3
<1>4. Stands(c, p, s, e)
  BY <1>2, <1>3 DEF Stands
<1> QED
  BY <1>1, <1>4

\* What begins where a frame does is alike to it.
LEMMA StandsAlike ==
  ASSUME NEW b, IsBuffer(b), NEW s, NEW e, EndsOf(s, e), NEW n \in 0..Len(e), n < Len(e),
         Stands(b, EndOf(e, n), s, e)
  PROVE  Alike(b, FrameOf(s, n + 1))
<1>1. Len(e) \in Nat /\ n + 1 \in 1..Len(e) /\ (n + 1) - 1 = n /\ Size(b) \in Nat
  BY Runs DEF EndsOf
<1>2. PICK p \in Nat : p = EndOf(e, n)
  BY EndOfType DEF EndsOf
<1>3. PICK f : f = FrameOf(s, n + 1)
  OBVIOUS
<1>4. Size(f) \in Nat
  <2>1. n + 1 \in 1..Len(s.items)
    BY <1>1 DEF EndsOf, ScriptOK
  <2> QED
    BY <1>3, <2>1, FrameOfIs DEF EndsOf
<1>5. ASSUME NEW k \in 1..Size(b), k <= Size(f) PROVE ByteAt(b, k) = ByteAt(f, k)
  <2>1. k \in 1..Size(FrameOf(s, n + 1))
    BY <1>3, <1>4, <1>5
  <2>2. p < p + k /\ p + k <= p + Size(b) /\ (p + k) - p = k
    BY <1>1, <1>2
  <2>3. EndOf(e, (n + 1) - 1) = p
    BY <1>1, <1>2
  <2>4. p < EndOf(e, (n + 1) - 1) + k /\ EndOf(e, (n + 1) - 1) + k <= p + Size(b)
          => ByteAt(b, (EndOf(e, (n + 1) - 1) + k) - p) = ByteAt(FrameOf(s, n + 1), k)
    BY <1>1, <1>2, <2>1, Zenon DEF Stands
  <2> QED
    BY <1>3, <2>2, <2>3, <2>4, Zenon
<1> QED
  BY <1>3, <1>5 DEF Alike

\* The stream that ended at z with its n-th frame goes on with g.
Grown(s, e, n, g, z, f) ==
  /\ EndsOf(s, f) /\ Len(f) = n + 1
  /\ \A i \in 0..n : EndOf(f, i) = EndOf(e, i)
  /\ EndOf(f, n + 1) = z + Size(g)
  /\ \A p \in Nat : \A b : IsBuffer(b) /\ Stands(b, p, s, e) /\ p + Size(b) <= z
                         => Stands(b, p, s, f)
  /\ Stands(g, z, s, f)

\* One more frame at the end of the stream.
LEMMA OneMore ==
  ASSUME NEW s, NEW e, EndsOf(s, e), NEW n, n = Len(e), n < Len(s.items),
         NEW g, g = FrameOf(s, n + 1), NEW z, z = EndOf(e, n), NEW f, f = Append(e, z + Size(g))
  PROVE  Grown(s, e, n, g, z, f)
<1>1. n = Len(e) /\ g = FrameOf(s, n + 1) /\ z = EndOf(e, n)
  OBVIOUS
<1>2. n \in Nat /\ n + 1 \in 1..Len(s.items) /\ n \in 0..Len(e) /\ e \in Seq(Nat)
  BY <1>1 DEF EndsOf, ScriptOK
<1>3. Size(g) \in Nat /\ z \in Nat /\ Size(g) > 0 /\ z + Size(g) \in Nat
  <2>1. Size(g) \in 1..MAX_FRAME + 5
    BY <1>1, <1>2, FrameOfIs DEF EndsOf
  <2>2. z \in Nat
    BY <1>1, <1>2, EndOfType
  <2> QED
    BY <2>1, <2>2
<1>4. f = Append(e, z + Size(g))
  BY <1>1
<1>5. /\ f \in Seq(Nat) /\ Len(f) = n + 1 /\ f[n + 1] = z + Size(g)
      /\ \A i \in 1..n : f[i] = e[i]
  BY <1>1, <1>2, <1>3, <1>4, AppendProperties
<1>6. \A i \in 0..n : EndOf(f, i) = EndOf(e, i)
  <2> TAKE i \in 0..n
  <2>1. i = 0 \/ i \in 1..n
    BY <1>2
  <2> QED
    BY <1>5, <2>1 DEF EndOf
<1>7. EndOf(f, n + 1) = z + Size(g)
  <2>1. n + 1 # 0
    BY <1>2
  <2> QED
    BY <1>5, <2>1 DEF EndOf
<1>8. EndsOf(s, f)
  <2>1. ASSUME NEW i \in 1..n + 1 PROVE f[i] = EndOf(f, i - 1) + Size(FrameOf(s, i))
    <3>1. CASE i = n + 1
      <4>1. i - 1 = n /\ n \in 0..n
        BY <1>2, <3>1
      <4>2. EndOf(f, i - 1) = z
        BY <1>1, <1>6, <4>1, Zenon
      <4> QED
        BY <1>1, <1>5, <3>1, <4>2, Zenon
    <3>2. CASE i # n + 1
      <4>1. i \in 1..n /\ i - 1 \in 0..n
        BY <1>2, <3>2
      <4>2. e[i] = EndOf(e, i - 1) + Size(FrameOf(s, i))
        BY <1>1, <4>1 DEF EndsOf
      <4> QED
        BY <1>5, <1>6, <4>1, <4>2, Zenon
    <3> QED
      BY <3>1, <3>2
  <2>2. n + 1 <= Len(s.items) /\ ScriptOK(s)
    BY <1>2 DEF EndsOf
  <2> QED
    BY <1>5, <2>1, <2>2 DEF EndsOf
<1>9. ASSUME NEW i \in 1..n, NEW k \in 1..Size(FrameOf(s, i))
      PROVE  EndOf(f, i - 1) + k = EndOf(e, i - 1) + k /\ EndOf(e, i - 1) + k <= z
             /\ EndOf(e, i - 1) + k \in Nat
  <2>1. i - 1 \in 0..n /\ i \in 1..Len(e) /\ i \in 0..Len(e)
    BY <1>1, <1>2
  <2>2. EndOf(e, i - 1) + k \in Nat /\ EndOf(e, i - 1) + k <= EndOf(e, i)
    BY <2>1, Position
  <2>3. EndOf(e, i) <= z /\ EndOf(e, i) \in Nat
    <3>1. EndOf(e, i) \in Nat
      BY <1>2, <2>1, EndOfType
    <3>2. CASE i = n
      BY <1>1, <3>1, <3>2
    <3>3. CASE i < n
      <4>1. EndOf(e, i) < EndOf(e, n)
        BY <1>1, <1>2, <2>1, <3>3, EndsRise
      <4> QED
        BY <1>1, <1>3, <3>1, <4>1
    <3> QED
      BY <1>2, <3>2, <3>3
  <2>4. EndOf(f, i - 1) = EndOf(e, i - 1)
    BY <1>6, <2>1
  <2>5. \A x, y \in Nat : x <= y /\ y <= z => x <= z
    BY <1>3
  <2> QED
    BY <2>2, <2>3, <2>4, <2>5
<1>10. ASSUME NEW b, NEW p \in Nat, IsBuffer(b), Stands(b, p, s, e), p + Size(b) <= z
       PROVE  Stands(b, p, s, f)
  <2>1. SUFFICES ASSUME NEW i \in 1..n + 1, NEW k \in 1..Size(FrameOf(s, i)),
                        NEW q, q = EndOf(f, i - 1) + k, p < q, q <= p + Size(b)
                 PROVE  ByteAt(b, q - p) = ByteAt(FrameOf(s, i), k)
    BY <1>5 DEF Stands
  <2>2. Size(b) \in Nat
    BY <1>10, Runs
  <2>3. CASE i = n + 1
    <3>1. i - 1 = n /\ n \in 0..n
      BY <1>2, <2>3
    <3>2. EndOf(f, i - 1) = z
      BY <1>1, <1>6, <3>1, Zenon
    <3>3. k \in Nat /\ k > 0
      BY <2>1
    <3>4. q = z + k /\ q <= p + Size(b) /\ p + Size(b) <= z
      BY <1>10, <2>1, <3>2
    <3>5. \A x, y \in Nat : z + k <= x + y /\ x + y <= z => FALSE
      BY <1>3, <3>3
    <3> QED
      BY <2>2, <3>4, <3>5
  <2>4. CASE i # n + 1
    <3>1. i \in 1..n /\ i \in 1..Len(e)
      BY <1>1, <1>2, <2>4
    <3>2. q = EndOf(e, i - 1) + k
      BY <1>9, <2>1, <3>1
    <3> QED
      BY <1>10, <2>1, <3>1, <3>2 DEF Stands
  <2> QED
    BY <2>3, <2>4
<1>11. Stands(g, z, s, f)
  <2>1. SUFFICES ASSUME NEW i \in 1..n + 1, NEW k \in 1..Size(FrameOf(s, i)),
                        NEW q, q = EndOf(f, i - 1) + k, z < q, q <= z + Size(g)
                 PROVE  ByteAt(g, q - z) = ByteAt(FrameOf(s, i), k)
    BY <1>5 DEF Stands
  <2>2. CASE i = n + 1
    <3>1. i - 1 = n /\ n \in 0..n
      BY <1>2, <2>2
    <3>2. EndOf(f, i - 1) = z
      BY <1>1, <1>6, <3>1, Zenon
    <3>3. q - z = k
      BY <1>3, <2>1, <3>2
    <3> QED
      BY <1>1, <2>2, <3>3
  <2>3. CASE i # n + 1
    <3>1. i \in 1..n
      BY <1>2, <2>3
    <3>2. q <= z /\ q \in Nat
      BY <1>9, <2>1, <3>1
    <3> QED
      BY <1>3, <2>1, <3>2
  <2> QED
    BY <2>2, <2>3
<1> QED
  BY <1>1, <1>5, <1>6, <1>7, <1>8, <1>10, <1>11 DEF Grown

-------------------------------------------------------------------------------
(* The steps.  Each keeps the invariant and is a step of Stream.               *)

\* A connection as Stream sees it.
Seen == IF open # "no" THEN "yes" ELSE IF why = "close-msg" THEN "closed" ELSE "lost"

LEMMA Numbers ==
  ASSUME IInv
  PROVE  /\ ScriptOK(script) /\ EndsOf(script, ends) /\ ends \in Seq(Nat)
         /\ Len(Items) \in Nat /\ sent \in Nat /\ sent <= Len(Items) /\ Len(ends) = sent
         /\ Len(log) \in Nat /\ Len(log) <= sent
         /\ Size(tx) \in Nat /\ Size(pipe) \in Nat /\ Size(rx) \in Nat
         /\ EndOf(ends, sent) \in Nat /\ EndOf(ends, Len(log)) \in Nat
         /\ written \in Nat /\ got \in Nat
<1>1. ScriptOK(script) /\ EndsOf(script, ends) /\ ends \in Seq(Nat)
  BY DEF IInv, EndsOf
<1>2. Len(Items) \in Nat /\ sent \in Nat /\ sent <= Len(Items) /\ Len(ends) = sent
  <2>1. Len(Items) \in Nat
    BY <1>1, Zenon DEF ScriptOK, Items
  <2>2. sent \in 0..Len(Items) /\ Len(ends) = sent
    BY Zenon DEF IInv, Types
  <2> QED
    BY <2>1, <2>2
<1>3. Len(log) \in Nat /\ Len(log) <= sent
  <2>1. log \in Seq(Answers(script)) /\ Len(log) <= sent
    BY Zenon DEF IInv, Types
  <2> QED
    BY <2>1
<1>4. Size(tx) \in Nat /\ Size(pipe) \in Nat /\ Size(rx) \in Nat
  BY Runs DEF IInv, Types
<1>5. sent \in 0..Len(ends) /\ Len(log) \in 0..Len(ends)
  BY <1>2, <1>3
<1>6. EndOf(ends, sent) \in Nat /\ EndOf(ends, Len(log)) \in Nat
  BY <1>1, <1>5, EndOfType
<1> QED
  BY <1>1, <1>2, <1>3, <1>4, <1>6 DEF IInv, Types

LEMMA InitInv == Init => IInv
<1> SUFFICES ASSUME Init PROVE IInv
  OBVIOUS
<1>1. PICK k \in DOMAIN Scripts : script = Scripts[k]
  BY DEF Init
<1>2. ScriptOK(script)
  BY <1>1, ScriptsOK
<1>3. /\ sent = 0 /\ txc = script.comp /\ rxc = script.comp /\ written = 0 /\ got = 0 /\ slow = 0
  BY DEF Init
<1>4. tx = <<>> /\ pipe = <<>> /\ rx = <<>> /\ log = <<>> /\ ends = <<>>
  BY DEF Init
<1>5. open = "yes" /\ why = "" /\ phase = "poll" /\ corrupt = FALSE
  BY DEF Init
<1>6. /\ IsBuffer(tx) /\ IsBuffer(pipe) /\ IsBuffer(rx)
      /\ Size(tx) = 0 /\ Size(pipe) = 0 /\ Size(rx) = 0
  BY <1>4, NoBytes, Zenon
<1>7. Len(ends) = 0 /\ Len(log) = 0 /\ ends \in Seq(Nat) /\ log \in Seq(Answers(script))
  BY <1>4, EmptySeq, Zenon
<1>8. Len(script.items) \in Nat /\ script.slow \in Nat /\ BUF_CAP \in Nat
  BY <1>2, WireConstants DEF ScriptOK
<1>9. Types
  <2>1. sent \in 0..Len(Items) /\ slow \in 0..script.slow /\ Len(log) <= sent
        /\ Size(tx) <= BUF_CAP /\ Size(rx) <= BUF_CAP /\ written \in Nat /\ got \in Nat /\ Len(ends) = sent
    BY <1>3, <1>6, <1>7, <1>8 DEF Items
  <2>2. script \in {Scripts[i] : i \in DOMAIN Scripts}
    BY <1>1
  <2> QED
    BY <1>5, <1>6, <1>7, <2>1, <2>2 DEF Types
<1>10. EndsOf(script, ends)
  <2>1. Len(ends) <= Len(script.items) /\ 1..Len(ends) = {}
    BY <1>7, <1>8
  <2> QED
    BY <1>2, <1>7, <2>1 DEF EndsOf
<1>11. Thresholds
  <2>1. InForce(script, 1) = script.comp
    BY <1>2, InForceIs
  <2>2. sent + 1 = 1 /\ Len(log) + 1 = 1
    BY <1>3, <1>7
  <2> QED
    BY <1>3, <2>1, <2>2, Zenon DEF Thresholds
<1>12. Accounts
  BY <1>3, <1>6, <1>7 DEF Accounts, EndOf
<1>13. Streams
  <2>1. \A p : Stands(<<>>, p, script, ends)
    BY <1>7 DEF Stands
  <2> QED
    BY <1>4, <2>1, Zenon DEF Streams
<1>14. Closed
  BY <1>4, <1>5 DEF Closed
<1>15. Rested
  <2>1. ~FrameWaits
    BY <1>3, <1>7 DEF FrameWaits
  <2> QED
    BY <1>5, <2>1 DEF Rested
<1>16. Verbatim
  BY <1>7 DEF Verbatim
<1> QED
  BY <1>9, <1>10, <1>11, <1>12, <1>13, <1>14, <1>15, <1>16 DEF IInv

\* What a flush makes of a buffer that ends where the last frame does.
LEMMA Flushed ==
  ASSUME NEW b, IsBuffer(b), NEW s, NEW e, EndsOf(s, e), NEW k \in 0..Size(b), Flush(b, k),
         IsBuffer(pipe), written \in Nat, got \in Nat, got + Size(pipe) = written,
         Stands(b, written, s, e), Stands(pipe, got, s, e)
  PROVE  /\ IsBuffer(tx') /\ IsBuffer(pipe') /\ Size(tx') = Size(b) - k
         /\ Size(tx') \in Nat /\ Size(pipe') \in Nat
         /\ written' = written + k /\ written' \in Nat /\ got + Size(pipe') = written'
         /\ Stands(tx', written', s, e) /\ Stands(pipe', got, s, e)
<1>1. PICK t : t = Take(b, k)
  OBVIOUS
<1>2. tx' = Drop(b, k) /\ pipe' = Join(pipe, t) /\ written' = written + k
  BY <1>1 DEF Flush
<1>3. Size(b) \in Nat /\ Size(pipe) \in Nat /\ k \in Nat /\ k <= Size(b)
  BY Runs
<1>4. IsBuffer(t) /\ Size(t) = k
  BY <1>1, <1>3, Taken
<1>5. IsBuffer(tx') /\ Size(tx') = Size(b) - k
  <2>1. IsBuffer(Drop(b, k)) /\ Size(Drop(b, k)) = Size(b) - k
    BY <1>3, Dropped
  <2> QED
    BY <1>2, <2>1
<1>6. IsBuffer(pipe') /\ Size(pipe') = Size(pipe) + k
  <2>1. IsBuffer(Join(pipe, t)) /\ Size(Join(pipe, t)) = Size(pipe) + Size(t)
    BY <1>4, Joined
  <2> QED
    BY <1>2, <1>4, <2>1
<1>7. Stands(t, written, s, e) /\ Stands(Drop(b, k), written + k, s, e)
  BY <1>1, PartsStand
<1>8. Stands(Join(pipe, t), got, s, e)
  BY <1>4, <1>7, JoinStands
<1>9. Stands(tx', written', s, e) /\ Stands(pipe', got, s, e)
  BY <1>2, <1>7, <1>8
<1> QED
  BY <1>2, <1>3, <1>5, <1>6, <1>9

\* A connection that is lost, whatever was left to send.
LEMMA LostKeeps ==
  ASSUME IInv, open # "no", open' = "no", why' \in {"send-full", "cut"}, tx' = <<>>,
         UNCHANGED <<script, sent, txc, ends, pipe, written, receiver>>
  PROVE  IInv' /\ Promise!Next
<1>1. /\ script' = script /\ sent' = sent /\ txc' = txc /\ ends' = ends /\ pipe' = pipe
      /\ written' = written /\ rx' = rx /\ rxc' = rxc /\ phase' = phase
      /\ corrupt' = corrupt /\ log' = log /\ got' = got /\ slow' = slow
  BY DEF receiver
<1>2. IsBuffer(tx') /\ Size(tx') = 0
  BY NoBytes
<1>3. Types'
  <2>1. Size(tx') <= BUF_CAP
    <3>1. BUF_CAP \in Nat
      BY WireConstants
    <3> QED
      BY <1>2, <3>1
  <2> QED
    BY <1>1, <1>2, <2>1 DEF IInv, Types, Items
<1>4. EndsOf(script, ends)' /\ Thresholds' /\ Verbatim'
  BY <1>1 DEF IInv, Thresholds, Verbatim
<1>5. Accounts'
  BY <1>1 DEF IInv, Accounts
<1>6. Streams'
  <2>1. Stands(<<>>, written, script, ends)
    BY Numbers, NothingStands
  <2> QED
    BY <1>1, <2>1 DEF IInv, Streams
<1>7. Closed' /\ Rested'
  BY <1>1 DEF IInv, Closed, Rested, FrameWaits
<1>8. IInv'
  BY <1>3, <1>4, <1>5, <1>6, <1>7 DEF IInv
<1>9. Promise!Lose
  <2>1. corrupt = FALSE /\ corrupt' = FALSE
    BY <1>1 DEF IInv, Rested
  <2>2. why' # "close-msg"
    OBVIOUS
  <2> QED
    BY <1>1, <2>1, <2>2 DEF Promise!Lose
<1> QED
  BY <1>8, <1>9 DEF Promise!Next

\* A Send.
LEMMA SendKeeps ==
  ASSUME IInv, Send
  PROVE  IInv' /\ Promise!Next
<1>1. /\ open # "no" /\ sent < Len(Items) /\ script' = script /\ rx' = rx /\ rxc' = rxc
      /\ phase' = phase /\ corrupt' = corrupt /\ log' = log /\ got' = got /\ slow' = slow
  BY DEF Send, receiver
<1>2. PICK it, f, n : it = Items[sent + 1] /\ f = FrameOf(script, sent + 1) /\ n = Size(f)
  OBVIOUS
<1>3. f = Frame(txc, it.id, Payload(it))
  BY <1>2 DEF FrameOf, IInv, Thresholds, Items
<1>4. sent + 1 \in 1..Len(Items) /\ sent + 1 \in 1..Len(script.items)
  BY <1>1, Numbers DEF Items
<1>5. IsBuffer(f) /\ n \in Nat /\ n > 0
  <2>1. ScriptOK(script)
    BY Numbers
  <2>2. IsBuffer(f) /\ n \in 1..MAX_FRAME + 5
    BY <1>2, <1>4, <2>1, FrameOfIs
  <2> QED
    BY <2>2
<1>6. CASE Full(n)
  <2>1. /\ open' = "no" /\ why' = "send-full" /\ tx' = <<>>
        /\ UNCHANGED <<sent, txc, ends, pipe, written>>
    BY <1>2, <1>3, <1>6 DEF Send
  <2>2. UNCHANGED <<script, sent, txc, ends, pipe, written, receiver>>
    BY <2>1 DEF Send
  <2> QED
    BY <1>1, <2>1, <2>2, LostKeeps
<1>7. CASE ~Full(n)
  <2>1. PICK k \in {0} \cup Portions(Size(tx) + n) : Flush(Join(tx, f), k)
    BY <1>2, <1>3, <1>7 DEF Send
  <2>2. /\ sent' = sent + 1 /\ txc' = ThresholdAfter(it, txc) /\ open' = open /\ why' = why
        /\ ends' = Append(ends, n + IF ends = <<>> THEN 0 ELSE Last(ends))
    BY <1>2, <1>3, <1>7 DEF Send
  <2>3. PICK b, z, e : b = Join(tx, f) /\ z = EndOf(ends, sent) /\ e = ends'
    OBVIOUS
  <2>4. /\ IsBuffer(b) /\ Size(b) = Size(tx) + n /\ k \in 0..Size(b) /\ k \in Nat /\ z \in Nat
    <3>1. IsBuffer(b) /\ Size(b) = Size(tx) + n
      BY <1>2, <1>5, <2>3, Joined DEF IInv, Types
    <3>2. k \in 0..Size(tx) + n
      <4>1. Size(tx) \in Nat
        BY Numbers, Zenon
      <4>2. PICK j \in Nat : j = Size(tx) + n
        BY <1>5, <4>1
      <4>3. k \in {0} \cup {i \in {j - 1, j} : i > 0}
        BY <2>1, <4>2, Zenon DEF Portions
      <4>4. k \in 0..j
        BY <4>3
      <4> QED
        BY <4>2, <4>4, Zenon
    <3>3. z \in Nat
      BY <2>3, Numbers, Zenon
    <3> QED
      BY <3>1, <3>2, <3>3
  <2>5. e = Append(ends, z + Size(f))
    <3>1. (IF ends = <<>> THEN 0 ELSE Last(ends)) = z
      <4>1. ends = <<>> <=> sent = 0
        BY Numbers
      <4> QED
        BY <2>3, <4>1, Numbers DEF Last, EndOf
    <3>2. ends' = Append(ends, n + z)
      BY <2>2, <3>1, Zenon
    <3>3. n + z = z + Size(f)
      BY <1>2, <1>5, <2>4
    <3> QED
      BY <2>3, <3>2, <3>3, Zenon
  <2>6. /\ EndsOf(script, e) /\ Len(e) = sent + 1
        /\ \A i \in 0..sent : EndOf(e, i) = EndOf(ends, i)
        /\ EndOf(e, sent + 1) = z + n
        /\ \A p \in Nat : \A c : IsBuffer(c) /\ Stands(c, p, script, ends) /\ p + Size(c) <= z
                                   => Stands(c, p, script, e)
        /\ Stands(f, z, script, e)
    <3>1. sent = Len(ends) /\ sent < Len(script.items) /\ EndsOf(script, ends)
      BY <1>1, Numbers DEF Items
    <3>2. f = FrameOf(script, sent + 1) /\ z = EndOf(ends, sent)
      BY <1>2, <2>3
    <3>3. Grown(script, ends, sent, f, z, e)
      BY <2>5, <3>1, <3>2, OneMore
    <3> QED
      BY <1>2, <3>3, Zenon DEF Grown
  <2>7. /\ EndOf(ends, Len(log)) + Size(rx) = got /\ got + Size(pipe) = written
        /\ written + Size(tx) = z /\ written <= z /\ EndOf(e, Len(log)) = EndOf(ends, Len(log))
        /\ got <= z
    <3>1. /\ EndOf(ends, Len(log)) + Size(rx) = got /\ got + Size(pipe) = written
          /\ written + Size(tx) = z /\ written <= z
      BY <1>1, <2>3 DEF IInv, Accounts
    <3>2. Len(log) \in 0..sent
      BY Numbers
    <3>3. got <= z
      <4>1. got \in Nat /\ Size(pipe) \in Nat
        BY Numbers
      <4>2. \A x, y \in Nat : x + y <= z => x <= z
        BY <2>4
      <4>3. got + Size(pipe) <= z
        BY <3>1
      <4> QED
        BY <4>1, <4>2, <4>3
    <3> QED
      BY <2>6, <3>1, <3>2, <3>3
  <2>8. /\ Stands(rx, EndOf(e, Len(log)), script, e)
        /\ Stands(pipe, got, script, e)
        /\ Stands(b, written, script, e)
    <3>1. /\ Stands(rx, EndOf(ends, Len(log)), script, ends) /\ Stands(pipe, got, script, ends)
          /\ Stands(tx, written, script, ends)
          /\ IsBuffer(rx) /\ IsBuffer(pipe) /\ IsBuffer(tx)
      BY DEF IInv, Streams, Types
    <3>2. Stands(rx, EndOf(ends, Len(log)), script, e)
      <4>1. EndOf(ends, Len(log)) \in Nat /\ EndOf(ends, Len(log)) + Size(rx) <= z
        BY <2>4, <2>7, Numbers
      <4> QED
        BY <2>6, <3>1, <4>1
    <3>3. Stands(pipe, got, script, e)
      <4>1. got \in Nat /\ got + Size(pipe) <= z
        BY <2>4, <2>7, Numbers
      <4> QED
        BY <2>6, <3>1, <4>1
    <3>4. Stands(tx, written, script, e)
      <4>1. written \in Nat /\ written + Size(tx) <= z
        BY <2>4, <2>7, Numbers
      <4> QED
        BY <2>6, <3>1, <4>1
    <3>5. Stands(b, written, script, e)
      <4>1. Stands(f, written + Size(tx), script, e)
        BY <2>6, <2>7, Zenon
      <4> QED
        BY <1>5, <2>3, <2>6, <3>1, <3>4, <4>1, Numbers, JoinStands
    <3> QED
      BY <2>7, <3>2, <3>3, <3>5, Zenon
  <2>9. /\ IsBuffer(tx') /\ IsBuffer(pipe') /\ Size(tx') = Size(b) - k
        /\ Size(tx') \in Nat /\ Size(pipe') \in Nat
        /\ written' = written + k /\ written' \in Nat /\ got + Size(pipe') = written'
        /\ Stands(tx', written', script, e) /\ Stands(pipe', got, script, e)
    <3>1. Flush(b, k) /\ IsBuffer(pipe)
      BY <2>1, <2>3 DEF IInv, Types
    <3> QED
      BY <2>4, <2>6, <2>7, <2>8, <3>1, Numbers, Flushed
  <2>10. Types'
    <3>1. Size(tx') <= BUF_CAP
      <4>1. Size(tx) + n <= BUF_CAP
        <5>1. BUF_CAP \in Nat
          BY WireConstants
        <5> QED
          BY <1>5, <1>7, <5>1, Numbers DEF Full
      <4>2. BUF_CAP \in Nat
        BY WireConstants
      <4>3. Size(tx') <= Size(tx) + n /\ Size(tx) \in Nat
        <5>1. Size(tx') = (Size(tx) + n) - k /\ Size(tx) \in Nat
          BY <2>4, <2>9, Numbers
        <5> QED
          BY <1>5, <2>4, <5>1
      <4> QED
        BY <1>5, <2>9, <4>1, <4>2, <4>3
    <3>2. sent' \in 0..Len(Items) /\ Len(log) <= sent' /\ Len(ends') = sent'
      BY <1>1, <2>2, <2>3, <2>6, Numbers
    <3> QED
      BY <1>1, <2>2, <2>9, <3>1, <3>2 DEF IInv, Types, Items
  <2>11. EndsOf(script, ends)'
    BY <1>1, <2>3, <2>6
  <2>12. Thresholds'
    <3>1. InForce(script, (sent + 1) + 1) = ThresholdAfter(script.items[sent + 1], InForce(script, sent + 1))
      BY <1>4, Numbers, InForceIs
    <3>2. txc = InForce(script, sent + 1) /\ rxc = InForce(script, Len(log) + 1)
      BY DEF IInv, Thresholds
    <3>3. it = script.items[sent + 1]
      BY <1>2 DEF Items
    <3>4. txc' = InForce(script, sent' + 1)
      BY <2>2, <3>1, <3>2, <3>3, Zenon
    <3> QED
      BY <1>1, <3>2, <3>4, Zenon DEF Thresholds
  <2>13. Accounts'
    <3>1. EndOf(ends', Len(log')) + Size(rx') = got'
      BY <1>1, <2>3, <2>7, Zenon
    <3>2. got' + Size(pipe') = written'
      BY <1>1, <2>9, Zenon
    <3>3. EndOf(ends', sent') = z + n
      BY <2>2, <2>3, <2>6, Zenon
    <3>4. written' + Size(tx') = z + n /\ written' <= z + n
      <4>1. Size(tx') = (Size(tx) + n) - k /\ Size(tx) \in Nat /\ written \in Nat
            /\ written' = written + k /\ written + Size(tx) = z
        BY <2>4, <2>7, <2>9, Numbers
      <4> QED
        BY <1>5, <2>4, <2>9, <4>1
    <3> QED
      BY <3>1, <3>2, <3>3, <3>4 DEF Accounts
  <2>14. Streams'
    BY <1>1, <2>3, <2>8, <2>9, Zenon DEF Streams
  <2>15. Closed'
    <3>1. why # "close-msg"
      BY <1>1, Numbers DEF IInv, Closed
    <3>2. open # "closing"
      BY <3>1 DEF IInv, Closed
    <3> QED
      BY <1>1, <2>2, <3>1, <3>2 DEF Closed
  <2>16. Rested'
    <3>1. ~FrameWaits => ~FrameWaits'
      <4>1. SUFFICES ASSUME ~FrameWaits, Len(log) < sent + 1, e[Len(log) + 1] <= got PROVE FALSE
        BY <1>1, <2>2, <2>3 DEF FrameWaits
      <4>2. CASE Len(log) = sent
        <5>1. e[Len(log) + 1] = z + n
          BY <2>6, <4>2, Numbers DEF EndOf
        <5>2. got \in Nat /\ got <= z /\ z + n <= got
          BY <2>7, <4>1, <5>1, Numbers
        <5> QED
          BY <1>5, <2>4, <5>2
      <4>3. CASE Len(log) # sent
        <5>1. Len(log) + 1 \in 0..sent /\ Len(log) + 1 # 0 /\ Len(log) < sent
          BY <4>3, Numbers
        <5>2. e[Len(log) + 1] = ends[Len(log) + 1]
          BY <2>6, <5>1 DEF EndOf
        <5> QED
          BY <4>1, <5>1, <5>2 DEF FrameWaits
      <4> QED
        BY <4>2, <4>3
    <3>2. phase \notin {"last", "gone"}
      BY <1>1 DEF IInv, Rested
    <3> QED
      BY <1>1, <3>1, <3>2 DEF IInv, Rested
  <2>17. Verbatim'
    BY <1>1 DEF IInv, Verbatim
  <2>18. IInv'
    BY <2>10, <2>11, <2>12, <2>13, <2>14, <2>15, <2>16, <2>17 DEF IInv
  <2>19. Promise!Send
    <3>1. corrupt = FALSE /\ corrupt' = FALSE
      BY <1>1 DEF IInv, Rested
    <3>2. ends' = Append(ends, z + n) /\ Len(ends') = sent + 1 /\ ends'[sent + 1] = z + n
      <4>1. Len(ends) = sent
        BY Numbers
      <4>2. ends' = Append(ends, z + n)
        BY <1>2, <2>3, <2>5, Zenon
      <4>3. Len(ends') = sent + 1
        BY <2>3, <2>6
      <4>4. sent + 1 # 0
        BY Numbers
      <4> QED
        BY <2>3, <2>6, <4>2, <4>3, <4>4 DEF EndOf
    <3>3. Promise!EndOf(ends', Len(ends')) = z + n /\ Promise!End = z
      <4>1. sent + 1 # 0 /\ Len(ends) = sent
        BY Numbers
      <4> QED
        BY <2>3, <3>2, <4>1, Zenon DEF Promise!EndOf, Promise!End, EndOf
    <3>4. z + n \in Nat /\ z + n > z /\ written' \in written..z + n
      <4>1. Size(tx') = (Size(tx) + n) - k /\ Size(tx) \in Nat /\ written \in Nat
            /\ written' = written + k /\ written + Size(tx) = z
        BY <2>4, <2>7, <2>9, Numbers
      <4> QED
        BY <1>5, <2>4, <2>9, <4>1
    <3> QED
      BY <1>1, <2>2, <3>1, <3>2, <3>3, <3>4 DEF Promise!Send
  <2> QED
    BY <2>18, <2>19 DEF Promise!Next
<1> QED
  BY <1>6, <1>7

\* The socket takes bytes of what is left, and a close that waits for the last
\* of them goes through with it.
LEMMA TakenKeeps ==
  ASSUME IInv, open # "no", NEW k \in 0..Size(tx), Flush(tx, k),
         open' = open \/ (open' = "closing" /\ why' = "close-msg")
           \/ (open' = "no" /\ why' = "close-msg" /\ k = Size(tx)),
         why' = why \/ (why' = "close-msg" /\ sent = Len(Items) /\ open' # "yes"),
         UNCHANGED <<script, sent, txc, ends, receiver>>
  PROVE  IInv' /\ Promise!Next
<1>1. /\ script' = script /\ sent' = sent /\ txc' = txc /\ ends' = ends
      /\ rx' = rx /\ rxc' = rxc /\ phase' = phase
      /\ corrupt' = corrupt /\ log' = log /\ got' = got /\ slow' = slow
  BY DEF receiver
<1>2. PICK z : z = EndOf(ends, sent)
  OBVIOUS
<1>3. /\ EndOf(ends, Len(log)) + Size(rx) = got /\ got + Size(pipe) = written
      /\ written + Size(tx) = z /\ z \in Nat /\ written \in Nat /\ Size(tx) \in Nat /\ k \in Nat
  BY <1>2, Numbers DEF IInv, Accounts
<1>4. /\ IsBuffer(tx') /\ IsBuffer(pipe') /\ Size(tx') = Size(tx) - k
      /\ Size(tx') \in Nat /\ Size(pipe') \in Nat
      /\ written' = written + k /\ written' \in Nat /\ got + Size(pipe') = written'
      /\ Stands(tx', written', script, ends) /\ Stands(pipe', got, script, ends)
  <2>1. IsBuffer(tx) /\ IsBuffer(pipe) /\ Stands(tx, written, script, ends)
        /\ Stands(pipe, got, script, ends)
    BY DEF IInv, Types, Streams
  <2> QED
    BY <1>3, <2>1, Numbers, Flushed
<1>5. open \in {"yes", "closing"} /\ open' \in {"yes", "closing", "no"}
      /\ why \in {"", "close-msg", "send-full", "cut"} /\ why' \in {"", "close-msg", "send-full", "cut"}
  BY DEF IInv, Types
<1>6. Types'
  <2>1. Size(tx') <= BUF_CAP
    <3>1. Size(tx) <= BUF_CAP /\ BUF_CAP \in Nat
      BY WireConstants DEF IInv, Types
    <3> QED
      BY <1>3, <1>4, <3>1
  <2> QED
    BY <1>1, <1>4, <1>5, <2>1 DEF IInv, Types, Items
<1>7. EndsOf(script, ends)' /\ Thresholds' /\ Verbatim'
  BY <1>1 DEF IInv, Thresholds, Verbatim
<1>8. written' + Size(tx') = z /\ written' <= z
  BY <1>3, <1>4
<1>9. Accounts'
  BY <1>1, <1>2, <1>3, <1>4, <1>8 DEF Accounts
<1>10. Streams'
  BY <1>1, <1>4 DEF IInv, Streams
<1>11. open' = "no" => tx' = <<>> /\ written' = z
  <2> SUFFICES ASSUME open' = "no" PROVE tx' = <<>> /\ written' = z
    OBVIOUS
  <2>1. k = Size(tx)
    BY <1>5
  <2>2. Size(tx') = 0
    BY <1>3, <1>4, <2>1
  <2>3. tx' = <<>>
    BY <1>4, <2>2, Runs
  <2> QED
    BY <1>3, <1>4, <2>1, <2>3
<1>12. Closed'
  <2>1. /\ why = "close-msg" => sent = Len(Items) /\ open # "yes"
        /\ open = "closing" => why = "close-msg"
    BY DEF IInv, Closed
  <2>2. Items' = Items
    BY <1>1 DEF Items
  <2>3. why' = "close-msg" => sent' = Len(Items') /\ open' # "yes"
    BY <1>1, <1>5, <2>1, <2>2
  <2>4. open' = "closing" => why' = "close-msg"
    BY <1>5, <2>1
  <2> QED
    BY <1>11, <2>3, <2>4 DEF Closed
<1>13. Rested'
  <2>1. phase \notin {"last", "gone"}
    BY DEF IInv, Rested
  <2> QED
    BY <1>1, <2>1 DEF IInv, Rested, FrameWaits
<1>14. IInv'
  BY <1>6, <1>7, <1>9, <1>10, <1>12, <1>13 DEF IInv
<1>15. Promise!Flush
  <2>1. corrupt = FALSE /\ corrupt' = FALSE
    BY <1>1 DEF IInv, Rested
  <2>2. Promise!End = z
    BY <1>2, Numbers DEF Promise!End, Promise!EndOf, EndOf
  <2>3. written' \in written..z
    BY <1>3, <1>4, <1>8
  <2>4. Seen = "yes" /\ Seen' \in {"yes", "closed"} /\ (Seen' = "closed" => written' = z)
    BY <1>5, <1>11 DEF Seen
  <2> QED
    BY <1>1, <2>1, <2>2, <2>3, <2>4 DEF Promise!Flush, Seen
<1> QED
  BY <1>14, <1>15 DEF Promise!Next

LEMMA WritableKeeps ==
  ASSUME IInv, Writable
  PROVE  IInv' /\ Promise!Next
<1>1. PICK k \in Portions(Size(tx)) :
        /\ Flush(tx, k)
        /\ open' = IF open = "closing" /\ k = Size(tx) THEN "no" ELSE open
  BY DEF Writable
<1>2. open # "no" /\ why' = why /\ UNCHANGED <<script, sent, txc, ends, receiver>>
  BY DEF Writable
<1>3. k \in 0..Size(tx)
  BY <1>1, Numbers DEF Portions
<1>4. open = "closing" => why = "close-msg"
  BY DEF IInv, Closed
<1>5. open' = open \/ (open' = "no" /\ why' = "close-msg" /\ k = Size(tx))
  BY <1>1, <1>2, <1>4
<1> QED
  BY <1>1, <1>2, <1>3, <1>5, TakenKeeps

LEMMA CloseKeeps ==
  ASSUME IInv, Close
  PROVE  IInv' /\ Promise!Next
<1>1. PICK k \in {0} \cup Portions(Size(tx)) :
        /\ Flush(tx, k)
        /\ open' = IF k = Size(tx) THEN "no" ELSE "closing"
  BY DEF Close
<1>2. open = "yes" /\ sent = Len(Items) /\ why' = "close-msg"
      /\ UNCHANGED <<script, sent, txc, ends, receiver>>
  BY DEF Close
<1>3. k \in 0..Size(tx)
  BY <1>1, Numbers DEF Portions
<1>4. /\ (open' = "closing" /\ why' = "close-msg")
           \/ (open' = "no" /\ why' = "close-msg" /\ k = Size(tx))
      /\ open' # "yes"
  BY <1>1, <1>2
<1> QED
  BY <1>1, <1>2, <1>3, <1>4, TakenKeeps

LEMMA CutKeeps ==
  ASSUME IInv, Cut
  PROVE  IInv' /\ Promise!Next
BY LostKeeps DEF Cut

\* A receiver that waits holds less than a frame.
LEMMA LessThanFrame ==
  ASSUME IInv, ~FrameWaits
  PROVE  Size(rx) < MAX_FRAME + 5
<1>1. PICK l, z : l = Len(log) /\ z = EndOf(ends, l)
  OBVIOUS
<1>2. z + Size(rx) = got /\ got \in Nat /\ Size(rx) \in Nat /\ z \in Nat /\ l \in Nat /\ l <= sent
      /\ got <= EndOf(ends, sent) /\ EndOf(ends, sent) \in Nat /\ MAX_FRAME \in Nat
  <2>1. z + Size(rx) = got /\ got + Size(pipe) = written /\ written <= EndOf(ends, sent)
    BY <1>1 DEF IInv, Accounts
  <2>2. got <= EndOf(ends, sent)
    BY <2>1, Numbers
  <2> QED
    BY <1>1, <2>1, <2>2, Numbers, WireConstants
<1>3. CASE l = sent
  BY <1>1, <1>2, <1>3
<1>4. CASE l # sent
  <2>1. l + 1 \in 1..Len(ends) /\ (l + 1) - 1 = l /\ l + 1 \in 1..Len(script.items) /\ l < sent
    <3>1. Len(ends) = sent /\ sent \in Nat /\ sent <= Len(script.items) /\ Len(script.items) \in Nat
      BY Numbers DEF Items
    <3> QED
      BY <1>2, <1>4, <3>1
  <2>2. ~(ends[l + 1] <= got)
    BY <1>1, <2>1 DEF FrameWaits
  <2>3. ends[l + 1] = z + Size(FrameOf(script, l + 1))
    <3>1. ends[l + 1] = EndOf(ends, (l + 1) - 1) + Size(FrameOf(script, l + 1))
      BY <2>1, Numbers DEF EndsOf
    <3> QED
      BY <1>1, <2>1, <3>1, Zenon
  <2>4. Size(FrameOf(script, l + 1)) \in 1..MAX_FRAME + 5
    BY <2>1, Numbers, FrameOfIs
  <2> QED
    BY <1>2, <2>2, <2>3, <2>4
<1> QED
  BY <1>3, <1>4

\* The receiver reads.
LEMMA RecvKeeps ==
  ASSUME IInv, Recv
  PROVE  IInv' /\ Promise!Next
<1>1. /\ script' = script /\ sent' = sent /\ tx' = tx /\ txc' = txc /\ open' = open /\ why' = why
      /\ ends' = ends /\ written' = written /\ rxc' = rxc /\ corrupt' = corrupt /\ log' = log
      /\ phase = "poll"
  BY DEF Recv, sender
<1>2. PICK n \in IF pipe = <<>> THEN {0} ELSE {1} \cup Portions(Size(pipe)) :
        LET m   == Min({n, 4 * RECV_CHUNK})
            eof == open = "no" /\ m = Size(pipe) /\ m % RECV_CHUNK = 0
                     /\ m < 4 * RECV_CHUNK
        IN  /\ n = 1 /\ Size(pipe) > 1 => slow < script.slow
            /\ slow' = IF n = 1 /\ Size(pipe) > 1 THEN slow + 1 ELSE slow
            /\ rx' = Join(rx, Take(pipe, m))
            /\ pipe' = Drop(pipe, m)
            /\ got' = got + m
            /\ phase' = IF eof \/ Size(rx) + m > BUF_CAP THEN "last" ELSE "drain"
  BY DEF Recv
<1>3. PICK m : m = Min({n, 4 * RECV_CHUNK})
  OBVIOUS
<1>4. PICK eof : eof = (open = "no" /\ m = Size(pipe) /\ m % RECV_CHUNK = 0
                          /\ m < 4 * RECV_CHUNK)
  OBVIOUS
<1>5. /\ n = 1 /\ Size(pipe) > 1 => slow < script.slow
      /\ slow' = IF n = 1 /\ Size(pipe) > 1 THEN slow + 1 ELSE slow
      /\ rx' = Join(rx, Take(pipe, m))
      /\ pipe' = Drop(pipe, m)
      /\ got' = got + m
  BY <1>2, <1>3, Zenon
<1>6. phase' = IF eof \/ Size(rx) + m > BUF_CAP THEN "last" ELSE "drain"
  BY <1>2, <1>3, <1>4, Zenon
<1>7. RECV_CHUNK \in Nat /\ RECV_CHUNK > 0 /\ MAX_FRAME \in Nat /\ BUF_CAP \in Nat
      /\ BUF_CAP >= MAX_FRAME + 5 + 4 * RECV_CHUNK
  BY WireConstants
<1>8. n \in 0..Size(pipe)
  <2>1. Size(pipe) \in Nat /\ (Size(pipe) = 0 <=> pipe = <<>>)
    BY Runs DEF IInv, Types
  <2>2. n \in IF pipe = <<>> THEN {0} ELSE {1} \cup Portions(Size(pipe))
    BY <1>2
  <2>3. CASE pipe = <<>>
    BY <2>1, <2>2, <2>3
  <2>4. CASE pipe # <<>>
    <3>1. n \in {1, Size(pipe) - 1, Size(pipe)} /\ Size(pipe) > 0
      BY <2>1, <2>2, <2>4 DEF Portions
    <3> QED
      BY <2>1, <3>1
  <2> QED
    BY <2>3, <2>4
<1>9. m \in 0..Size(pipe) /\ m <= 4 * RECV_CHUNK
  <2>1. n \in Int /\ 4 * RECV_CHUNK \in Int /\ 4 * RECV_CHUNK >= 0
    BY <1>7, <1>8
  <2>2. m = IF n <= 4 * RECV_CHUNK THEN n ELSE 4 * RECV_CHUNK
    BY <1>3, <2>1, MinOf
  <2>3. PICK c \in Int : c = 4 * RECV_CHUNK /\ c >= 0
    BY <2>1
  <2>4. m = IF n <= c THEN n ELSE c
    BY <2>2, <2>3, Zenon
  <2>5. PICK q \in Nat : q = Size(pipe)
    BY Numbers
  <2>6. n \in 0..q
    BY <1>8, <2>5
  <2>7. m \in 0..q /\ m <= c
    BY <2>3, <2>4, <2>6
  <2> QED
    BY <2>3, <2>5, <2>7, Zenon
<1>10. PICK t : t = Take(pipe, m)
  OBVIOUS
<1>11. IsBuffer(pipe) /\ IsBuffer(rx) /\ Size(pipe) \in Nat /\ Size(rx) \in Nat /\ m \in Nat
       /\ m <= Size(pipe) /\ written \in Nat /\ got \in Nat
  <2>1. IsBuffer(pipe) /\ IsBuffer(rx)
    BY Zenon DEF IInv, Types
  <2>2. Size(pipe) \in Nat /\ Size(rx) \in Nat /\ written \in Nat /\ got \in Nat
    BY Numbers, Zenon
  <2>3. m \in Nat /\ m <= Size(pipe)
    BY <1>9, <2>2
  <2> QED
    BY <2>1, <2>2, <2>3
<1>12. IsBuffer(t) /\ Size(t) = m
  BY <1>10, <1>11, Taken
<1>13. IsBuffer(rx') /\ Size(rx') = Size(rx) + m
  <2>1. IsBuffer(Join(rx, t)) /\ Size(Join(rx, t)) = Size(rx) + Size(t)
    BY <1>11, <1>12, Joined
  <2> QED
    BY <1>5, <1>10, <1>12, <2>1
<1>14. IsBuffer(pipe') /\ Size(pipe') = Size(pipe) - m
  <2>1. IsBuffer(Drop(pipe, m)) /\ Size(Drop(pipe, m)) = Size(pipe) - m
    BY <1>11, Dropped
  <2> QED
    BY <1>5, <2>1
<1>15. PICK l, z : l = Len(log) /\ z = EndOf(ends, l)
  OBVIOUS
<1>16. /\ z + Size(rx) = got /\ got + Size(pipe) = written /\ z \in Nat
       /\ Stands(rx, z, script, ends) /\ Stands(pipe, got, script, ends)
  BY <1>15, Numbers DEF IInv, Accounts, Streams
<1>17. Stands(rx', z, script, ends) /\ Stands(pipe', got', script, ends)
  <2>1. Stands(t, got, script, ends) /\ Stands(Drop(pipe, m), got + m, script, ends)
    BY <1>9, <1>10, <1>11, <1>16, Numbers, PartsStand
  <2>2. Stands(Join(rx, t), z, script, ends)
    BY <1>11, <1>12, <1>16, <2>1, Numbers, JoinStands
  <2> QED
    BY <1>5, <1>10, <2>1, <2>2
<1>18. slow' \in 0..script.slow
  <2>1. slow \in 0..script.slow /\ script.slow \in Nat
    BY Numbers DEF IInv, Types, ScriptOK
  <2> QED
    BY <1>5, <2>1
<1>19. phase' \in {"drain", "last"} /\ (phase' = "last" => eof) /\ Size(rx') <= BUF_CAP
  <2>1. ~FrameWaits
    BY <1>1 DEF IInv, Rested
  <2>2. Size(rx) < MAX_FRAME + 5
    BY <2>1, LessThanFrame
  <2>3. ~(Size(rx) + m > BUF_CAP)
    BY <1>7, <1>9, <1>11, <2>2
  <2>4. Size(rx') <= BUF_CAP
    BY <1>7, <1>11, <1>13, <2>3
  <2> QED
    BY <1>6, <2>3, <2>4
<1>20. phase' = "last" => open = "no" /\ pipe' = <<>> /\ got' = written
  <2> SUFFICES ASSUME phase' = "last" PROVE open = "no" /\ pipe' = <<>> /\ got' = written
    OBVIOUS
  <2>1. open = "no" /\ m = Size(pipe)
    BY <1>4, <1>19
  <2>2. Size(pipe') = 0
    BY <1>11, <1>14, <2>1
  <2>3. pipe' = <<>>
    BY <1>14, <2>2, Runs
  <2> QED
    BY <1>5, <1>16, <2>1, <2>3
<1>21. Types'
  <2>1. Types /\ Items' = Items /\ got' \in Nat
    BY <1>1, <1>5, <1>11 DEF IInv, Items
  <2>2. phase' \in {"poll", "drain", "last", "gone"} /\ corrupt' \in BOOLEAN
    <3>1. corrupt' = FALSE
      BY <1>1 DEF IInv, Rested
    <3> QED
      BY <1>19, <3>1
  <2> QED
    BY <1>1, <1>13, <1>14, <1>18, <1>19, <2>1, <2>2 DEF Types
<1>22. EndsOf(script, ends)' /\ Thresholds' /\ Verbatim'
  BY <1>1 DEF IInv, Thresholds, Verbatim
<1>23. Accounts'
  <2>1. PICK p, r : p = Size(pipe) /\ r = Size(rx)
    OBVIOUS
  <2>2. p \in Nat /\ r \in Nat /\ m \in Nat /\ z \in Nat /\ got \in Nat
    BY <1>11, <1>16, <2>1
  <2>3. z + r = got /\ got + p = written /\ got' = got + m
    BY <1>5, <1>16, <2>1, Zenon
  <2>4. Size(rx') = r + m /\ Size(pipe') = p - m
    BY <1>13, <1>14, <2>1, Zenon
  <2>5. z + Size(rx') = got' /\ got' + Size(pipe') = written
    BY <2>2, <2>3, <2>4
  <2> QED
    BY <1>1, <1>15, <2>5 DEF IInv, Accounts
<1>24. Streams'
  BY <1>1, <1>15, <1>17 DEF IInv, Streams
<1>25. Closed' /\ Rested'
  <2>1. Closed'
    BY <1>1 DEF IInv, Closed, Items
  <2>2. Rested'
    BY <1>1, <1>19, <1>20 DEF IInv, Rested
  <2> QED
    BY <2>1, <2>2
<1>26. IInv'
  BY <1>21, <1>22, <1>23, <1>24, <1>25 DEF IInv
<1>27. Promise!Read
  <2>1. corrupt = FALSE /\ corrupt' = FALSE
    BY <1>1 DEF IInv, Rested
  <2>2. got' \in got..written
    BY <1>5, <1>11, <1>16
  <2>3. Seen' = Seen /\ (phase' = "last" => Seen # "yes")
    BY <1>1, <1>20 DEF Seen
  <2> QED
    BY <1>1, <1>19, <1>20, <2>1, <2>2, <2>3 DEF Promise!Read, Seen
<1> QED
  BY <1>26, <1>27 DEF Promise!Next

\* An empty buffer holds no frame.
LEMMA NothingRead ==
  ASSUME NEW threshold
  PROVE  ChanNext(<<>>, threshold) = More
<1>1. 0 \in 0..INT_MAX
  BY IntMax
<1>2. PICK w : w = WrVarint(0)
  OBVIOUS
<1>3. Size(w) \in 1..5
  BY <1>1, <1>2, VarintSize
<1>4. Size(<<>>) < Size(w)
  BY <1>3, NoBytes
<1>5. Alike(<<>>, w)
  BY NoBytes DEF Alike
<1>6. ~RdVarint(<<>>).ok
  BY <1>1, <1>2, <1>4, <1>5, NoBytes, VarintShort
<1> QED
  BY <1>6, Zenon DEF ChanNext, ChanFrame

\* What the receiver finds in its buffer: the next packet when its frame is
\* there whole, and nothing before.
LEMMA NextFrame ==
  ASSUME IInv, NEW l, l = Len(log)
  PROVE  /\ FrameWaits => /\ l + 1 \in 1..Len(script.items) /\ l + 1 \in 1..sent
                          /\ Size(FrameOf(script, l + 1)) \in 0..Size(rx)
                          /\ ChanNext(rx, rxc)
                               = Packet(script.items[l + 1], Drop(rx, Size(FrameOf(script, l + 1))))
         /\ ~FrameWaits => ChanNext(rx, rxc) = More
<1>1. PICK z, f, n : z = EndOf(ends, l) /\ f = FrameOf(script, l + 1) /\ n = Size(f)
  OBVIOUS
<1>2. /\ z + Size(rx) = got /\ got <= EndOf(ends, sent) /\ Stands(rx, z, script, ends)
      /\ rxc = InForce(script, l + 1)
  <2>1. z + Size(rx) = got /\ got + Size(pipe) = written /\ written <= EndOf(ends, sent)
    BY <1>1 DEF IInv, Accounts
  <2>2. got <= EndOf(ends, sent)
    BY <2>1, Numbers
  <2>3. Stands(rx, z, script, ends) /\ rxc = InForce(script, l + 1)
    BY <1>1 DEF IInv, Streams, Thresholds
  <2> QED
    BY <2>1, <2>2, <2>3
<1>3. /\ l \in Nat /\ sent \in Nat /\ l <= sent /\ Len(ends) = sent /\ Size(rx) \in Nat /\ z \in Nat
      /\ sent <= Len(script.items) /\ Len(script.items) \in Nat /\ got \in Nat
      /\ EndOf(ends, sent) \in Nat
  BY <1>1, Numbers DEF Items
<1>4. EndsOf(script, ends) /\ ScriptOK(script) /\ IsBuffer(rx)
  BY DEF IInv, EndsOf, Types
<1>5. CASE l = sent
  <2>1. ~FrameWaits
    BY <1>3, <1>5 DEF FrameWaits
  <2>2. Size(rx) = 0
    BY <1>1, <1>2, <1>3, <1>5
  <2>3. rx = <<>>
    BY <1>4, <2>2, Runs
  <2>4. ChanNext(rx, rxc) = More
    BY <2>3, NothingRead
  <2> QED
    BY <2>1, <2>4
<1>6. CASE l # sent
  <2>1. /\ l < sent /\ l \in 0..Len(ends) /\ l < Len(ends) /\ l + 1 \in 1..Len(script.items)
        /\ l + 1 \in 1..sent /\ (l + 1) - 1 = l /\ l + 1 \in 1..Len(ends)
    BY <1>3, <1>6
  <2>2. Alike(rx, f)
    BY <1>1, <1>2, <1>4, <2>1, StandsAlike
  <2>3. PICK it, t : it = script.items[l + 1] /\ t = InForce(script, l + 1)
    OBVIOUS
  <2>4. Sendable(it) /\ t \in Int /\ n \in 1..MAX_FRAME + 5
    BY <1>1, <1>4, <2>1, <2>3, FrameOfIs
  <2>5. f = Frame(t, it.id, Payload(it))
    BY <1>1, <2>3, Zenon DEF FrameOf
  <2>6. ChanNext(rx, t) = IF n <= Size(rx) THEN Packet(it, Drop(rx, n)) ELSE More
    BY <1>1, <1>4, <2>2, <2>4, <2>5, FrameRead
  <2>7. ends[l + 1] = z + n
    <3>1. ends[l + 1] = EndOf(ends, (l + 1) - 1) + Size(FrameOf(script, l + 1))
      BY <1>4, <2>1 DEF EndsOf
    <3> QED
      BY <1>1, <2>1, <3>1, Zenon
  <2>8. FrameWaits <=> n <= Size(rx)
    <3>1. n \in Nat
      BY <2>4
    <3>2. FrameWaits <=> z + n <= got
      BY <2>1, <2>7 DEF FrameWaits
    <3>3. z + n <= got <=> n <= Size(rx)
      BY <1>2, <1>3, <3>1
    <3> QED
      BY <3>2, <3>3
  <2>9. n <= Size(rx) => n \in 0..Size(rx)
    BY <1>3, <2>4
  <2>10. ChanNext(rx, rxc) = ChanNext(rx, t)
    BY <1>2, <2>3, Zenon
  <2> QED
    BY <1>1, <2>1, <2>3, <2>6, <2>8, <2>9, <2>10, Zenon
<1> QED
  BY <1>5, <1>6

\* A packet is handed over.
LEMMA TakeKeeps ==
  ASSUME IInv, Next1, FrameWaits
  PROVE  IInv' /\ Promise!Next
<1>1. PICK l, i, it, f, n, g :
        /\ l = Len(log) /\ i = l + 1 /\ it = script.items[i] /\ f = FrameOf(script, i)
        /\ n = Size(f) /\ g = Given(script, i)
  OBVIOUS
<1>2. /\ i \in 1..Len(script.items) /\ i \in 1..sent /\ n \in 0..Size(rx)
      /\ ChanNext(rx, rxc) = Packet(it, Drop(rx, n))
  BY <1>1, NextFrame
<1>3. /\ phase \in {"drain", "last"} /\ script' = script /\ pipe' = pipe /\ sent' = sent /\ tx' = tx
      /\ txc' = txc /\ open' = open /\ why' = why /\ ends' = ends /\ written' = written
      /\ got' = got /\ slow' = slow
  BY DEF Next1, sender
<1>4. PICK frame : frame = ChanNext(rx, rxc)
  OBVIOUS
<1>5. frame.g = "ok" /\ frame.id = it.id /\ frame.payload = Payload(it) /\ frame.rest = Drop(rx, n)
  BY <1>2, <1>4 DEF Packet
<1>6. Items[Len(log) + 1] = it
  BY <1>1, Zenon DEF Items
<1>7. /\ rx' = frame.rest
      /\ log' = Append(log, Handle(frame.id, frame.payload, it))
      /\ rxc' = IF IsSwitch(it) /\ Last(log') # Malformed THEN Last(log').threshold ELSE rxc
      /\ phase' = phase /\ corrupt' = corrupt
  BY <1>4, <1>5, <1>6 DEF Next1
<1>8. g = Handle(it.id, Payload(it), it)
  BY <1>1, Zenon DEF Given
<1>9. rx' = Drop(rx, n) /\ log' = Append(log, g)
  BY <1>5, <1>7, <1>8, Zenon
<1>10. log \in Seq(Answers(script)) /\ g \in Answers(script)
  <2>1. log \in Seq(Answers(script))
    BY Zenon DEF IInv, Types
  <2>2. g \in Answers(script)
    BY <1>1, <1>2, Zenon DEF Answers
  <2> QED
    BY <2>1, <2>2
<1>11. /\ log' \in Seq(Answers(script)) /\ Len(log') = i /\ log'[i] = g
       /\ \A j \in 1..l : log'[j] = log[j]
  BY <1>1, <1>9, <1>10, AppendProperties
<1>12. Last(log') = g
  BY <1>11 DEF Last
<1>13. ScriptOK(script) /\ EndsOf(script, ends) /\ IsBuffer(rx)
  BY Numbers DEF IInv, Types
<1>14. /\ l \in Nat /\ i \in Nat /\ i # 0 /\ i - 1 = l /\ sent \in Nat /\ Len(ends) = sent
       /\ Size(rx) \in Nat /\ n \in Nat /\ n <= Size(rx) /\ EndOf(ends, l) \in Nat
       /\ l \in 0..Len(ends) /\ i \in 1..Len(ends)
  <2>1. /\ l \in Nat /\ sent \in Nat /\ Len(ends) = sent /\ Size(rx) \in Nat
        /\ EndOf(ends, l) \in Nat
    BY <1>1, Numbers, Zenon
  <2>2. i = l + 1
    BY <1>1
  <2> QED
    BY <1>2, <2>1, <2>2
<1>15. PICK z : z = EndOf(ends, l)
  OBVIOUS
<1>16. EndOf(ends, i) = z + n
  <2>1. ends[i] = EndOf(ends, i - 1) + Size(FrameOf(script, i))
    BY <1>13, <1>14 DEF EndsOf
  <2>2. EndOf(ends, i) = ends[i]
    BY <1>14 DEF EndOf
  <2> QED
    BY <1>1, <1>14, <1>15, <2>1, <2>2, Zenon
<1>17. IsBuffer(rx') /\ Size(rx') = Size(rx) - n
  <2>1. IsBuffer(Drop(rx, n)) /\ Size(Drop(rx, n)) = Size(rx) - n
    BY <1>13, <1>14, Dropped
  <2> QED
    BY <1>9, <2>1
<1>18. Stands(rx', z + n, script, ends)
  <2>1. Stands(rx, z, script, ends)
    BY <1>1, <1>15 DEF IInv, Streams
  <2>2. Stands(Drop(rx, n), z + n, script, ends)
    BY <1>2, <1>13, <1>14, <1>15, <2>1, PartsStand
  <2> QED
    BY <1>9, <2>2
<1>19. rxc' = InForce(script, i + 1)
  <2>1. InForce(script, i + 1) = ThresholdAfter(it, InForce(script, i))
    BY <1>1, <1>2, <1>13, InForceIs
  <2>2. rxc = InForce(script, i)
    BY <1>1 DEF IInv, Thresholds
  <2>3. Sendable(it)
    BY <1>1, <1>2, <1>13 DEF ScriptOK
  <2>4. CASE IsSwitch(it)
    <3>1. g # Malformed /\ g.threshold = it.p.threshold
      BY <1>8, <2>3, <2>4, Zenon DEF Sendable
    <3>2. rxc' = it.p.threshold
      BY <1>7, <1>12, <2>4, <3>1, Zenon
    <3> QED
      BY <2>1, <2>4, <3>2, Zenon DEF ThresholdAfter
  <2>5. CASE ~IsSwitch(it)
    <3>1. rxc' = rxc
      BY <1>7, <2>5, Zenon
    <3> QED
      BY <2>1, <2>2, <2>5, <3>1, Zenon DEF ThresholdAfter
  <2> QED
    BY <2>4, <2>5
<1>20. Types'
  <2>1. Types /\ Items' = Items
    BY <1>3 DEF IInv, Items
  <2>2. i <= sent
    BY <1>2
  <2>3. Size(rx') <= BUF_CAP
    <3>1. Size(rx) <= BUF_CAP /\ BUF_CAP \in Nat
      BY <2>1, WireConstants DEF Types
    <3> QED
      BY <1>14, <1>17, <3>1
  <2> QED
    BY <1>3, <1>7, <1>11, <1>17, <2>1, <2>2, <2>3 DEF Types
<1>21. EndsOf(script, ends)'
  BY <1>3, <1>13
<1>22. Thresholds'
  BY <1>3, <1>11, <1>19 DEF IInv, Thresholds
<1>23. Accounts'
  <2>1. z + Size(rx) = got /\ z \in Nat
    BY <1>1, <1>14, <1>15 DEF IInv, Accounts
  <2>2. (z + n) + Size(rx') = got
    BY <1>14, <1>17, <2>1
  <2> QED
    BY <1>3, <1>11, <1>16, <2>2 DEF IInv, Accounts
<1>24. Streams'
  <2>1. Stands(rx', EndOf(ends', Len(log')), script', ends')
    BY <1>3, <1>11, <1>16, <1>18, Zenon
  <2> QED
    BY <1>3, <2>1 DEF IInv, Streams
<1>25. Closed'
  BY <1>3 DEF IInv, Closed, Items
<1>26. Rested'
  BY <1>3, <1>7 DEF IInv, Rested
<1>27. Verbatim'
  <2>1. \A j \in 1..i : j \in 1..l \/ j = i
    BY <1>14
  <2>2. \A j \in 1..l : log[j] = Given(script, j)
    BY <1>1 DEF IInv, Verbatim
  <2>3. \A j \in 1..i : log'[j] = Given(script, j)
    BY <1>1, <1>11, <2>1, <2>2
  <2> QED
    BY <1>3, <1>11, <2>3 DEF Verbatim
<1>28. IInv'
  BY <1>20, <1>21, <1>22, <1>23, <1>24, <1>25, <1>26, <1>27 DEF IInv
<1>29. Promise!Take
  <2>1. corrupt = FALSE /\ corrupt' = FALSE
    BY <1>7 DEF IInv, Rested
  <2>2. Promise!Whole
    BY <1>14 DEF FrameWaits, Promise!Whole
  <2>3. Len(log') = Len(log) + 1
    BY <1>1, <1>11
  <2> QED
    BY <1>3, <1>7, <2>1, <2>2, <2>3 DEF Promise!Take
<1> QED
  BY <1>28, <1>29 DEF Promise!Next

\* The receiver finds no more frames, and waits or goes.
LEMMA RestKeeps ==
  ASSUME IInv, Next1, ~FrameWaits
  PROVE  IInv' /\ Promise!Next
<1>1. ChanNext(rx, rxc) = More
  BY NextFrame
<1>2. More.g = "more" /\ More.g # "ok" /\ More.g # "corrupt"
  BY DEF More
<1>3. /\ phase \in {"drain", "last"} /\ script' = script /\ pipe' = pipe /\ sent' = sent /\ tx' = tx
      /\ txc' = txc /\ open' = open /\ why' = why /\ ends' = ends /\ written' = written
      /\ got' = got /\ slow' = slow
  BY DEF Next1, sender
<1>4. /\ phase' = IF phase = "last" THEN "gone" ELSE "poll"
      /\ corrupt' = FALSE /\ rx' = rx /\ rxc' = rxc /\ log' = log
  BY <1>1, <1>2 DEF Next1
<1>5. phase' \in {"gone", "poll"}
  BY <1>4
<1>6. Types'
  BY <1>3, <1>4, <1>5 DEF IInv, Types, Items
<1>7. EndsOf(script, ends)' /\ Thresholds' /\ Accounts' /\ Streams' /\ Closed' /\ Verbatim'
  BY <1>3, <1>4 DEF IInv, Thresholds, Accounts, Streams, Closed, Verbatim, Items
<1>8. Rested'
  <2>1. ~FrameWaits'
    BY <1>3, <1>4 DEF FrameWaits
  <2>2. phase' = "gone" => phase = "last"
    BY <1>4
  <2> QED
    BY <1>3, <1>4, <2>1, <2>2 DEF IInv, Rested
<1>9. IInv'
  BY <1>6, <1>7, <1>8 DEF IInv
<1>10. Promise!Rest
  <2>1. corrupt = FALSE
    BY DEF IInv, Rested
  <2>2. ~Promise!Whole
    BY Numbers DEF FrameWaits, Promise!Whole
  <2> QED
    BY <1>3, <1>4, <2>1, <2>2 DEF Promise!Rest
<1> QED
  BY <1>9, <1>10 DEF Promise!Next

\* Every step keeps the invariant and is a step of Stream, or nothing to it.
LEMMA StepKeeps ==
  ASSUME IInv, [Next]_vars
  PROVE  IInv' /\ [Promise!Next]_(Promise!vars)
<1>1. CASE UNCHANGED vars
  <2>1. /\ script' = script /\ pipe' = pipe /\ sent' = sent /\ tx' = tx /\ txc' = txc
        /\ open' = open /\ why' = why /\ ends' = ends /\ written' = written
        /\ rx' = rx /\ rxc' = rxc /\ phase' = phase /\ corrupt' = corrupt /\ log' = log
        /\ got' = got /\ slow' = slow
    BY <1>1 DEF vars, sender, receiver
  <2>2. IInv'
    BY <2>1 DEF IInv, Types, Thresholds, Accounts, Streams, Closed, Rested, FrameWaits, Verbatim, Items
  <2>3. UNCHANGED Promise!vars
    BY <2>1 DEF Promise!vars
  <2> QED
    BY <2>2, <2>3
<1>2. CASE Next
  <2>1. ASSUME Next1 PROVE IInv' /\ Promise!Next
    BY <2>1, TakeKeeps, RestKeeps
  <2> QED
    BY <1>2, <2>1, SendKeeps, WritableKeeps, CloseKeeps, CutKeeps, RecvKeeps DEF Next
<1> QED
  BY <1>1, <1>2

-------------------------------------------------------------------------------
(* What holds of every behaviour, for any scripts, any payloads and handlers,  *)
(* any limits, and a zlib that gives back what it was given.                   *)

\* The invariant of the two ends: minecpp_chan_send, minecpp_chan_next and the
\* event loops around them (net.c, net_thread.cpp).
THEOREM ChannelInvariant == Spec => []IInv
<1>1. Init => IInv
  BY InitInv
<1>2. IInv /\ [Next]_vars => IInv'
  BY StepKeeps
<1> QED
  BY <1>1, <1>2, PTL DEF Spec

\* Stream with its proofs, of a channel as Promise is.
Proved == INSTANCE StreamProofs WITH
  taken <- Len(log),
  open  <- Seen,
  phase <- IF corrupt THEN "corrupt" ELSE phase

\* The channel of net.h is what its users rely on: frames come in order and in
\* time, the end of the stream is seen behind the last byte, a close has sent
\* everything, and what minecpp_chan_send writes minecpp_chan_next never calls
\* corrupt, on either side of the switch of compression.
THEOREM ChannelImplementsStream == Spec => ImplementsStream
<1>1. Init => Promise!Init
  BY DEF Init, Promise!Init
<1>2. IInv /\ [Next]_vars => [Promise!Next]_(Promise!vars)
  BY StepKeeps
<1> QED
  BY <1>1, <1>2, ChannelInvariant, PTL DEF Spec, ImplementsStream, Promise!Spec

\* The two ends' variables keep their types, the buffer of each end stays
\* within its cap (a receiver that waits holds less than a frame, and reads no
\* more than fits behind it), and no more packets come out than were sent.
THEOREM TypeCorrect == Spec => []TypeOK
<1>1. IInv => TypeOK
  <2> SUFFICES ASSUME IInv PROVE TypeOK
    OBVIOUS
  <2>1. corrupt \in BOOLEAN
    BY DEF IInv, Rested
  <2>2. Types
    BY DEF IInv
  <2> QED
    BY <2>1, <2>2, Zenon DEF Types, TypeOK
<1> QED
  BY <1>1, ChannelInvariant, PTL

\* It is the same of the two.
LEMMA StreamIsProved == ImplementsStream => Proved!Spec
BY DEF ImplementsStream, Promise!Spec, Promise!Init, Promise!Next, Promise!vars,
  Promise!Send, Promise!Flush, Promise!Lose, Promise!Read, Promise!Take, Promise!Rest,
  Promise!EndOf, Promise!End, Promise!Whole, Seen,
  Proved!Spec, Proved!Init, Proved!Next, Proved!vars,
  Proved!Send, Proved!Flush, Proved!Lose, Proved!Read, Proved!Take, Proved!Rest,
  Proved!EndOf, Proved!End, Proved!Whole

\* A receiver that waits has handed over every frame whose last byte came in
\* (the loops around minecpp_chan_next in net_thread.cpp).
THEOREM NoFrameWaits == Spec => []NoneWaits
<1>1. ImplementsStream => Proved!Spec
  BY StreamIsProved
<1>2. Proved!Spec => []Proved!IInv
  BY Proved!StreamInvariant
<1>3. IInv /\ Proved!IInv => NoneWaits
  <2> SUFFICES ASSUME IInv, Proved!IInv, phase \in {"poll", "gone"}
               PROVE  Len(log) = Cardinality({i \in DOMAIN ends : ends[i] <= got})
    BY DEF NoneWaits
  <2>1. ~Proved!Whole
    BY Numbers DEF IInv, Rested, FrameWaits, Proved!Whole
  <2>2. Len(log) \in Nat /\ {i \in DOMAIN ends : ends[i] <= got} = 1..Len(log)
    BY <2>1, Proved!FirstOnesAre
  <2>3. Cardinality(1..Len(log)) = IF 1 > Len(log) THEN 0 ELSE Len(log) - 1 + 1
    BY <2>2, FS_Interval
  <2>4. Cardinality(1..Len(log)) = Len(log)
    BY <2>2, <2>3
  <2> QED
    BY <2>2, <2>4, Zenon
<1> QED
  BY <1>1, <1>2, <1>3, ChannelInvariant, ChannelImplementsStream, PTL

\* When the receiver of a connection that was closed has gone, it was given
\* every packet of the script (Close in net_q comes last and flushes first).
CloseDelivered ==
  why = "close-msg" /\ open = "no" /\ phase = "gone" => Len(log) = Len(Items)
THEOREM CloseDelivers == Spec => []CloseDelivered
<1>1. ImplementsStream => Proved!Spec
  BY StreamIsProved
<1>2. Proved!Spec => []Proved!AllDelivered
  BY Proved!CloseDelivers
<1>3. IInv /\ Proved!AllDelivered => CloseDelivered
  <2> SUFFICES ASSUME IInv, Proved!AllDelivered, why = "close-msg", open = "no", phase = "gone"
               PROVE  Len(log) = Len(Items)
    BY DEF CloseDelivered
  <2>1. (IF corrupt THEN "corrupt" ELSE phase) = "gone" /\ Seen = "closed"
    BY DEF IInv, Rested, Seen
  <2>2. Len(log) = Len(ends)
    BY <2>1, Zenon DEF Proved!AllDelivered
  <2>3. Len(ends) = Len(Items)
    BY Numbers DEF IInv, Closed
  <2> QED
    BY <2>2, <2>3
<1> QED
  BY <1>1, <1>2, <1>3, ChannelInvariant, ChannelImplementsStream, PTL

\* What the handlers are given is what each packet's frame gives by itself, in
\* the order of sending, however the bytes were cut up and whichever threshold
\* each went under: no byte is lost, doubled or taken for another frame's.
THEOREM VerbatimDelivery == Spec => []Verbatim
<1>1. IInv => Verbatim
  BY DEF IInv
<1> QED
  BY <1>1, ChannelInvariant, PTL

\* So handlers that get the right packet out of each payload by itself get the
\* right packets out of the channel.
CodecRight ==
  \A k \in DOMAIN Scripts : \A i \in 1..Len(Scripts[k].items) :
    Right(Scripts[k].items[i], Given(Scripts[k], i))
THEOREM FaithfulDelivery ==
  ASSUME CodecRight
  PROVE  Spec => []Faithful
<1>1. IInv => Faithful
  <2> SUFFICES ASSUME IInv, NEW i \in DOMAIN log PROVE Right(Items[i], log[i])
    BY DEF Faithful
  <2>1. i \in 1..Len(log) /\ i \in 1..Len(script.items)
    <3>1. log \in Seq(Answers(script))
      BY Zenon DEF IInv, Types
    <3>2. Len(log) \in Nat /\ Len(log) <= Len(script.items) /\ Len(script.items) \in Nat
      <4>1. /\ Len(log) \in Nat /\ sent \in Nat /\ Len(script.items) \in Nat
            /\ Len(log) <= sent /\ sent <= Len(script.items)
        BY Numbers, Zenon DEF Items
      <4> QED
        BY <4>1
    <3> QED
      BY <3>1, <3>2
  <2>2. log[i] = Given(script, i)
    BY <2>1 DEF IInv, Verbatim
  <2>3. PICK k \in DOMAIN Scripts : script = Scripts[k]
    BY DEF IInv, Types
  <2> QED
    BY <2>1, <2>2, <2>3, Zenon DEF CodecRight, Items
<1> QED
  BY <1>1, ChannelInvariant, PTL
================================================================================
