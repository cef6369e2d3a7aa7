--------------------------- MODULE InventoryProofs ----------------------------
(* Proofs about Inventory: for any number of slots, kinds of items and stacks  *)
(* on the ground, and any sizes of stacks, the client has been told what the   *)
(* server holds, a drag has items to hand out, and no operation on sane        *)
(* contents creates or loses an item.                                          *)
EXTENDS Inventory, WellFoundedInduction, TLAPS

-------------------------------------------------------------------------------
(* Induction, over a set of numbers.                                           *)

\* A set of numbers that has 0 and goes on to n from n - 1 has all up to N.
LEMMA Stepwise ==
  ASSUME NEW N \in Nat, NEW T, 0 \in T,
         \A n \in 1..N : n - 1 \in T => n \in T
  PROVE  0..N \subseteq T
<1> DEFINE Left == {n \in 0..N : n \notin T}
<1> DEFINE Earlier == OpToRel(<, Nat)
<1>1. SUFFICES Left = {}
  OBVIOUS
<1>2. SUFFICES ASSUME Left # {} PROVE FALSE
  OBVIOUS
<1>3. Left \subseteq Nat
  BY SMT
<1>4. IsWellFoundedOn(Earlier, Nat)
  BY NatLessThanWellFounded
<1>5. PICK n \in Left : \A m \in Left : ~(<<m, n>> \in Earlier)
  BY <1>2, <1>3, <1>4, WFMin, Zenon
<1>6. n # 0 /\ n \in Nat /\ n \in 1..N
  OBVIOUS
<1>7. <<n - 1, n>> \in Earlier
  BY <1>6 DEF OpToRel
<1>8. n - 1 \notin Left
  BY <1>5, <1>7, Zenon
<1>9. n - 1 \in T
  BY <1>6, <1>8
<1> QED
  BY <1>5, <1>6, <1>9

\* A recursion over 0..N that starts with x and goes on with F[i] defines a
\* function.
Iterates(h, N, x, F) == h = [i \in 0..N |-> IF i = 0 THEN x ELSE F[i][h[i - 1]]]

\* A function that goes on from x by F, step by step, exists.
LEMMA Recursion ==
  ASSUME NEW N \in Nat, NEW x, NEW F
  PROVE  \E h : Iterates(h, N, x, F)
<1> DEFINE Upto(n) == \E h : h = [i \in 0..n |-> IF i = 0 THEN x ELSE F[i][h[i - 1]]]
<1> DEFINE T == {n \in 0..N : Upto(n)}
<1>1. 0 \in T
  <2> DEFINE h == [i \in 0..0 |-> x]
  <2>1. h = [i \in 0..0 |-> IF i = 0 THEN x ELSE F[i][h[i - 1]]]
    OBVIOUS
  <2>2. Upto(0)
    BY <2>1, Zenon
  <2> QED
    BY <2>2
<1>2. ASSUME NEW n \in 1..N, n - 1 \in T PROVE n \in T
  <2>1. PICK h : h = [i \in 0..n - 1 |-> IF i = 0 THEN x ELSE F[i][h[i - 1]]]
    BY <1>2, Zenon
  <2> DEFINE g == [i \in 0..n |-> IF i = n THEN F[n][h[n - 1]] ELSE h[i]]
  <2>2. \A i \in 0..n : g[i] = IF i = 0 THEN x ELSE F[i][g[i - 1]]
    <3> TAKE i \in 0..n
    <3> HIDE DEF g
    <3>1. CASE i = 0
      <4>1. g[i] = h[i]
        BY <3>1 DEF g
      <4>2. h[0] = x
        BY <2>1
      <4> QED
        BY <4>1, <4>2, <3>1
    <3>2. CASE i \in 1..n - 1
      <4>1. g[i] = h[i] /\ g[i - 1] = h[i - 1]
        BY <3>2 DEF g
      <4>2. h[i] = F[i][h[i - 1]]
        BY <2>1, <3>2
      <4> QED
        BY <4>1, <4>2, <3>2
    <3>3. CASE i = n
      <4>1. g[n] = F[n][h[n - 1]] /\ g[n - 1] = h[n - 1]
        BY DEF g
      <4> QED
        BY <4>1, <3>3
    <3> QED
      BY <3>1, <3>2, <3>3
  <2>3. g = [i \in 0..n |-> IF i = 0 THEN x ELSE F[i][g[i - 1]]]
    BY <2>2, Zenon
  <2>4. Upto(n)
    BY <2>3, Zenon
  <2> QED
    BY <2>4
<1>3. N \in T
  <2> HIDE DEF T
  <2>1. 0..N \subseteq T
    BY <1>1, <1>2, Stepwise
  <2> QED
    BY <2>1
<1> QED
  BY <1>3 DEF Iterates

-------------------------------------------------------------------------------
(* Loops and sums.                                                             *)

\* What every step of a loop hands on to the next holds at its end.
LEMMA Sweeping ==
  ASSUME NEW f, NEW x, NEW slots, NEW N \in Nat, N = Len(slots), NEW I,
         x \in I[0],
         \A n \in 1..N : \A y \in I[n - 1] : f[slots[n]][y] \in I[n]
  PROVE  Sweep(f, x, slots) \in I[N]
<1> DEFINE After(h) == h = [i \in 0..N |-> IF i = 0 THEN x ELSE f[slots[i]][h[i - 1]]]
<1> DEFINE F == [i \in 1..N |-> f[slots[i]]]
<1> DEFINE after == CHOOSE h : After(h)
<1>1. \E h : After(h)
  <2> HIDE DEF F
  <2>1. PICK h : Iterates(h, N, x, F)
    BY Recursion
  <2>2. \A i \in 0..N : h[i] = IF i = 0 THEN x ELSE f[slots[i]][h[i - 1]]
    <3> TAKE i \in 0..N
    <3>1. i # 0 => F[i] = f[slots[i]]
      BY DEF F
    <3>2. h[i] = IF i = 0 THEN x ELSE F[i][h[i - 1]]
      BY <2>1 DEF Iterates
    <3> QED
      BY <3>1, <3>2
  <2>3. h = [i \in 0..N |-> h[i]]
    BY <2>1 DEF Iterates
  <2>4. After(h)
    BY <2>2, <2>3
  <2> QED
    BY <2>4, Zenon
<1>2. After(after)
  BY <1>1, Zenon
<1>3. Sweep(f, x, slots) = after[N]
  BY Zenon DEF Sweep
<1> DEFINE T == {n \in 0..N : after[n] \in I[n]}
<1> HIDE DEF after
<1>4. 0 \in T
  <2>1. after[0] = x
    BY <1>2
  <2> QED
    BY <2>1
<1>5. ASSUME NEW n \in 1..N, n - 1 \in T PROVE n \in T
  <2>1. after[n] = f[slots[n]][after[n - 1]]
    BY <1>2
  <2> QED
    BY <2>1, <1>5
<1>6. N \in T
  <2> HIDE DEF T
  <2>1. 0..N \subseteq T
    BY <1>4, <1>5, Stepwise
  <2> QED
    BY <2>1
<1> QED
  BY <1>3, <1>6

\* The sums up to each place, and the last of them.
LEMMA Sums ==
  ASSUME NEW n \in Nat, NEW f \in [1..n -> Int]
  PROVE  \E upto \in [0..n -> Int] :
           /\ upto[0] = 0 /\ \A i \in 1..n : upto[i] = upto[i - 1] + f[i]
           /\ Sum(f, n) = upto[n]
<1> DEFINE Upto(h) == h = [i \in 0..n |-> IF i = 0 THEN 0 ELSE h[i - 1] + f[i]]
<1> DEFINE F == [i \in 1..n |-> [s \in Int |-> s + f[i]]]
<1> HIDE DEF F
<1>1. PICK h : Iterates(h, n, 0, F)
  BY Recursion
<1>2. h[0] = 0 /\ \A i \in 1..n : h[i] = F[i][h[i - 1]]
  BY <1>1 DEF Iterates
<1>3. \A i \in 1..n : h[i - 1] \in Int => h[i] = h[i - 1] + f[i]
  BY <1>2 DEF F
<1> DEFINE T == {i \in 0..n : h[i] \in Int}
<1>4. 0..n \subseteq T
  <2>1. 0 \in T
    BY <1>2
  <2>2. ASSUME NEW i \in 1..n, i - 1 \in T PROVE i \in T
    BY <1>3, <2>2
  <2> HIDE DEF T
  <2> QED
    BY <2>1, <2>2, Stepwise
<1>5. h \in [0..n -> Int] /\ \A i \in 1..n : h[i] = h[i - 1] + f[i]
  <2>1. \A i \in 0..n : h[i] \in Int
    BY <1>4
  <2>2. h = [i \in 0..n |-> h[i]]
    BY <1>1 DEF Iterates
  <2>3. h \in [0..n -> Int]
    BY <2>1, <2>2
  <2>4. \A i \in 1..n : i - 1 \in 0..n
    OBVIOUS
  <2> QED
    BY <1>3, <2>1, <2>3, <2>4
<1>6. Upto(h)
  <2>1. \A i \in 0..n : h[i] = IF i = 0 THEN 0 ELSE h[i - 1] + f[i]
    BY <1>2, <1>5
  <2>2. h = [i \in 0..n |-> h[i]]
    BY <1>1 DEF Iterates
  <2> QED
    BY <2>1, <2>2
<1> DEFINE upto == CHOOSE g : Upto(g)
<1>7. Upto(upto)
  BY <1>6, Zenon
<1>8. Sum(f, n) = upto[n]
  BY Zenon DEF Sum
<1> HIDE DEF upto
<1>9. upto[0] = 0 /\ \A i \in 1..n : upto[i] = upto[i - 1] + f[i]
  BY <1>7
<1> DEFINE U == {i \in 0..n : upto[i] \in Int}
<1>10. 0..n \subseteq U
  <2>1. 0 \in U
    BY <1>9
  <2>2. ASSUME NEW i \in 1..n, i - 1 \in U PROVE i \in U
    BY <1>9, <2>2
  <2> HIDE DEF U
  <2> QED
    BY <2>1, <2>2, Stepwise
<1>11. upto \in [0..n -> Int]
  <2>1. \A i \in 0..n : upto[i] \in Int
    BY <1>10
  <2>2. upto = [i \in 0..n |-> upto[i]]
    BY <1>7
  <2> QED
    BY <2>1, <2>2
<1> QED
  BY <1>8, <1>9, <1>11

\* A sum is a number, and a change at one place changes it by as much.
LEMMA SumChange ==
  ASSUME NEW n \in Nat, NEW f \in [1..n -> Int], NEW g \in [1..n -> Int], NEW j \in 1..n,
         \A i \in 1..n \ {j} : f[i] = g[i]
  PROVE  /\ Sum(f, n) \in Int
         /\ Sum(g, n) = Sum(f, n) + g[j] - f[j]
<1>1. PICK u \in [0..n -> Int] :
        /\ u[0] = 0 /\ \A i \in 1..n : u[i] = u[i - 1] + f[i]
        /\ Sum(f, n) = u[n]
  BY Sums
<1>2. PICK w \in [0..n -> Int] :
        /\ w[0] = 0 /\ \A i \in 1..n : w[i] = w[i - 1] + g[i]
        /\ Sum(g, n) = w[n]
  BY Sums
<1> DEFINE T == {i \in 0..n : w[i] = u[i] + (IF i < j THEN 0 ELSE g[j] - f[j])}
<1>3. 0 \in T
  BY <1>1, <1>2
<1>4. ASSUME NEW i \in 1..n, i - 1 \in T PROVE i \in T
  <2>1. w[i - 1] = u[i - 1] + (IF i - 1 < j THEN 0 ELSE g[j] - f[j])
    BY <1>4
  <2>2. u[i] = u[i - 1] + f[i] /\ w[i] = w[i - 1] + g[i]
    BY <1>1, <1>2
  <2>3. u[i - 1] \in Int /\ w[i - 1] \in Int /\ u[i] \in Int /\ w[i] \in Int
    BY <1>1, <1>2
  <2>4. i # j => f[i] = g[i]
    OBVIOUS
  <2>5. w[i] = u[i] + (IF i < j THEN 0 ELSE g[j] - f[j])
    <3>1. f[i] \in Int /\ g[i] \in Int /\ f[j] \in Int /\ g[j] \in Int
      OBVIOUS
    <3>2. CASE i < j
      <4>1. f[i] = g[i] /\ w[i - 1] = u[i - 1]
        BY <2>1, <2>4, <3>2
      <4> QED
        BY <4>1, <2>2, <2>3, <3>2
    <3>3. CASE i = j
      <4>1. w[i - 1] = u[i - 1]
        BY <2>1, <2>3, <3>3
      <4> QED
        BY <4>1, <2>2, <2>3, <3>1, <3>3
    <3>4. CASE i > j
      <4>1. f[i] = g[i] /\ w[i - 1] = u[i - 1] + (g[j] - f[j])
        BY <2>1, <2>4, <3>4
      <4>3. w[i] = w[i - 1] + f[i]
        BY <4>1, <2>2
      <4>4. w[i] = u[i] + (g[j] - f[j])
        <5>1. w[i] = (u[i - 1] + (g[j] - f[j])) + f[i]
          BY <4>1, <4>3
        <5> DEFINE d == g[j] - f[j]
        <5>2. d \in Int
          BY <3>1
        <5>3. w[i] = (u[i - 1] + d) + f[i]
          BY <5>1
        <5> HIDE DEF d
        <5>4. w[i] = u[i] + d
          BY <5>2, <5>3, <2>2, <2>3, <3>1
        <5> QED
          BY <5>4 DEF d
      <4> QED
        BY <4>4, <3>4
    <3> QED
      BY <3>2, <3>3, <3>4
  <2> QED
    BY <2>5
<1>5. 0..n \subseteq T
  <2> HIDE DEF T
  <2> QED
    BY <1>3, <1>4, Stepwise
<1>6. w[n] = u[n] + g[j] - f[j]
  <2>1. n \in T /\ ~(n < j)
    BY <1>5
  <2>2. u[n] \in Int /\ w[n] \in Int /\ g[j] \in Int /\ f[j] \in Int
    BY <1>1, <1>2
  <2> QED
    BY <2>1, <2>2
<1> QED
  BY <1>1, <1>2, <1>6

-------------------------------------------------------------------------------
(* Places and stacks.                                                          *)

\* The slots of the inventory, from slot 0 to the last of the hotbar.
LEMMA Layout ==
  /\ Top \in Nat /\ Top >= 1 /\ Cursor \notin Slots
  /\ Main \in Seq(Slots \ {0}) /\ Hotbar \in Seq(Slots \ {0}) /\ Carried \in Seq(Slots \ {0})
  /\ Len(Main) \in Nat /\ Len(Hotbar) \in Nat \ {0}
  /\ \A i \in 1..Len(Main) : Main[i] < Hotbar[1]
  /\ \A i \in 1..Len(Hotbar) : Hotbar[1] <= Hotbar[i]
<1>1. /\ Main \in Seq(Nat \ {0}) /\ Hotbar \in Seq(Nat \ {0}) /\ Hotbar # <<>>
      /\ \A i, j \in 1..Len(Carried) : i < j => Carried[i] < Carried[j]
  BY InventoryConstants
<1>2. Len(Main) \in Nat /\ Len(Hotbar) \in Nat \ {0}
  BY <1>1
<1> DEFINE m == Len(Main)
<1> DEFINE h == Len(Hotbar)
<1>3. Len(Carried) = m + h
  BY <1>1 DEF Carried
<1>4. /\ \A i \in 1..m : Carried[i] = Main[i] /\ Main[i] \in Nat \ {0}
      /\ \A i \in 1..h : Carried[m + i] = Hotbar[i] /\ Hotbar[i] \in Nat \ {0}
  BY <1>1 DEF Carried
<1>5. /\ \A i \in 1..m : i \in 1..Len(Carried)
      /\ \A i \in 1..h : m + i \in 1..Len(Carried)
  BY <1>2, <1>3
<1>6. Top = Hotbar[h] /\ Top \in Nat /\ Top >= 1
  BY <1>2, <1>4 DEF Top
<1>7. ASSUME NEW i \in 1..m PROVE Main[i] < Hotbar[1] /\ Main[i] <= Top
  <2>1. i < m + 1 /\ i < m + h /\ 1 \in 1..h /\ h \in 1..h
    BY <1>2
  <2>2. Carried[i] < Carried[m + 1] /\ Carried[i] < Carried[m + h]
    BY <1>1, <1>5, <2>1
  <2>3. Carried[m + 1] = Hotbar[1] /\ Carried[m + h] = Hotbar[h] /\ Carried[i] = Main[i]
    BY <1>4, <2>1
  <2> QED
    BY <2>2, <2>3, <1>4, <1>6
<1>8. ASSUME NEW i \in 1..h PROVE Hotbar[1] <= Hotbar[i] /\ Hotbar[i] <= Top
  <2>1. /\ (i # 1 => m + 1 < m + i) /\ (i # h => m + i < m + h)
        /\ 1 \in 1..h /\ h \in 1..h
    BY <1>2
  <2>2. /\ i # 1 => Carried[m + 1] < Carried[m + i]
        /\ i # h => Carried[m + i] < Carried[m + h]
    BY <1>1, <1>5, <2>1
  <2>3. /\ Carried[m + 1] = Hotbar[1] /\ Carried[m + h] = Hotbar[h]
        /\ Carried[m + i] = Hotbar[i] /\ Hotbar[i] \in Nat /\ Hotbar[1] \in Nat
    BY <1>4, <2>1
  <2> QED
    BY <2>2, <2>3, <1>6
<1>9. Main \in Seq(Slots \ {0}) /\ Hotbar \in Seq(Slots \ {0})
  <2>1. /\ \A i \in 1..m : Main[i] \in Slots \ {0}
        /\ \A i \in 1..h : Hotbar[i] \in Slots \ {0}
    BY <1>4, <1>6, <1>7, <1>8 DEF Slots
  <2>2. \A S, t : t \in Seq(Nat \ {0}) /\ (\A i \in 1..Len(t) : t[i] \in S) => t \in Seq(S)
    <3> SUFFICES ASSUME NEW S, NEW t \in Seq(Nat \ {0}), \A i \in 1..Len(t) : t[i] \in S
                 PROVE  t \in Seq(S)
      OBVIOUS
    <3>1. Len(t) \in Nat /\ t \in [1..Len(t) -> S]
      OBVIOUS
    <3> QED
      BY <3>1
  <2> QED
    BY <1>1, <2>1, <2>2
<1>10. Carried \in Seq(Slots \ {0})
  BY <1>9 DEF Carried
<1> QED
  BY <1>2, <1>6, <1>7, <1>8, <1>9, <1>10 DEF Slots, Cursor

\* A count is a byte.
LEMMA StackIs ==
  ASSUME NEW k, NEW n \in Int
  PROVE  /\ Stack(k, n).kind = k /\ Stack(k, n).count \in 0..BYTE - 1
         /\ n \in 0..BYTE - 1 => Stack(k, n).count = n
         /\ k \in Kinds => Stack(k, n) \in Stacks /\ Stack(k, n) # Nothing
         /\ Stack(None, 0) = Nothing
<1>1. BYTE \in Nat /\ BYTE > 0 /\ None \notin Kinds
  BY InventoryConstants
<1>2. n % BYTE \in 0..BYTE - 1 /\ (n \in 0..BYTE - 1 => n % BYTE = n) /\ 0 % BYTE = 0
  BY <1>1
<1> QED
  BY <1>1, <1>2 DEF Stack, Stacks, Nothing

\* What a place can hold.
LEMMA PlaceHolds ==
  ASSUME NEW b \in Boxes, NEW q \in Places
  PROVE  /\ b[q] \in Stacks /\ b[q].count \in 0..BYTE - 1 /\ b[q].count \in Int
         /\ Free(b, q) => b[q] = Nothing /\ b[q].count = 0
         /\ ~Free(b, q) => b[q].kind \in Kinds
BY InventoryConstants DEF Boxes, Stacks, Nothing, Free

\* c is an inventory that differs from b in the places of D alone.
Within(b, c, D) == c \in Boxes /\ \A q \in Places \ D : c[q] = b[q]

-------------------------------------------------------------------------------
(* Counting items.                                                             *)

\* The items of one kind in a stack are a number.
LEMMA Counts ==
  ASSUME NEW s \in Stacks, NEW k
  PROVE  Of(s, k) \in Int
BY InventoryConstants DEF Stacks, Nothing, Of

\* A change of one place changes the items held by as much.
LEMMA HeldChange ==
  ASSUME NEW b \in Boxes, NEW c, NEW q \in Places, NEW k, Within(b, c, {q})
  PROVE  /\ Held(b, k) \in Int
         /\ Held(c, k) = Held(b, k) + Of(c[q], k) - Of(b[q], k)
<1> DEFINE n == Top + 2
<1> DEFINE f == [i \in 1..n |-> Of(b[i - 2], k)]
<1> DEFINE g == [i \in 1..n |-> Of(c[i - 2], k)]
<1>1. n \in Nat /\ q + 2 \in 1..n /\ q \in Int
  BY Layout DEF Places, Slots, Cursor
<1>2. \A i \in 1..n : i - 2 \in Places /\ (i # q + 2 => i - 2 # q)
  BY <1>1, Layout DEF Places, Slots, Cursor
<1>3. f \in [1..n -> Int] /\ g \in [1..n -> Int]
  <2>1. \A p \in Places : b[p] \in Stacks /\ c[p] \in Stacks
    BY DEF Boxes, Within
  <2>2. \A i \in 1..n : Of(b[i - 2], k) \in Int /\ Of(c[i - 2], k) \in Int
    BY <1>2, <2>1, Counts
  <2> QED
    BY <2>2
<1>4. \A i \in 1..n \ {q + 2} : f[i] = g[i]
  BY <1>2 DEF Within
<1>5. f[q + 2] = Of(b[q], k) /\ g[q + 2] = Of(c[q], k)
  <2>1. (q + 2) - 2 = q
    BY <1>1
  <2> QED
    BY <1>1, <2>1
<1>6. /\ Sum(f, n) \in Int /\ Sum(g, n) = Sum(f, n) + g[q + 2] - f[q + 2]
  <2> HIDE DEF f, g, n
  <2> QED
    BY <1>1, <1>3, <1>4, SumChange
<1>7. Held(b, k) = Sum(f, n) /\ Held(c, k) = Sum(g, n)
  BY Zenon DEF Held
<1> QED
  BY <1>5, <1>6, <1>7

\* A change of one pile changes the items on the ground by as much.
LEMMA LyingChange ==
  ASSUME NEW g, NEW e \in 1..Ground, NEW s \in Stacks, NEW k,
         g \in [1..Ground -> Stacks]
  PROVE  /\ Lying(g, k) \in Int
         /\ Lying([g EXCEPT ![e] = s], k) = Lying(g, k) + Of(s, k) - Of(g[e], k)
<1> DEFINE c == [g EXCEPT ![e] = s]
<1> DEFINE f == [i \in 1..Ground |-> Of(g[i], k)]
<1> DEFINE w == [i \in 1..Ground |-> Of(c[i], k)]
<1>1. Ground \in Nat
  BY InventoryConstants
<1>2. f \in [1..Ground -> Int] /\ w \in [1..Ground -> Int]
  <2>1. \A i \in 1..Ground : g[i] \in Stacks /\ c[i] \in Stacks
    OBVIOUS
  <2>2. \A i \in 1..Ground : Of(g[i], k) \in Int /\ Of(c[i], k) \in Int
    BY <2>1, Counts
  <2> QED
    BY <2>2
<1>3. \A i \in 1..Ground \ {e} : f[i] = w[i]
  OBVIOUS
<1>4. f[e] = Of(g[e], k) /\ w[e] = Of(s, k)
  OBVIOUS
<1>5. /\ Sum(f, Ground) \in Int /\ Sum(w, Ground) = Sum(f, Ground) + w[e] - f[e]
  <2> HIDE DEF f, w
  <2> QED
    BY <1>1, <1>2, <1>3, SumChange
<1>6. Lying(g, k) = Sum(f, Ground) /\ Lying(c, k) = Sum(w, Ground)
  BY Zenon DEF Lying
<1> QED
  BY <1>4, <1>5, <1>6

-------------------------------------------------------------------------------
(* What the elementary operations do to the places and to the items held.      *)

\* Neither creates nor loses an item.
Keeps(b, c) == \A k \in Kinds : Held(c, k) = Held(b, k)

\* The items of one kind in an inventory are a number.
LEMMA HeldInt ==
  ASSUME NEW b \in Boxes, NEW k
  PROVE  Held(b, k) \in Int
<1>1. Cursor \in Places /\ Within(b, b, {Cursor})
  BY DEF Places, Within
<1> QED
  BY <1>1, HeldChange

\* A place that is free or has a stack of the kind, and gets n more.
Takes(b, q, kind) == Free(b, q) \/ b[q].kind = kind
Gets(b, c, q, kind, n) == c = [b EXCEPT ![q] = Stack(kind, b[q].count + n)]

Got(b, c, q, kind, n) ==
  /\ Within(b, c, {q}) /\ c[q] = Stack(kind, b[q].count + n)
  /\ c[q].kind = kind /\ ~Free(c, q)
  /\ b[q].count + n \in 0..BYTE - 1 =>
       /\ c[q].count = b[q].count + n
       /\ \A k \in Kinds : Held(c, k) = Held(b, k) + (IF kind = k THEN n ELSE 0)

\* n items of its kind put into a place: what it holds and what all hold.
LEMMA Stacking ==
  ASSUME NEW b \in Boxes, NEW q \in Places, NEW kind \in Kinds, NEW n \in Int, NEW c,
         Takes(b, q, kind), Gets(b, c, q, kind, n)
  PROVE  Got(b, c, q, kind, n)
<1> DEFINE s == Stack(kind, b[q].count + n)
<1>1. b[q].count \in Int /\ (Free(b, q) => b[q].count = 0)
  BY PlaceHolds
<1>2. /\ s.kind = kind /\ s \in Stacks
      /\ b[q].count + n \in 0..BYTE - 1 => s.count = b[q].count + n
  BY <1>1, StackIs
<1> HIDE DEF s
<1>3. c = [b EXCEPT ![q] = s]
  BY DEF s, Gets
<1>4. Within(b, c, {q}) /\ c[q] = s
  BY <1>2, <1>3 DEF Within, Boxes
<1>5. ~Free(c, q)
  BY <1>2, <1>4, InventoryConstants DEF Free
<1>6. ASSUME b[q].count + n \in 0..BYTE - 1, NEW k \in Kinds
      PROVE  Held(c, k) = Held(b, k) + (IF kind = k THEN n ELSE 0)
  <2>1. Within(b, c, {q})
    BY <1>4
  <2>2. Held(c, k) = Held(b, k) + Of(c[q], k) - Of(b[q], k)
    BY <2>1, HeldChange
  <2>3. /\ Of(c[q], k) = IF kind = k THEN b[q].count + n ELSE 0
        /\ Of(b[q], k) = IF kind = k THEN b[q].count ELSE 0
    <3>1. b[q].kind # kind => b[q].count = 0 /\ b[q].kind = None
      BY <1>1 DEF Free, Takes
    <3>2. c[q].kind = kind /\ c[q].count = b[q].count + n
      BY <1>2, <1>4, <1>6
    <3> QED
      BY <3>1, <3>2, InventoryConstants DEF Of
  <2>4. Held(b, k) \in Int
    BY HeldInt
  <2> QED
    BY <2>2, <2>3, <2>4, <1>1
<1> QED
  BY <1>2, <1>4, <1>5, <1>6 DEF s, Got

\* The same for Add, which leaves the kind as it is.
LEMMA Adding ==
  ASSUME NEW b \in Boxes, NEW q \in Places, NEW n \in Int, ~Free(b, q)
  PROVE  Got(b, Add(b, q, n), q, b[q].kind, n)
<1>1. PICK kind : kind = b[q].kind
  OBVIOUS
<1>2. kind \in Kinds /\ Takes(b, q, kind)
  BY <1>1, PlaceHolds DEF Takes
<1>3. Add(b, q, n) = [b EXCEPT ![q] = Stack(kind, b[q].count + n)]
  BY <1>1 DEF Add, Boxes
<1>4. PICK c : c = Add(b, q, n)
  OBVIOUS
<1>7. Gets(b, c, q, kind, n)
  BY <1>3, <1>4 DEF Gets
<1>5. Got(b, c, q, kind, n)
  BY <1>2, <1>7, Stacking
<1> QED
  BY <1>1, <1>4, <1>5, Zenon

\* Clearing a stack that is used up moves no item.
LEMMA Tidying ==
  ASSUME NEW b \in Boxes, NEW q \in Places
  PROVE  /\ Within(b, Tidy(b, q), {q}) /\ Keeps(b, Tidy(b, q))
         /\ Tidy(b, q)[q].count = b[q].count
         /\ \/ Tidy(b, q)[q] = b[q]
            \/ b[q].count = 0 /\ Tidy(b, q)[q] = Nothing
<1>1. CASE b[q].count = 0
  <2>1. Tidy(b, q) = [b EXCEPT ![q] = Nothing] /\ Nothing \in Stacks /\ Nothing.count = 0
    BY <1>1 DEF Tidy, Stacks, Nothing
  <2>2. Within(b, Tidy(b, q), {q}) /\ Tidy(b, q)[q] = Nothing
    BY <2>1 DEF Within, Boxes
  <2>3. ASSUME NEW k \in Kinds PROVE Held(Tidy(b, q), k) = Held(b, k)
    <3>1. Of(Nothing, k) = 0 /\ Of(b[q], k) = 0
      BY <1>1 DEF Of, Nothing
    <3>2. /\ Held(Tidy(b, q), k) = Held(b, k) + Of(Tidy(b, q)[q], k) - Of(b[q], k)
          /\ Held(b, k) \in Int
      BY <2>2, HeldChange
    <3> QED
      BY <2>2, <3>1, <3>2
  <2> QED
    BY <1>1, <2>1, <2>2, <2>3 DEF Keeps
<1>2. CASE b[q].count # 0
  <2>1. Tidy(b, q) = b
    BY <1>2 DEF Tidy
  <2>2. Within(b, b, {q}) /\ Keeps(b, b)
    BY DEF Within, Keeps
  <2> QED
    BY <2>1, <2>2, Zenon
<1> QED
  BY <1>1, <1>2

\* Nor does the exchange of two places.
LEMMA Swapping ==
  ASSUME NEW b \in Boxes, NEW p \in Places, NEW q \in Places
  PROVE  /\ Within(b, Swap(b, p, q), {p, q}) /\ Keeps(b, Swap(b, p, q))
         /\ Swap(b, p, q)[p] = b[q] /\ Swap(b, p, q)[q] = b[p]
<1> DEFINE d == [b EXCEPT ![p] = b[q]]
<1>0. PICK c : c = d
  OBVIOUS
<1>1. b[p] \in Stacks /\ b[q] \in Stacks
  BY PlaceHolds
<1>2. Within(b, c, {p}) /\ c \in Boxes
  BY <1>0, <1>1 DEF Within, Boxes
<1>7. c[p] = b[q] /\ c[q] = b[q]
  BY <1>0, <1>1 DEF Boxes
<1>3. Swap(b, p, q) = [c EXCEPT ![q] = b[p]]
  BY <1>0 DEF Swap, Boxes
<1>4. /\ Within(c, Swap(b, p, q), {q}) /\ Swap(b, p, q)[q] = b[p]
  BY <1>1, <1>2, <1>3, <1>7 DEF Within, Boxes
<1>5. ASSUME NEW k PROVE Held(Swap(b, p, q), k) = Held(b, k)
  <2>0. Within(b, c, {p})
    BY <1>2
  <2>1. Held(c, k) = Held(b, k) + Of(c[p], k) - Of(b[p], k)
    BY <2>0, HeldChange
  <2>2. Held(Swap(b, p, q), k) = Held(c, k) + Of(b[p], k) - Of(b[q], k) /\ Held(c, k) \in Int
    <3>1. c \in Boxes /\ Within(c, Swap(b, p, q), {q})
      BY <1>2, <1>4
    <3>2. Held(Swap(b, p, q), k) = Held(c, k) + Of(Swap(b, p, q)[q], k) - Of(c[q], k)
      BY <3>1, HeldChange
    <3> QED
      BY <1>2, <1>4, <1>7, <3>2, HeldInt
  <2>3. Of(b[p], k) \in Int /\ Of(b[q], k) \in Int
    BY <1>1, Counts
  <2> QED
    BY <1>7, <2>1, <2>2, <2>3, HeldInt
<1>6. Swap(b, p, q)[p] = b[q]
  BY <1>1, <1>4, <1>7 DEF Within
<1> QED
  BY <1>2, <1>4, <1>5, <1>6, <1>7 DEF Within, Keeps

\* What is poured neither overflows a stack nor takes more than there is.
LEMMA Pouring ==
  ASSUME NEW b \in Boxes, NEW p \in Places, NEW q \in Places, p # q,
         ~Free(b, p), ~Free(b, q)
  PROVE  /\ Within(b, Pour(b, p, q), {p, q})
         /\ Pour(b, p, q)[p].kind = b[p].kind /\ Pour(b, p, q)[q].kind = b[q].kind
         /\ b[p].kind = b[q].kind /\ b[q].count <= MAX =>
              /\ Keeps(b, Pour(b, p, q))
              /\ Pour(b, p, q)[q].count <= MAX /\ Pour(b, p, q)[p].count <= b[p].count
<1>10. PICK n : n = Smaller(MAX - b[q].count, b[p].count)
  OBVIOUS
<1>11. PICK c : c = Add(b, q, n)
  OBVIOUS
<1>12. PICK m : m = -n
  OBVIOUS
<1>1. /\ MAX \in Nat /\ BYTE \in Nat /\ MAX < BYTE
      /\ b[q].count \in 0..BYTE - 1 /\ b[p].count \in 0..BYTE - 1
  BY InventoryConstants, PlaceHolds
<1>2. /\ n \in Int /\ n <= b[p].count /\ n <= MAX - b[q].count
      /\ b[q].count <= MAX => n >= 0
  BY <1>1, <1>10 DEF Smaller
<1>3. /\ Within(b, c, {q}) /\ c[q].kind = b[q].kind
      /\ b[q].count + n \in 0..BYTE - 1 =>
           /\ c[q].count = b[q].count + n
           /\ \A k \in Kinds : Held(c, k) = Held(b, k) + (IF b[q].kind = k THEN n ELSE 0)
  BY <1>2, <1>11, Adding DEF Got
<1>4. Pour(b, p, q) = Add(c, p, m)
  BY <1>10, <1>11, <1>12 DEF Pour
<1>5. m \in Int /\ m = -n
  BY <1>2, <1>12
<1>9. c \in Boxes /\ c[p] = b[p] /\ ~Free(c, p)
  BY <1>3 DEF Within, Free
<1>6. /\ Within(c, Pour(b, p, q), {p}) /\ Pour(b, p, q)[p].kind = b[p].kind
      /\ b[p].count + m \in 0..BYTE - 1 =>
           /\ Pour(b, p, q)[p].count = b[p].count + m
           /\ \A k \in Kinds :
                Held(Pour(b, p, q), k) = Held(c, k) + (IF b[p].kind = k THEN m ELSE 0)
  <2>1. c \in Boxes /\ ~Free(c, p) /\ m \in Int
    BY <1>5, <1>9
  <2>2. /\ Within(c, Add(c, p, m), {p}) /\ Add(c, p, m)[p].kind = c[p].kind
        /\ c[p].count + m \in 0..BYTE - 1 =>
             /\ Add(c, p, m)[p].count = c[p].count + m
             /\ \A k \in Kinds :
                  Held(Add(c, p, m), k) = Held(c, k) + (IF c[p].kind = k THEN m ELSE 0)
    <3>1. Got(c, Add(c, p, m), p, c[p].kind, m)
      BY <2>1, Adding
    <3> QED
      BY <3>1 DEF Got
  <2>3. c[p] = b[p]
    BY <1>9
  <2> QED
    BY <1>4, <2>2, <2>3, Zenon
<1>7. Within(b, Pour(b, p, q), {p, q}) /\ Pour(b, p, q)[q] = c[q]
  BY <1>3, <1>6 DEF Within
<1>8. ASSUME b[p].kind = b[q].kind, b[q].count <= MAX
      PROVE  /\ Keeps(b, Pour(b, p, q))
             /\ Pour(b, p, q)[q].count <= MAX /\ Pour(b, p, q)[p].count <= b[p].count
  <2>1. b[q].count + n \in 0..BYTE - 1 /\ b[p].count + m \in 0..BYTE - 1
    BY <1>1, <1>2, <1>5, <1>8
  <2>2. c[q].count <= MAX /\ Pour(b, p, q)[p].count <= b[p].count
    BY <1>1, <1>2, <1>3, <1>5, <1>6, <1>8, <2>1
  <2>3. ASSUME NEW k \in Kinds PROVE Held(Pour(b, p, q), k) = Held(b, k)
    <3>1. Held(b, k) \in Int
      BY HeldInt
    <3>2. Held(c, k) = Held(b, k) + (IF b[q].kind = k THEN n ELSE 0)
      BY <1>3, <2>1
    <3>3. Held(Pour(b, p, q), k) = Held(c, k) + (IF b[p].kind = k THEN m ELSE 0)
      BY <1>6, <2>1
    <3> QED
      BY <3>1, <3>2, <3>3, <1>2, <1>5, <1>8
  <2> QED
    BY <2>2, <2>3, <1>7 DEF Keeps
<1> QED
  BY <1>3, <1>6, <1>7, <1>8

-------------------------------------------------------------------------------
(* What the clicks do.                                                         *)

\* No stack of none, no stack over its maximum.
Normal(b) == \A q \in Places : ~Free(b, q) => b[q].count \in 1..MAX

\* From b to c the places of D change alone and, if b is normal, no item is
\* created or lost.
Moves(b, c, D) == Within(b, c, D) /\ (Normal(b) => Keeps(b, c))

\* One change after another.
LEMMA MovesOn ==
  ASSUME NEW b \in Boxes, NEW c, NEW d, NEW D, NEW E, Within(b, c, D), Within(c, d, E)
  PROVE  /\ Within(b, d, D \cup E)
         /\ Keeps(b, c) /\ Keeps(c, d) => Keeps(b, d)
BY DEF Within, Keeps

\* Adding nothing to an empty place leaves it empty.
LEMMA AddNothing ==
  ASSUME NEW b \in Boxes, NEW q \in Places, Free(b, q)
  PROVE  Add(b, q, 0) = b
<1>1. b[q] = Nothing /\ Nothing.kind = None /\ Nothing.count = 0
  BY PlaceHolds DEF Nothing
<1>2. Stack(b[q].kind, b[q].count + 0) = Nothing
  BY <1>1, StackIs
<1>3. Add(b, q, 0) = [b EXCEPT ![q] = Nothing]
  BY <1>2 DEF Add, Boxes
<1> QED
  BY <1>1, <1>3 DEF Boxes

\* Within normal contents no count is above the maximum.
LEMMA NormalCounts ==
  ASSUME NEW b \in Boxes, Normal(b), NEW q \in Places
  PROVE  /\ b[q].count \in 0..MAX /\ b[q].count <= MAX
         /\ ~Free(b, q) => b[q].count >= 1
BY PlaceHolds, InventoryConstants DEF Normal

\* Mode 0, left: a pour followed by a clearing, or an exchange.
LEMMA LeftClickMoves ==
  ASSUME NEW b \in Boxes, NEW s \in Slots
  PROVE  Moves(b, LeftClick(b, s), {s, Cursor})
<1>1. Cursor \in Places /\ s \in Places /\ Cursor # s
  BY Layout DEF Places
<1>2. CASE Matches(b, s, b[Cursor].kind)
  <2>1. ~Free(b, s) /\ ~Free(b, Cursor) /\ b[Cursor].kind = b[s].kind
    BY <1>2 DEF Matches, Free
  <2>2. PICK c : c = Pour(b, Cursor, s)
    OBVIOUS
  <2>3. LeftClick(b, s) = Tidy(c, Cursor)
    BY <1>2, <2>2 DEF LeftClick
  <2>4. Within(b, c, {Cursor, s})
    BY <1>1, <2>1, <2>2, Pouring
  <2>5. Normal(b) => Keeps(b, c)
    BY <1>1, <2>1, <2>2, Pouring, NormalCounts
  <2>6. Within(c, Tidy(c, Cursor), {Cursor}) /\ Keeps(c, Tidy(c, Cursor))
    BY <1>1, <2>4, Tidying DEF Within
  <2>7. Moves(b, Tidy(c, Cursor), {s, Cursor})
    BY <2>4, <2>5, <2>6, MovesOn DEF Moves, Within
  <2> QED
    BY <2>3, <2>7
<1>3. CASE ~Matches(b, s, b[Cursor].kind)
  <2>1. LeftClick(b, s) = Swap(b, s, Cursor)
    BY <1>3 DEF LeftClick
  <2>2. Within(b, Swap(b, s, Cursor), {s, Cursor}) /\ Keeps(b, Swap(b, s, Cursor))
    BY <1>1, Swapping
  <2> QED
    BY <2>1, <2>2 DEF Moves
<1> QED
  BY <1>2, <1>3

\* Mode 0, right, with an empty cursor: the larger half goes to it.
LEMMA TakeHalfMoves ==
  ASSUME NEW b \in Boxes, NEW s \in Slots, Free(b, Cursor)
  PROVE  Moves(b, TakeHalf(b, s), {s, Cursor})
<1>1. Cursor \in Places /\ s \in Places /\ Cursor # s
  BY Layout DEF Places
<1>2. PICK n : n = (b[s].count + 1) \div 2
  OBVIOUS
<1>3. /\ b[s].count \in 0..BYTE - 1 /\ b[s].count \in Int /\ BYTE \in Nat
      /\ n \in 0..BYTE - 1 /\ n \in Int /\ -n \in Int /\ n <= b[s].count
      /\ b[s].count = 0 => n = 0
  <2>1. b[s].count \in 0..BYTE - 1 /\ BYTE \in Nat
    BY <1>1, PlaceHolds, InventoryConstants
  <2>2. \A x \in Nat : (x + 1) \div 2 \in 0..x
    OBVIOUS
  <2>3. n \in 0..b[s].count
    BY <1>2, <2>1, <2>2
  <2> QED
    BY <2>1, <2>3
<1>4. b[Cursor] = Nothing /\ b[Cursor].count = 0 /\ Nothing.count = 0
  BY <1>1, PlaceHolds DEF Nothing
<1>5. PICK c : c = [b EXCEPT ![Cursor] = Stack(b[s].kind, n)]
  OBVIOUS
<1>6. TakeHalf(b, s) = Tidy(Add(c, s, -n), s)
  BY <1>2, <1>5 DEF TakeHalf
<1>7. c[s] = b[s]
  BY <1>1, <1>5 DEF Boxes
<1>8. CASE Free(b, s)
  <2>1. b[s] = Nothing /\ b[s].kind = None /\ n = 0
    BY <1>1, <1>3, <1>8, PlaceHolds DEF Free
  <2>2. c = b
    BY <1>4, <1>5, <2>1, StackIs DEF Boxes
  <2>3. Add(c, s, -n) = b
    BY <1>1, <1>8, <2>1, <2>2, AddNothing
  <2>4. TakeHalf(b, s) = Tidy(b, s)
    BY <1>6, <2>3
  <2>5. Within(b, Tidy(b, s), {s}) /\ Keeps(b, Tidy(b, s))
    BY <1>1, Tidying
  <2> QED
    BY <2>4, <2>5 DEF Moves, Within
<1>9. CASE ~Free(b, s)
  <2>1. PICK kind : kind = b[s].kind
    OBVIOUS
  <2>2. kind \in Kinds /\ Takes(b, Cursor, kind)
    BY <1>1, <1>9, <2>1, PlaceHolds DEF Takes
  <2>3. Gets(b, c, Cursor, kind, n)
    BY <1>3, <1>4, <1>5, <2>1 DEF Gets
  <2>4. Got(b, c, Cursor, kind, n)
    BY <1>1, <1>3, <2>2, <2>3, Stacking
  <2>5. c \in Boxes /\ ~Free(c, s)
    BY <1>7, <1>9, <2>4 DEF Got, Within, Free
  <2>6. PICK m : m = -n
    OBVIOUS
  <2>7. m \in Int /\ b[s].count + m \in 0..BYTE - 1
    BY <1>3, <2>6
  <2>8. Got(c, Add(c, s, m), s, c[s].kind, m)
    BY <1>1, <2>5, <2>7, Adding
  <2>9. PICK d : d = Add(c, s, m)
    OBVIOUS
  <2>10. Within(b, c, {Cursor}) /\ Within(c, d, {s}) /\ d \in Boxes
    BY <2>4, <2>8, <2>9 DEF Got, Within
  <2>11. ASSUME NEW k \in Kinds PROVE Held(d, k) = Held(b, k)
    <3>1. Held(c, k) = Held(b, k) + (IF kind = k THEN n ELSE 0)
      BY <1>3, <1>4, <2>4 DEF Got
    <3>2. Held(d, k) = Held(c, k) + (IF kind = k THEN m ELSE 0)
      BY <1>7, <2>1, <2>7, <2>8, <2>9 DEF Got
    <3>3. Held(b, k) \in Int
      BY HeldInt
    <3> QED
      BY <3>1, <3>2, <3>3, <2>6, <1>3
  <2>12. Within(d, Tidy(d, s), {s}) /\ Keeps(d, Tidy(d, s))
    BY <1>1, <2>10, Tidying
  <2>13. Within(b, Tidy(d, s), {s, Cursor}) /\ Keeps(b, Tidy(d, s))
    BY <2>10, <2>11, <2>12 DEF Within, Keeps
  <2> QED
    BY <1>6, <2>6, <2>9, <2>13 DEF Moves
<1> QED
  BY <1>8, <1>9

\* Mode 0, right, with a full cursor: one item goes from it.
LEMMA PutOneMoves ==
  ASSUME NEW b \in Boxes, NEW s \in Slots, ~Free(b, Cursor), Takes(b, s, b[Cursor].kind)
  PROVE  Moves(b, PutOne(b, s), {s, Cursor})
<1>1. Cursor \in Places /\ s \in Places /\ Cursor # s
  BY Layout DEF Places
<1>2. PICK kind : kind = b[Cursor].kind
  OBVIOUS
<1>3. kind \in Kinds /\ Takes(b, s, kind)
  BY <1>1, <1>2, PlaceHolds
<1>4. PICK c : c = [b EXCEPT ![s] = Stack(kind, IF Free(b, s) THEN 1 ELSE @.count + 1)]
  OBVIOUS
<1>5. Gets(b, c, s, kind, 1)
  <2>1. (IF Free(b, s) THEN 1 ELSE b[s].count + 1) = b[s].count + 1
    BY <1>1, PlaceHolds
  <2>2. c = [b EXCEPT ![s] = Stack(kind, IF Free(b, s) THEN 1 ELSE b[s].count + 1)]
    BY <1>1, <1>4 DEF Boxes
  <2> QED
    BY <2>1, <2>2 DEF Gets
<1>6. Got(b, c, s, kind, 1)
  BY <1>1, <1>3, <1>5, Stacking
<1>7. c[Cursor] = b[Cursor] /\ c \in Boxes
  BY <1>1, <1>6 DEF Got, Within
<1>8. ~Free(c, Cursor) /\ -1 \in Int
  BY <1>7 DEF Free
<1>9. PICK m : m = -1
  OBVIOUS
<1>10. Got(c, Add(c, Cursor, m), Cursor, c[Cursor].kind, m)
  BY <1>1, <1>7, <1>8, <1>9, Adding
<1>11. PICK d : d = Add(c, Cursor, m)
  OBVIOUS
<1>12. PutOne(b, s) = Tidy(d, Cursor)
  BY <1>2, <1>4, <1>9, <1>11 DEF PutOne
<1>13. Within(b, c, {s}) /\ Within(c, d, {Cursor}) /\ d \in Boxes
  BY <1>6, <1>10, <1>11 DEF Got, Within
<1>14. Within(d, Tidy(d, Cursor), {Cursor}) /\ Keeps(d, Tidy(d, Cursor))
  BY <1>1, <1>13, Tidying
<1>15. Within(b, Tidy(d, Cursor), {s, Cursor})
  BY <1>13, <1>14 DEF Within
<1>16. ASSUME Normal(b), NEW k \in Kinds PROVE Held(d, k) = Held(b, k)
  <2>1. /\ b[s].count \in 0..MAX /\ b[Cursor].count \in 0..MAX /\ b[Cursor].count >= 1
        /\ MAX \in Nat /\ BYTE \in Nat /\ BYTE >= 2 * MAX + 1
    BY <1>1, <1>16, NormalCounts, InventoryConstants
  <2>2. b[s].count + 1 \in 0..BYTE - 1 /\ b[Cursor].count + m \in 0..BYTE - 1
    BY <2>1, <1>9
  <2>3. Held(c, k) = Held(b, k) + (IF kind = k THEN 1 ELSE 0)
    BY <1>6, <2>2 DEF Got
  <2>4. Held(d, k) = Held(c, k) + (IF kind = k THEN m ELSE 0)
    BY <1>2, <1>7, <1>10, <1>11, <2>2 DEF Got
  <2>5. Held(b, k) \in Int
    BY HeldInt
  <2> QED
    BY <2>3, <2>4, <2>5, <1>9
<1> QED
  BY <1>12, <1>14, <1>15, <1>16 DEF Moves, Keeps

\* Mode 0, right, in its five branches.
LEMMA RightClickMoves ==
  ASSUME NEW b \in Boxes, NEW s \in Slots
  PROVE  Moves(b, RightClick(b, s), {s, Cursor})
<1>1. Cursor \in Places /\ s \in Places
  BY DEF Places
<1>2. CASE Free(b, Cursor)
  <2>1. RightClick(b, s) = TakeHalf(b, s)
    BY <1>2 DEF RightClick
  <2> QED
    BY <1>2, <2>1, TakeHalfMoves
<1>3. CASE ~Free(b, Cursor) /\ Takes(b, s, b[Cursor].kind) /\ RightClick(b, s) = PutOne(b, s)
  <2>1. Moves(b, PutOne(b, s), {s, Cursor})
    BY <1>3, PutOneMoves
  <2> QED
    BY <1>3, <2>1
<1>4. CASE RightClick(b, s) = b
  <2>1. Moves(b, b, {s, Cursor})
    BY DEF Moves, Within, Keeps
  <2> QED
    BY <1>4, <2>1
<1>5. CASE RightClick(b, s) = Swap(b, s, Cursor)
  <2>1. Within(b, Swap(b, s, Cursor), {s, Cursor}) /\ Keeps(b, Swap(b, s, Cursor))
    BY <1>1, Swapping
  <2> QED
    BY <1>5, <2>1 DEF Moves
<1> QED
  BY <1>2, <1>3, <1>4, <1>5 DEF RightClick, Matches, Takes

-------------------------------------------------------------------------------
(* What a shift-click and a double click do: a loop over slots.                *)

\* What a loop has made of the contents, and has it seen to it that they are
\* resent.
Honest(b, r) ==
  /\ r \in Results /\ Within(b, r.box, r.dirty)
  /\ Normal(b) => Keeps(b, r.box) /\ \A q \in Places : r.box[q].count <= MAX

\* Before the first turn of a loop.
LEMMA HonestStart ==
  ASSUME NEW b \in Boxes, NEW D \in SUBSET Places
  PROVE  Honest(b, Result(b, D))
BY NormalCounts DEF Honest, Result, Results, Within, Keeps

\* A step of a loop: a stack is poured onto another of its kind.
LEMMA HonestPour ==
  ASSUME NEW b \in Boxes, NEW r, Honest(b, r), NEW p \in Places, NEW q \in Places, p # q,
         ~Free(r.box, p), ~Free(r.box, q), r.box[p].kind = r.box[q].kind, NEW D,
         D \in SUBSET Places, p \in D, q \in D, r.dirty \subseteq D
  PROVE  Honest(b, Result(Pour(r.box, p, q), D))
<1>1. PICK c : c = Pour(r.box, p, q)
  OBVIOUS
<1>2. r.box \in Boxes /\ r.dirty \in SUBSET Places /\ Within(b, r.box, r.dirty)
  BY DEF Honest, Results
<1>3. Within(r.box, c, {p, q})
  BY <1>1, <1>2, Pouring
<1>4. Within(b, c, D) /\ c \in Boxes
  BY <1>2, <1>3 DEF Within
<1>5. ASSUME Normal(b)
      PROVE  Keeps(b, c) /\ \A x \in Places : c[x].count <= MAX
  <2>1. Keeps(b, r.box) /\ \A x \in Places : r.box[x].count <= MAX
    BY <1>5 DEF Honest
  <2>2. Keeps(r.box, c) /\ c[q].count <= MAX /\ c[p].count <= r.box[p].count
    BY <1>1, <1>2, <2>1, Pouring
  <2>3. c[p].count \in Int /\ r.box[p].count \in Int /\ MAX \in Int
    BY <1>2, <1>4, PlaceHolds, InventoryConstants
  <2>4. c[p].count <= MAX
    BY <2>1, <2>2, <2>3
  <2>5. \A x \in Places \ {p, q} : c[x].count <= MAX
    BY <1>3, <2>1 DEF Within
  <2> QED
    BY <2>1, <2>2, <2>4, <2>5 DEF Keeps
<1> QED
  BY <1>1, <1>4, <1>5 DEF Honest, Result, Results

\* A step of a loop: a stack that may be used up is cleared.
LEMMA HonestTidy ==
  ASSUME NEW b \in Boxes, NEW c, NEW D, Honest(b, Result(c, D)), NEW q \in Places, q \in D
  PROVE  Honest(b, Result(Tidy(c, q), D))
<1>1. PICK d : d = Tidy(c, q)
  OBVIOUS
<1>2. c \in Boxes /\ D \in SUBSET Places /\ Within(b, c, D)
  BY DEF Honest, Result, Results
<1>3. Within(c, d, {q}) /\ Keeps(c, d) /\ d[q].count = c[q].count
  BY <1>1, <1>2, Tidying
<1>4. Within(b, d, D) /\ d \in Boxes
  BY <1>2, <1>3 DEF Within
<1>5. ASSUME Normal(b)
      PROVE  Keeps(b, d) /\ \A x \in Places : d[x].count <= MAX
  <2>1. Keeps(b, c) /\ \A x \in Places : c[x].count <= MAX
    BY <1>5 DEF Honest, Result
  <2>2. \A x \in Places \ {q} : d[x].count <= MAX
    BY <1>3, <2>1 DEF Within
  <2> QED
    BY <1>3, <2>1, <2>2 DEF Keeps
<1> QED
  BY <1>1, <1>2, <1>4, <1>5 DEF Honest, Result, Results

\* A set of numbers has a first one.
LEMMA MinIn ==
  ASSUME NEW n \in Nat, NEW I, I \subseteq 1..n, I # {}
  PROVE  Min(I) \in I /\ \A i \in I : Min(I) <= i
<1> DEFINE Earlier == OpToRel(<, Nat)
<1>1. I \subseteq Nat
  BY SMT
<1>2. IsWellFoundedOn(Earlier, Nat)
  BY NatLessThanWellFounded
<1>3. PICK i \in I : \A j \in I : ~(<<j, i>> \in Earlier)
  BY <1>1, <1>2, WFMin, Zenon
<1>4. ASSUME NEW j \in I PROVE i =< j
  <2>1. i \in Nat /\ j \in Nat
    BY <1>1
  <2>2. j < i => <<j, i>> \in Earlier
    BY <2>1 DEF OpToRel
  <2>3. ~(j < i)
    BY <1>3, <2>2, Zenon
  <2> QED
    BY <2>1, <2>3
<1>5. \E x \in I : \A y \in I : x =< y
  BY <1>4
<1> QED
  BY <1>5, Zenon DEF Min

\* A shift-click goes to slots other than its own.
LEMMA Targets ==
  ASSUME NEW s \in Slots
  PROVE  /\ ShiftTargets(s) \in Seq(Slots \ {0}) /\ Len(ShiftTargets(s)) \in Nat
         /\ \A i \in 1..Len(ShiftTargets(s)) : ShiftTargets(s)[i] # s
<1>1. CASE s < Hotbar[1]
  <2>1. ShiftTargets(s) = Hotbar
    BY <1>1 DEF ShiftTargets
  <2>2. \A i \in 1..Len(Hotbar) : Hotbar[i] \in Int /\ Hotbar[1] \in Int /\ Hotbar[1] <= Hotbar[i]
    BY Layout DEF Slots
  <2> QED
    BY <1>1, <2>1, <2>2, Layout DEF Slots
<1>2. CASE ~(s < Hotbar[1])
  <2>1. ShiftTargets(s) = Main
    BY <1>2 DEF ShiftTargets
  <2>2. \A i \in 1..Len(Main) : Main[i] < Hotbar[1]
    BY Layout
  <2> QED
    BY <1>2, <2>1, <2>2, Layout
<1> QED
  BY <1>1, <1>2

\* Mode 1: the loop that merges, then the exchange with a free slot.
LEMMA ShiftClickMoves ==
  ASSUME NEW b \in Boxes, NEW s \in Slots
  PROVE  /\ ShiftClick(b, s).dirty \in SUBSET Places
         /\ Moves(b, ShiftClick(b, s).box, ShiftClick(b, s).dirty)
<1>1. PICK slots : slots = ShiftTargets(s)
  OBVIOUS
<1>2. PICK N : N = Len(slots)
  OBVIOUS
<1>3. /\ slots \in Seq(Slots \ {0}) /\ N \in Nat /\ s \in Places
      /\ \A i \in 1..N : slots[i] \in Slots /\ slots[i] \in Places /\ slots[i] # s
  BY <1>1, <1>2, Targets DEF Places
<1>4. PICK merge : merge = [q \in Slots |-> [r \in Results |->
        IF Matches(r.box, q, b[s].kind)
        THEN Result(Pour(r.box, s, q), r.dirty \cup {q}) ELSE r]]
  OBVIOUS
<1>5. PICK r : r = Sweep(merge, Result(b, {s}), slots)
  OBVIOUS
<1>6. PICK i : i = SelectInSeq(slots, LAMBDA q : Free(r.box, q))
  OBVIOUS
<1>7. ShiftClick(b, s) = IF Free(b, s) THEN Result(b, {})
                         ELSE IF i = 0 THEN r
                         ELSE Result(Swap(r.box, s, slots[i]), r.dirty \cup {slots[i]})
  BY <1>1, <1>4, <1>5, <1>6 DEF ShiftClick
<1>8. CASE Free(b, s)
  <2>1. ShiftClick(b, s) = Result(b, {})
    BY <1>7, <1>8
  <2>2. ShiftClick(b, s).dirty = {} /\ ShiftClick(b, s).box = b
    BY <2>1 DEF Result
  <2> QED
    BY <2>2 DEF Moves, Within, Keeps
<1>9. CASE ~Free(b, s)
  <2> DEFINE S == {x \in Results : Honest(b, x) /\ s \in x.dirty /\ x.box[s].kind = b[s].kind}
  <2> DEFINE I == [n \in 0..N |-> S]
  <2>1. Result(b, {s}) \in I[0]
    <3>1. Honest(b, Result(b, {s}))
      BY <1>3, HonestStart
    <3>2. Result(b, {s}) \in Results /\ s \in Result(b, {s}).dirty /\ Result(b, {s}).box = b
      BY <3>1 DEF Honest, Result
    <3> QED
      BY <3>1, <3>2, <1>3
  <2>2. ASSUME NEW n \in 1..N, NEW y \in I[n - 1]
        PROVE  merge[slots[n]][y] \in I[n]
    <3>1. PICK q : q = slots[n]
      OBVIOUS
    <3>2. q \in Slots /\ q \in Places /\ q # s
      BY <1>3, <3>1
    <3>3. y \in Results /\ Honest(b, y) /\ s \in y.dirty /\ y.box[s].kind = b[s].kind
      BY <1>3
    <3>4. merge[q][y] = IF Matches(y.box, q, b[s].kind)
                        THEN Result(Pour(y.box, s, q), y.dirty \cup {q}) ELSE y
      BY <1>4, <3>2, <3>3
    <3>5. CASE Matches(y.box, q, b[s].kind)
      <4>1. y.box \in Boxes /\ y.dirty \in SUBSET Places
        BY <3>3 DEF Results
      <4>2. ~Free(y.box, s) /\ ~Free(y.box, q)
        BY <1>9, <3>3, <3>5 DEF Matches, Free
      <4>10. y.box[s].kind = y.box[q].kind
        BY <3>3, <3>5 DEF Matches
      <4>3. PICK D : D = y.dirty \cup {q}
        OBVIOUS
      <4>4. D \in SUBSET Places /\ s \in D /\ q \in D /\ y.dirty \subseteq D
        BY <3>2, <3>3, <4>1, <4>3
      <4>5. PICK z : z = Result(Pour(y.box, s, q), D)
        OBVIOUS
      <4>6. Honest(b, z)
        BY <1>3, <3>2, <3>3, <4>2, <4>10, <4>4, <4>5, HonestPour
      <4>7. z.dirty = D /\ z.box = Pour(y.box, s, q)
        BY <4>5 DEF Result
      <4>8. z.box[s].kind = b[s].kind
        <5>1. y.box \in Boxes /\ s # q
          BY <3>2, <4>1
        <5>2. Pour(y.box, s, q)[s].kind = y.box[s].kind
          BY <1>3, <3>2, <4>2, <5>1, Pouring
        <5> QED
          BY <3>3, <4>7, <5>2
      <4>9. z \in S
        BY <4>4, <4>6, <4>7, <4>8 DEF Honest
      <4> QED
        BY <3>1, <3>4, <3>5, <4>3, <4>5, <4>9
    <3>6. CASE ~Matches(y.box, q, b[s].kind)
      <4>1. merge[q][y] = y /\ y \in S
        BY <3>3, <3>4, <3>6
      <4> QED
        BY <3>1, <4>1
    <3> QED
      BY <3>5, <3>6
  <2>3. r \in S
    <3>1. I[N] = S
      BY <1>3
    <3>2. Sweep(merge, Result(b, {s}), slots) \in I[N]
      <4> HIDE DEF I
      <4> QED
        BY <1>2, <1>3, <2>1, <2>2, Sweeping
    <3> QED
      BY <1>5, <3>1, <3>2
  <2>4. Honest(b, r) /\ s \in r.dirty /\ r.dirty \in SUBSET Places /\ r.box \in Boxes
    BY <2>3 DEF Honest, Results
  <2>5. Moves(b, r.box, r.dirty)
    BY <2>4 DEF Honest, Moves
  <2>6. CASE i = 0
    BY <1>7, <1>9, <2>4, <2>5, <2>6
  <2>7. CASE i # 0
    <3> DEFINE J == {j \in 1..Len(slots) : Free(r.box, slots[j])}
    <3>1. J # {} /\ i = Min(J)
      BY <1>6, <2>7, Zenon DEF SelectInSeq
    <3>2. i \in 1..N
      <4>1. J \subseteq 1..N
        BY <1>2
      <4>2. Min(J) \in J
        <5> HIDE DEF J
        <5> QED
          BY <1>3, <3>1, <4>1, MinIn
      <4> QED
        BY <3>1, <4>1, <4>2
    <3>3. PICK q : q = slots[i]
      OBVIOUS
    <3>4. q \in Places
      BY <1>3, <3>2, <3>3
    <3>5. PICK c : c = Swap(r.box, s, q)
      OBVIOUS
    <3>6. Within(r.box, c, {s, q}) /\ Keeps(r.box, c)
      BY <1>3, <2>4, <3>4, <3>5, Swapping
    <3>7. PICK D : D = r.dirty \cup {q}
      OBVIOUS
    <3>8. D \in SUBSET Places /\ Moves(b, c, D)
      BY <2>4, <2>5, <3>4, <3>6, <3>7 DEF Moves, Within, Keeps
    <3>9. ShiftClick(b, s) = Result(c, D)
      BY <1>7, <1>9, <2>7, <3>3, <3>5, <3>7
    <3>10. ShiftClick(b, s).dirty = D /\ ShiftClick(b, s).box = c
      BY <3>9 DEF Result
    <3> QED
      BY <3>8, <3>10
  <2> QED
    BY <2>6, <2>7
<1> QED
  BY <1>8, <1>9

\* Mode 6: the loop that collects, from any number of slots.
LEMMA GatherMoves ==
  ASSUME NEW b \in Boxes
  PROVE  /\ Gather(b).dirty \in SUBSET Places
         /\ Moves(b, Gather(b).box, Gather(b).dirty)
<1>1. PICK slots : slots = [i \in 1..Top |-> i]
  OBVIOUS
<1>2. PICK N : N = Top
  OBVIOUS
<1>3. /\ N \in Nat /\ N = Len(slots) /\ Cursor \in Places
      /\ \A i \in 1..N : slots[i] \in Slots /\ slots[i] \in Places /\ slots[i] # Cursor
  BY <1>1, <1>2, Layout DEF Places, Slots
<1>4. PICK take : take = [q \in Slots |-> [r \in Results |->
        IF Matches(r.box, q, b[Cursor].kind) /\ r.box[Cursor].count < MAX
        THEN Result(Tidy(Pour(r.box, q, Cursor), q), r.dirty \cup {q}) ELSE r]]
  OBVIOUS
<1>5. PICK r : r = Sweep(take, Result(b, {Cursor}), slots)
  OBVIOUS
<1>6. Gather(b) = IF Free(b, Cursor) THEN Result(b, {}) ELSE r
  BY <1>1, <1>4, <1>5 DEF Gather
<1>7. CASE Free(b, Cursor)
  <2>1. Gather(b).dirty = {} /\ Gather(b).box = b
    BY <1>6, <1>7 DEF Result
  <2> QED
    BY <2>1 DEF Moves, Within, Keeps
<1>8. CASE ~Free(b, Cursor)
  <2> DEFINE S == {x \in Results : Honest(b, x) /\ x.box[Cursor].kind = b[Cursor].kind
                                   /\ Cursor \in x.dirty}
  <2> DEFINE I == [n \in 0..N |-> S]
  <2>1. Result(b, {Cursor}) \in I[0]
    <3>1. Honest(b, Result(b, {Cursor}))
      BY <1>3, HonestStart
    <3>2. /\ Result(b, {Cursor}) \in Results /\ Cursor \in Result(b, {Cursor}).dirty
          /\ Result(b, {Cursor}).box = b
      BY <3>1 DEF Honest, Result
    <3> QED
      BY <3>1, <3>2, <1>3
  <2>2. ASSUME NEW n \in 1..N, NEW y \in I[n - 1]
        PROVE  take[slots[n]][y] \in I[n]
    <3>1. PICK q : q = slots[n]
      OBVIOUS
    <3>2. q \in Slots /\ q \in Places /\ q # Cursor
      BY <1>3, <3>1
    <3>3. y \in Results /\ Honest(b, y) /\ Cursor \in y.dirty
      BY <1>3
    <3>4. y.box[Cursor].kind = b[Cursor].kind
      BY <1>3
    <3>5. take[q][y] = IF Matches(y.box, q, b[Cursor].kind) /\ y.box[Cursor].count < MAX
                       THEN Result(Tidy(Pour(y.box, q, Cursor), q), y.dirty \cup {q}) ELSE y
      BY <1>4, <3>2, <3>3
    <3>6. CASE Matches(y.box, q, b[Cursor].kind) /\ y.box[Cursor].count < MAX
      <4>1. y.box \in Boxes /\ y.dirty \in SUBSET Places
        BY <3>3 DEF Results
      <4>2. ~Free(y.box, q) /\ ~Free(y.box, Cursor)
        BY <1>8, <3>4, <3>6 DEF Matches, Free
      <4>3. y.box[q].kind = y.box[Cursor].kind
        BY <3>4, <3>6 DEF Matches
      <4>4. PICK D : D = y.dirty \cup {q}
        OBVIOUS
      <4>5. D \in SUBSET Places /\ q \in D /\ Cursor \in D /\ y.dirty \subseteq D
        BY <3>2, <3>3, <4>1, <4>4
      <4>6. PICK c : c = Pour(y.box, q, Cursor)
        OBVIOUS
      <4>7. Honest(b, Result(c, D))
        BY <1>3, <3>2, <3>3, <4>2, <4>3, <4>5, <4>6, HonestPour
      <4>8. PICK z : z = Result(Tidy(c, q), D)
        OBVIOUS
      <4>9. Honest(b, z)
        BY <3>2, <4>5, <4>7, <4>8, HonestTidy
      <4>10. z.dirty = D /\ z.box = Tidy(c, q)
        BY <4>8 DEF Result
      <4>11. c \in Boxes
        BY <4>7 DEF Honest, Result, Results
      <4>12. z.box[Cursor] = c[Cursor]
        BY <1>3, <3>2, <4>10, <4>11, Tidying DEF Within
      <4>13. c[Cursor].kind = y.box[Cursor].kind
        <5>1. Pour(y.box, q, Cursor)[Cursor].kind = y.box[Cursor].kind
          BY <1>3, <3>2, <4>1, <4>2, Pouring
        <5> QED
          BY <4>6, <5>1
      <4>14. z \in S
        BY <3>4, <4>5, <4>9, <4>10, <4>12, <4>13 DEF Honest
      <4> QED
        BY <3>1, <3>5, <3>6, <4>4, <4>6, <4>8, <4>14
    <3>7. CASE ~(Matches(y.box, q, b[Cursor].kind) /\ y.box[Cursor].count < MAX)
      <4>1. take[q][y] = y /\ y \in S
        BY <3>3, <3>4, <3>5, <3>7
      <4> QED
        BY <3>1, <4>1
    <3> QED
      BY <3>6, <3>7
  <2>3. r \in S
    <3>1. I[N] = S
      BY <1>3
    <3>2. Sweep(take, Result(b, {Cursor}), slots) \in I[N]
      <4> HIDE DEF I
      <4> QED
        BY <1>3, <2>1, <2>2, Sweeping
    <3> QED
      BY <1>5, <3>1, <3>2
  <2>4. Gather(b) = r
    BY <1>6, <1>8
  <2> QED
    BY <2>3, <2>4 DEF Honest, Results, Moves
<1> QED
  BY <1>7, <1>8

-------------------------------------------------------------------------------
(* What a drag does.                                                           *)

\* A sequence of slots, none of them twice.
Path(slots) ==
  /\ slots \in Seq(Slots)
  /\ \A i, j \in 1..Len(slots) : slots[i] = slots[j] => i = j

\* A hand-out of n items to each of some slots, no slot twice: what the slots
\* gain the cursor loses, if it has that much.
LEMMA HandOutMoves ==
  ASSUME NEW b \in Boxes, ~Free(b, Cursor), NEW slots, Path(slots), NEW n \in Nat,
         \A i \in 1..Len(slots) : Takes(b, slots[i], b[Cursor].kind),
         NEW D \in SUBSET Places, Cursor \in D, \A i \in 1..Len(slots) : slots[i] \in D
  PROVE  /\ Within(b, HandOut(b, slots, n), D)
         /\ Len(slots) = 0 \/ n <= b[Cursor].count =>
              (n * Len(slots) <= b[Cursor].count => Moves(b, HandOut(b, slots, n), D))
<1> DEFINE Enough ==
      (Len(slots) = 0 \/ n <= b[Cursor].count) /\ n * Len(slots) <= b[Cursor].count
<1>1. PICK N : N = Len(slots)
  OBVIOUS
<1>2. /\ N \in Nat /\ Cursor \in Places
      /\ \A i \in 1..N : slots[i] \in Slots /\ slots[i] \in Places /\ slots[i] # Cursor
                         /\ slots[i] \in D
  BY <1>1, Layout DEF Path, Places
<1>3. PICK kind : kind = b[Cursor].kind
  OBVIOUS
<1>4. kind \in Kinds
  BY <1>2, <1>3, PlaceHolds
<1>5. PICK give : give = [s \in Slots |-> [c \in Boxes |->
        [c EXCEPT ![s] = Stack(b[Cursor].kind, @.count + n)]]]
  OBVIOUS
<1>6. PICK c : c = Sweep(give, b, slots)
  OBVIOUS
<1>7. PICK m : m = -(n * N)
  OBVIOUS
<1>8. PICK d : d = Add(c, Cursor, m)
  OBVIOUS
<1>9. HandOut(b, slots, n) = Tidy(d, Cursor)
  BY <1>1, <1>5, <1>6, <1>7, <1>8 DEF HandOut
<1> DEFINE Given(y, i) ==
      /\ Within(b, y, D \ {Cursor})
      /\ \A j \in i + 1..N : y[slots[j]] = b[slots[j]]
      /\ Normal(b) /\ Enough =>
           \A k \in Kinds : Held(y, k) = Held(b, k) + (IF kind = k THEN n * i ELSE 0)
<1> DEFINE I == [i \in 0..N |-> {y \in Boxes : Given(y, i)}]
<1>10. b \in I[0]
  <2>1. n * 0 = 0
    OBVIOUS
  <2>2. \A k \in Kinds : Held(b, k) = Held(b, k) + (IF kind = k THEN n * 0 ELSE 0)
    BY <2>1, HeldInt
  <2>3. Given(b, 0)
    BY <2>2 DEF Within
  <2> QED
    BY <2>3, <1>2
<1>11. ASSUME NEW i \in 1..N, NEW y \in I[i - 1] PROVE give[slots[i]][y] \in I[i]
  <2>1. PICK q : q = slots[i]
    OBVIOUS
  <2>2. q \in Slots /\ q \in Places /\ q # Cursor /\ q \in D
    BY <1>2, <2>1
  <2>3. y \in Boxes /\ Given(y, i - 1)
    BY <1>2
  <2>4. y[q] = b[q]
    <3>1. i \in (i - 1) + 1..N
      OBVIOUS
    <3> QED
      BY <2>1, <2>3, <3>1
  <2>5. PICK z : z = [y EXCEPT ![q] = Stack(kind, y[q].count + n)]
    OBVIOUS
  <2>6. give[q][y] = z
    BY <1>3, <1>5, <2>2, <2>3, <2>5 DEF Boxes
  <2>7. Gets(y, z, q, kind, n)
    BY <2>5 DEF Gets
  <2>8. Takes(y, q, kind)
    <3>1. Takes(b, q, kind)
      BY <1>1, <1>3, <2>1
    <3> QED
      BY <2>4, <3>1 DEF Takes, Free
  <2>9. Got(y, z, q, kind, n)
    BY <1>4, <2>2, <2>3, <2>7, <2>8, Stacking
  <2>10. Within(b, z, D \ {Cursor})
    BY <2>2, <2>3, <2>9 DEF Got, Within
  <2>11. ASSUME NEW j \in i + 1..N PROVE z[slots[j]] = b[slots[j]]
    <3>1. j \in (i - 1) + 1..N /\ j \in 1..N /\ j # i
      OBVIOUS
    <3>2. slots[j] # q /\ slots[j] \in Places
      BY <1>1, <1>2, <2>1, <3>1 DEF Path
    <3>3. y[slots[j]] = b[slots[j]]
      BY <2>3, <3>1
    <3> QED
      BY <2>9, <3>2, <3>3 DEF Got, Within
  <2>12. ASSUME Normal(b), Enough, NEW k \in Kinds
         PROVE  Held(z, k) = Held(b, k) + (IF kind = k THEN n * i ELSE 0)
    <3>1. y[q].count + n \in 0..BYTE - 1
      <4>1. b[q].count \in 0..MAX /\ b[Cursor].count \in 0..MAX
        BY <1>2, <2>2, <2>12, NormalCounts
      <4>2. MAX \in Nat /\ BYTE \in Nat /\ BYTE >= 2 * MAX + 1
        BY InventoryConstants
      <4>3. n <= b[Cursor].count
        <5>1. Len(slots) # 0
          BY <1>1, <1>2
        <5> QED
          BY <2>12, <5>1
      <4>4. b[q].count + n \in 0..BYTE - 1
        <5> HIDE DEF Enough
        <5> QED
          BY <4>1, <4>2, <4>3
      <4> QED
        BY <2>4, <4>4
    <3>2. Held(z, k) = Held(y, k) + (IF kind = k THEN n ELSE 0)
      BY <2>9, <3>1 DEF Got
    <3>3. Held(y, k) = Held(b, k) + (IF kind = k THEN n * (i - 1) ELSE 0)
      BY <2>3, <2>12
    <3>4. n * (i - 1) + n = n * i /\ n * (i - 1) \in Int /\ n * i \in Int
      OBVIOUS
    <3>5. Held(b, k) \in Int
      BY HeldInt
    <3> QED
      BY <3>2, <3>3, <3>4, <3>5
  <2>13. z \in Boxes /\ Given(z, i)
    BY <2>9, <2>10, <2>11, <2>12 DEF Got, Within
  <2> QED
    BY <2>1, <2>6, <2>13
<1>12. c \in Boxes /\ Given(c, N)
  <2>1. I[N] = {y \in Boxes : Given(y, N)}
    BY <1>2
  <2>2. Sweep(give, b, slots) \in I[N]
    <3> HIDE DEF I
    <3> QED
      BY <1>1, <1>2, <1>10, <1>11, Sweeping
  <2> QED
    BY <1>6, <2>1, <2>2
<1>13. c[Cursor] = b[Cursor]
  BY <1>2, <1>12 DEF Within
<1>14. ~Free(c, Cursor)
  BY <1>13 DEF Free
<1>15. /\ m \in Int /\ n * N \in Nat /\ b[Cursor].count \in 0..BYTE - 1
       /\ Enough => b[Cursor].count + m \in 0..BYTE - 1
  <2>1. n * N \in Nat /\ (Enough => n * N <= b[Cursor].count)
    BY <1>1, <1>2
  <2>2. b[Cursor].count \in 0..BYTE - 1 /\ BYTE \in Nat
    BY <1>2, PlaceHolds, InventoryConstants
  <2> QED
    BY <1>7, <2>1, <2>2
<1>16. Got(c, d, Cursor, c[Cursor].kind, m)
  BY <1>2, <1>8, <1>12, <1>14, <1>15, Adding
<1>17. Within(b, d, D) /\ d \in Boxes
  BY <1>12, <1>16 DEF Got, Within
<1>18. Within(d, Tidy(d, Cursor), {Cursor}) /\ Keeps(d, Tidy(d, Cursor))
  BY <1>2, <1>17, Tidying
<1>19. Within(b, Tidy(d, Cursor), D)
  BY <1>17, <1>18 DEF Within
<1>20. ASSUME Normal(b), Enough, NEW k \in Kinds PROVE Held(d, k) = Held(b, k)
  <2>1. Held(d, k) = Held(c, k) + (IF kind = k THEN m ELSE 0)
    BY <1>3, <1>13, <1>15, <1>16, <1>20 DEF Got
  <2>2. Held(c, k) = Held(b, k) + (IF kind = k THEN n * N ELSE 0)
    BY <1>12, <1>20
  <2>3. Held(b, k) \in Int
    BY HeldInt
  <2> QED
    BY <2>1, <2>2, <2>3, <1>7, <1>15
<1> QED
  BY <1>9, <1>18, <1>19, <1>20 DEF Moves, Keeps

\* A drag in progress.
Drags == [button : {"left", "right"}, slots : Seq(Slots) \ {<<>>}]

\* A drag that goes on is over slots still, and over none twice.
LEMMA DragOverIs ==
  ASSUME NEW d \in Drags, Path(d.slots), NEW s \in Slots \cup {Outside}
  PROVE  DragOver(d, s) \in Drags /\ Path(DragOver(d, s).slots)
<1>1. CASE s = Outside \/ s \in ToSet(d.slots)
  BY <1>1 DEF DragOver
<1>2. CASE ~(s = Outside \/ s \in ToSet(d.slots))
  <2>1. PICK slots : slots = Append(d.slots, s)
    OBVIOUS
  <2>2. s \in Slots /\ \A i \in 1..Len(d.slots) : d.slots[i] # s
    BY <1>2 DEF ToSet, Drags
  <2>3. d.slots \in Seq(Slots) /\ Len(d.slots) \in Nat
    BY DEF Drags
  <2>4. /\ slots \in Seq(Slots) /\ slots # <<>> /\ Len(slots) = Len(d.slots) + 1
        /\ slots[Len(d.slots) + 1] = s
        /\ \A i \in 1..Len(d.slots) : slots[i] = d.slots[i]
    BY <2>1, <2>2, <2>3
  <2>5. ASSUME NEW i \in 1..Len(slots), NEW j \in 1..Len(slots), slots[i] = slots[j]
        PROVE  i = j
    BY <2>2, <2>3, <2>4, <2>5 DEF Path
  <2>6. DragOver(d, s) = [d EXCEPT !.slots = slots]
    BY <1>2, <2>1 DEF DragOver
  <2>7. DragOver(d, s) \in Drags /\ DragOver(d, s).slots = slots
    BY <2>4, <2>6 DEF Drags
  <2> QED
    BY <2>4, <2>5, <2>7 DEF Path
<1> QED
  BY <1>1, <1>2

\* A right drag serves as many as there are, or fewer.
LEMMA Served ==
  ASSUME NEW b, NEW d, Len(d.slots) \in Nat
  PROVE  DragServed(b, d) \in 0..Len(d.slots)
<1> DEFINE J == {j \in 1..Len(d.slots) : b[d.slots[j]].count >= MAX}
<1> DEFINE full == SelectInSeq(d.slots, LAMBDA s : b[s].count >= MAX)
<1>1. full = IF J # {} THEN Min(J) ELSE 0
  BY Zenon DEF SelectInSeq
<1>2. J # {} => Min(J) \in 1..Len(d.slots)
  <2>1. J \subseteq 1..Len(d.slots)
    OBVIOUS
  <2> HIDE DEF J
  <2> QED
    BY <2>1, MinIn
<1>3. full \in 0..Len(d.slots)
  <2> HIDE DEF J, full
  <2> QED
    BY <1>1, <1>2
<1>4. DragServed(b, d) = IF full = 0 THEN Len(d.slots) ELSE full - 1
  BY Zenon DEF DragServed
<1> HIDE DEF full
<1> QED
  BY <1>3, <1>4

\* Mode 5, the end of a drag, in its four branches.
LEMMA DragEndMoves ==
  ASSUME NEW b \in Boxes, NEW d \in Drags, Path(d.slots), ~Free(b, Cursor)
  PROVE  /\ DragEnd(b, d).dirty \in SUBSET Places
         /\ Within(b, DragEnd(b, d).box, DragEnd(b, d).dirty)
         /\ ~(d.button = "right" /\ DragFits(b, d) /\ DragServed(b, d) > b[Cursor].count)
              => Moves(b, DragEnd(b, d).box, DragEnd(b, d).dirty)
<1>1. PICK targets : targets = ToSet(d.slots) \cup {Cursor}
  OBVIOUS
<1>2. PICK slots : slots = d.slots
  OBVIOUS
<1>3. PICK N : N = Len(slots)
  OBVIOUS
<1>4. /\ slots \in Seq(Slots) /\ Path(slots) /\ N \in Nat /\ N >= 1
      /\ \A i \in 1..N : slots[i] \in Slots
  BY <1>2, <1>3 DEF Drags
<1>5. /\ targets \in SUBSET Places /\ Cursor \in targets
      /\ \A i \in 1..N : slots[i] \in targets
  BY <1>1, <1>2, <1>3, <1>4 DEF ToSet, Places
<1>6. b[Cursor].count \in Nat /\ Cursor \in Places
  <2>1. Cursor \in Places
    BY DEF Places
  <2> QED
    BY <2>1, <1>2, <1>3, PlaceHolds, InventoryConstants
<1>7. CASE ~DragFits(b, d)
  <2>1. DragEnd(b, d).box = b /\ DragEnd(b, d).dirty = targets
    BY <1>1, <1>7 DEF DragEnd, Result
  <2> QED
    BY <1>5, <2>1 DEF Moves, Within, Keeps
<1>8. CASE DragFits(b, d)
  <2>1. \A i \in 1..N : Takes(b, slots[i], b[Cursor].kind)
    BY <1>2, <1>3, <1>8 DEF DragFits, Takes, ToSet
  <2>2. CASE d.button = "right"
    <3>1. PICK n : n = DragServed(b, d)
      OBVIOUS
    <3>2. n \in 0..N
      BY <1>2, <1>3, <1>4, <3>1, Served
    <3>3. PICK first : first = SubSeq(slots, 1, n)
      OBVIOUS
    <3>4. /\ first \in Seq(Slots) /\ Len(first) = n
          /\ \A i \in 1..n : first[i] = slots[i] /\ i \in 1..N
      BY <1>3, <1>4, <3>2, <3>3
    <3>5. Path(first)
      BY <1>3, <1>4, <3>2, <3>4 DEF Path
    <3>6. 1 \in Nat /\ (n <= b[Cursor].count =>
                       /\ Len(first) = 0 \/ 1 <= b[Cursor].count
                       /\ 1 * Len(first) <= b[Cursor].count)
      BY <1>4, <1>6, <3>2, <3>4
    <3>7. \A i \in 1..Len(first) : Takes(b, first[i], b[Cursor].kind) /\ first[i] \in targets
      BY <1>5, <2>1, <3>4
    <3>8. /\ Within(b, HandOut(b, first, 1), targets)
          /\ n <= b[Cursor].count => Moves(b, HandOut(b, first, 1), targets)
      BY <1>5, <3>5, <3>6, <3>7, HandOutMoves
    <3>9. DragEnd(b, d) = Result(HandOut(b, first, 1), targets)
      BY <1>1, <1>2, <1>8, <2>2, <3>1, <3>3 DEF DragEnd, DragRight
    <3>10. n > b[Cursor].count \/ n <= b[Cursor].count
      BY <1>4, <1>6, <3>2
    <3> QED
      BY <1>5, <1>8, <2>2, <3>1, <3>8, <3>9, <3>10 DEF Result
  <2>3. CASE d.button # "right" /\ Share(b, d) = 0
    <3>1. DragEnd(b, d).box = b /\ DragEnd(b, d).dirty = {}
      BY <1>8, <2>3 DEF DragEnd, Result
    <3> QED
      BY <3>1 DEF Moves, Within, Keeps
  <2>4. CASE d.button # "right" /\ Share(b, d) # 0
    <3>1. PICK n : n = Share(b, d)
      OBVIOUS
    <3>2. n \in Nat /\ n <= b[Cursor].count /\ n * N <= b[Cursor].count
      <4>1. \A c \in Nat, l \in Nat \ {0} :
              c \div l \in Nat /\ c \div l <= c /\ (c \div l) * l <= c
        OBVIOUS
      <4>2. n = b[Cursor].count \div N
        BY <1>2, <1>3, <3>1 DEF Share
      <4>3. N \in Nat \ {0}
        BY <1>4
      <4>4. PICK c \in Nat : c = b[Cursor].count
        BY <1>6
      <4>5. c \div N \in Nat /\ c \div N <= c /\ (c \div N) * N <= c
        BY <4>1, <4>3
      <4> QED
        BY <4>2, <4>4, <4>5
    <3>3. Within(b, HandOut(b, slots, n), targets) /\ Moves(b, HandOut(b, slots, n), targets)
      BY <1>3, <1>4, <1>5, <2>1, <3>2, HandOutMoves
    <3>4. DragEnd(b, d) = Result(HandOut(b, slots, n), targets)
      BY <1>1, <1>2, <1>8, <2>4, <3>1 DEF DragEnd, DragLeft
    <3> QED
      BY <1>5, <3>3, <3>4 DEF Result
  <2> QED
    BY <2>2, <2>3, <2>4
<1> QED
  BY <1>7, <1>8

-------------------------------------------------------------------------------
(* What a pickup does: two loops over the slots a player carries.              *)

\* What the loops have made of the contents, with what is left of the stack.
Loaded(b, kind, count, r) ==
  /\ r \in Loads /\ r.dirty \subseteq Slots /\ Within(b, r.box, r.dirty)
  /\ Normal(b) => \A k \in Kinds :
       Held(r.box, k) + (IF kind = k THEN r.left ELSE 0)
         = Held(b, k) + (IF kind = k THEN count ELSE 0)

\* A step of one of them: n items are put in a place.
LEMMA LoadedPut ==
  ASSUME NEW b \in Boxes, NEW kind \in Kinds, NEW count \in Nat,
         NEW r, Loaded(b, kind, count, r), NEW q \in Slots, NEW n \in Nat,
         Takes(r.box, q, kind), n <= r.left, r.box[q].count + n <= MAX,
         NEW c, Gets(r.box, c, q, kind, n)
  PROVE  Loaded(b, kind, count, [box |-> c, dirty |-> r.dirty \cup {q}, left |-> r.left - n])
<1>1. /\ r.box \in Boxes /\ r.dirty \in SUBSET Places /\ r.left \in 0..BYTE - 1
      /\ r.dirty \subseteq Slots /\ Within(b, r.box, r.dirty)
  BY DEF Loaded, Loads
<1>2. q \in Places /\ MAX \in Nat /\ BYTE \in Nat /\ BYTE >= 2 * MAX + 1
  BY InventoryConstants DEF Places
<1>3. Got(r.box, c, q, kind, n)
  BY <1>1, <1>2, Stacking
<1>4. Within(b, c, r.dirty \cup {q}) /\ c \in Boxes
  BY <1>1, <1>2, <1>3 DEF Got, Within
<1>5. r.left - n \in 0..BYTE - 1
  BY <1>1, <1>2
<1>6. ASSUME Normal(b), NEW k \in Kinds
      PROVE  Held(c, k) + (IF kind = k THEN r.left - n ELSE 0)
               = Held(b, k) + (IF kind = k THEN count ELSE 0)
  <2>1. r.box[q].count \in 0..BYTE - 1
    BY <1>1, <1>2, PlaceHolds
  <2>2. r.box[q].count + n \in 0..BYTE - 1
    BY <1>2, <2>1
  <2>3. Held(c, k) = Held(r.box, k) + (IF kind = k THEN n ELSE 0)
    BY <1>3, <2>2 DEF Got
  <2>4. Held(r.box, k) + (IF kind = k THEN r.left ELSE 0)
          = Held(b, k) + (IF kind = k THEN count ELSE 0)
    BY <1>6 DEF Loaded
  <2>5. Held(b, k) \in Int /\ Held(r.box, k) \in Int
    BY <1>1, HeldInt
  <2> QED
    BY <2>3, <2>4, <2>5, <1>1
<1>7. PICK z : z = [box |-> c, dirty |-> r.dirty \cup {q}, left |-> r.left - n]
  OBVIOUS
<1>8. z.box = c /\ z.dirty = r.dirty \cup {q} /\ z.left = r.left - n
  BY <1>7
<1>9. z \in Loads /\ z.dirty \subseteq Slots
  BY <1>1, <1>2, <1>4, <1>5, <1>7 DEF Loads
<1>10. Loaded(b, kind, count, z)
  BY <1>4, <1>6, <1>8, <1>9 DEF Loaded
<1> QED
  BY <1>7, <1>10

\* Both loops of a pickup: what the inventory gains the stack loses.
LEMMA AbsorbLoads ==
  ASSUME NEW b \in Boxes, NEW stack, stack.kind \in Kinds, stack.count \in 0..BYTE - 1
  PROVE  Loaded(b, stack.kind, stack.count, Absorb(b, stack))
<1>1. PICK kind, count : kind = stack.kind /\ count = stack.count
  OBVIOUS
<1>2. PICK N : N = Len(Carried)
  OBVIOUS
<1>3. /\ N \in Nat /\ kind \in Kinds /\ count \in Nat /\ MAX \in Nat
      /\ \A i \in 1..N : Carried[i] \in Slots
  BY <1>1, <1>2, Layout, InventoryConstants
<1> DEFINE Put(r, q, n) == [box |-> [r.box EXCEPT ![q] = Stack(stack.kind, r.box[q].count + n)],
                            dirty |-> r.dirty \cup {q}, left |-> r.left - n]
<1>4. PICK merge : merge = [q \in Slots |-> [r \in Loads |->
        IF r.left > 0 /\ Accepts(r.box, q, stack.kind)
        THEN Put(r, q, Smaller(MAX - r.box[q].count, r.left)) ELSE r]]
  OBVIOUS
<1>5. PICK fill : fill = [q \in Slots |-> [r \in Loads |->
        IF r.left > 0 /\ Free(r.box, q) THEN Put(r, q, Smaller(MAX, r.left)) ELSE r]]
  OBVIOUS
<1>6. PICK start : start = [box |-> b, dirty |-> {}, left |-> stack.count]
  OBVIOUS
<1>7. Absorb(b, stack) = Sweep(fill, Sweep(merge, start, Carried), Carried)
  BY <1>4, <1>5, <1>6, Zenon DEF Absorb
<1> DEFINE S == {x \in Loads : Loaded(b, kind, count, x)}
<1> DEFINE I == [n \in 0..N |-> S]
<1>8. start \in S
  <2>1. start.box = b /\ start.dirty = {} /\ start.left = count
    BY <1>1, <1>6
  <2>2. start \in Loads
    BY <1>6 DEF Loads
  <2>3. Loaded(b, kind, count, start)
    BY <2>1, <2>2 DEF Loaded, Within
  <2> QED
    BY <2>2, <2>3
<1>9. ASSUME NEW y \in S, NEW q \in Slots, NEW n \in Nat, Takes(y.box, q, kind), n <= y.left,
             y.box[q].count + n <= MAX
      PROVE  Put(y, q, n) \in S
  <2>1. PICK c : c = [y.box EXCEPT ![q] = Stack(kind, y.box[q].count + n)]
    OBVIOUS
  <2>2. Gets(y.box, c, q, kind, n)
    BY <2>1 DEF Gets
  <2>3. PICK z : z = [box |-> c, dirty |-> y.dirty \cup {q}, left |-> y.left - n]
    OBVIOUS
  <2>4. Loaded(b, kind, count, y)
    OBVIOUS
  <2>5. Loaded(b, kind, count, [box |-> c, dirty |-> y.dirty \cup {q}, left |-> y.left - n])
    BY <1>3, <1>9, <2>2, <2>4, LoadedPut
  <2>6. Loaded(b, kind, count, z)
    BY <2>3, <2>5
  <2>7. Put(y, q, n) = z
    BY <1>1, <2>1, <2>3
  <2> QED
    BY <2>6, <2>7 DEF Loaded
<1> HIDE DEF Put
<1>10. ASSUME NEW y \in S, NEW q \in Slots PROVE merge[q][y] \in S
  <2>1. merge[q][y] = IF y.left > 0 /\ Accepts(y.box, q, kind)
                      THEN Put(y, q, Smaller(MAX - y.box[q].count, y.left)) ELSE y
    BY <1>1, <1>4
  <2>2. CASE y.left > 0 /\ Accepts(y.box, q, kind)
    <3>1. PICK n : n = Smaller(MAX - y.box[q].count, y.left)
      OBVIOUS
    <3>2. /\ y.box \in Boxes /\ y.left \in 0..BYTE - 1 /\ q \in Places /\ BYTE \in Nat
      BY InventoryConstants DEF Loads, Places
    <3>3. Takes(y.box, q, kind) /\ y.box[q].count < MAX
      BY <2>2 DEF Accepts, Matches, Takes
    <3>4. y.box[q].count \in Nat
      BY <3>2, PlaceHolds
    <3>5. n \in Nat /\ n <= y.left /\ y.box[q].count + n <= MAX
      BY <1>3, <3>1, <3>2, <3>3, <3>4 DEF Smaller
    <3>6. Put(y, q, n) \in S
      BY <1>9, <3>3, <3>5
    <3> QED
      BY <2>1, <2>2, <3>1, <3>6
  <2>3. CASE ~(y.left > 0 /\ Accepts(y.box, q, kind))
    BY <2>1, <2>3
  <2> QED
    BY <2>2, <2>3
<1>11. ASSUME NEW y \in S, NEW q \in Slots PROVE fill[q][y] \in S
  <2>1. fill[q][y] = IF y.left > 0 /\ Free(y.box, q)
                     THEN Put(y, q, Smaller(MAX, y.left)) ELSE y
    BY <1>5
  <2>2. CASE y.left > 0 /\ Free(y.box, q)
    <3>1. PICK n : n = Smaller(MAX, y.left)
      OBVIOUS
    <3>2. /\ y.box \in Boxes /\ y.left \in 0..BYTE - 1 /\ q \in Places /\ BYTE \in Nat
      BY InventoryConstants DEF Loads, Places
    <3>3. Takes(y.box, q, kind) /\ y.box[q].count = 0
      BY <2>2, <3>2, PlaceHolds DEF Takes
    <3>4. n \in Nat /\ n <= y.left /\ y.box[q].count + n <= MAX
      BY <1>3, <3>1, <3>2, <3>3 DEF Smaller
    <3>5. Put(y, q, n) \in S
      BY <1>9, <3>3, <3>4
    <3> QED
      BY <2>1, <2>2, <3>1, <3>5
  <2>3. CASE ~(y.left > 0 /\ Free(y.box, q))
    BY <2>1, <2>3
  <2> QED
    BY <2>2, <2>3
<1> HIDE DEF S
<1>12. \A n \in 0..N : I[n] = S
  OBVIOUS
<1>13. PICK r : r = Sweep(merge, start, Carried)
  OBVIOUS
<1>14. r \in S
  <2>1. \A n \in 1..N : \A y \in I[n - 1] : merge[Carried[n]][y] \in I[n]
    BY <1>3, <1>10, <1>12
  <2>2. start \in I[0]
    BY <1>3, <1>8, <1>12
  <2>3. Sweep(merge, start, Carried) \in I[N]
    <3> HIDE DEF I
    <3> QED
      BY <1>2, <1>3, <2>1, <2>2, Sweeping
  <2> QED
    BY <1>3, <1>12, <1>13, <2>3
<1>15. Sweep(fill, r, Carried) \in S
  <2>1. \A n \in 1..N : \A y \in I[n - 1] : fill[Carried[n]][y] \in I[n]
    BY <1>3, <1>11, <1>12
  <2>2. r \in I[0]
    BY <1>3, <1>12, <1>14
  <2>3. Sweep(fill, r, Carried) \in I[N]
    <3> HIDE DEF I
    <3> QED
      BY <1>2, <1>3, <2>1, <2>2, Sweeping
  <2> QED
    BY <1>3, <1>12, <2>3
<1> QED
  BY <1>1, <1>7, <1>13, <1>15 DEF S

-------------------------------------------------------------------------------
(* What a step does.                                                           *)

\* The inductive invariant: what the runs check and the types of the state.
Inv == TypeOK /\ ClientSeesTruth /\ DragHasItems

\* What ItemsConserved says of a step that is no right drag running out.
Conserved ==
  Sane => \A k \in Kinds :
    Total(box', ground', k) - Total(box, ground, k) = made'[k] - made[k]

Piles == [1..Ground -> {Nothing} \cup [kind : Kinds, count : 1..BYTE - 1]]

\* What lies on the ground is a stack, and not an empty one.
LEMMA PilesStacks ==
  ASSUME NEW g \in Piles
  PROVE  /\ g \in [1..Ground -> Stacks]
         /\ \A e \in 1..Ground : g[e] \in Stacks /\ (g[e] # Nothing => g[e].kind \in Kinds
                                                      /\ g[e].count \in 1..BYTE - 1)
BY InventoryConstants DEF Piles, Stacks, Nothing

\* The items of one kind on the ground are a number.
LEMMA LyingInt ==
  ASSUME NEW g \in Piles, NEW k
  PROVE  Lying(g, k) \in Int
<1> DEFINE f == [e \in 1..Ground |-> Of(g[e], k)]
<1>1. \A e \in 1..Ground : Of(g[e], k) \in Int
  BY PilesStacks, Counts
<1>2. f \in [1..Ground -> Int] /\ Ground \in Nat
  BY <1>1, InventoryConstants
<1>3. Sum(f, Ground) \in Int
  <2> HIDE DEF f
  <2> QED
    BY <1>2, Sums
<1> QED
  BY <1>3, Zenon DEF Lying

\* So are all items of one kind.
LEMMA TotalInt ==
  ASSUME NEW b \in Boxes, NEW g \in Piles, NEW k
  PROVE  Total(b, g, k) \in Int
BY HeldInt, LyingInt DEF Total

\* One pile of those on the ground becomes another.
Piled(g, h, e, s) == h = [g EXCEPT ![e] = s]

\* Piled, in terms of the items that lie there.
LEMMA PileChange ==
  ASSUME NEW g \in Piles, NEW e \in 1..Ground, NEW s, NEW h,
         s \in {Nothing} \cup [kind : Kinds, count : 1..BYTE - 1], Piled(g, h, e, s)
  PROVE  /\ h \in Piles
         /\ \A k : Lying(h, k) = Lying(g, k) + Of(s, k) - Of(g[e], k)
<1>1. h \in Piles
  BY DEF Piles, Piled
<1>2. g \in [1..Ground -> Stacks] /\ s \in Stacks
  BY PilesStacks, InventoryConstants DEF Stacks
<1>3. ASSUME NEW k PROVE Lying([g EXCEPT ![e] = s], k) = Lying(g, k) + Of(s, k) - Of(g[e], k)
  BY <1>2, LyingChange, Zenon
<1> QED
  BY <1>1, <1>3 DEF Piled

\* SpawnItem puts the whole stack down where there is room.
LEMMA Spawning ==
  ASSUME ground \in Piles, NEW stack \in Stacks, Spawn(stack)
  PROVE  /\ ground' \in Piles
         /\ stack.count = 0 => ground' = ground
         /\ Room # {} => \A k \in Kinds : Lying(ground', k) = Lying(ground, k) + Of(stack, k)
<1>1. CASE stack.kind = None \/ stack.count = 0 \/ Room = {}
  <2>1. ground' = ground
    BY <1>1 DEF Spawn
  <2>2. stack.kind = None => stack.count = 0
    BY InventoryConstants DEF Stacks, Nothing
  <2>3. stack.count = 0 => \A k \in Kinds : Of(stack, k) = 0
    BY DEF Of
  <2>4. \A k \in Kinds : Lying(ground, k) \in Int
    BY LyingInt
  <2>5. Room # {} => \A k \in Kinds : Lying(ground, k) = Lying(ground, k) + Of(stack, k)
    BY <1>1, <2>2, <2>3, <2>4
  <2> QED
    BY <2>1, <2>5
<1>2. CASE ~(stack.kind = None \/ stack.count = 0 \/ Room = {})
  <2>1. PICK p : p = CHOOSE e \in Room : \A f \in Room : e <= f
    OBVIOUS
  <2>2. ground' = [ground EXCEPT ![p] = stack]
    BY <1>2, <2>1 DEF Spawn
  <2>3. Room \subseteq 1..Ground /\ Room # {} /\ Ground \in Nat
    BY <1>2, InventoryConstants DEF Room
  <2>4. \E x \in Room : \A y \in Room : x <= y
    <3> HIDE DEF Room
    <3>1. Min(Room) \in Room /\ \A i \in Room : Min(Room) <= i
      BY <2>3, MinIn
    <3> QED
      BY <3>1
  <2>5. p \in Room
    BY <2>1, <2>4, Zenon
  <2>6. p \in 1..Ground
    BY <2>5 DEF Room
  <2>10. ground[p] = Nothing
    BY <2>5 DEF Room
  <2>7. stack \in {Nothing} \cup [kind : Kinds, count : 1..BYTE - 1]
    BY <1>2, InventoryConstants DEF Stacks, Nothing
  <2>8. /\ ground' \in Piles
        /\ \A k : Lying(ground', k) = Lying(ground, k) + Of(stack, k) - Of(ground[p], k)
    <3>1. Piled(ground, ground', p, stack)
      BY <2>2 DEF Piled
    <3> QED
      BY <2>6, <2>7, <3>1, PileChange
  <2>9. ASSUME NEW k \in Kinds PROVE Lying(ground', k) = Lying(ground, k) + Of(stack, k)
    <3>1. Of(ground[p], k) = 0
      BY <2>10 DEF Of, Nothing
    <3>2. Lying(ground, k) \in Int /\ Of(stack, k) \in Int
      BY LyingInt, Counts
    <3> QED
      BY <2>8, <3>1, <3>2
  <2> QED
    BY <1>2, <2>8, <2>9
<1> QED
  BY <1>1, <1>2

\* The invariant, in the terms of the lemmas.
LEMMA InvParts ==
  ASSUME Inv
  PROVE  /\ box \in Boxes /\ shown = box /\ ground \in Piles /\ made \in [Kinds -> Int]
         /\ selected \in 1..Len(Hotbar)
         /\ drag \in {NoDrag} \cup Drags /\ Path(drag.slots) /\ NoDrag \notin Drags
         /\ drag # NoDrag => ~Free(box, Cursor)
         /\ drag.button # None <=> drag # NoDrag
<1>1. None \notin {"left", "right"} /\ <<>> \in Seq(Slots)
  BY DEF None
<1>4. drag \in {NoDrag} \cup Drags
  BY DEF Inv, TypeOK, Drags
<1>5. \A d \in Drags : d.button \in {"left", "right"} /\ d.slots \in Seq(Slots)
  BY DEF Drags
<1>6. NoDrag.button = None /\ NoDrag.slots = <<>>
  BY DEF NoDrag
<1>2. NoDrag \notin Drags /\ drag \in {NoDrag} \cup Drags /\ drag.slots \in Seq(Slots)
  BY <1>1, <1>4, <1>5, <1>6
<1>3. drag.button # None <=> drag # NoDrag
  BY <1>1, <1>2 DEF Drags, NoDrag
<1> QED
  BY <1>2, <1>3 DEF Inv, TypeOK, ClientSeesTruth, DragHasItems, Piles, Path

\* What a step has to show for the invariant to hold again.
LEMMA InvAgain ==
  ASSUME Inv, box' \in Boxes, shown' = box', ground' \in Piles, made' \in [Kinds -> Int],
         selected' \in 1..Len(Hotbar),
         \/ drag' = NoDrag
         \/ drag' \in Drags /\ Path(drag'.slots) /\ ~Free(box', Cursor)
  PROVE  Inv'
<1>1. CASE drag' = NoDrag
  <2>1. Len(drag'.slots) = 0
    BY <1>1 DEF NoDrag
  <2> QED
    BY <1>1, <2>1 DEF Inv, TypeOK, ClientSeesTruth, DragHasItems, Piles
<1>2. CASE drag' \in Drags /\ Path(drag'.slots) /\ ~Free(box', Cursor)
  BY <1>2 DEF Inv, TypeOK, ClientSeesTruth, DragHasItems, Piles, Drags, Path, Free
<1> QED
  BY <1>1, <1>2

\* If all that changed is resent, the client who knew the truth knows it again.
LEMMA Becoming ==
  ASSUME Inv, NEW b, NEW dirty, Within(box, b, dirty), Become(b, dirty)
  PROVE  box' = b /\ shown' = box' /\ box' \in Boxes
<1>1. box' = b /\ b \in Boxes
  BY DEF Become, Within
<1>2. shown = box
  BY InvParts
<1>3. \A q \in Places : (IF q \in dirty THEN b[q] ELSE shown[q]) = b[q]
  BY <1>2 DEF Within
<1>4. b = [q \in Places |-> b[q]]
  BY <1>1 DEF Boxes
<1>5. shown' = b
  BY <1>3, <1>4 DEF Become
<1> QED
  BY <1>1, <1>5

\* A click resends at least what it says it changed.
LEMMA Clicking ==
  ASSUME Inv, NEW r, Within(box, r.box, r.dirty), Click(r)
  PROVE  /\ box' = r.box /\ shown' = box' /\ box' \in Boxes /\ drag' = NoDrag
         /\ selected' = selected /\ made' = made
<1>1. PICK D : D = Resync(r.dirty, drag)
  OBVIOUS
<1>2. Within(box, r.box, D)
  BY <1>1 DEF Resync, Within
<1>3. Become(r.box, D)
  BY <1>1 DEF Click
<1>4. box' = r.box /\ shown' = box' /\ box' \in Boxes
  BY <1>2, <1>3, Becoming
<1> QED
  BY <1>4 DEF Click

\* A step that leaves the ground alone.
LEMMA InBox ==
  ASSUME Inv, Normal(box) => Keeps(box, box'), ground' = ground, made' = made,
         box' \in Boxes
  PROVE  Conserved
<1> SUFFICES ASSUME Sane, NEW k \in Kinds
             PROVE  Total(box', ground', k) - Total(box, ground, k) = made'[k] - made[k]
  BY DEF Conserved
<1>1. Held(box', k) = Held(box, k)
  BY DEF Sane, Normal, Keeps
<1>2. Held(box, k) \in Int /\ Lying(ground, k) \in Int /\ made[k] \in Int
  BY InvParts, HeldInt, LyingInt
<1>3. Total(box', ground', k) = Total(box, ground, k)
  BY <1>1, Zenon DEF Total
<1>4. Total(box, ground, k) \in Int
  BY InvParts, TotalInt
<1> QED
  BY <1>2, <1>3, <1>4

\* A click that moves items about in the inventory.
LEMMA ClickGood ==
  ASSUME Inv, NEW r, Moves(box, r.box, r.dirty), Click(r), ground' = ground
  PROVE  Inv' /\ Conserved
<1>1. Within(box, r.box, r.dirty) /\ (Normal(box) => Keeps(box, r.box))
  BY DEF Moves
<1>2. /\ box' = r.box /\ shown' = box' /\ box' \in Boxes /\ drag' = NoDrag
      /\ selected' = selected /\ made' = made
  BY <1>1, Clicking
<1>3. ground' \in Piles /\ made' \in [Kinds -> Int] /\ selected' \in 1..Len(Hotbar)
  BY <1>2, InvParts
<1>4. Inv'
  BY <1>2, <1>3, InvAgain
<1>5. Conserved
  BY <1>1, <1>2, InBox
<1> QED
  BY <1>4, <1>5

-------------------------------------------------------------------------------
(* The clicks, one by one.                                                     *)

\* The parts of a result.
LEMMA ResultIs ==
  ASSUME NEW b, NEW D
  PROVE  Result(b, D).box = b /\ Result(b, D).dirty = D
BY DEF Result

\* Nothing done.
LEMMA MovesNone ==
  ASSUME NEW b \in Boxes, NEW D
  PROVE  Moves(b, b, D)
BY DEF Moves, Within, Keeps

\* One lemma for each action: it keeps the invariant and conserves items.
LEMMA LeftClicksGood ==
  ASSUME Inv, LeftClicks
  PROVE  Inv' /\ Conserved
<1>1. PICK s \in Inside : Click(Result(LeftClick(box, s), {s, Cursor})) /\ ground' = ground
  BY DEF LeftClicks
<1>2. PICK r : r = Result(LeftClick(box, s), {s, Cursor})
  OBVIOUS
<1>3. r.box = LeftClick(box, s) /\ r.dirty = {s, Cursor}
  BY <1>2, ResultIs
<1>4. Moves(box, LeftClick(box, s), {s, Cursor})
  BY InvParts, LeftClickMoves DEF Inside
<1> QED
  BY <1>1, <1>2, <1>3, <1>4, ClickGood

LEMMA RightClicksGood ==
  ASSUME Inv, RightClicks
  PROVE  Inv' /\ Conserved
<1>1. PICK s \in Inside : Click(Result(RightClick(box, s), {s, Cursor})) /\ ground' = ground
  BY DEF RightClicks
<1>2. PICK r : r = Result(RightClick(box, s), {s, Cursor})
  OBVIOUS
<1>3. r.box = RightClick(box, s) /\ r.dirty = {s, Cursor}
  BY <1>2, ResultIs
<1>4. Moves(box, RightClick(box, s), {s, Cursor})
  BY InvParts, RightClickMoves DEF Inside
<1> QED
  BY <1>1, <1>2, <1>3, <1>4, ClickGood

LEMMA ShiftClicksGood ==
  ASSUME Inv, ShiftClicks
  PROVE  Inv' /\ Conserved
<1>1. PICK s \in Inside : Click(ShiftClick(box, s)) /\ ground' = ground
  BY DEF ShiftClicks
<1>2. Moves(box, ShiftClick(box, s).box, ShiftClick(box, s).dirty)
  BY InvParts, ShiftClickMoves DEF Inside
<1> QED
  BY <1>1, <1>2, ClickGood

LEMMA DoubleClickGood ==
  ASSUME Inv, DoubleClick
  PROVE  Inv' /\ Conserved
<1>1. Click(Gather(box)) /\ ground' = ground
  BY DEF DoubleClick
<1>2. Moves(box, Gather(box).box, Gather(box).dirty)
  BY InvParts, GatherMoves
<1> QED
  BY <1>1, <1>2, ClickGood

LEMMA NumberKeysGood ==
  ASSUME Inv, NumberKeys
  PROVE  Inv' /\ Conserved
<1>1. PICK s \in Inside, h \in ToSet(Hotbar) :
        Click(Result(Swap(box, s, h), {s, h})) /\ ground' = ground
  BY DEF NumberKeys
<1>2. PICK r : r = Result(Swap(box, s, h), {s, h})
  OBVIOUS
<1>3. r.box = Swap(box, s, h) /\ r.dirty = {s, h}
  BY <1>2, ResultIs
<1>4. s \in Places /\ h \in Places
  BY Layout DEF Inside, Places, ToSet
<1>5. Within(box, Swap(box, s, h), {s, h}) /\ Keeps(box, Swap(box, s, h))
  BY <1>4, InvParts, Swapping
<1>6. Moves(box, Swap(box, s, h), {s, h})
  BY <1>5 DEF Moves
<1> QED
  BY <1>1, <1>2, <1>3, <1>6, ClickGood

LEMMA RefusedGood ==
  ASSUME Inv, Refused
  PROVE  Inv' /\ Conserved
<1>1. PICK dirty : Click(Result(box, dirty)) /\ ground' = ground
  BY DEF Refused
<1>2. PICK r : r = Result(box, dirty)
  OBVIOUS
<1>3. r.box = box /\ r.dirty = dirty
  BY <1>2, ResultIs
<1>4. Moves(box, box, dirty)
  BY InvParts, MovesNone
<1> QED
  BY <1>1, <1>2, <1>3, <1>4, ClickGood

LEMMA DragStartsGood ==
  ASSUME Inv, DragStarts
  PROVE  Inv' /\ Conserved
<1>1. PICK s \in Slots, button \in {"left", "right"} :
        /\ ~Free(box, Cursor) /\ drag' = [button |-> button, slots |-> <<s>>]
        /\ Become(box, Resync({}, drag))
        /\ selected' = selected /\ ground' = ground /\ made' = made
  BY DEF DragStarts
<1>2. Within(box, box, Resync({}, drag))
  BY InvParts DEF Within
<1>3. box' = box /\ shown' = box' /\ box' \in Boxes
  BY <1>1, <1>2, Becoming
<1>6. ~Free(box', Cursor)
  BY <1>1, <1>3
<1>7. drag' \in Drags /\ Path(drag'.slots)
  BY <1>1 DEF Drags, Path
<1>8. ground' \in Piles /\ made' \in [Kinds -> Int] /\ selected' \in 1..Len(Hotbar)
  BY <1>1, InvParts
<1>9. Inv'
  BY <1>3, <1>6, <1>7, <1>8, InvAgain
<1>10. Keeps(box, box')
  BY <1>3 DEF Keeps
<1> QED
  BY <1>1, <1>3, <1>9, <1>10, InBox

LEMMA DragGoesOnGood ==
  ASSUME Inv, DragGoesOn
  PROVE  Inv' /\ Conserved
<1>1. PICK s \in Slots :
        /\ drag.button # None /\ drag' = DragOver(drag, s)
        /\ UNCHANGED <<box, selected, ground, shown, made>>
  BY DEF DragGoesOn
<1>2. drag \in Drags /\ Path(drag.slots) /\ ~Free(box, Cursor)
  BY <1>1, InvParts
<1>3. drag' \in Drags /\ Path(drag'.slots)
  BY <1>1, <1>2, DragOverIs
<1>4. box' = box /\ box' \in Boxes /\ shown' = box' /\ ~Free(box', Cursor)
  BY <1>1, <1>2, InvParts
<1>5. ground' \in Piles /\ made' \in [Kinds -> Int] /\ selected' \in 1..Len(Hotbar)
  BY <1>1, InvParts
<1>6. Inv'
  BY <1>3, <1>4, <1>5, InvAgain
<1>7. Keeps(box, box')
  BY <1>4 DEF Keeps
<1> QED
  BY <1>1, <1>4, <1>6, <1>7, InBox

LEMMA DragEndsGood ==
  ASSUME Inv, NEW s \in Slots \cup {Outside}, DragEnds(s)
  PROVE  Inv' /\ (RunsOut \/ Conserved)
<1>1. LET r == DragEnd(box, DragOver(drag, s)) IN
        /\ drag.button # None
        /\ Become(r.box, r.dirty) /\ drag' = NoDrag
        /\ UNCHANGED <<selected, ground, made>>
  BY DEF DragEnds
<1>2. PICK d : d = DragOver(drag, s)
  OBVIOUS
<1>3. drag \in Drags /\ Path(drag.slots) /\ ~Free(box, Cursor)
  BY <1>1, InvParts
<1>4. d \in Drags /\ Path(d.slots)
  BY <1>2, <1>3, DragOverIs
<1>5. d.button = "right" /\ DragFits(box, d) /\ DragServed(box, d) > box[Cursor].count
        => RunsOut
  BY <1>2 DEF RunsOut
<1>6. PICK r : r = DragEnd(box, d)
  OBVIOUS
<1>7. Within(box, r.box, r.dirty) /\ (~RunsOut => Moves(box, r.box, r.dirty))
  BY <1>3, <1>4, <1>5, <1>6, InvParts, DragEndMoves
<1>8. Within(box, r.box, r.dirty) /\ (~RunsOut => (Normal(box) => Keeps(box, r.box)))
  BY <1>7 DEF Moves
<1>9. Become(r.box, r.dirty)
  BY <1>1, <1>2, <1>6
<1>10. box' = r.box /\ shown' = box' /\ box' \in Boxes
  BY <1>8, <1>9, Becoming
<1>11. /\ drag' = NoDrag /\ ground' = ground /\ made' = made
       /\ ground' \in Piles /\ made' \in [Kinds -> Int] /\ selected' \in 1..Len(Hotbar)
  BY <1>1, InvParts
<1>12. Inv'
  BY <1>10, <1>11, InvAgain
<1>13. ~RunsOut => (Normal(box) => Keeps(box, box'))
  BY <1>8, <1>10
<1>14. CASE RunsOut
  BY <1>12, <1>14
<1>15. CASE ~RunsOut
  BY <1>10, <1>11, <1>12, <1>13, <1>15, InBox
<1> QED
  BY <1>14, <1>15

-------------------------------------------------------------------------------
(* Items leave for the ground and come back.                                   *)

\* Items are taken out of a stack.
Lost(b, c, q, kind, n) ==
  /\ Within(b, c, {q})
  /\ n \in 0..b[q].count =>
       \A k \in Kinds : Held(c, k) = Held(b, k) - (IF kind = k THEN n ELSE 0)

\* n items less in a stack, which is cleared when used up.
LEMMA Removing ==
  ASSUME NEW b \in Boxes, NEW q \in Places, ~Free(b, q), NEW n \in Int
  PROVE  Lost(b, Tidy(Add(b, q, -n), q), q, b[q].kind, n)
<1>1. PICK m : m = -n
  OBVIOUS
<1>2. m \in Int
  BY <1>1
<1>3. Got(b, Add(b, q, m), q, b[q].kind, m)
  BY <1>2, Adding
<1>4. PICK c : c = Add(b, q, m)
  OBVIOUS
<1>5. Within(b, c, {q}) /\ c \in Boxes
  BY <1>3, <1>4 DEF Got, Within
<1>6. Within(c, Tidy(c, q), {q}) /\ Keeps(c, Tidy(c, q))
  BY <1>5, Tidying
<1>7. Within(b, Tidy(c, q), {q})
  BY <1>5, <1>6 DEF Within
<1>8. ASSUME n \in 0..b[q].count, NEW k \in Kinds
      PROVE  Held(Tidy(c, q), k) = Held(b, k) - (IF b[q].kind = k THEN n ELSE 0)
  <2>1. b[q].count \in 0..BYTE - 1 /\ BYTE \in Nat
    BY PlaceHolds, InventoryConstants
  <2>2. b[q].count + m \in 0..BYTE - 1
    BY <1>1, <1>8, <2>1
  <2>3. Held(c, k) = Held(b, k) + (IF b[q].kind = k THEN m ELSE 0)
    BY <1>3, <1>4, <2>2 DEF Got
  <2>4. Held(Tidy(c, q), k) = Held(c, k)
    BY <1>6 DEF Keeps
  <2>5. Held(b, k) \in Int
    BY HeldInt
  <2> QED
    BY <2>3, <2>4, <2>5, <1>1
<1>9. Tidy(Add(b, q, -n), q) = Tidy(c, q)
  BY <1>1, <1>4
<1>10. Lost(b, Tidy(c, q), q, b[q].kind, n)
  BY <1>7, <1>8 DEF Lost
<1> QED
  BY <1>9, <1>10

\* What comes into the inventory and onto the ground is what is made.
LEMMA Accounts ==
  ASSUME Inv, box' \in Boxes, ground' \in Piles, made' \in [Kinds -> Int],
         Sane => \A k \in Kinds : \E x, y \in Int :
           /\ Held(box', k) = Held(box, k) + x /\ Lying(ground', k) = Lying(ground, k) + y
           /\ made'[k] = made[k] + x + y
  PROVE  Conserved
<1> SUFFICES ASSUME Sane, NEW k \in Kinds
             PROVE  Total(box', ground', k) - Total(box, ground, k) = made'[k] - made[k]
  BY DEF Conserved
<1>1. PICK x, y \in Int :
        /\ Held(box', k) = Held(box, k) + x /\ Lying(ground', k) = Lying(ground, k) + y
        /\ made'[k] = made[k] + x + y
  OBVIOUS
<1>2. Held(box, k) \in Int /\ Lying(ground, k) \in Int /\ made[k] \in Int
  BY InvParts, HeldInt, LyingInt
<1>3. Total(box', ground', k) = (Held(box, k) + x) + (Lying(ground, k) + y)
  BY <1>1 DEF Total
<1>4. Total(box, ground, k) = Held(box, k) + Lying(ground, k)
  BY DEF Total
<1> QED
  BY <1>1, <1>2, <1>3, <1>4

\* The items of a stack that is made.
LEMMA OfStack ==
  ASSUME NEW kind, NEW n \in 0..BYTE - 1, NEW k
  PROVE  Of(Stack(kind, n), k) = IF kind = k THEN n ELSE 0
<1>1. n \in Int
  OBVIOUS
<1> QED
  BY <1>1, StackIs DEF Of

LEMMA DropClicksGood ==
  ASSUME Inv, DropClicks
  PROVE  Inv' /\ Conserved
<1>1. PICK q \in Places :
        IF Free(box, q) THEN Click(Result(box, {})) /\ UNCHANGED ground
        ELSE \/ Spawn(Stack(box[q].kind, 1)) /\ Click(Result(DropOne(box, q), {q}))
             \/ Spawn(box[q]) /\ Click(Result([box EXCEPT ![q] = Nothing], {q}))
  BY DEF DropClicks
<1>2. box \in Boxes /\ ground \in Piles /\ made \in [Kinds -> Int]
      /\ selected \in 1..Len(Hotbar)
  BY InvParts
<1>3. CASE Free(box, q)
  <2>1. PICK r : r = Result(box, {})
    OBVIOUS
  <2>2. r.box = box /\ r.dirty = {}
    BY <2>1, ResultIs
  <2>3. Moves(box, box, {})
    BY <1>2, MovesNone
  <2> QED
    BY <1>1, <1>3, <2>1, <2>2, <2>3, ClickGood
<1>4. CASE ~Free(box, q) /\ Spawn(Stack(box[q].kind, 1)) /\ Click(Result(DropOne(box, q), {q}))
  <2>1. PICK r : r = Result(DropOne(box, q), {q})
    OBVIOUS
  <2>2. r.box = DropOne(box, q) /\ r.dirty = {q} /\ Click(r)
    BY <1>4, <2>1, ResultIs
  <2>3. Lost(box, Tidy(Add(box, q, -1), q), q, box[q].kind, 1)
    BY <1>2, <1>4, Removing
  <2>4. Lost(box, r.box, q, box[q].kind, 1)
    BY <2>2, <2>3 DEF DropOne
  <2>5. Within(box, r.box, r.dirty)
    BY <2>2, <2>4 DEF Lost
  <2>6. /\ box' = r.box /\ shown' = box' /\ box' \in Boxes /\ drag' = NoDrag
        /\ selected' = selected /\ made' = made
    BY <2>2, <2>5, Clicking
  <2>7. box[q].kind \in Kinds /\ 1 \in 0..BYTE - 1 /\ MAX \in Nat
    BY <1>2, <1>4, PlaceHolds, InventoryConstants
  <2>8. Stack(box[q].kind, 1) \in Stacks
    BY <2>7, StackIs
  <2>9. /\ ground' \in Piles
        /\ Room # {} => \A k \in Kinds :
             Lying(ground', k) = Lying(ground, k) + Of(Stack(box[q].kind, 1), k)
    BY <1>2, <1>4, <2>8, Spawning
  <2>10. ASSUME Sane, NEW k \in Kinds
         PROVE  \E x, y \in Int :
           /\ Held(box', k) = Held(box, k) + x /\ Lying(ground', k) = Lying(ground, k) + y
           /\ made'[k] = made[k] + x + y
    <3> DEFINE y == IF box[q].kind = k THEN 1 ELSE 0
    <3>1. Lying(ground', k) = Lying(ground, k) + y
      BY <2>7, <2>9, <2>10, OfStack DEF Sane
    <3>2. 1 \in 0..box[q].count
      BY <1>4, <2>7, <2>10 DEF Sane
    <3>3. Held(box', k) = Held(box, k) - y
      BY <2>4, <2>6, <3>2 DEF Lost
    <3>4. y \in Int /\ -y \in Int /\ Held(box, k) \in Int /\ made[k] \in Int
      BY <1>2, HeldInt
    <3>5. Held(box', k) = Held(box, k) + (-y) /\ made'[k] = made[k] + (-y) + y
      BY <2>6, <3>3, <3>4
    <3> QED
      BY <3>1, <3>4, <3>5
  <2>11. Conserved
    BY <1>2, <2>6, <2>9, <2>10, Accounts
  <2>12. Inv'
    BY <1>2, <2>6, <2>9, InvAgain
  <2> QED
    BY <2>11, <2>12
<1>5. CASE ~Free(box, q) /\ Spawn(box[q]) /\ Click(Result([box EXCEPT ![q] = Nothing], {q}))
  <2>1. PICK c : c = [box EXCEPT ![q] = Nothing]
    OBVIOUS
  <2>2. PICK r : r = Result(c, {q})
    OBVIOUS
  <2>3. r.box = c /\ r.dirty = {q} /\ Click(r)
    BY <1>5, <2>1, <2>2, ResultIs
  <2>4. Within(box, c, {q}) /\ c[q] = Nothing
    BY <1>2, <2>1 DEF Within, Boxes, Stacks
  <2>5. Within(box, r.box, r.dirty)
    BY <2>3, <2>4
  <2>6. /\ box' = r.box /\ shown' = box' /\ box' \in Boxes /\ drag' = NoDrag
        /\ selected' = selected /\ made' = made
    BY <2>3, <2>5, Clicking
  <2>7. box[q] \in Stacks
    BY <1>2, PlaceHolds
  <2>8. /\ ground' \in Piles
        /\ Room # {} => \A k \in Kinds : Lying(ground', k) = Lying(ground, k) + Of(box[q], k)
    BY <1>2, <1>5, <2>7, Spawning
  <2>9. ASSUME Sane, NEW k \in Kinds
        PROVE  \E x, y \in Int :
          /\ Held(box', k) = Held(box, k) + x /\ Lying(ground', k) = Lying(ground, k) + y
          /\ made'[k] = made[k] + x + y
    <3> DEFINE y == Of(box[q], k)
    <3>1. Lying(ground', k) = Lying(ground, k) + y
      BY <2>8, <2>9 DEF Sane
    <3>2. Held(c, k) = Held(box, k) + Of(c[q], k) - Of(box[q], k)
      <4>1. Within(box, c, {q})
        BY <2>4
      <4> QED
        BY <1>2, <4>1, HeldChange
    <3>3. Of(c[q], k) = 0
      BY <2>4 DEF Of, Nothing
    <3>4. y \in Int /\ -y \in Int /\ Held(box, k) \in Int /\ made[k] \in Int
      BY <1>2, <2>7, HeldInt, Counts
    <3> HIDE DEF y
    <3>5. Held(box', k) = Held(box, k) + 0 - y
      BY <2>3, <2>6, <3>2, <3>3 DEF y
    <3>6. Held(box', k) = Held(box, k) + (-y) /\ made'[k] = made[k] + (-y) + y
      BY <2>6, <3>4, <3>5
    <3> QED
      BY <3>1, <3>4, <3>6
  <2>10. Conserved
    BY <1>2, <2>6, <2>8, <2>9, Accounts
  <2>11. Inv'
    BY <1>2, <2>6, <2>8, InvAgain
  <2> QED
    BY <2>10, <2>11
<1> QED
  BY <1>1, <1>3, <1>4, <1>5

\* A step that leaves the cursor and the drag alone.
LEMMA SlotsOnly ==
  ASSUME Inv, NEW b, NEW D, D \subseteq Slots, Within(box, b, D), Become(b, D),
         ground' \in Piles, made' \in [Kinds -> Int], drag' = drag,
         selected' \in 1..Len(Hotbar)
  PROVE  box' = b /\ box' \in Boxes /\ Inv'
<1>1. box' = b /\ shown' = box' /\ box' \in Boxes
  BY Becoming
<1>2. Cursor \in Places /\ Cursor \notin D
  BY Layout DEF Places
<1>3. b[Cursor] = box[Cursor]
  BY <1>2 DEF Within
<1>4. Free(box', Cursor) <=> Free(box, Cursor)
  BY <1>1, <1>3 DEF Free
<1>5. drag # NoDrag => drag \in Drags /\ Path(drag.slots) /\ ~Free(box', Cursor)
  BY <1>4, InvParts
<1>6. \/ drag' = NoDrag
      \/ drag' \in Drags /\ Path(drag'.slots) /\ ~Free(box', Cursor)
  BY <1>5
<1>7. Inv'
  BY <1>1, <1>6, InvAgain
<1> QED
  BY <1>1, <1>7

\* What is in the hand is a stack in a slot.
LEMMA InHand ==
  ASSUME Inv, box[Hand].count > 0
  PROVE  Hand \in Slots /\ Hand \in Places /\ ~Free(box, Hand) /\ box[Hand].kind \in Kinds
         /\ box[Hand].count \in 0..BYTE - 1
<1>1. Hand \in Slots /\ Hand \in Places
  BY InvParts, Layout DEF Hand, Places
<1> QED
  BY <1>1, InvParts, PlaceHolds

LEMMA DropHeldGood ==
  ASSUME Inv, DropHeld
  PROVE  Inv' /\ Conserved
<1>1. PICK n \in {1, box[Hand].count} :
        /\ Spawn(Stack(box[Hand].kind, n))
        /\ Become(Tidy(Add(box, Hand, -n), Hand), {Hand})
  BY DEF DropHeld
<1>2. PICK kind : kind = box[Hand].kind
  OBVIOUS
<1>3. box[Hand].count > 0 /\ drag' = drag /\ selected' = selected /\ made' = made
  BY DEF DropHeld
<1>4. /\ Hand \in Slots /\ Hand \in Places /\ ~Free(box, Hand) /\ kind \in Kinds
      /\ box[Hand].count \in 0..BYTE - 1
  BY <1>2, <1>3, InHand
<1>5. n \in 0..box[Hand].count /\ n \in 0..BYTE - 1 /\ n \in Int
  BY <1>1, <1>3, <1>4, InventoryConstants
<1>6. box \in Boxes /\ ground \in Piles /\ made \in [Kinds -> Int]
      /\ selected \in 1..Len(Hotbar)
  BY InvParts
<1>7. PICK b : b = Tidy(Add(box, Hand, -n), Hand)
  OBVIOUS
<1>8. Lost(box, b, Hand, kind, n)
  BY <1>2, <1>4, <1>5, <1>6, <1>7, Removing
<1>9. Within(box, b, {Hand}) /\ Become(b, {Hand})
  BY <1>1, <1>7, <1>8 DEF Lost
<1>10. Stack(kind, n) \in Stacks
  BY <1>4, <1>5, StackIs
<1>11. /\ ground' \in Piles
       /\ Room # {} => \A k \in Kinds :
            Lying(ground', k) = Lying(ground, k) + Of(Stack(kind, n), k)
  BY <1>1, <1>2, <1>6, <1>10, Spawning
<1>12. box' = b /\ box' \in Boxes /\ Inv'
  BY <1>3, <1>4, <1>6, <1>9, <1>11, SlotsOnly
<1>13. ASSUME Sane, NEW k \in Kinds
       PROVE  \E x, y \in Int :
         /\ Held(box', k) = Held(box, k) + x /\ Lying(ground', k) = Lying(ground, k) + y
         /\ made'[k] = made[k] + x + y
  <2> DEFINE y == IF kind = k THEN n ELSE 0
  <2>1. Lying(ground', k) = Lying(ground, k) + y
    BY <1>5, <1>11, <1>13, OfStack DEF Sane
  <2>2. Held(box', k) = Held(box, k) - y
    BY <1>5, <1>8, <1>12 DEF Lost
  <2>3. y \in Int /\ -y \in Int /\ Held(box, k) \in Int /\ made[k] \in Int
    BY <1>5, <1>6, HeldInt
  <2>4. Held(box', k) = Held(box, k) + (-y) /\ made'[k] = made[k] + (-y) + y
    BY <1>3, <2>2, <2>3
  <2> QED
    BY <2>1, <2>3, <2>4
<1>14. Conserved
  BY <1>3, <1>6, <1>11, <1>12, <1>13, Accounts
<1> QED
  BY <1>12, <1>14

LEMMA PlaceHeldGood ==
  ASSUME Inv, PlaceHeld
  PROVE  Inv' /\ Conserved
<1>1. PICK kind : kind = box[Hand].kind
  OBVIOUS
<1>2. /\ box[Hand].count > 0 /\ Become(Tidy(Add(box, Hand, -1), Hand), {Hand})
      /\ drag' = drag /\ selected' = selected /\ ground' = ground
      /\ made' = [made EXCEPT ![kind] = @ - 1]
  BY <1>1 DEF PlaceHeld
<1>3. /\ Hand \in Slots /\ Hand \in Places /\ ~Free(box, Hand) /\ kind \in Kinds
      /\ box[Hand].count \in 0..BYTE - 1
  BY <1>1, <1>2, InHand
<1>4. box \in Boxes /\ ground \in Piles /\ made \in [Kinds -> Int]
      /\ selected \in 1..Len(Hotbar)
  BY InvParts
<1>5. PICK b : b = Tidy(Add(box, Hand, -1), Hand)
  OBVIOUS
<1>6. Lost(box, b, Hand, kind, 1)
  BY <1>1, <1>3, <1>4, <1>5, Removing
<1>7. Within(box, b, {Hand}) /\ Become(b, {Hand})
  BY <1>2, <1>5, <1>6 DEF Lost
<1>8. made' \in [Kinds -> Int]
      /\ \A k \in Kinds : made'[k] = made[k] - (IF kind = k THEN 1 ELSE 0)
  BY <1>2, <1>3, <1>4
<1>9. box' = b /\ box' \in Boxes /\ Inv'
  BY <1>2, <1>3, <1>4, <1>7, <1>8, SlotsOnly
<1>10. ASSUME Sane, NEW k \in Kinds
       PROVE  \E x, y \in Int :
         /\ Held(box', k) = Held(box, k) + x /\ Lying(ground', k) = Lying(ground, k) + y
         /\ made'[k] = made[k] + x + y
  <2> DEFINE x == -(IF kind = k THEN 1 ELSE 0)
  <2>1. 1 \in 0..box[Hand].count
    BY <1>2, <1>3
  <2>2. Held(box, k) \in Int /\ Lying(ground, k) \in Int /\ made[k] \in Int /\ x \in Int
    BY <1>4, HeldInt, LyingInt
  <2>3. Held(box', k) = Held(box, k) + x
    BY <1>6, <1>9, <2>1, <2>2 DEF Lost
  <2>4. Lying(ground', k) = Lying(ground, k) + 0 /\ made'[k] = made[k] + x + 0
    BY <1>2, <1>8, <2>2
  <2> QED
    BY <2>2, <2>3, <2>4
<1>11. Conserved
  BY <1>2, <1>4, <1>8, <1>9, <1>10, Accounts
<1> QED
  BY <1>9, <1>11

LEMMA MineGood ==
  ASSUME Inv, NEW kind \in Kinds, Mine(kind)
  PROVE  Inv' /\ Conserved
<1>1. /\ Spawn(Stack(kind, 1)) /\ UNCHANGED <<box, drag, selected, shown>>
      /\ made' = [made EXCEPT ![kind] = IF Room = {} THEN @ ELSE @ + 1]
  BY DEF Mine
<1>2. /\ box \in Boxes /\ shown = box /\ ground \in Piles /\ made \in [Kinds -> Int]
      /\ selected \in 1..Len(Hotbar)
  BY InvParts
<1>3. 1 \in 0..BYTE - 1 /\ 1 \in Int
  BY InventoryConstants
<1>4. Stack(kind, 1) \in Stacks
  BY <1>3, StackIs
<1>5. /\ ground' \in Piles
      /\ Room # {} => \A k \in Kinds :
           Lying(ground', k) = Lying(ground, k) + Of(Stack(kind, 1), k)
  BY <1>1, <1>2, <1>4, Spawning
<1>6. /\ made' \in [Kinds -> Int]
      /\ Room # {} => \A k \in Kinds : made'[k] = made[k] + (IF kind = k THEN 1 ELSE 0)
  BY <1>1, <1>2
<1>7. \/ drag' = NoDrag
      \/ drag' \in Drags /\ Path(drag'.slots) /\ ~Free(box', Cursor)
  BY <1>1, InvParts DEF Free
<1>8. Inv'
  BY <1>1, <1>2, <1>5, <1>6, <1>7, InvAgain
<1>9. ASSUME Sane, NEW k \in Kinds
      PROVE  \E x, y \in Int :
        /\ Held(box', k) = Held(box, k) + x /\ Lying(ground', k) = Lying(ground, k) + y
        /\ made'[k] = made[k] + x + y
  <2> DEFINE y == IF kind = k THEN 1 ELSE 0
  <2>1. Lying(ground', k) = Lying(ground, k) + y
    BY <1>3, <1>5, <1>9, OfStack DEF Sane
  <2>2. y \in Int /\ Held(box, k) \in Int /\ made[k] \in Int
    BY <1>2, HeldInt
  <2>3. Held(box', k) = Held(box, k) + 0
    BY <1>1, <2>2
  <2>4. made'[k] = made[k] + 0 + y
    BY <1>6, <1>9, <2>2 DEF Sane
  <2> QED
    BY <2>1, <2>2, <2>3, <2>4
<1>10. Conserved
  BY <1>1, <1>2, <1>5, <1>6, <1>9, Accounts
<1> QED
  BY <1>8, <1>10

LEMMA PickUpGood ==
  ASSUME Inv, NEW e \in 1..Ground, PickUp(e)
  PROVE  Inv' /\ Conserved
<1>1. PICK stack : stack = ground[e]
  OBVIOUS
<1>2. PICK r : r = Absorb(box, stack)
  OBVIOUS
<1>3. PICK rest : rest = IF r.left = 0 THEN Nothing ELSE Stack(stack.kind, r.left)
  OBVIOUS
<1>4. /\ box \in Boxes /\ ground \in Piles /\ made \in [Kinds -> Int]
      /\ selected \in 1..Len(Hotbar)
  BY InvParts
<1>5. /\ stack # Nothing /\ Become(r.box, r.dirty)
      /\ drag' = drag /\ selected' = selected /\ made' = made
  BY <1>1, <1>2 DEF PickUp
<1>6. ground' = [ground EXCEPT ![e] = rest]
  <2>1. ground' = [ground EXCEPT ![e] = IF r.left = 0 THEN Nothing ELSE Stack(@.kind, r.left)]
    BY <1>1, <1>2, Zenon DEF PickUp
  <2> QED
    BY <1>1, <1>3, <1>4, <2>1 DEF Piles
<1>7. stack \in Stacks /\ stack.kind \in Kinds /\ stack.count \in 1..BYTE - 1
      /\ stack.count \in 0..BYTE - 1
  BY <1>1, <1>4, <1>5, PilesStacks, InventoryConstants
<1>8. Loaded(box, stack.kind, stack.count, r)
  BY <1>2, <1>4, <1>7, AbsorbLoads
<1>9. r.dirty \subseteq Slots /\ Within(box, r.box, r.dirty) /\ r.left \in 0..BYTE - 1
  BY <1>8 DEF Loaded, Loads
<1>10. rest \in {Nothing} \cup [kind : Kinds, count : 1..BYTE - 1]
       /\ \A k \in Kinds : Of(rest, k) = IF stack.kind = k THEN r.left ELSE 0
  <2>1. CASE r.left = 0
    BY <1>3, <2>1 DEF Nothing, Of
  <2>2. CASE r.left # 0
    <3>1. r.left \in 1..BYTE - 1 /\ r.left \in Int
      BY <1>9, <2>2, InventoryConstants
    <3>2. rest = Stack(stack.kind, r.left)
      BY <1>3, <2>2
    <3>3. rest \in Stacks /\ rest # Nothing /\ rest.count = r.left /\ rest.kind = stack.kind
      BY <1>7, <1>9, <3>1, <3>2, StackIs
    <3> QED
      BY <3>1, <3>3 DEF Stacks, Of
  <2> QED
    BY <2>1, <2>2
<1>11. /\ ground' \in Piles
       /\ \A k : Lying(ground', k) = Lying(ground, k) + Of(rest, k) - Of(stack, k)
  <2>1. Piled(ground, ground', e, rest)
    BY <1>6 DEF Piled
  <2> QED
    BY <1>1, <1>4, <1>10, <2>1, PileChange
<1>12. box' = r.box /\ box' \in Boxes /\ Inv'
  BY <1>4, <1>5, <1>9, <1>11, SlotsOnly
<1>13. ASSUME Sane, NEW k \in Kinds
       PROVE  \E x, y \in Int :
         /\ Held(box', k) = Held(box, k) + x /\ Lying(ground', k) = Lying(ground, k) + y
         /\ made'[k] = made[k] + x + y
  <2> DEFINE x == IF stack.kind = k THEN stack.count - r.left ELSE 0
  <2>1. Normal(box)
    BY <1>13 DEF Sane, Normal
  <2>2. Held(r.box, k) + (IF stack.kind = k THEN r.left ELSE 0)
          = Held(box, k) + (IF stack.kind = k THEN stack.count ELSE 0)
    BY <1>8, <2>1 DEF Loaded
  <2>3. /\ Held(box, k) \in Int /\ Held(box', k) \in Int /\ Lying(ground, k) \in Int
        /\ made[k] \in Int /\ x \in Int /\ -x \in Int
    BY <1>4, <1>7, <1>9, <1>12, HeldInt, LyingInt
  <2>4. Held(box', k) = Held(box, k) + x
    BY <1>7, <1>9, <1>12, <2>2, <2>3
  <2>5. Of(rest, k) - Of(stack, k) = -x
    BY <1>7, <1>9, <1>10 DEF Of
  <2>6. Of(rest, k) \in Int /\ Of(stack, k) \in Int
    BY <1>7, <1>9, <1>10 DEF Of
  <2> HIDE DEF x
  <2>7. Lying(ground', k) = Lying(ground, k) + (-x)
    BY <1>11, <2>3, <2>5, <2>6
  <2>8. made'[k] = made[k] + x + (-x)
    BY <1>5, <2>3
  <2> QED
    BY <2>3, <2>4, <2>7, <2>8
<1>14. Conserved
  BY <1>4, <1>5, <1>11, <1>12, <1>13, Accounts
<1> QED
  BY <1>12, <1>14

LEMMA DespawnGood ==
  ASSUME Inv, NEW e \in 1..Ground, Despawn(e)
  PROVE  Inv' /\ Conserved
<1>1. PICK stack : stack = ground[e]
  OBVIOUS
<1>2. /\ stack # Nothing /\ ground' = [ground EXCEPT ![e] = Nothing]
      /\ made' = [made EXCEPT ![stack.kind] = @ - stack.count]
      /\ UNCHANGED <<box, drag, selected, shown>>
  BY <1>1 DEF Despawn
<1>3. /\ box \in Boxes /\ shown = box /\ ground \in Piles /\ made \in [Kinds -> Int]
      /\ selected \in 1..Len(Hotbar)
  BY InvParts
<1>4. stack.kind \in Kinds /\ stack.count \in Int
  BY <1>1, <1>2, <1>3, PilesStacks, InventoryConstants
<1>5. /\ ground' \in Piles
      /\ \A k : Lying(ground', k) = Lying(ground, k) + Of(Nothing, k) - Of(stack, k)
  <2>1. Piled(ground, ground', e, Nothing)
    BY <1>2 DEF Piled
  <2> QED
    BY <1>1, <1>3, <2>1, PileChange
<1>6. /\ made' \in [Kinds -> Int]
      /\ \A k \in Kinds : made'[k] = made[k] - Of(stack, k)
  BY <1>2, <1>3, <1>4 DEF Of
<1>7. \/ drag' = NoDrag
      \/ drag' \in Drags /\ Path(drag'.slots) /\ ~Free(box', Cursor)
  BY <1>2, InvParts DEF Free
<1>8. Inv'
  BY <1>2, <1>3, <1>5, <1>6, <1>7, InvAgain
<1>9. ASSUME Sane, NEW k \in Kinds
      PROVE  \E x, y \in Int :
        /\ Held(box', k) = Held(box, k) + x /\ Lying(ground', k) = Lying(ground, k) + y
        /\ made'[k] = made[k] + x + y
  <2>1. PICK n : n = Of(stack, k)
    OBVIOUS
  <2>2. /\ Held(box, k) \in Int /\ Lying(ground, k) \in Int /\ made[k] \in Int
        /\ n \in Int /\ -n \in Int
    BY <1>3, <1>4, <2>1, HeldInt, LyingInt DEF Of
  <2>3. Of(Nothing, k) = 0
    BY DEF Of, Nothing
  <2>4. Lying(ground', k) = Lying(ground, k) + (-n)
    BY <1>5, <2>1, <2>2, <2>3
  <2>5. made'[k] = made[k] + 0 + (-n)
    BY <1>6, <2>1, <2>2
  <2>6. Held(box', k) = Held(box, k) + 0
    BY <1>2, <2>2
  <2> QED
    BY <2>2, <2>4, <2>5, <2>6
<1>10. Conserved
  BY <1>2, <1>3, <1>5, <1>6, <1>9, Accounts
<1> QED
  BY <1>8, <1>10

LEMMA HoldItemGood ==
  ASSUME Inv, NEW i \in 1..Len(Hotbar), HoldItem(i)
  PROVE  Inv' /\ Conserved
<1>1. selected' = i /\ UNCHANGED <<box, drag, ground, shown, made>>
  BY DEF HoldItem
<1>2. /\ box' \in Boxes /\ shown' = box' /\ ground' \in Piles /\ made' \in [Kinds -> Int]
      /\ selected' \in 1..Len(Hotbar)
  BY <1>1, InvParts
<1>3. \/ drag' = NoDrag
      \/ drag' \in Drags /\ Path(drag'.slots) /\ ~Free(box', Cursor)
  BY <1>1, InvParts DEF Free
<1>4. Inv'
  BY <1>2, <1>3, InvAgain
<1>5. Keeps(box, box')
  BY <1>1 DEF Keeps
<1> QED
  BY <1>1, <1>2, <1>4, <1>5, InBox

LEMMA CreativeGood ==
  ASSUME Inv, NEW s \in Slots, NEW stack \in Stacks, Creative(s, stack)
  PROVE  Inv' /\ Conserved
<1>1. PICK b : b = [box EXCEPT ![s] = stack]
  OBVIOUS
<1>2. /\ Become(b, {s}) /\ drag' = drag /\ selected' = selected /\ ground' = ground
      /\ made' = [k \in Kinds |-> made[k] + Total(b, ground, k) - Total(box, ground, k)]
  BY <1>1 DEF Creative
<1>3. /\ box \in Boxes /\ ground \in Piles /\ made \in [Kinds -> Int]
      /\ selected \in 1..Len(Hotbar)
  BY InvParts
<1>4. Within(box, b, {s}) /\ b \in Boxes
  BY <1>1, <1>3 DEF Within, Boxes
<1>5. \A k \in Kinds : Total(b, ground, k) \in Int /\ Total(box, ground, k) \in Int
                       /\ made[k] \in Int
  BY <1>3, <1>4, TotalInt
<1>6. made' \in [Kinds -> Int]
  BY <1>2, <1>5
<1>7. box' = b /\ box' \in Boxes /\ Inv'
  BY <1>2, <1>3, <1>4, <1>6, SlotsOnly
<1>8. ASSUME NEW k \in Kinds
      PROVE  Total(box', ground', k) - Total(box, ground, k) = made'[k] - made[k]
  <2>1. Total(box', ground', k) = Total(b, ground, k)
    BY <1>2, <1>7
  <2>2. made'[k] = made[k] + Total(b, ground, k) - Total(box, ground, k)
    BY <1>2
  <2> QED
    BY <1>5, <2>1, <2>2
<1> QED
  BY <1>7, <1>8 DEF Conserved

-------------------------------------------------------------------------------
(* The theorems.                                                               *)

\* An empty inventory, and a client who knows.
LEMMA InitInv == Init => Inv
<1> SUFFICES ASSUME Init PROVE Inv
  OBVIOUS
<1>1. Nothing \in Stacks /\ Nothing \in {Nothing} \cup [kind : Kinds, count : 1..BYTE - 1]
  BY DEF Stacks
<1>2. box = [q \in Places |-> Nothing] /\ shown = box
  BY DEF Init
<1>3. box \in Boxes /\ shown \in Boxes
  BY <1>1, <1>2 DEF Boxes
<1>4. ground \in [1..Ground -> {Nothing} \cup [kind : Kinds, count : 1..BYTE - 1]]
  BY <1>1 DEF Init
<1>5. drag = NoDrag /\ Len(drag.slots) = 0
  BY DEF Init, NoDrag
<1>6. selected \in 1..Len(Hotbar) /\ made \in [Kinds -> Int]
  BY Layout DEF Init
<1> QED
  BY <1>2, <1>3, <1>4, <1>5, <1>6 DEF Inv, TypeOK, ClientSeesTruth, DragHasItems

LEMMA ClicksGood ==
  ASSUME Inv, Clicks
  PROVE  Inv' /\ (RunsOut \/ Conserved)
<1> QED
  BY LeftClicksGood, RightClicksGood, ShiftClicksGood, NumberKeysGood, DropClicksGood,
     DoubleClickGood, RefusedGood, DragStartsGood, DragGoesOnGood, DragEndsGood DEF Clicks

\* Every step keeps the invariant and, but for a right drag that runs out,
\* conserves items.
LEMMA NextGood ==
  ASSUME Inv, Next
  PROVE  Inv' /\ (RunsOut \/ Conserved)
<1>1. CASE Clicks
  BY <1>1, ClicksGood
<1>2. CASE DropHeld
  BY <1>2, DropHeldGood
<1>3. CASE PlaceHeld
  BY <1>3, PlaceHeldGood
<1>4. CASE \E k \in Kinds : Mine(k)
  BY <1>4, MineGood
<1>5. CASE \E e \in 1..Ground : PickUp(e) \/ Despawn(e)
  BY <1>5, PickUpGood, DespawnGood
<1>6. CASE \E i \in 1..Len(Hotbar) : HoldItem(i)
  BY <1>6, HoldItemGood
<1>7. CASE \E s \in Slots : Creative(s, Nothing)
  <2>1. Nothing \in Stacks
    BY DEF Stacks
  <2> QED
    BY <1>7, <2>1, CreativeGood
<1>8. CASE \E s \in Slots, n \in Gifts, k \in Kinds : Creative(s, Stack(k, n))
  <2>1. PICK s \in Slots, n \in Gifts, k \in Kinds : Creative(s, Stack(k, n))
    BY <1>8
  <2>2. n \in Int
    BY InventoryConstants
  <2>3. Stack(k, n) \in Stacks
    BY <2>2, StackIs
  <2> QED
    BY <2>1, <2>3, CreativeGood
<1> QED
  BY <1>1, <1>2, <1>3, <1>4, <1>5, <1>6, <1>7, <1>8 DEF Next

\* Steps of others change nothing.
LEMMA Stuttering == ASSUME Inv, UNCHANGED vars PROVE Inv'
BY DEF vars, Inv, TypeOK, ClientSeesTruth, DragHasItems, Free

\* The inductive invariant: the state has its types, the client has been told
\* what is in every slot and on the cursor, and a drag in progress has items to
\* hand out.
THEOREM InventoryInvariant == Spec => []Inv
<1>1. Inv /\ [Next]_vars => Inv'
  BY NextGood, Stuttering
<1> QED
  BY <1>1, InitInv, PTL DEF Spec

\* Every place holds nothing or a stack whose count fits its byte, whatever is
\* clicked, dragged, dropped and picked up; a drag in progress goes over slots,
\* and over none of them twice.
THEOREM TypeCorrect == Spec => []TypeOK
<1>1. Inv => TypeOK
  BY DEF Inv
<1> QED
  BY <1>1, InventoryInvariant, PTL

\* After every click, drag, drop, pickup and creative action the client shows
\* what the server holds: each handler resends every slot it changed.
THEOREM ClientInformed == Spec => []ClientSeesTruth
<1>1. Inv => ClientSeesTruth
  BY DEF Inv
<1> QED
  BY <1>1, InventoryInvariant, PTL

\* Nothing that comes between the start of a drag and its end takes the items
\* off the cursor: a click that could ends the drag.
THEOREM DragsFilled == Spec => []DragHasItems
<1>1. Inv => DragHasItems
  BY DEF Inv
<1> QED
  BY <1>1, InventoryInvariant, PTL

\* From contents where every stack is within its maximum, and with room on the
\* ground, no operation of the inventory creates an item or loses one, but a
\* right drag over more slots than there are items: the items of each kind change
\* by what is mined, placed, destroyed or made in creative.
THEOREM NoItemLost == Spec => ItemsConserved
<1>1. Inv /\ Next => RunsOut \/ Conserved
  BY NextGood
<1>2. Inv /\ [Next]_vars => [Sane /\ ~RunsOut => Conserves]_vars
  BY <1>1 DEF Conserved, Conserves
<1> QED
  BY <1>2, InventoryInvariant, PTL DEF Spec, ItemsConserved

===============================================================================
