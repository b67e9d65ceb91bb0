---------------------------- MODULE FlatpakProofs ----------------------------
(***************************************************************************)
(* Proofs about FlatpakLists and FlatpakInstaller.                              *)
(*                                                                           *)
(* Of the lists, for any content of any number of autoinstall directories, on    *)
(* any system: what is read, what squashing keeps, what a progress splits, and    *)
(* where dependencies go.  The sort, the choice of what remains, the effect of a *)
(* list and what joins it are recursive functions over the actions; what they     *)
(* compute is shown by taking the least number where it would not hold.  Sorting *)
(* always rearranges; it puts in order only if no difference of two serial       *)
(* numbers overflows.                                                        *)
(*                                                                           *)
(* Of the installer, for any number of well-kept files with any entries: nothing *)
(* is forgotten, however often runs fail, are cut off or begin again, and        *)
(* whatever services run at a time, each pulling, deploying or both; and what a  *)
(* run saves is right unless another one has saved since it began.  Lists of     *)
(* actions are taken there as the sets of their elements: what a file asks for is *)
(* decided by the last action on each flatpak, and that some of them are         *)
(* repeated does not matter.                                                    *)
(***************************************************************************)
EXTENDS FlatpakLists, FlatpakInstaller,
        FiniteSetTheorems, SequenceTheorems, WellFoundedInduction, TLAPS

-----------------------------------------------------------------------------
(* Induction and recursion over natural numbers, on sets in place of formulas. *)

LEMMA Smallest ==
  ASSUME NEW T \in SUBSET Nat, T # {}
  PROVE  Min(T) \in T /\ \A k \in T : Min(T) <= k
<1> DEFINE R == OpToRel(<, Nat)
<1>1. IsWellFoundedOn(R, Nat)
  BY NatLessThanWellFounded
<1>2. \E x \in T : \A y \in T : ~(<<y, x>> \in R)
  BY <1>1, WFMin
<1>3. \A x, y \in Nat : <<y, x>> \in R <=> y < x
  BY DEF OpToRel
<1> HIDE DEF R
<1>4. PICK x \in T : \A y \in T : ~(<<y, x>> \in R)
  BY <1>2
<1>5. \A y \in T : ~(y < x)
  BY <1>3, <1>4
<1>6. \A y \in T : x <= y
  BY <1>5
<1> QED
  BY <1>6 DEF Min

LEMMA Induction ==
  ASSUME NEW T, 0 \in T, \A n \in Nat : n \in T => n + 1 \in T
  PROVE  \A n \in Nat : n \in T
<1> SUFFICES ASSUME NEW n \in Nat, n \notin T
             PROVE  FALSE
  OBVIOUS
<1> DEFINE U == {k \in Nat : k \notin T}
<1>1. U \in SUBSET Nat /\ U # {}
  OBVIOUS
<1>2. Min(U) \in U /\ \A k \in U : Min(U) <= k
  BY <1>1, Smallest
<1>3. Min(U) \in Nat /\ Min(U) # 0
  BY <1>2
<1>4. Min(U) - 1 \in Nat /\ Min(U) - 1 \notin U
  BY <1>2, <1>3
<1> QED
  BY <1>2, <1>3, <1>4

LEMMA InductionUpto ==
  ASSUME NEW T, NEW n \in Nat, 0 \in T, \A k \in 1 .. n : k - 1 \in T => k \in T
  PROVE  \A k \in 0 .. n : k \in T
<1> DEFINE U == {k \in Nat : k <= n => k \in T}
<1>1. 0 \in U
  OBVIOUS
<1>2. ASSUME NEW k \in Nat, k \in U
      PROVE  k + 1 \in U
  <2>1. CASE k + 1 <= n
    <3>1. k + 1 \in 1 .. n /\ k + 1 - 1 = k /\ k \in T
      BY <1>2, <2>1
    <3> QED
      BY <3>1
  <2>2. CASE ~(k + 1 <= n)
    BY <2>2
  <2> QED
    BY <2>1, <2>2
<1>3. \A k \in Nat : k \in U
  <2> HIDE DEF U
  <2> QED
    BY <1>1, <1>2, Induction
<1> QED
  BY <1>3

LEMMA StaysIn ==
  ASSUME NEW f, NEW n \in Nat, NEW S, f[0] \in S, \A k \in 1 .. n : f[k - 1] \in S => f[k] \in S
  PROVE  \A k \in 0 .. n : f[k] \in S
<1> DEFINE T == {k \in 0 .. n : f[k] \in S}
<1>1. 0 \in T
  OBVIOUS
<1>2. \A k \in 1 .. n : k - 1 \in T => k \in T
  OBVIOUS
<1> HIDE DEF T
<1>3. \A k \in 0 .. n : k \in T
  BY <1>1, <1>2, InductionUpto
<1> QED
  BY <1>3 DEF T

(* Values for 0 .. n, each made of the one before.                            *)
Exists(n, S, base, step) ==
    \E f \in [0 .. n -> S] : f[0] = base /\ \A k \in 1 .. n : f[k] = step[<<k, f[k - 1]>>]

LEMMA Recursion ==
  ASSUME NEW n \in Nat, NEW S, NEW base \in S, NEW step \in [(1 .. n) \X S -> S]
  PROVE  Exists(n, S, base, step)
<1> DEFINE Upto(m) == \E f \in [0 .. n -> S] :
                         f[0] = base /\ \A k \in 1 .. n : k <= m => f[k] = step[<<k, f[k - 1]>>]
           T == {m \in Nat : Upto(m)}
<1>1. 0 \in T
  <2>1. [k \in 0 .. n |-> base] \in [0 .. n -> S]
    OBVIOUS
  <2>2. \A k \in 1 .. n : ~(k <= 0)
    OBVIOUS
  <2>3. 0 \in 0 .. n
    OBVIOUS
  <2>4. Upto(0)
    BY <2>1, <2>2, <2>3
  <2> QED
    BY <2>4
<1>2. ASSUME NEW m \in Nat, m \in T
      PROVE  m + 1 \in T
  <2>1. PICK f \in [0 .. n -> S] : f[0] = base /\ \A k \in 1 .. n : k <= m => f[k] = step[<<k, f[k - 1]>>]
    BY <1>2
  <2> DEFINE g == [k \in 0 .. n |-> IF k = 0 THEN base ELSE step[<<k, f[k - 1]>>]]
  <2>2. \A k \in 1 .. n : k \in 0 .. n /\ k - 1 \in 0 .. n /\ k # 0
    OBVIOUS
  <2>3. \A k \in 1 .. n : step[<<k, f[k - 1]>>] \in S
    BY <2>2
  <2>4. \A k \in 0 .. n : k = 0 \/ k \in 1 .. n
    OBVIOUS
  <2>5. g \in [0 .. n -> S]
    BY <2>3, <2>4
  <2>6. \A k \in 1 .. n : k <= m + 1 => g[k - 1] = f[k - 1]
    <3> SUFFICES ASSUME NEW k \in 1 .. n, k <= m + 1
                 PROVE  g[k - 1] = f[k - 1]
      OBVIOUS
    <3>1. CASE k = 1
      BY <2>1, <3>1
    <3>2. CASE k # 1
      <4>1. k - 1 \in 1 .. n /\ k - 1 <= m /\ k - 1 # 0 /\ k - 1 \in 0 .. n
        BY <3>2
      <4> QED
        BY <2>1, <4>1
    <3> QED
      BY <3>1, <3>2
  <2>7. g[0] = base
    OBVIOUS
  <2>8. \A k \in 1 .. n : g[k] = step[<<k, f[k - 1]>>]
    BY <2>2
  <2>9. Upto(m + 1)
    <3> HIDE DEF g
    <3> QED
      BY <2>5, <2>6, <2>7, <2>8
  <2> QED
    BY <2>9
<1>3. n \in T
  <2> HIDE DEF T
  <2> QED
    BY <1>1, <1>2, Induction
<1> QED
  BY <1>3 DEF Exists

-----------------------------------------------------------------------------
(* Merging.                                                                  *)

LEMMA TakenIs ==
  ASSUME NEW s, NEW t, Len(s) \in Nat, Len(t) \in Nat
  PROVE  /\ Taken(s, t) \in [0 .. Len(s) + Len(t) -> Nat]
         /\ Taken(s, t)[0] = 0
         /\ \A k \in 1 .. Len(s) + Len(t) :
               Taken(s, t)[k] = TakenNext(s, t, Taken(s, t)[k - 1], k)
<1> DEFINE n == Len(s) + Len(t)
           step == [x \in (1 .. n) \X Nat |-> TakenNext(s, t, x[2], x[1])]
<1>1. n \in Nat /\ 0 \in Nat
  OBVIOUS
<1>2. \A x \in (1 .. n) \X Nat : TakenNext(s, t, x[2], x[1]) \in Nat
  BY DEF TakenNext
<1>3. step \in [(1 .. n) \X Nat -> Nat]
  BY <1>2
<1>4. \A k \in 1 .. n : \A i \in Nat : step[<<k, i>>] = TakenNext(s, t, i, k)
  OBVIOUS
<1> HIDE DEF n, step
<1>5. Exists(n, Nat, 0, step)
  BY <1>1, <1>3, Recursion
<1>10. PICK f \in [0 .. n -> Nat] : f[0] = 0 /\ \A k \in 1 .. n : f[k] = step[<<k, f[k - 1]>>]
  BY <1>5 DEF Exists
<1>6. ASSUME NEW k \in 1 .. n
      PROVE  f[k] = TakenNext(s, t, f[k - 1], k) /\ k # 0 /\ k \in 0 .. n
  <2>1. k - 1 \in 0 .. n /\ k # 0 /\ k \in 0 .. n
    BY <1>1
  <2>2. f[k - 1] \in Nat
    BY <2>1
  <2> QED
    BY <1>4, <1>10, <2>1, <2>2
<1>7. f = [k \in 0 .. n |-> IF k = 0 THEN 0 ELSE TakenNext(s, t, f[k - 1], k)]
  <2>1. \A k \in 0 .. n : k = 0 \/ k \in 1 .. n
    BY <1>1
  <2> QED
    BY <1>10, <1>6, <2>1
<1>8. Taken(s, t) = CHOOSE g : g = [k \in 0 .. n |-> IF k = 0 THEN 0 ELSE TakenNext(s, t, g[k - 1], k)]
  BY DEF Taken, n
<1> DEFINE T == Taken(s, t)
<1>9. T = [k \in 0 .. n |-> IF k = 0 THEN 0 ELSE TakenNext(s, t, T[k - 1], k)]
  BY <1>7, <1>8, Zenon
<1>11. T[0] = 0 /\ \A k \in 1 .. n : T[k] = TakenNext(s, t, T[k - 1], k)
  BY <1>1, <1>9
<1>12. \A k \in 1 .. n : T[k - 1] \in Nat => T[k] \in Nat
  <2> HIDE DEF T
  <2>1. \A i, k : TakenNext(s, t, i, k) \in {i, i + 1}
    BY DEF TakenNext
  <2>2. \A k \in 1 .. n : T[k] \in {T[k - 1], T[k - 1] + 1}
    BY <1>11, <2>1
  <2> QED
    BY <2>2
<1>13. \A k \in 0 .. n : T[k] \in Nat
  <2> HIDE DEF T
  <2> QED
    BY <1>1, <1>11, <1>12, StaysIn, Zenon
<1> QED
  BY <1>9, <1>11, <1>13 DEF n

(* It stays within both sequences, and grows by one or not at all.             *)
LEMMA TakenBounds ==
  ASSUME NEW s, NEW t, Len(s) \in Nat, Len(t) \in Nat
  PROVE  /\ \A k \in 0 .. Len(s) + Len(t) :
               /\ Taken(s, t)[k] \in 0 .. Len(s) /\ k - Taken(s, t)[k] \in 0 .. Len(t)
         /\ \A k \in 1 .. Len(s) + Len(t) :
               Taken(s, t)[k] \in {Taken(s, t)[k - 1], Taken(s, t)[k - 1] + 1}
<1> DEFINE T == Taken(s, t)
           m == Len(s)
           l == Len(t)
           U == {k \in 0 .. m + l : T[k] \in 0 .. m /\ k - T[k] \in 0 .. l}
<1>1. m \in Nat /\ l \in Nat /\ m + l \in Nat
  OBVIOUS
<1>2. T[0] = 0 /\ \A k \in 1 .. m + l : T[k] = TakenNext(s, t, T[k - 1], k)
  BY TakenIs
<1> HIDE DEF T
<1>3. \A k \in 1 .. m + l : T[k] \in {T[k - 1], T[k - 1] + 1}
  BY <1>2 DEF TakenNext
<1>4. ASSUME NEW k \in 1 .. m + l, k - 1 \in U
      PROVE  k \in U
  <2>1. T[k - 1] \in 0 .. m /\ k - 1 - T[k - 1] \in 0 .. l
    BY <1>4
  <2>2. CASE T[k] = T[k - 1] + 1
    <3>1. k - T[k - 1] > l \/ T[k - 1] < m
      BY <1>2, <2>1, <2>2 DEF TakenNext
    <3>2. T[k - 1] < m
      BY <2>1, <3>1
    <3> QED
      BY <2>1, <2>2, <3>2
  <2>3. CASE T[k] = T[k - 1]
    <3>1. ~(k - T[k - 1] > l)
      BY <1>2, <2>1, <2>3 DEF TakenNext
    <3> QED
      BY <2>1, <2>3, <3>1
  <2> QED
    BY <1>3, <2>2, <2>3
<1>5. 0 \in U
  BY <1>2
<1>6. \A k \in 0 .. m + l : k \in U
  <2> HIDE DEF U, m, l
  <2> QED
    BY <1>1, <1>4, <1>5, InductionUpto
<1> QED
  BY <1>3, <1>6 DEF T

LEMMA TakenGrows ==
  ASSUME NEW s, NEW t, Len(s) \in Nat, Len(t) \in Nat,
         NEW j \in 0 .. Len(s) + Len(t), NEW k \in j .. Len(s) + Len(t)
  PROVE  Taken(s, t)[j] <= Taken(s, t)[k] /\ Taken(s, t)[k] - Taken(s, t)[j] <= k - j
<1> DEFINE T == Taken(s, t)
           n == Len(s) + Len(t)
           U == {i \in 0 .. n : i >= j => T[j] <= T[i] /\ T[i] - T[j] <= i - j}
<1>1. n \in Nat /\ \A i \in 0 .. n : T[i] \in Nat
  BY TakenBounds
<1>2. \A i \in 1 .. n : T[i] \in {T[i - 1], T[i - 1] + 1}
  BY TakenBounds
<1> HIDE DEF T, n
<1>3. 0 \in U
  BY <1>1 DEF n
<1>4. ASSUME NEW i \in 1 .. n, i - 1 \in U
      PROVE  i \in U
  <2>1. i \in 0 .. n /\ T[i] \in {T[i - 1], T[i - 1] + 1} /\ T[i - 1] \in Nat /\ T[j] \in Nat
    BY <1>1, <1>2, <1>4 DEF n
  <2>2. CASE i = j
    BY <2>1, <2>2
  <2>3. CASE i > j
    <3>1. T[j] <= T[i - 1] /\ T[i - 1] - T[j] <= i - 1 - j
      BY <1>4, <2>3
    <3> QED
      BY <2>1, <2>3, <3>1
  <2>4. CASE i < j
    BY <2>1, <2>4
  <2> QED
    BY <2>2, <2>3, <2>4
<1>5. \A i \in 0 .. n : i \in U
  <2> HIDE DEF U
  <2> QED
    BY <1>1, <1>3, <1>4, InductionUpto
<1>6. k \in 0 .. n /\ k >= j
  BY DEF n
<1> QED
  BY <1>5, <1>6 DEF T

LEMMA MergedIs ==
  ASSUME NEW A, NEW s \in Seq(A), NEW t \in Seq(A)
  PROVE  /\ Merged(s, t) \in Seq(A)
         /\ Len(Merged(s, t)) = Len(s) + Len(t)
         /\ \A k \in 1 .. Len(s) + Len(t) :
               LET T == Taken(s, t)
               IN  \/ /\ T[k - 1] < T[k] /\ T[k] \in 1 .. Len(s)
                      /\ Merged(s, t)[k] = s[T[k]]
                   \/ /\ T[k] = T[k - 1] /\ k - T[k] \in 1 .. Len(t)
                      /\ Merged(s, t)[k] = t[k - T[k]]
<1> DEFINE T == Taken(s, t)
           n == Len(s) + Len(t)
           e(k) == IF T[k - 1] < T[k] THEN s[T[k]] ELSE t[k - T[k]]
           M == [k \in 1 .. n |-> e(k)]
<1>1. Len(s) \in Nat /\ Len(t) \in Nat /\ n \in Nat
  OBVIOUS
<1>2. ASSUME NEW k \in 1 .. n
      PROVE  \/ T[k - 1] < T[k] /\ T[k] \in 1 .. Len(s) /\ e(k) = s[T[k]]
             \/ T[k] = T[k - 1] /\ k - T[k] \in 1 .. Len(t) /\ e(k) = t[k - T[k]]
  <2>1. k \in 0 .. n /\ k - 1 \in 0 .. n
    BY <1>1
  <2>2. /\ T[k] \in 0 .. Len(s) /\ k - T[k] \in 0 .. Len(t) /\ T[k - 1] \in 0 .. Len(s)
        /\ k - 1 - T[k - 1] \in 0 .. Len(t) /\ T[k] \in {T[k - 1], T[k - 1] + 1}
    BY <1>1, <2>1, TakenBounds
  <2> HIDE DEF T, n
  <2>3. CASE T[k] = T[k - 1] + 1
    BY <1>1, <2>2, <2>3
  <2>4. CASE T[k] = T[k - 1]
    BY <1>1, <2>2, <2>4
  <2> QED
    BY <2>2, <2>3, <2>4
<1>3. s \in [1 .. Len(s) -> A] /\ t \in [1 .. Len(t) -> A]
  BY LenProperties
<1> HIDE DEF T
<1>4. \A k \in 1 .. n : e(k) \in A
  BY <1>2, <1>3
<1>5. M \in Seq(A)
  <2> HIDE DEF n, e
  <2> QED
    BY <1>1, <1>4, IsASeq
<1>6. Len(M) = n /\ \A k \in 1 .. n : M[k] = e(k)
  BY <1>1
<1>7. Merged(s, t) = M
  <2>1. Merged(s, t) = <<>> \o M
    BY DEF Merged, T
  <2> HIDE DEF M
  <2> QED
    BY <1>5, <2>1, ConcatEmptySeq
<1> QED
  BY <1>2, <1>5, <1>6, <1>7 DEF T

-----------------------------------------------------------------------------
(* Sorting: a sequence is rearranged, and if actions compare like numbers do,    *)
(* the result is in order, and what is equal stays in the order it was in.      *)

Le(a, b) == sort_flatpak_remote_ref_actions(a, b) <= 0
Precedes(w, i, j) == Le(w[i], w[j]) /\ (Le(w[j], w[i]) => i < j)

Orderly(w) ==
    /\ \A i, j \in 1 .. Len(w) : Le(w[i], w[j]) \/ Le(w[j], w[i])
    /\ \A i, j, k \in 1 .. Len(w) : Le(w[i], w[j]) /\ Le(w[j], w[k]) => Le(w[i], w[k])

IsRearranged(u, w, p) ==
    /\ Len(u) = Len(w) /\ p \in [1 .. Len(w) -> 1 .. Len(w)]
    /\ \A j, k \in 1 .. Len(w) : p[j] = p[k] => j = k
    /\ \A k \in 1 .. Len(w) : u[k] = w[p[k]]

SortedFrom(w, p) == \A j, k \in 1 .. Len(w) : j < k => Precedes(w, p[j], p[k])

(* What no element before it is greater than has all of them before it still.    *)
Unexceeded(w, b) == \A a \in 1 .. Len(w) : a < b => Le(w[a], w[b])
StaysBehind(w, p) == \A j, k \in 1 .. Len(w) : j < k /\ Unexceeded(w, p[j]) => p[j] < p[k]

(* Where nothing before a place is greater than anything after it, nothing moves  *)
(* across.                                                                  *)
Unmixed(w, c) == \A a, b \in 1 .. Len(w) : a <= c /\ c < b => Le(w[a], w[b])
StaysApart(w, p) == \A c \in Int : Unmixed(w, c) => \A j, k \in 1 .. Len(w) : ~(j < k /\ p[k] <= c /\ c < p[j])

StaysPut(w, p) == StaysBehind(w, p) /\ StaysApart(w, p)

Halves(w, h, s, t) ==
    /\ h \in 0 .. Len(w) /\ Len(s) = h /\ Len(t) = Len(w) - h
    /\ \A i \in 1 .. h : s[i] = w[i]
    /\ \A i \in 1 .. Len(w) - h : t[i] = w[h + i]

(* Where the elements of two halves that are merged come from.                 *)
Origins(u, v, h, p, q) ==
    [k \in 1 .. Len(u) + Len(v) |->
        IF Taken(u, v)[k - 1] < Taken(u, v)[k] THEN p[Taken(u, v)[k]] ELSE h + q[k - Taken(u, v)[k]]]

Merging(A, w, h, s, t, u, v, p, q) ==
    /\ w \in Seq(A) /\ u \in Seq(A) /\ v \in Seq(A)
    /\ Halves(w, h, s, t) /\ IsRearranged(u, s, p) /\ IsRearranged(v, t, q)

OriginOf(T, n, h, p, q, r, k) ==
    /\ k \in 1 .. n /\ k \in 0 .. n /\ k - 1 \in 0 .. n /\ T[k] \in Nat /\ T[k - 1] \in Nat /\ r[k] \in 1 .. n
    /\ \/ T[k - 1] < T[k] /\ T[k] \in 1 .. h /\ r[k] = p[T[k]] /\ r[k] \in 1 .. h
       \/ T[k] = T[k - 1] /\ k - T[k] \in 1 .. n - h /\ r[k] = h + q[k - T[k]] /\ r[k] \in h + 1 .. n

LEMMA OriginIs ==
  ASSUME NEW A, NEW w, NEW h, NEW s, NEW t, NEW u, NEW v, NEW p, NEW q,
         Merging(A, w, h, s, t, u, v, p, q)
  PROVE  /\ Len(w) \in Nat /\ h \in 0 .. Len(w) /\ Len(u) = h /\ Len(v) = Len(w) - h
         /\ Len(Merged(u, v)) = Len(w)
         /\ Origins(u, v, h, p, q) \in [1 .. Len(w) -> 1 .. Len(w)]
         /\ \A k \in 1 .. Len(w) :
               /\ Merged(u, v)[k] = w[Origins(u, v, h, p, q)[k]]
               /\ OriginOf(Taken(u, v), Len(w), h, p, q, Origins(u, v, h, p, q), k)
         /\ \A j \in 0 .. Len(w) : \A k \in j .. Len(w) :
               Taken(u, v)[j] <= Taken(u, v)[k] /\ Taken(u, v)[k] - Taken(u, v)[j] <= k - j
<1> DEFINE T == Taken(u, v)
           n == Len(w)
           r == Origins(u, v, h, p, q)
<1>1. /\ h \in 0 .. n /\ n \in Nat /\ Len(u) = h /\ Len(v) = n - h /\ Len(u) + Len(v) = n
      /\ h \in Nat /\ n - h \in Nat
  BY DEF Merging, Halves, IsRearranged
<1>2. p \in [1 .. h -> 1 .. h] /\ q \in [1 .. n - h -> 1 .. n - h]
  BY <1>1 DEF Merging, Halves, IsRearranged
<1>3. /\ \A j, k \in 1 .. h : p[j] = p[k] => j = k
      /\ \A j, k \in 1 .. n - h : q[j] = q[k] => j = k
      /\ \A k \in 1 .. h : u[k] = w[p[k]]
      /\ \A k \in 1 .. n - h : v[k] = w[h + q[k]]
  BY <1>2 DEF Merging, Halves, IsRearranged
<1>4. /\ Len(Merged(u, v)) = n
      /\ \A k \in 1 .. n :
            \/ T[k - 1] < T[k] /\ T[k] \in 1 .. h /\ Merged(u, v)[k] = u[T[k]]
            \/ T[k] = T[k - 1] /\ k - T[k] \in 1 .. n - h /\ Merged(u, v)[k] = v[k - T[k]]
  <2>1. /\ Len(Merged(u, v)) = Len(u) + Len(v)
        /\ \A k \in 1 .. Len(u) + Len(v) :
             \/ T[k - 1] < T[k] /\ T[k] \in 1 .. Len(u) /\ Merged(u, v)[k] = u[T[k]]
             \/ T[k] = T[k - 1] /\ k - T[k] \in 1 .. Len(v) /\ Merged(u, v)[k] = v[k - T[k]]
    BY MergedIs DEF Merging
  <2> QED
    BY <1>1, <2>1
<1>5. r = [k \in 1 .. n |-> IF T[k - 1] < T[k] THEN p[T[k]] ELSE h + q[k - T[k]]]
  BY <1>1 DEF Origins
<1>6. \A j \in 0 .. n : \A k \in j .. n : T[j] <= T[k] /\ T[k] - T[j] <= k - j
  BY <1>1, TakenGrows
<1>7. \A k \in 0 .. n : T[k] \in Nat
  BY <1>1, TakenBounds
<1> HIDE DEF T, n, r
<1>8. ASSUME NEW k \in 1 .. n
      PROVE  /\ r[k] \in 1 .. n /\ Merged(u, v)[k] = w[r[k]]
             /\ \/ T[k - 1] < T[k] /\ T[k] \in 1 .. h /\ r[k] = p[T[k]] /\ r[k] \in 1 .. h
                \/ T[k] = T[k - 1] /\ k - T[k] \in 1 .. n - h /\ r[k] = h + q[k - T[k]] /\ r[k] \in h + 1 .. n
  <2>1. T[k] \in Nat /\ T[k - 1] \in Nat
    BY <1>1, <1>7
  <2>2. CASE T[k - 1] < T[k]
    <3>1. T[k] \in 1 .. h /\ Merged(u, v)[k] = u[T[k]] /\ r[k] = p[T[k]]
      BY <1>4, <1>5, <2>1, <2>2
    <3>2. p[T[k]] \in 1 .. h
      BY <1>2, <3>1
    <3> QED
      BY <1>1, <1>3, <2>2, <3>1, <3>2
  <2>3. CASE T[k] = T[k - 1]
    <3>1. ~(T[k - 1] < T[k])
      BY <2>1, <2>3
    <3>2. k - T[k] \in 1 .. n - h /\ Merged(u, v)[k] = v[k - T[k]] /\ r[k] = h + q[k - T[k]]
      BY <1>4, <1>5, <3>1
    <3>3. q[k - T[k]] \in 1 .. n - h /\ v[k - T[k]] = w[h + q[k - T[k]]]
      BY <1>2, <1>3, <3>2
    <3>4. \A x \in 1 .. n - h : h + x \in 1 .. n /\ h + x \in h + 1 .. n
      BY <1>1
    <3> QED
      BY <2>3, <3>2, <3>3, <3>4
  <2> QED
    BY <1>4, <2>2, <2>3
<1>9. r \in [1 .. n -> 1 .. n]
  BY <1>5, <1>8
<1>10. ASSUME NEW k \in 1 .. n
       PROVE  OriginOf(T, n, h, p, q, r, k)
  <2>1. k \in 0 .. n /\ k - 1 \in 0 .. n
    BY <1>1
  <2> QED
    BY <1>7, <1>8, <2>1 DEF OriginOf
<1> QED
  BY <1>1, <1>4, <1>6, <1>8, <1>9, <1>10 DEF n, r, T

LEMMA OriginFirst ==
  ASSUME NEW T, NEW n \in Nat, NEW h \in 0 .. n, NEW p, NEW q, NEW r, NEW k,
         OriginOf(T, n, h, p, q, r, k), r[k] <= h
  PROVE  T[k - 1] < T[k] /\ T[k] \in 1 .. h /\ r[k] = p[T[k]]
  BY DEF OriginOf

LEMMA OriginSecond ==
  ASSUME NEW T, NEW n \in Nat, NEW h \in 0 .. n, NEW p, NEW q, NEW r, NEW k,
         OriginOf(T, n, h, p, q, r, k), ~(r[k] <= h)
  PROVE  T[k] = T[k - 1] /\ k - T[k] \in 1 .. n - h /\ r[k] = h + q[k - T[k]]
  BY DEF OriginOf

LEMMA MergedRearranged ==
  ASSUME NEW A, NEW w, NEW h, NEW s, NEW t, NEW u, NEW v, NEW p, NEW q,
         Merging(A, w, h, s, t, u, v, p, q)
  PROVE  IsRearranged(Merged(u, v), w, Origins(u, v, h, p, q))
<1> DEFINE T == Taken(u, v)
           n == Len(w)
           r == Origins(u, v, h, p, q)
<1>1. n \in Nat /\ h \in 0 .. n
  BY OriginIs
<1>10. /\ r \in [1 .. n -> 1 .. n] /\ Len(Merged(u, v)) = n
       /\ \A k \in 1 .. n : Merged(u, v)[k] = w[r[k]]
  BY OriginIs
<1>11. \A k \in 1 .. n : OriginOf(T, n, h, p, q, r, k)
  BY OriginIs
<1>12. \A j \in 0 .. n : \A k \in j .. n : T[j] <= T[k] /\ T[k] - T[j] <= k - j
  BY OriginIs
<1>2. /\ q \in [1 .. n - h -> 1 .. n - h]
      /\ \A j, k \in 1 .. h : p[j] = p[k] => j = k
      /\ \A j, k \in 1 .. n - h : q[j] = q[k] => j = k
  BY DEF Merging, Halves, IsRearranged
<1> HIDE DEF T, n, r
<1>3. ASSUME NEW j \in 1 .. n, NEW k \in 1 .. n, j < k
      PROVE  r[j] # r[k]
  <2>1. OriginOf(T, n, h, p, q, r, j) /\ OriginOf(T, n, h, p, q, r, k)
    BY <1>11
  <2>3. k - 1 \in j .. n
    BY <1>1, <1>3
  <2>2. T[j] <= T[k - 1] /\ T[k - 1] - T[j] <= k - 1 - j
    BY <1>12, <2>1, <2>3 DEF OriginOf
  <2>4. CASE r[j] <= h /\ r[k] <= h
    <3>1. /\ T[j] \in 1 .. h /\ T[k] \in 1 .. h /\ r[j] = p[T[j]] /\ r[k] = p[T[k]] /\ T[k - 1] < T[k]
      BY <1>1, <2>1, <2>4, OriginFirst
    <3>2. T[j] # T[k]
      BY <2>1, <2>2, <3>1 DEF OriginOf
    <3> QED
      BY <1>2, <3>1, <3>2
  <2>5. CASE ~(r[j] <= h) /\ ~(r[k] <= h)
    <3>5. j - T[j] \in 1 .. n - h /\ r[j] = h + q[j - T[j]]
      BY <1>1, <2>1, <2>5, OriginSecond
    <3>6. k - T[k] \in 1 .. n - h /\ T[k] = T[k - 1] /\ r[k] = h + q[k - T[k]]
      BY <1>1, <2>1, <2>5, OriginSecond
    <3>1. /\ j - T[j] \in 1 .. n - h /\ k - T[k] \in 1 .. n - h /\ T[k] = T[k - 1]
          /\ r[j] = h + q[j - T[j]] /\ r[k] = h + q[k - T[k]]
      BY <3>5, <3>6
    <3>2. j - T[j] # k - T[k]
      BY <2>1, <2>2, <3>1 DEF OriginOf
    <3>3. q[j - T[j]] # q[k - T[k]] /\ q[j - T[j]] \in 1 .. n - h /\ q[k - T[k]] \in 1 .. n - h
      BY <1>2, <3>1, <3>2
    <3>4. \A x, y \in 1 .. n - h : h + x = h + y => x = y
      BY <1>1
    <3> QED
      BY <3>1, <3>3, <3>4
  <2> QED
    BY <2>4, <2>5
<1>4. \A j, k \in 1 .. n : r[j] = r[k] => j = k
  BY <1>1, <1>3
<1> QED
  BY <1>10, <1>4 DEF IsRearranged, n, r

(* Two sorted halves are merged into what is sorted, the first half's elements   *)
(* before their equals.                                                     *)
LEMMA MergedSorted ==
  ASSUME NEW A, NEW w, NEW h, NEW s, NEW t, NEW u, NEW v, NEW p, NEW q,
         Merging(A, w, h, s, t, u, v, p, q),
         Orderly(w), SortedFrom(s, p), SortedFrom(t, q)
  PROVE  SortedFrom(w, Origins(u, v, h, p, q))
<1> DEFINE T == Taken(u, v)
           n == Len(w)
           r == Origins(u, v, h, p, q)
<1>1. n \in Nat /\ h \in 0 .. n
  BY OriginIs
<1>10. Len(u) = h /\ Len(v) = n - h
  BY OriginIs
<1>11. \A k \in 1 .. n : OriginOf(T, n, h, p, q, r, k)
  BY OriginIs
<1>12. \A j \in 0 .. n : \A k \in j .. n : T[j] <= T[k] /\ T[k] - T[j] <= k - j
  BY OriginIs
<1>2. /\ Len(s) = h /\ Len(t) = n - h /\ p \in [1 .. h -> 1 .. h] /\ q \in [1 .. n - h -> 1 .. n - h]
      /\ \A i \in 1 .. h : s[i] = w[i] /\ u[i] = s[p[i]]
      /\ \A i \in 1 .. n - h : t[i] = w[h + i] /\ v[i] = t[q[i]]
  BY DEF Merging, Halves, IsRearranged
<1>3. /\ \A i \in 1 .. h : u[i] = w[p[i]] /\ p[i] \in 1 .. h /\ p[i] \in 1 .. n
      /\ \A i \in 1 .. n - h : v[i] = w[h + q[i]] /\ q[i] \in 1 .. n - h /\ h + q[i] \in 1 .. n
  <2>1. \A x \in 1 .. h : x \in 1 .. n
    BY <1>1
  <2>2. \A x \in 1 .. n - h : h + x \in 1 .. n
    BY <1>1
  <2> QED
    BY <1>2, <2>1, <2>2
<1>4. /\ \A i, j \in 1 .. n : Le(w[i], w[j]) \/ Le(w[j], w[i])
      /\ \A i, j, k \in 1 .. n : Le(w[i], w[j]) /\ Le(w[j], w[k]) => Le(w[i], w[k])
  BY DEF Orderly
<1>5. /\ \A i, j \in 1 .. h : i < j => Precedes(w, p[i], p[j])
      /\ \A i, j \in 1 .. n - h : i < j => Precedes(w, h + q[i], h + q[j])
  <2>1. \A i, j \in 1 .. h : i < j => Precedes(s, p[i], p[j])
    BY <1>2 DEF SortedFrom
  <2>2. \A i, j \in 1 .. n - h : i < j => Precedes(t, q[i], q[j])
    BY <1>2 DEF SortedFrom
  <2>3. \A x, y \in 1 .. h : Precedes(s, x, y) => Precedes(w, x, y)
    BY <1>2 DEF Precedes
  <2>4. \A x, y \in 1 .. n - h : x < y => h + x < h + y
    BY <1>1
  <2>5. \A x, y \in 1 .. n - h : Precedes(t, x, y) => Precedes(w, h + x, h + y)
    BY <1>2, <2>4 DEF Precedes
  <2> QED
    BY <1>3, <2>1, <2>2, <2>3, <2>5
<1>6. \A k \in 1 .. n : T[k] = TakenNext(u, v, T[k - 1], k)
  BY <1>1, <1>10, TakenIs
<1>13. \A k \in 1 .. n : T[k] - 0 <= k
  <2>1. \A k \in 0 .. n : k - T[k] \in Nat /\ T[k] \in Nat
    BY <1>1, <1>10, TakenBounds
  <2> QED
    BY <1>1, <2>1
<1>7. \A i \in 1 .. h : \A j \in 1 .. h : i <= j => Le(u[i], u[j])
  <2>1. \A i \in 1 .. h : Le(u[i], u[i])
    BY <1>3, <1>4
  <2> QED
    BY <1>3, <1>5, <2>1 DEF Precedes
<1>8. \A i \in 1 .. n - h : \A j \in 1 .. n - h : i <= j => Le(v[i], v[j])
  <2>1. \A i \in 1 .. n - h : Le(v[i], v[i])
    BY <1>3, <1>4
  <2> QED
    BY <1>3, <1>5, <2>1 DEF Precedes
<1> HIDE DEF T, n, r
<1>9. ASSUME NEW j \in 1 .. n, NEW k \in 1 .. n, j < k
      PROVE  Precedes(w, r[j], r[k])
  <2>1. OriginOf(T, n, h, p, q, r, j) /\ OriginOf(T, n, h, p, q, r, k)
    BY <1>11
  <2>7. k - 1 \in j .. n
    BY <1>1, <1>9
  <2>2. /\ T[j] <= T[k - 1] /\ T[k - 1] - T[j] <= k - 1 - j /\ T[j] \in Nat /\ T[k] \in Nat
        /\ T[k - 1] \in Nat /\ T[j - 1] \in Nat
    BY <1>12, <2>1, <2>7 DEF OriginOf
  <2>3. CASE r[j] <= h /\ r[k] <= h
    <3>1. T[j] \in 1 .. h /\ r[j] = p[T[j]]
      BY <1>1, <2>1, <2>3, OriginFirst
    <3>2. T[k] \in 1 .. h /\ r[k] = p[T[k]] /\ T[k - 1] < T[k]
      BY <1>1, <2>1, <2>3, OriginFirst
    <3>3. T[j] < T[k]
      BY <2>2, <3>2
    <3> QED
      BY <1>5, <3>1, <3>2, <3>3
  <2>4. CASE ~(r[j] <= h) /\ ~(r[k] <= h)
    <3>1. j - T[j] \in 1 .. n - h /\ r[j] = h + q[j - T[j]]
      BY <1>1, <2>1, <2>4, OriginSecond
    <3>2. k - T[k] \in 1 .. n - h /\ r[k] = h + q[k - T[k]] /\ T[k] = T[k - 1]
      BY <1>1, <2>1, <2>4, OriginSecond
    <3>3. j - T[j] < k - T[k]
      BY <2>2, <3>2
    <3> QED
      BY <1>5, <3>1, <3>2, <3>3
  <2>5. CASE r[j] <= h /\ ~(r[k] <= h)
    <3>1. T[j] \in 1 .. h /\ r[j] = p[T[j]] /\ T[j - 1] < T[j]
      BY <1>1, <2>1, <2>5, OriginFirst
    <3>2. k - T[k] \in 1 .. n - h /\ r[k] = h + q[k - T[k]] /\ T[k] = T[k - 1]
      BY <1>1, <2>1, <2>5, OriginSecond
    <3> DEFINE i == T[j]
               x == j - T[j - 1]
               y == k - T[k]
    <3>3. T[j] = T[j - 1] + 1 /\ (x > Len(v) \/ Le(u[i], v[x]))
      <4>1. T[j] = TakenNext(u, v, T[j - 1], j)
        BY <1>6
      <4>2. ~(T[j - 1] < T[j - 1]) /\ T[j - 1] + 1 \in Nat
        BY <2>2
      <4> QED
        BY <3>1, <4>1, <4>2 DEF TakenNext, Le
    <3>4. x <= y /\ x \in Int /\ y \in 1 .. n - h /\ x >= 1
      <4>1. T[j] - 0 <= j
        BY <1>13
      <4>2. x = j - T[j] + 1 /\ T[k - 1] = T[k]
        BY <2>2, <3>2, <3>3
      <4> QED
        BY <2>2, <3>2, <4>1, <4>2
    <3>5. x \in 1 .. n - h /\ ~(x > Len(v))
      BY <1>1, <1>10, <3>4
    <3>6. Le(u[i], v[x]) /\ Le(v[x], v[y])
      BY <1>8, <3>3, <3>4, <3>5
    <3>7. i \in 1 .. h /\ u[i] = w[r[j]] /\ v[x] = w[h + q[x]] /\ v[y] = w[r[k]]
      BY <1>3, <3>1, <3>2, <3>5
    <3>8. r[j] \in 1 .. n /\ h + q[x] \in 1 .. n /\ r[k] \in 1 .. n
      BY <1>3, <3>5, <2>1 DEF OriginOf
    <3>9. Le(w[r[j]], w[r[k]])
      BY <1>4, <3>6, <3>7, <3>8
    <3>10. r[j] < r[k]
      BY <1>1, <2>5, <3>8
    <3> QED
      BY <3>9, <3>10 DEF Precedes
  <2>6. CASE ~(r[j] <= h) /\ r[k] <= h
    <3>1. j - T[j] \in 1 .. n - h /\ r[j] = h + q[j - T[j]] /\ T[j] = T[j - 1]
      BY <1>1, <2>1, <2>6, OriginSecond
    <3>2. T[k] \in 1 .. h /\ r[k] = p[T[k]] /\ T[k - 1] < T[k]
      BY <1>1, <2>1, <2>6, OriginFirst
    <3> DEFINE i == T[j] + 1
               y == j - T[j]
               z == T[k]
    <3>3. i <= z /\ i \in 1 .. h /\ z \in 1 .. h
      BY <1>1, <2>2, <3>2
    <3>4. ~Le(u[i], v[y])
      <4>1. T[j] = TakenNext(u, v, T[j], j)
        BY <1>6, <3>1
      <4>2. T[j] + 1 # T[j] /\ T[j] < Len(u)
        BY <1>1, <1>10, <2>2, <3>3
      <4> QED
        BY <4>1, <4>2 DEF TakenNext, Le
    <3>5. Le(u[i], u[z])
      BY <1>7, <3>3
    <3>6. u[i] = w[p[i]] /\ u[z] = w[r[k]] /\ v[y] = w[r[j]] /\ p[i] \in 1 .. n
      BY <1>3, <3>1, <3>2, <3>3
    <3>7. r[j] \in 1 .. n /\ r[k] \in 1 .. n
      BY <2>1 DEF OriginOf
    <3>8. ~Le(w[r[k]], w[r[j]])
      BY <1>4, <3>4, <3>5, <3>6, <3>7
    <3>9. Le(w[r[j]], w[r[k]])
      BY <1>4, <3>7, <3>8
    <3> QED
      BY <3>8, <3>9 DEF Precedes
  <2> QED
    BY <2>3, <2>4, <2>5, <2>6
<1> QED
  BY <1>9 DEF SortedFrom, n, r

(* The halves of a part are smaller parts.                                     *)
(* Of the two halves, one that is settled is not taken before any of the first.  *)
LEMMA MergedBehind ==
  ASSUME NEW A, NEW w, NEW h, NEW s, NEW t, NEW u, NEW v, NEW p, NEW q,
         Merging(A, w, h, s, t, u, v, p, q), StaysBehind(s, p), StaysBehind(t, q)
  PROVE  StaysBehind(w, Origins(u, v, h, p, q))
<1> DEFINE T == Taken(u, v)
           n == Len(w)
           r == Origins(u, v, h, p, q)
<1>1. n \in Nat /\ h \in 0 .. n
  BY OriginIs
<1>2. Len(u) = h /\ Len(v) = n - h
  BY OriginIs
<1>3. \A k \in 1 .. n : OriginOf(T, n, h, p, q, r, k)
  BY OriginIs
<1>4. \A j \in 0 .. n : \A k \in j .. n : T[j] <= T[k] /\ T[k] - T[j] <= k - j
  BY OriginIs
<1>5. /\ Len(s) = h /\ Len(t) = n - h /\ p \in [1 .. h -> 1 .. h] /\ q \in [1 .. n - h -> 1 .. n - h]
      /\ \A i \in 1 .. h : s[i] = w[i] /\ u[i] = s[p[i]]
      /\ \A i \in 1 .. n - h : t[i] = w[h + i] /\ v[i] = t[q[i]]
  BY DEF Merging, Halves, IsRearranged
<1>6. \A k \in 1 .. n : T[k] = TakenNext(u, v, T[k - 1], k)
  BY <1>1, <1>2, TakenIs
<1> HIDE DEF T, n, r
<1>7. /\ \A x \in 1 .. h : x \in 1 .. n
      /\ \A x \in 1 .. n - h : h + x \in 1 .. n
  BY <1>1
<1>8. \A x \in 1 .. h : Unexceeded(w, x) => Unexceeded(s, x)
  BY <1>5, <1>7 DEF Unexceeded, n
<1>9. ASSUME NEW x \in 1 .. n - h, Unexceeded(w, h + x)
      PROVE  Unexceeded(t, x)
  <2> SUFFICES ASSUME NEW a \in 1 .. n - h, a < x
               PROVE  Le(t[a], t[x])
    BY <1>5 DEF Unexceeded
  <2>1. h + a < h + x /\ h + a \in 1 .. n
    BY <1>1
  <2>2. Le(w[h + a], w[h + x])
    BY <1>9, <2>1 DEF Unexceeded, n
  <2> QED
    BY <1>5, <2>2
<1>10. ASSUME NEW j \in 1 .. n, NEW k \in 1 .. n, j < k, Unexceeded(w, r[j])
       PROVE  r[j] < r[k]
  <2>1. OriginOf(T, n, h, p, q, r, j) /\ OriginOf(T, n, h, p, q, r, k)
    BY <1>3
  <2>2. k - 1 \in j .. n
    BY <1>1, <1>10
  <2>3. /\ T[j] <= T[k - 1] /\ T[k - 1] - T[j] <= k - 1 - j /\ T[j] \in Nat /\ T[k] \in Nat
        /\ T[k - 1] \in Nat /\ T[j - 1] \in Nat /\ r[j] \in 1 .. n /\ r[k] \in 1 .. n
    BY <1>4, <2>1, <2>2 DEF OriginOf
  <2>4. CASE r[j] <= h /\ r[k] <= h
    <3>1. T[j] \in 1 .. h /\ r[j] = p[T[j]]
      BY <1>1, <2>1, <2>4, OriginFirst
    <3>2. T[k] \in 1 .. h /\ r[k] = p[T[k]] /\ T[k - 1] < T[k]
      BY <1>1, <2>1, <2>4, OriginFirst
    <3>3. T[j] < T[k]
      BY <2>3, <3>2
    <3>4. Unexceeded(s, p[T[j]])
      BY <1>5, <1>8, <1>10, <3>1
    <3> QED
      BY <1>5, <3>1, <3>2, <3>3, <3>4 DEF StaysBehind
  <2>5. CASE ~(r[j] <= h) /\ ~(r[k] <= h)
    <3>1. j - T[j] \in 1 .. n - h /\ r[j] = h + q[j - T[j]]
      BY <1>1, <2>1, <2>5, OriginSecond
    <3>2. k - T[k] \in 1 .. n - h /\ r[k] = h + q[k - T[k]] /\ T[k] = T[k - 1]
      BY <1>1, <2>1, <2>5, OriginSecond
    <3> DEFINE x == j - T[j]
               y == k - T[k]
    <3>3. x < y /\ x \in 1 .. n - h /\ y \in 1 .. n - h
      BY <2>3, <3>1, <3>2
    <3> HIDE DEF x, y
    <3>4. q[x] \in 1 .. n - h /\ q[y] \in 1 .. n - h
      BY <1>5, <3>3
    <3>5. Unexceeded(t, q[x])
      BY <1>9, <1>10, <3>1, <3>4 DEF x
    <3>6. q[x] < q[y]
      BY <1>5, <3>3, <3>5 DEF StaysBehind
    <3> QED
      BY <1>1, <3>1, <3>2, <3>4, <3>6 DEF x, y
  <2>6. CASE r[j] <= h /\ ~(r[k] <= h)
    BY <1>1, <2>3, <2>6
  <2>7. CASE ~(r[j] <= h) /\ r[k] <= h
    <3>1. j - T[j] \in 1 .. n - h /\ r[j] = h + q[j - T[j]] /\ T[j] = T[j - 1]
      BY <1>1, <2>1, <2>7, OriginSecond
    <3>2. T[k] \in 1 .. h /\ T[k - 1] < T[k]
      BY <1>1, <2>1, <2>7, OriginFirst
    <3> DEFINE i == T[j] + 1
               y == j - T[j]
    <3>3. i \in 1 .. h
      BY <1>1, <2>3, <3>2
    <3>4. ~Le(u[i], v[y])
      <4>1. T[j] = TakenNext(u, v, T[j], j)
        BY <1>6, <3>1
      <4>2. T[j] + 1 # T[j] /\ T[j] < Len(u)
        BY <1>1, <1>2, <2>3, <3>3
      <4> QED
        BY <4>1, <4>2 DEF TakenNext, Le
    <3>5. u[i] = w[p[i]] /\ p[i] \in 1 .. h /\ p[i] \in 1 .. n
      BY <1>5, <1>7, <3>3
    <3>6. v[y] = w[r[j]]
      BY <1>5, <3>1
    <3>7. p[i] < r[j]
      BY <1>1, <2>3, <2>7, <3>5
    <3> QED
      BY <1>10, <3>4, <3>5, <3>6, <3>7 DEF Unexceeded, n
  <2> QED
    BY <2>4, <2>5, <2>6, <2>7
<1> QED
  BY <1>10 DEF StaysBehind, n, r

LEMMA MergedApart ==
  ASSUME NEW A, NEW w, NEW h, NEW s, NEW t, NEW u, NEW v, NEW p, NEW q,
         Merging(A, w, h, s, t, u, v, p, q), StaysApart(s, p), StaysApart(t, q)
  PROVE  StaysApart(w, Origins(u, v, h, p, q))
<1> DEFINE T == Taken(u, v)
           n == Len(w)
           r == Origins(u, v, h, p, q)
<1>1. n \in Nat /\ h \in 0 .. n
  BY OriginIs
<1>2. Len(u) = h /\ Len(v) = n - h
  BY OriginIs
<1>3. \A k \in 1 .. n : OriginOf(T, n, h, p, q, r, k)
  BY OriginIs
<1>4. \A j \in 0 .. n : \A k \in j .. n : T[j] <= T[k] /\ T[k] - T[j] <= k - j
  BY OriginIs
<1>5. /\ Len(s) = h /\ Len(t) = n - h /\ p \in [1 .. h -> 1 .. h] /\ q \in [1 .. n - h -> 1 .. n - h]
      /\ \A i \in 1 .. h : s[i] = w[i] /\ u[i] = s[p[i]]
      /\ \A i \in 1 .. n - h : t[i] = w[h + i] /\ v[i] = t[q[i]]
  BY DEF Merging, Halves, IsRearranged
<1>6. \A k \in 1 .. n : T[k] = TakenNext(u, v, T[k - 1], k)
  BY <1>1, <1>2, TakenIs
<1> HIDE DEF T, n, r
<1>7. /\ \A x \in 1 .. h : x \in 1 .. n
      /\ \A x \in 1 .. n - h : h + x \in 1 .. n
  BY <1>1
<1> SUFFICES ASSUME NEW c \in Int, Unmixed(w, c), NEW j \in 1 .. n, NEW k \in 1 .. n, j < k, r[k] <= c, c < r[j]
             PROVE  FALSE
  BY DEF StaysApart, n, r
<1>8. Unmixed(s, c)
  BY <1>5, <1>7 DEF Unmixed, n
<1> DEFINE d == c - h
<1>9. d \in Int /\ \A x \in Int : (h + x <= c <=> x <= d) /\ (c < h + x <=> d < x)
  BY <1>1
<1> HIDE DEF d
<1>10. Unmixed(t, d)
  <2> SUFFICES ASSUME NEW a \in 1 .. n - h, NEW b \in 1 .. n - h, a <= d, d < b
               PROVE  Le(t[a], t[b])
    BY <1>5 DEF Unmixed
  <2>1. h + a <= c /\ c < h + b /\ h + a \in 1 .. n /\ h + b \in 1 .. n
    BY <1>7, <1>9
  <2>2. Le(w[h + a], w[h + b])
    BY <2>1 DEF Unmixed, n
  <2> QED
    BY <1>5, <2>2
<1>11. OriginOf(T, n, h, p, q, r, j) /\ OriginOf(T, n, h, p, q, r, k)
  BY <1>3
<1>12. k - 1 \in j .. n
  BY <1>1
<1>13. /\ T[j] <= T[k - 1] /\ T[k - 1] - T[j] <= k - 1 - j /\ T[j] \in Nat /\ T[k] \in Nat
       /\ T[k - 1] \in Nat /\ T[j - 1] \in Nat /\ r[j] \in 1 .. n /\ r[k] \in 1 .. n
  BY <1>4, <1>11, <1>12 DEF OriginOf
<1>14. CASE r[j] <= h /\ r[k] <= h
  <2>1. T[j] \in 1 .. h /\ r[j] = p[T[j]]
    BY <1>1, <1>11, <1>14, OriginFirst
  <2>2. T[k] \in 1 .. h /\ r[k] = p[T[k]] /\ T[k - 1] < T[k]
    BY <1>1, <1>11, <1>14, OriginFirst
  <2>3. T[j] < T[k]
    BY <1>13, <2>2
  <2> QED
    BY <1>5, <1>8, <2>1, <2>2, <2>3 DEF StaysApart
<1>15. CASE ~(r[j] <= h) /\ ~(r[k] <= h)
  <2>1. j - T[j] \in 1 .. n - h /\ r[j] = h + q[j - T[j]]
    BY <1>1, <1>11, <1>15, OriginSecond
  <2>2. k - T[k] \in 1 .. n - h /\ r[k] = h + q[k - T[k]] /\ T[k] = T[k - 1]
    BY <1>1, <1>11, <1>15, OriginSecond
  <2> DEFINE x == j - T[j]
             y == k - T[k]
  <2>3. x < y /\ x \in 1 .. n - h /\ y \in 1 .. n - h
    BY <1>13, <2>1, <2>2
  <2>4. r[j] = h + q[x] /\ r[k] = h + q[y]
    BY <2>1, <2>2
  <2> HIDE DEF x, y
  <2>5. q[x] \in Int /\ q[y] \in Int
    <3>1. q[x] \in 1 .. n - h /\ q[y] \in 1 .. n - h
      BY <1>5, <2>3
    <3> QED
      BY <1>1, <3>1
  <2>6. q[y] <= d /\ d < q[x]
    BY <1>9, <2>4, <2>5
  <2> QED
    BY <1>5, <1>9, <1>10, <2>3, <2>6 DEF StaysApart
<1>16. CASE r[j] <= h /\ ~(r[k] <= h)
  BY <1>1, <1>13, <1>16
<1>17. CASE ~(r[j] <= h) /\ r[k] <= h
  <2>1. j - T[j] \in 1 .. n - h /\ r[j] = h + q[j - T[j]] /\ T[j] = T[j - 1]
    BY <1>1, <1>11, <1>17, OriginSecond
  <2>2. T[k] \in 1 .. h /\ T[k - 1] < T[k] /\ r[k] = p[T[k]]
    BY <1>1, <1>11, <1>17, OriginFirst
  <2> DEFINE i == T[j] + 1
             y == j - T[j]
  <2>3. i \in 1 .. h /\ i <= T[k]
    BY <1>1, <1>13, <2>2
  <2>4. ~Le(u[i], v[y])
    <3>1. T[j] = TakenNext(u, v, T[j], j)
      BY <1>6, <2>1
    <3>2. T[j] + 1 # T[j] /\ T[j] < h
      BY <1>1, <1>13, <2>2
    <3>3. T[j] < Len(u)
      BY <1>2, <3>2
    <3> QED
      BY <3>1, <3>2, <3>3 DEF TakenNext, Le
  <2>5. u[i] = w[p[i]] /\ p[i] \in 1 .. h /\ p[i] \in 1 .. n
    BY <1>5, <1>7, <2>3
  <2>6. v[y] = w[r[j]]
    BY <1>5, <2>1
  <2> HIDE DEF i, y
  <2>7. p[i] <= c
    <3>1. CASE i = T[k]
      BY <2>2, <3>1
    <3>2. CASE i # T[k]
      <4>1. i < T[k]
        BY <2>2, <2>3, <3>2
      <4>2. ~(c < p[i])
        BY <1>5, <1>8, <2>2, <2>3, <4>1 DEF StaysApart
      <4> QED
        BY <2>5, <4>2
    <3> QED
      BY <3>1, <3>2
  <2>8. Le(w[p[i]], w[r[j]])
    BY <1>13, <2>5, <2>7 DEF Unmixed, n
  <2> QED
    BY <2>4, <2>5, <2>6, <2>8
<1> QED
  BY <1>13, <1>14, <1>15, <1>16, <1>17

LEMMA PartsAre ==
  ASSUME NEW A, NEW actions \in Seq(A), NEW w \in Parts(actions)
  PROVE  /\ w \in Seq(A) /\ Len(w) \in Nat /\ Len(w) <= Len(actions)
         /\ FirstHalf(w) \in Seq(A) /\ SecondHalf(w) \in Seq(A)
         /\ FirstHalf(w) \in Parts(actions) /\ SecondHalf(w) \in Parts(actions)
         /\ Halves(w, Len(w) \div 2, FirstHalf(w), SecondHalf(w))
<1> DEFINE n == Len(actions)
           l == Len(w)
           half == l \div 2
<1>1. PICK i \in 1 .. n + 1, j \in 0 .. n : w = SubSeq(actions, i, j)
  BY DEF Parts
<1>2. n \in Nat /\ actions \in [1 .. n -> A]
  BY LenProperties
<1>3. \A k \in i .. j : actions[k] \in A
  BY <1>2
<1>4. /\ w \in Seq(A) /\ l = (IF i <= j THEN j - i + 1 ELSE 0)
      /\ \A k \in 1 .. j - i + 1 : w[k] = actions[i + k - 1]
  BY <1>1, <1>2, <1>3, SubSeqProperties
<1>5. l \in Nat /\ l <= n
  BY <1>2, <1>4
<1>6. half \in 0 .. l /\ half \in Nat
  BY <1>5
<1>7. w \in [1 .. l -> A]
  BY <1>4, LenProperties
<1>8. /\ FirstHalf(w) \in Seq(A) /\ Len(FirstHalf(w)) = half
      /\ \A k \in 1 .. half : FirstHalf(w)[k] = w[k]
  <2> HIDE DEF l, half
  <2>1. \A k \in 1 .. half : w[k] \in A
    BY <1>5, <1>6, <1>7
  <2>2. /\ SubSeq(w, 1, half) \in Seq(A) /\ Len(SubSeq(w, 1, half)) = (IF 1 <= half THEN half - 1 + 1 ELSE 0)
        /\ \A k \in 1 .. half - 1 + 1 : SubSeq(w, 1, half)[k] = w[1 + k - 1]
    BY <1>6, <2>1, SubSeqProperties
  <2>3. half - 1 + 1 = half /\ \A k \in 1 .. half : 1 + k - 1 = k
    BY <1>6
  <2>4. Len(SubSeq(w, 1, half)) = half
    BY <1>6, <2>2
  <2> QED
    BY <2>2, <2>3, <2>4 DEF FirstHalf, half, l
<1>9. /\ SecondHalf(w) \in Seq(A) /\ Len(SecondHalf(w)) = l - half
      /\ \A k \in 1 .. l - half : SecondHalf(w)[k] = w[half + k]
  <2> HIDE DEF l, half
  <2>1. \A k \in half + 1 .. l : w[k] \in A
    BY <1>5, <1>6, <1>7
  <2>2. /\ SubSeq(w, half + 1, l) \in Seq(A)
        /\ Len(SubSeq(w, half + 1, l)) = (IF half + 1 <= l THEN l - (half + 1) + 1 ELSE 0)
        /\ \A k \in 1 .. l - (half + 1) + 1 : SubSeq(w, half + 1, l)[k] = w[half + 1 + k - 1]
    BY <1>5, <1>6, <2>1, SubSeqProperties
  <2>3. l - (half + 1) + 1 = l - half /\ \A k \in 1 .. l - half : half + 1 + k - 1 = half + k
    BY <1>5, <1>6
  <2>4. Len(SubSeq(w, half + 1, l)) = l - half
    BY <1>5, <1>6, <2>2
  <2> QED
    BY <2>2, <2>3, <2>4 DEF SecondHalf, half, l
<1>10. Halves(w, half, FirstHalf(w), SecondHalf(w))
  BY <1>6, <1>8, <1>9 DEF Halves
<1>11. FirstHalf(w) \in Parts(actions)
  <2>1. CASE half = 0
    <3>1. FirstHalf(w) = <<>>
      BY <1>8, <2>1
    <3>2. SubSeq(actions, 1, 0) = <<>> /\ 1 \in 1 .. n + 1 /\ 0 \in 0 .. n
      BY <1>2, SubSeqEmpty
    <3> QED
      BY <3>1, <3>2 DEF Parts
  <2>2. CASE half # 0
    <3>1. i <= j /\ i + half - 1 \in 0 .. n /\ half \in 1 .. j - i + 1
      BY <1>2, <1>4, <1>5, <1>6, <2>2
    <3>2. \A k \in i .. i + half - 1 : actions[k] \in A
      BY <1>3, <3>1
    <3>3. /\ SubSeq(actions, i, i + half - 1) \in Seq(A) /\ Len(SubSeq(actions, i, i + half - 1)) = half
          /\ \A k \in 1 .. half : SubSeq(actions, i, i + half - 1)[k] = actions[i + k - 1]
      <4> HIDE DEF half
      <4>1. /\ SubSeq(actions, i, i + half - 1) \in Seq(A)
            /\ Len(SubSeq(actions, i, i + half - 1)) =
                  (IF i <= i + half - 1 THEN i + half - 1 - i + 1 ELSE 0)
            /\ \A k \in 1 .. i + half - 1 - i + 1 : SubSeq(actions, i, i + half - 1)[k] = actions[i + k - 1]
        BY <1>6, <3>2, SubSeqProperties
      <4>2. i + half - 1 - i + 1 = half /\ i <= i + half - 1
        BY <1>6, <2>2
      <4> QED
        BY <4>1, <4>2
    <3>4. \A k \in 1 .. half : FirstHalf(w)[k] = actions[i + k - 1]
      <4> HIDE DEF half, l
      <4>1. \A k \in 1 .. half : k \in 1 .. j - i + 1
        BY <1>6, <3>1
      <4> QED
        BY <1>4, <1>8, <4>1
    <3>5. FirstHalf(w) = SubSeq(actions, i, i + half - 1)
      <4> HIDE DEF half
      <4> QED
        BY <1>8, <3>3, <3>4, SeqEqual
    <3> HIDE DEF half
    <3> QED
      BY <3>1, <3>5 DEF Parts
  <2> QED
    BY <2>1, <2>2
<1>12. SecondHalf(w) \in Parts(actions)
  <2>1. CASE l = 0
    <3>1. SecondHalf(w) = <<>>
      BY <1>6, <1>9, <2>1
    <3>2. SubSeq(actions, 1, 0) = <<>> /\ 1 \in 1 .. n + 1 /\ 0 \in 0 .. n
      BY <1>2, SubSeqEmpty
    <3> QED
      BY <3>1, <3>2 DEF Parts
  <2>2. CASE l # 0
    <3>1. i <= j /\ l = j - i + 1 /\ i + half \in 1 .. n + 1 /\ j \in 0 .. n /\ i + half <= j
      BY <1>2, <1>4, <1>5, <1>6, <2>2
    <3>2. \A k \in i + half .. j : actions[k] \in A
      BY <1>3, <1>6
    <3>3. /\ SubSeq(actions, i + half, j) \in Seq(A) /\ Len(SubSeq(actions, i + half, j)) = l - half
          /\ \A k \in 1 .. l - half : SubSeq(actions, i + half, j)[k] = actions[i + half + k - 1]
      <4> HIDE DEF half, l
      <4>1. /\ SubSeq(actions, i + half, j) \in Seq(A)
            /\ Len(SubSeq(actions, i + half, j)) = (IF i + half <= j THEN j - (i + half) + 1 ELSE 0)
            /\ \A k \in 1 .. j - (i + half) + 1 : SubSeq(actions, i + half, j)[k] = actions[i + half + k - 1]
        BY <1>6, <3>2, SubSeqProperties
      <4>2. j - (i + half) + 1 = l - half
        BY <1>6, <3>1
      <4> QED
        BY <3>1, <4>1, <4>2
    <3>4. \A k \in 1 .. l - half : SecondHalf(w)[k] = actions[i + half + k - 1]
      <4> HIDE DEF half, l
      <4>1. \A k \in 1 .. l - half : half + k \in 1 .. j - i + 1 /\ i + (half + k) - 1 = i + half + k - 1
        BY <1>6, <3>1
      <4> QED
        BY <1>4, <1>9, <4>1
    <3>5. SecondHalf(w) = SubSeq(actions, i + half, j)
      <4> HIDE DEF half, l
      <4> QED
        BY <1>9, <3>3, <3>4, SeqEqual
    <3> QED
      BY <3>1, <3>5 DEF Parts
  <2> QED
    BY <2>1, <2>2
<1> QED
  BY <1>4, <1>5, <1>8, <1>9, <1>10, <1>11, <1>12

SortedPart(f, w) == IF Len(w) <= 1 THEN w ELSE Merged(f[FirstHalf(w)], f[SecondHalf(w)])

LEMMA SmallerHalves ==
  ASSUME NEW A, NEW actions \in Seq(A), NEW w \in Parts(actions), ~(Len(w) <= 1)
  PROVE  Len(FirstHalf(w)) <= Len(w) - 1 /\ Len(SecondHalf(w)) <= Len(w) - 1
<1>1. Len(w) \in Nat /\ Halves(w, Len(w) \div 2, FirstHalf(w), SecondHalf(w))
  BY PartsAre
<1> DEFINE l == Len(w)
           half == l \div 2
<1>2. Len(FirstHalf(w)) = half /\ Len(SecondHalf(w)) = l - half
  BY <1>1 DEF Halves
<1>3. half >= 1 /\ half <= l - 1 /\ half \in Nat
  BY <1>1
<1> QED
  BY <1>1, <1>2, <1>3

LEMMA SortedIs ==
  ASSUME NEW A, NEW actions \in Seq(A)
  PROVE  \A w \in Parts(actions) : Sorted(actions)[w] = SortedPart(Sorted(actions), w)
<1> DEFINE D == Parts(actions)
           Upto(f, n) == \A w \in D : Len(w) <= n => f[w] = SortedPart(f, w)
           T == {n \in Nat : \E f \in [D -> Seq(A)] : Upto(f, n)}
<1>1. ASSUME NEW w \in D
      PROVE  /\ w \in Seq(A) /\ Len(w) \in Nat /\ Len(w) <= Len(actions)
             /\ FirstHalf(w) \in D /\ SecondHalf(w) \in D
  BY PartsAre
<1>2. ASSUME NEW f \in [D -> Seq(A)], NEW w \in D
      PROVE  SortedPart(f, w) \in Seq(A)
  BY <1>1, MergedIs DEF SortedPart
<1>3. 0 \in T
  <2> DEFINE f == [w \in D |-> w]
  <2>1. f \in [D -> Seq(A)]
    BY <1>1
  <2>2. Upto(f, 0)
    BY <1>1 DEF SortedPart
  <2> QED
    BY <2>1, <2>2
<1>4. ASSUME NEW n \in Nat, n \in T
      PROVE  n + 1 \in T
  <2>1. PICK f \in [D -> Seq(A)] : Upto(f, n)
    BY <1>4
  <2> DEFINE g == [w \in D |-> SortedPart(f, w)]
  <2>2. g \in [D -> Seq(A)]
    BY <1>2
  <2>3. ASSUME NEW w \in D, Len(w) <= n + 1
        PROVE  g[w] = SortedPart(g, w)
    <3>1. CASE Len(w) <= 1
      BY <3>1 DEF SortedPart
    <3>2. CASE ~(Len(w) <= 1)
      <4>1. Len(FirstHalf(w)) <= Len(w) - 1 /\ Len(SecondHalf(w)) <= Len(w) - 1
        BY <3>2, SmallerHalves
      <4>2. Len(FirstHalf(w)) \in Nat /\ Len(SecondHalf(w)) \in Nat /\ Len(w) \in Nat
        BY <1>1
      <4>3. Len(FirstHalf(w)) <= n /\ Len(SecondHalf(w)) <= n
        BY <2>3, <4>1, <4>2
      <4>4. g[FirstHalf(w)] = f[FirstHalf(w)] /\ g[SecondHalf(w)] = f[SecondHalf(w)]
        BY <1>1, <2>1, <4>3
      <4> QED
        BY <3>2, <4>4 DEF SortedPart
    <3> QED
      BY <3>1, <3>2
  <2> HIDE DEF g
  <2>4. Upto(g, n + 1)
    BY <2>3
  <2> QED
    BY <2>2, <2>4
<1>5. Len(actions) \in T
  <2>1. Len(actions) \in Nat
    BY LenProperties
  <2> HIDE DEF T
  <2> QED
    BY <1>3, <1>4, <2>1, Induction
<1>6. PICK f \in [D -> Seq(A)] : Upto(f, Len(actions))
  BY <1>5
<1>7. f = [w \in D |-> SortedPart(f, w)]
  BY <1>1, <1>6
<1>8. Sorted(actions) = CHOOSE g : g = [w \in D |-> IF Len(w) <= 1 THEN w
                                       ELSE Merged(g[FirstHalf(w)], g[SecondHalf(w)])]
  BY DEF Sorted
<1>9. f = [w \in D |-> IF Len(w) <= 1 THEN w ELSE Merged(f[FirstHalf(w)], f[SecondHalf(w)])]
  BY <1>7 DEF SortedPart
<1> DEFINE S == Sorted(actions)
<1>10. S = [w \in D |-> IF Len(w) <= 1 THEN w ELSE Merged(S[FirstHalf(w)], S[SecondHalf(w)])]
  BY <1>8, <1>9, Zenon
<1> QED
  BY <1>10 DEF SortedPart

LEMMA PartIsSorted ==
  ASSUME NEW A, NEW actions \in Seq(A)
  PROVE  \A w \in Parts(actions) :
            /\ Sorted(actions)[w] \in Seq(A)
            /\ \E p : /\ IsRearranged(Sorted(actions)[w], w, p) /\ (Orderly(w) => SortedFrom(w, p))
                      /\ StaysPut(w, p)
<1> DEFINE D == Parts(actions)
           f == Sorted(actions)
           Right(w) ==
             /\ f[w] \in Seq(A)
             /\ \E p : IsRearranged(f[w], w, p) /\ (Orderly(w) => SortedFrom(w, p)) /\ StaysPut(w, p)
           T == {n \in Nat : \A w \in D : Len(w) <= n => Right(w)}
<1>1. ASSUME NEW w \in D
      PROVE  /\ w \in Seq(A) /\ Len(w) \in Nat /\ Len(w) <= Len(actions)
             /\ FirstHalf(w) \in D /\ SecondHalf(w) \in D
             /\ FirstHalf(w) \in Seq(A) /\ SecondHalf(w) \in Seq(A)
             /\ Halves(w, Len(w) \div 2, FirstHalf(w), SecondHalf(w))
  BY PartsAre
<1>2. \A w \in D : f[w] = SortedPart(f, w)
  BY SortedIs
<1> HIDE DEF D, f
<1>3. ASSUME NEW w \in D, Len(w) <= 1
      PROVE  Right(w)
  <2> DEFINE p == [k \in 1 .. Len(w) |-> k]
  <2>1. f[w] = w /\ w \in Seq(A) /\ Len(w) \in Nat
    BY <1>1, <1>2, <1>3 DEF SortedPart
  <2>2. IsRearranged(w, w, p)
    BY DEF IsRearranged
  <2>3. SortedFrom(w, p)
    <3>1. \A j, k \in 1 .. Len(w) : ~(j < k)
      BY <1>3, <2>1
    <3> QED
      BY <3>1 DEF SortedFrom
  <2>4. StaysPut(w, p)
    <3>1. \A j, k \in 1 .. Len(w) : ~(j < k)
      BY <1>3, <2>1
    <3> QED
      BY <3>1 DEF StaysPut, StaysBehind, StaysApart
  <2> HIDE DEF p
  <2> QED
    BY <2>1, <2>2, <2>3, <2>4
<1>4. ASSUME NEW w \in D, ~(Len(w) <= 1), Right(FirstHalf(w)), Right(SecondHalf(w))
      PROVE  Right(w)
  <2> DEFINE s == FirstHalf(w)
             t == SecondHalf(w)
             h == Len(w) \div 2
             u == f[s]
             v == f[t]
  <2>1. PICK p : IsRearranged(u, s, p) /\ (Orderly(s) => SortedFrom(s, p)) /\ StaysPut(s, p)
    BY <1>4
  <2>2. PICK q : IsRearranged(v, t, q) /\ (Orderly(t) => SortedFrom(t, q)) /\ StaysPut(t, q)
    BY <1>4
  <2>3. f[w] = Merged(u, v)
    BY <1>2, <1>4 DEF SortedPart
  <2>4. Halves(w, h, s, t) /\ w \in Seq(A) /\ u \in Seq(A) /\ v \in Seq(A) /\ Len(w) \in Nat
    BY <1>1, <1>4
  <2> HIDE DEF s, t, h, u, v
  <2>5. Merging(A, w, h, s, t, u, v, p, q)
    BY <2>1, <2>2, <2>4 DEF Merging
  <2>6. IsRearranged(f[w], w, Origins(u, v, h, p, q))
    BY <2>3, <2>5, MergedRearranged
  <2>7. ASSUME Orderly(w)
        PROVE  Orderly(s) /\ Orderly(t)
    <3>1. /\ Len(s) = h /\ \A i \in 1 .. h : i \in 1 .. Len(w) /\ s[i] = w[i]
          /\ Len(t) = Len(w) - h /\ \A i \in 1 .. Len(w) - h : h + i \in 1 .. Len(w) /\ t[i] = w[h + i]
      BY <2>4 DEF Halves
    <3>2. Orderly(s)
      BY <2>7, <3>1 DEF Orderly
    <3>3. Orderly(t)
      <4> DEFINE d == Len(w) - h
      <4> HIDE DEF d
      <4>1. Len(t) = d /\ \A i \in 1 .. d : h + i \in 1 .. Len(w) /\ t[i] = w[h + i]
        BY <3>1 DEF d
      <4>2. \A i, j \in 1 .. d : Le(t[i], t[j]) \/ Le(t[j], t[i])
        BY <2>7, <4>1 DEF Orderly
      <4>3. \A i, j, k \in 1 .. d : Le(t[i], t[j]) /\ Le(t[j], t[k]) => Le(t[i], t[k])
        BY <2>7, <4>1 DEF Orderly
      <4> QED
        BY <4>1, <4>2, <4>3 DEF Orderly
    <3> QED
      BY <3>2, <3>3
  <2>8. Orderly(w) => SortedFrom(w, Origins(u, v, h, p, q))
    BY <2>1, <2>2, <2>5, <2>7, MergedSorted
  <2>9. f[w] \in Seq(A)
    BY <2>3, <2>4, MergedIs
  <2>10. StaysPut(w, Origins(u, v, h, p, q))
    BY <2>1, <2>2, <2>5, MergedBehind, MergedApart DEF StaysPut
  <2> QED
    BY <2>6, <2>8, <2>9, <2>10
<1> HIDE DEF Right
<1>5. 0 \in T
  BY <1>1, <1>3
<1>6. ASSUME NEW n \in Nat, n \in T
      PROVE  n + 1 \in T
  <2> SUFFICES ASSUME NEW w \in D, Len(w) <= n + 1, ~(Len(w) <= 1)
               PROVE  Right(w)
    BY <1>3
  <2>1. Len(FirstHalf(w)) <= Len(w) - 1 /\ Len(SecondHalf(w)) <= Len(w) - 1
    BY SmallerHalves DEF D
  <2>2. /\ Len(FirstHalf(w)) \in Nat /\ Len(SecondHalf(w)) \in Nat /\ Len(w) \in Nat
        /\ FirstHalf(w) \in D /\ SecondHalf(w) \in D
    BY <1>1
  <2>3. Len(FirstHalf(w)) <= n /\ Len(SecondHalf(w)) <= n
    BY <2>1, <2>2
  <2>4. Right(FirstHalf(w)) /\ Right(SecondHalf(w))
    BY <1>6, <2>2, <2>3
  <2> QED
    BY <1>4, <2>4
<1>7. Len(actions) \in T
  <2>1. Len(actions) \in Nat
    BY LenProperties
  <2> HIDE DEF T
  <2> QED
    BY <1>5, <1>6, <2>1, Induction
<1>8. \A w \in D : Right(w)
  BY <1>1, <1>7
<1> QED
  BY <1>8 DEF Right, D, f

\* The sort keeps what is sorted, however positions overflow; and where they do not,
\* the result is in order and what is equal stays in the order it was in; and an
\* element that no one before it is greater than keeps those before it there, and
\* nothing moves across a place which nothing before is greater than what is after.
LEMMA Sorting ==
  ASSUME NEW A, NEW actions \in Seq(A)
  PROVE  /\ g_ptr_array_sort(actions) \in Seq(A)
         /\ \E p : /\ IsRearranged(g_ptr_array_sort(actions), actions, p)
                   /\ Orderly(actions) => SortedFrom(actions, p)
                   /\ StaysPut(actions, p)
<1>1. actions \in Parts(actions)
  <2>1. SubSeq(actions, 1, Len(actions)) = actions /\ Len(actions) \in Nat
    BY SubSeqFull, LenProperties
  <2>2. 1 \in 1 .. Len(actions) + 1 /\ Len(actions) \in 0 .. Len(actions)
    BY <2>1
  <2> QED
    BY <2>1, <2>2 DEF Parts
<1>2. g_ptr_array_sort(actions) = Sorted(actions)[actions]
  <2>1. Sorted(actions)[actions] = SortedPart(Sorted(actions), actions)
    BY <1>1, SortedIs
  <2> QED
    BY <2>1 DEF g_ptr_array_sort, SortedPart
<1> QED
  BY <1>1, <1>2, PartIsSorted

-----------------------------------------------------------------------------
(* The elements at some places.                                              *)

Rank(P, i) == Cardinality({j \in P : j < i})

LEMMA Ranks ==
  ASSUME NEW n \in Nat, NEW P \in SUBSET (1 .. n)
  PROVE  /\ IsFiniteSet(P) /\ Cardinality(P) \in Nat
         /\ \A i \in P : Rank(P, i) + 1 \in 1 .. Cardinality(P)
         /\ \A i, j \in P : i < j => Rank(P, i) < Rank(P, j)
         /\ \A k \in 1 .. Cardinality(P) : \E i \in P : Rank(P, i) = k - 1
<1> DEFINE c == Cardinality(P)
           Below(i) == {j \in P : j < i}
<1>1. IsFiniteSet(P) /\ c \in Nat
  <2>1. IsFiniteSet(1 .. n)
    BY FS_Interval
  <2> QED
    BY <2>1, FS_Subset, FS_CardinalityType
<1>8. \A i \in P : i \in Nat
  OBVIOUS
<1>2. ASSUME NEW i \in P
      PROVE  /\ IsFiniteSet(Below(i)) /\ Rank(P, i) \in Nat
             /\ IsFiniteSet(Below(i) \cup {i}) /\ Cardinality(Below(i) \cup {i}) = Rank(P, i) + 1
  <2>1. IsFiniteSet(Below(i)) /\ Cardinality(Below(i)) \in Nat
    BY <1>1, FS_Subset, FS_CardinalityType
  <2>2. i \notin Below(i)
    OBVIOUS
  <2> HIDE DEF Below
  <2>3. IsFiniteSet(Below(i) \cup {i}) /\ Cardinality(Below(i) \cup {i}) = Cardinality(Below(i)) + 1
    BY <2>1, <2>2, FS_AddElement
  <2> QED
    BY <2>1, <2>3 DEF Rank, Below
<1>3. ASSUME NEW i \in P, NEW j \in P, i < j
      PROVE  Rank(P, i) < Rank(P, j)
  <2>1. Below(i) \cup {i} \subseteq Below(j)
    <3>1. \A x, y, z \in Nat : x < y /\ y < z => x < z
      OBVIOUS
    <3> QED
      BY <1>3, <1>8, <3>1
  <2>2. Cardinality(Below(i) \cup {i}) <= Cardinality(Below(j))
    <3> HIDE DEF Below
    <3> QED
      BY <1>2, <2>1, FS_Subset
  <2> QED
    <3>1. Rank(P, i) \in Nat /\ Rank(P, j) \in Nat /\ Cardinality(Below(j)) = Rank(P, j)
      BY <1>2 DEF Rank
    <3>2. Cardinality(Below(i) \cup {i}) = Rank(P, i) + 1
      BY <1>2
    <3> QED
      BY <2>2, <3>1, <3>2
<1>4. ASSUME NEW i \in P
      PROVE  Rank(P, i) + 1 \in 1 .. c
  <2>1. Below(i) \cup {i} \subseteq P
    OBVIOUS
  <2>2. Cardinality(Below(i) \cup {i}) <= c
    <3> HIDE DEF Below
    <3> QED
      BY <1>1, <2>1, FS_Subset
  <2> QED
    <3>1. Rank(P, i) \in Nat /\ Cardinality(Below(i) \cup {i}) = Rank(P, i) + 1
      BY <1>2
    <3> QED
      BY <1>1, <2>2, <3>1
<1> DEFINE f == [i \in P |-> Rank(P, i) + 1]
<1>5. f \in Injection(P, 1 .. c)
  <2>1. f \in [P -> 1 .. c]
    BY <1>4
  <2>2. ASSUME NEW i \in P, NEW j \in P, f[i] = f[j]
        PROVE  i = j
    <3>1. Rank(P, i) = Rank(P, j) /\ Rank(P, i) \in Nat
      <4>1. Rank(P, i) \in Nat /\ Rank(P, j) \in Nat
        BY <1>2
      <4>2. Rank(P, i) + 1 = Rank(P, j) + 1
        BY <2>2
      <4> QED
        BY <4>1, <4>2
    <3>2. ~(i < j) /\ ~(j < i)
      BY <1>2, <1>3, <3>1
    <3> QED
      BY <3>2
  <2>3. IsInjective(f)
    BY <2>2 DEF IsInjective
  <2> QED
    BY <2>1, <2>3 DEF Injection
<1>6. f \in Surjection(P, 1 .. c)
  <2>1. IsFiniteSet(1 .. c) /\ Cardinality(1 .. c) = c
    BY <1>1, FS_Interval
  <2> HIDE DEF f
  <2> QED
    BY <1>1, <1>5, <2>1, FS_Injection
<1>7. ASSUME NEW k \in 1 .. c
      PROVE  \E i \in P : Rank(P, i) = k - 1
  <2>1. \E i \in P : f[i] = k
    BY <1>6 DEF Surjection
  <2> QED
    <3>1. PICK i \in P : f[i] = k
      BY <2>1
    <3>2. Rank(P, i) \in Nat /\ Rank(P, i) + 1 = k
      BY <1>2, <3>1
    <3>3. Rank(P, i) = k - 1
      BY <3>2
    <3> QED
      BY <3>3
<1> QED
  BY <1>1, <1>3, <1>4, <1>7

(* f lists the numbers of P in ascending order.                               *)
Enumerates(f, P) ==
    /\ f \in [1 .. Cardinality(P) -> P]
    /\ \A i \in P : \E k \in 1 .. Cardinality(P) : f[k] = i
    /\ \A j, k \in 1 .. Cardinality(P) : j < k => f[j] < f[k]

ArePlaces(s, P, u) ==
    /\ Len(u) = Cardinality(P) /\ Cardinality(P) \in Nat
    /\ \E f : Enumerates(f, P) /\ \A k \in 1 .. Cardinality(P) : u[k] = s[f[k]]

LEMMA PlacesAre ==
  ASSUME NEW A, NEW s \in Seq(A), NEW P \in SUBSET (1 .. Len(s))
  PROVE  Places(s, P) \in Seq(A) /\ ArePlaces(s, P, Places(s, P))
<1> DEFINE c == Cardinality(P)
           at(k) == CHOOSE i \in P : Rank(P, i) = k - 1
           e(k) == s[at(k)]
           f == [k \in 1 .. c |-> at(k)]
           M == [k \in 1 .. c |-> e(k)]
<1>1. Len(s) \in Nat /\ s \in [1 .. Len(s) -> A]
  BY LenProperties
<1>2. /\ c \in Nat /\ \A i \in P : Rank(P, i) + 1 \in 1 .. c
      /\ \A i, j \in P : i < j => Rank(P, i) < Rank(P, j)
      /\ \A k \in 1 .. c : \E i \in P : Rank(P, i) = k - 1
  BY <1>1, Ranks
<1>3. \A k \in 1 .. c : at(k) \in P /\ Rank(P, at(k)) = k - 1
  BY <1>2
<1>10. /\ \A i \in P : i \in Nat
       /\ \A i \in P : Rank(P, i) \in Int
  <2>1. \A i \in P : Rank(P, i) = (Rank(P, i) + 1) - 1
    <3>1. IsFiniteSet(P) /\ \A i \in P : {j \in P : j < i} \in SUBSET P
      BY <1>1, Ranks
    <3>2. \A i \in P : Rank(P, i) \in Nat
      BY <3>1, FS_Subset, FS_CardinalityType DEF Rank
    <3> QED
      BY <3>2
  <2> QED
    BY <1>2, <2>1
<1> HIDE DEF at, c
<1>4. \A j, k \in 1 .. c : j < k => f[j] < f[k]
  <2> SUFFICES ASSUME NEW j \in 1 .. c, NEW k \in 1 .. c, j < k
               PROVE  at(j) < at(k)
    OBVIOUS
  <2>1. at(j) \in P /\ at(k) \in P /\ Rank(P, at(j)) = j - 1 /\ Rank(P, at(k)) = k - 1
    BY <1>3
  <2>2. ~(at(k) < at(j)) /\ at(k) # at(j)
    <3>1. ~(Rank(P, at(k)) < Rank(P, at(j))) /\ Rank(P, at(k)) # Rank(P, at(j))
      BY <1>2, <2>1
    <3> QED
      BY <1>2, <2>1, <3>1
  <2>3. at(j) \in Nat /\ at(k) \in Nat
    BY <1>10, <2>1
  <2> QED
    BY <2>2, <2>3
<1>5. \A i \in P : \E k \in 1 .. c : f[k] = i
  <2> SUFFICES ASSUME NEW i \in P
               PROVE  \E k \in 1 .. c : f[k] = i
    OBVIOUS
  <2> DEFINE k == Rank(P, i) + 1
  <2>1. k \in 1 .. c
    BY <1>2
  <2>2. at(k) \in P /\ Rank(P, at(k)) = k - 1
    BY <1>3, <2>1
  <2>3. Rank(P, at(k)) = Rank(P, i) /\ Rank(P, i) \in Nat
    <3> HIDE DEF at
    <3>1. Rank(P, i) \in Int /\ Rank(P, i) \in Nat
      BY <1>2, <1>10
    <3> QED
      BY <2>1, <2>2, <3>1
  <2>4. ~(at(k) < i) /\ ~(i < at(k))
    <3>1. at(k) \in P
      BY <2>2
    <3> HIDE DEF k
    <3>2. ~(Rank(P, at(k)) < Rank(P, i)) /\ ~(Rank(P, i) < Rank(P, at(k)))
      BY <2>3
    <3> QED
      BY <1>2, <3>1, <3>2
  <2>5. at(k) = i
    <3>1. at(k) \in Nat /\ i \in Nat
      BY <1>10, <2>2
    <3> HIDE DEF k
    <3> QED
      BY <2>4, <3>1
  <2> QED
    BY <2>1, <2>5
<1>6. Enumerates(f, P)
  BY <1>3, <1>4, <1>5 DEF Enumerates, c
<1>7. \A k \in 1 .. c : e(k) \in A
  BY <1>1, <1>3
<1>8. M \in Seq(A) /\ Len(M) = c
  <2>1. M \in Seq(A)
    <3> HIDE DEF e
    <3> QED
      BY <1>2, <1>7, IsASeq
  <2> QED
    BY <1>2, <2>1
<1>9. Places(s, P) = M
  <2>1. Places(s, P) = <<>> \o M
    BY DEF Places, Rank, at, c
  <2> HIDE DEF M
  <2> QED
    BY <1>8, <2>1, ConcatEmptySeq
<1> QED
  BY <1>2, <1>6, <1>8, <1>9 DEF c, ArePlaces

LEMMA Onto ==
  ASSUME NEW u, NEW w, NEW p, IsRearranged(u, w, p), Len(w) \in Nat
  PROVE  \A j \in 1 .. Len(w) : \E k \in 1 .. Len(w) : p[k] = j
<1> DEFINE n == Len(w)
<1>0. n \in Nat
  OBVIOUS
<1>1. IsFiniteSet(1 .. n) /\ Cardinality(1 .. n) = n
  <2> HIDE DEF n
  <2> QED
    BY <1>0, FS_Interval
<1>2. p \in Injection(1 .. n, 1 .. n)
  BY DEF IsRearranged, Injection, IsInjective
<1> HIDE DEF n
<1>3. p \in Surjection(1 .. n, 1 .. n)
  BY <1>1, <1>2, FS_Injection
<1> QED
  BY <1>3 DEF Surjection, n

-----------------------------------------------------------------------------
(* What the directories hold.                                                *)

Directory(n) == UNION {[F -> Seq(Candidates[n])] : F \in SUBSET File}

Content ==
    /\ N \in Directories /\ computer \in Computers[N]
    /\ directories \in Seq(Directory(N))

LEMMA FromSubset ==
  ASSUME NEW X, NEW V, NEW t
  PROVE  t \in UNION {[F -> V] : F \in SUBSET X} <=> DOMAIN t \subseteq X /\ t \in [DOMAIN t -> V]
  OBVIOUS

LEMMA DirectoryIs ==
  ASSUME NEW n, NEW d
  PROVE  d \in Directory(n) <=> DOMAIN d \subseteq File /\ d \in [DOMAIN d -> Seq(Candidates[n])]
  BY DEF Directory

LEMMA InitContent == ListsInit => Content
<1> SUFFICES ASSUME ListsInit
             PROVE  Content
  OBVIOUS
<1>1. PICK n \in Directories : directories = [d \in 1 .. n |-> <<>>] /\ computer \in Computers[n]
  BY DEF ListsInit
<1>2. n \in Nat
  BY ListsAssumption
<1>3. <<>> \in Directory(n)
  <2>1. DOMAIN <<>> = {} /\ <<>> \in [{} -> Seq(Candidates[n])]
    OBVIOUS
  <2> QED
    BY <2>1, DirectoryIs
<1> DEFINE D == Directory(n)
<1>4. directories \in Seq(D)
  <2> HIDE DEF D
  <2>1. <<>> \in D
    BY <1>3 DEF D
  <2> QED
    BY <1>1, <1>2, <2>1, IsASeq
<1>5. N = n
  BY <1>1, <1>2 DEF N
<1> QED
  BY <1>1, <1>4, <1>5 DEF Content

LEMMA NextContent == Content /\ [ListsNext]_listsVars => Content'
<1> SUFFICES ASSUME Content, [ListsNext]_listsVars
             PROVE  Content'
  OBVIOUS
<1>1. CASE UNCHANGED listsVars
  BY <1>1 DEF Content, listsVars, N, Directory, File
<1>2. CASE ListsNext
  <2>1. PICK d \in 1 .. N, f \in File, entry \in Candidates[N] : AppendEntry(d, f, entry)
    BY <1>2 DEF ListsNext
  <2> DEFINE D == Directory(N)
             old == IF f \in DOMAIN directories[d] THEN directories[d][f] ELSE <<>>
             new == [g \in DOMAIN directories[d] \cup {f} |-> IF g = f THEN Append(old, entry) ELSE directories[d][g]]
  <2>2. directories \in Seq(D) /\ N = Len(directories)
    BY DEF Content, N
  <2>3. directories' = [directories EXCEPT ![d] = new] /\ computer' = computer
    BY <2>1 DEF AppendEntry
  <2>4. directories[d] \in D
    <3> HIDE DEF D
    <3> QED
      BY <2>2, ElementOfSeq
  <2>5. new \in D
    <3>1. DOMAIN directories[d] \subseteq File /\ directories[d] \in [DOMAIN directories[d] -> Seq(Candidates[N])]
      BY <2>4, DirectoryIs
    <3>2. old \in Seq(Candidates[N])
      <4>1. <<>> \in Seq(Candidates[N])
        BY EmptySeq
      <4> QED
        BY <3>1, <4>1
    <3>3. Append(old, entry) \in Seq(Candidates[N])
      BY <3>2, AppendProperties
    <3>4. new \in [DOMAIN directories[d] \cup {f} -> Seq(Candidates[N])]
      <4> HIDE DEF old
      <4>1. \A g \in DOMAIN directories[d] \cup {f} :
              (IF g = f THEN Append(old, entry) ELSE directories[d][g]) \in Seq(Candidates[N])
        BY <3>1, <3>3
      <4> QED
        BY <4>1
    <3>5. DOMAIN directories[d] \cup {f} \subseteq File
      BY <3>1
    <3> HIDE DEF old, new
    <3> QED
      BY <3>4, <3>5, DirectoryIs
  <2>6. directories' \in Seq(D) /\ Len(directories') = N
    <3> HIDE DEF D, new
    <3> QED
      BY <2>2, <2>3, <2>5, ExceptSeq
  <2> HIDE DEF new
  <2> QED
    BY <2>3, <2>6 DEF Content, N, Directory, File
<1> QED
  BY <1>1, <1>2

LEMMA ContentIs == ListsSpec => []Content
  BY InitContent, NextContent, PTL DEF ListsSpec

-----------------------------------------------------------------------------
(* Loading: each file is read from the first directory that has it.            *)

LEMMA DirectoriesAre ==
  ASSUME NEW n, NEW dirs \in Seq(Directory(n)), NEW d \in 1 .. Len(dirs)
  PROVE  DOMAIN dirs[d] \subseteq File /\ dirs[d] \in [DOMAIN dirs[d] -> Seq(Candidates[n])]
<1> DEFINE D == Directory(n)
<1>2. dirs \in Seq(D)
  OBVIOUS
<1>1. dirs[d] \in D
  <2> HIDE DEF D
  <2> QED
    BY <1>2, ElementOfSeq
<1> QED
  BY <1>1, DirectoryIs

ReadAt(dirs, sys, d, f) ==
    [priority |-> d, read |-> read_flatpak_ref_actions_from_node(f, dirs[d][f], sys)]

(* What a table may be, and how it grows.                                    *)
ReadsOf(dirs, sys) == {ReadAt(dirs, sys, d, f) : d \in 1 .. Len(dirs), f \in File}
TableSet(dirs, sys) == UNION {[F -> ReadsOf(dirs, sys)] : F \in SUBSET File}

Grown(dirs, sys, d, t, a) ==
    /\ a \in TableSet(dirs, sys)
    /\ DOMAIN a = DOMAIN t \cup DOMAIN dirs[d]
    /\ \A f \in DOMAIN a :
          a[f] = IF f \in DOMAIN dirs[d] /\ (f \in DOMAIN t => t[f].priority >= d)
                 THEN ReadAt(dirs, sys, d, f) ELSE t[f]

LEMMA Appending ==
  ASSUME NEW n, NEW dirs \in Seq(Directory(n)), NEW sys, NEW d \in 1 .. Len(dirs),
         NEW t \in TableSet(dirs, sys)
  PROVE  Grown(dirs, sys, d, t, euu_flatpak_ref_actions_append_from_directory(t, dirs[d], d, sys))
<1> DEFINE E == DOMAIN t \cup DOMAIN dirs[d]
           Vs == ReadsOf(dirs, sys)
           v(f) == IF f \in DOMAIN dirs[d] /\ (f \in DOMAIN t => t[f].priority >= d)
                   THEN ReadAt(dirs, sys, d, f) ELSE t[f]
           a == euu_flatpak_ref_actions_append_from_directory(t, dirs[d], d, sys)
<1>1. DOMAIN dirs[d] \subseteq File /\ DOMAIN t \subseteq File /\ t \in [DOMAIN t -> Vs]
  <2>1. DOMAIN dirs[d] \subseteq File
    BY DirectoriesAre
  <2> QED
    BY <2>1, FromSubset DEF TableSet
<1>2. a = [f \in E |-> v(f)]
  BY DEF euu_flatpak_ref_actions_append_from_directory, ReadAt
<1>3. \A f \in E : v(f) \in Vs
  <2> SUFFICES ASSUME NEW f \in E
               PROVE  v(f) \in Vs
    OBVIOUS
  <2>1. f \in File
    BY <1>1
  <2>2. ReadAt(dirs, sys, d, f) \in Vs
    BY <2>1 DEF ReadsOf
  <2>3. f \in DOMAIN t => t[f] \in Vs
    BY <1>1
  <2> HIDE DEF Vs
  <2> QED
    BY <2>2, <2>3
<1> HIDE DEF Vs, v, a
<1>4. a \in [E -> Vs] /\ E \subseteq File
  BY <1>1, <1>2, <1>3
<1>5. a \in TableSet(dirs, sys)
  <2>1. DOMAIN a = E
    BY <1>4
  <2> QED
    BY <1>4, <2>1, FromSubset DEF TableSet, Vs
<1> QED
  BY <1>2, <1>5 DEF v, a, Grown

LEMMA TablesAre ==
  ASSUME NEW n, NEW dirs \in Seq(Directory(n)), NEW sys
  PROVE  /\ Tables(dirs, sys)[0] = <<>>
         /\ \A d \in 0 .. Len(dirs) : Tables(dirs, sys)[d] \in TableSet(dirs, sys)
         /\ \A d \in 1 .. Len(dirs) :
               Tables(dirs, sys)[d] =
                 euu_flatpak_ref_actions_append_from_directory(Tables(dirs, sys)[d - 1], dirs[d], d, sys)
<1> DEFINE m == Len(dirs)
           S == TableSet(dirs, sys)
           next(t, d) == euu_flatpak_ref_actions_append_from_directory(t, dirs[d], d, sys)
           step == [x \in (1 .. m) \X S |-> next(x[2], x[1])]
<1>1. m \in Nat
  BY LenProperties
<1>2. <<>> \in S
  <2>1. <<>> \in [{} -> ReadsOf(dirs, sys)] /\ {} \in SUBSET File
    OBVIOUS
  <2> QED
    BY <2>1, Zenon DEF TableSet
<1>3. \A d \in 1 .. m : \A t \in S : next(t, d) \in S
  BY Appending DEF Grown
<1> HIDE DEF S, next, m
<1>4. step \in [(1 .. m) \X S -> S] /\ \A d \in 1 .. m : \A t \in S : step[<<d, t>>] = next(t, d)
  BY <1>3
<1> HIDE DEF step
<1>5. Exists(m, S, <<>>, step)
  BY <1>1, <1>2, <1>4, Recursion
<1>6. PICK f \in [0 .. m -> S] : f[0] = <<>> /\ \A d \in 1 .. m : f[d] = step[<<d, f[d - 1]>>]
  BY <1>5 DEF Exists
<1>7. ASSUME NEW d \in 1 .. m
      PROVE  d # 0 /\ d \in 0 .. m /\ d - 1 \in 0 .. m /\ f[d] = next(f[d - 1], d)
  <2>1. d # 0 /\ d \in 0 .. m /\ d - 1 \in 0 .. m
    BY <1>1
  <2> QED
    BY <1>4, <1>6, <2>1
<1>8. f = [d \in 0 .. m |-> IF d = 0 THEN <<>> ELSE next(f[d - 1], d)]
  <2>1. \A d \in 0 .. m : d = 0 \/ d \in 1 .. m
    BY <1>1
  <2> QED
    BY <1>6, <1>7, <2>1
<1>9. Tables(dirs, sys) = CHOOSE g : g = [d \in 0 .. m |-> IF d = 0 THEN <<>> ELSE next(g[d - 1], d)]
  BY DEF Tables, m, next
<1> DEFINE T == Tables(dirs, sys)
<1>10. T = [d \in 0 .. m |-> IF d = 0 THEN <<>> ELSE next(T[d - 1], d)]
  BY <1>8, <1>9, Zenon
<1> HIDE DEF T
<1>11. T[0] = <<>> /\ \A d \in 1 .. m : T[d] = next(T[d - 1], d)
  <2>1. 0 \in 0 .. m /\ \A d \in 1 .. m : d # 0 /\ d \in 0 .. m
    BY <1>1
  <2> QED
    BY <1>10, <2>1
<1>12. \A d \in 0 .. m : T[d] \in S
  <2>1. \A d \in 1 .. m : T[d - 1] \in S => T[d] \in S
    BY <1>3, <1>11
  <2> QED
    BY <1>1, <1>2, <1>11, <2>1, StaysIn
<1> QED
  BY <1>11, <1>12 DEF T, S, next, m

FirstOf(dirs, d, f, e) ==
    /\ e \in 1 .. d /\ f \in DOMAIN dirs[e]
    /\ \A x \in 1 .. d : f \in DOMAIN dirs[x] => e <= x

TableOf(dirs, sys, d, t) ==
    /\ \A f : f \in DOMAIN t <=> \E e \in 1 .. d : f \in DOMAIN dirs[e]
    /\ \A f \in DOMAIN t : \E e \in 1 .. d : FirstOf(dirs, d, f, e) /\ t[f] = ReadAt(dirs, sys, e, f)

LEMMA TableIs ==
  ASSUME NEW n, NEW dirs \in Seq(Directory(n)), NEW sys, NEW d \in 0 .. Len(dirs)
  PROVE  TableOf(dirs, sys, d, Tables(dirs, sys)[d])
<1> DEFINE m == Len(dirs)
           T == Tables(dirs, sys)
           U == {e \in 0 .. m : TableOf(dirs, sys, e, T[e])}
<1>1. m \in Nat
  BY LenProperties
<1>2. /\ T[0] = <<>> /\ \A e \in 0 .. m : T[e] \in TableSet(dirs, sys)
      /\ \A e \in 1 .. m : T[e] = euu_flatpak_ref_actions_append_from_directory(T[e - 1], dirs[e], e, sys)
  BY TablesAre
<1> HIDE DEF m, T
<1>3. 0 \in U
  BY <1>1, <1>2 DEF TableOf
<1>4. ASSUME NEW e \in 1 .. m, e - 1 \in U
      PROVE  e \in U
  <2> DEFINE t == T[e - 1]
             a == T[e]
             r(x, f) == ReadAt(dirs, sys, x, f)
  <2>1. e - 1 \in 0 .. m /\ t \in TableSet(dirs, sys) /\ TableOf(dirs, sys, e - 1, t)
    BY <1>2, <1>4
  <2>2. /\ DOMAIN a = DOMAIN t \cup DOMAIN dirs[e]
        /\ \A f \in DOMAIN a : a[f] = IF f \in DOMAIN dirs[e] /\ (f \in DOMAIN t => t[f].priority >= e)
                                      THEN r(e, f) ELSE t[f]
    <3>1. Grown(dirs, sys, e, t, a)
      BY <1>2, <2>1, Appending DEF m
    <3> QED
      BY <3>1 DEF Grown
  <2>3. \A x : x \in 1 .. e <=> x \in 1 .. e - 1 \/ x = e
    BY <1>1
  <2>4. \A f : f \in DOMAIN a <=> \E x \in 1 .. e : f \in DOMAIN dirs[x]
    BY <2>1, <2>2, <2>3 DEF TableOf
  <2>5. ASSUME NEW f \in DOMAIN a
        PROVE  \E x \in 1 .. e : FirstOf(dirs, e, f, x) /\ a[f] = r(x, f)
    <3>1. CASE f \in DOMAIN t
      <4>1. PICK x \in 1 .. e - 1 : FirstOf(dirs, e - 1, f, x) /\ t[f] = r(x, f)
        BY <2>1, <3>1 DEF TableOf
      <4>2. x \in 1 .. e /\ x \in Nat /\ x < e /\ FirstOf(dirs, e, f, x)
        BY <1>1, <2>3, <4>1 DEF FirstOf
      <4>3. t[f].priority = x
        BY <4>1 DEF ReadAt
      <4>4. a[f] = t[f]
        BY <2>2, <3>1, <4>2, <4>3
      <4> QED
        BY <4>1, <4>2, <4>4
    <3>2. CASE f \notin DOMAIN t
      <4>1. f \in DOMAIN dirs[e] /\ a[f] = r(e, f)
        BY <2>2, <3>2
      <4>2. \A x \in 1 .. e - 1 : f \notin DOMAIN dirs[x]
        BY <2>1, <3>2 DEF TableOf
      <4>3. FirstOf(dirs, e, f, e)
        BY <1>1, <2>3, <4>1, <4>2 DEF FirstOf
      <4> QED
        BY <2>3, <4>1, <4>3
    <3> QED
      BY <3>1, <3>2
  <2>6. e \in 0 .. m
    BY <1>1
  <2> HIDE DEF a, t
  <2> QED
    BY <2>4, <2>5, <2>6 DEF TableOf, a
<1>5. \A e \in 0 .. m : e \in U
  <2> HIDE DEF U
  <2> QED
    BY <1>1, <1>3, <1>4, InductionUpto
<1> QED
  BY <1>5 DEF m, T

LEMMA FirstDirectoryIsRead == Content => FirstDirectoryWins
<1> SUFFICES ASSUME Content
             PROVE  FirstDirectoryWins
  OBVIOUS
<1> DEFINE T == Tables(directories, computer)[N]
           has(f) == {d \in 1 .. N : f \in DOMAIN directories[d]}
           first(f) == CHOOSE d \in has(f) : \A e \in has(f) : d <= e
           present == {f \in File : has(f) # {}}
           read(f) == read_flatpak_ref_actions_from_node(f, directories[first(f)][f], computer)
<1>1. N \in Nat /\ N \in 0 .. N
  BY ListsAssumption DEF Content
<1>2. TableOf(directories, computer, N, T)
  BY <1>1, TableIs DEF Content, N
<1>3. DOMAIN T = present
  <2>1. \A d \in 1 .. N : DOMAIN directories[d] \subseteq File
    BY DirectoriesAre DEF Content, N
  <2> HIDE DEF T
  <2>2. \A f : f \in DOMAIN T <=> f \in present
    BY <1>2, <2>1 DEF TableOf
  <2> QED
    BY <2>2
<1> HIDE DEF T
<1>4. ASSUME NEW f \in present
      PROVE  T[f].read = read(f)
  <2>1. PICK e \in 1 .. N : FirstOf(directories, N, f, e) /\ T[f] = ReadAt(directories, computer, e, f)
    BY <1>2, <1>3, <1>4 DEF TableOf
  <2>2. first(f) = e
    <3>1. e \in has(f) /\ \A x \in has(f) : e <= x /\ x \in Int
      BY <2>1 DEF FirstOf
    <3>2. \A x \in has(f) : x <= e => x = e
      BY <3>1
    <3> HIDE DEF has
    <3> QED
      BY <3>1, <3>2
  <2> HIDE DEF first
  <2> QED
    BY <2>1, <2>2 DEF ReadAt
<1>5. /\ Lists.ok <=> \A f \in DOMAIN T : T[f].read.ok
      /\ Lists.table = [f \in DOMAIN T |-> T[f].read.actions]
  BY DEF Lists, euu_flatpak_ref_actions_from_paths, euu_hoist_flatpak_remote_ref_actions, T, N
<1> DEFINE reads == [f \in present |-> read(f)]
<1>6. Lists.ok <=> \A f \in present : reads[f].ok
  <2> HIDE DEF present, read
  <2> QED
    BY <1>3, <1>4, <1>5
<1>7. Lists.table = [f \in present |-> reads[f].actions]
  <2> HIDE DEF present, read
  <2> QED
    BY <1>3, <1>4, <1>5
<1> QED
  BY <1>6, <1>7 DEF FirstDirectoryWins

-----------------------------------------------------------------------------
(* Reading: all filters apply, and nothing is done by halves.                  *)

Entry == [object : BOOLEAN, filters : Seq([key : STRING, values : Seq(STRING)]),
          action : STRING, serial : Int, ref : Ref, complete : BOOLEAN]

LEMMA EntriesAre == \A n \in Directories : Candidates[n] \subseteq Entry
  BY ListsAssumption DEF Entry

(* Values that are all strings are searched in full.                          *)
LEMMA Searched ==
  ASSUME NEW strv, NEW values \in Seq(STRING), \A i \in DOMAIN values : values[i] # NotString
  PROVE  strv_element_in_json_string_node_list(strv, values) =
            IF \E i \in DOMAIN values : values[i] \in strv THEN "present" ELSE "absent"
<1> DEFINE decisive == {i \in DOMAIN values : values[i] = NotString \/ values[i] \in strv}
<1>1. decisive \in SUBSET Nat /\ (decisive # {} <=> \E i \in DOMAIN values : values[i] \in strv)
  <2>1. DOMAIN values \subseteq Nat
    BY LenProperties
  <2> QED
    BY <2>1
<1>2. decisive # {} => Min(decisive) \in decisive
  <2> HIDE DEF decisive
  <2> QED
    BY <1>1, Smallest
<1>3. decisive # {} => values[Min(decisive)] # NotString
  BY <1>2
<1> QED
  BY <1>1, <1>3 DEF strv_element_in_json_string_node_list

LEMMA KeptIs ==
  ASSUME NEW entry, entry \in Entry, NEW sys, action_node_should_be_filtered_out(entry, sys) = "kept"
  PROVE  \A i \in DOMAIN entry.filters : action_filter_applies(entry.filters[i], sys) = "kept"
<1> DEFINE applies(i) == action_filter_applies(entry.filters[i], sys)
           decisive == {i \in DOMAIN entry.filters : applies(i) # "kept"}
<1>1. decisive \in SUBSET Nat
  <2>1. DOMAIN entry.filters \subseteq Nat
    BY LenProperties DEF Entry
  <2> QED
    BY <2>1
<1>2. decisive # {} => applies(Min(decisive)) # "kept"
  <2>1. decisive # {} => Min(decisive) \in decisive
    <3> HIDE DEF decisive
    <3> QED
      BY <1>1, Smallest
  <2> QED
    BY <2>1
<1>3. "malformed" # "kept"
  OBVIOUS
<1> HIDE DEF applies
<1>4. decisive = {}
  BY <1>2, <1>3 DEF action_node_should_be_filtered_out, applies
<1> QED
  BY <1>4 DEF applies

LEMMA ActedUpon ==
  ASSUME NEW entry, entry \in Entry, NEW sys
  PROVE  Read(entry, sys) = "action" <=>
            /\ entry.object /\ action_node_should_be_filtered_out(entry, sys) = "kept"
            /\ entry.action \in Type /\ is_valid_serial(entry.serial) /\ entry.complete
<1>1. action_node_should_be_filtered_out(entry, sys) # "action"
  <2>1. \A f : action_filter_applies(f, sys) \in {"unknown", "malformed", "kept", "filtered"}
    BY DEF action_filter_applies
  <2> QED
    BY <2>1 DEF action_node_should_be_filtered_out
<1>2. entry.action \in Type => entry.action # ""
  BY DEF Type
<1> QED
  BY <1>1, <1>2 DEF Read, flatpak_remote_ref_action_from_json_node, Entry

LEMMA FiltersApply == Content => FiltersAllApply
<1> SUFFICES ASSUME Content, NEW entry \in Candidates[N], Read(entry, computer) = "action", NEW i \in DOMAIN entry.filters,
                    \A k \in DOMAIN entry.filters : \A j \in DOMAIN entry.filters[k].values :
                        entry.filters[k].values[j] # NotString
             PROVE  LET filter == entry.filters[i]
                        mine == IF filter.key \in {"architecture", "~architecture"}
                                THEN {computer.arch} ELSE computer.locales
                        listed == \E j \in DOMAIN filter.values : filter.values[j] \in mine
                    IN  \/ filter.key \in {"architecture", "locale"} /\ listed
                        \/ filter.key \in {"~architecture", "~locale"} /\ ~listed
  BY DEF FiltersAllApply
<1> DEFINE filter == entry.filters[i]
           mine == IF filter.key \in {"architecture", "~architecture"} THEN {computer.arch} ELSE computer.locales
<1>1. entry \in Entry
  BY EntriesAre DEF Content
<1>2. filter.values \in Seq(STRING)
  <2> DEFINE F == [key : STRING, values : Seq(STRING)]
  <2>1. entry.filters \in Seq(F)
    BY <1>1 DEF Entry
  <2>2. filter \in F
    <3> HIDE DEF F
    <3> QED
      BY <2>1, ElementOfSeq, LenProperties
  <2> QED
    BY <2>2
<1>3. action_filter_applies(filter, computer) = "kept"
  BY <1>1, ActedUpon, KeptIs
<1>4. strv_element_in_json_string_node_list(mine, filter.values) =
         IF \E j \in DOMAIN filter.values : filter.values[j] \in mine THEN "present" ELSE "absent"
  BY <1>2, Searched
<1> HIDE DEF filter
<1> QED
  BY <1>3, <1>4 DEF action_filter_applies, Filters, filter

Kept(entries, sys) == {i \in DOMAIN entries : Read(entries[i], sys) = "action"}

LEMMA ReadIs ==
  ASSUME NEW f, NEW entries \in Seq(Entry), NEW sys,
         read_flatpak_ref_actions_from_node(f, entries, sys).ok
  PROVE  LET read == read_flatpak_ref_actions_from_node(f, entries, sys)
         IN  /\ \A i \in DOMAIN entries : Read(entries[i], sys) # "malformed"
             /\ read.actions = g_ptr_array_sort(Actions(f, Places(entries, Kept(entries, sys))))
             /\ \A i \in 2 .. Len(read.actions) : read.actions[i - 1].serial # read.actions[i].serial
<1> DEFINE read == [i \in DOMAIN entries |-> Read(entries[i], sys)]
           P == {i \in DOMAIN entries : read[i] = "action"}
           sorted == g_ptr_array_sort(Actions(f, Places(entries, P)))
           result == read_flatpak_ref_actions_from_node(f, entries, sys)
<1>1. P = Kept(entries, sys)
  BY DEF Kept
<1>2. result = IF "malformed" \in Range(read) THEN Failed ELSE WithoutDuplicates(sorted)
  BY DEF read_flatpak_ref_actions_from_node
<1> HIDE DEF sorted, result
<1>3. result.ok
  BY DEF result
<1>4. "malformed" \notin Range(read) /\ result = WithoutDuplicates(sorted)
  <2>1. ~Failed.ok
    BY DEF Failed
  <2> QED
    BY <1>2, <1>3, <2>1
<1>5. result.actions = sorted /\ \A i \in 2 .. Len(sorted) : sorted[i - 1].serial # sorted[i].serial
  BY <1>3, <1>4 DEF WithoutDuplicates, Failed
<1>6. \A i \in DOMAIN entries : Read(entries[i], sys) # "malformed"
  BY <1>4 DEF Range
<1> QED
  BY <1>1, <1>5, <1>6 DEF sorted, result

(* The serial numbers of what is sorted stay, each as often as it was.        *)
LEMMA NothingByHalves == Content => BrokenFailsFile
<1> SUFFICES ASSUME Content, NEW f \in File, NEW d \in 1 .. N, f \in DOMAIN directories[d],
                    read_flatpak_ref_actions_from_node(f, directories[d][f], computer).ok
             PROVE  LET entries == directories[d][f]
                        read == read_flatpak_ref_actions_from_node(f, entries, computer)
                        wanted == {i \in DOMAIN entries : ~entries[i].object
                                      \/ /\ action_node_should_be_filtered_out(entries[i], computer) = "kept"
                                         /\ entries[i].action \in Type}
                    IN  /\ \A i \in wanted : entries[i].object /\ entries[i].complete
                        /\ Len(read.actions) = Cardinality(wanted)
                        /\ {read.actions[i].serial : i \in DOMAIN read.actions} = {entries[i].serial : i \in wanted}
  BY DEF BrokenFailsFile
<1> DEFINE entries == directories[d][f]
           read == read_flatpak_ref_actions_from_node(f, entries, computer)
           wanted == {i \in DOMAIN entries : ~entries[i].object
                         \/ /\ action_node_should_be_filtered_out(entries[i], computer) = "kept"
                            /\ entries[i].action \in Type}
           P == Kept(entries, computer)
           kept == Places(entries, P)
           listed == Actions(f, kept)
<1>1. entries \in Seq(Entry)
  <2>1. entries \in Seq(Candidates[N])
    BY DirectoriesAre DEF Content, N
  <2>2. Candidates[N] \subseteq Entry
    BY EntriesAre DEF Content
  <2> HIDE DEF entries
  <2> QED
    BY <2>1, <2>2, SeqMonotonic
<1>2. read.ok
  OBVIOUS
<1>3. /\ \A i \in DOMAIN entries : Read(entries[i], computer) # "malformed"
      /\ read.actions = g_ptr_array_sort(listed)
  <2> HIDE DEF entries
  <2> QED
    BY <1>1, <1>2, ReadIs
<1> HIDE DEF entries, read
<1>4. \A i \in DOMAIN entries : entries[i] \in Entry
  BY <1>1, ElementOfSeq, LenProperties
<1>5. ASSUME NEW i \in DOMAIN entries
      PROVE  /\ entries[i].object
             /\ action_node_should_be_filtered_out(entries[i], computer) = "kept" /\ entries[i].action \in Type
                   => is_valid_serial(entries[i].serial) /\ entries[i].complete
  BY <1>3, <1>4 DEF Read, flatpak_remote_ref_action_from_json_node, Entry, Type
<1>6. wanted = P
  BY <1>4, <1>5, ActedUpon DEF Kept
<1>7. P \in SUBSET (1 .. Len(entries))
  BY <1>1, LenProperties DEF Kept
<1> HIDE DEF P
<1>8. kept \in Seq(Entry) /\ ArePlaces(entries, P, kept)
  BY <1>1, <1>7, PlacesAre
<1> DEFINE c == Cardinality(P)
<1> HIDE DEF kept
<1>9. DOMAIN kept = 1 .. c
  BY <1>8, LenProperties DEF ArePlaces
<1>10. PICK at : Enumerates(at, P) /\ \A k \in 1 .. c : kept[k] = entries[at[k]]
  BY <1>8 DEF ArePlaces
<1> DEFINE Possible == {Action(entries[i].action, entries[i].ref, f, entries[i].serial, FALSE) : i \in P}
           act(k) == Action(kept[k].action, kept[k].ref, f, kept[k].serial, FALSE)
<1>11. listed = [k \in 1 .. c |-> act(k)]
  BY <1>9 DEF Actions
<1> HIDE DEF listed, c
<1>12. \A k \in 1 .. c : at[k] \in P /\ kept[k] = entries[at[k]] /\ act(k) \in Possible
  BY <1>10 DEF Enumerates, c
<1>13. listed \in Seq(Possible) /\ Len(listed) = c /\ c \in Nat
  <2>1. c \in Nat
    BY <1>8 DEF c, ArePlaces
  <2> HIDE DEF act, Possible
  <2>2. listed \in Seq(Possible)
    BY <1>11, <1>12, <2>1, IsASeq
  <2> QED
    BY <1>11, <2>1, <2>2
<1> HIDE DEF Possible
<1>14. PICK p : IsRearranged(read.actions, listed, p)
  BY <1>3, <1>13, Sorting
<1>15. read.actions \in Seq(Possible)
  BY <1>3, <1>13, Sorting
<1>16. Len(read.actions) = c /\ DOMAIN read.actions = 1 .. c
  <2>1. Len(read.actions) = c
    BY <1>13, <1>14 DEF IsRearranged
  <2> QED
    BY <1>15, <2>1, LenProperties
<1>17. /\ \A k \in 1 .. c : p[k] \in 1 .. c /\ read.actions[k] = listed[p[k]]
       /\ \A j \in 1 .. c : \E k \in 1 .. c : p[k] = j
  <2>1. \A j \in 1 .. Len(listed) : \E k \in 1 .. Len(listed) : p[k] = j
    <3>1. Len(listed) \in Nat
      BY <1>13
    <3> QED
      BY <1>14, <3>1, Onto
  <2> QED
    BY <1>13, <1>14, <2>1 DEF IsRearranged
<1>18. \A k \in 1 .. c : listed[k].serial = entries[at[k]].serial
  BY <1>11, <1>12 DEF Action
<1>19. {read.actions[k].serial : k \in DOMAIN read.actions} = {entries[i].serial : i \in P}
  <2>1. \A i \in P : \E k \in 1 .. c : at[k] = i
    BY <1>10 DEF Enumerates, c
  <2>2. \A k \in 1 .. c : read.actions[k].serial = entries[at[p[k]]].serial /\ at[p[k]] \in P
    BY <1>12, <1>17, <1>18
  <2>3. \A i \in P : \E k \in 1 .. c : read.actions[k].serial = entries[i].serial
    BY <1>17, <1>18, <2>1
  <2> QED
    BY <1>16, <2>2, <2>3
<1>20. \A i \in wanted : entries[i].object /\ entries[i].complete
  BY <1>5
<1> HIDE DEF wanted
<1> QED
  BY <1>6, <1>16, <1>19, <1>20 DEF c, wanted, entries, read

LEMMA ReadsFromContent == Content => ReadsWhatIsWanted
  BY FirstDirectoryIsRead, FiltersApply, NothingByHalves DEF ReadsWhatIsWanted

(* What is read is what the files ask for: each file from the first directory    *)
(* that has it, whatever the others hold (append_from_directory), of its entries *)
(* those all of whose filters apply (action_node_should_be_filtered_out), and    *)
(* all of these or, when one is broken or two share a serial number, none       *)
(* (read_flatpak_ref_actions_from_node).                                     *)
THEOREM ReadsRight == ListsSpec => []ReadsWhatIsWanted
  BY ContentIs, ReadsFromContent, PTL

-----------------------------------------------------------------------------
(* What a list does.                                                         *)

Listed == [type : Type, ref : Ref, source : File, serial : Int32, dependency : {FALSE}]
Installed == [Ref -> Version]

LEMMA PerformedIs ==
  ASSUME NEW a \in Listed, NEW v \in Version
  PROVE  Performed(a, v) \in Version
  BY DEF Performed, Version, Listed, Type

LEMMA StatesAre ==
  ASSUME NEW s \in Seq(Listed), NEW v \in Installed
  PROVE  /\ States(s, v)[0] = v
         /\ \A k \in 0 .. Len(s) : States(s, v)[k] \in Installed
         /\ \A k \in 1 .. Len(s) : States(s, v)[k] = StateAfter(States(s, v)[k - 1], s[k])
<1> DEFINE n == Len(s)
           next(x, k) == StateAfter(x, s[k])
           step == [x \in (1 .. n) \X Installed |-> next(x[2], x[1])]
<1>1. n \in Nat /\ \A k \in 1 .. n : s[k] \in Listed
  BY LenProperties, ElementOfSeq
<1>2. ASSUME NEW k \in 1 .. n, NEW x \in Installed
      PROVE  next(x, k) \in Installed
  <2>1. s[k] \in Listed /\ s[k].ref \in Ref
    BY <1>1 DEF Listed
  <2>2. Performed(s[k], x[s[k].ref]) \in Version
    BY <2>1, PerformedIs DEF Installed
  <2> QED
    BY <2>1, <2>2 DEF StateAfter, Installed
<1> HIDE DEF n, next
<1>3. step \in [(1 .. n) \X Installed -> Installed] /\ \A k \in 1 .. n : \A x \in Installed : step[<<k, x>>] = next(x, k)
  BY <1>2
<1> HIDE DEF step
<1>4. Exists(n, Installed, v, step)
  BY <1>1, <1>3, Recursion
<1>5. PICK f \in [0 .. n -> Installed] : f[0] = v /\ \A k \in 1 .. n : f[k] = step[<<k, f[k - 1]>>]
  BY <1>4 DEF Exists
<1>6. ASSUME NEW k \in 1 .. n
      PROVE  k # 0 /\ k \in 0 .. n /\ f[k] = next(f[k - 1], k)
  <2>1. k # 0 /\ k \in 0 .. n /\ k - 1 \in 0 .. n
    BY <1>1
  <2> QED
    BY <1>3, <1>5, <2>1
<1>7. f = [k \in 0 .. n |-> IF k = 0 THEN v ELSE next(f[k - 1], k)]
  <2>1. \A k \in 0 .. n : k = 0 \/ k \in 1 .. n
    BY <1>1
  <2> QED
    BY <1>5, <1>6, <2>1
<1>8. States(s, v) = CHOOSE g : g = [k \in 0 .. n |-> IF k = 0 THEN v ELSE next(g[k - 1], k)]
  BY DEF States, n, next
<1> DEFINE T == States(s, v)
<1>9. T = [k \in 0 .. n |-> IF k = 0 THEN v ELSE next(T[k - 1], k)]
  BY <1>7, <1>8, Zenon
<1> HIDE DEF T
<1>10. T[0] = v /\ \A k \in 1 .. n : T[k] = next(T[k - 1], k)
  <2>1. 0 \in 0 .. n /\ \A k \in 1 .. n : k # 0 /\ k \in 0 .. n
    BY <1>1
  <2> QED
    BY <1>9, <2>1
<1>11. \A k \in 0 .. n : T[k] \in Installed
  <2>1. \A k \in 1 .. n : T[k - 1] \in Installed => T[k] \in Installed
    BY <1>2, <1>10
  <2> QED
    BY <1>1, <1>10, <2>1, StaysIn
<1> QED
  BY <1>10, <1>11 DEF T, n, next

LEMMA LatestAre ==
  ASSUME NEW A, NEW s \in Seq(A), NEW r
  PROVE  /\ Latest(s, r)[0] = 0
         /\ \A k \in 0 .. Len(s) : Latest(s, r)[k] \in Nat
         /\ \A k \in 1 .. Len(s) : Latest(s, r)[k] = RemainingOfTwo(s, r, Latest(s, r)[k - 1], k)
<1> DEFINE n == Len(s)
           next(x, k) == RemainingOfTwo(s, r, x, k)
           step == [x \in (1 .. n) \X Nat |-> next(x[2], x[1])]
<1>1. n \in Nat
  BY LenProperties
<1>2. \A k \in 1 .. n : \A x \in Nat : next(x, k) \in Nat
  BY <1>1 DEF RemainingOfTwo
<1> HIDE DEF n, next
<1>3. step \in [(1 .. n) \X Nat -> Nat] /\ \A k \in 1 .. n : \A x \in Nat : step[<<k, x>>] = next(x, k)
  BY <1>2
<1> HIDE DEF step
<1>4. Exists(n, Nat, 0, step)
  BY <1>1, <1>3, Recursion
<1>5. PICK f \in [0 .. n -> Nat] : f[0] = 0 /\ \A k \in 1 .. n : f[k] = step[<<k, f[k - 1]>>]
  BY <1>4 DEF Exists
<1>6. ASSUME NEW k \in 1 .. n
      PROVE  k # 0 /\ k \in 0 .. n /\ f[k] = next(f[k - 1], k)
  <2>1. k # 0 /\ k \in 0 .. n /\ k - 1 \in 0 .. n
    BY <1>1
  <2> QED
    BY <1>3, <1>5, <2>1
<1>7. f = [k \in 0 .. n |-> IF k = 0 THEN 0 ELSE next(f[k - 1], k)]
  <2>1. \A k \in 0 .. n : k = 0 \/ k \in 1 .. n
    BY <1>1
  <2> QED
    BY <1>5, <1>6, <2>1
<1>8. Latest(s, r) = CHOOSE g : g = [k \in 0 .. n |-> IF k = 0 THEN 0 ELSE next(g[k - 1], k)]
  BY DEF Latest, n, next
<1> DEFINE T == Latest(s, r)
<1>9. T = [k \in 0 .. n |-> IF k = 0 THEN 0 ELSE next(T[k - 1], k)]
  BY <1>7, <1>8, Zenon
<1> HIDE DEF T
<1>10. T[0] = 0 /\ \A k \in 1 .. n : T[k] = next(T[k - 1], k)
  <2>1. 0 \in 0 .. n /\ \A k \in 1 .. n : k # 0 /\ k \in 0 .. n
    BY <1>1
  <2> QED
    BY <1>9, <2>1
<1>11. \A k \in 0 .. n : T[k] \in Nat
  <2>1. \A k \in 1 .. n : T[k - 1] \in Nat => T[k] \in Nat
    BY <1>2, <1>10
  <2>2. T[0] \in Nat
    BY <1>10
  <2> QED
    BY <1>1, <2>1, <2>2, StaysIn, Zenon
<1> QED
  BY <1>10, <1>11 DEF T, n, next

(* Of the first k actions, the one that remains for a flatpak makes of it what  *)
(* they do together.                                                         *)
Tells(s, r, k, l, x, y) ==
    /\ l \in 0 .. k /\ (l # 0 => s[l].ref = r)
    /\ l = 0 => \A i \in 1 .. k : s[i].ref # r
    /\ y = IF l = 0 THEN x ELSE Performed(s[l], x)

LEMMA OneMore ==
  ASSUME NEW s, NEW r, NEW k \in Nat, k # 0, NEW l, NEW x \in Version, NEW y, NEW z,
         \A i \in 1 .. k : s[i] \in Listed,
         Tells(s, r, k - 1, l, x, y),
         z = IF s[k].ref = r THEN Performed(s[k], y) ELSE y
  PROVE  Tells(s, r, k, RemainingOfTwo(s, r, l, k), x, z)
<1> DEFINE m == RemainingOfTwo(s, r, l, k)
<1>1. k \in 1 .. k /\ \A i \in 1 .. k : i \in 1 .. k - 1 \/ i = k
  OBVIOUS
<1>2. l \in 0 .. k - 1 /\ l \in 0 .. k /\ k \in 0 .. k /\ (l # 0 => l \in 1 .. k)
  BY DEF Tells
<1>3. m \in {l, k} /\ m \in 0 .. k
  BY <1>2 DEF RemainingOfTwo
<1>4. m # 0 => s[m].ref = r
  BY <1>3 DEF RemainingOfTwo, Tells
<1>5. m = 0 => \A i \in 1 .. k : s[i].ref # r
  BY <1>1 DEF RemainingOfTwo, Tells
<1>6. z = IF m = 0 THEN x ELSE Performed(s[m], x)
  <2>1. CASE s[k].ref # r
    BY <2>1 DEF RemainingOfTwo, Tells
  <2>2. CASE s[k].ref = r /\ l = 0
    BY <2>2 DEF RemainingOfTwo, Tells
  <2>3. CASE s[k].ref = r /\ l # 0
    <3>1. y = Performed(s[l], x) /\ z = Performed(s[k], y)
      BY <2>3 DEF Tells
    <3>2. s[l].type \in Type /\ s[k].type \in Type
      BY <1>1, <1>2, <2>3 DEF Listed
    <3>3. CASE TakesOver(s[k], s[l])
      <4>1. m = k
        BY <2>3, <3>3 DEF RemainingOfTwo
      <4>2. Performed(s[k], y) = Performed(s[k], x)
        BY <3>1, <3>2, <3>3 DEF Performed, TakesOver, Type, Version
      <4> QED
        BY <2>3, <3>1, <4>1, <4>2
    <3>4. CASE ~TakesOver(s[k], s[l])
      <4>1. m = l
        BY <2>3, <3>4 DEF RemainingOfTwo
      <4>2. Performed(s[k], y) = y
        BY <3>1, <3>2, <3>4 DEF Performed, TakesOver, Type, Version
      <4> QED
        BY <2>3, <3>1, <4>1, <4>2
    <3> QED
      BY <3>3, <3>4
  <2> QED
    BY <2>1, <2>2, <2>3
<1> QED
  BY <1>3, <1>4, <1>5, <1>6 DEF Tells

LEMMA EffectIs ==
  ASSUME NEW s \in Seq(Listed), NEW v \in Installed
  PROVE  /\ Effect(s, v) \in Installed
         /\ \A r \in Ref : Tells(s, r, Len(s), Remaining(s, r), v[r], Effect(s, v)[r])
<1> DEFINE n == Len(s)
           S == States(s, v)
<1>1. n \in Nat /\ n \in 0 .. n /\ \A k \in 1 .. n : s[k] \in Listed
  BY LenProperties, ElementOfSeq
<1>2. /\ S[0] = v /\ \A k \in 0 .. n : S[k] \in Installed
      /\ \A k \in 1 .. n : S[k] = StateAfter(S[k - 1], s[k])
  BY StatesAre
<1> HIDE DEF n, S
<1>3. ASSUME NEW r \in Ref
      PROVE  Tells(s, r, n, Latest(s, r)[n], v[r], S[n][r])
  <2> DEFINE L == Latest(s, r)
             U == {k \in 0 .. n : Tells(s, r, k, L[k], v[r], S[k][r])}
  <2>1. /\ L[0] = 0 /\ \A k \in 0 .. n : L[k] \in Nat
        /\ \A k \in 1 .. n : L[k] = RemainingOfTwo(s, r, L[k - 1], k)
    BY LatestAre DEF n
  <2> HIDE DEF L
  <2>2. 0 \in U
    BY <1>1, <1>2, <2>1 DEF Tells
  <2>3. ASSUME NEW k \in 1 .. n, k - 1 \in U
        PROVE  k \in U
    <3>1. /\ k \in Nat /\ k # 0 /\ k \in 0 .. n /\ k - 1 \in 0 .. n
          /\ \A i \in 1 .. k : i \in 1 .. n
      BY <1>1
    <3>2. S[k][r] = IF s[k].ref = r THEN Performed(s[k], S[k - 1][r]) ELSE S[k - 1][r]
      <4>1. S[k - 1] \in Installed /\ S[k] = StateAfter(S[k - 1], s[k]) /\ s[k].ref \in Ref
        BY <1>1, <1>2, <3>1 DEF Listed
      <4> QED
        BY <4>1 DEF StateAfter, Installed
    <3>3. Tells(s, r, k - 1, L[k - 1], v[r], S[k - 1][r]) /\ v[r] \in Version
      BY <2>3 DEF Installed
    <3>4. Tells(s, r, k, RemainingOfTwo(s, r, L[k - 1], k), v[r], S[k][r])
      BY <1>1, <3>1, <3>2, <3>3, OneMore
    <3> QED
      BY <2>1, <3>1, <3>4
  <2>4. \A k \in 0 .. n : k \in U
    <3> HIDE DEF U
    <3> QED
      BY <1>1, <2>2, <2>3, InductionUpto
  <2> QED
    BY <1>1, <2>4 DEF L
<1> QED
  BY <1>1, <1>2, <1>3 DEF Effect, Remaining, n, S

-----------------------------------------------------------------------------
(* Where positions do not overflow, actions of the lists compare like their     *)
(* serial numbers.                                                           *)

LEMMA SerialsAre == \A a \in Listed : a.serial \in Int32 /\ a.serial \in Int /\ a.dependency = FALSE
<1>1. Int32 \subseteq Int
  BY MaxIntAssumption DEF Int32
<1>2. \A a \in Listed : a.serial \in Int32 /\ a.dependency = FALSE
  BY DEF Listed
<1> QED
  BY <1>1, <1>2

LEMMA Compared ==
  ASSUME NEW a \in Listed, NEW b \in Listed, a.serial - b.serial \in Int32
  PROVE  Le(a, b) <=> a.serial <= b.serial
<1>1. a.serial \in Int /\ b.serial \in Int /\ a.dependency = b.dependency
  BY SerialsAre
<1>2. Minus32(a.serial, b.serial) = a.serial - b.serial
  <2> DEFINE m == 2 * MAXINT + 2
             d == a.serial - b.serial + MAXINT + 1
  <2>1. m \in Nat /\ m > 0 /\ d \in Nat /\ d < m
    BY <1>1, MaxIntAssumption DEF Int32
  <2>2. d % m = d
    <3> HIDE DEF d, m
    <3> QED
      BY <2>1
  <2>3. Minus32(a.serial, b.serial) = d - MAXINT - 1
    BY <2>2 DEF Minus32
  <2> QED
    BY <1>1, <2>3, MaxIntAssumption
<1>3. sort_flatpak_remote_ref_actions(a, b) = Order(a.serial - b.serial)
  BY <1>1, <1>2 DEF sort_flatpak_remote_ref_actions
<1> QED
  BY <1>1, <1>3 DEF Le, Order

LEMMA InOrder ==
  ASSUME NEW u \in Seq(Listed), \A j, k \in 1 .. Len(u) : u[j].serial - u[k].serial \in Int32
  PROVE  /\ Orderly(u)
         /\ \A j, k \in 1 .. Len(u) : Le(u[j], u[k]) <=> u[j].serial <= u[k].serial
<1>1. \A k \in 1 .. Len(u) : u[k] \in Listed /\ u[k].serial \in Int
  BY ElementOfSeq, SerialsAre
<1>2. \A j, k \in 1 .. Len(u) : Le(u[j], u[k]) <=> u[j].serial <= u[k].serial
  BY <1>1, Compared
<1> QED
  <2>1. \A j, k \in 1 .. Len(u) : Le(u[j], u[k]) \/ Le(u[k], u[j])
    BY <1>1, <1>2
  <2>2. \A i, j, k \in 1 .. Len(u) : Le(u[i], u[j]) /\ Le(u[j], u[k]) => Le(u[i], u[k])
    <3> SUFFICES ASSUME NEW i \in 1 .. Len(u), NEW j \in 1 .. Len(u), NEW k \in 1 .. Len(u),
                        Le(u[i], u[j]), Le(u[j], u[k])
                 PROVE  Le(u[i], u[k])
      OBVIOUS
    <3>1. u[i].serial <= u[j].serial /\ u[j].serial <= u[k].serial
      BY <1>2
    <3>2. u[i].serial <= u[k].serial
      BY <1>1, <3>1
    <3> QED
      BY <1>2, <3>2
  <2> QED
    BY <1>2, <2>1, <2>2 DEF Orderly

LEMMA SortedSerials ==
  ASSUME NEW u \in Seq(Listed), \A j, k \in 1 .. Len(u) : u[j].serial - u[k].serial \in Int32
  PROVE  \A j, k \in 1 .. Len(g_ptr_array_sort(u)) :
            j < k => g_ptr_array_sort(u)[j].serial <= g_ptr_array_sort(u)[k].serial
<1> DEFINE q == g_ptr_array_sort(u)
           c == Len(u)
<1>1. PICK p : IsRearranged(q, u, p) /\ (Orderly(u) => SortedFrom(u, p))
  BY Sorting
<1>2. Orderly(u) /\ \A j, k \in 1 .. c : Le(u[j], u[k]) <=> u[j].serial <= u[k].serial
  BY InOrder
<1> HIDE DEF q
<1>3. Len(q) = c /\ \A k \in 1 .. c : p[k] \in 1 .. c /\ q[k] = u[p[k]]
  BY <1>1 DEF IsRearranged
<1>4. \A j, k \in 1 .. c : j < k => Le(u[p[j]], u[p[k]])
  BY <1>1, <1>2 DEF SortedFrom, Precedes
<1> HIDE DEF c
<1>5. \A j, k \in 1 .. c : j < k => u[p[j]].serial <= u[p[k]].serial
  BY <1>2, <1>3, <1>4
<1> QED
  BY <1>3, <1>5 DEF q

-----------------------------------------------------------------------------
(* Squashing: the actions that remain, rearranged.                           *)

Remains(s) == {i \in DOMAIN s : Remaining(s, s[i].ref) = i}

(* q has the actions of s that remain, each once: its k-th is the g[k]-th of s.  *)
IsSquashed(s, q, g) ==
    /\ g \in [1 .. Len(q) -> 1 .. Len(s)]
    /\ \A k \in 1 .. Len(q) : q[k] = s[g[k]] /\ Remaining(s, q[k].ref) = g[k]
    /\ \A i \in Remains(s) : \E k \in 1 .. Len(q) : g[k] = i
    /\ \A j, k \in 1 .. Len(q) : g[j] = g[k] => j = k

LEMMA SquashedIs ==
  ASSUME NEW s \in Seq(Listed)
  PROVE  LET q == squash_ref_actions_ptr_array(s)
         IN  /\ q \in Seq(Listed)
             /\ \E g : /\ IsSquashed(s, q, g)
                       /\ (\A j, k \in 1 .. Len(s) : s[j].serial - s[k].serial \in Int32) =>
                             \A j, k \in 1 .. Len(q) : j < k => q[j].serial <= q[k].serial
<1> DEFINE P == Remains(s)
           u == Places(s, P)
           q == g_ptr_array_sort(u)
           c == Cardinality(P)
<1>1. P \in SUBSET (1 .. Len(s)) /\ Len(s) \in Nat
  BY LenProperties DEF Remains
<1>2. squash_ref_actions_ptr_array(s) = q
  BY DEF squash_ref_actions_ptr_array, Remains
<1> HIDE DEF P
<1>3. u \in Seq(Listed) /\ ArePlaces(s, P, u)
  BY <1>1, PlacesAre
<1> HIDE DEF u
<1>4. q \in Seq(Listed) /\ \E p : IsRearranged(q, u, p) /\ (Orderly(u) => SortedFrom(u, p))
  BY <1>3, Sorting
<1> HIDE DEF q
<1>5. PICK f : Enumerates(f, P) /\ \A k \in 1 .. c : u[k] = s[f[k]]
  BY <1>3 DEF ArePlaces
<1>6. PICK p : IsRearranged(q, u, p) /\ (Orderly(u) => SortedFrom(u, p))
  BY <1>4
<1>7. Len(u) = c /\ c \in Nat /\ Len(q) = c /\ p \in [1 .. c -> 1 .. c]
  BY <1>3, <1>6 DEF ArePlaces, IsRearranged
<1> HIDE DEF c
<1>8. /\ \A k \in 1 .. c : q[k] = u[p[k]]
      /\ \A j, k \in 1 .. c : p[j] = p[k] => j = k
      /\ \A j \in 1 .. c : \E k \in 1 .. c : p[k] = j
  <2>1. Len(u) \in Nat
    BY <1>7
  <2>2. \A j \in 1 .. Len(u) : \E k \in 1 .. Len(u) : p[k] = j
    BY <1>6, <2>1, Onto
  <2> QED
    BY <1>6, <1>7, <2>2 DEF IsRearranged
<1>9. /\ f \in [1 .. c -> P] /\ \A i \in P : \E k \in 1 .. c : f[k] = i
      /\ \A j, k \in 1 .. c : j < k => f[j] < f[k]
  BY <1>5 DEF Enumerates, c
<1>10. \A j, k \in 1 .. c : f[j] = f[k] => j = k
  <2> SUFFICES ASSUME NEW j \in 1 .. c, NEW k \in 1 .. c, f[j] = f[k]
               PROVE  j = k
    OBVIOUS
  <2>1. f[j] \in Int
    <3>1. f[j] \in P
      BY <1>9
    <3>2. \A i \in P : i \in Int
      BY <1>1
    <3> QED
      BY <3>1, <3>2
  <2>2. ~(f[j] < f[k]) /\ ~(f[k] < f[j])
    BY <2>1
  <2>3. ~(j < k) /\ ~(k < j)
    BY <1>9, <2>2
  <2> QED
    BY <2>3
<1> DEFINE g == [k \in 1 .. c |-> f[p[k]]]
<1>11. \A k \in 1 .. c : g[k] \in P /\ g[k] \in 1 .. Len(s) /\ q[k] = s[g[k]]
  BY <1>1, <1>5, <1>7, <1>8, <1>9
<1>12. IsSquashed(s, q, g)
  <2>1. g \in [1 .. c -> 1 .. Len(s)]
    BY <1>11
  <2>2. \A k \in 1 .. c : Remaining(s, q[k].ref) = g[k]
    BY <1>11 DEF P, Remains
  <2>3. \A i \in P : \E k \in 1 .. c : g[k] = i
    <3> SUFFICES ASSUME NEW i \in P
                 PROVE  \E k \in 1 .. c : g[k] = i
      OBVIOUS
    <3>1. PICK j \in 1 .. c : f[j] = i
      BY <1>9
    <3>2. PICK k \in 1 .. c : p[k] = j
      BY <1>8
    <3> QED
      BY <3>1, <3>2
  <2>4. \A j, k \in 1 .. c : g[j] = g[k] => j = k
    BY <1>7, <1>8, <1>10
  <2> HIDE DEF g
  <2> QED
    BY <1>7, <1>11, <2>1, <2>2, <2>3, <2>4 DEF IsSquashed, P
<1>13. ASSUME \A j, k \in 1 .. Len(s) : s[j].serial - s[k].serial \in Int32
       PROVE  \A j, k \in 1 .. Len(q) : j < k => q[j].serial <= q[k].serial
  <2>1. \A j, k \in 1 .. Len(u) : u[j].serial - u[k].serial \in Int32
    <3>1. \A k \in 1 .. c : f[k] \in 1 .. Len(s)
      BY <1>1, <1>9
    <3>2. \A k \in 1 .. c : u[k] = s[f[k]]
      BY <1>5
    <3>3. \A j, k \in 1 .. c : u[j].serial - u[k].serial \in Int32
      BY <1>13, <3>1, <3>2
    <3> QED
      BY <1>7, <3>3
  <2> QED
    BY <1>3, <2>1, SortedSerials DEF q
<1> HIDE DEF g
<1> QED
  BY <1>2, <1>4, <1>12, <1>13

LEMMA SquashedEffect ==
  ASSUME NEW s \in Seq(Listed)
  PROVE  LET q == squash_ref_actions_ptr_array(s)
         IN  /\ q \in Seq(Listed)
             /\ \A j, k \in 1 .. Len(q) : q[j].ref = q[k].ref => j = k
             /\ \A v \in Installed : Effect(q, v) = Effect(s, v)
<1> DEFINE q == squash_ref_actions_ptr_array(s)
<1>1. q \in Seq(Listed) /\ \E g : IsSquashed(s, q, g)
  BY SquashedIs
<1> HIDE DEF q
<1>2. PICK g : IsSquashed(s, q, g)
  BY <1>1
<1>3. /\ \A k \in 1 .. Len(q) : g[k] \in 1 .. Len(s) /\ q[k] = s[g[k]] /\ Remaining(s, q[k].ref) = g[k]
      /\ \A j, k \in 1 .. Len(q) : g[j] = g[k] => j = k
      /\ \A i \in Remains(s) : \E k \in 1 .. Len(q) : g[k] = i
  BY <1>2 DEF IsSquashed
<1>4. \A j, k \in 1 .. Len(q) : q[j].ref = q[k].ref => j = k
  BY <1>3
<1>5. ASSUME NEW v \in Installed
      PROVE  Effect(q, v) = Effect(s, v)
  <2>1. Effect(q, v) \in Installed /\ Effect(s, v) \in Installed
    BY <1>1, EffectIs
  <2>2. ASSUME NEW r \in Ref
        PROVE  Effect(q, v)[r] = Effect(s, v)[r]
    <3> DEFINE i == Remaining(s, r)
               l == Remaining(q, r)
               x == Effect(s, v)[r]
               y == Effect(q, v)[r]
    <3>1. Tells(s, r, Len(s), i, v[r], x) /\ Tells(q, r, Len(q), l, v[r], y)
      BY <1>1, EffectIs
    <3>2. Len(s) \in Nat /\ Len(q) \in Nat /\ DOMAIN s = 1 .. Len(s)
      BY <1>1, LenProperties
    <3> HIDE DEF x, y, l
    <3>3. l # 0 => l \in 1 .. Len(q) /\ q[l].ref = r
      BY <3>1, <3>2 DEF Tells
    <3>4. CASE i = 0
      <4>1. \A k \in 1 .. Len(s) : s[k].ref # r
        BY <3>1, <3>4 DEF Tells
      <4>2. l = 0
        BY <1>3, <3>3, <4>1
      <4> QED
        BY <3>1, <3>4, <4>2 DEF Tells, x, y
    <3>5. CASE i # 0
      <4>1. i \in 1 .. Len(s) /\ s[i].ref = r
        BY <3>1, <3>2, <3>5 DEF Tells
      <4>2. i \in Remains(s)
        BY <3>2, <4>1 DEF Remains
      <4>3. PICK k \in 1 .. Len(q) : g[k] = i
        BY <1>3, <4>2
      <4>4. q[k].ref = r
        BY <1>3, <4>1, <4>3
      <4>5. l # 0
        BY <3>1, <4>4 DEF Tells
      <4>6. q[l] = s[i]
        BY <1>3, <3>3, <4>5
      <4>7. y = Performed(q[l], v[r]) /\ x = Performed(s[i], v[r])
        BY <3>1, <3>5, <4>5 DEF Tells
      <4> QED
        BY <4>6, <4>7 DEF x, y
    <3> QED
      BY <3>4, <3>5
  <2> QED
    BY <2>1, <2>2 DEF Installed
<1> QED
  BY <1>1, <1>4, <1>5 DEF q

LEMMA ConcatenatedEffect ==
  ASSUME NEW s \in Seq(Listed), NEW t \in Seq(Listed), NEW v \in Installed
  PROVE  Effect(s \o t, v) = Effect(t, Effect(s, v))
<1> DEFINE w == s \o t
           m == Len(s)
           n == Len(t)
           u == Effect(s, v)
           W == States(w, v)
           S == States(s, v)
           T == States(t, u)
<1>1. /\ w \in Seq(Listed) /\ m \in Nat /\ n \in Nat /\ Len(w) = m + n
      /\ \A k \in 1 .. m : w[k] = s[k]
      /\ \A k \in 1 .. n : w[m + k] = t[k]
  <2>1. /\ w \in Seq(Listed) /\ Len(w) = m + n
        /\ \A k \in 1 .. m + n : w[k] = IF k <= m THEN s[k] ELSE t[k - m]
    BY ConcatProperties
  <2>2. m \in Nat /\ n \in Nat
    BY LenProperties
  <2> HIDE DEF w, m, n
  <2>3. \A k \in 1 .. m : w[k] = s[k]
    BY <2>1, <2>2
  <2>4. ASSUME NEW k \in 1 .. n
        PROVE  w[m + k] = t[k]
    <3> DEFINE j == m + k
    <3>1. j \in 1 .. m + n /\ ~(j <= m) /\ j - m = k
      BY <2>2
    <3> HIDE DEF j
    <3>2. w[j] = t[j - m]
      BY <2>1, <3>1
    <3> QED
      BY <3>1, <3>2 DEF j
  <2> QED
    BY <2>1, <2>2, <2>3, <2>4
<1>2. u \in Installed
  BY EffectIs
<1> HIDE DEF w, u
<1>3. /\ W[0] = v /\ \A k \in 1 .. m + n : W[k] = StateAfter(W[k - 1], w[k])
      /\ S[0] = v /\ \A k \in 1 .. m : S[k] = StateAfter(S[k - 1], s[k])
      /\ T[0] = u /\ \A k \in 1 .. n : T[k] = StateAfter(T[k - 1], t[k])
  <2>1. W[0] = v /\ \A k \in 1 .. Len(w) : W[k] = StateAfter(W[k - 1], w[k])
    BY <1>1, StatesAre
  <2>2. S[0] = v /\ \A k \in 1 .. m : S[k] = StateAfter(S[k - 1], s[k])
    BY StatesAre
  <2>3. T[0] = u /\ \A k \in 1 .. n : T[k] = StateAfter(T[k - 1], t[k])
    BY <1>2, StatesAre
  <2> QED
    BY <1>1, <2>1, <2>2, <2>3
<1>4. Effect(w, v) = W[m + n] /\ u = S[m] /\ Effect(t, u) = T[n]
  BY <1>1 DEF Effect, u
<1> HIDE DEF m, n, W, S, T
<1>5. \A k \in 0 .. m : W[k] = S[k]
  <2> DEFINE U == {k \in 0 .. m : W[k] = S[k]}
  <2>1. 0 \in U
    BY <1>1, <1>3
  <2>2. ASSUME NEW k \in 1 .. m, k - 1 \in U
        PROVE  k \in U
    <3>1. k \in 1 .. m + n /\ k \in 0 .. m
      BY <1>1
    <3>2. W[k] = StateAfter(W[k - 1], w[k]) /\ S[k] = StateAfter(S[k - 1], s[k]) /\ w[k] = s[k]
      BY <1>1, <1>3, <3>1
    <3> QED
      BY <2>2, <3>1, <3>2
  <2>3. \A k \in 0 .. m : k \in U
    <3> HIDE DEF U
    <3> QED
      BY <1>1, <2>1, <2>2, InductionUpto
  <2> QED
    BY <2>3
<1>6. \A k \in 0 .. n : W[m + k] = T[k]
  <2> DEFINE U == {k \in 0 .. n : W[m + k] = T[k]}
  <2>1. 0 \in U
    <3>1. m \in 0 .. m /\ m + 0 = m /\ 0 \in 0 .. n
      BY <1>1
    <3> QED
      BY <1>3, <1>4, <1>5, <3>1
  <2>2. ASSUME NEW k \in 1 .. n, k - 1 \in U
        PROVE  k \in U
    <3>1. m + k \in 1 .. m + n /\ k \in 0 .. n /\ m + k - 1 = m + (k - 1)
      BY <1>1
    <3>2. W[m + k] = StateAfter(W[m + (k - 1)], w[m + k]) /\ T[k] = StateAfter(T[k - 1], t[k]) /\ w[m + k] = t[k]
      BY <1>1, <1>3, <3>1
    <3> QED
      BY <2>2, <3>1, <3>2
  <2>3. \A k \in 0 .. n : k \in U
    <3> HIDE DEF U
    <3> QED
      BY <1>1, <2>1, <2>2, InductionUpto
  <2> QED
    BY <2>3
<1>7. n \in 0 .. n
  BY <1>1
<1> QED
  BY <1>4, <1>6, <1>7 DEF w, u

-----------------------------------------------------------------------------
(* The lists of the files.                                                   *)

(* The differences of serial numbers do not overflow.                         *)
SerialsNear ==
    \A n \in Directories : \A a, b \in Candidates[n] :
        is_valid_serial(a.serial) /\ is_valid_serial(b.serial) => a.serial - b.serial \in Int32

ListedIn(f, n) ==
    {a \in Listed : a.source = f /\ \E e \in Candidates[n] : e.serial = a.serial /\ e.ref = a.ref}

LEMMA Near ==
  ASSUME SerialsNear, NEW n \in Directories, NEW f, NEW g, NEW a \in ListedIn(f, n), NEW b \in ListedIn(g, n)
  PROVE  a.serial - b.serial \in Int32
  BY SerialsAre DEF SerialsNear, ListedIn, is_valid_serial

Increasing(s) == \A j, k \in 1 .. Len(s) : j < k => s[j].serial < s[k].serial

LEMMA ActionsAre ==
  ASSUME NEW n \in Directories, NEW f \in File, NEW entries \in Seq(Candidates[n]), NEW sys
  PROVE  Actions(f, Places(entries, Kept(entries, sys))) \in Seq(ListedIn(f, n))
<1> DEFINE P == Kept(entries, sys)
           kept == Places(entries, P)
           c == Cardinality(P)
           E == Candidates[n]
           act(k) == Action(kept[k].action, kept[k].ref, f, kept[k].serial, FALSE)
<1>1. E \subseteq Entry /\ Len(entries) \in Nat /\ DOMAIN entries = 1 .. Len(entries) /\ entries \in Seq(E)
  BY EntriesAre, LenProperties
<1>2. \A i \in DOMAIN entries : entries[i] \in E
  <2> HIDE DEF E
  <2> QED
    BY <1>1, ElementOfSeq
<1>3. P \in SUBSET (1 .. Len(entries))
  BY <1>1 DEF Kept
<1>4. \A i \in P : entries[i] \in E /\ entries[i].ref \in Ref /\ entries[i].action \in Type /\ entries[i].serial \in Int32
  <2>1. \A i \in P : entries[i] \in E /\ entries[i] \in Entry /\ Read(entries[i], sys) = "action"
    BY <1>1, <1>2 DEF Kept
  <2>2. \A i \in P : entries[i].ref \in Ref
    BY <2>1 DEF Entry
  <2> HIDE DEF E, P
  <2> QED
    BY <2>1, <2>2, ActedUpon DEF is_valid_serial
<1> HIDE DEF P, E
<1>5. kept \in Seq(E) /\ ArePlaces(entries, P, kept)
  BY <1>1, <1>3, PlacesAre
<1> HIDE DEF kept
<1>6. c \in Nat /\ DOMAIN kept = 1 .. c /\ \E at : Enumerates(at, P) /\ \A k \in 1 .. c : kept[k] = entries[at[k]]
  BY <1>5, LenProperties DEF ArePlaces
<1>7. PICK at : Enumerates(at, P) /\ \A k \in 1 .. c : kept[k] = entries[at[k]]
  BY <1>6
<1>8. \A k \in 1 .. c : at[k] \in P
  BY <1>7 DEF Enumerates
<1> HIDE DEF c
<1>9. ASSUME NEW k \in 1 .. c
      PROVE  act(k) \in ListedIn(f, n)
  <2>1. /\ kept[k] \in E /\ kept[k].ref \in Ref /\ kept[k].action \in Type /\ kept[k].serial \in Int32
    BY <1>4, <1>7, <1>8
  <2>2. act(k) \in Listed /\ act(k).source = f /\ act(k).serial = kept[k].serial /\ act(k).ref = kept[k].ref
    BY <2>1 DEF Action, Listed
  <2> HIDE DEF act
  <2> QED
    BY <2>1, <2>2 DEF ListedIn, E
<1>10. Actions(f, kept) = [k \in 1 .. c |-> act(k)]
  BY <1>6 DEF Actions
<1> DEFINE L == ListedIn(f, n)
<1> HIDE DEF act, L
<1>11. Actions(f, kept) \in Seq(L)
  <2>1. \A k \in 1 .. c : act(k) \in L
    BY <1>9 DEF L
  <2> QED
    BY <1>6, <1>10, <2>1, IsASeq
<1> QED
  BY <1>11 DEF L, kept, P

LEMMA FileIsRead ==
  ASSUME NEW n \in Directories, NEW f \in File, NEW entries \in Seq(Candidates[n]), NEW sys
  PROVE  LET read == read_flatpak_ref_actions_from_node(f, entries, sys)
         IN  /\ read.actions \in Seq(ListedIn(f, n))
             /\ read.ok /\ SerialsNear => Increasing(read.actions)
<1> DEFINE read == read_flatpak_ref_actions_from_node(f, entries, sys)
           u == Actions(f, Places(entries, Kept(entries, sys)))
           q == g_ptr_array_sort(u)
           L == ListedIn(f, n)
<1>1. u \in Seq(L)
  BY ActionsAre
<1>2. L \subseteq Listed
  BY DEF ListedIn
<1>3. entries \in Seq(Entry)
  <2>1. Candidates[n] \subseteq Entry
    BY EntriesAre
  <2> QED
    BY <2>1, SeqMonotonic
<1> HIDE DEF u, L
<1>4. q \in Seq(L) /\ u \in Seq(Listed)
  BY <1>1, <1>2, Sorting, SeqMonotonic
<1>5. CASE read.ok
  <2>1. read.actions = q /\ \A i \in 2 .. Len(q) : q[i - 1].serial # q[i].serial
    <3>1. /\ read.actions = g_ptr_array_sort(Actions(f, Places(entries, Kept(entries, sys))))
          /\ \A i \in 2 .. Len(read.actions) : read.actions[i - 1].serial # read.actions[i].serial
      BY <1>3, <1>5, ReadIs
    <3>2. q = g_ptr_array_sort(Actions(f, Places(entries, Kept(entries, sys))))
      BY DEF u
    <3> HIDE DEF read, q
    <3> QED
      BY <3>1, <3>2
  <2> HIDE DEF read, q
  <2>2. ASSUME SerialsNear
        PROVE  Increasing(q)
    <3>1. \A j, k \in 1 .. Len(u) : u[j].serial - u[k].serial \in Int32
      <4>1. \A j \in 1 .. Len(u) : u[j] \in L
        BY <1>1, ElementOfSeq
      <4> QED
        BY <2>2, <4>1, Near DEF L
    <3>2. \A j, k \in 1 .. Len(q) : j < k => q[j].serial <= q[k].serial
      BY <1>4, <3>1, SortedSerials DEF q
    <3>3. Len(q) \in Nat /\ \A j \in 1 .. Len(q) : q[j].serial \in Int
      <4>1. \A j \in 1 .. Len(q) : q[j] \in L
        BY <1>4, ElementOfSeq
      <4>2. Len(q) \in Nat
        BY <1>4, LenProperties
      <4> QED
        BY <1>2, <4>1, <4>2, SerialsAre
    <3>4. ASSUME NEW j \in 1 .. Len(q), NEW k \in 1 .. Len(q), j < k
          PROVE  q[j].serial < q[k].serial
      <4> DEFINE i == j + 1
      <4>1. i \in 2 .. Len(q) /\ i \in 1 .. Len(q) /\ i - 1 = j /\ j < i /\ (i = k \/ i < k)
        BY <3>3, <3>4
      <4> HIDE DEF i
      <4>2. q[j].serial # q[i].serial /\ q[j].serial <= q[i].serial
        BY <2>1, <3>2, <4>1
      <4>3. q[i].serial <= q[k].serial
        BY <3>2, <3>3, <4>1
      <4>4. q[i].serial \in Int /\ q[j].serial \in Int /\ q[k].serial \in Int
        BY <3>3, <4>1
      <4> QED
        BY <4>2, <4>3, <4>4
    <3> QED
      BY <3>4 DEF Increasing
  <2> QED
    BY <1>4, <2>1, <2>2 DEF L, read
<1>6. CASE ~read.ok
  <2>1. read.actions = <<>>
    <3>1. \A x : WithoutDuplicates(x).ok \/ WithoutDuplicates(x) = Failed
      BY DEF WithoutDuplicates
    <3>2. read = Failed \/ \E x : read = WithoutDuplicates(x)
      BY DEF read_flatpak_ref_actions_from_node
    <3> HIDE DEF read
    <3>3. read = Failed
      BY <1>6, <3>1, <3>2
    <3> QED
      BY <3>3 DEF Failed
  <2> HIDE DEF read
  <2>2. <<>> \in Seq(L)
    BY EmptySeq
  <2> QED
    BY <1>6, <2>1, <2>2 DEF L, read
<1> QED
  BY <1>5, <1>6

TableIn(table, n) ==
    DOMAIN table \subseteq File /\ \A f \in DOMAIN table : table[f] \in Seq(ListedIn(f, n))

LEMMA LoadedIs ==
  ASSUME Content
  PROVE  /\ TableIn(Lists.table, N)
         /\ Lists.ok /\ SerialsNear => \A f \in DOMAIN Lists.table : Increasing(Lists.table[f])
<1> DEFINE T == Tables(directories, computer)[N]
<1>1. N \in Nat /\ N \in 0 .. N /\ N \in Directories
  BY ListsAssumption DEF Content
<1>2. TableOf(directories, computer, N, T)
  BY <1>1, TableIs DEF Content, N
<1> HIDE DEF T
<1>3. ASSUME NEW f \in DOMAIN T
      PROVE  /\ f \in File /\ T[f].read.actions \in Seq(ListedIn(f, N))
             /\ T[f].read.ok /\ SerialsNear => Increasing(T[f].read.actions)
  <2>1. PICK e \in 1 .. N : FirstOf(directories, N, f, e) /\ T[f] = ReadAt(directories, computer, e, f)
    BY <1>2 DEF TableOf
  <2>2. f \in DOMAIN directories[e]
    BY <2>1 DEF FirstOf
  <2>3. DOMAIN directories[e] \subseteq File /\ directories[e] \in [DOMAIN directories[e] -> Seq(Candidates[N])]
    BY DirectoriesAre DEF Content, N
  <2> DEFINE entries == directories[e][f]
  <2>4. f \in File /\ entries \in Seq(Candidates[N])
    BY <2>2, <2>3
  <2>5. T[f].read = read_flatpak_ref_actions_from_node(f, entries, computer)
    BY <2>1 DEF ReadAt
  <2> HIDE DEF entries
  <2> QED
    BY <1>1, <2>4, <2>5, FileIsRead
<1>4. /\ Lists.ok <=> \A f \in DOMAIN T : T[f].read.ok
      /\ Lists.table = [f \in DOMAIN T |-> T[f].read.actions]
  BY DEF Lists, euu_flatpak_ref_actions_from_paths, euu_hoist_flatpak_remote_ref_actions, T, N
<1>5. /\ DOMAIN Lists.table = DOMAIN T
      /\ \A f \in DOMAIN T : Lists.table[f] = T[f].read.actions
  BY <1>4
<1>6. TableIn(Lists.table, N)
  <2>1. DOMAIN Lists.table \subseteq File
    BY <1>3, <1>5
  <2>2. \A f \in DOMAIN Lists.table : Lists.table[f] \in Seq(ListedIn(f, N))
    BY <1>3, <1>5
  <2> QED
    BY <2>1, <2>2 DEF TableIn
<1>7. Lists.ok /\ SerialsNear => \A f \in DOMAIN Lists.table : Increasing(Lists.table[f])
  BY <1>3, <1>4, <1>5
<1> QED
  BY <1>6, <1>7

(* Sequences are joined to one of the same elements.                          *)
LEMMA Flattening ==
  ASSUME NEW X, NEW seqs \in Seq(Seq(X))
  PROVE  FlattenSeq(seqs) \in Seq(X)
<1> DEFINE n == Len(seqs)
           S == Seq(X)
           next(x, k) == IF k = 1 THEN seqs[k] ELSE x \o seqs[k]
           step == [x \in (1 .. n) \X S |-> next(x[2], x[1])]
<1>1. n \in Nat /\ \A k \in 1 .. n : seqs[k] \in S
  <2>1. n \in Nat
    BY LenProperties
  <2>2. seqs \in Seq(S)
    OBVIOUS
  <2> HIDE DEF S
  <2> QED
    BY <2>1, <2>2, ElementOfSeq
<1>2. CASE n = 0
  <2>1. FlattenSeq(seqs) = seqs
    BY <1>2 DEF FlattenSeq
  <2>2. seqs = <<>>
    <3>1. seqs \in Seq(S)
      OBVIOUS
    <3> HIDE DEF S
    <3> QED
      BY <1>2, <3>1, EmptySeq
  <2>3. <<>> \in Seq(X)
    BY EmptySeq
  <2> QED
    BY <2>1, <2>2, <2>3
<1>3. CASE n # 0
  <2>1. <<>> \in S
    BY EmptySeq
  <2>2. \A k \in 1 .. n : \A x \in S : next(x, k) \in S
    BY <1>1, ConcatProperties
  <2> HIDE DEF n, S
  <2>3. step \in [(1 .. n) \X S -> S] /\ \A k \in 1 .. n : \A x \in S : step[<<k, x>>] = next(x, k)
    BY <2>2
  <2> HIDE DEF step
  <2>4. Exists(n, S, <<>>, step)
    BY <1>1, <2>1, <2>3, Recursion
  <2>5. PICK g \in [0 .. n -> S] : g[0] = <<>> /\ \A k \in 1 .. n : g[k] = step[<<k, g[k - 1]>>]
    BY <2>4 DEF Exists
  <2>6. \A k \in 1 .. n : g[k] \in S /\ g[k] = next(g[k - 1], k)
    <3>1. \A k \in 1 .. n : k \in 0 .. n /\ k - 1 \in 0 .. n
      BY <1>1
    <3> QED
      BY <2>3, <2>5, <3>1
  <2> DEFINE f == [k \in 1 .. n |-> g[k]]
  <2>7. \A k \in 1 .. n : next(g[k - 1], k) = next(f[k - 1], k)
    <3>1. \A k \in 1 .. n : k = 1 \/ k - 1 \in 1 .. n
      BY <1>1
    <3> QED
      BY <3>1
  <2>8. f = [k \in 1 .. n |-> IF k = 1 THEN seqs[k] ELSE f[k - 1] \o seqs[k]]
    <3>1. \A k \in 1 .. n : f[k] = next(f[k - 1], k)
      BY <2>6, <2>7
    <3> QED
      BY <3>1
  <2>9. FlattenSeq(seqs) =
           (CHOOSE h : h = [k \in 1 .. n |-> IF k = 1 THEN seqs[k] ELSE h[k - 1] \o seqs[k]])[n]
    BY <1>3 DEF FlattenSeq, n
  <2> HIDE DEF f
  <2> DEFINE F == CHOOSE h : h = [k \in 1 .. n |-> IF k = 1 THEN seqs[k] ELSE h[k - 1] \o seqs[k]]
  <2>10. F = [k \in 1 .. n |-> IF k = 1 THEN seqs[k] ELSE F[k - 1] \o seqs[k]]
    BY <2>8, Zenon
  <2> HIDE DEF F
  <2>11. n \in 1 .. n /\ 1 \in 1 .. n
    BY <1>1, <1>3
  <2>12. \A k \in 1 .. n : F[k] = next(F[k - 1], k)
    BY <2>10
  <2>13. \A k \in 1 .. n : F[k] \in S
    <3> DEFINE U == {k \in Nat : k \in 1 .. n => F[k] \in S}
    <3>1. 0 \in U
      OBVIOUS
    <3>2. ASSUME NEW k \in Nat, k \in U
          PROVE  k + 1 \in U
      <4> DEFINE j == k + 1
      <4>1. j \in Nat /\ j - 1 = k /\ (j \in 1 .. n => j = 1 \/ k \in 1 .. n)
        BY <1>1
      <4> HIDE DEF j
      <4>2. j \in 1 .. n /\ j = 1 => F[j] \in S
        BY <1>1, <2>12
      <4>3. j \in 1 .. n /\ k \in 1 .. n => F[j] \in S
        BY <2>2, <2>12, <3>2, <4>1
      <4> QED
        BY <4>1, <4>2, <4>3 DEF j
    <3>3. \A k \in Nat : k \in U
      <4> HIDE DEF U
      <4> QED
        BY <3>1, <3>2, Induction
    <3> QED
      BY <1>1, <3>3
  <2> QED
    BY <2>9, <2>11, <2>13 DEF F, S
<1> QED
  BY <1>2, <1>3

(* What is in the lists of all files is in the list of one.                    *)
InTable(table, n) ==
    {a \in Listed : /\ a.source \in DOMAIN table /\ a \in ListedIn(a.source, n)
                    /\ \E x \in DOMAIN table[a.source] : table[a.source][x] = a}

LEMMA ConcatenatedIs ==
  ASSUME NEW n, NEW table, TableIn(table, n)
  PROVE  Concatenated(table) \in Seq(InTable(table, n))
<1> DEFINE X == InTable(table, n)
           S == Seq(X)
           part(i) == IF Files[i] \in DOMAIN table THEN table[Files[i]] ELSE <<>>
           parts == [i \in DOMAIN Files |-> part(i)]
<1>1. \A f \in DOMAIN table : table[f] \in S
  <2> SUFFICES ASSUME NEW f \in DOMAIN table
               PROVE  table[f] \in S
    OBVIOUS
  <2> DEFINE L == ListedIn(f, n)
             t == table[f]
  <2>1. t \in Seq(L)
    BY DEF TableIn
  <2>2. DOMAIN t = 1 .. Len(t) /\ Len(t) \in Nat /\ t = [k \in 1 .. Len(t) |-> t[k]] /\ \A k \in 1 .. Len(t) : t[k] \in L
    <3> HIDE DEF L, t
    <3> QED
      BY <2>1, ElementOfSeq, LenProperties
  <2>3. \A k \in 1 .. Len(t) : t[k] \in X
    <3> SUFFICES ASSUME NEW k \in 1 .. Len(t)
                 PROVE  t[k] \in X
      OBVIOUS
    <3>1. t[k] \in Listed /\ t[k].source = f /\ t[k] \in ListedIn(f, n)
      BY <2>2 DEF ListedIn
    <3>2. k \in DOMAIN table[f] /\ table[f][k] = t[k]
      BY <2>2
    <3> HIDE DEF t
    <3> QED
      BY <3>1, <3>2 DEF InTable
  <2> HIDE DEF X, t
  <2>4. t \in Seq(X)
    BY <2>2, <2>3, IsASeq
  <2> QED
    BY <2>4 DEF t
<1>2. \A i \in DOMAIN Files : part(i) \in S
  <2>1. <<>> \in S
    BY EmptySeq
  <2> HIDE DEF S
  <2> QED
    BY <1>1, <2>1
<1>3. DOMAIN Files = 1 .. Len(Files) /\ Len(Files) \in Nat
  BY FilesAssumption, LenProperties
<1>4. parts \in Seq(S)
  <2> HIDE DEF S, part
  <2> QED
    BY <1>2, <1>3, IsASeq
<1>5. FlattenSeq(parts) \in Seq(X) /\ <<>> \o parts = parts
  <2> HIDE DEF parts, X
  <2> QED
    BY <1>4, Flattening, ConcatEmptySeq
<1> QED
  BY <1>5 DEF Concatenated

LEMMA SquashedTable ==
  ASSUME Content
  PROVE  LET flat == Flattened
             table == Lists.table
         IN  /\ \A i, j \in DOMAIN flat : flat[i].ref = flat[j].ref => i = j
             /\ \A v \in Version : SameEffect(flat, Concatenated(table), [r \in Ref |-> v])
             /\ Lists.ok /\ SerialsNear =>
                  \A i, j \in DOMAIN flat : i < j /\ flat[i].source = flat[j].source =>
                     Before(table[flat[i].source], flat[i], flat[j])
<1> DEFINE flat == Flattened
           table == Lists.table
           w == Concatenated(table)
           X == InTable(table, N)
<1>1. TableIn(table, N) /\ N \in Directories
  BY LoadedIs DEF Content
<1>2. X \subseteq Listed
  BY DEF InTable
<1>3. w \in Seq(X) /\ w \in Seq(Listed)
  <2>1. w \in Seq(X)
    BY <1>1, ConcatenatedIs
  <2> HIDE DEF w, X
  <2> QED
    BY <1>2, <2>1, SeqMonotonic
<1>4. flat = squash_ref_actions_ptr_array(w)
  BY DEF Flattened, euu_flatten_flatpak_ref_actions_table
<1>5. Lists.ok /\ SerialsNear => \A f \in DOMAIN table : Increasing(table[f])
  BY LoadedIs
<1> HIDE DEF flat, table, w, X
<1>6. /\ flat \in Seq(Listed)
      /\ \A j, k \in 1 .. Len(flat) : flat[j].ref = flat[k].ref => j = k
      /\ \A v \in Installed : Effect(flat, v) = Effect(w, v)
  BY <1>3, <1>4, SquashedEffect
<1>7. DOMAIN flat = 1 .. Len(flat)
  BY <1>6, LenProperties
<1>8. \A v \in Version : SameEffect(flat, w, [r \in Ref |-> v])
  <2>1. \A v \in Version : [r \in Ref |-> v] \in Installed
    BY DEF Installed
  <2> QED
    BY <1>6, <2>1 DEF SameEffect
<1>9. ASSUME Lists.ok, SerialsNear
      PROVE  \A i, j \in DOMAIN flat : i < j /\ flat[i].source = flat[j].source =>
                Before(table[flat[i].source], flat[i], flat[j])
  <2>1. \A k \in 1 .. Len(w) : w[k] \in X
    BY <1>3, ElementOfSeq
  <2>2. \A j, k \in 1 .. Len(w) : w[j].serial - w[k].serial \in Int32
    <3>1. \A k \in 1 .. Len(w) : w[k] \in ListedIn(w[k].source, N)
      BY <2>1 DEF X, InTable
    <3> QED
      BY <1>1, <1>9, <3>1, Near
  <2>3. PICK g : IsSquashed(w, flat, g) /\ \A j, k \in 1 .. Len(flat) : j < k => flat[j].serial <= flat[k].serial
    BY <1>3, <1>4, <2>2, SquashedIs
  <2>4. \A k \in 1 .. Len(flat) : flat[k] \in X
    <3>1. \A k \in 1 .. Len(flat) : g[k] \in 1 .. Len(w) /\ flat[k] = w[g[k]]
      BY <2>3 DEF IsSquashed
    <3> QED
      BY <2>1, <3>1
  <2> SUFFICES ASSUME NEW i \in 1 .. Len(flat), NEW j \in 1 .. Len(flat), i < j,
                      flat[i].source = flat[j].source
               PROVE  Before(table[flat[i].source], flat[i], flat[j])
    BY <1>7
  <2> DEFINE f == flat[i].source
             t == table[f]
  <2>5. /\ f \in DOMAIN table /\ t \in Seq(ListedIn(f, N)) /\ DOMAIN t = 1 .. Len(t) /\ Len(t) \in Nat
        /\ Increasing(t)
    <3>1. f \in DOMAIN table
      BY <2>4 DEF X, InTable
    <3>2. t \in Seq(ListedIn(f, N))
      BY <1>1, <3>1 DEF TableIn
    <3> QED
      BY <1>5, <1>9, <3>1, <3>2, LenProperties
  <2>6. PICK x \in DOMAIN t : t[x] = flat[i]
    BY <2>4 DEF X, InTable
  <2>7. PICK y \in DOMAIN t : t[y] = flat[j]
    BY <2>4 DEF X, InTable
  <2>8. x # y
    <3>1. flat[i] # flat[j]
      BY <1>6
    <3> QED
      BY <2>6, <2>7, <3>1
  <2>9. ~(y < x)
    <3>1. y < x => t[y].serial < t[x].serial
      BY <2>5 DEF Increasing
    <3>2. flat[i].serial <= flat[j].serial
      BY <2>3
    <3>3. flat[i].serial \in Int /\ flat[j].serial \in Int
      BY <1>2, <2>4, SerialsAre
    <3> QED
      BY <2>6, <2>7, <3>1, <3>2, <3>3
  <2>10. x < y
    BY <2>5, <2>8, <2>9
  <2> HIDE DEF t
  <2> QED
    BY <2>6, <2>7, <2>10 DEF Before, t
<1> QED
  BY <1>6, <1>7, <1>8, <1>9 DEF flat, table, w

(* If no difference of serial numbers overflows, squashing leaves one action for *)
(* each flatpak, with the effect of all of them, and those of one file in the    *)
(* order of the file, which its progress relies upon                          *)
(* (squash_ref_actions_ptr_array).                                           *)
THEOREM SquashRight ==
  ASSUME SerialsNear
  PROVE  ListsSpec => []SquashKeepsEffect
<1>1. Content => SquashKeepsEffect
  BY SquashedTable DEF SquashKeepsEffect, SquashesRight
<1> QED
  BY <1>1, ContentIs, PTL

(* The part of SquashKeepsEffect that does not depend on the order.             *)
OneForEach ==
    /\ \A i, j \in DOMAIN Flattened : Flattened[i].ref = Flattened[j].ref => i = j
    /\ \A v \in Version : SameEffect(Flattened, Concatenated(Lists.table), [r \in Ref |-> v])

(* Whatever the serial numbers, even if the sort leaves the actions out of order: *)
(* one action remains for each flatpak, and those that remain do what all of     *)
(* them, file after file, would have done (squash_ref_actions_ptr_array).      *)
THEOREM OneForEachRight == ListsSpec => []OneForEach
<1>1. Content => OneForEach
  BY SquashedTable DEF OneForEach
<1> QED
  BY <1>1, ContentIs, PTL

-----------------------------------------------------------------------------
(* Splitting.                                                                *)

LEMMA FirstNewIs ==
  ASSUME NEW a \in Seq(Listed), NEW progress \in Int
  PROVE  LET m == FirstNew(a, progress)
         IN  /\ m \in 1 .. Len(a) + 1
             /\ \A i \in 1 .. m - 1 : a[i].serial <= progress
             /\ m <= Len(a) => a[m].serial > progress
<1> DEFINE newer == {i \in DOMAIN a : a[i].serial > progress}
           m == FirstNew(a, progress)
<1>1. Len(a) \in Nat /\ DOMAIN a = 1 .. Len(a) /\ \A i \in 1 .. Len(a) : a[i] \in Listed
  BY LenProperties, ElementOfSeq
<1>2. \A i \in 1 .. Len(a) : a[i].serial \in Int
  BY <1>1, SerialsAre
<1>3. newer \in SUBSET Nat
  BY <1>1
<1>4. m = IF newer = {} THEN Len(a) + 1 ELSE Min(newer)
  BY DEF FirstNew
<1> HIDE DEF m
<1>5. CASE newer = {}
  <2>1. m = Len(a) + 1
    BY <1>4, <1>5
  <2>2. \A i \in 1 .. Len(a) : ~(a[i].serial > progress)
    BY <1>1, <1>5
  <2>3. \A i \in 1 .. m - 1 : a[i].serial <= progress
    BY <1>1, <1>2, <2>1, <2>2
  <2>4. m \in 1 .. Len(a) + 1 /\ ~(m <= Len(a))
    BY <1>1, <2>1
  <2> QED
    BY <2>3, <2>4 DEF m
<1>6. CASE newer # {}
  <2>1. m \in newer /\ \A i \in newer : m <= i
    <3> HIDE DEF newer
    <3> QED
      BY <1>3, <1>4, <1>6, Smallest
  <2>2. m \in 1 .. Len(a) /\ a[m].serial > progress
    BY <1>1, <2>1
  <2>3. ASSUME NEW i \in 1 .. m - 1
        PROVE  a[i].serial <= progress
    <3>1. i \in 1 .. Len(a) /\ ~(m <= i)
      BY <1>1, <2>2
    <3>2. ~(a[i].serial > progress)
      BY <1>1, <2>1, <3>1
    <3> QED
      BY <1>2, <3>1, <3>2
  <2>4. m \in 1 .. Len(a) + 1
    BY <1>1, <2>2
  <2> QED
    BY <2>2, <2>3, <2>4 DEF m
<1> QED
  BY <1>5, <1>6

IsSplit(existing, new, s, progress) ==
    /\ \A i \in DOMAIN existing : existing[i].serial <= progress
    /\ Increasing(s) => \A i \in DOMAIN new : new[i].serial > progress
    /\ \A v \in Installed : Effect(existing \o new, v) = Effect(s, v)

LEMMA SplitIs ==
  ASSUME NEW f, NEW table, NEW progress \in Int, f \in DOMAIN table, table[f] \in Seq(Listed)
  PROVE  LET progresses == [g \in DOMAIN table |-> progress]
             existing == euu_filter_for_existing_flatpak_ref_actions(table, progresses)
             new == euu_filter_for_new_flatpak_ref_actions(table, progresses)
         IN  IsSplit(existing[f], new[f], table[f], progress)
<1> DEFINE progresses == [g \in DOMAIN table |-> progress]
           existing == euu_filter_for_existing_flatpak_ref_actions(table, progresses)[f]
           new == euu_filter_for_new_flatpak_ref_actions(table, progresses)[f]
           a == table[f]
           m == FirstNew(a, progress)
           s == SubSeq(a, 1, m - 1)
           t == SubSeq(a, m, Len(a))
<1>1. existing = squash_ref_actions_ptr_array(s) /\ new = squash_ref_actions_ptr_array(t)
  <2>1. f \in DOMAIN progresses /\ progresses[f] = progress
    OBVIOUS
  <2> HIDE DEF progresses
  <2> QED
    BY <2>1 DEF euu_filter_for_existing_flatpak_ref_actions, euu_filter_for_new_flatpak_ref_actions,
                keep_only_existing_actions, keep_only_new_actions
<1> HIDE DEF existing, new
<1>2. Len(a) \in Nat /\ a \in Seq(Listed) /\ \A i \in 1 .. Len(a) : a[i] \in Listed
  BY LenProperties, ElementOfSeq
<1>3. /\ m \in 1 .. Len(a) + 1
      /\ \A i \in 1 .. m - 1 : a[i].serial <= progress
      /\ m <= Len(a) => a[m].serial > progress
  BY FirstNewIs
<1> HIDE DEF a, m
<1>4. s \in Seq(Listed) /\ Len(s) = m - 1 /\ \A i \in 1 .. m - 1 : s[i] = a[i]
  <2>1. m - 1 \in Int /\ 1 \in Int /\ \A i \in 1 .. m - 1 : a[i] \in Listed
    BY <1>2, <1>3
  <2>2. /\ s \in Seq(Listed)
        /\ Len(s) = IF 1 <= m - 1 THEN m - 1 - 1 + 1 ELSE 0
        /\ \A i \in 1 .. m - 1 - 1 + 1 : s[i] = a[1 + i - 1]
    BY <2>1, SubSeqProperties
  <2> HIDE DEF s
  <2> QED
    BY <1>2, <1>3, <2>2
<1>5. t \in Seq(Listed) /\ \A i \in 1 .. Len(t) : m + i - 1 \in m .. Len(a) /\ t[i] = a[m + i - 1]
  <2>1. m \in Int /\ Len(a) \in Int /\ \A i \in m .. Len(a) : a[i] \in Listed
    BY <1>2, <1>3
  <2>2. /\ t \in Seq(Listed)
        /\ Len(t) = IF m <= Len(a) THEN Len(a) - m + 1 ELSE 0
        /\ \A i \in 1 .. Len(a) - m + 1 : t[i] = a[m + i - 1]
    BY <2>1, SubSeqProperties
  <2> HIDE DEF t
  <2>3. \A i \in 1 .. Len(t) : i \in 1 .. Len(a) - m + 1 /\ m + i - 1 \in m .. Len(a)
    BY <1>2, <1>3, <2>2
  <2> QED
    BY <2>2, <2>3
<1>6. s \o t = a
  <2>1. 1 \in 1 .. Len(a) + 1 /\ m - 1 \in 1 - 1 .. Len(a) /\ Len(a) \in m - 1 .. Len(a)
    BY <1>2, <1>3
  <2>2. s \o SubSeq(a, (m - 1) + 1, Len(a)) = SubSeq(a, 1, Len(a))
    BY <1>2, <2>1, ConcatAdjacentSubSeq
  <2>3. SubSeq(a, 1, Len(a)) = a
    BY <1>2, SubSeqFull
  <2>4. (m - 1) + 1 = m
    BY <1>3
  <2> QED
    BY <2>2, <2>3, <2>4
<1> HIDE DEF s, t
<1>7. /\ existing \in Seq(Listed) /\ \E g : IsSquashed(s, existing, g)
      /\ \A v \in Installed : Effect(existing, v) = Effect(s, v)
  BY <1>1, <1>4, SquashedIs, SquashedEffect
<1>8. /\ new \in Seq(Listed) /\ \E g : IsSquashed(t, new, g)
      /\ \A v \in Installed : Effect(new, v) = Effect(t, v)
  BY <1>1, <1>5, SquashedIs, SquashedEffect
<1>9. \A i \in DOMAIN existing : existing[i].serial <= progress
  <2>1. PICK g : IsSquashed(s, existing, g)
    BY <1>7
  <2>2. DOMAIN existing = 1 .. Len(existing)
    BY <1>7, LenProperties
  <2>3. \A i \in 1 .. Len(existing) : g[i] \in 1 .. m - 1 /\ existing[i] = s[g[i]]
    BY <1>4, <2>1 DEF IsSquashed
  <2>4. \A k \in 1 .. m - 1 : s[k].serial <= progress
    BY <1>3, <1>4
  <2> QED
    BY <2>2, <2>3, <2>4
<1>10. ASSUME Increasing(a)
       PROVE  \A i \in DOMAIN new : new[i].serial > progress
  <2>1. PICK g : IsSquashed(t, new, g)
    BY <1>8
  <2>2. DOMAIN new = 1 .. Len(new)
    BY <1>8, LenProperties
  <2>3. \A i \in 1 .. Len(new) : g[i] \in 1 .. Len(t) /\ new[i] = t[g[i]]
    BY <2>1 DEF IsSquashed
  <2>4. \A k \in m .. Len(a) : a[k].serial > progress
    <3> SUFFICES ASSUME NEW k \in m .. Len(a)
                 PROVE  a[k].serial > progress
      OBVIOUS
    <3>1. m \in 1 .. Len(a) /\ k \in 1 .. Len(a) /\ (k = m \/ m < k)
      BY <1>2, <1>3
    <3>2. a[m].serial \in Int /\ a[k].serial \in Int
      BY <1>2, <3>1, SerialsAre
    <3>3. a[m].serial > progress
      BY <1>3, <3>1
    <3>4. m < k => a[m].serial < a[k].serial
      BY <1>10, <3>1 DEF Increasing
    <3> QED
      BY <3>1, <3>2, <3>3, <3>4
  <2>5. \A k \in 1 .. Len(t) : t[k].serial > progress
    BY <1>5, <2>4
  <2> QED
    BY <2>2, <2>3, <2>5
<1>11. ASSUME NEW v \in Installed
       PROVE  Effect(existing \o new, v) = Effect(a, v)
  <2>1. Effect(s, v) \in Installed
    BY <1>4, EffectIs
  <2>2. Effect(existing \o new, v) = Effect(new, Effect(existing, v))
    BY <1>7, <1>8, ConcatenatedEffect
  <2>3. Effect(s \o t, v) = Effect(t, Effect(s, v))
    BY <1>4, <1>5, ConcatenatedEffect
  <2> QED
    BY <1>6, <1>7, <1>8, <2>1, <2>2, <2>3
<1> QED
  BY <1>9, <1>10, <1>11 DEF existing, new, a, IsSplit

(* If no difference of serial numbers overflows, the two parts of a file, split   *)
(* at any progress, do together what the file does, and nothing is in the wrong  *)
(* one (keep_only_new_actions, keep_only_existing_actions).                   *)
THEOREM SplitRight ==
  ASSUME SerialsNear
  PROVE  ListsSpec => []SplitIsComplete
<1>1. ASSUME Content, Lists.ok, NEW progress \in Int32, NEW f \in DOMAIN Lists.table
      PROVE  LET progresses == [g \in DOMAIN Lists.table |-> progress]
                 existing == euu_filter_for_existing_flatpak_ref_actions(Lists.table, progresses)
                 new == euu_filter_for_new_flatpak_ref_actions(Lists.table, progresses)
             IN  SplitsRight(existing[f], new[f], Lists.table[f], progress)
  <2> DEFINE table == Lists.table
  <2>1. progress \in Int
    BY MaxIntAssumption DEF Int32
  <2>2. TableIn(table, N) /\ Increasing(table[f])
    BY <1>1, LoadedIs
  <2>3. table[f] \in Seq(Listed)
    <3>1. table[f] \in Seq(ListedIn(f, N))
      BY <2>2 DEF TableIn
    <3>2. ListedIn(f, N) \subseteq Listed
      BY DEF ListedIn
    <3> HIDE DEF table
    <3> QED
      BY <3>1, <3>2, SeqMonotonic
  <2>4. \A v \in Version : [r \in Ref |-> v] \in Installed
    BY DEF Installed
  <2> DEFINE progresses == [g \in DOMAIN table |-> progress]
             existing == euu_filter_for_existing_flatpak_ref_actions(table, progresses)[f]
             new == euu_filter_for_new_flatpak_ref_actions(table, progresses)[f]
  <2>5. IsSplit(existing, new, table[f], progress)
    <3> HIDE DEF table
    <3>1. f \in DOMAIN table
      BY <1>1 DEF table
    <3> QED
      BY <2>1, <2>3, <3>1, SplitIs
  <2>6. SplitsRight(existing, new, table[f], progress)
    <3> HIDE DEF existing, new, table
    <3> QED
      BY <2>2, <2>4, <2>5 DEF IsSplit, SplitsRight, SameEffect
  <2> QED
    BY <2>6
<1>2. Content => SplitIsComplete
  BY <1>1 DEF SplitIsComplete, SplitsAnywhere
<1> QED
  BY <1>2, ContentIs, PTL

(* Of every file, only actions of known types with valid serial numbers are     *)
(* loaded, and none is taken for a dependency                                *)
(* (flatpak_remote_ref_action_from_json_node).                                *)
THEOREM ListsTypeCorrect == ListsSpec => []ListsTypeOK
<1>1. ASSUME Content
      PROVE  ListsTypeOK
  <2> DEFINE table == Lists.table
  <2>1. TableIn(table, N) /\ computer \in Computers[N]
    BY <1>1, LoadedIs DEF Content
  <2> HIDE DEF table
  <2>2. ASSUME NEW f \in DOMAIN table, NEW i \in DOMAIN table[f]
        PROVE  table[f][i] \in [type : Type, ref : Ref, source : {f}, serial : Int32, dependency : {FALSE}]
    <3> DEFINE L == ListedIn(f, N)
    <3>1. table[f] \in Seq(L)
      BY <2>1 DEF TableIn
    <3>2. table[f][i] \in L
      <4> HIDE DEF L
      <4> QED
        BY <3>1, ElementOfSeq, LenProperties
    <3> QED
      BY <3>2 DEF ListedIn, Listed
  <2> QED
    BY <2>1, <2>2 DEF ListsTypeOK, table
<1> QED
  BY <1>1, ContentIs, PTL

-----------------------------------------------------------------------------
(* Dependencies: what joins a list for one action.                             *)

Joined == [type : Type, ref : Ref, source : File, serial : Int32, dependency : BOOLEAN]

(* Of what a flatpak needs, what is to be done for an action on it.             *)
Wanted(a, v) ==
    IF a.type = "uninstall" THEN {d \in Extensions[a.ref] : v[d] # "absent"}
    ELSE {d \in Needs(a.ref) : v[d] # "new"}
Effective(a, v) == a.type = "install" \/ v[a.ref] # "absent"

DependencyOf(b, a, v) ==
    /\ b.dependency = TRUE /\ b.source = a.source /\ b.serial = a.serial
    /\ b.ref \in Wanted(a, v) /\ (b.type = "uninstall" <=> a.type = "uninstall")

RelatedTo(rel, a, v) ==
    /\ rel \in Seq(Joined)
    /\ \A i \in 1 .. Len(rel) : DependencyOf(rel[i], a, v)
    /\ \A i, j \in 1 .. Len(rel) : rel[i].ref = rel[j].ref => i = j
    /\ Effective(a, v) => \A d \in Wanted(a, v) : \E i \in 1 .. Len(rel) : rel[i].ref = d

LEMMA AsSequence ==
  ASSUME NEW S, IsFiniteSet(S)
  PROVE  LET q == SetToSeq(S)
         IN  /\ DOMAIN q = 1 .. Len(q) /\ Len(q) \in Nat
             /\ \A i \in 1 .. Len(q) : q[i] \in S
             /\ \A i, j \in 1 .. Len(q) : q[i] = q[j] => i = j
             /\ \A x \in S : \E i \in 1 .. Len(q) : q[i] = x
<1> DEFINE c == Cardinality(S)
           I(f) == f \in [1 .. c -> S] /\ IsInjective(f)
           q == SetToSeq(S)
<1>1. c \in Nat /\ ExistsBijection(1 .. c, S)
  BY FS_CardinalityType
<1>2. \E f : I(f)
  <2>1. PICK f : f \in Bijection(1 .. c, S)
    BY <1>1 DEF ExistsBijection
  <2> QED
    BY <2>1 DEF Bijection, Injection, Surjection
<1>3. I(q)
  <2>1. q = CHOOSE f \in [1 .. c -> S] : IsInjective(f)
    BY DEF SetToSeq
  <2> HIDE DEF q
  <2>2. \E f \in [1 .. c -> S] : IsInjective(f)
    BY <1>2
  <2> QED
    BY <2>1, <2>2, Zenon
<1> HIDE DEF q, c
<1>4. DOMAIN q = 1 .. c /\ q \in Seq(S) /\ Len(q) = c
  <2>1. q \in [1 .. c -> S]
    BY <1>3
  <2>2. DOMAIN q = 1 .. c /\ q = [i \in 1 .. c |-> q[i]] /\ \A i \in 1 .. c : q[i] \in S
    BY <2>1
  <2>3. q \in Seq(S)
    BY <1>1, <2>2, IsASeq
  <2>4. DOMAIN q = 1 .. Len(q) /\ Len(q) \in Nat
    BY <2>3, LenProperties
  <2> QED
    BY <1>1, <2>2, <2>3, <2>4
<1>5. q \in Injection(1 .. c, S)
  BY <1>3 DEF Injection, IsInjective
<1>6. IsFiniteSet(1 .. c) /\ Cardinality(1 .. c) = c
  BY <1>1, FS_Interval
<1>7. q \in Surjection(1 .. c, S)
  BY <1>5, <1>6, FS_Injection DEF c
<1>8. \A i, j \in 1 .. c : q[i] = q[j] => i = j
  BY <1>3, <1>4 DEF IsInjective
<1> QED
  BY <1>1, <1>3, <1>4, <1>7, <1>8 DEF Surjection, q

LEMMA RelatedAre ==
  ASSUME NEW a \in Listed, NEW v \in Installed
  PROVE  RelatedTo(find_related_refs_for_action(a, v), a, v)
<1> DEFINE op == IF a.type = "install" /\ v[a.ref] # "absent" THEN "update" ELSE a.type
           R == IF op = "uninstall" THEN Extensions[a.ref] ELSE Needs(a.ref)
           brought(r) == CASE v[r] = "absent" -> "install" [] v[r] = "old" -> "update" [] v[r] = "new" -> ""
           kind(r) == IF op = "uninstall" THEN (IF v[r] = "absent" THEN "" ELSE "uninstall") ELSE brought(r)
           types == IF op = "uninstall"
                    THEN [r \in Extensions[a.ref] |-> IF v[r] = "absent" THEN "" ELSE "uninstall"]
                    ELSE [r \in Runtimes[a.ref] \cup Extensions[a.ref] |-> brought(r)]
           S == {r \in DOMAIN types : types[r] # ""}
           refs == SetToSeq(S)
           rel == find_related_refs_for_action(a, v)
           act(i) == Action(types[refs[i]], refs[i], a.source, a.serial, TRUE)
<1>1. /\ a.ref \in Ref /\ a.type \in Type /\ a.source \in File /\ a.serial \in Int32
      /\ op = "uninstall" <=> a.type = "uninstall"
  BY DEF Listed
<1>2. Needs(a.ref) \subseteq Ref /\ Extensions[a.ref] \subseteq Ref /\ IsFiniteSet(Needs(a.ref)) /\ IsFiniteSet(Extensions[a.ref])
  <2>1. Runtimes[a.ref] \subseteq Ref /\ Extensions[a.ref] \subseteq Ref
    BY <1>1, RelatedAssumption
  <2>2. IsFiniteSet(Runtimes[a.ref]) /\ IsFiniteSet(Extensions[a.ref])
    BY <1>1, RelatedAssumption
  <2> QED
    BY <2>1, <2>2, FS_Union DEF Needs
<1>3. types = [r \in R |-> kind(r)]
  <2> HIDE DEF brought, op
  <2>1. CASE op = "uninstall"
    BY <2>1
  <2>2. CASE op # "uninstall"
    BY <2>2 DEF Needs
  <2> QED
    BY <2>1, <2>2
<1>4. R \subseteq Ref /\ IsFiniteSet(R)
  BY <1>2
<1>5. rel = IF a.type # "install" /\ v[a.ref] = "absent" THEN <<>> ELSE [i \in DOMAIN refs |-> act(i)]
  BY DEF find_related_refs_for_action
<1>6. \A r \in R : v[r] \in Version
  BY <1>4 DEF Installed
<1>7. S = Wanted(a, v)
  BY <1>1, <1>3, <1>6 DEF Wanted, Version
<1>8. \A r \in S : types[r] \in Type /\ (types[r] = "uninstall" <=> a.type = "uninstall") /\ r \in Ref
  BY <1>1, <1>3, <1>4, <1>6 DEF Type, Version
<1>9. IsFiniteSet(S)
  BY <1>3, <1>4, FS_Subset
<1> HIDE DEF types, op, R, S
<1>10. /\ DOMAIN refs = 1 .. Len(refs) /\ Len(refs) \in Nat
       /\ \A i \in 1 .. Len(refs) : refs[i] \in S
       /\ \A i, j \in 1 .. Len(refs) : refs[i] = refs[j] => i = j
       /\ \A x \in S : \E i \in 1 .. Len(refs) : refs[i] = x
  BY <1>9, AsSequence
<1> HIDE DEF refs
<1>11. \A i \in 1 .. Len(refs) : act(i) \in Joined /\ DependencyOf(act(i), a, v) /\ act(i).ref = refs[i]
  <2> SUFFICES ASSUME NEW i \in 1 .. Len(refs)
               PROVE  act(i) \in Joined /\ DependencyOf(act(i), a, v) /\ act(i).ref = refs[i]
    OBVIOUS
  <2>1. refs[i] \in S /\ refs[i] \in Ref /\ types[refs[i]] \in Type
        /\ (types[refs[i]] = "uninstall" <=> a.type = "uninstall")
    BY <1>8, <1>10
  <2> QED
    BY <1>1, <1>7, <2>1 DEF Action, Joined, DependencyOf
<1> HIDE DEF act, rel
<1>12. CASE a.type # "install" /\ v[a.ref] = "absent"
  <2>1. rel = <<>> /\ ~Effective(a, v)
    BY <1>5, <1>12 DEF Effective
  <2>2. Len(rel) = 0 /\ rel \in Seq(Joined)
    BY <2>1, EmptySeq
  <2> QED
    BY <2>1, <2>2 DEF RelatedTo, rel
<1>13. CASE ~(a.type # "install" /\ v[a.ref] = "absent")
  <2>1. rel = [i \in 1 .. Len(refs) |-> act(i)]
    BY <1>5, <1>10, <1>13
  <2>2. rel \in Seq(Joined) /\ Len(rel) = Len(refs)
    <3>1. rel \in Seq(Joined)
      BY <1>10, <1>11, <2>1, IsASeq
    <3> QED
      BY <1>10, <2>1, <3>1
  <2>3. \A i \in 1 .. Len(refs) : rel[i] = act(i)
    BY <2>1
  <2> QED
    BY <1>7, <1>10, <1>11, <2>2, <2>3 DEF RelatedTo, rel
<1> QED
  BY <1>12, <1>13

(* Of what is related, what is left in.                                       *)
LeftIn(w, list, rel) ==
    /\ w \in Seq(Joined)
    /\ \A k \in 1 .. Len(w) : \E i \in 1 .. Len(rel) :
          w[k] = rel[i] /\ (rel[i].type = "uninstall" \/ \A j \in 1 .. Len(list) : list[j].ref # rel[i].ref)
    /\ \A i \in 1 .. Len(rel) :
          (rel[i].type = "uninstall" \/ \A j \in 1 .. Len(list) : list[j].ref # rel[i].ref) =>
             \E k \in 1 .. Len(w) : w[k] = rel[i]
    /\ (\A i, j \in 1 .. Len(rel) : rel[i].ref = rel[j].ref => i = j) =>
          \A j, k \in 1 .. Len(w) : j < k => w[j].ref # w[k].ref

LEMMA RepetitionsGo ==
  ASSUME NEW list \in Seq(Joined), NEW rel \in Seq(Joined)
  PROVE  LeftIn(WithoutRepetitions(list, rel), list, rel)
<1> DEFINE new(k) == rel[k].type = "uninstall" \/ \A i \in DOMAIN list : list[i].ref # rel[k].ref
           P == {k \in DOMAIN rel : new(k)}
           c == Cardinality(P)
           w == WithoutRepetitions(list, rel)
<1>1. DOMAIN list = 1 .. Len(list) /\ DOMAIN rel = 1 .. Len(rel) /\ Len(rel) \in Nat
  BY LenProperties
<1>2. w = Places(rel, P)
  BY DEF WithoutRepetitions
<1>3. P \in SUBSET (1 .. Len(rel))
  BY <1>1
<1> HIDE DEF w
<1>4. w \in Seq(Joined) /\ ArePlaces(rel, P, w)
  BY <1>2, <1>3, PlacesAre
<1>5. PICK f : Enumerates(f, P) /\ \A k \in 1 .. c : w[k] = rel[f[k]]
  BY <1>4 DEF ArePlaces
<1>6. Len(w) = c /\ c \in Nat
  BY <1>4 DEF ArePlaces
<1>7. /\ \A k \in 1 .. c : f[k] \in P
      /\ \A i \in P : \E k \in 1 .. c : f[k] = i
      /\ \A j, k \in 1 .. c : j < k => f[j] < f[k]
  BY <1>5 DEF Enumerates
<1> HIDE DEF c
<1>8. \A k \in 1 .. c : \E i \in 1 .. Len(rel) : w[k] = rel[i] /\ new(i)
  <2> SUFFICES ASSUME NEW k \in 1 .. c
               PROVE  \E i \in 1 .. Len(rel) : w[k] = rel[i] /\ new(i)
    OBVIOUS
  <2>1. f[k] \in 1 .. Len(rel) /\ new(f[k])
    BY <1>3, <1>7
  <2> QED
    BY <1>5, <2>1
<1>9. \A i \in 1 .. Len(rel) : new(i) => \E k \in 1 .. c : w[k] = rel[i]
  <2> SUFFICES ASSUME NEW i \in 1 .. Len(rel), new(i)
               PROVE  \E k \in 1 .. c : w[k] = rel[i]
    OBVIOUS
  <2>1. i \in P
    BY <1>1
  <2> QED
    BY <1>5, <1>7, <2>1
<1>10. ASSUME \A i, j \in 1 .. Len(rel) : rel[i].ref = rel[j].ref => i = j,
              NEW j \in 1 .. c, NEW k \in 1 .. c, j < k
       PROVE  w[j].ref # w[k].ref
  <2>1. f[j] \in 1 .. Len(rel) /\ f[k] \in 1 .. Len(rel) /\ f[j] < f[k]
    BY <1>3, <1>7, <1>10
  <2>2. f[j] # f[k]
    BY <1>1, <2>1
  <2> QED
    BY <1>5, <1>10, <2>1, <2>2
<1>11. \A k : new(k) <=> rel[k].type = "uninstall" \/ \A j \in 1 .. Len(list) : list[j].ref # rel[k].ref
  BY <1>1
<1> HIDE DEF P, new
<1>12. LeftIn(w, list, rel)
  BY <1>4, <1>6, <1>8, <1>9, <1>10, <1>11 DEF LeftIn
<1> QED
  BY <1>12 DEF w

(* What a list becomes with an action: the action joins it at one place, what is  *)
(* related before it or, if it is uninstalled, after it.                       *)
With(l, m, a, v, at) ==
    /\ m \in Seq(Joined) /\ Len(l) <= Len(m)
    /\ \A i \in 1 .. Len(l) : m[i] = l[i]
    /\ at \in Len(l) + 1 .. Len(m) /\ m[at] = a
    /\ \A j \in Len(l) + 1 .. Len(m) : j # at =>
          /\ DependencyOf(m[j], a, v)
          /\ IF a.type = "uninstall" THEN at < j
             ELSE j < at /\ \A i \in 1 .. Len(l) : l[i].ref # m[j].ref
    /\ \A j, k \in Len(l) + 1 .. Len(m) : j < k /\ j # at /\ k # at => m[j].ref # m[k].ref
    /\ a.type # "uninstall" /\ Effective(a, v) =>
          \A d \in Wanted(a, v) : \E j \in 1 .. Len(m) : m[j].ref = d

LEMMA Lengthening ==
  ASSUME NEW l \in Seq(Joined), NEW a \in Listed, NEW v \in Installed
  PROVE  \E at : With(l, WithDependencies(l, a, v), a, v, at)
<1> DEFINE rel == find_related_refs_for_action(a, v)
           n == Len(l)
           m == WithDependencies(l, a, v)
<1>1. RelatedTo(rel, a, v)
  BY RelatedAre
<1>2. m = IF a.type = "uninstall"
          THEN Append(l, a) \o WithoutRepetitions(Append(l, a), rel)
          ELSE l \o Append(WithoutRepetitions(l, rel), a)
  BY DEF WithDependencies
<1>3. a \in Joined /\ rel \in Seq(Joined) /\ n \in Nat
  BY <1>1, LenProperties DEF RelatedTo, Listed, Joined
<1> HIDE DEF rel, m
<1>4. \A i \in 1 .. Len(rel) : DependencyOf(rel[i], a, v) /\ (rel[i].type = "uninstall" <=> a.type = "uninstall")
  BY <1>1 DEF RelatedTo, DependencyOf
<1>5. CASE a.type = "uninstall"
  <2> DEFINE l1 == Append(l, a)
             w == WithoutRepetitions(l1, rel)
             at == n + 1
  <2>1. l1 \in Seq(Joined) /\ Len(l1) = n + 1 /\ l1[at] = a /\ \A i \in 1 .. n : l1[i] = l[i]
    BY <1>3, AppendProperties
  <2>2. LeftIn(w, l1, rel)
    <3> HIDE DEF l1
    <3> QED
      BY <1>3, <2>1, RepetitionsGo
  <2>3. w \in Seq(Joined) /\ Len(w) \in Nat /\ \A k \in 1 .. Len(w) : \E i \in 1 .. Len(rel) : w[k] = rel[i]
    BY <2>2, LenProperties DEF LeftIn
  <2>4. \A j, k \in 1 .. Len(w) : j < k => w[j].ref # w[k].ref
    BY <1>1, <2>2 DEF LeftIn, RelatedTo
  <2>5. m = l1 \o w
    BY <1>2, <1>5
  <2> HIDE DEF l1, w
  <2>6. /\ m \in Seq(Joined) /\ Len(m) = n + 1 + Len(w)
        /\ \A i \in 1 .. n + 1 : m[i] = l1[i]
        /\ \A i \in n + 2 .. Len(m) : m[i] = w[i - (n + 1)]
    <3>1. /\ m \in Seq(Joined) /\ Len(m) = Len(l1) + Len(w)
          /\ \A i \in 1 .. Len(l1) + Len(w) : m[i] = IF i <= Len(l1) THEN l1[i] ELSE w[i - Len(l1)]
      BY <2>1, <2>3, <2>5, ConcatProperties
    <3> QED
      BY <1>3, <2>1, <2>3, <3>1
  <2>7. \A i \in n + 2 .. Len(m) : i - (n + 1) \in 1 .. Len(w)
    BY <1>3, <2>3, <2>6
  <2>8. \A j \in n + 1 .. Len(m) : j # at => at < j /\ j \in n + 2 .. Len(m)
    BY <1>3, <2>3, <2>6
  <2>9. \A i \in n + 2 .. Len(m) : DependencyOf(m[i], a, v)
    BY <1>4, <2>3, <2>6, <2>7
  <2>10. ASSUME NEW j \in n + 1 .. Len(m), NEW k \in n + 1 .. Len(m), j < k, j # at, k # at
         PROVE  m[j].ref # m[k].ref
    <3>1. j \in n + 2 .. Len(m) /\ k \in n + 2 .. Len(m)
      BY <2>8, <2>10
    <3>2. j - (n + 1) < k - (n + 1)
      BY <1>3, <2>10, <3>1
    <3> DEFINE x == j - (n + 1)
               y == k - (n + 1)
    <3>3. m[j] = w[x] /\ m[k] = w[y] /\ x \in 1 .. Len(w) /\ y \in 1 .. Len(w) /\ x < y
      BY <2>6, <2>7, <3>1, <3>2
    <3> HIDE DEF x, y
    <3> QED
      BY <2>4, <3>3
  <2>11. at \in n + 1 .. Len(m) /\ m[at] = a /\ n <= Len(m) /\ \A i \in 1 .. n : m[i] = l[i]
    BY <1>3, <2>1, <2>3, <2>6
  <2> HIDE DEF at
  <2>12. With(l, m, a, v, at)
    BY <1>5, <2>6, <2>8, <2>9, <2>10, <2>11 DEF With
  <2> QED
    BY <2>12 DEF m
<1>6. CASE a.type # "uninstall"
  <2> DEFINE w == WithoutRepetitions(l, rel)
             w1 == Append(w, a)
             at == Len(m)
  <2>1. LeftIn(w, l, rel)
    BY <1>3, RepetitionsGo
  <2>2. w \in Seq(Joined) /\ Len(w) \in Nat
    BY <2>1, LenProperties DEF LeftIn
  <2>3. \A k \in 1 .. Len(w) : DependencyOf(w[k], a, v) /\ \A i \in 1 .. n : l[i].ref # w[k].ref
    <3> SUFFICES ASSUME NEW k \in 1 .. Len(w)
                 PROVE  DependencyOf(w[k], a, v) /\ \A i \in 1 .. n : l[i].ref # w[k].ref
      OBVIOUS
    <3> HIDE DEF w
    <3>1. PICK i \in 1 .. Len(rel) :
             w[k] = rel[i] /\ (rel[i].type = "uninstall" \/ \A j \in 1 .. Len(l) : l[j].ref # rel[i].ref)
      BY <2>1 DEF LeftIn
    <3>2. DependencyOf(w[k], a, v) /\ rel[i].type # "uninstall"
      BY <1>4, <1>6, <3>1
    <3> QED
      BY <3>1, <3>2
  <2>4. \A j, k \in 1 .. Len(w) : j < k => w[j].ref # w[k].ref
    BY <1>1, <2>1 DEF LeftIn, RelatedTo
  <2>5. ASSUME Effective(a, v), NEW d \in Wanted(a, v)
        PROVE  (\E k \in 1 .. Len(w) : w[k].ref = d) \/ \E i \in 1 .. n : l[i].ref = d
    <3>1. PICK i \in 1 .. Len(rel) : rel[i].ref = d
      BY <1>1, <2>5 DEF RelatedTo
    <3> QED
      BY <2>1, <3>1 DEF LeftIn
  <2>6. m = l \o w1
    BY <1>2, <1>6
  <2> HIDE DEF w
  <2>7. w1 \in Seq(Joined) /\ Len(w1) = Len(w) + 1 /\ w1[Len(w) + 1] = a /\ \A k \in 1 .. Len(w) : w1[k] = w[k]
    BY <1>3, <2>2, AppendProperties
  <2> HIDE DEF w1
  <2>8. /\ m \in Seq(Joined) /\ Len(m) = n + Len(w) + 1
        /\ \A i \in 1 .. n : m[i] = l[i]
        /\ \A i \in n + 1 .. n + Len(w) : m[i] = w[i - n]
        /\ m[n + Len(w) + 1] = a
    <3>1. /\ m \in Seq(Joined) /\ Len(m) = Len(l) + Len(w1)
          /\ \A i \in 1 .. Len(l) + Len(w1) : m[i] = IF i <= Len(l) THEN l[i] ELSE w1[i - Len(l)]
      <4>1. l \in Seq(Joined) /\ w1 \in Seq(Joined)
        BY <2>7
      <4> HIDE DEF m
      <4> QED
        BY <2>6, <4>1, ConcatProperties
    <3>2. Len(l) = n /\ Len(l) + Len(w1) = n + Len(w) + 1 /\ Len(w1) = Len(w) + 1
      BY <1>3, <2>2, <2>7
    <3>3. \A i \in 1 .. n : i \in 1 .. n + Len(w) + 1 /\ i <= n
      BY <1>3, <2>2
    <3>4. \A i \in n + 1 .. n + Len(w) : i \in 1 .. n + Len(w) + 1 /\ ~(i <= n) /\ i - n \in 1 .. Len(w)
      BY <1>3, <2>2
    <3>5. n + Len(w) + 1 \in 1 .. n + Len(w) + 1 /\ ~(n + Len(w) + 1 <= n) /\ n + Len(w) + 1 - n = Len(w) + 1
      BY <1>3, <2>2
    <3>6. \A i \in 1 .. n : m[i] = l[i]
      BY <3>1, <3>2, <3>3
    <3>7. \A i \in n + 1 .. n + Len(w) : m[i] = w[i - n]
      BY <2>7, <3>1, <3>2, <3>4
    <3>8. m[n + Len(w) + 1] = a
      BY <2>7, <3>1, <3>2, <3>5
    <3> QED
      BY <3>1, <3>2, <3>6, <3>7, <3>8
  <2>9. /\ \A i \in n + 1 .. n + Len(w) : i - n \in 1 .. Len(w)
        /\ \A k \in 1 .. Len(w) : n + k \in n + 1 .. n + Len(w) /\ n + k \in 1 .. Len(m) /\ (n + k) - n = k
        /\ \A j \in n + 1 .. Len(m) : j # at => j < at /\ j \in n + 1 .. n + Len(w)
        /\ at \in n + 1 .. Len(m) /\ n <= Len(m) /\ \A i \in 1 .. n : i \in 1 .. Len(m)
    BY <1>3, <2>2, <2>8
  <2>10. m[at] = a
    BY <2>8
  <2> HIDE DEF at
  <2>11. \A j \in n + 1 .. Len(m) : j # at =>
            DependencyOf(m[j], a, v) /\ j < at /\ \A i \in 1 .. n : l[i].ref # m[j].ref
    BY <2>3, <2>8, <2>9
  <2>12. ASSUME NEW j \in n + 1 .. Len(m), NEW k \in n + 1 .. Len(m), j < k, j # at, k # at
         PROVE  m[j].ref # m[k].ref
    <3>1. j \in n + 1 .. n + Len(w) /\ k \in n + 1 .. n + Len(w)
      BY <2>9, <2>12
    <3>2. j - n < k - n
      BY <1>3, <2>2, <2>12, <3>1
    <3> DEFINE x == j - n
               y == k - n
    <3>3. m[j] = w[x] /\ m[k] = w[y] /\ x \in 1 .. Len(w) /\ y \in 1 .. Len(w) /\ x < y
      BY <2>8, <2>9, <3>1, <3>2
    <3> HIDE DEF x, y
    <3> QED
      BY <2>4, <3>3
  <2>13. ASSUME Effective(a, v), NEW d \in Wanted(a, v)
         PROVE  \E j \in 1 .. Len(m) : m[j].ref = d
    <3>1. CASE \E k \in 1 .. Len(w) : w[k].ref = d
      <4>1. PICK k \in 1 .. Len(w) : w[k].ref = d
        BY <3>1
      <4>2. m[n + k] = w[k] /\ n + k \in 1 .. Len(m)
        BY <2>8, <2>9
      <4> QED
        BY <4>1, <4>2
    <3>2. CASE \E i \in 1 .. n : l[i].ref = d
      BY <2>8, <2>9, <3>2
    <3> QED
      BY <2>5, <2>13, <3>1, <3>2
  <2>14. With(l, m, a, v, at)
    BY <1>6, <2>8, <2>9, <2>10, <2>11, <2>12, <2>13 DEF With
  <2> QED
    BY <2>14 DEF m
<1> QED
  BY <1>5, <1>6

(* A list of actions on different flatpaks of L, in order.                     *)
OneEach(F, L) ==
    /\ F \in Seq(Listed)
    /\ \A j, k \in 1 .. Len(F) : F[j].ref = F[k].ref => j = k
    /\ \A j, k \in 1 .. Len(F) : j < k => F[j].serial <= F[k].serial
    /\ \A k \in 1 .. Len(F) : F[k].ref \in L

From(b, F, k, v) == \E x \in 1 .. k : b = F[x] \/ DependencyOf(b, F[x], v)

Placed(l, i, j, v) ==
    Effective(l[i], v) =>
        IF l[i].type = "uninstall" THEN l[j].ref \in Extensions[l[i].ref] => i < j
        ELSE l[j].ref \in Needs(l[i].ref) => j < i

(* The list as it is after k actions.                                         *)
AllPlaced(l, F, k, v) ==
    /\ l \in Seq(Joined)
    /\ \A i, j \in 1 .. Len(l) : l[i].ref = l[j].ref => i = j
    /\ \A i, j \in 1 .. Len(l) : i < j => l[i].serial <= l[j].serial
    /\ \A i \in 1 .. Len(l) : From(l[i], F, k, v)
    /\ \A i, j \in 1 .. Len(l) : Placed(l, i, j, v)
    /\ \A x \in 1 .. k : F[x].type # "uninstall" /\ Effective(F[x], v) =>
          \A d \in Wanted(F[x], v) : \E j \in 1 .. Len(l) : l[j].ref = d

LEMMA WantedAre == \A a, v : Wanted(a, v) \subseteq Needs(a.ref)
  BY DEF Wanted, Needs

LEMMA ApartFrom ==
  ASSUME NEW F, NEW L, OneEach(F, L), Apart(L), NEW v, NEW k \in Nat, k <= Len(F),
         NEW b, NEW c, From(b, F, k, v), From(c, F, k, v), c.ref \in Needs(b.ref)
  PROVE  \E x, y \in 1 .. k :
            /\ b = F[x] /\ DependencyOf(c, F[y], v)
            /\ c.ref \in Extensions[b.ref] \/ F[y].type = "uninstall" => y = x
<1>1. \A x \in 1 .. k : x \in 1 .. Len(F) /\ F[x].ref \in L
  <2>1. Len(F) \in Nat
    BY LenProperties DEF OneEach
  <2>2. \A x \in 1 .. k : x \in 1 .. Len(F)
    BY <2>1
  <2> QED
    BY <2>2 DEF OneEach
<1>2. PICK x \in 1 .. k : b = F[x] \/ DependencyOf(b, F[x], v)
  BY DEF From
<1>3. PICK y \in 1 .. k : c = F[y] \/ DependencyOf(c, F[y], v)
  BY DEF From
<1>4. F[x].ref \in L /\ F[y].ref \in L
  BY <1>1
<1>5. c.ref \in L \cup Needs(F[y].ref)
  BY <1>3, <1>4, WantedAre DEF DependencyOf
<1>6. b = F[x]
  <2>1. DependencyOf(b, F[x], v) => b.ref \in Needs(F[x].ref)
    BY WantedAre DEF DependencyOf
  <2>2. b.ref \in Needs(F[x].ref) => Needs(b.ref) \cap (L \cup Needs(F[y].ref)) = {}
    BY <1>4 DEF Apart
  <2> QED
    BY <1>2, <1>5, <2>1, <2>2
<1>7. DependencyOf(c, F[y], v)
  <2>1. Needs(F[x].ref) \cap L = {}
    BY <1>4 DEF Apart
  <2>2. c # F[y]
    BY <1>4, <1>6, <2>1
  <2> QED
    BY <1>3, <2>2
<1>8. ASSUME c.ref \in Extensions[b.ref] \/ F[y].type = "uninstall"
      PROVE  y = x
  <2>1. c.ref \in Wanted(F[y], v) /\ c.ref \in Needs(F[y].ref)
    BY <1>7, WantedAre DEF DependencyOf
  <2>2. F[y].type = "uninstall" => c.ref \in Extensions[F[y].ref]
    BY <2>1 DEF Wanted
  <2>3. F[x].ref # F[y].ref => /\ Extensions[F[x].ref] \cap Needs(F[y].ref) = {}
                               /\ Extensions[F[y].ref] \cap Needs(F[x].ref) = {}
    BY <1>4 DEF Apart
  <2>4. F[x].ref = F[y].ref
    BY <1>6, <1>8, <2>1, <2>2, <2>3
  <2> QED
    BY <1>1, <2>4 DEF OneEach
<1> QED
  BY <1>6, <1>7, <1>8

LEMMA StaysInPlace ==
  ASSUME NEW F, NEW L, OneEach(F, L), Apart(L), NEW v \in Installed, NEW k \in Nat, k + 1 <= Len(F),
         NEW l, NEW m, NEW at, AllPlaced(l, F, k, v), With(l, m, F[k + 1], v, at)
  PROVE  AllPlaced(m, F, k + 1, v)
<1> DEFINE a == F[k + 1]
           n == Len(l)
           c == Len(m)
<1>1. /\ n \in Nat /\ c \in Nat /\ n <= c /\ m \in Seq(Joined) /\ Len(F) \in Nat /\ k + 1 \in 1 .. Len(F)
      /\ \A i \in 1 .. c : i \in 1 .. n \/ i \in n + 1 .. c
      /\ at \in n + 1 .. c /\ at \in 1 .. c
  <2>1. l \in Seq(Joined) /\ m \in Seq(Joined) /\ n <= c /\ at \in n + 1 .. c /\ F \in Seq(Listed)
    BY DEF AllPlaced, With, OneEach
  <2>2. n \in Nat /\ c \in Nat /\ Len(F) \in Nat
    BY <2>1, LenProperties
  <2> QED
    BY <2>1, <2>2
<1>2. /\ \A i \in 1 .. n : m[i] = l[i] /\ i \in 1 .. c /\ From(l[i], F, k, v)
      /\ m[at] = a
  <2>1. \A i \in 1 .. n : i \in 1 .. c
    BY <1>1
  <2> QED
    BY <2>1 DEF With, AllPlaced
<1>3. ASSUME NEW j \in n + 1 .. c, j # at
      PROVE  /\ DependencyOf(m[j], a, v)
             /\ a.type = "uninstall" => at < j
             /\ a.type # "uninstall" => j < at /\ \A i \in 1 .. n : l[i].ref # m[j].ref
  BY <1>3 DEF With
<1>4. /\ \A x \in 1 .. Len(F) : F[x].ref \in L /\ F[x] \in Listed /\ F[x].serial \in Int
      /\ \A x \in 1 .. k : x \in 1 .. Len(F) /\ F[x].ref # a.ref /\ F[x].serial <= a.serial
      /\ a.ref \in L
  <2>1. \A x \in 1 .. Len(F) : F[x].ref \in L /\ F[x] \in Listed
    BY ElementOfSeq DEF OneEach
  <2>2. \A x \in 1 .. k : x \in 1 .. Len(F) /\ x < k + 1 /\ x # k + 1
    BY <1>1
  <2>3. \A x \in 1 .. k : F[x].ref # a.ref /\ F[x].serial <= a.serial
    BY <1>1, <2>2 DEF OneEach
  <2> QED
    BY <1>1, <2>1, <2>2, <2>3, SerialsAre
<1> HIDE DEF a, n, c
<1>5. \A i \in 1 .. n : l[i].ref # a.ref /\ l[i].serial \in Int /\ l[i].serial <= a.serial
  <2> SUFFICES ASSUME NEW i \in 1 .. n
               PROVE  l[i].ref # a.ref /\ l[i].serial \in Int /\ l[i].serial <= a.serial
    OBVIOUS
  <2>1. PICK x \in 1 .. k : l[i] = F[x] \/ DependencyOf(l[i], F[x], v)
    BY <1>2 DEF From
  <2>2. DependencyOf(l[i], F[x], v) => l[i].ref \in Needs(F[x].ref) /\ l[i].serial = F[x].serial
    BY WantedAre DEF DependencyOf
  <2>3. Needs(F[x].ref) \cap L = {}
    BY <1>4 DEF Apart
  <2> QED
    BY <1>4, <2>1, <2>2, <2>3
<1>6. \A j \in n + 1 .. c : m[j].serial = a.serial /\ (j # at => m[j].ref # a.ref)
  <2> SUFFICES ASSUME NEW j \in n + 1 .. c, j # at
               PROVE  m[j].serial = a.serial /\ m[j].ref # a.ref
    BY <1>2
  <2>1. m[j].serial = a.serial /\ m[j].ref \in Needs(a.ref)
    BY <1>3, WantedAre DEF DependencyOf
  <2>2. Needs(a.ref) \cap L = {}
    BY <1>4 DEF Apart
  <2> QED
    BY <1>4, <2>1, <2>2
<1>7. \A i \in 1 .. n : \A j \in n + 1 .. c : l[i].ref # m[j].ref
  <2> SUFFICES ASSUME NEW i \in 1 .. n, NEW j \in n + 1 .. c, j # at, a.type = "uninstall"
               PROVE  l[i].ref # m[j].ref
    BY <1>2, <1>3, <1>5
  <2>1. m[j].ref \in Extensions[a.ref]
    BY <1>3 DEF DependencyOf, Wanted
  <2>2. PICK x \in 1 .. k : l[i] = F[x] \/ DependencyOf(l[i], F[x], v)
    BY <1>2 DEF From
  <2>3. DependencyOf(l[i], F[x], v) => l[i].ref \in Needs(F[x].ref)
    BY WantedAre DEF DependencyOf
  <2>4. Extensions[a.ref] \cap Needs(F[x].ref) = {} /\ Needs(a.ref) \cap L = {}
    BY <1>4 DEF Apart
  <2>5. Extensions[a.ref] \subseteq Needs(a.ref)
    BY DEF Needs
  <2> QED
    BY <1>4, <2>1, <2>2, <2>3, <2>4, <2>5
<1>8. \A i, j \in 1 .. c : m[i].ref = m[j].ref => i = j
  <2>1. \A i, j \in 1 .. n : m[i].ref = m[j].ref => i = j
    BY <1>2 DEF AllPlaced, n
  <2>2. \A i, j \in n + 1 .. c : i < j => m[i].ref # m[j].ref
    BY <1>2, <1>6 DEF With, n, c
  <2>3. \A i, j \in n + 1 .. c : m[i].ref = m[j].ref => i = j
    BY <1>1, <2>2
  <2> QED
    BY <1>1, <1>2, <1>7, <2>1, <2>3
<1>9. \A i, j \in 1 .. c : i < j => m[i].serial <= m[j].serial
  <2> SUFFICES ASSUME NEW i \in 1 .. c, NEW j \in 1 .. c, i < j
               PROVE  m[i].serial <= m[j].serial
    OBVIOUS
  <2>1. CASE i \in 1 .. n /\ j \in 1 .. n
    BY <1>2, <2>1 DEF AllPlaced, n
  <2>2. CASE i \in 1 .. n /\ j \in n + 1 .. c
    BY <1>2, <1>5, <1>6, <2>2
  <2>3. CASE i \in n + 1 .. c /\ j \in n + 1 .. c
    BY <1>1, <1>4, <1>6, <2>3 DEF a
  <2>4. ~(i \in n + 1 .. c /\ j \in 1 .. n)
    BY <1>1
  <2> QED
    BY <1>1, <2>1, <2>2, <2>3, <2>4
<1>10. \A i \in 1 .. c : From(m[i], F, k + 1, v)
  <2>1. k + 1 \in 1 .. k + 1 /\ \A x \in 1 .. k : x \in 1 .. k + 1
    OBVIOUS
  <2>2. \A i \in 1 .. n : From(m[i], F, k + 1, v)
    BY <1>2, <2>1 DEF From
  <2>3. \A i \in n + 1 .. c : From(m[i], F, k + 1, v)
    BY <1>2, <1>3, <2>1 DEF From, a
  <2> QED
    BY <1>1, <2>2, <2>3
<1>11. ASSUME NEW i \in 1 .. c, NEW j \in 1 .. c
       PROVE  Placed(m, i, j, v)
  <2> SUFFICES ASSUME Effective(m[i], v), m[j].ref \in Needs(m[i].ref),
                      m[i].type = "uninstall" => m[j].ref \in Extensions[m[i].ref]
               PROVE  IF m[i].type = "uninstall" THEN i < j ELSE j < i
    BY DEF Placed, Needs
  <2>1. PICK x \in 1 .. k + 1, y \in 1 .. k + 1 :
           /\ m[i] = F[x] /\ DependencyOf(m[j], F[y], v)
           /\ m[j].ref \in Extensions[m[i].ref] \/ F[y].type = "uninstall" => y = x
    <3>1. k + 1 \in Nat /\ From(m[i], F, k + 1, v) /\ From(m[j], F, k + 1, v)
      BY <1>10
    <3> QED
      BY <3>1, ApartFrom
  <2>2. x \in 1 .. Len(F) /\ y \in 1 .. Len(F) /\ F[x].ref \in L /\ m[j].ref \in Wanted(F[y], v)
    BY <1>1, <1>4, <2>1 DEF DependencyOf
  <2>3. i # j
    <3>1. Needs(m[i].ref) \cap L = {}
      BY <2>1, <2>2 DEF Apart
    <3> QED
      BY <2>1, <2>2, <3>1
  <2>4. CASE i \in 1 .. n /\ j \in 1 .. n
    <3>1. Placed(l, i, j, v)
      BY <2>4 DEF AllPlaced, n
    <3> QED
      BY <1>2, <2>4, <3>1 DEF Placed
  <2>5. CASE i \in 1 .. n /\ j \in n + 1 .. c
    <3>1. i < j
      BY <1>1, <2>5
    <3>2. m[i].ref # a.ref
      BY <1>2, <1>5, <2>5
    <3>3. x \in 1 .. k
      BY <2>1, <3>2 DEF a
    <3>4. ASSUME m[i].type # "uninstall"
          PROVE  FALSE
      <4>1. j # at
        <5>1. Needs(m[i].ref) \cap L = {}
          BY <2>1, <2>2 DEF Apart
        <5> QED
          BY <1>2, <1>4, <5>1
      <4>2. DependencyOf(m[j], a, v)
        BY <1>3, <2>5, <4>1
      <4>3. a.type # "uninstall"
        <5>1. ASSUME a.type = "uninstall"
              PROVE  FALSE
          <6>1. m[j].ref \in Extensions[a.ref]
            BY <4>2, <5>1 DEF DependencyOf, Wanted
          <6>2. Extensions[a.ref] \cap Needs(F[x].ref) = {}
            BY <1>4, <2>2, <3>3 DEF Apart
          <6> QED
            BY <2>1, <6>1, <6>2
        <5> QED
          BY <5>1
      <4>4. v[m[j].ref] # "new" /\ m[j].ref \in Wanted(F[x], v)
        <5>1. v[m[j].ref] # "new"
          BY <4>2, <4>3 DEF DependencyOf, Wanted
        <5> QED
          BY <2>1, <3>4, <5>1 DEF Wanted
      <4>5. PICK z \in 1 .. n : l[z].ref = m[j].ref
        BY <2>1, <3>3, <3>4, <4>4 DEF AllPlaced, n
      <4> QED
        BY <1>7, <2>5, <4>5
    <3> QED
      BY <3>1, <3>4
  <2>6. CASE i \in n + 1 .. c /\ j \in 1 .. n
    <3>1. j < i
      BY <1>1, <2>6
    <3>2. ASSUME m[i].type = "uninstall"
          PROVE  FALSE
      <4>1. y = x
        BY <2>1, <3>2
      <4>2. PICK z \in 1 .. k : l[j] = F[z] \/ DependencyOf(l[j], F[z], v)
        BY <1>2, <2>6 DEF From
      <4>3. i = at
        <5>1. CASE i # at
          <6>1. m[i].ref \in Needs(a.ref)
            BY <1>3, <2>6, <5>1, WantedAre DEF DependencyOf
          <6>2. Needs(a.ref) \cap L = {}
            BY <1>4 DEF Apart
          <6> QED
            BY <2>1, <2>2, <6>1, <6>2
        <5> QED
          BY <5>1
      <4>4. m[j].ref \in Extensions[a.ref] /\ m[j] = l[j]
        BY <1>2, <2>6, <3>2, <4>3
      <4>5. Extensions[a.ref] \cap Needs(F[z].ref) = {} /\ Needs(a.ref) \cap L = {} /\ F[z].ref \in L
        BY <1>4 DEF Apart
      <4>6. DependencyOf(l[j], F[z], v) => l[j].ref \in Needs(F[z].ref)
        BY WantedAre DEF DependencyOf
      <4>7. Extensions[a.ref] \subseteq Needs(a.ref)
        BY DEF Needs
      <4> QED
        BY <4>2, <4>4, <4>5, <4>6, <4>7
    <3> QED
      BY <3>1, <3>2
  <2>7. CASE i \in n + 1 .. c /\ j \in n + 1 .. c
    <3>1. i = at
      <4>1. CASE i # at
        <5>1. m[i].ref \in Needs(a.ref)
          BY <1>3, <2>7, <4>1, WantedAre DEF DependencyOf
        <5>2. Needs(a.ref) \cap L = {}
          BY <1>4 DEF Apart
        <5> QED
          BY <2>1, <2>2, <5>1, <5>2
      <4> QED
        BY <4>1
    <3> QED
      BY <1>2, <1>3, <2>3, <2>7, <3>1
  <2> QED
    BY <1>1, <2>4, <2>5, <2>6, <2>7
<1>12. ASSUME NEW x \in 1 .. k + 1, F[x].type # "uninstall", Effective(F[x], v), NEW d \in Wanted(F[x], v)
       PROVE  \E j \in 1 .. c : m[j].ref = d
  <2>1. CASE x = k + 1
    BY <1>12, <2>1 DEF With, c
  <2>2. CASE x \in 1 .. k
    <3>1. PICK j \in 1 .. n : l[j].ref = d
      BY <1>12, <2>2 DEF AllPlaced, n
    <3> QED
      BY <1>2, <3>1
  <2> QED
    BY <2>1, <2>2
<1> QED
  BY <1>1, <1>8, <1>9, <1>10, <1>11, <1>12 DEF AllPlaced, c

LEMMA LengthenedAre ==
  ASSUME NEW F \in Seq(Listed), NEW v \in Installed
  PROVE  /\ Lengthened(F, v)[0] = <<>>
         /\ \A k \in 0 .. Len(F) : Lengthened(F, v)[k] \in Seq(Joined)
         /\ \A k \in 1 .. Len(F) : Lengthened(F, v)[k] = WithDependencies(Lengthened(F, v)[k - 1], F[k], v)
<1> DEFINE n == Len(F)
           Q == Seq(Joined)
           next(x, k) == WithDependencies(x, F[k], v)
           step == [x \in (1 .. n) \X Q |-> next(x[2], x[1])]
<1>1. n \in Nat /\ <<>> \in Q
  BY LenProperties, EmptySeq
<1>2. \A k \in 1 .. n : \A x \in Q : next(x, k) \in Q
  <2> SUFFICES ASSUME NEW k \in 1 .. n, NEW x \in Q
               PROVE  next(x, k) \in Q
    OBVIOUS
  <2>1. F[k] \in Listed
    BY ElementOfSeq
  <2>2. \E at : With(x, WithDependencies(x, F[k], v), F[k], v, at)
    BY <2>1, Lengthening
  <2> QED
    BY <2>2 DEF With
<1> HIDE DEF n, next, Q
<1>3. step \in [(1 .. n) \X Q -> Q] /\ \A k \in 1 .. n : \A x \in Q : step[<<k, x>>] = next(x, k)
  BY <1>2
<1> HIDE DEF step
<1>4. Exists(n, Q, <<>>, step)
  BY <1>1, <1>3, Recursion
<1>5. PICK f \in [0 .. n -> Q] : f[0] = <<>> /\ \A k \in 1 .. n : f[k] = step[<<k, f[k - 1]>>]
  BY <1>4 DEF Exists
<1>6. ASSUME NEW k \in 1 .. n
      PROVE  k # 0 /\ k \in 0 .. n /\ f[k] = next(f[k - 1], k)
  <2>1. k # 0 /\ k \in 0 .. n /\ k - 1 \in 0 .. n
    BY <1>1
  <2> QED
    BY <1>3, <1>5, <2>1
<1>7. f = [k \in 0 .. n |-> IF k = 0 THEN <<>> ELSE next(f[k - 1], k)]
  <2>1. \A k \in 0 .. n : k = 0 \/ k \in 1 .. n
    BY <1>1
  <2> QED
    BY <1>5, <1>6, <2>1
<1>8. Lengthened(F, v) = CHOOSE g : g = [k \in 0 .. n |-> IF k = 0 THEN <<>> ELSE next(g[k - 1], k)]
  BY DEF Lengthened, n, next
<1> DEFINE T == Lengthened(F, v)
<1>9. T = [k \in 0 .. n |-> IF k = 0 THEN <<>> ELSE next(T[k - 1], k)]
  BY <1>7, <1>8, Zenon
<1> HIDE DEF T
<1>10. T[0] = <<>> /\ \A k \in 1 .. n : T[k] = next(T[k - 1], k)
  <2>1. 0 \in 0 .. n /\ \A k \in 1 .. n : k # 0 /\ k \in 0 .. n
    BY <1>1
  <2> QED
    BY <1>9, <2>1
<1>11. \A k \in 0 .. n : T[k] \in Q
  <2>1. \A k \in 1 .. n : T[k - 1] \in Q => T[k] \in Q
    BY <1>2, <1>10
  <2>2. T[0] \in Q
    BY <1>1, <1>10
  <2> QED
    BY <1>1, <2>1, <2>2, StaysIn, Zenon
<1> QED
  BY <1>10, <1>11 DEF T, n, next, Q

LEMMA AllJoin ==
  ASSUME NEW F, NEW L, OneEach(F, L), Apart(L), NEW v \in Installed
  PROVE  AllPlaced(Lengthened(F, v)[Len(F)], F, Len(F), v)
<1> DEFINE n == Len(F)
           l(k) == Lengthened(F, v)[k]
           T == {k \in 0 .. n : AllPlaced(l(k), F, k, v)}
<1>1. F \in Seq(Listed) /\ n \in Nat
  BY LenProperties DEF OneEach
<1>2. l(0) = <<>> /\ \A k \in 1 .. n : l(k) = WithDependencies(l(k - 1), F[k], v)
  BY <1>1, LengthenedAre
<1> HIDE DEF l, n
<1>3. AllPlaced(l(0), F, 0, v)
  <2>1. l(0) \in Seq(Joined) /\ Len(l(0)) = 0
    BY <1>2, EmptySeq
  <2>2. \A i \in 1 .. Len(l(0)) : FALSE
    BY <2>1
  <2>3. \A i \in 1 .. 0 : FALSE
    OBVIOUS
  <2> QED
    BY <2>1, <2>2, <2>3 DEF AllPlaced
<1>4. ASSUME NEW k \in 1 .. n, AllPlaced(l(k - 1), F, k - 1, v)
      PROVE  AllPlaced(l(k), F, k, v)
  <2> DEFINE h == k - 1
  <2>1. h \in Nat /\ h + 1 = k /\ h + 1 <= n
    BY <1>1
  <2>2. F[k] \in Listed
    BY <1>1, ElementOfSeq DEF n
  <2>3. l(h) \in Seq(Joined) /\ AllPlaced(l(h), F, h, v)
    BY <1>4 DEF AllPlaced
  <2>4. l(k) = WithDependencies(l(h), F[k], v)
    BY <1>2
  <2>5. PICK at : With(l(h), WithDependencies(l(h), F[k], v), F[k], v, at)
    BY <2>2, <2>3, Lengthening
  <2> HIDE DEF h
  <2>6. With(l(h), l(k), F[h + 1], v, at) /\ h + 1 <= Len(F)
    BY <2>1, <2>4, <2>5 DEF n
  <2>7. AllPlaced(l(k), F, h + 1, v)
    BY <2>1, <2>3, <2>6, StaysInPlace
  <2> QED
    BY <2>1, <2>7
<1>5. 0 \in T
  BY <1>1, <1>3
<1>6. \A k \in 1 .. n : k - 1 \in T => k \in T
  <2> SUFFICES ASSUME NEW k \in 1 .. n, k - 1 \in T
               PROVE  k \in T
    OBVIOUS
  <2>1. AllPlaced(l(k - 1), F, k - 1, v) /\ k \in 0 .. n
    BY <1>1
  <2> QED
    BY <1>4, <2>1
<1> HIDE DEF T
<1>7. \A k \in 0 .. n : k \in T
  BY <1>1, <1>5, <1>6, InductionUpto
<1>8. n \in T
  BY <1>1, <1>7
<1> QED
  BY <1>8 DEF T, l, n

(* The only action on a flatpak remains.                                       *)
LEMMA OneRemains ==
  ASSUME NEW A, NEW l \in Seq(A), NEW i \in 1 .. Len(l), \A k \in 1 .. Len(l) : l[k].ref = l[i].ref => k = i
  PROVE  Remaining(l, l[i].ref) = i
<1> DEFINE r == l[i].ref
           n == Len(l)
           T == {k \in 0 .. n : Latest(l, r)[k] = IF k < i THEN 0 ELSE i}
<1>1. n \in Nat
  BY LenProperties
<1>2. Latest(l, r)[0] = 0 /\ \A k \in 1 .. n : Latest(l, r)[k] = RemainingOfTwo(l, r, Latest(l, r)[k - 1], k)
  BY LatestAre
<1>3. \A k \in 1 .. n : l[k].ref = r <=> k = i
  OBVIOUS
<1> HIDE DEF r, n
<1>4. 0 \in T
  BY <1>1, <1>2 DEF n
<1>5. ASSUME NEW k \in 1 .. n, k - 1 \in T
      PROVE  k \in T
  <2>1. Latest(l, r)[k - 1] = IF k - 1 < i THEN 0 ELSE i
    BY <1>5
  <2>2. Latest(l, r)[k] = IF k = i /\ (Latest(l, r)[k - 1] = 0 \/ TakesOver(l[k], l[Latest(l, r)[k - 1]]))
                          THEN k ELSE Latest(l, r)[k - 1]
    BY <1>2, <1>3 DEF RemainingOfTwo
  <2>3. k \in 0 .. n /\ k - 1 \in Int /\ i \in Int
    BY <1>1 DEF n
  <2>4. CASE k = i
    BY <2>1, <2>2, <2>3, <2>4
  <2>5. CASE k # i
    BY <2>1, <2>2, <2>3, <2>5
  <2> QED
    BY <2>4, <2>5
<1> HIDE DEF T
<1>6. \A k \in 0 .. n : k \in T
  BY <1>1, <1>4, <1>5, InductionUpto
<1>7. n \in T
  BY <1>1, <1>6
<1> QED
  BY <1>1, <1>7 DEF T, r, n, Remaining

(* Actions on different flatpaks all remain.                                   *)
LEMMA AllRemain ==
  ASSUME NEW A, NEW l \in Seq(A), \A i, j \in 1 .. Len(l) : l[i].ref = l[j].ref => i = j
  PROVE  \A i \in 1 .. Len(l) : Remaining(l, l[i].ref) = i
  BY OneRemains

(* Neither an action of the files that is not an uninstallation, nor a           *)
(* dependency that is uninstalled, is less than what has no larger number.      *)
LEMMA NotOvertaken ==
  ASSUME NEW a \in Joined, NEW b \in Joined, a.serial <= b.serial, a.serial - b.serial \in Int32,
         b.dependency <=> b.type = "uninstall"
  PROVE  Le(a, b)
<1>1. a.serial \in Int /\ b.serial \in Int
  BY MaxIntAssumption DEF Joined, Int32
<1>2. Minus32(a.serial, b.serial) = a.serial - b.serial
  <2> DEFINE m == 2 * MAXINT + 2
             d == a.serial - b.serial + MAXINT + 1
  <2>1. m \in Nat /\ m > 0 /\ d \in Nat /\ d < m
    BY <1>1, MaxIntAssumption DEF Int32
  <2>2. d % m = d
    <3> HIDE DEF d, m
    <3> QED
      BY <2>1
  <2>3. Minus32(a.serial, b.serial) = d - MAXINT - 1
    BY <2>2 DEF Minus32
  <2> QED
    BY <1>1, <2>3, MaxIntAssumption
<1>3. CASE a.serial - b.serial # 0 \/ a.dependency = b.dependency
  <2>1. sort_flatpak_remote_ref_actions(a, b) = Order(a.serial - b.serial)
    BY <1>2, <1>3 DEF sort_flatpak_remote_ref_actions
  <2> QED
    BY <1>1, <2>1 DEF Le, Order
<1>4. CASE ~(a.serial - b.serial # 0 \/ a.dependency = b.dependency)
  <2> DEFINE both(types) == a.type \in types /\ b.type \in types
             other == CASE both({"install", "update"}) -> IF a.dependency THEN -1 ELSE 1
                        [] both({"uninstall"}) -> IF a.dependency THEN 1 ELSE -1
                        [] OTHER -> 0
  <2>1. sort_flatpak_remote_ref_actions(a, b) = other
    BY <1>2, <1>4 DEF sort_flatpak_remote_ref_actions
  <2>2. a.dependency \in BOOLEAN /\ b.dependency \in BOOLEAN /\ a.dependency # b.dependency
    BY <1>4 DEF Joined
  <2>3. CASE b.type = "uninstall"
    <3>1. ~both({"install", "update"}) /\ a.dependency = FALSE
      BY <2>2, <2>3
    <3>2. other = IF a.type = "uninstall" THEN -1 ELSE 0
      BY <2>3, <3>1
    <3> QED
      BY <2>1, <3>2 DEF Le
  <2>4. CASE b.type # "uninstall"
    <3>1. ~both({"uninstall"}) /\ a.dependency = TRUE
      BY <2>2, <2>4
    <3>2. other = IF both({"install", "update"}) THEN -1 ELSE 0
      BY <3>1
    <3> QED
      BY <2>1, <3>2 DEF Le
  <2> QED
    BY <2>3, <2>4
<1> QED
  BY <1>3, <1>4

(* Squashing a list whose actions are on different flatpaks, in order, rearranges *)
(* it.                                                                       *)
LEMMA SquashRearranges ==
  ASSUME NEW l \in Seq(Joined), \A i, j \in 1 .. Len(l) : l[i].ref = l[j].ref => i = j
  PROVE  \E u, f, p : /\ u \in Seq(Joined) /\ Enumerates(f, 1 .. Len(l)) /\ Len(u) = Cardinality(1 .. Len(l))
                      /\ \A k \in 1 .. Len(u) : u[k] = l[f[k]]
                      /\ IsRearranged(squash_ref_actions_ptr_array(l), u, p)
                      /\ StaysBehind(u, p)
                      /\ squash_ref_actions_ptr_array(l) \in Seq(Joined)
<1> DEFINE P == {i \in DOMAIN l : Remaining(l, l[i].ref) = i}
           u == Places(l, P)
           q == squash_ref_actions_ptr_array(l)
<1>1. P = 1 .. Len(l)
  <2>1. DOMAIN l = 1 .. Len(l)
    BY LenProperties
  <2>2. \A i \in 1 .. Len(l) : Remaining(l, l[i].ref) = i
    BY AllRemain
  <2> QED
    BY <2>1, <2>2
<1>2. q = g_ptr_array_sort(u)
  BY DEF squash_ref_actions_ptr_array
<1> HIDE DEF P, q
<1>3. u \in Seq(Joined) /\ ArePlaces(l, P, u)
  BY <1>1, PlacesAre
<1> HIDE DEF u
<1>4. q \in Seq(Joined) /\ \E p : IsRearranged(q, u, p) /\ StaysBehind(u, p)
  BY <1>2, <1>3, Sorting DEF StaysPut
<1>5. PICK p : IsRearranged(q, u, p) /\ StaysBehind(u, p)
  BY <1>4
<1>6. PICK f : Enumerates(f, P) /\ \A k \in 1 .. Cardinality(P) : u[k] = l[f[k]]
  BY <1>3 DEF ArePlaces
<1>7. Len(u) = Cardinality(P)
  BY <1>3 DEF ArePlaces
<1>8. Enumerates(f, 1 .. Len(l)) /\ Len(u) = Cardinality(1 .. Len(l)) /\ \A k \in 1 .. Len(u) : u[k] = l[f[k]]
  BY <1>1, <1>6, <1>7
<1>9. u \in Seq(Joined) /\ q \in Seq(Joined)
  BY <1>3, <1>4
<1> QED
  BY <1>5, <1>8, <1>9 DEF q

LEMMA SquashInPlace ==
  ASSUME NEW F, NEW L, OneEach(F, L), Apart(L), NEW v \in Installed, NEW l, AllPlaced(l, F, Len(F), v),
         \A j, k \in 1 .. Len(F) : F[j].serial - F[k].serial \in Int32
  PROVE  InPlace(squash_ref_actions_ptr_array(l), v)
<1> DEFINE n == Len(l)
           q == squash_ref_actions_ptr_array(l)
<1>1. /\ l \in Seq(Joined) /\ F \in Seq(Listed) /\ Len(F) \in Nat /\ n \in Nat
      /\ \A i, j \in 1 .. n : l[i].ref = l[j].ref => i = j
      /\ \A i, j \in 1 .. n : i < j => l[i].serial <= l[j].serial
      /\ \A i \in 1 .. n : From(l[i], F, Len(F), v)
      /\ \A i, j \in 1 .. n : Placed(l, i, j, v)
  BY LenProperties DEF AllPlaced, OneEach
<1>2. PICK u, f, p : /\ u \in Seq(Joined) /\ Enumerates(f, 1 .. n) /\ Len(u) = Cardinality(1 .. n)
                     /\ \A k \in 1 .. Len(u) : u[k] = l[f[k]]
                     /\ IsRearranged(q, u, p) /\ StaysBehind(u, p) /\ q \in Seq(Joined)
  BY <1>1, SquashRearranges
<1> HIDE DEF n, q
<1>3. Cardinality(1 .. n) = n
  BY <1>1, FS_Interval
<1>4. Len(u) = n /\ Len(q) = n /\ DOMAIN q = 1 .. n
  <2>1. DOMAIN q = 1 .. Len(q)
    BY <1>2, LenProperties
  <2> QED
    BY <1>2, <1>3, <2>1 DEF IsRearranged
<1>5. /\ \A k \in 1 .. n : f[k] \in 1 .. n /\ u[k] = l[f[k]] /\ u[k] \in Joined
      /\ \A j, k \in 1 .. n : j < k => f[j] < f[k]
  BY <1>2, <1>3, <1>4, ElementOfSeq DEF Enumerates
<1>6. /\ \A k \in 1 .. n : p[k] \in 1 .. n /\ q[k] = u[p[k]]
      /\ \A j, k \in 1 .. n : p[j] = p[k] => j = k
      /\ \A j, k \in 1 .. n : j < k /\ Unexceeded(u, p[j]) => p[j] < p[k]
  BY <1>2, <1>4 DEF IsRearranged, StaysBehind
<1>7. \A i, j \in 1 .. n : l[i].serial - l[j].serial \in Int32
  <2>1. \A i \in 1 .. n : \E x \in 1 .. Len(F) : l[i].serial = F[x].serial
    BY <1>1 DEF From, DependencyOf
  <2> QED
    BY <2>1
<1>8. ASSUME NEW b \in 1 .. n, u[b].dependency <=> u[b].type = "uninstall"
      PROVE  Unexceeded(u, b)
  <2> SUFFICES ASSUME NEW a \in 1 .. n, a < b
               PROVE  Le(u[a], u[b])
    BY <1>4 DEF Unexceeded
  <2>1. u[a].serial <= u[b].serial /\ u[a].serial - u[b].serial \in Int32
    BY <1>1, <1>5, <1>7
  <2> QED
    BY <1>5, <1>8, <2>1, NotOvertaken
<1> SUFFICES ASSUME NEW i \in 1 .. n, NEW j \in 1 .. n, Effective(q[i], v), q[j].ref \in Needs(q[i].ref),
                    q[i].type = "uninstall" => q[j].ref \in Extensions[q[i].ref]
             PROVE  IF q[i].type = "uninstall" THEN i < j ELSE j < i
  <2>1. InPlace(q, v)
    BY <1>4 DEF InPlace, Effective, Needs
  <2> QED
    BY <2>1 DEF q
<1> DEFINE x == f[p[i]]
           y == f[p[j]]
<1>9. /\ x \in 1 .. n /\ y \in 1 .. n /\ p[i] \in 1 .. n /\ p[j] \in 1 .. n
      /\ q[i] = l[x] /\ q[j] = l[y] /\ u[p[i]] = l[x] /\ u[p[j]] = l[y]
  BY <1>5, <1>6
<1>10. PICK s, t \in 1 .. Len(F) :
          /\ l[x] = F[s] /\ DependencyOf(l[y], F[t], v)
          /\ l[y].ref \in Extensions[l[x].ref] \/ F[t].type = "uninstall" => t = s
  <2>1. From(l[x], F, Len(F), v) /\ From(l[y], F, Len(F), v) /\ l[y].ref \in Needs(l[x].ref) /\ Len(F) <= Len(F)
    BY <1>1, <1>9
  <2> HIDE DEF x, y
  <2> QED
    BY <1>1, <2>1, ApartFrom
<1>11. l[x].dependency = FALSE /\ l[y].dependency = TRUE
  <2>1. F[s] \in Listed
    BY <1>1, ElementOfSeq
  <2> QED
    BY <1>10, <2>1 DEF DependencyOf, Listed
<1>12. l[x].type = "uninstall" <=> l[y].type = "uninstall"
  <2>1. l[y].type = "uninstall" <=> F[t].type = "uninstall"
    BY <1>10 DEF DependencyOf
  <2>2. l[x].type = "uninstall" => l[y].ref \in Extensions[l[x].ref]
    BY <1>9
  <2> QED
    BY <1>10, <2>1, <2>2
<1>13. i # j
  BY <1>9, <1>11
<1>14. IF l[x].type = "uninstall" THEN x < y ELSE y < x
  BY <1>1, <1>9 DEF Placed
<1>15. p[i] < p[j] => x < y
  BY <1>5, <1>9
<1>16. p[j] < p[i] => y < x
  BY <1>5, <1>9
<1> HIDE DEF x, y
<1>17. CASE l[x].type = "uninstall"
  <2>1. Unexceeded(u, p[j])
    BY <1>8, <1>9, <1>11, <1>12, <1>17
  <2>2. ~(p[j] < p[i])
    BY <1>9, <1>14, <1>16, <1>17
  <2>3. ~(j < i)
    BY <1>6, <2>1, <2>2
  <2> QED
    BY <1>9, <1>13, <1>17, <2>3
<1>18. CASE l[x].type # "uninstall"
  <2>1. Unexceeded(u, p[i])
    BY <1>8, <1>9, <1>11, <1>18
  <2>2. ~(p[i] < p[j])
    BY <1>9, <1>14, <1>15, <1>18
  <2>3. ~(i < j)
    BY <1>6, <2>1, <2>2
  <2> QED
    BY <1>9, <1>13, <1>18, <2>3
<1> QED
  BY <1>17, <1>18

LEMMA FlattenedListing ==
  ASSUME Content, Lists.ok, SerialsNear
  PROVE  /\ OneEach(Flattened, {e.ref : e \in Candidates[N]})
         /\ \A j, k \in 1 .. Len(Flattened) : Flattened[j].serial - Flattened[k].serial \in Int32
<1> DEFINE flat == Flattened
           table == Lists.table
           w == Concatenated(table)
           X == InTable(table, N)
<1>1. TableIn(table, N) /\ N \in Directories
  BY LoadedIs DEF Content
<1>2. X \subseteq Listed
  BY DEF InTable
<1>3. w \in Seq(X) /\ w \in Seq(Listed)
  <2>1. w \in Seq(X)
    BY <1>1, ConcatenatedIs
  <2> HIDE DEF w, X
  <2> QED
    BY <1>2, <2>1, SeqMonotonic
<1>4. flat = squash_ref_actions_ptr_array(w)
  BY DEF Flattened, euu_flatten_flatpak_ref_actions_table
<1> HIDE DEF flat, table, w, X
<1>5. flat \in Seq(Listed) /\ \A j, k \in 1 .. Len(flat) : flat[j].ref = flat[k].ref => j = k
  BY <1>3, <1>4, SquashedEffect
<1>6. \A k \in 1 .. Len(w) : w[k] \in X /\ w[k] \in ListedIn(w[k].source, N)
  <2>1. \A k \in 1 .. Len(w) : w[k] \in X
    BY <1>3, ElementOfSeq
  <2> QED
    BY <2>1 DEF X, InTable
<1>7. \A j, k \in 1 .. Len(w) : w[j].serial - w[k].serial \in Int32
  BY <1>1, <1>6, Near
<1>8. PICK g : IsSquashed(w, flat, g) /\ \A j, k \in 1 .. Len(flat) : j < k => flat[j].serial <= flat[k].serial
  BY <1>3, <1>4, <1>7, SquashedIs
<1>9. \A k \in 1 .. Len(flat) : g[k] \in 1 .. Len(w) /\ flat[k] = w[g[k]]
  BY <1>8 DEF IsSquashed
<1>10. \A k \in 1 .. Len(flat) : flat[k].ref \in {e.ref : e \in Candidates[N]}
  BY <1>6, <1>9 DEF ListedIn
<1>11. \A j, k \in 1 .. Len(flat) : flat[j].serial - flat[k].serial \in Int32
  BY <1>7, <1>9
<1> QED
  BY <1>5, <1>8, <1>10, <1>11 DEF OneEach, flat

(* If no difference of serial numbers overflows and dependencies are apart from  *)
(* what is listed, whatever is installed, each dependency is installed and        *)
(* updated before, and uninstalled after, the flatpak that it belongs to          *)
(* (euu_add_dependency_ref_actions_for_installation,                           *)
(* sort_flatpak_remote_ref_actions).                                         *)
THEOREM DependenciesRight ==
  ASSUME SerialsNear, DependenciesApart
  PROVE  ListsSpec => []DependenciesInPlace
<1>1. ASSUME Content, Lists.ok, NEW v \in Installed
      PROVE  InPlace(euu_add_dependency_ref_actions_for_installation(Flattened, v), v)
  <2> DEFINE F == Flattened
             L == {e.ref : e \in Candidates[N]}
  <2>1. Apart(L)
    BY <1>1 DEF Content, DependenciesApart
  <2>2. OneEach(F, L) /\ \A j, k \in 1 .. Len(F) : F[j].serial - F[k].serial \in Int32
    BY <1>1, FlattenedListing
  <2> HIDE DEF F, L
  <2>3. AllPlaced(Lengthened(F, v)[Len(F)], F, Len(F), v)
    BY <2>1, <2>2, AllJoin
  <2>4. InPlace(squash_ref_actions_ptr_array(Lengthened(F, v)[Len(F)]), v)
    BY <2>1, <2>2, <2>3, SquashInPlace
  <2> QED
    BY <2>4 DEF euu_add_dependency_ref_actions_for_installation, F
<1>2. Content => DependenciesInPlace
  BY <1>1 DEF DependenciesInPlace, InPlaceAnywhere, Installed
<1> QED
  BY <1>2, ContentIs, PTL

-----------------------------------------------------------------------------
(* What a list is once the dependencies of its flatpaks have joined it, if no     *)
(* flatpak of the list needs another: dependencies may be shared.               *)

NoneNeeded(L) == \A r \in L : Needs(r) \cap L = {}

LEMMA FromIs ==
  ASSUME NEW F, NEW L, OneEach(F, L), NoneNeeded(L), NEW v, NEW k \in Nat, k <= Len(F), NEW b, From(b, F, k, v)
  PROVE  \E x \in 1 .. k : /\ x \in 1 .. Len(F) /\ F[x] \in Listed /\ F[x].ref \in L
                           /\ b.source = F[x].source /\ b.serial = F[x].serial /\ b.serial \in Int
                           /\ IF b.dependency THEN b.ref \notin L ELSE b = F[x]
<1>1. PICK x \in 1 .. k : b = F[x] \/ DependencyOf(b, F[x], v)
  BY DEF From
<1>2. F \in Seq(Listed) /\ Len(F) \in Nat /\ \A y \in 1 .. Len(F) : F[y] \in Listed /\ F[y].ref \in L
  BY LenProperties, ElementOfSeq DEF OneEach
<1>3. x \in 1 .. Len(F)
  BY <1>2
<1>4. F[x] \in Listed /\ F[x].ref \in L /\ F[x].serial \in Int /\ F[x].dependency = FALSE
  BY <1>2, <1>3, SerialsAre
<1>5. DependencyOf(b, F[x], v) => b.ref \notin L
  BY <1>4, WantedAre DEF DependencyOf, NoneNeeded
<1> QED
  BY <1>1, <1>3, <1>4, <1>5 DEF DependencyOf

(* The list as it is after k actions.                                         *)
AllIn(l, F, k, v) ==
    /\ l \in Seq(Joined)
    /\ \A i \in 1 .. Len(l) : From(l[i], F, k, v)
    /\ \A x \in 1 .. k : \E i \in 1 .. Len(l) : l[i] = F[x]
    /\ \A i, j \in 1 .. Len(l) : ~l[i].dependency /\ l[i].ref = l[j].ref => i = j
    /\ \A i, j \in 1 .. Len(l) : i < j => l[i].serial <= l[j].serial

LEMMA OneJoins ==
  ASSUME NEW F, NEW L, OneEach(F, L), NoneNeeded(L), NEW v \in Installed, NEW k \in Nat, k + 1 <= Len(F),
         NEW l, NEW m, NEW at, AllIn(l, F, k, v), With(l, m, F[k + 1], v, at)
  PROVE  AllIn(m, F, k + 1, v)
<1> DEFINE a == F[k + 1]
           n == Len(l)
           c == Len(m)
<1>1. /\ n \in Nat /\ c \in Nat /\ n <= c /\ m \in Seq(Joined) /\ Len(F) \in Nat /\ k + 1 \in 1 .. Len(F) /\ k <= Len(F)
      /\ \A i \in 1 .. c : i \in 1 .. n \/ i \in n + 1 .. c
      /\ at \in n + 1 .. c /\ at \in 1 .. c
  <2>1. l \in Seq(Joined) /\ m \in Seq(Joined) /\ n <= c /\ at \in n + 1 .. c /\ F \in Seq(Listed)
    BY DEF AllIn, With, OneEach
  <2>2. n \in Nat /\ c \in Nat /\ Len(F) \in Nat
    BY <2>1, LenProperties
  <2> QED
    BY <2>1, <2>2
<1>2. /\ \A i \in 1 .. n : m[i] = l[i] /\ i \in 1 .. c /\ From(l[i], F, k, v)
      /\ m[at] = a
  <2>1. \A i \in 1 .. n : i \in 1 .. c
    BY <1>1
  <2> QED
    BY <2>1 DEF With, AllIn
<1>3. ASSUME NEW j \in n + 1 .. c, j # at
      PROVE  DependencyOf(m[j], a, v)
  BY <1>3 DEF With
<1>4. a \in Listed /\ a.ref \in L /\ a.serial \in Int /\ a.dependency = FALSE
  <2>1. a \in Listed /\ a.ref \in L
    BY <1>1, ElementOfSeq DEF OneEach
  <2> QED
    BY <2>1, SerialsAre
<1> HIDE DEF n, c
<1>5. \A i \in 1 .. n : /\ l[i].ref # a.ref /\ l[i].serial \in Int /\ l[i].serial <= a.serial
                        /\ ~l[i].dependency => l[i].ref \in L
  <2> SUFFICES ASSUME NEW i \in 1 .. n
               PROVE  /\ l[i].ref # a.ref /\ l[i].serial \in Int /\ l[i].serial <= a.serial
                      /\ ~l[i].dependency => l[i].ref \in L
    OBVIOUS
  <2>1. From(l[i], F, k, v)
    BY <1>2
  <2>2. PICK x \in 1 .. k : /\ x \in 1 .. Len(F) /\ F[x] \in Listed /\ F[x].ref \in L
                            /\ l[i].serial = F[x].serial /\ l[i].serial \in Int
                            /\ IF l[i].dependency THEN l[i].ref \notin L ELSE l[i] = F[x]
    <3> DEFINE b == l[i]
    <3>1. From(b, F, k, v)
      BY <2>1
    <3> HIDE DEF b
    <3>2. \E x \in 1 .. k : /\ x \in 1 .. Len(F) /\ F[x] \in Listed /\ F[x].ref \in L
                            /\ b.source = F[x].source /\ b.serial = F[x].serial /\ b.serial \in Int
                            /\ IF b.dependency THEN b.ref \notin L ELSE b = F[x]
      BY <1>1, <3>1, FromIs
    <3> QED
      BY <3>2 DEF b
  <2>3. x < k + 1 /\ x # k + 1
    OBVIOUS
  <2>4. F[x].ref # a.ref /\ F[x].serial <= a.serial
    BY <1>1, <2>2, <2>3 DEF OneEach
  <2> QED
    BY <1>4, <2>2, <2>4
<1>6. ASSUME NEW j \in n + 1 .. c
      PROVE  /\ m[j].serial = a.serial /\ From(m[j], F, k + 1, v)
             /\ j = at => m[j] = a
             /\ j # at => m[j].dependency = TRUE /\ m[j].ref \notin L
  <2>1. CASE j = at
    <3>1. k + 1 \in 1 .. k + 1
      OBVIOUS
    <3> QED
      BY <1>2, <2>1, <3>1 DEF From
  <2>2. CASE j # at
    <3>1. DependencyOf(m[j], a, v)
      BY <1>3, <2>2
    <3>2. m[j].ref \notin L
      BY <1>4, <3>1, WantedAre DEF DependencyOf, NoneNeeded
    <3>3. k + 1 \in 1 .. k + 1
      OBVIOUS
    <3>4. From(m[j], F, k + 1, v)
      BY <3>1, <3>3 DEF From
    <3> QED
      BY <2>2, <3>1, <3>2, <3>4 DEF DependencyOf
  <2> QED
    BY <2>1, <2>2
<1> HIDE DEF a
<1>7. \A i \in 1 .. c : From(m[i], F, k + 1, v)
  <2>1. \A i \in 1 .. n : From(m[i], F, k + 1, v)
    <3>1. \A x \in 1 .. k : x \in 1 .. k + 1
      OBVIOUS
    <3> QED
      BY <1>2, <3>1 DEF From
  <2> QED
    BY <1>1, <1>6, <2>1
<1>8. \A x \in 1 .. k + 1 : \E i \in 1 .. c : m[i] = F[x]
  <2> SUFFICES ASSUME NEW x \in 1 .. k + 1
               PROVE  \E i \in 1 .. c : m[i] = F[x]
    OBVIOUS
  <2>1. CASE x = k + 1
    BY <1>1, <1>2, <2>1 DEF a
  <2>2. CASE x # k + 1
    <3>1. x \in 1 .. k
      BY <2>2
    <3>2. PICK i \in 1 .. n : l[i] = F[x]
      BY <3>1 DEF AllIn, n
    <3> QED
      BY <1>2, <3>2
  <2> QED
    BY <2>1, <2>2
<1>9. ASSUME NEW i \in 1 .. c, NEW j \in 1 .. c, ~m[i].dependency, m[i].ref = m[j].ref
      PROVE  i = j
  <2>1. CASE i \in 1 .. n /\ j \in 1 .. n
    BY <1>2, <1>9, <2>1 DEF AllIn, n
  <2>2. CASE i \in 1 .. n /\ j \in n + 1 .. c
    BY <1>2, <1>5, <1>6, <1>9, <2>2
  <2>3. CASE i \in n + 1 .. c /\ j \in 1 .. n
    <3>1. i = at /\ m[i] = a
      BY <1>6, <1>9, <2>3
    <3> QED
      BY <1>2, <1>5, <1>9, <2>3, <3>1
  <2>4. CASE i \in n + 1 .. c /\ j \in n + 1 .. c
    <3>1. i = at /\ m[i] = a
      BY <1>6, <1>9, <2>4
    <3> QED
      BY <1>4, <1>6, <1>9, <2>4, <3>1
  <2> QED
    BY <1>1, <2>1, <2>2, <2>3, <2>4
<1>10. ASSUME NEW i \in 1 .. c, NEW j \in 1 .. c, i < j
       PROVE  m[i].serial <= m[j].serial
  <2>1. CASE i \in 1 .. n /\ j \in 1 .. n
    BY <1>2, <1>10, <2>1 DEF AllIn, n
  <2>2. CASE i \in 1 .. n /\ j \in n + 1 .. c
    BY <1>2, <1>5, <1>6, <2>2
  <2>3. CASE i \in n + 1 .. c /\ j \in 1 .. n
    BY <1>1, <1>10, <2>3
  <2>4. CASE i \in n + 1 .. c /\ j \in n + 1 .. c
    <3>1. m[i].serial = a.serial /\ m[j].serial = a.serial
      BY <1>6, <2>4
    <3> QED
      BY <1>4, <3>1 DEF a
  <2> QED
    BY <1>1, <2>1, <2>2, <2>3, <2>4
<1> QED
  BY <1>1, <1>7, <1>8, <1>9, <1>10 DEF AllIn, c

LEMMA AllAreIn ==
  ASSUME NEW F, NEW L, OneEach(F, L), NoneNeeded(L), NEW v \in Installed
  PROVE  AllIn(Lengthened(F, v)[Len(F)], F, Len(F), v)
<1> DEFINE n == Len(F)
           l(k) == Lengthened(F, v)[k]
           T == {k \in 0 .. n : AllIn(l(k), F, k, v)}
<1>1. F \in Seq(Listed) /\ n \in Nat
  BY LenProperties DEF OneEach
<1>2. l(0) = <<>> /\ \A k \in 1 .. n : l(k) = WithDependencies(l(k - 1), F[k], v)
  BY <1>1, LengthenedAre
<1> HIDE DEF l, n
<1>3. AllIn(l(0), F, 0, v)
  <2>1. l(0) \in Seq(Joined) /\ Len(l(0)) = 0
    BY <1>2, EmptySeq
  <2>2. \A i \in 1 .. Len(l(0)) : FALSE
    BY <2>1
  <2>3. \A i \in 1 .. 0 : FALSE
    OBVIOUS
  <2> QED
    BY <2>1, <2>2, <2>3 DEF AllIn
<1>4. ASSUME NEW k \in 1 .. n, AllIn(l(k - 1), F, k - 1, v)
      PROVE  AllIn(l(k), F, k, v)
  <2> DEFINE h == k - 1
  <2>1. h \in Nat /\ h + 1 = k /\ h + 1 <= n
    BY <1>1
  <2>2. F[k] \in Listed
    BY <1>1, ElementOfSeq DEF n
  <2>3. l(h) \in Seq(Joined) /\ AllIn(l(h), F, h, v)
    BY <1>4 DEF AllIn
  <2>4. l(k) = WithDependencies(l(h), F[k], v)
    BY <1>2
  <2>5. PICK at : With(l(h), WithDependencies(l(h), F[k], v), F[k], v, at)
    BY <2>2, <2>3, Lengthening
  <2> HIDE DEF h
  <2>6. With(l(h), l(k), F[h + 1], v, at) /\ h + 1 <= Len(F)
    BY <2>1, <2>4, <2>5 DEF n
  <2>7. AllIn(l(k), F, h + 1, v)
    BY <2>1, <2>3, <2>6, OneJoins
  <2> QED
    BY <2>1, <2>7
<1>5. 0 \in T
  BY <1>1, <1>3
<1>6. \A k \in 1 .. n : k - 1 \in T => k \in T
  <2> SUFFICES ASSUME NEW k \in 1 .. n, k - 1 \in T
               PROVE  k \in T
    OBVIOUS
  <2>1. AllIn(l(k - 1), F, k - 1, v) /\ k \in 0 .. n
    BY <1>1
  <2> QED
    BY <1>4, <2>1
<1> HIDE DEF T
<1>7. \A k \in 0 .. n : k \in T
  BY <1>1, <1>5, <1>6, InductionUpto
<1>8. n \in T
  BY <1>1, <1>7
<1> QED
  BY <1>8 DEF T, l, n

LEMMA LessIs ==
  ASSUME NEW a \in Joined, NEW b \in Joined, a.serial < b.serial, a.serial - b.serial \in Int32
  PROVE  Le(a, b)
<1>1. a.serial \in Int /\ b.serial \in Int
  BY MaxIntAssumption DEF Joined, Int32
<1> DEFINE m == 2 * MAXINT + 2
           d == a.serial - b.serial + MAXINT + 1
<1>2. m \in Nat /\ m > 0 /\ d \in Nat /\ d < m
  BY <1>1, MaxIntAssumption DEF Int32
<1>3. d % m = d
  <2> HIDE DEF d, m
  <2> QED
    BY <1>2
<1>4. Minus32(a.serial, b.serial) = d - MAXINT - 1
  BY <1>3 DEF Minus32
<1>5. Minus32(a.serial, b.serial) # 0 /\ Minus32(a.serial, b.serial) < 0
  BY <1>1, <1>4, MaxIntAssumption
<1>6. sort_flatpak_remote_ref_actions(a, b) = -1
  BY <1>5 DEF sort_flatpak_remote_ref_actions, Order
<1> QED
  BY <1>6 DEF Le

(* What was in the order of serial numbers remains so.                         *)
LEMMA OrderRemains ==
  ASSUME NEW u \in Seq(Joined), NEW p, NEW q, IsRearranged(q, u, p), StaysApart(u, p),
         \A i, j \in 1 .. Len(u) : i < j => u[i].serial <= u[j].serial,
         \A i, j \in 1 .. Len(u) : u[i].serial - u[j].serial \in Int32
  PROVE  \A i, j \in 1 .. Len(q) : i < j => q[i].serial <= q[j].serial
<1> DEFINE n == Len(u)
<1>1. n \in Nat /\ Len(q) = n /\ \A i \in 1 .. n : p[i] \in 1 .. n /\ q[i] = u[p[i]] /\ u[i] \in Joined /\ u[i].serial \in Int
  <2>1. \A i \in 1 .. n : u[i] \in Joined
    BY ElementOfSeq
  <2>2. \A a \in Joined : a.serial \in Int
    BY MaxIntAssumption DEF Joined, Int32
  <2> QED
    BY <2>1, <2>2, LenProperties DEF IsRearranged
<1> SUFFICES ASSUME NEW i \in 1 .. n, NEW j \in 1 .. n, i < j, ~(q[i].serial <= q[j].serial)
             PROVE  FALSE
  BY <1>1
<1> HIDE DEF n
<1> DEFINE s == u[p[j]].serial
           B == {b \in 1 .. n : u[b].serial > s}
<1>2. s \in Int /\ p[i] \in B /\ p[j] \in 1 .. n
  BY <1>1
<1>3. PICK b \in B : \A a \in B : b <= a
  <2>1. B \subseteq Nat /\ B # {}
    BY <1>1, <1>2
  <2> HIDE DEF B
  <2> QED
    BY <2>1, Smallest
<1> DEFINE c == b - 1
<1>4. c \in Int /\ b \in 1 .. n /\ u[b].serial > s /\ \A a \in 1 .. n : (a <= c <=> a < b) /\ (c < a <=> b <= a)
  BY <1>1, <1>3
<1>5. \A a \in 1 .. n : a < b => u[a].serial <= s
  <2> SUFFICES ASSUME NEW a \in 1 .. n, a < b, u[a].serial > s
               PROVE  FALSE
    BY <1>1, <1>2
  <2>1. a \in B /\ b <= a
    BY <1>3
  <2> QED
    BY <1>4, <2>1
<1>6. \A a \in 1 .. n : b <= a => u[a].serial > s
  <2> SUFFICES ASSUME NEW a \in 1 .. n, b <= a
               PROVE  u[a].serial > s
    OBVIOUS
  <2>1. u[b].serial <= u[a].serial
    <3>1. CASE a = b
      BY <1>1, <3>1
    <3>2. CASE a # b
      BY <1>4, <3>2 DEF n
    <3> QED
      BY <3>1, <3>2
  <2> QED
    BY <1>1, <1>2, <1>4, <2>1
<1> HIDE DEF c, s, B
<1>7. Unmixed(u, c)
  <2> SUFFICES ASSUME NEW x \in 1 .. n, NEW y \in 1 .. n, x <= c, c < y
               PROVE  Le(u[x], u[y])
    BY DEF Unmixed, n
  <2>1. u[x].serial <= s /\ u[y].serial > s
    BY <1>4, <1>5, <1>6
  <2>2. u[x].serial < u[y].serial /\ u[x].serial - u[y].serial \in Int32
    BY <1>1, <1>2, <2>1 DEF n
  <2> QED
    BY <1>1, <2>2, LessIs
<1>8. p[j] <= c /\ c < p[i]
  <2>1. p[j] < b
    BY <1>1, <1>2, <1>4, <1>6 DEF s
  <2>2. b <= p[i]
    BY <1>2, <1>3
  <2> QED
    BY <1>1, <1>4, <2>1, <2>2
<1> QED
  BY <1>4, <1>7, <1>8 DEF StaysApart, n

Pulled(q, F, v) ==
    /\ q \in Seq(Joined)
    /\ \A i \in 1 .. Len(q) : From(q[i], F, Len(F), v)
    /\ \A x \in 1 .. Len(F) : \E i \in 1 .. Len(q) : q[i] = F[x]
    /\ \A i, j \in 1 .. Len(q) : ~q[i].dependency /\ q[i].ref = q[j].ref => i = j
    /\ \A i, j \in 1 .. Len(q) : i < j => q[i].serial <= q[j].serial

LEMMA PulledIs ==
  ASSUME NEW F, NEW L, OneEach(F, L), NoneNeeded(L), NEW v \in Installed,
         \A j, k \in 1 .. Len(F) : F[j].serial - F[k].serial \in Int32
  PROVE  Pulled(euu_add_dependency_ref_actions_for_installation(F, v), F, v)
<1> DEFINE l == Lengthened(F, v)[Len(F)]
           n == Len(l)
           P == {i \in DOMAIN l : Remaining(l, l[i].ref) = i}
           c == Cardinality(P)
           u == Places(l, P)
           q == euu_add_dependency_ref_actions_for_installation(F, v)
<1>1. AllIn(l, F, Len(F), v) /\ Len(F) \in Nat /\ F \in Seq(Listed)
  BY AllAreIn, LenProperties DEF OneEach
<1>2. q = g_ptr_array_sort(u)
  BY DEF euu_add_dependency_ref_actions_for_installation, squash_ref_actions_ptr_array
<1> HIDE DEF l, q
<1>3. l \in Seq(Joined) /\ n \in Nat /\ DOMAIN l = 1 .. n
  BY <1>1, LenProperties DEF AllIn
<1>4. P \in SUBSET (1 .. n)
  BY <1>3
<1>5. \A i \in 1 .. n : ~l[i].dependency => i \in P
  <2> SUFFICES ASSUME NEW i \in 1 .. n, ~l[i].dependency
               PROVE  Remaining(l, l[i].ref) = i
    BY <1>3
  <2>1. \A k \in 1 .. Len(l) : l[k].ref = l[i].ref => k = i
    BY <1>1 DEF AllIn
  <2> QED
    BY <1>3, <2>1, OneRemains
<1> HIDE DEF P
<1>6. u \in Seq(Joined) /\ ArePlaces(l, P, u)
  BY <1>3, <1>4, PlacesAre
<1> HIDE DEF u
<1>7. PICK f : Enumerates(f, P) /\ \A k \in 1 .. c : u[k] = l[f[k]]
  BY <1>6 DEF ArePlaces
<1>8. Len(u) = c /\ c \in Nat
  BY <1>6 DEF ArePlaces
<1> HIDE DEF c
<1>9. /\ \A k \in 1 .. c : f[k] \in P /\ f[k] \in 1 .. n /\ f[k] \in Int /\ u[k] = l[f[k]]
      /\ \A i \in P : \E k \in 1 .. c : f[k] = i
      /\ \A j, k \in 1 .. c : j < k => f[j] < f[k]
  <2>1. /\ \A k \in 1 .. c : f[k] \in P /\ u[k] = l[f[k]]
        /\ \A i \in P : \E k \in 1 .. c : f[k] = i
        /\ \A j, k \in 1 .. c : j < k => f[j] < f[k]
    BY <1>7 DEF Enumerates, c
  <2>2. \A i \in P : i \in 1 .. n /\ i \in Int
    BY <1>4
  <2> QED
    BY <2>1, <2>2
<1>10. \A j, k \in 1 .. c : f[j] = f[k] => j = k
  <2> SUFFICES ASSUME NEW j \in 1 .. c, NEW k \in 1 .. c, f[j] = f[k]
               PROVE  j = k
    OBVIOUS
  <2>1. ~(f[j] < f[k]) /\ ~(f[k] < f[j])
    BY <1>9
  <2>2. ~(j < k) /\ ~(k < j)
    BY <1>9, <2>1
  <2> QED
    BY <2>2
<1>11. q \in Seq(Joined) /\ \E p : IsRearranged(q, u, p) /\ StaysApart(u, p)
  BY <1>2, <1>6, Sorting DEF StaysPut
<1>12. PICK p : IsRearranged(q, u, p) /\ StaysApart(u, p)
  BY <1>11
<1>13. /\ Len(q) = c /\ \A k \in 1 .. c : p[k] \in 1 .. c /\ q[k] = u[p[k]]
       /\ \A j, k \in 1 .. c : p[j] = p[k] => j = k
       /\ \A j \in 1 .. c : \E k \in 1 .. c : p[k] = j
  <2>1. p \in [1 .. c -> 1 .. c] /\ \A j, k \in 1 .. c : p[j] = p[k] => j = k
    BY <1>8, <1>12 DEF IsRearranged
  <2>2. \A j \in 1 .. c : \E k \in 1 .. c : p[k] = j
    BY <1>8, <1>12, Onto
  <2> QED
    BY <1>8, <1>12, <2>1, <2>2 DEF IsRearranged
<1> DEFINE g(k) == f[p[k]]
<1>14. \A k \in 1 .. c : g(k) \in 1 .. n /\ q[k] = l[g(k)]
  BY <1>9, <1>13
<1>15. \A j, k \in 1 .. c : g(j) = g(k) => j = k
  <2> SUFFICES ASSUME NEW j \in 1 .. c, NEW k \in 1 .. c, f[p[j]] = f[p[k]]
               PROVE  j = k
    OBVIOUS
  <2>1. p[j] \in 1 .. c /\ p[k] \in 1 .. c
    BY <1>13
  <2>2. p[j] = p[k]
    BY <1>10, <2>1
  <2> QED
    BY <1>13, <2>2
<1>16. \A i \in P : \E k \in 1 .. c : g(k) = i
  <2> SUFFICES ASSUME NEW i \in P
               PROVE  \E k \in 1 .. c : g(k) = i
    OBVIOUS
  <2>1. PICK j \in 1 .. c : f[j] = i
    BY <1>9
  <2>2. PICK k \in 1 .. c : p[k] = j
    BY <1>13
  <2> QED
    BY <2>1, <2>2
<1> HIDE DEF g
<1>17. \A i \in 1 .. c : From(q[i], F, Len(F), v)
  BY <1>1, <1>14 DEF AllIn, n
<1>18. \A x \in 1 .. Len(F) : \E i \in 1 .. c : q[i] = F[x]
  <2> SUFFICES ASSUME NEW x \in 1 .. Len(F)
               PROVE  \E i \in 1 .. c : q[i] = F[x]
    OBVIOUS
  <2>1. PICK i \in 1 .. n : l[i] = F[x]
    BY <1>1 DEF AllIn, n
  <2>2. ~l[i].dependency
    <3>1. F[x] \in Listed
      BY <1>1, ElementOfSeq
    <3> QED
      BY <2>1, <3>1, SerialsAre
  <2>3. PICK k \in 1 .. c : g(k) = i
    BY <1>5, <1>16, <2>2
  <2> QED
    BY <1>14, <2>1, <2>3
<1>19. \A i, j \in 1 .. c : ~q[i].dependency /\ q[i].ref = q[j].ref => i = j
  <2> SUFFICES ASSUME NEW i \in 1 .. c, NEW j \in 1 .. c, ~q[i].dependency, q[i].ref = q[j].ref
               PROVE  i = j
    OBVIOUS
  <2>1. g(i) = g(j)
    BY <1>1, <1>14 DEF AllIn, n
  <2> QED
    BY <1>15, <2>1
<1>20. \A i, j \in 1 .. c : i < j => u[i].serial <= u[j].serial
  <2> SUFFICES ASSUME NEW i \in 1 .. c, NEW j \in 1 .. c, i < j
               PROVE  u[i].serial <= u[j].serial
    OBVIOUS
  <2>1. f[i] < f[j]
    BY <1>9
  <2> QED
    BY <1>1, <1>9, <2>1 DEF AllIn, n
<1>21. \A i, j \in 1 .. c : u[i].serial - u[j].serial \in Int32
  <2>1. \A i \in 1 .. n : \E x \in 1 .. Len(F) : l[i].serial = F[x].serial
    <3>1. \A i \in 1 .. n : From(l[i], F, Len(F), v)
      BY <1>1 DEF AllIn, n
    <3> QED
      BY <3>1 DEF From, DependencyOf
  <2> SUFFICES ASSUME NEW i \in 1 .. c, NEW j \in 1 .. c
               PROVE  u[i].serial - u[j].serial \in Int32
    OBVIOUS
  <2>2. PICK x \in 1 .. Len(F) : u[i].serial = F[x].serial
    BY <1>9, <2>1
  <2>3. PICK y \in 1 .. Len(F) : u[j].serial = F[y].serial
    BY <1>9, <2>1
  <2> QED
    BY <2>2, <2>3
<1>22. \A i, j \in 1 .. c : i < j => q[i].serial <= q[j].serial
  BY <1>6, <1>8, <1>12, <1>13, <1>20, <1>21, OrderRemains
<1>23. Pulled(q, F, v)
  BY <1>11, <1>13, <1>17, <1>18, <1>19, <1>22 DEF Pulled
<1> QED
  BY <1>23 DEF q

-----------------------------------------------------------------------------
(* What the actions of a file make of a flatpak, as a set: the one with the      *)
(* largest serial number that is not an update decides, updates only if there   *)
(* is no other.                                                              *)

Of(A, r) == {a \in A : a.ref = r}
Decisive(A, r) == {a \in A : a.ref = r /\ a.type # "update"}
IsLast(A, r, a) == a \in Decisive(A, r) /\ \A b \in Decisive(A, r) : b.serial <= a.serial
MadeBy(a) == IF a.type = "install" THEN "new" ELSE "absent"
Updated(x) == IF x = "absent" THEN "absent" ELSE "new"

Makes(A, r, x, y) ==
    \/ Of(A, r) = {} /\ y = x
    \/ Of(A, r) # {} /\ Decisive(A, r) = {} /\ y = Updated(x)
    \/ \E a \in A : IsLast(A, r, a) /\ y = MadeBy(a)

(* A set of actions as a file has them.                                      *)
Actionable(A) == A \subseteq Listed /\ \A a, b \in A : a.serial = b.serial => a = b

LEMMA Performs ==
  ASSUME NEW a \in Listed, NEW x
  PROVE  Performed(a, x) = IF a.type = "update" THEN Updated(x) ELSE MadeBy(a)
  BY DEF Performed, Listed, Type, Updated, MadeBy

LEMMA MakesOne ==
  ASSUME NEW A, Actionable(A), NEW r, NEW x, NEW y, NEW z, Makes(A, r, x, y), Makes(A, r, x, z)
  PROVE  y = z
<1>1. \A a \in A : a.serial \in Int
  BY SerialsAre DEF Actionable
<1>2. ASSUME NEW a, NEW b, IsLast(A, r, a), IsLast(A, r, b)
      PROVE  a = b
  BY <1>1, <1>2 DEF IsLast, Decisive, Actionable
<1>3. \A a : IsLast(A, r, a) => Of(A, r) # {} /\ Decisive(A, r) # {}
  BY DEF IsLast, Decisive, Of
<1> QED
  BY <1>2, <1>3 DEF Makes

(* One more action, later than all others.                                    *)
LEMMA MakesMore ==
  ASSUME NEW A, Actionable(A), NEW a \in Listed, \A b \in A : b.serial < a.serial,
         NEW r, NEW x, NEW y, x \in Version, Makes(A, r, x, y)
  PROVE  Makes(A \cup {a}, r, x, IF a.ref = r THEN Performed(a, y) ELSE y)
<1> DEFINE B == A \cup {a}
<1>1. \A b \in B : b.serial \in Int /\ b.serial <= a.serial
  BY SerialsAre DEF Actionable
<1>2. CASE a.ref # r
  <2>1. Of(B, r) = Of(A, r) /\ Decisive(B, r) = Decisive(A, r)
    BY <1>2 DEF Of, Decisive
  <2> QED
    BY <1>2, <2>1 DEF Makes, IsLast
<1>3. CASE a.ref = r /\ a.type # "update"
  <2>1. IsLast(B, r, a)
    BY <1>1, <1>3 DEF IsLast, Decisive
  <2>2. Performed(a, y) = MadeBy(a)
    BY <1>3, Performs
  <2> QED
    BY <1>3, <2>1, <2>2 DEF Makes
<1>4. CASE a.ref = r /\ a.type = "update"
  <2>1. Decisive(B, r) = Decisive(A, r) /\ Of(B, r) # {} /\ Performed(a, y) = Updated(y)
    BY <1>4, Performs DEF Of, Decisive
  <2>2. CASE Of(A, r) = {} /\ y = x
    <3>1. Decisive(A, r) = {}
      BY <2>2 DEF Of, Decisive
    <3> QED
      BY <1>4, <2>1, <2>2, <3>1 DEF Makes
  <2>3. CASE Decisive(A, r) = {} /\ y = Updated(x)
    <3>1. Updated(y) = Updated(x)
      BY <2>3 DEF Updated
    <3> QED
      BY <1>4, <2>1, <2>3, <3>1 DEF Makes
  <2>4. CASE \E b \in A : IsLast(A, r, b) /\ y = MadeBy(b)
    <3>1. PICK b \in A : IsLast(A, r, b) /\ y = MadeBy(b)
      BY <2>4
    <3>2. IsLast(B, r, b) /\ Updated(y) = y
      BY <2>1, <3>1 DEF IsLast, Updated, MadeBy
    <3> QED
      BY <1>4, <2>1, <3>1, <3>2 DEF Makes
  <2> QED
    BY <2>2, <2>3, <2>4 DEF Makes
<1> QED
  BY <1>2, <1>3, <1>4

(* The actions beyond a serial number.                                       *)
IsBeyond(B, A) == B \subseteq A /\ \A a \in A, b \in B : b.serial <= a.serial => a \in B

LEMMA StillLast ==
  ASSUME NEW A, Actionable(A), NEW B, IsBeyond(B, A), NEW r, Decisive(B, r) # {}, NEW o, NEW t, Makes(A, r, o, t)
  PROVE  \E a \in B : IsLast(B, r, a) /\ t = MadeBy(a)
<1>1. Of(A, r) # {} /\ Decisive(A, r) # {}
  BY DEF IsBeyond, Of, Decisive
<1>2. PICK a \in A : IsLast(A, r, a) /\ t = MadeBy(a)
  BY <1>1 DEF Makes
<1>3. PICK b \in B : b \in Decisive(B, r)
  BY DEF Decisive
<1>4. b \in Decisive(A, r) /\ b.serial <= a.serial
  BY <1>2, <1>3 DEF IsBeyond, IsLast, Decisive
<1>5. a \in B
  BY <1>3, <1>4 DEF IsBeyond
<1>6. IsLast(B, r, a)
  BY <1>2, <1>5 DEF IsBeyond, IsLast, Decisive
<1> QED
  BY <1>2, <1>5, <1>6

(* What is as all actions make it stays so under those beyond.                  *)
LEMMA Settled ==
  ASSUME NEW A, Actionable(A), NEW B, IsBeyond(B, A), NEW r, NEW o, NEW t, Makes(A, r, o, t)
  PROVE  Makes(B, r, t, t)
<1>1. CASE Of(B, r) = {}
  BY <1>1 DEF Makes
<1>2. CASE Of(B, r) # {} /\ Decisive(B, r) = {}
  <2>1. Of(A, r) # {}
    BY <1>2 DEF IsBeyond, Of
  <2>2. Updated(t) = t
    BY <2>1 DEF Makes, Updated, MadeBy
  <2> QED
    BY <1>2, <2>2 DEF Makes
<1>3. CASE Decisive(B, r) # {}
  BY <1>3, StillLast DEF Makes
<1> QED
  BY <1>1, <1>2, <1>3

(* If one of those beyond makes what all actions made, so do those together.    *)
LEMMA Reaches ==
  ASSUME NEW A, Actionable(A), NEW B, IsBeyond(B, A), NEW r, NEW o, NEW t, Makes(A, r, o, t),
         NEW c \in B, c.ref = r, NEW x, Performed(c, x) = t
  PROVE  Makes(B, r, x, t)
<1>1. Of(B, r) # {} /\ c \in Listed
  BY DEF Of, IsBeyond, Actionable
<1>2. CASE Decisive(B, r) = {}
  <2>1. c.type = "update"
    BY <1>2 DEF Decisive
  <2> QED
    BY <1>1, <1>2, <2>1, Performs DEF Makes
<1>3. CASE Decisive(B, r) # {}
  <2>1. \E a \in B : IsLast(B, r, a) /\ t = MadeBy(a)
    BY <1>3, StillLast
  <2> QED
    BY <2>1 DEF Makes
<1> QED
  BY <1>2, <1>3

-----------------------------------------------------------------------------
(* A list in the order of serial numbers makes what its actions make as a set.  *)

Elements(s) == {s[i] : i \in 1 .. Len(s)}

LEMMA ListMakes ==
  ASSUME NEW s \in Seq(Listed), Increasing(s), NEW v \in Installed, NEW r \in Ref
  PROVE  Makes(Elements(s), r, v[r], Effect(s, v)[r])
<1> DEFINE n == Len(s)
           S == States(s, v)
           First(k) == {s[i] : i \in 1 .. k}
           U == {k \in 0 .. n : Makes(First(k), r, v[r], S[k][r])}
<1>1. n \in Nat /\ n \in 0 .. n /\ \A k \in 1 .. n : s[k] \in Listed
  BY LenProperties, ElementOfSeq
<1>2. /\ S[0] = v /\ \A k \in 0 .. n : S[k] \in Installed
      /\ \A k \in 1 .. n : S[k] = StateAfter(S[k - 1], s[k])
  BY StatesAre
<1>3. v[r] \in Version
  BY DEF Installed
<1>4. \A j, k \in 1 .. n : j < k => s[j].serial < s[k].serial
  BY DEF Increasing
<1> HIDE DEF n, S
<1>5. 0 \in U
  <2>1. First(0) = {} /\ 0 \in 0 .. n
    BY <1>1
  <2> QED
    BY <1>2, <2>1 DEF Makes, Of
<1>6. ASSUME NEW k \in 1 .. n, k - 1 \in U
      PROVE  k \in U
  <2>1. k \in 0 .. n /\ k - 1 \in 0 .. n /\ s[k] \in Listed /\ \A i \in 1 .. k - 1 : i \in 1 .. n /\ i < k
    BY <1>1
  <2>2. First(k) = First(k - 1) \cup {s[k]}
    <3>1. \A i \in 1 .. k : i \in 1 .. k - 1 \/ i = k
      BY <1>1
    <3>2. \A i \in 1 .. k - 1 : i \in 1 .. k
      BY <1>1
    <3> QED
      BY <3>1, <3>2, <2>1
  <2>3. Actionable(First(k - 1))
    <3>1. First(k - 1) \subseteq Listed
      BY <1>1, <2>1
    <3>2. ASSUME NEW i \in 1 .. k - 1, NEW j \in 1 .. k - 1, s[i].serial = s[j].serial
          PROVE  i = j
      <4>1. ~(i < j) /\ ~(j < i)
        <5>1. s[i].serial \in Int /\ s[j].serial \in Int
          BY <1>1, <2>1, SerialsAre
        <5> QED
          BY <1>4, <2>1, <3>2, <5>1
      <4> QED
        BY <4>1
    <3> QED
      BY <3>1, <3>2 DEF Actionable
  <2>4. \A b \in First(k - 1) : b.serial < s[k].serial
    BY <1>4, <2>1
  <2>5. S[k][r] = IF s[k].ref = r THEN Performed(s[k], S[k - 1][r]) ELSE S[k - 1][r]
    <3>1. S[k - 1] \in Installed /\ S[k] = StateAfter(S[k - 1], s[k]) /\ s[k].ref \in Ref
      BY <1>2, <2>1 DEF Listed
    <3> QED
      BY <3>1 DEF StateAfter, Installed
  <2>6. Makes(First(k - 1), r, v[r], S[k - 1][r])
    BY <1>6
  <2> HIDE DEF First
  <2> DEFINE A == First(k - 1)
             x == v[r]
             y == S[k - 1][r]
  <2> HIDE DEF A, x, y
  <2>8. Makes(A \cup {s[k]}, r, x, IF s[k].ref = r THEN Performed(s[k], y) ELSE y)
    <3>1. Actionable(A) /\ s[k] \in Listed /\ (\A b \in A : b.serial < s[k].serial) /\ x \in Version /\ Makes(A, r, x, y)
      BY <1>3, <2>1, <2>3, <2>4, <2>6 DEF A, x, y
    <3> QED
      BY <3>1, MakesMore
  <2>7. Makes(First(k - 1) \cup {s[k]}, r, v[r], S[k][r])
    BY <2>5, <2>8 DEF A, x, y
  <2> QED
    BY <2>1, <2>2, <2>7
<1>7. \A k \in 0 .. n : k \in U
  <2> HIDE DEF U
  <2> QED
    BY <1>1, <1>5, <1>6, InductionUpto
<1>8. Makes(First(n), r, v[r], S[n][r])
  BY <1>1, <1>7
<1> QED
  BY <1>8 DEF Elements, Effect, n, S

LEMMA ElementsAre ==
  ASSUME NEW s \in Seq(Listed), Increasing(s)
  PROVE  Actionable(Elements(s))
<1>1. Len(s) \in Nat /\ \A k \in 1 .. Len(s) : s[k] \in Listed
  BY LenProperties, ElementOfSeq
<1>2. ASSUME NEW i \in 1 .. Len(s), NEW j \in 1 .. Len(s), s[i].serial = s[j].serial
      PROVE  i = j
  <2>1. s[i].serial \in Int /\ s[j].serial \in Int
    BY <1>1, SerialsAre
  <2>2. ~(i < j) /\ ~(j < i)
    BY <1>2, <2>1 DEF Increasing
  <2> QED
    BY <1>1, <2>2
<1> QED
  BY <1>1, <1>2 DEF Actionable, Elements

-----------------------------------------------------------------------------
(* Squashing, on sets.                                                        *)

Chosen(s, r, k, l) ==
    /\ l \in 0 .. k
    /\ l # 0 => s[l].ref = r
    /\ l = 0 => \A i \in 1 .. k : s[i].ref # r
    /\ l # 0 /\ s[l].type = "update" => \A i \in 1 .. k : s[i].ref = r => s[i].type = "update"
    /\ l # 0 /\ s[l].type # "update" => \A i \in 1 .. k : s[i].ref = r /\ s[i].type # "update" => i <= l

LEMMA ChosenNext ==
  ASSUME NEW s, NEW r, NEW k \in Nat, k # 0, NEW l, Chosen(s, r, k - 1, l), \A i \in 1 .. k : s[i] \in Listed
  PROVE  Chosen(s, r, k, RemainingOfTwo(s, r, l, k))
<1> DEFINE m == RemainingOfTwo(s, r, l, k)
<1>1. k \in 1 .. k /\ (\A i \in 1 .. k : i \in 1 .. k - 1 \/ i = k) /\ \A i \in 1 .. k : i <= k
  OBVIOUS
<1>2. l \in 0 .. k - 1 /\ l \in 0 .. k /\ k \in 0 .. k /\ l <= k
  BY DEF Chosen
<1>3. CASE s[k].ref # r
  <2>1. m = l
    BY <1>3 DEF RemainingOfTwo
  <2> QED
    BY <1>1, <1>2, <1>3, <2>1 DEF Chosen
<1>4. CASE s[k].ref = r /\ l = 0
  <2>1. m = k
    BY <1>4 DEF RemainingOfTwo
  <2>2. \A i \in 1 .. k : s[i].ref = r => i = k
    BY <1>1, <1>4 DEF Chosen
  <2> QED
    BY <1>1, <1>2, <1>4, <2>1, <2>2 DEF Chosen
<1>5. CASE s[k].ref = r /\ l # 0 /\ TakesOver(s[k], s[l])
  <2>1. m = k
    BY <1>5 DEF RemainingOfTwo
  <2>2. s[k].type = "update" => \A i \in 1 .. k : s[i].ref = r => s[i].type = "update"
    BY <1>1, <1>5 DEF Chosen, TakesOver
  <2> QED
    BY <1>1, <1>2, <1>5, <2>1, <2>2 DEF Chosen
<1>6. CASE s[k].ref = r /\ l # 0 /\ ~TakesOver(s[k], s[l])
  <2>1. m = l
    BY <1>6 DEF RemainingOfTwo
  <2>2. s[k].type = "update" /\ s[l].type # "update"
    BY <1>1, <1>6 DEF TakesOver, Listed, Type
  <2>3. \A i \in 1 .. k : s[i].ref = r /\ s[i].type # "update" => i <= l
    BY <1>1, <1>6, <2>2 DEF Chosen
  <2> QED
    BY <1>2, <1>6, <2>1, <2>2, <2>3 DEF Chosen
<1> QED
  BY <1>3, <1>4, <1>5, <1>6

LEMMA RemainingIs ==
  ASSUME NEW s \in Seq(Listed), NEW r
  PROVE  Chosen(s, r, Len(s), Remaining(s, r))
<1> DEFINE n == Len(s)
           L == Latest(s, r)
           U == {k \in 0 .. n : Chosen(s, r, k, L[k])}
<1>1. n \in Nat /\ n \in 0 .. n /\ \A k \in 1 .. n : s[k] \in Listed
  BY LenProperties, ElementOfSeq
<1>2. L[0] = 0 /\ \A k \in 1 .. n : L[k] = RemainingOfTwo(s, r, L[k - 1], k)
  BY LatestAre
<1> HIDE DEF n, L
<1>3. 0 \in U
  BY <1>1, <1>2 DEF Chosen
<1>4. ASSUME NEW k \in 1 .. n, k - 1 \in U
      PROVE  k \in U
  <2>1. k \in Nat /\ k # 0 /\ k \in 0 .. n /\ \A i \in 1 .. k : s[i] \in Listed
    BY <1>1
  <2>2. Chosen(s, r, k - 1, L[k - 1])
    BY <1>4
  <2>3. Chosen(s, r, k, RemainingOfTwo(s, r, L[k - 1], k))
    BY <2>1, <2>2, ChosenNext
  <2> QED
    BY <1>2, <2>1, <2>3
<1>5. \A k \in 0 .. n : k \in U
  <2> HIDE DEF U
  <2> QED
    BY <1>1, <1>3, <1>4, InductionUpto
<1> QED
  BY <1>1, <1>5 DEF Remaining, n, L

(* The action that remains for its flatpak.                                   *)
Stays(A, b) ==
    b \in A /\ IF b.type = "update" THEN Decisive(A, b.ref) = {} ELSE IsLast(A, b.ref, b)

LEMMA StaysMakes ==
  ASSUME NEW A, Actionable(A), NEW b, Stays(A, b), NEW x
  PROVE  Makes(A, b.ref, x, Performed(b, x))
<1>1. b \in Listed /\ b \in Of(A, b.ref)
  BY DEF Stays, Actionable, Of
<1> QED
  BY <1>1, Performs DEF Stays, Makes

Squashes(A, q) ==
    /\ q \in Seq(Listed)
    /\ \A i \in 1 .. Len(q) : Stays(A, q[i])
    /\ \A a \in A : \E i \in 1 .. Len(q) : q[i].ref = a.ref
    /\ \A i, j \in 1 .. Len(q) : q[i].ref = q[j].ref => i = j

LEMMA SquashingList ==
  ASSUME NEW s \in Seq(Listed), Increasing(s)
  PROVE  Squashes(Elements(s), squash_ref_actions_ptr_array(s))
<1> DEFINE q == squash_ref_actions_ptr_array(s)
           A == Elements(s)
           n == Len(s)
<1>1. n \in Nat /\ \A k \in 1 .. n : s[k] \in Listed
  BY LenProperties, ElementOfSeq
<1>2. q \in Seq(Listed) /\ \E g : IsSquashed(s, q, g)
  BY SquashedIs
<1>3. \A i, j \in 1 .. Len(q) : q[i].ref = q[j].ref => i = j
  BY SquashedEffect
<1>4. DOMAIN s = 1 .. n
  BY LenProperties
<1> HIDE DEF q
<1>5. PICK g : IsSquashed(s, q, g)
  BY <1>2
<1>6. \A r : Chosen(s, r, n, Remaining(s, r))
  BY RemainingIs
<1>7. \A i, j \in 1 .. n : i <= j => s[i].serial <= s[j].serial
  <2>1. \A i, j \in 1 .. n : i < j => s[i].serial < s[j].serial
    BY DEF Increasing
  <2>2. \A i \in 1 .. n : s[i].serial \in Int
    BY <1>1, SerialsAre
  <2>3. \A i, j \in 1 .. n : i <= j => i < j \/ i = j
    BY <1>1
  <2> QED
    BY <2>1, <2>2, <2>3
<1>8. ASSUME NEW k \in 1 .. Len(q)
      PROVE  Stays(A, q[k])
  <2> DEFINE l == g[k]
             r == q[k].ref
  <2>1. l \in 1 .. n /\ q[k] = s[l] /\ Remaining(s, r) = l /\ l # 0
    BY <1>1, <1>5 DEF IsSquashed
  <2>2. Chosen(s, r, n, l)
    BY <1>6, <2>1
  <2>3. q[k] \in A
    BY <2>1 DEF Elements
  <2>4. CASE s[l].type = "update"
    <3>1. \A i \in 1 .. n : s[i].ref = r => s[i].type = "update"
      BY <2>1, <2>2, <2>4 DEF Chosen
    <3>2. Decisive(A, r) = {}
      BY <3>1 DEF Decisive, Elements
    <3> QED
      BY <2>1, <2>3, <2>4, <3>2 DEF Stays
  <2>5. CASE s[l].type # "update"
    <3>1. \A i \in 1 .. n : s[i].ref = r /\ s[i].type # "update" => i <= l
      BY <2>1, <2>2, <2>5 DEF Chosen
    <3>2. \A b \in Decisive(A, r) : b.serial <= s[l].serial
      BY <1>7, <2>1, <3>1 DEF Decisive, Elements
    <3>3. IsLast(A, r, s[l])
      BY <2>1, <2>3, <2>5, <3>2 DEF IsLast, Decisive
    <3> QED
      BY <2>1, <2>3, <2>5, <3>3 DEF Stays
  <2> QED
    BY <2>4, <2>5
<1>9. ASSUME NEW a \in A
      PROVE  \E k \in 1 .. Len(q) : q[k].ref = a.ref
  <2> DEFINE l == Remaining(s, a.ref)
  <2>1. Chosen(s, a.ref, n, l)
    BY <1>6
  <2>2. l \in 1 .. n /\ s[l].ref = a.ref
    BY <1>1, <2>1 DEF Chosen, Elements
  <2>3. l \in Remains(s)
    BY <1>4, <2>2 DEF Remains
  <2>4. PICK k \in 1 .. Len(q) : g[k] = l
    BY <1>5, <2>3 DEF IsSquashed
  <2>5. q[k] = s[l]
    BY <1>5, <2>4 DEF IsSquashed
  <2> QED
    BY <2>2, <2>5
<1> QED
  BY <1>2, <1>3, <1>8, <1>9 DEF Squashes, q

-----------------------------------------------------------------------------
(* Joining the lists of all files.                                            *)

Joins(g, seqs, X) ==
    /\ g \in [0 .. Len(seqs) -> Seq(X)] /\ g[0] = <<>>
    /\ \A k \in 1 .. Len(seqs) : g[k] = g[k - 1] \o seqs[k]
    /\ FlattenSeq(seqs) = g[Len(seqs)]

LEMMA Joining ==
  ASSUME NEW X, NEW seqs \in Seq(Seq(X))
  PROVE  \E g : Joins(g, seqs, X)
<1> DEFINE n == Len(seqs)
           S == Seq(X)
           step == [x \in (1 .. n) \X S |-> x[2] \o seqs[x[1]]]
<1>1. n \in Nat /\ \A k \in 1 .. n : seqs[k] \in S
  <2>1. n \in Nat
    BY LenProperties
  <2>2. seqs \in Seq(S)
    OBVIOUS
  <2> HIDE DEF S
  <2> QED
    BY <2>1, <2>2, ElementOfSeq
<1>2. <<>> \in S
  BY EmptySeq
<1>3. \A k \in 1 .. n : \A x \in S : x \o seqs[k] \in S /\ <<>> \o seqs[k] = seqs[k]
  BY <1>1, ConcatProperties, ConcatEmptySeq
<1> HIDE DEF n, S
<1>4. step \in [(1 .. n) \X S -> S] /\ \A k \in 1 .. n : \A x \in S : step[<<k, x>>] = x \o seqs[k]
  BY <1>3
<1> HIDE DEF step
<1>5. Exists(n, S, <<>>, step)
  BY <1>1, <1>2, <1>4, Recursion
<1>6. PICK g \in [0 .. n -> S] : g[0] = <<>> /\ \A k \in 1 .. n : g[k] = step[<<k, g[k - 1]>>]
  BY <1>5 DEF Exists
<1>7. \A k \in 1 .. n : g[k] = g[k - 1] \o seqs[k] /\ g[k] \in S
  <2>1. \A k \in 1 .. n : k \in 0 .. n /\ k - 1 \in 0 .. n
    BY <1>1
  <2> QED
    BY <1>4, <1>6, <2>1
<1>8. FlattenSeq(seqs) = g[n]
  <2>1. CASE n = 0
    <3>1. FlattenSeq(seqs) = seqs
      BY <2>1 DEF FlattenSeq, n
    <3>2. seqs \in Seq(S)
      BY DEF S
    <3>3. seqs = <<>>
      BY <2>1, <3>2, EmptySeq DEF n
    <3> QED
      BY <1>6, <2>1, <3>1, <3>3
  <2>2. CASE n # 0
    <3> DEFINE next(x, k) == IF k = 1 THEN seqs[k] ELSE x \o seqs[k]
               f == [k \in 1 .. n |-> g[k]]
    <3>1. ASSUME NEW k \in 1 .. n
          PROVE  g[k] = next(g[k - 1], k)
      <4>1. CASE k = 1
        <5>1. <<>> \o seqs[k] = seqs[k]
          BY <1>2, <1>3
        <5>2. g[k] = g[0] \o seqs[k]
          <6>1. k - 1 = 0
            BY <4>1
          <6>2. g[k] = g[k - 1] \o seqs[k]
            BY <1>7
          <6> QED
            BY <6>1, <6>2
        <5> QED
          BY <1>6, <4>1, <5>1, <5>2
      <4>2. CASE k # 1
        BY <1>7, <4>2
      <4> QED
        BY <4>1, <4>2
    <3>2. \A k \in 1 .. n : next(g[k - 1], k) = next(f[k - 1], k)
      <4>1. \A k \in 1 .. n : k = 1 \/ k - 1 \in 1 .. n
        BY <1>1
      <4> QED
        BY <4>1
    <3>3. f = [k \in 1 .. n |-> IF k = 1 THEN seqs[k] ELSE f[k - 1] \o seqs[k]]
      <4>1. \A k \in 1 .. n : f[k] = next(f[k - 1], k)
        BY <3>1, <3>2
      <4> QED
        BY <4>1
    <3> DEFINE F == CHOOSE h : h = [k \in 1 .. n |-> IF k = 1 THEN seqs[k] ELSE h[k - 1] \o seqs[k]]
    <3>4. FlattenSeq(seqs) = F[n]
      BY <2>2 DEF FlattenSeq, n
    <3> HIDE DEF f
    <3>5. F = [k \in 1 .. n |-> IF k = 1 THEN seqs[k] ELSE F[k - 1] \o seqs[k]]
      BY <3>3, Zenon
    <3> HIDE DEF F
    <3>6. \A k \in 1 .. n : F[k] = next(F[k - 1], k)
      BY <3>5
    <3>7. \A k \in 0 .. n : k # 0 => F[k] = g[k]
      <4> DEFINE U == {k \in 0 .. n : k # 0 => F[k] = g[k]}
      <4>1. 0 \in U
        BY <1>1
      <4>2. ASSUME NEW k \in 1 .. n, k - 1 \in U
            PROVE  k \in U
        <5>1. k \in 0 .. n /\ (k = 1 \/ k - 1 # 0)
          BY <1>1
        <5> QED
          BY <3>1, <3>6, <4>2, <5>1
      <4>3. \A k \in 0 .. n : k \in U
        <5> HIDE DEF U
        <5> QED
          BY <1>1, <4>1, <4>2, InductionUpto
      <4> QED
        BY <4>3
    <3>8. n \in 0 .. n
      BY <1>1
    <3> QED
      BY <2>2, <3>4, <3>7, <3>8
  <2> QED
    BY <2>1, <2>2
<1> QED
  BY <1>6, <1>7, <1>8 DEF Joins, n, S

LEMMA JoinedElements ==
  ASSUME NEW X, NEW seqs \in Seq(Seq(X)), NEW i \in 1 .. Len(seqs), NEW x \in 1 .. Len(seqs[i])
  PROVE  \E y \in 1 .. Len(FlattenSeq(seqs)) : FlattenSeq(seqs)[y] = seqs[i][x]
<1> DEFINE n == Len(seqs)
           S == Seq(X)
           a == seqs[i][x]
<1>1. n \in Nat /\ \A k \in 1 .. n : seqs[k] \in Seq(X)
  <2>1. n \in Nat
    BY LenProperties
  <2>2. seqs \in Seq(S)
    OBVIOUS
  <2> HIDE DEF S
  <2>3. \A k \in 1 .. n : seqs[k] \in S
    BY <2>1, <2>2, ElementOfSeq
  <2> QED
    BY <2>1, <2>3 DEF S
<1>2. PICK g : Joins(g, seqs, X)
  BY Joining
<1>3. \A k \in 1 .. n : g[k - 1] \in Seq(X) /\ g[k] = g[k - 1] \o seqs[k]
  <2>1. \A k \in 1 .. n : k - 1 \in 0 .. n
    BY <1>1
  <2> QED
    BY <1>2, <2>1 DEF Joins
<1>4. ASSUME NEW k \in 1 .. n
      PROVE  /\ \A y \in 1 .. Len(g[k - 1]) : y \in 1 .. Len(g[k]) /\ g[k][y] = g[k - 1][y]
             /\ \A y \in 1 .. Len(seqs[k]) : /\ Len(g[k - 1]) + y \in 1 .. Len(g[k])
                                             /\ g[k][Len(g[k - 1]) + y] = seqs[k][y]
  <2> DEFINE u == g[k - 1]
             w == seqs[k]
  <2>1. u \in Seq(X) /\ w \in Seq(X) /\ g[k] = u \o w
    BY <1>1, <1>3
  <2> HIDE DEF u, w
  <2>2. Len(u) \in Nat /\ Len(w) \in Nat /\ Len(u \o w) = Len(u) + Len(w)
    BY <2>1, LenProperties, ConcatProperties
  <2>3. \A y \in 1 .. Len(u) + Len(w) : (u \o w)[y] = IF y <= Len(u) THEN u[y] ELSE w[y - Len(u)]
    BY <2>1, ConcatProperties
  <2>4. \A y \in 1 .. Len(u) : y \in 1 .. Len(u) + Len(w) /\ y <= Len(u)
    BY <2>2
  <2>5. \A y \in 1 .. Len(w) : Len(u) + y \in 1 .. Len(u) + Len(w) /\ ~(Len(u) + y <= Len(u)) /\ Len(u) + y - Len(u) = y
    BY <2>2
  <2>6. \A y \in 1 .. Len(u) : y \in 1 .. Len(u \o w) /\ (u \o w)[y] = u[y]
    BY <2>2, <2>3, <2>4
  <2>7. \A y \in 1 .. Len(w) : Len(u) + y \in 1 .. Len(u \o w) /\ (u \o w)[Len(u) + y] = w[y]
    BY <2>2, <2>3, <2>5
  <2> QED
    BY <2>1, <2>6, <2>7 DEF u, w
<1> DEFINE U == {k \in 0 .. n : i <= k => \E y \in 1 .. Len(g[k]) : g[k][y] = a}
<1> HIDE DEF n, a
<1>5. 0 \in U
  BY <1>1 DEF n
<1>6. ASSUME NEW k \in 1 .. n, k - 1 \in U
      PROVE  k \in U
  <2>1. k \in 0 .. n /\ i \in Int /\ k \in Int
    BY <1>1 DEF n
  <2>2. CASE i = k
    BY <1>4, <2>1, <2>2 DEF a
  <2>3. CASE i < k
    <3>1. i <= k - 1
      BY <2>1, <2>3
    <3> QED
      BY <1>4, <1>6, <2>1, <3>1
  <2> QED
    BY <2>1, <2>2, <2>3
<1>7. \A k \in 0 .. n : k \in U
  <2> HIDE DEF U
  <2> QED
    BY <1>1, <1>5, <1>6, InductionUpto DEF n
<1>8. n \in 0 .. n /\ i <= n
  BY <1>1 DEF n
<1> QED
  BY <1>2, <1>7, <1>8 DEF Joins, n, a

(* What a list makes of a flatpak depends on what it was, and on no other.       *)
LEMMA EffectOnOne ==
  ASSUME NEW s \in Seq(Listed), NEW v \in Installed, NEW w \in Installed, NEW r \in Ref, v[r] = w[r]
  PROVE  Effect(s, v)[r] = Effect(s, w)[r]
<1>1. Tells(s, r, Len(s), Remaining(s, r), v[r], Effect(s, v)[r])
  BY EffectIs
<1>2. Tells(s, r, Len(s), Remaining(s, r), w[r], Effect(s, w)[r])
  BY EffectIs
<1> QED
  BY <1>1, <1>2 DEF Tells

LEMMA NoEffect ==
  ASSUME NEW s \in Seq(Listed), NEW v \in Installed, NEW r \in Ref, \A i \in 1 .. Len(s) : s[i].ref # r
  PROVE  Effect(s, v)[r] = v[r]
<1>1. Tells(s, r, Len(s), Remaining(s, r), v[r], Effect(s, v)[r])
  BY EffectIs
<1>2. Len(s) \in Nat
  BY LenProperties
<1> QED
  BY <1>1, <1>2 DEF Tells

(* Among lists of which one is about a flatpak, the others do not matter.        *)
LEMMA JoinedEffect ==
  ASSUME NEW seqs \in Seq(Seq(Listed)), NEW v \in Installed, NEW r \in Ref, NEW i \in 1 .. Len(seqs),
         \A k \in 1 .. Len(seqs) : k # i => \A x \in 1 .. Len(seqs[k]) : seqs[k][x].ref # r
  PROVE  Effect(FlattenSeq(seqs), v)[r] = Effect(seqs[i], v)[r]
<1> DEFINE n == Len(seqs)
           S == Seq(Listed)
<1>1. n \in Nat /\ \A k \in 1 .. n : seqs[k] \in Seq(Listed)
  <2>1. n \in Nat
    BY LenProperties
  <2>2. seqs \in Seq(S)
    OBVIOUS
  <2> HIDE DEF S
  <2>3. \A k \in 1 .. n : seqs[k] \in S
    BY <2>1, <2>2, ElementOfSeq
  <2> QED
    BY <2>1, <2>3 DEF S
<1>2. PICK g : Joins(g, seqs, Listed)
  BY Joining
<1>3. /\ \A k \in 1 .. n : g[k - 1] \in Seq(Listed) /\ g[k] = g[k - 1] \o seqs[k] /\ k - 1 \in 0 .. n
      /\ g[0] = <<>> /\ FlattenSeq(seqs) = g[n]
  <2>1. \A k \in 1 .. n : k - 1 \in 0 .. n
    BY <1>1
  <2> QED
    BY <1>2, <2>1 DEF Joins
<1> DEFINE U == {k \in 0 .. n : Effect(g[k], v)[r] = IF i <= k THEN Effect(seqs[i], v)[r] ELSE v[r]}
<1> HIDE DEF n
<1>4. 0 \in U
  <2>1. ~(i <= 0) /\ 0 \in 0 .. n
    BY <1>1 DEF n
  <2>2. <<>> \in Seq(Listed) /\ Len(<<>>) = 0
    BY EmptySeq
  <2>3. \A x \in 1 .. Len(<<>>) : <<>>[x].ref # r
    BY <2>2
  <2>4. Effect(<<>>, v)[r] = v[r]
    BY <2>2, <2>3, NoEffect
  <2> QED
    BY <1>3, <2>1, <2>4
<1>5. ASSUME NEW k \in 1 .. n, k - 1 \in U
      PROVE  k \in U
  <2> DEFINE w == Effect(g[k - 1], v)
  <2>1. k \in 0 .. n /\ i \in Int /\ k \in Int /\ k \in 1 .. Len(seqs)
    BY <1>1 DEF n
  <2>6. k - 1 \in 0 .. n /\ g[k - 1] \in Seq(Listed) /\ seqs[k] \in Seq(Listed)
    BY <1>1, <1>3, <2>1
  <2>7. w \in Installed
    BY <2>6, EffectIs
  <2>8. Effect(g[k - 1] \o seqs[k], v) = Effect(seqs[k], w)
    BY <2>6, ConcatenatedEffect
  <2>2. w \in Installed /\ Effect(g[k], v) = Effect(seqs[k], w) /\ seqs[k] \in Seq(Listed)
    BY <1>3, <2>6, <2>7, <2>8
  <2>3. w[r] = IF i <= k - 1 THEN Effect(seqs[i], v)[r] ELSE v[r]
    BY <1>5
  <2> HIDE DEF w
  <2>4. CASE i = k
    <3>1. w[r] = v[r]
      BY <2>1, <2>3, <2>4
    <3>2. Effect(seqs[k], w)[r] = Effect(seqs[i], v)[r]
      BY <2>1, <2>2, <2>4, <3>1, EffectOnOne
    <3> QED
      BY <2>1, <2>2, <2>4, <3>2
  <2>5. CASE i # k
    <3>1. Effect(seqs[k], w)[r] = w[r]
      <4>1. \A x \in 1 .. Len(seqs[k]) : seqs[k][x].ref # r
        BY <2>1, <2>5
      <4> QED
        BY <2>2, <4>1, NoEffect
    <3>2. i <= k - 1 <=> i <= k
      BY <2>1, <2>5
    <3> QED
      BY <2>1, <2>2, <2>3, <3>1, <3>2
  <2> QED
    BY <2>4, <2>5
<1>6. \A k \in 0 .. n : k \in U
  <2> HIDE DEF U
  <2> QED
    BY <1>1, <1>4, <1>5, InductionUpto
<1>7. n \in 0 .. n /\ i <= n
  BY <1>1 DEF n
<1> QED
  BY <1>3, <1>6, <1>7

-----------------------------------------------------------------------------
(* The lists of files of which no two have the same flatpak.                    *)

Refs(f) == {entry.ref : entry \in Entries[f]}

ListedOf(f) == {a \in Listed : a.source = f /\ \E entry \in Entries[f] : entry.ref = a.ref /\ entry.serial = a.serial}

Tabled(table) == DOMAIN table = File /\ \A f \in File : table[f] \in Seq(ListedOf(f))

LEMMA RefsAre ==
  /\ \A f \in File : Refs(f) \subseteq Ref
  /\ \A f \in File : \A a \in ListedOf(f) : a \in Listed /\ a.source = f /\ a.ref \in Refs(f)
  /\ OneFileForEach => \A f, g \in File : \A r \in Refs(f) : r \in Refs(g) => f = g
<1>1. DOMAIN Entries = File /\ \A f \in File : \A entry \in Entries[f] : entry.ref \in Ref
  BY InstallerAssumption DEF File
<1> QED
  BY <1>1 DEF Refs, ListedOf, OneFileForEach

LEMMA Close ==
  ASSUME SerialsClose, NEW f \in File, NEW g \in File, NEW a \in ListedOf(f), NEW b \in ListedOf(g)
  PROVE  a.serial - b.serial \in Int32
<1>1. DOMAIN Entries = File
  BY InstallerAssumption DEF File
<1>2. PICK c \in Entries[f] : c.serial = a.serial
  BY DEF ListedOf
<1>3. PICK d \in Entries[g] : d.serial = b.serial
  BY DEF ListedOf
<1>4. a.serial \in Int32 /\ b.serial \in Int32
  BY DEF ListedOf, Listed
<1>5. is_valid_serial(c.serial) /\ is_valid_serial(d.serial)
  BY <1>2, <1>3, <1>4 DEF is_valid_serial
<1>6. c.serial - d.serial \in Int32
  BY <1>1, <1>5 DEF SerialsClose
<1> QED
  BY <1>2, <1>3, <1>6

(* The actions in a table.                                                    *)
InList(table) == {a \in Listed : a.source \in File /\ a \in ListedOf(a.source) /\ a \in Elements(table[a.source])}

ConcatenatesTo(table, c) ==
    /\ c \in Seq(InList(table))
    /\ \A f \in File : \A x \in 1 .. Len(table[f]) : \E y \in 1 .. Len(c) : c[y] = table[f][x]
    /\ \A v \in Installed : \A f \in File : \A r \in Refs(f) : Effect(c, v)[r] = Effect(table[f], v)[r]
    /\ \A v \in Installed : \A r \in Ref : (\A f \in File : r \notin Refs(f)) => Effect(c, v)[r] = v[r]

LEMMA Concatenating ==
  ASSUME OneFileForEach, NEW table, Tabled(table)
  PROVE  ConcatenatesTo(table, Concatenated(table))
<1> DEFINE X == InList(table)
           S == Seq(X)
           parts == [i \in DOMAIN Files |-> table[Files[i]]]
           n == Len(Files)
           c == Concatenated(table)
<1>1. DOMAIN Files = 1 .. n /\ n \in Nat /\ \A i, j \in 1 .. n : Files[i] = Files[j] => i = j
  BY FilesAssumption, LenProperties DEF IsInjective
<1>2. \A i \in 1 .. n : Files[i] \in File
  BY <1>1 DEF File
<1>3. \A f \in File : \E i \in 1 .. n : f = Files[i]
  BY <1>1 DEF File
<1>4. ASSUME NEW f \in File
      PROVE  table[f] \in S /\ table[f] \in Seq(Listed) /\ \A x \in 1 .. Len(table[f]) : table[f][x] \in ListedOf(f)
  <2> DEFINE L == ListedOf(f)
             t == table[f]
  <2>1. t \in Seq(L)
    BY DEF Tabled
  <2>2. L \subseteq Listed
    BY DEF ListedOf
  <2>3. DOMAIN t = 1 .. Len(t) /\ Len(t) \in Nat /\ t = [k \in 1 .. Len(t) |-> t[k]] /\ \A k \in 1 .. Len(t) : t[k] \in L
    <3> HIDE DEF L, t
    <3> QED
      BY <2>1, ElementOfSeq, LenProperties
  <2>4. \A k \in 1 .. Len(t) : t[k] \in X
    <3> SUFFICES ASSUME NEW k \in 1 .. Len(t)
                 PROVE  t[k] \in X
      OBVIOUS
    <3>1. t[k] \in Listed /\ t[k].source = f /\ t[k] \in ListedOf(f)
      BY <2>3 DEF ListedOf
    <3>2. t[k] \in Elements(table[f])
      BY DEF Elements
    <3> HIDE DEF t
    <3> QED
      BY <3>1, <3>2 DEF InList
  <2> HIDE DEF X, t, L
  <2>5. t \in Seq(X)
    BY <2>3, <2>4, IsASeq
  <2>6. t \in Seq(Listed)
    BY <2>1, <2>2, SeqMonotonic
  <2> QED
    BY <2>3, <2>5, <2>6 DEF t, L
<1>5. X \subseteq Listed
  BY DEF InList
<1>6. parts \in Seq(S) /\ Len(parts) = n /\ \A i \in 1 .. n : parts[i] = table[Files[i]]
  <2>1. \A i \in 1 .. n : table[Files[i]] \in S
    BY <1>2, <1>4
  <2> HIDE DEF S, n
  <2>2. [i \in 1 .. n |-> table[Files[i]]] \in Seq(S)
    BY <1>1, <2>1, IsASeq
  <2> QED
    BY <1>1, <2>2
<1>7. c = FlattenSeq(parts)
  <2>1. Concatenated(table) = FlattenSeq(<<>> \o parts)
    <3>1. \A i \in DOMAIN Files : Files[i] \in DOMAIN table
      BY <1>1, <1>2 DEF Tabled
    <3>2. [i \in DOMAIN Files |-> IF Files[i] \in DOMAIN table THEN table[Files[i]] ELSE <<>>] = parts
      BY <3>1
    <3> HIDE DEF parts
    <3> QED
      BY <3>2 DEF Concatenated
  <2> HIDE DEF parts, S
  <2>2. <<>> \o parts = parts
    BY <1>6, ConcatEmptySeq
  <2> QED
    BY <2>1, <2>2
<1>8. c \in Seq(X)
  <2> HIDE DEF parts, X
  <2> QED
    BY <1>6, <1>7, Flattening
<1>9. parts \in Seq(Seq(Listed))
  <2>1. S \subseteq Seq(Listed)
    <3> HIDE DEF X
    <3> QED
      BY <1>5, SeqMonotonic
  <2> DEFINE R == Seq(Listed)
  <2> HIDE DEF S, R, parts
  <2>2. parts \in Seq(R)
    BY <1>6, <2>1, SeqMonotonic DEF R
  <2> QED
    BY <2>2 DEF R
<1> HIDE DEF parts, c
<1>10. ASSUME NEW f \in File, NEW x \in 1 .. Len(table[f])
       PROVE  \E y \in 1 .. Len(c) : c[y] = table[f][x]
  <2>1. PICK i \in 1 .. n : f = Files[i]
    BY <1>3
  <2>2. parts[i] = table[f] /\ i \in 1 .. Len(parts)
    BY <1>6, <2>1
  <2>3. \E y \in 1 .. Len(FlattenSeq(parts)) : FlattenSeq(parts)[y] = parts[i][x]
    BY <1>9, <2>2, JoinedElements
  <2> QED
    BY <1>7, <2>2, <2>3
<1>11. ASSUME NEW v \in Installed, NEW f \in File, NEW r \in Refs(f)
       PROVE  Effect(c, v)[r] = Effect(table[f], v)[r]
  <2>1. PICK i \in 1 .. n : f = Files[i]
    BY <1>3
  <2>2. parts[i] = table[f] /\ i \in 1 .. Len(parts)
    BY <1>6, <2>1
  <2>3. ASSUME NEW k \in 1 .. Len(parts), k # i, NEW x \in 1 .. Len(parts[k])
        PROVE  parts[k][x].ref # r
    <3>1. k \in 1 .. n /\ Files[k] \in File /\ Files[k] # f /\ parts[k] = table[Files[k]]
      BY <1>1, <1>2, <1>6, <2>1, <2>3
    <3>2. parts[k][x] \in ListedOf(Files[k])
      BY <1>4, <3>1
    <3> QED
      BY <3>1, <3>2, RefsAre
  <2>4. r \in Ref
    BY RefsAre
  <2>5. Effect(FlattenSeq(parts), v)[r] = Effect(parts[i], v)[r]
    BY <1>9, <2>2, <2>3, <2>4, JoinedEffect
  <2> QED
    BY <1>7, <2>2, <2>5
<1>12. ASSUME NEW v \in Installed, NEW r \in Ref, \A f \in File : r \notin Refs(f)
       PROVE  Effect(c, v)[r] = v[r]
  <2> HIDE DEF X
  <2>1. c \in Seq(Listed) /\ \A y \in 1 .. Len(c) : c[y] \in X
    BY <1>5, <1>8, SeqMonotonic, ElementOfSeq
  <2>2. \A y \in 1 .. Len(c) : c[y].ref # r
    BY <1>12, <2>1, RefsAre DEF InList, X
  <2> QED
    BY <2>1, <2>2, NoEffect
<1> QED
  BY <1>8, <1>10, <1>11, <1>12 DEF ConcatenatesTo, c

(* One list from lists that are squashed: all their actions, in the order of    *)
(* serial numbers.                                                           *)
FlattensTo(table, q) ==
    /\ q \in Seq(Listed)
    /\ \A i \in 1 .. Len(q) : q[i] \in InList(table)
    /\ \A f \in File : \A x \in 1 .. Len(table[f]) : \E i \in 1 .. Len(q) : q[i] = table[f][x]
    /\ \A i, j \in 1 .. Len(q) : q[i].ref = q[j].ref => i = j
    /\ \A i, j \in 1 .. Len(q) : i < j => q[i].serial <= q[j].serial

LEMMA FlatteningTable ==
  ASSUME OneFileForEach, SerialsClose, NEW table, Tabled(table),
         \A f \in File : \A i, j \in 1 .. Len(table[f]) : table[f][i].ref = table[f][j].ref => i = j
  PROVE  FlattensTo(table, euu_flatten_flatpak_ref_actions_table(table))
<1> DEFINE c == Concatenated(table)
           q == squash_ref_actions_ptr_array(c)
           X == InList(table)
<1>1. ConcatenatesTo(table, c)
  BY Concatenating
<1>2. X \subseteq Listed
  BY DEF InList
<1> HIDE DEF c
<1>3. c \in Seq(Listed) /\ (\A y \in 1 .. Len(c) : c[y] \in X) /\ Len(c) \in Nat /\ DOMAIN c = 1 .. Len(c)
  <2>1. c \in Seq(X)
    BY <1>1 DEF ConcatenatesTo
  <2> HIDE DEF X
  <2> QED
    BY <1>2, <2>1, SeqMonotonic, ElementOfSeq, LenProperties
<1>4. \A i, j \in 1 .. Len(c) : c[i].serial - c[j].serial \in Int32
  BY <1>3, Close DEF InList
<1>5. /\ q \in Seq(Listed)
      /\ \E g : /\ IsSquashed(c, q, g)
                /\ (\A j, k \in 1 .. Len(c) : c[j].serial - c[k].serial \in Int32) =>
                      \A j, k \in 1 .. Len(q) : j < k => q[j].serial <= q[k].serial
  BY <1>3, SquashedIs
<1>6. \A i, j \in 1 .. Len(q) : q[i].ref = q[j].ref => i = j
  BY <1>3, SquashedEffect
<1> HIDE DEF q
<1>7. PICK g : IsSquashed(c, q, g)
  BY <1>5
<1>8. \A i \in 1 .. Len(q) : q[i] \in X
  BY <1>3, <1>7 DEF IsSquashed
<1>9. ASSUME NEW f \in File, NEW x \in 1 .. Len(table[f])
      PROVE  \E i \in 1 .. Len(q) : q[i] = table[f][x]
  <2> DEFINE r == table[f][x].ref
             l == Remaining(c, r)
  <2>1. PICK y \in 1 .. Len(c) : c[y] = table[f][x]
    BY <1>1 DEF ConcatenatesTo
  <2>2. Chosen(c, r, Len(c), l)
    BY <1>3, RemainingIs
  <2>3. l \in 1 .. Len(c) /\ c[l].ref = r
    BY <1>3, <2>1, <2>2 DEF Chosen
  <2>4. c[l] \in InList(table) /\ c[y] \in InList(table)
    BY <1>3, <2>3
  <2>5. c[y] \in ListedOf(c[y].source) /\ c[y].source \in File /\ c[y].ref = r
    BY <2>1, <2>4 DEF InList
  <2>6. c[l] \in ListedOf(c[l].source) /\ c[l].source \in File /\ c[l] \in Elements(table[c[l].source])
    BY <2>4 DEF InList
  <2>7. c[l].source = c[y].source
    BY <2>3, <2>5, <2>6, RefsAre
  <2>8. c[y].source = f
    <3>1. table[f][x] \in ListedOf(f)
      <4> DEFINE L == ListedOf(f)
      <4>1. table[f] \in Seq(L)
        BY DEF Tabled
      <4> HIDE DEF L
      <4>2. table[f][x] \in L
        BY <4>1, ElementOfSeq
      <4> QED
        BY <4>2 DEF L
    <3> QED
      BY <2>1, <3>1 DEF ListedOf
  <2>9. c[l] = table[f][x]
    <3>1. PICK z \in 1 .. Len(table[f]) : c[l] = table[f][z]
      BY <2>6, <2>7, <2>8 DEF Elements
    <3>2. z = x
      BY <2>3, <3>1
    <3> QED
      BY <3>1, <3>2
  <2>10. l \in Remains(c)
    BY <1>3, <2>3 DEF Remains
  <2>11. PICK i \in 1 .. Len(q) : g[i] = l
    BY <1>7, <2>10 DEF IsSquashed
  <2>12. q[i] = c[l]
    BY <1>7, <2>11 DEF IsSquashed
  <2> QED
    BY <2>9, <2>12
<1> QED
  BY <1>4, <1>5, <1>6, <1>8, <1>9 DEF FlattensTo, q, c, euu_flatten_flatpak_ref_actions_table

-----------------------------------------------------------------------------
(* What is new in a list, and what is not.                                     *)

New(A, f, progs) == {a \in A : f \in DOMAIN progs => a.serial > progs[f]}
Old(A, f, progs) == {a \in A : f \in DOMAIN progs /\ a.serial <= progs[f]}

LEMMA PartOf ==
  ASSUME NEW L, NEW s \in Seq(L), NEW m \in 1 .. Len(s) + 1, NEW n \in m - 1 .. Len(s)
  PROVE  /\ SubSeq(s, m, n) \in Seq(L) /\ Len(SubSeq(s, m, n)) = n - m + 1
         /\ \A i \in 1 .. n - m + 1 : m + i - 1 \in m .. n /\ SubSeq(s, m, n)[i] = s[m + i - 1]
<1>1. Len(s) \in Nat /\ \A i \in 1 .. Len(s) : s[i] \in L
  BY LenProperties, ElementOfSeq
<1>2. m \in Int /\ n \in Int /\ \A i \in m .. n : s[i] \in L
  BY <1>1
<1>3. /\ SubSeq(s, m, n) \in Seq(L)
      /\ Len(SubSeq(s, m, n)) = IF m <= n THEN n - m + 1 ELSE 0
      /\ \A i \in 1 .. n - m + 1 : SubSeq(s, m, n)[i] = s[m + i - 1]
  BY <1>2, SubSeqProperties
<1> DEFINE t == SubSeq(s, m, n)
<1> HIDE DEF t
<1>4. Len(t) = n - m + 1
  BY <1>1, <1>2, <1>3 DEF t
<1>5. \A i \in 1 .. n - m + 1 : m + i - 1 \in m .. n
  BY <1>2
<1> QED
  BY <1>3, <1>4, <1>5 DEF t

IsListOf(t, L, A) == t \in Seq(L) /\ Increasing(t) /\ Elements(t) = A

LEMMA Splitting ==
  ASSUME NEW f \in File, NEW s \in Seq(ListedOf(f)), Increasing(s), NEW progs, f \in DOMAIN progs => progs[f] \in Int
  PROVE  /\ IsListOf(keep_only_new_actions(f, s, progs), ListedOf(f), New(Elements(s), f, progs))
         /\ IsListOf(keep_only_existing_actions(f, s, progs), ListedOf(f), Old(Elements(s), f, progs))
<1> DEFINE L == ListedOf(f)
<1>1. CASE f \notin DOMAIN progs
  <2>1. keep_only_new_actions(f, s, progs) = s /\ keep_only_existing_actions(f, s, progs) = <<>>
    BY <1>1 DEF keep_only_new_actions, keep_only_existing_actions
  <2>2. New(Elements(s), f, progs) = Elements(s) /\ Old(Elements(s), f, progs) = {}
    BY <1>1 DEF New, Old
  <2> HIDE DEF L
  <2>3. <<>> \in Seq(L) /\ Len(<<>>) = 0
    BY EmptySeq
  <2>4. Increasing(<<>>) /\ Elements(<<>>) = {}
    BY <2>3 DEF Increasing, Elements
  <2> QED
    BY <2>1, <2>2, <2>3, <2>4 DEF IsListOf, L
<1>2. CASE f \in DOMAIN progs
  <2> DEFINE p == progs[f]
             m == FirstNew(s, p)
             n == Len(s)
             t == SubSeq(s, m, n)
             e == SubSeq(s, 1, m - 1)
  <2>1. p \in Int /\ L \subseteq Listed
    BY <1>2, RefsAre
  <2>2. n \in Nat /\ (\A i \in 1 .. n : s[i] \in L) /\ s \in Seq(Listed)
    <3> HIDE DEF L
    <3>1. s \in Seq(L)
      BY DEF L
    <3> QED
      BY <2>1, <3>1, SeqMonotonic, LenProperties, ElementOfSeq
  <2>3. m \in 1 .. n + 1 /\ (\A i \in 1 .. m - 1 : s[i].serial <= p) /\ (m <= n => s[m].serial > p)
    BY <2>1, <2>2, FirstNewIs
  <2>4. \A i, j \in 1 .. n : i < j => s[i].serial < s[j].serial
    BY DEF Increasing
  <2>5. \A i \in 1 .. n : s[i].serial \in Int
    BY <2>1, <2>2, SerialsAre
  <2>6. \A i \in m .. n : s[i].serial > p
    <3> SUFFICES ASSUME NEW i \in m .. n
                 PROVE  s[i].serial > p
      OBVIOUS
    <3> HIDE DEF m, n, p
    <3>1. m \in 1 .. n /\ i \in 1 .. n /\ (m = i \/ m < i)
      BY <2>2, <2>3
    <3>2. s[m].serial > p /\ s[m].serial <= s[i].serial
      BY <2>3, <2>4, <2>5, <3>1
    <3> QED
      BY <2>1, <2>5, <3>1, <3>2
  <2> HIDE DEF m, n, p, t, e, L
  <2>7. t \in Seq(L) /\ Len(t) = n - m + 1 /\ \A i \in 1 .. n - m + 1 : m + i - 1 \in m .. n /\ t[i] = s[m + i - 1]
    <3>1. n \in m - 1 .. n /\ s \in Seq(L)
      BY <2>2, <2>3 DEF L
    <3> QED
      BY <2>3, <3>1, PartOf DEF t, n
  <2>8. e \in Seq(L) /\ Len(e) = m - 1 /\ \A i \in 1 .. m - 1 : i \in 1 .. n /\ e[i] = s[i]
    <3>1. m - 1 \in 1 - 1 .. n /\ 1 \in 1 .. n + 1 /\ s \in Seq(L)
      BY <2>2, <2>3 DEF L
    <3>2. /\ e \in Seq(L) /\ Len(e) = (m - 1) - 1 + 1
          /\ \A i \in 1 .. (m - 1) - 1 + 1 : e[i] = s[1 + i - 1]
      BY <3>1, PartOf DEF e, n
    <3>3. (m - 1) - 1 + 1 = m - 1 /\ \A i \in 1 .. m - 1 : i \in 1 .. n /\ 1 + i - 1 = i
      BY <2>2, <2>3
    <3> QED
      BY <3>2, <3>3
  <2>9. Increasing(t)
    <3>1. \A i, j \in 1 .. n - m + 1 : i < j => m + i - 1 < m + j - 1 /\ m + i - 1 \in 1 .. n /\ m + j - 1 \in 1 .. n
      BY <2>2, <2>3
    <3> QED
      BY <2>4, <2>7, <3>1 DEF Increasing
  <2>10. Increasing(e)
    BY <2>4, <2>8 DEF Increasing
  <2>11. Elements(t) = New(Elements(s), f, progs)
    <3>1. Elements(t) = {s[i] : i \in m .. n}
      <4>1. \A i \in m .. n : i - m + 1 \in 1 .. n - m + 1 /\ m + (i - m + 1) - 1 = i
        BY <2>2, <2>3
      <4>2. \A i \in m .. n : t[i - m + 1] = s[i]
        BY <2>7, <4>1
      <4> QED
        BY <2>7, <4>1, <4>2 DEF Elements
    <3>2. New(Elements(s), f, progs) = {s[i] : i \in {i \in 1 .. n : s[i].serial > p}}
      BY <1>2 DEF New, Elements, p, n
    <3>3. {i \in 1 .. n : s[i].serial > p} = m .. n
      <4>1. \A i \in 1 .. n : i \in m .. n \/ i \in 1 .. m - 1
        BY <2>2, <2>3
      <4>2. \A i \in m .. n : i \in 1 .. n
        BY <2>2, <2>3
      <4>3. \A i \in 1 .. m - 1 : i \in 1 .. n /\ ~(s[i].serial > p)
        <5>1. \A i \in 1 .. m - 1 : i \in 1 .. n
          BY <2>2, <2>3
        <5> QED
          BY <2>1, <2>3, <2>5, <5>1
      <4> QED
        BY <2>6, <4>1, <4>2, <4>3
    <3> QED
      BY <3>1, <3>2, <3>3
  <2>12. Elements(e) = Old(Elements(s), f, progs)
    <3>1. Elements(e) = {s[i] : i \in 1 .. m - 1}
      BY <2>8 DEF Elements
    <3>2. Old(Elements(s), f, progs) = {s[i] : i \in {i \in 1 .. n : s[i].serial <= p}}
      BY <1>2 DEF Old, Elements, p, n
    <3>3. {i \in 1 .. n : s[i].serial <= p} = 1 .. m - 1
      <4>1. \A i \in 1 .. n : i \in m .. n \/ i \in 1 .. m - 1
        BY <2>2, <2>3
      <4>2. \A i \in 1 .. m - 1 : i \in 1 .. n
        BY <2>2, <2>3
      <4>3. \A i \in m .. n : i \in 1 .. n /\ ~(s[i].serial <= p)
        <5>1. \A i \in m .. n : i \in 1 .. n
          BY <2>2, <2>3
        <5> QED
          BY <2>1, <2>5, <2>6, <5>1
      <4> QED
        BY <2>3, <4>1, <4>2, <4>3
    <3> QED
      BY <3>1, <3>2, <3>3
  <2>13. keep_only_new_actions(f, s, progs) = t /\ keep_only_existing_actions(f, s, progs) = e
    BY <1>2 DEF keep_only_new_actions, keep_only_existing_actions, t, e, m, n, p
  <2> QED
    BY <2>7, <2>8, <2>9, <2>10, <2>11, <2>12, <2>13 DEF IsListOf, L
<1> QED
  BY <1>1, <1>2

-----------------------------------------------------------------------------
(* Reading a file whose entries have ascending serial numbers.                  *)

Ascending(entries) == \A i, j \in DOMAIN entries : i < j => entries[i].serial < entries[j].serial
ActionOf(f, entry) == Action(entry.action, entry.ref, f, entry.serial, FALSE)
ActionsOf(f, entries, sys) == {ActionOf(f, entries[i]) : i \in Kept(entries, sys)}

LEMMA Listing ==
  ASSUME NEW f \in File, NEW entries \in Seq(Entries[f]), Ascending(entries), NEW sys
  PROVE  IsListOf(Actions(f, Places(entries, Kept(entries, sys))), ListedOf(f), ActionsOf(f, entries, sys))
<1> DEFINE P == Kept(entries, sys)
           kept == Places(entries, P)
           c == Cardinality(P)
           E == Entries[f]
           act(k) == Action(kept[k].action, kept[k].ref, f, kept[k].serial, FALSE)
           L == ListedOf(f)
           u == Actions(f, kept)
<1>1. E \subseteq Entry /\ Len(entries) \in Nat /\ DOMAIN entries = 1 .. Len(entries) /\ entries \in Seq(E)
  BY InstallerAssumption, LenProperties DEF Entry, File
<1>2. \A i \in DOMAIN entries : entries[i] \in E
  <2> HIDE DEF E
  <2> QED
    BY <1>1, ElementOfSeq
<1>3. P \in SUBSET (1 .. Len(entries))
  BY <1>1 DEF Kept
<1>4. ASSUME NEW i \in P
      PROVE  ActionOf(f, entries[i]) \in L /\ entries[i].serial \in Int
  <2>1. entries[i] \in E /\ entries[i] \in Entry /\ Read(entries[i], sys) = "action"
    BY <1>1, <1>2 DEF Kept
  <2>2. entries[i].ref \in Ref /\ entries[i].serial \in Int
    BY <2>1 DEF Entry
  <2>3. entries[i].action \in Type /\ entries[i].serial \in Int32
    BY <2>1, ActedUpon DEF is_valid_serial
  <2>4. /\ ActionOf(f, entries[i]) \in Listed /\ ActionOf(f, entries[i]).source = f
        /\ ActionOf(f, entries[i]).ref = entries[i].ref /\ ActionOf(f, entries[i]).serial = entries[i].serial
    BY <2>2, <2>3 DEF ActionOf, Action, Listed
  <2> QED
    BY <2>1, <2>2, <2>4 DEF ListedOf
<1> HIDE DEF P, E, L
<1>5. kept \in Seq(E) /\ ArePlaces(entries, P, kept)
  BY <1>1, <1>3, PlacesAre
<1> HIDE DEF kept
<1>6. c \in Nat /\ DOMAIN kept = 1 .. c /\ \E at : Enumerates(at, P) /\ \A k \in 1 .. c : kept[k] = entries[at[k]]
  BY <1>5, LenProperties DEF ArePlaces
<1>7. PICK at : Enumerates(at, P) /\ \A k \in 1 .. c : kept[k] = entries[at[k]]
  BY <1>6
<1>8. /\ \A k \in 1 .. c : at[k] \in P /\ act(k) = ActionOf(f, entries[at[k]])
      /\ \A j, k \in 1 .. c : j < k => at[j] < at[k]
      /\ \A i \in P : \E k \in 1 .. c : at[k] = i
  BY <1>7 DEF Enumerates, ActionOf
<1> HIDE DEF c
<1>9. u = [k \in 1 .. c |-> act(k)]
  BY <1>6 DEF Actions
<1> HIDE DEF act, u
<1>10. u \in Seq(L) /\ Len(u) = c /\ \A k \in 1 .. c : u[k] = ActionOf(f, entries[at[k]])
  <2>1. \A k \in 1 .. c : act(k) \in L
    BY <1>4, <1>8
  <2>2. u \in Seq(L)
    BY <1>6, <1>9, <2>1, IsASeq
  <2> QED
    BY <1>6, <1>8, <1>9, <2>2
<1>11. Increasing(u)
  <2> SUFFICES ASSUME NEW j \in 1 .. c, NEW k \in 1 .. c, j < k
               PROVE  u[j].serial < u[k].serial
    BY <1>10 DEF Increasing
  <2>1. at[j] \in DOMAIN entries /\ at[k] \in DOMAIN entries /\ at[j] < at[k]
    BY <1>8 DEF P, Kept
  <2>2. entries[at[j]].serial < entries[at[k]].serial
    BY <2>1 DEF Ascending
  <2> QED
    BY <1>10, <2>2 DEF ActionOf, Action
<1>12. Elements(u) = ActionsOf(f, entries, sys)
  <2>1. Elements(u) = {ActionOf(f, entries[i]) : i \in P}
    BY <1>8, <1>10 DEF Elements
  <2> QED
    BY <2>1 DEF ActionsOf, P
<1> QED
  BY <1>10, <1>11, <1>12 DEF IsListOf, u, kept, P, L

LEMMA Reading ==
  ASSUME ReadTheSame, SerialsClose, NEW f \in File, NEW entries \in Seq(Entries[f]), Ascending(entries),
         NEW sys \in Systems
  PROVE  LET read == read_flatpak_ref_actions_from_node(f, entries, sys)
         IN  read.ok /\ IsListOf(read.actions, ListedOf(f), ActionsOf(f, entries, sys))
<1> DEFINE u == Actions(f, Places(entries, Kept(entries, sys)))
           q == g_ptr_array_sort(u)
           L == ListedOf(f)
           n == Len(u)
<1>1. IsListOf(u, L, ActionsOf(f, entries, sys))
  BY Listing
<1>2. L \subseteq Listed
  BY RefsAre
<1> HIDE DEF u, L
<1>3. u \in Seq(L) /\ u \in Seq(Listed) /\ n \in Nat /\ (\A i \in 1 .. n : u[i] \in L) /\ Increasing(u)
  BY <1>1, <1>2, SeqMonotonic, LenProperties, ElementOfSeq DEF IsListOf
<1>4. \A j, k \in 1 .. n : u[j].serial - u[k].serial \in Int32
  BY <1>3, Close DEF L
<1>5. q \in Seq(L) /\ \E p : IsRearranged(q, u, p) /\ (Orderly(u) => SortedFrom(u, p))
  BY <1>3, Sorting
<1>6. PICK p : IsRearranged(q, u, p) /\ (Orderly(u) => SortedFrom(u, p))
  BY <1>5
<1>7. \A j, k \in 1 .. Len(q) : j < k => q[j].serial <= q[k].serial
  BY <1>3, <1>4, SortedSerials
<1> HIDE DEF q
<1>8. /\ Len(q) = n /\ \A k \in 1 .. n : p[k] \in 1 .. n /\ q[k] = u[p[k]]
      /\ \A j, k \in 1 .. n : p[j] = p[k] => j = k
  BY <1>6 DEF IsRearranged
<1>9. \A j \in 1 .. n : u[j].serial \in Int
  BY <1>2, <1>3, SerialsAre
<1>10. Increasing(q)
  <2> SUFFICES ASSUME NEW j \in 1 .. n, NEW k \in 1 .. n, j < k
               PROVE  q[j].serial < q[k].serial
    BY <1>8 DEF Increasing
  <2>1. p[j] \in 1 .. n /\ p[k] \in 1 .. n /\ p[j] # p[k]
    BY <1>8
  <2>2. u[p[j]].serial # u[p[k]].serial
    <3>1. p[j] < p[k] \/ p[k] < p[j]
      BY <2>1
    <3> QED
      BY <1>3, <1>9, <2>1, <3>1 DEF Increasing
  <2>3. q[j].serial <= q[k].serial
    BY <1>7, <1>8
  <2> QED
    BY <1>8, <1>9, <2>1, <2>2, <2>3
<1>11. Elements(q) = Elements(u)
  <2>1. \A j \in 1 .. n : \E k \in 1 .. n : p[k] = j
    BY <1>3, <1>6, Onto
  <2>2. ASSUME NEW j \in 1 .. n
        PROVE  u[j] \in {q[k] : k \in 1 .. n}
    <3>1. PICK k \in 1 .. n : p[k] = j
      BY <2>1
    <3>2. q[k] = u[j]
      BY <1>8, <3>1
    <3> QED
      BY <3>2
  <2>3. \A k \in 1 .. n : q[k] \in {u[j] : j \in 1 .. n}
    BY <1>8
  <2>4. Elements(q) = {q[k] : k \in 1 .. n} /\ Elements(u) = {u[j] : j \in 1 .. n}
    BY <1>8 DEF Elements
  <2> QED
    BY <2>2, <2>3, <2>4
<1>12. \A i \in 2 .. Len(q) : q[i - 1].serial # q[i].serial
  <2> SUFFICES ASSUME NEW i \in 2 .. n
               PROVE  q[i - 1].serial # q[i].serial
    BY <1>8
  <2>1. i - 1 \in 1 .. n /\ i \in 1 .. n /\ i - 1 < i
    BY <1>3
  <2>2. q[i - 1].serial < q[i].serial
    BY <1>8, <1>10, <2>1 DEF Increasing
  <2>3. q[i].serial \in Int /\ q[i - 1].serial \in Int
    BY <1>8, <1>9, <2>1
  <2> QED
    BY <2>2, <2>3
<1> DEFINE read == read_flatpak_ref_actions_from_node(f, entries, sys)
<1>13. read = [ok |-> TRUE, actions |-> q]
  <2> DEFINE r == [i \in DOMAIN entries |-> Read(entries[i], sys)]
             P == {i \in DOMAIN entries : r[i] = "action"}
  <2>1. "malformed" \notin Range(r)
    <3> DEFINE E == Entries[f]
    <3>1. entries \in Seq(E) /\ DOMAIN Entries = File
      BY InstallerAssumption DEF File
    <3> HIDE DEF E
    <3>2. \A i \in DOMAIN entries : entries[i] \in E
      BY <3>1, ElementOfSeq, LenProperties
    <3>3. \A i \in DOMAIN entries : Read(entries[i], sys) # "malformed"
      BY <3>1, <3>2 DEF ReadTheSame, E
    <3> QED
      BY <3>3 DEF Range
  <2>2. P = Kept(entries, sys)
    BY DEF Kept
  <2>3. read = WithoutDuplicates(g_ptr_array_sort(Actions(f, Places(entries, P))))
    BY <2>1 DEF read_flatpak_ref_actions_from_node
  <2> HIDE DEF P
  <2>4. read = WithoutDuplicates(q)
    BY <2>2, <2>3 DEF q, u
  <2> HIDE DEF read
  <2> QED
    BY <1>12, <2>4 DEF WithoutDuplicates
<1> HIDE DEF read
<1>14. read.ok /\ read.actions = q
  BY <1>13
<1>15. IsListOf(read.actions, L, ActionsOf(f, entries, sys))
  BY <1>1, <1>5, <1>10, <1>11, <1>14 DEF IsListOf
<1> QED
  BY <1>14, <1>15 DEF read, L

-----------------------------------------------------------------------------
(* What is loaded, what is asked for, and what is to be done.                   *)

Holds(dir, sys) ==
    /\ dir \in [File -> UNION {Seq(Entries[f]) : f \in File}] /\ sys \in Systems
    /\ \A f \in File : dir[f] \in Seq(Entries[f]) /\ Ascending(dir[f])

Asks(dir, sys) == [f \in File |-> ActionsOf(f, dir[f], sys)]
LoadedFrom(dir, sys) == euu_flatpak_ref_actions_from_paths(<<dir>>, sys)

(* Actions as files have them.                                                *)
Filed(A) == \A f \in File : Actionable(A[f]) /\ \A a \in A[f] : a \in ListedOf(f)

LEMMA LoadedAre ==
  ASSUME ReadTheSame, SerialsClose, NEW dir, NEW sys, Holds(dir, sys)
  PROVE  /\ LoadedFrom(dir, sys).ok /\ DOMAIN LoadedFrom(dir, sys).table = File
         /\ \A f \in File : IsListOf(LoadedFrom(dir, sys).table[f], ListedOf(f), Asks(dir, sys)[f])
<1> DEFINE dirs == <<dir>>
           append(t, d) == euu_flatpak_ref_actions_append_from_directory(t, dirs[d], d, sys)
           F == [d \in 0 .. 1 |-> IF d = 0 THEN <<>> ELSE append(<<>>, d)]
           T == Tables(dirs, sys)
           read(f) == read_flatpak_ref_actions_from_node(f, dir[f], sys)
<1>1. DOMAIN dir = File
  BY DEF Holds
<1>2. Len(dirs) = 1 /\ dirs[1] = dir
  OBVIOUS
<1>3. T = CHOOSE g : g = [d \in 0 .. 1 |-> IF d = 0 THEN <<>> ELSE append(g[d - 1], d)]
  BY <1>2 DEF Tables
<1>4. F = [d \in 0 .. 1 |-> IF d = 0 THEN <<>> ELSE append(F[d - 1], d)]
  <2>1. \A d \in 0 .. 1 : d # 0 => d - 1 = 0 /\ d - 1 \in 0 .. 1
    OBVIOUS
  <2>2. F[0] = <<>>
    OBVIOUS
  <2> HIDE DEF append
  <2>3. \A d \in 0 .. 1 : d # 0 => append(F[d - 1], d) = append(<<>>, d)
    BY <2>1, <2>2
  <2> QED
    BY <2>3
<1> HIDE DEF append, F, dirs
<1>5. T = [d \in 0 .. 1 |-> IF d = 0 THEN <<>> ELSE append(T[d - 1], d)]
  BY <1>3, <1>4, Zenon
<1> HIDE DEF T
<1>6. T[1] = append(<<>>, 1)
  <2>1. T[0] = <<>> /\ 1 \in 0 .. 1 /\ 1 # 0 /\ 1 - 1 = 0
    BY <1>5
  <2>2. T[1] = append(T[1 - 1], 1)
    BY <1>5, <2>1
  <2> QED
    BY <2>1, <2>2
<1>7. DOMAIN T[1] = File /\ \A f \in File : T[1][f].read = read(f)
  <2>1. T[1] = euu_flatpak_ref_actions_append_from_directory(<<>>, dir, 1, sys)
    BY <1>2, <1>6 DEF append
  <2>2. DOMAIN <<>> = {}
    OBVIOUS
  <2>3. {f \in DOMAIN dir : f \in DOMAIN <<>> => <<>>[f].priority >= 1} = File
    BY <1>1, <2>2
  <2> DEFINE G == [f \in File |-> [priority |-> 1, read |-> read(f)]]
  <2>4. T[1] = G
    BY <1>1, <2>1, <2>2, <2>3 DEF euu_flatpak_ref_actions_append_from_directory
  <2>5. DOMAIN G = File /\ \A f \in File : G[f].read = read(f)
    <3> HIDE DEF read
    <3> QED
      OBVIOUS
  <2> HIDE DEF G
  <2> QED
    BY <2>4, <2>5
<1>8. LoadedFrom(dir, sys) = [ok |-> \A f \in DOMAIN T[1] : T[1][f].read.ok, table |-> [f \in DOMAIN T[1] |-> T[1][f].read.actions]]
  BY <1>2 DEF LoadedFrom, euu_flatpak_ref_actions_from_paths, euu_hoist_flatpak_remote_ref_actions, T, dirs
<1>9. (LoadedFrom(dir, sys).ok <=> \A f \in File : read(f).ok) /\ LoadedFrom(dir, sys).table = [f \in File |-> read(f).actions]
  <2>1. (LoadedFrom(dir, sys).ok <=> \A f \in DOMAIN T[1] : T[1][f].read.ok) /\ LoadedFrom(dir, sys).table = [f \in DOMAIN T[1] |-> T[1][f].read.actions]
    BY <1>8
  <2> HIDE DEF read
  <2> QED
    BY <1>7, <2>1
<1>10. \A f \in File : read(f).ok /\ IsListOf(read(f).actions, ListedOf(f), Asks(dir, sys)[f])
  BY Reading DEF Holds, Asks
<1> HIDE DEF read
<1> QED
  BY <1>9, <1>10

LEMMA AsksAre ==
  ASSUME ReadTheSame, SerialsClose, NEW dir, NEW sys, Holds(dir, sys)
  PROVE  Filed(Asks(dir, sys))
<1> SUFFICES ASSUME NEW f \in File
             PROVE  Actionable(Asks(dir, sys)[f]) /\ \A a \in Asks(dir, sys)[f] : a \in ListedOf(f)
  BY DEF Filed
<1> DEFINE t == LoadedFrom(dir, sys).table[f]
           L == ListedOf(f)
           A == Asks(dir, sys)[f]
<1>1. IsListOf(t, L, A) /\ L \subseteq Listed
  BY LoadedAre, RefsAre
<1> HIDE DEF t, L, A
<1>2. t \in Seq(Listed) /\ Increasing(t) /\ Elements(t) = A /\ \A i \in 1 .. Len(t) : t[i] \in L
  BY <1>1, SeqMonotonic, ElementOfSeq DEF IsListOf
<1>3. Actionable(Elements(t))
  BY <1>2, ElementsAre
<1> QED
  BY <1>2, <1>3 DEF Elements, L, A

(* What actions ask for, if that was there in the beginning.                   *)
AskFor(A, o, t) ==
    /\ t \in Installed
    /\ \A f \in File : \A r \in Refs(f) : Makes(A[f], r, o[r], t[r])
    /\ \A r \in Ref : (\A f \in File : r \notin Refs(f)) => t[r] = o[r]

LEMMA TargetIs ==
  ASSUME WellKept, NEW dir, NEW sys, Holds(dir, sys), NEW o \in Installed
  PROVE  AskFor(Asks(dir, sys), o, Effect(Concatenated(LoadedFrom(dir, sys).table), o))
<1> DEFINE table == LoadedFrom(dir, sys).table
           c == Concatenated(table)
           A == Asks(dir, sys)
           target == Effect(c, o)
<1>1. DOMAIN table = File /\ \A f \in File : IsListOf(table[f], ListedOf(f), A[f])
  BY LoadedAre DEF WellKept
<1> HIDE DEF table
<1>2. Tabled(table)
  BY <1>1 DEF Tabled, IsListOf
<1>3. ConcatenatesTo(table, c)
  BY <1>2, Concatenating DEF WellKept
<1>4. target = Effect(c, o)
  OBVIOUS
<1> HIDE DEF c, A, target
<1>5. c \in Seq(Listed)
  <2> DEFINE X == InList(table)
  <2>1. c \in Seq(X) /\ X \subseteq Listed
    BY <1>3 DEF ConcatenatesTo, InList
  <2> HIDE DEF X
  <2> QED
    BY <2>1, SeqMonotonic
<1>6. target \in Installed
  BY <1>4, <1>5, EffectIs
<1>7. ASSUME NEW f \in File, NEW r \in Refs(f)
      PROVE  Makes(A[f], r, o[r], target[r])
  <2> DEFINE t == table[f]
             L == ListedOf(f)
  <2>1. IsListOf(t, L, A[f]) /\ L \subseteq Listed /\ r \in Ref
    BY <1>1, RefsAre
  <2> HIDE DEF t, L
  <2>2. t \in Seq(Listed) /\ Increasing(t) /\ Elements(t) = A[f]
    BY <2>1, SeqMonotonic DEF IsListOf
  <2>3. Makes(A[f], r, o[r], Effect(t, o)[r])
    BY <2>1, <2>2, ListMakes
  <2>4. target[r] = Effect(t, o)[r]
    BY <1>3, <1>4 DEF ConcatenatesTo, t
  <2> QED
    BY <2>3, <2>4
<1>8. \A r \in Ref : (\A f \in File : r \notin Refs(f)) => target[r] = o[r]
  BY <1>3, <1>4 DEF ConcatenatesTo
<1> QED
  BY <1>6, <1>7, <1>8 DEF AskFor, A, c, table, target

(* Of the lists of each file, squashed and put together.                       *)
Squashed(A, q) ==
    /\ q \in Seq(Listed)
    /\ \A i \in 1 .. Len(q) : q[i].source \in File /\ q[i] \in ListedOf(q[i].source) /\ Stays(A[q[i].source], q[i])
    /\ \A f \in File : \A a \in A[f] : \E i \in 1 .. Len(q) : q[i].ref = a.ref
    /\ \A i, j \in 1 .. Len(q) : q[i].ref = q[j].ref => i = j
    /\ \A i, j \in 1 .. Len(q) : i < j => q[i].serial <= q[j].serial

LEMMA SquashingAll ==
  ASSUME WellKept, NEW A, NEW t, \A f \in File : IsListOf(t[f], ListedOf(f), A[f])
  PROVE  Squashed(A, euu_flatten_flatpak_ref_actions_table([f \in File |-> squash_ref_actions_ptr_array(t[f])]))
<1> DEFINE squash(f) == squash_ref_actions_ptr_array(t[f])
           table == [f \in File |-> squash(f)]
           q == euu_flatten_flatpak_ref_actions_table(table)
<1>1. ASSUME NEW f \in File
      PROVE  Squashes(A[f], squash(f)) /\ squash(f) \in Seq(ListedOf(f))
  <2> DEFINE L == ListedOf(f)
             s == t[f]
             u == squash(f)
  <2>1. IsListOf(s, L, A[f]) /\ L \subseteq Listed
    BY RefsAre
  <2>2. u = squash_ref_actions_ptr_array(s)
    OBVIOUS
  <2> HIDE DEF L, s, u
  <2>3. s \in Seq(Listed) /\ Increasing(s) /\ Elements(s) = A[f] /\ \A i \in 1 .. Len(s) : s[i] \in L
    BY <2>1, SeqMonotonic, ElementOfSeq DEF IsListOf
  <2>4. Squashes(A[f], u)
    BY <2>2, <2>3, SquashingList
  <2>5. \A i \in 1 .. Len(u) : u[i] \in L
    <3>1. \A b \in A[f] : b \in L
      <4>1. \A b \in Elements(s) : b \in L
        BY <2>3 DEF Elements
      <4> QED
        BY <2>3, <4>1
    <3>2. \A i \in 1 .. Len(u) : u[i] \in A[f]
      BY <2>4 DEF Squashes, Stays
    <3> QED
      BY <3>1, <3>2
  <2>6. Len(u) \in Nat /\ DOMAIN u = 1 .. Len(u) /\ u = [i \in 1 .. Len(u) |-> u[i]]
    BY <2>4, LenProperties DEF Squashes
  <2>7. u \in Seq(L)
    BY <2>5, <2>6, IsASeq
  <2> QED
    BY <2>4, <2>7 DEF u, L
<1> HIDE DEF squash
<1>2. DOMAIN table = File /\ \A f \in File : table[f] = squash(f)
  OBVIOUS
<1> HIDE DEF table
<1>3. Tabled(table)
  BY <1>1, <1>2 DEF Tabled
<1>4. FlattensTo(table, q)
  <2>1. \A f \in File : \A i, j \in 1 .. Len(table[f]) : table[f][i].ref = table[f][j].ref => i = j
    BY <1>1, <1>2 DEF Squashes
  <2> QED
    BY <1>3, <2>1, FlatteningTable DEF WellKept
<1> HIDE DEF q
<1>5. ASSUME NEW i \in 1 .. Len(q)
      PROVE  q[i].source \in File /\ q[i] \in ListedOf(q[i].source) /\ Stays(A[q[i].source], q[i])
  <2> DEFINE f == q[i].source
  <2>1. f \in File /\ q[i] \in ListedOf(f) /\ q[i] \in Elements(table[f])
    BY <1>4 DEF FlattensTo, InList
  <2> HIDE DEF f
  <2>2. PICK x \in 1 .. Len(squash(f)) : squash(f)[x] = q[i]
    BY <1>2, <2>1 DEF Elements
  <2>3. Stays(A[f], q[i])
    BY <1>1, <2>1, <2>2 DEF Squashes
  <2> QED
    BY <2>1, <2>3 DEF f
<1>6. ASSUME NEW f \in File, NEW a \in A[f]
      PROVE  \E i \in 1 .. Len(q) : q[i].ref = a.ref
  <2>1. PICK x \in 1 .. Len(table[f]) : table[f][x].ref = a.ref
    BY <1>1, <1>2 DEF Squashes
  <2>2. PICK i \in 1 .. Len(q) : q[i] = table[f][x]
    BY <1>4 DEF FlattensTo
  <2> QED
    BY <2>1, <2>2
<1>7. Squashed(A, q)
  BY <1>4, <1>5, <1>6 DEF Squashed, FlattensTo
<1> QED
  BY <1>7 DEF q, table, squash

Progs == UNION {[F -> Int32] : F \in SUBSET File}
Ahead(A, progs) == [f \in File |-> New(A[f], f, progs)]
Behind(A, progs) == [f \in File |-> Old(A[f], f, progs)]

LEMMA ToDo ==
  ASSUME WellKept, Holds(directory, system), counter \in Progs
  PROVE  /\ Squashed(Ahead(Asks(directory, system), counter), Pending)
         /\ Squashed(Behind(Asks(directory, system), counter), Applied)
<1> DEFINE table == Loaded.table
           A == Asks(directory, system)
           new == [f \in File |-> keep_only_new_actions(f, table[f], counter)]
           existing == [f \in File |-> keep_only_existing_actions(f, table[f], counter)]
<1>1. DOMAIN table = File /\ \A f \in File : IsListOf(table[f], ListedOf(f), A[f])
  BY LoadedAre DEF WellKept, Loaded, LoadedFrom
<1>2. \A f \in File : f \in DOMAIN counter => counter[f] \in Int
  <2>1. Int32 \subseteq Int
    BY MaxIntAssumption DEF Int32
  <2> QED
    BY <2>1 DEF Progs
<1> HIDE DEF table, A
<1>3. \A f \in File : /\ IsListOf(new[f], ListedOf(f), New(A[f], f, counter))
                      /\ IsListOf(existing[f], ListedOf(f), Old(A[f], f, counter))
  <2> SUFFICES ASSUME NEW f \in File
               PROVE  /\ IsListOf(keep_only_new_actions(f, table[f], counter), ListedOf(f), New(A[f], f, counter))
                      /\ IsListOf(keep_only_existing_actions(f, table[f], counter), ListedOf(f), Old(A[f], f, counter))
    OBVIOUS
  <2>1. table[f] \in Seq(ListedOf(f)) /\ Increasing(table[f]) /\ Elements(table[f]) = A[f]
    BY <1>1 DEF IsListOf
  <2> QED
    BY <1>2, <2>1, Splitting
<1>4. Pending = euu_flatten_flatpak_ref_actions_table([f \in File |-> squash_ref_actions_ptr_array(new[f])])
  BY <1>1 DEF Pending, euu_filter_for_new_flatpak_ref_actions, table
<1>5. Applied = euu_flatten_flatpak_ref_actions_table([f \in File |-> squash_ref_actions_ptr_array(existing[f])])
  BY <1>1 DEF Applied, euu_filter_for_existing_flatpak_ref_actions, table
<1> HIDE DEF new, existing
<1>6. \A f \in File : IsListOf(new[f], ListedOf(f), Ahead(A, counter)[f])
  BY <1>3 DEF Ahead
<1>7. \A f \in File : IsListOf(existing[f], ListedOf(f), Behind(A, counter)[f])
  BY <1>3 DEF Behind
<1> QED
  BY <1>4, <1>5, <1>6, <1>7, SquashingAll DEF A

-----------------------------------------------------------------------------
(* What a run does to the installation and to the progress, in one step.         *)

(* A progress is that of an action of the file.                              *)
Known(A, progs) == progs \in Progs /\ \A f \in DOMAIN progs : \E b \in A[f] : b.serial = progs[f]

(* An action of a file or, with its serial number, on what no file is about.    *)
Fits(A, b) ==
    /\ b.source \in File
    /\ IF b.dependency THEN b.ref \notin Autoinstalled /\ \E c \in A[b.source] : c.serial = b.serial
       ELSE b \in A[b.source]

(* A list that is performed: one action for each flatpak of the files, in order.  *)
Runnable(A, s) ==
    /\ s \in Seq(Joined)
    /\ \A i \in 1 .. Len(s) : Fits(A, s[i])
    /\ \A i, j \in 1 .. Len(s) : ~s[i].dependency /\ s[i].ref = s[j].ref => i = j
    /\ \A i, j \in 1 .. Len(s) : i < j /\ s[i].source = s[j].source => s[i].serial <= s[j].serial

(* Of the flatpaks in R: from progress progs, the actions that are new make of v *)
(* the target t; and a list brings the target about.                           *)
GoodIn(R, A, v, t, f, progs) == \A r \in Refs(f) \cap R : Makes(New(A[f], f, progs), r, v[r], t[r])
Good(R, A, v, t, progs) == \A f \in File : GoodIn(R, A, v, t, f, progs)
Brings(R, v, t, s) ==
    \A r \in R : /\ \A i \in 1 .. Len(s) : s[i].ref = r => Performed(s[i], v[r]) = t[r]
                 /\ (\A i \in 1 .. Len(s) : s[i].ref # r) => v[r] = t[r]

(* The progress has not passed the actions of a list, but for those that have    *)
(* the serial number of a dependency that the run is done with.                 *)
Unpassed(s, m, pulled) ==
    \A i \in 1 .. Len(s) : s[i].source \in DOMAIN m =>
        \/ m[s[i].source] < s[i].serial
        \/ m[s[i].source] = s[i].serial /\ (s[i].dependency \/ <<s[i].source, s[i].serial>> \in pulled)

LEMMA AutoinstalledAre ==
  /\ Autoinstalled \subseteq Ref /\ \A f \in File : Refs(f) \subseteq Autoinstalled
  /\ \A r \in Autoinstalled : \E f \in File : r \in Refs(f)
<1>1. DOMAIN Entries = File
  BY InstallerAssumption DEF File
<1>2. \A f \in File : Refs(f) \subseteq Autoinstalled
  BY <1>1 DEF Refs, Autoinstalled
<1>3. \A r \in Autoinstalled : \E f \in File : r \in Refs(f)
  BY <1>1 DEF Refs, Autoinstalled
<1> QED
  BY <1>2, <1>3, RefsAre

LEMMA FittingIs ==
  ASSUME NEW A, Filed(A), NEW b, Fits(A, b)
  PROVE  /\ b.source \in File /\ \E c \in A[b.source] : c.serial = b.serial
         /\ b.ref \in Autoinstalled => /\ ~b.dependency /\ b \in A[b.source] /\ b \in ListedOf(b.source)
                                       /\ b.ref \in Refs(b.source)
  BY RefsAre DEF Filed, Fits

LEMMA JoinedSerials == \A a \in Joined : a.serial \in Int32 /\ a.serial \in Int /\ a.dependency \in BOOLEAN
<1>1. Int32 \subseteq Int
  BY MaxIntAssumption DEF Int32
<1> QED
  BY <1>1 DEF Joined

LEMMA ProgsAre == \A progs \in Progs : DOMAIN progs \subseteq File /\ \A f \in DOMAIN progs : progs[f] \in Int32 /\ progs[f] \in Int
<1>1. Int32 \subseteq Int
  BY MaxIntAssumption DEF Int32
<1> QED
  BY <1>1 DEF Progs

LEMMA NewIs ==
  ASSUME NEW A, Actionable(A), NEW f, NEW progs \in Progs
  PROVE  IsBeyond(New(A, f, progs), A) /\ Actionable(New(A, f, progs))
<1>1. \A a \in A : a.serial \in Int
  BY SerialsAre DEF Actionable
<1>2. f \in DOMAIN progs => progs[f] \in Int
  BY ProgsAre
<1> QED
  BY <1>1, <1>2 DEF IsBeyond, New, Actionable

(* A flatpak that is as it should be stays so, whatever the progress.            *)
LEMMA StaysGood ==
  ASSUME NEW A, Filed(A), NEW o, NEW t, AskFor(A, o, t), NEW f \in File, NEW r \in Refs(f), NEW progs \in Progs
  PROVE  Makes(New(A[f], f, progs), r, t[r], t[r])
<1> DEFINE B == New(A[f], f, progs)
           C == A[f]
<1>1. Actionable(C) /\ IsBeyond(B, C)
  BY NewIs DEF Filed
<1>2. Makes(C, r, o[r], t[r])
  BY DEF AskFor
<1> HIDE DEF B, C
<1>3. Makes(B, r, t[r], t[r])
  BY <1>1, <1>2, Settled
<1> QED
  BY <1>3 DEF B

LEMMA Fewer ==
  ASSUME NEW R, NEW Q, Q \subseteq R, NEW v, NEW t
  PROVE  /\ \A A, progs : Good(R, A, v, t, progs) => Good(Q, A, v, t, progs)
         /\ \A s : Brings(R, v, t, s) => Brings(Q, v, t, s)
<1>1. \A A, progs : Good(R, A, v, t, progs) => Good(Q, A, v, t, progs)
  BY DEF Good, GoodIn
<1> QED
  BY <1>1 DEF Brings

LEMMA OneAfter ==
  ASSUME NEW v \in Installed, NEW a \in Joined
  PROVE  /\ StateAfter(v, a) \in Installed /\ a.ref \in Ref
         /\ StateAfter(v, a)[a.ref] = Performed(a, v[a.ref])
         /\ \A r \in Ref : r # a.ref => StateAfter(v, a)[r] = v[r]
<1>1. a.ref \in Ref /\ v[a.ref] \in Version
  BY DEF Joined, Installed
<1>2. Performed(a, v[a.ref]) \in Version
  BY DEF Performed, Joined, Type, Version
<1> QED
  BY <1>1, <1>2 DEF StateAfter, Installed

(* Where flatpaks either are as they were or become what they should be, no       *)
(* progress and no list is the worse for it.                                   *)
LEMMA Approaching ==
  ASSUME NEW A, Filed(A), NEW o, NEW t, AskFor(A, o, t), NEW R, NEW v, NEW w,
         \A r \in R : w[r] = v[r] \/ w[r] = t[r]
  PROVE  /\ \A progs \in Progs : Good(R, A, v, t, progs) => Good(R, A, w, t, progs)
         /\ \A s \in Seq(Joined) : Brings(R, v, t, s) => Brings(R, w, t, s)
<1>1. ASSUME NEW progs \in Progs, Good(R, A, v, t, progs)
      PROVE  Good(R, A, w, t, progs)
  <2> SUFFICES ASSUME NEW f \in File, NEW r \in Refs(f) \cap R
               PROVE  Makes(New(A[f], f, progs), r, w[r], t[r])
    BY DEF Good, GoodIn
  <2>1. Makes(New(A[f], f, progs), r, v[r], t[r])
    BY <1>1 DEF Good, GoodIn
  <2>2. Makes(New(A[f], f, progs), r, t[r], t[r])
    BY StaysGood
  <2> QED
    BY <2>1, <2>2
<1>2. ASSUME NEW s \in Seq(Joined), Brings(R, v, t, s), NEW r \in R
      PROVE  /\ \A i \in 1 .. Len(s) : s[i].ref = r => Performed(s[i], w[r]) = t[r]
             /\ (\A i \in 1 .. Len(s) : s[i].ref # r) => w[r] = t[r]
  <2>1. \A a \in Joined : \A x : Performed(a, Performed(a, x)) = Performed(a, x)
    BY DEF Performed, Joined, Type
  <2>2. \A i \in 1 .. Len(s) : s[i] \in Joined
    BY ElementOfSeq
  <2>3. ASSUME NEW i \in 1 .. Len(s), s[i].ref = r
        PROVE  Performed(s[i], w[r]) = t[r]
    <3>1. Performed(s[i], v[r]) = t[r]
      BY <1>2, <2>3 DEF Brings
    <3>2. Performed(s[i], t[r]) = t[r]
      BY <2>1, <2>2, <3>1
    <3> QED
      BY <3>1, <3>2
  <2>4. (\A i \in 1 .. Len(s) : s[i].ref # r) => w[r] = t[r]
    BY <1>2 DEF Brings
  <2> QED
    BY <2>3, <2>4
<1>3. \A s \in Seq(Joined) : Brings(R, v, t, s) => Brings(R, w, t, s)
  BY <1>2 DEF Brings
<1> QED
  BY <1>1, <1>3

LEMMA TailIs ==
  ASSUME NEW S, NEW s \in Seq(S), s # <<>>
  PROVE  /\ Len(s) \in Nat /\ 1 \in 1 .. Len(s) /\ Head(s) = s[1] /\ s[1] \in S
         /\ Tail(s) \in Seq(S) /\ Len(Tail(s)) = Len(s) - 1
         /\ \A i \in 1 .. Len(s) - 1 : i + 1 \in 1 .. Len(s) /\ i + 1 # 1 /\ 1 < i + 1 /\ Tail(s)[i] = s[i + 1]
<1>1. Len(s) \in Nat /\ Len(s) # 0
  BY LenProperties, EmptySeq
<1>2. 1 \in 1 .. Len(s)
  BY <1>1
<1>3. Head(s) = s[1] /\ s[1] \in S
  BY <1>2, ElementOfSeq, HeadTailProperties
<1>4. Tail(s) \in Seq(S) /\ Len(Tail(s)) = Len(s) - 1 /\ \A i \in 1 .. Len(Tail(s)) : Tail(s)[i] = s[i + 1]
  BY HeadTailProperties
<1> QED
  BY <1>1, <1>2, <1>3, <1>4

LEMMA TailRuns ==
  ASSUME NEW A, NEW s, Runnable(A, s), s # <<>>
  PROVE  Runnable(A, Tail(s))
<1>1. s \in Seq(Joined)
  BY DEF Runnable
<1>2. /\ Len(s) \in Nat /\ Tail(s) \in Seq(Joined) /\ Len(Tail(s)) = Len(s) - 1
      /\ \A i \in 1 .. Len(s) - 1 : i + 1 \in 1 .. Len(s) /\ Tail(s)[i] = s[i + 1]
  BY <1>1, TailIs
<1> DEFINE u == Tail(s)
           n == Len(s)
<1> HIDE DEF u, n
<1>3. \A i \in 1 .. Len(u) : Fits(A, u[i])
  BY <1>2 DEF Runnable, u, n
<1>4. ASSUME NEW i \in 1 .. n - 1, NEW j \in 1 .. n - 1
      PROVE  /\ ~u[i].dependency /\ u[i].ref = u[j].ref => i = j
             /\ i < j /\ u[i].source = u[j].source => u[i].serial <= u[j].serial
  <2>1. i + 1 \in 1 .. n /\ j + 1 \in 1 .. n /\ u[i] = s[i + 1] /\ u[j] = s[j + 1]
    BY <1>2 DEF u, n
  <2>2. (i + 1 = j + 1 => i = j) /\ (i < j => i + 1 < j + 1)
    BY <1>2
  <2> QED
    BY <2>1, <2>2 DEF Runnable, n
<1> QED
  BY <1>2, <1>3, <1>4 DEF Runnable, u, n

(* The first action of a list is over: what it is about is as it should be, or it *)
(* is not considered, and the others are as they were.                         *)
LEMMA TailBrings ==
  ASSUME NEW A, NEW R, R \subseteq Autoinstalled, NEW v, NEW w, NEW t, NEW s, Runnable(A, s), s # <<>>, Brings(R, v, t, s),
         \A r \in R : w[r] = IF r = s[1].ref THEN t[r] ELSE v[r]
  PROVE  Brings(R, w, t, Tail(s))
<1> DEFINE n == Len(s)
           u == Tail(s)
<1>1. /\ n \in Nat /\ 1 \in 1 .. n /\ Len(u) = n - 1
      /\ \A i \in 1 .. n - 1 : i + 1 \in 1 .. n /\ i + 1 # 1 /\ u[i] = s[i + 1]
  BY TailIs DEF Runnable
<1> HIDE DEF u
<1> SUFFICES ASSUME NEW r \in R
             PROVE  /\ \A i \in 1 .. n - 1 : u[i].ref = r => Performed(u[i], w[r]) = t[r]
                    /\ (\A i \in 1 .. n - 1 : u[i].ref # r) => w[r] = t[r]
  BY <1>1 DEF Brings, u
<1>2. ASSUME NEW i \in 1 .. n - 1, u[i].ref = r
      PROVE  Performed(u[i], w[r]) = t[r]
  <2>1. s[i + 1].ref = r /\ i + 1 \in 1 .. n /\ i + 1 # 1 /\ u[i] = s[i + 1]
    BY <1>1, <1>2
  <2>2. ~s[i + 1].dependency
    BY <2>1 DEF Runnable, Fits
  <2>3. r # s[1].ref
    BY <1>1, <2>1, <2>2 DEF Runnable
  <2> QED
    BY <2>1, <2>3 DEF Brings
<1>3. ASSUME \A i \in 1 .. n - 1 : u[i].ref # r, r # s[1].ref
      PROVE  w[r] = t[r]
  <2>1. ASSUME NEW i \in 1 .. n, s[i].ref = r
        PROVE  FALSE
    <3>1. i # 1
      BY <1>3, <2>1
    <3>2. i - 1 \in 1 .. n - 1 /\ (i - 1) + 1 = i
      BY <1>1, <3>1
    <3>3. u[i - 1] = s[i]
      BY <1>1, <3>2
    <3> QED
      BY <1>3, <2>1, <3>2, <3>3
  <2>2. v[r] = t[r]
    BY <2>1 DEF Brings
  <2> QED
    BY <1>3, <2>2
<1> QED
  BY <1>2, <1>3

Marked(progs, a, p) ==
    /\ DOMAIN p = DOMAIN progs \cup {a.source} /\ p[a.source] = a.serial
    /\ \A f \in DOMAIN progs : f # a.source => p[f] = progs[f]

LEMMA WithIs ==
  ASSUME NEW A, Filed(A), NEW progs, Known(A, progs), NEW a, Fits(A, a)
  PROVE  LET p == WithProgress(progs, a) IN Known(A, p) /\ p \in Progs /\ Marked(progs, a, p)
<1> DEFINE w == WithProgress(progs, a)
<1>0. PICK c \in A[a.source] : c.serial = a.serial
  BY FittingIs
<1>1. /\ DOMAIN progs \subseteq File /\ (\A f \in DOMAIN progs : progs[f] \in Int32) /\ a.source \in File
      /\ a.serial \in Int32
  <2>1. a.source \in File /\ c \in ListedOf(a.source)
    BY FittingIs DEF Filed
  <2> QED
    BY <1>0, <2>1, ProgsAre, RefsAre, SerialsAre DEF Known
<1>2. /\ DOMAIN w = DOMAIN progs \cup {a.source}
      /\ w[a.source] = a.serial
      /\ \A f \in DOMAIN progs : f # a.source => w[f] = progs[f]
  BY DEF WithProgress
<1>3. w \in [DOMAIN progs \cup {a.source} -> Int32]
  BY <1>1 DEF WithProgress
<1>4. w \in Progs
  BY <1>1, <1>3 DEF Progs
<1> HIDE DEF w
<1>5. Known(A, w)
  BY <1>0, <1>2, <1>4 DEF Known
<1> QED
  BY <1>2, <1>4, <1>5 DEF w, Marked

(* A step of a run: its progress becomes that of the first action.              *)
LEMMA StaysUnpassed ==
  ASSUME NEW A, Filed(A), NEW s, Runnable(A, s), s # <<>>, NEW m, NEW w, Marked(m, s[1], w),
         NEW pulled, Unpassed(s, m, pulled)
  PROVE  Unpassed(Tail(s), w, IF s[1].dependency THEN pulled \cup {<<s[1].source, s[1].serial>>} ELSE pulled)
<1> DEFINE a == s[1]
           P == IF a.dependency THEN pulled \cup {<<a.source, a.serial>>} ELSE pulled
           u == Tail(s)
           n == Len(s)
<1>1. /\ n \in Nat /\ 1 \in 1 .. n /\ a \in Joined /\ Len(u) = n - 1
      /\ \A i \in 1 .. n - 1 : i + 1 \in 1 .. n /\ i + 1 # 1 /\ 1 < i + 1 /\ u[i] = s[i + 1]
      /\ \A i \in 1 .. n : s[i] \in Joined
  BY TailIs, ElementOfSeq DEF Runnable
<1>2. DOMAIN w = DOMAIN m \cup {a.source} /\ w[a.source] = a.serial /\ \A f \in DOMAIN m : f # a.source => w[f] = m[f]
  BY DEF Marked
<1> SUFFICES ASSUME NEW i \in 1 .. n - 1, u[i].source \in DOMAIN w
             PROVE  \/ w[u[i].source] < u[i].serial
                    \/ w[u[i].source] = u[i].serial /\ (u[i].dependency \/ <<u[i].source, u[i].serial>> \in P)
  BY <1>1 DEF Unpassed
<1> DEFINE b == s[i + 1]
<1>3. u[i] = b /\ i + 1 \in 1 .. n /\ i + 1 # 1 /\ 1 < i + 1 /\ b \in Joined
  BY <1>1
<1>4. Fits(A, a) /\ Fits(A, b)
  BY <1>1, <1>3 DEF Runnable
<1>5. b.source = a.source => a.serial <= b.serial
  BY <1>1, <1>3 DEF Runnable
<1>6. ~a.dependency => b.ref # a.ref
  BY <1>1, <1>3 DEF Runnable
<1>7. b.source \in DOMAIN m => \/ m[b.source] < b.serial
                               \/ m[b.source] = b.serial /\ (b.dependency \/ <<b.source, b.serial>> \in pulled)
  BY <1>3 DEF Unpassed
<1>8. a.serial \in Int /\ b.serial \in Int
  BY <1>1, <1>3, JoinedSerials
<1> HIDE DEF a, b, u
<1>9. CASE b.source # a.source
  BY <1>2, <1>3, <1>7, <1>9
<1>10. CASE b.source = a.source
  <2>1. a.serial < b.serial \/ a.serial = b.serial
    BY <1>5, <1>8, <1>10
  <2>2. ASSUME a.serial = b.serial, ~a.dependency, ~b.dependency
        PROVE  FALSE
    <3>1. a \in A[a.source] /\ b \in A[a.source] /\ a.source \in File
      BY <1>4, <1>10, <2>2 DEF Fits
    <3>2. a = b
      BY <2>2, <3>1 DEF Filed, Actionable
    <3> QED
      BY <1>6, <2>2, <3>2
  <2> QED
    BY <1>2, <1>3, <1>10, <2>1, <2>2
<1> QED
  BY <1>9, <1>10

(* A progress that has not passed what a run left is as good as any, except for   *)
(* what has the serial number of a dependency.                                *)
LEMMA SavedGood ==
  ASSUME OneFileForEach, NEW A, Filed(A), NEW o, NEW t, AskFor(A, o, t), NEW R, R \subseteq Autoinstalled, NEW v,
         NEW s, Runnable(A, s), Brings(R, v, t, s), NEW m \in Progs, NEW pulled, Unpassed(s, m, pulled),
         NEW Q, Q \subseteq R,
         \A i \in 1 .. Len(s) : ~s[i].dependency /\ <<s[i].source, s[i].serial>> \in pulled => s[i].ref \notin Q,
         NEW f \in DOMAIN m
  PROVE  GoodIn(Q, A, v, t, f, m)
<1>1. f \in File
  BY ProgsAre
<1> SUFFICES ASSUME NEW r \in Refs(f) \cap Q
             PROVE  Makes(New(A[f], f, m), r, v[r], t[r])
  BY DEF GoodIn
<1>2. Makes(New(A[f], f, m), r, t[r], t[r])
  BY <1>1, StaysGood
<1>3. CASE \A i \in 1 .. Len(s) : s[i].ref # r
  <2>1. v[r] = t[r]
    BY <1>3 DEF Brings
  <2> QED
    BY <1>2, <2>1
<1>4. CASE \E i \in 1 .. Len(s) : s[i].ref = r
  <2>1. PICK i \in 1 .. Len(s) : s[i].ref = r
    BY <1>4
  <2> DEFINE b == s[i]
  <2>2. Performed(b, v[r]) = t[r] /\ b.ref = r
    BY <2>1 DEF Brings
  <2>3. ~b.dependency /\ b \in A[b.source] /\ b.source \in File /\ b.ref \in Refs(b.source)
    BY <2>1, FittingIs DEF Runnable
  <2>4. <<b.source, b.serial>> \notin pulled
    BY <2>1, <2>3
  <2>5. b.source \in DOMAIN m => m[b.source] < b.serial
    BY <2>3, <2>4 DEF Unpassed
  <2>6. b \in Joined
    BY ElementOfSeq DEF Runnable
  <2> HIDE DEF b
  <2>7. b.source = f
    BY <1>1, <2>2, <2>3, RefsAre
  <2>8. b \in New(A[f], f, m)
    <3>1. b.serial \in Int /\ m[f] \in Int
      BY <2>6, JoinedSerials, ProgsAre
    <3> QED
      BY <2>3, <2>5, <2>7, <3>1 DEF New
  <2> DEFINE C == A[f]
             B == New(A[f], f, m)
             x == v[r]
  <2>9. Actionable(C) /\ IsBeyond(B, C)
    BY <1>1, NewIs DEF Filed
  <2>10. Makes(C, r, o[r], t[r])
    BY <1>1 DEF AskFor
  <2>11. b \in B /\ b.ref = r /\ Performed(b, x) = t[r]
    BY <2>2, <2>8
  <2> HIDE DEF B, C, x
  <2>12. Makes(B, r, x, t[r])
    BY <2>9, <2>10, <2>11, Reaches
  <2> QED
    BY <2>12 DEF B, x
<1> QED
  BY <1>3, <1>4

LEMMA TargetsAgree ==
  ASSUME NEW A, Filed(A), NEW o, NEW t, NEW u, AskFor(A, o, t), AskFor(A, o, u)
  PROVE  t = u
<1>1. ASSUME NEW f \in File, NEW r \in Refs(f)
      PROVE  t[r] = u[r]
  <2> DEFINE C == A[f]
  <2>1. Actionable(C) /\ Makes(C, r, o[r], t[r]) /\ Makes(C, r, o[r], u[r])
    BY DEF Filed, AskFor
  <2> HIDE DEF C
  <2> QED
    BY <2>1, MakesOne
<1>2. \A r \in Ref : t[r] = u[r]
  BY <1>1 DEF AskFor
<1>3. t \in Installed /\ u \in Installed
  BY DEF AskFor
<1> QED
  BY <1>2, <1>3 DEF Installed

(* One more entry, in one of the files: an action, or nothing.                  *)
Extended(A, B, f, a) ==
    /\ f \in File /\ \A g \in File : g # f => B[g] = A[g]
    /\ \/ B[f] = A[f]
       \/ a \in Listed /\ B[f] = A[f] \cup {a} /\ \A b \in A[f] : b.serial < a.serial

LEMMA Extending ==
  ASSUME NEW A, Filed(A), NEW B, Filed(B), NEW f, NEW a, Extended(A, B, f, a),
         NEW o \in Installed, NEW t, AskFor(A, o, t), NEW u, AskFor(B, o, u), NEW v \in Installed, NEW R
  PROVE  /\ \A progs : Known(A, progs) => Known(B, progs)
         /\ \A progs : Known(A, progs) /\ Good(R, A, v, t, progs) => Good(R, B, v, u, progs)
<1>1. \A g \in File : A[g] \subseteq B[g]
  BY DEF Extended
<1>2. ASSUME NEW progs, Known(A, progs)
      PROVE  Known(B, progs)
  BY <1>1, <1>2, ProgsAre DEF Known
<1>3. ASSUME NEW progs, Known(A, progs), Good(R, A, v, t, progs), NEW g \in File, NEW r \in Refs(g) \cap R
      PROVE  Makes(New(B[g], g, progs), r, v[r], u[r])
  <2> DEFINE C == A[g]
             D == B[g]
             x == v[r]
             z == o[r]
             tr == t[r]
             ur == u[r]
             E == New(A[g], g, progs)
  <2>1. /\ Actionable(C) /\ Actionable(D) /\ Makes(C, r, z, tr) /\ Makes(D, r, z, ur)
        /\ Makes(E, r, x, tr) /\ r \in Ref
    BY <1>3, RefsAre DEF Filed, AskFor, Good, GoodIn
  <2>2. Actionable(E) /\ progs \in Progs
    BY <1>3, NewIs DEF Known, Filed
  <2>3. x \in Version /\ z \in Version
    BY <2>1 DEF Installed
  <2>4. CASE D = C
    <3> HIDE DEF C, D, z, tr, ur
    <3>1. tr = ur
      BY <2>1, <2>4, MakesOne
    <3> QED
      BY <2>1, <2>4, <3>1 DEF C, D, tr, ur
  <2>5. CASE a \in Listed /\ D = C \cup {a} /\ \A b \in C : b.serial < a.serial
    <3>1. New(B[g], g, progs) = E \cup {a}
      <4>1. ASSUME g \in DOMAIN progs
            PROVE  a.serial > progs[g]
        <5>1. PICK b \in C : b.serial = progs[g]
          BY <1>3, <4>1 DEF Known
        <5>2. a.serial \in Int /\ progs[g] \in Int
          BY <2>2, <2>5, <4>1, SerialsAre, ProgsAre
        <5> QED
          BY <2>5, <5>1, <5>2
      <4> QED
        BY <2>5, <4>1 DEF New
    <3>2. \A b \in E : b \in C
      BY DEF New
    <3> HIDE DEF C, D, E, x, z, tr, ur
    <3>3. Makes(C \cup {a}, r, z, IF a.ref = r THEN Performed(a, tr) ELSE tr)
      BY <2>1, <2>3, <2>5, MakesMore
    <3>4. ur = IF a.ref = r THEN Performed(a, tr) ELSE tr
      BY <2>1, <2>5, <3>3, MakesOne
    <3>5. \A b \in E : b.serial < a.serial
      BY <2>5, <3>2
    <3>6. Makes(E \cup {a}, r, x, IF a.ref = r THEN Performed(a, tr) ELSE tr)
      BY <2>1, <2>2, <2>3, <2>5, <3>5, MakesMore
    <3> QED
      BY <3>1, <3>4, <3>6 DEF x, ur
  <2> QED
    BY <2>4, <2>5 DEF Extended
<1> QED
  BY <1>2, <1>3 DEF Good, GoodIn

(* What is new after a good progress brings the target about.                   *)
LEMMA Beginning ==
  ASSUME NEW A, Filed(A), NEW R, R \subseteq Autoinstalled, NEW v \in Installed, NEW t,
         NEW progs \in Progs, Good(R, A, v, t, progs), NEW q, Squashed(Ahead(A, progs), q)
  PROVE  Brings(R, v, t, q)
<1> DEFINE D(f) == New(A[f], f, progs)
<1>1. \A f \in File : Ahead(A, progs)[f] = D(f) /\ Actionable(D(f))
  BY NewIs DEF Ahead, Filed
<1>2. ASSUME NEW f \in File, NEW r \in Refs(f) \cap R
      PROVE  Makes(D(f), r, v[r], t[r])
  BY DEF Good, GoodIn
<1> HIDE DEF D
<1>3. ASSUME NEW i \in 1 .. Len(q), q[i].ref \in R
      PROVE  Performed(q[i], v[q[i].ref]) = t[q[i].ref]
  <2> DEFINE f == q[i].source
             b == q[i]
             C == D(q[i].source)
             x == v[q[i].ref]
  <2>1. f \in File /\ b \in ListedOf(f) /\ Stays(C, b)
    BY <1>1 DEF Squashed
  <2>2. b.ref \in Refs(f) /\ Actionable(C)
    BY <1>1, <2>1, RefsAre
  <2>3. Makes(C, b.ref, x, t[b.ref])
    BY <1>2, <1>3, <2>1, <2>2
  <2> HIDE DEF C, b, x
  <2>4. Makes(C, b.ref, x, Performed(b, x))
    BY <2>1, <2>2, StaysMakes
  <2>5. Performed(b, x) = t[b.ref]
    BY <2>2, <2>3, <2>4, MakesOne
  <2> QED
    BY <2>5 DEF b, x
<1>4. ASSUME NEW r \in R, \A i \in 1 .. Len(q) : q[i].ref # r
      PROVE  v[r] = t[r]
  <2>1. PICK f \in File : r \in Refs(f)
    BY AutoinstalledAre
  <2>2. \A a \in D(f) : a.ref # r
    BY <1>1, <1>4 DEF Squashed
  <2>3. Makes(D(f), r, v[r], t[r])
    BY <1>2, <2>1
  <2> QED
    BY <2>2, <2>3 DEF Makes, IsLast, Decisive, Of
<1> QED
  BY <1>3, <1>4 DEF Brings

LEMMA Ending ==
  ASSUME NEW v \in Installed, NEW t, NEW q \in Seq(Listed), NEW R, R \subseteq Ref, Brings(R, v, t, q), NEW r \in R
  PROVE  Effect(q, v)[r] = t[r]
<1> DEFINE w == Effect(q, v)
           l == Remaining(q, r)
<1>1. Tells(q, r, Len(q), l, v[r], w[r])
  BY EffectIs
<1> HIDE DEF w, l
<1>2. CASE l = 0
  BY <1>1, <1>2 DEF Tells, Brings, w
<1>3. CASE l # 0
  <2>1. Len(q) \in Nat
    BY LenProperties
  <2>2. l \in 1 .. Len(q) /\ q[l].ref = r /\ w[r] = Performed(q[l], v[r])
    BY <1>1, <1>3, <2>1 DEF Tells
  <2> QED
    BY <2>2 DEF Brings, w
<1> QED
  BY <1>2, <1>3

(* The list that is squashed out of what is new can be performed.               *)
LEMMA SquashedRuns ==
  ASSUME NEW A, Filed(A), NEW progs \in Progs, NEW q, Squashed(Ahead(A, progs), q)
  PROVE  /\ Runnable(A, q)
         /\ \A i \in 1 .. Len(q) : ~q[i].dependency /\ q[i] \in New(A[q[i].source], q[i].source, progs)
<1>1. ASSUME NEW i \in 1 .. Len(q)
      PROVE  /\ q[i] \in Listed /\ q[i].source \in File /\ q[i] \in New(A[q[i].source], q[i].source, progs)
             /\ q[i] \in A[q[i].source]
  BY ElementOfSeq DEF Squashed, Stays, Ahead, New
<1>2. \A i \in 1 .. Len(q) : ~q[i].dependency
  BY <1>1, SerialsAre
<1>3. q \in Seq(Joined)
  <2>1. Listed \subseteq Joined
    BY DEF Listed, Joined
  <2> QED
    BY <2>1, SeqMonotonic DEF Squashed
<1>4. \A i, j \in 1 .. Len(q) : q[i].ref = q[j].ref => i = j
  BY DEF Squashed
<1>5. \A i, j \in 1 .. Len(q) : i < j => q[i].serial <= q[j].serial
  BY DEF Squashed
<1> QED
  BY <1>1, <1>2, <1>3, <1>4, <1>5 DEF Runnable, Fits

(* So can the list that the dependencies have joined.                          *)
LEMMA PulledRuns ==
  ASSUME WellKept, NEW A, Filed(A), NEW progs \in Progs, NEW F, Squashed(Ahead(A, progs), F), NEW v \in Installed
  PROVE  LET q == euu_add_dependency_ref_actions_for_installation(F, v)
         IN  /\ Runnable(A, q)
             /\ \A R \in SUBSET Autoinstalled : \A t : Brings(R, v, t, F) => Brings(R, v, t, q)
             /\ \A i \in 1 .. Len(q) : \E x \in 1 .. Len(F) : q[i].source = F[x].source /\ q[i].serial = F[x].serial
             /\ \A x \in 1 .. Len(F) : \E i \in 1 .. Len(q) : q[i] = F[x]
<1> DEFINE q == euu_add_dependency_ref_actions_for_installation(F, v)
           L == Autoinstalled
<1>1. /\ F \in Seq(Listed) /\ Len(F) \in Nat
      /\ \A i \in 1 .. Len(F) : /\ F[i] \in Listed /\ F[i].source \in File /\ F[i] \in A[F[i].source]
                                /\ F[i] \in ListedOf(F[i].source)
  BY ElementOfSeq, LenProperties DEF Squashed, Stays, Ahead, New
<1>2. \A i \in 1 .. Len(F) : F[i].ref \in L
  BY <1>1, RefsAre, AutoinstalledAre
<1>3. OneEach(F, L)
  BY <1>1, <1>2 DEF OneEach, Squashed
<1>4. NoneNeeded(L)
  BY DEF WellKept, DependenciesElsewhere, NoneNeeded, Needs
<1>5. \A j, k \in 1 .. Len(F) : F[j].serial - F[k].serial \in Int32
  BY <1>1, Close DEF WellKept
<1> HIDE DEF L
<1>6. Pulled(q, F, v)
  BY <1>3, <1>4, <1>5, PulledIs
<1> HIDE DEF q
<1>7. ASSUME NEW i \in 1 .. Len(q)
      PROVE  \E x \in 1 .. Len(F) : /\ q[i].source = F[x].source /\ q[i].serial = F[x].serial
                                    /\ IF q[i].dependency THEN q[i].ref \notin L ELSE q[i] = F[x]
  <2>1. From(q[i], F, Len(F), v)
    BY <1>6 DEF Pulled
  <2> DEFINE n == Len(F)
             b == q[i]
  <2>2. n \in Nat /\ n <= Len(F) /\ From(b, F, n, v)
    BY <1>1, <2>1
  <2> HIDE DEF n, b
  <2>3. \E x \in 1 .. n : /\ x \in 1 .. Len(F) /\ b.source = F[x].source /\ b.serial = F[x].serial
                          /\ IF b.dependency THEN b.ref \notin L ELSE b = F[x]
    BY <1>3, <1>4, <2>2, FromIs
  <2> QED
    BY <2>3 DEF n, b
<1>8. ASSUME NEW i \in 1 .. Len(q)
      PROVE  Fits(A, q[i])
  <2>1. PICK x \in 1 .. Len(F) : /\ q[i].source = F[x].source /\ q[i].serial = F[x].serial
                                 /\ IF q[i].dependency THEN q[i].ref \notin L ELSE q[i] = F[x]
    BY <1>7
  <2>2. F[x].source \in File /\ F[x] \in A[F[x].source]
    BY <1>1
  <2> QED
    BY <2>1, <2>2 DEF Fits, L
<1>9. Runnable(A, q)
  BY <1>6, <1>8 DEF Runnable, Pulled
<1>10. ASSUME NEW R \in SUBSET L, NEW t, Brings(R, v, t, F), NEW r \in R
       PROVE  /\ \A i \in 1 .. Len(q) : q[i].ref = r => Performed(q[i], v[r]) = t[r]
              /\ (\A i \in 1 .. Len(q) : q[i].ref # r) => v[r] = t[r]
  <2>1. ASSUME NEW i \in 1 .. Len(q), q[i].ref = r
        PROVE  Performed(q[i], v[r]) = t[r]
    <3>1. \E x \in 1 .. Len(F) : q[i] = F[x]
      BY <1>7, <2>1
    <3> QED
      BY <1>10, <2>1, <3>1 DEF Brings
  <2>2. ASSUME \A i \in 1 .. Len(q) : q[i].ref # r
        PROVE  v[r] = t[r]
    <3>1. \A x \in 1 .. Len(F) : F[x].ref # r
      BY <1>6, <2>2 DEF Pulled
    <3> QED
      BY <1>10, <3>1 DEF Brings
  <2> QED
    BY <2>1, <2>2
<1>11. \A R \in SUBSET L : \A t : Brings(R, v, t, F) => Brings(R, v, t, q)
  BY <1>10 DEF Brings
<1>12. \A x \in 1 .. Len(F) : \E i \in 1 .. Len(q) : q[i] = F[x]
  BY <1>6 DEF Pulled
<1> QED
  BY <1>7, <1>9, <1>11, <1>12 DEF q, L

-----------------------------------------------------------------------------
(* The invariant: what the state is made of, and that nothing is lost from it.    *)

RunSet ==
    [pc : {"idle", "apply", "load", "save"}, mode : Modes \cup {"perform"}, actions : Seq(Joined),
     progresses : Progs, pulled : SUBSET (File \X Int32), left : Seq(Joined), loaded : Progs,
     status : {"none", "ok", "failed", "deltas"}]

(* What a run has not done: what it still has to do, or what it left.            *)
Rest(x) == IF x.left = <<>> THEN x.actions ELSE x.left

RunRight(A, x) ==
    /\ x \in RunSet
    /\ Known(A, x.progresses) /\ Known(A, x.loaded)
    /\ Runnable(A, Rest(x)) /\ Unpassed(Rest(x), x.progresses, x.pulled)
    /\ x.pc # "apply" => x.actions = <<>>
    /\ x.pc = "apply" => x.left = <<>>
    /\ x.pc = "idle" => x.left = <<>> /\ x.progresses = <<>>

Asked == Asks(directory, system)

Right ==
    /\ Holds(directory, system) /\ \A f \in File : Len(directory[f]) <= MaxEntries
    /\ installed \in Installed /\ origin \in Installed
    /\ Known(Asked, counter) /\ overtaken \subseteq Process /\ skipped \subseteq Ref
    /\ run \in [Process -> RunSet] /\ \A p \in Process : RunRight(Asked, run[p])

RunGood(R, A, v, t, x) ==
    /\ x.pc = "save" => Good(R, A, v, t, x.loaded)
    /\ x.pc # "idle" => Brings(R, v, t, Rest(x))

Lossless(R, A, v, t, progs, runs) ==
    Good(R, A, v, t, progs) /\ \A p \in Process : RunGood(R, A, v, t, runs[p])

Due == Autoinstalled \ skipped
NothingLost == Lossless(Due, Asked, installed, Target, counter, run)

LEMMA AskedFor ==
  ASSUME WellKept, Right
  PROVE  Filed(Asked) /\ AskFor(Asked, origin, Target)
<1>1. Holds(directory, system) /\ origin \in Installed
  BY DEF Right
<1>2. Filed(Asks(directory, system))
  BY <1>1, AsksAre DEF WellKept
<1>3. AskFor(Asks(directory, system), origin, Effect(Concatenated(LoadedFrom(directory, system).table), origin))
  BY <1>1, TargetIs
<1> QED
  BY <1>2, <1>3 DEF Asked, Target, Loaded, LoadedFrom

LEMMA DueAre == Due \subseteq Autoinstalled /\ Due \subseteq Ref
  BY AutoinstalledAre DEF Due

LEMMA NoProgress == <<>> \in Progs /\ \A A : Known(A, <<>>)
<1>1. DOMAIN <<>> = {}
  OBVIOUS
<1>2. <<>> \in [{} -> Int32]
  OBVIOUS
<1>3. <<>> \in Progs
  BY <1>2 DEF Progs
<1> QED
  BY <1>1, <1>3 DEF Known

LEMMA NothingRuns == /\ \A A : Runnable(A, <<>>)
                     /\ \A m, P : Unpassed(<<>>, m, P)
<1>1. <<>> \in Seq(Joined) /\ Len(<<>>) = 0
  BY EmptySeq
<1> QED
  BY <1>1 DEF Runnable, Unpassed

(* A run that is over.                                                        *)
AtRest(x) == x.pc = "idle" /\ x.actions = <<>> /\ x.progresses = <<>> /\ x.left = <<>> /\ x.loaded = <<>>
Over(s) == [Idle EXCEPT !.status = s]

LEMMA OverIs ==
  ASSUME NEW s \in {"none", "ok", "failed", "deltas"}
  PROVE  Over(s) \in RunSet /\ AtRest(Over(s))
  BY EmptySeq, NoProgress DEF Over, Idle, RunSet, AtRest

LEMMA Resting ==
  ASSUME NEW A, NEW x \in RunSet, AtRest(x)
  PROVE  RunRight(A, x) /\ \A R, v, t : RunGood(R, A, v, t, x)
  BY NoProgress, NothingRuns DEF AtRest, RunRight, RunGood, Rest

(* One run goes on.                                                          *)
LEMMA RunsRight ==
  ASSUME Right, NEW p \in Process, NEW x, RunRight(Asked, x), run' = [run EXCEPT ![p] = x],
         UNCHANGED environment, installed' \in Installed, Known(Asked, counter'),
         overtaken' \subseteq Process, skipped' \subseteq Ref
  PROVE  /\ Right' /\ Asked' = Asked /\ Target' = Target /\ run'[p] = x
         /\ \A q \in Process : q # p => run'[q] = run[q]
<1>1. Asked' = Asked /\ Target' = Target /\ directory' = directory /\ system' = system /\ origin' = origin
  BY DEF environment, Asked, Target, Loaded
<1>2. run'[p] = x /\ \A q \in Process : q # p => run'[q] = run[q]
  BY DEF Right
<1>3. run' \in [Process -> RunSet]
  BY DEF Right, RunRight
<1>4. \A q \in Process : RunRight(Asked, run'[q])
  BY <1>2 DEF Right
<1> QED
  BY <1>1, <1>2, <1>3, <1>4 DEF Right

LEMMA OneRun ==
  ASSUME Right, NothingLost, NEW p \in Process, NEW x, run' = [run EXCEPT ![p] = x],
         UNCHANGED <<environment, installed, counter, skipped>>, overtaken' \in {overtaken, overtaken \ {p}},
         RunRight(Asked, x), RunGood(Due, Asked, installed, Target, x)
  PROVE  Right' /\ NothingLost'
<1>1. overtaken' \subseteq Process /\ skipped' \subseteq Ref /\ Due' = Due
  BY DEF Right, Due
<1>2. /\ Right' /\ Asked' = Asked /\ Target' = Target /\ run'[p] = x
      /\ \A q \in Process : q # p => run'[q] = run[q]
  BY <1>1, RunsRight DEF Right
<1>3. Lossless(Due, Asked, installed, Target, counter, run')
  BY <1>2 DEF NothingLost, Lossless
<1> QED
  BY <1>1, <1>2, <1>3 DEF NothingLost

LEMMA Ends ==
  ASSUME Right, NothingLost, NEW p \in Process, NEW s \in {"ok", "failed", "deltas"}, Ended(p, s),
         UNCHANGED <<environment, installed, counter, skipped>>, overtaken' \in {overtaken, overtaken \ {p}}
  PROVE  Right' /\ NothingLost'
<1>1. run' = [run EXCEPT ![p] = Over(s)]
  BY DEF Ended, Over
<1>2. Over(s) \in RunSet /\ AtRest(Over(s))
  BY OverIs
<1>3. RunRight(Asked, Over(s)) /\ RunGood(Due, Asked, installed, Target, Over(s))
  BY <1>2, Resting
<1> QED
  BY <1>1, <1>3, OneRun

LEMMA CheckKeeps ==
  ASSUME Right, NothingLost, NEW p \in Process, Check(p)
  PROVE  Right' /\ NothingLost'
<1>1. \E s \in {"ok", "failed", "deltas"} : Ended(p, s)
  BY DEF Check
<1>2. UNCHANGED <<environment, installed, counter, skipped>> /\ overtaken' = overtaken
  BY DEF Check, history
<1> QED
  BY <1>1, <1>2, Ends

(* What there is to do, without and with the dependencies.                      *)
PendingOf(p) ==
    IF p \in Pulling THEN euu_add_dependency_ref_actions_for_installation(Pending, installed) ELSE Pending

LEMMA PendingAre ==
  ASSUME WellKept, Right
  PROVE  /\ Squashed(Ahead(Asked, counter), Pending) /\ Runnable(Asked, Pending)
         /\ NothingLost => Brings(Due, installed, Target, Pending)
<1>1. Filed(Asked) /\ counter \in Progs /\ installed \in Installed
  BY AskedFor DEF Right, Known
<1>2. Squashed(Ahead(Asked, counter), Pending)
  BY <1>1, ToDo DEF Right, Asked
<1>3. ASSUME NothingLost
      PROVE  Brings(Due, installed, Target, Pending)
  <2>1. Due \subseteq Autoinstalled /\ Good(Due, Asked, installed, Target, counter)
    BY <1>3, DueAre DEF NothingLost, Lossless
  <2> QED
    BY <1>1, <1>2, <2>1, Beginning
<1> QED
  BY <1>1, <1>2, <1>3, SquashedRuns

LEMMA PendingRuns ==
  ASSUME WellKept, Right, NEW p \in Process
  PROVE  /\ Runnable(Asked, PendingOf(p))
         /\ NothingLost => Brings(Due, installed, Target, PendingOf(p))
         /\ \A i \in 1 .. Len(PendingOf(p)) : \E x \in 1 .. Len(Pending) :
                PendingOf(p)[i].source = Pending[x].source /\ PendingOf(p)[i].serial = Pending[x].serial
         /\ \A x \in 1 .. Len(Pending) : \E i \in 1 .. Len(PendingOf(p)) : PendingOf(p)[i] = Pending[x]
<1>1. CASE p \notin Pulling
  BY <1>1, PendingAre DEF PendingOf
<1>2. CASE p \in Pulling
  <2> DEFINE F == Pending
             q == euu_add_dependency_ref_actions_for_installation(Pending, installed)
  <2>1. Filed(Asked) /\ counter \in Progs /\ installed \in Installed /\ Squashed(Ahead(Asked, counter), F)
    BY AskedFor, PendingAre DEF Right, Known
  <2>2. /\ Runnable(Asked, q)
        /\ \A R \in SUBSET Autoinstalled : \A t : Brings(R, installed, t, F) => Brings(R, installed, t, q)
        /\ \A i \in 1 .. Len(q) : \E x \in 1 .. Len(F) : q[i].source = F[x].source /\ q[i].serial = F[x].serial
        /\ \A x \in 1 .. Len(F) : \E i \in 1 .. Len(q) : q[i] = F[x]
    <3> HIDE DEF F
    <3> QED
      BY <2>1, PulledRuns DEF F
  <2>3. PendingOf(p) = q
    BY <1>2 DEF PendingOf
  <2> HIDE DEF q
  <2>4. NothingLost => Brings(Due, installed, Target, q)
    BY <2>2, PendingAre, DueAre
  <2> QED
    BY <2>2, <2>3, <2>4
<1> QED
  BY <1>1, <1>2

Begun(p, mode) == [Idle EXCEPT !.mode = mode, !.pc = "apply", !.actions = PendingOf(p)]

LEMMA Started ==
  ASSUME NEW p \in Process, NEW mode \in Modes, Start(p, mode)
  PROVE  /\ UNCHANGED <<environment, installed, counter, skipped, clean, dropped>> /\ overtaken' = overtaken \ {p}
         /\ \/ Ended(p, "failed")
            \/ run' = [run EXCEPT ![p] = Begun(p, mode)]
  BY DEF Start, PendingOf, Begun

LEMMA StartKeeps ==
  ASSUME WellKept, Right, NothingLost, NEW p \in Process, NEW mode \in Modes, Start(p, mode)
  PROVE  Right' /\ NothingLost'
<1>1. UNCHANGED <<environment, installed, counter, skipped>> /\ overtaken' = overtaken \ {p}
  BY Started
<1>2. CASE Ended(p, "failed")
  BY <1>1, <1>2, Ends
<1>3. CASE run' = [run EXCEPT ![p] = Begun(p, mode)]
  <2> DEFINE q == PendingOf(p)
             x == Begun(p, mode)
  <2>1. Runnable(Asked, q) /\ Brings(Due, installed, Target, q)
    BY PendingRuns
  <2>2. /\ x \in RunSet /\ x.pc = "apply" /\ x.actions = q /\ x.progresses = <<>> /\ x.loaded = <<>>
        /\ x.left = <<>>
    BY <2>1, EmptySeq, NoProgress DEF Runnable, Idle, RunSet, Begun, q
  <2> HIDE DEF x, q
  <2>3. Unpassed(q, <<>>, x.pulled)
    <3>1. DOMAIN <<>> = {}
      OBVIOUS
    <3> QED
      BY <3>1 DEF Unpassed
  <2>4. Rest(x) = q
    BY <2>2 DEF Rest
  <2>5. RunRight(Asked, x)
    BY <2>1, <2>2, <2>3, <2>4, NoProgress DEF RunRight
  <2>6. RunGood(Due, Asked, installed, Target, x)
    BY <2>1, <2>2, <2>4 DEF RunGood
  <2> QED
    BY <1>1, <1>3, <2>5, <2>6, OneRun DEF x
<1> QED
  BY <1>2, <1>3, Started

PulledWith(y) ==
    LET a == Head(y.actions)
    IN  IF a.dependency THEN y.pulled \cup {<<a.source, a.serial>>} ELSE y.pulled
Stepped(y) ==
    [y EXCEPT !.actions = Tail(@), !.progresses = WithProgress(@, Head(y.actions)), !.pulled = PulledWith(y)]

LEMMA Steps ==
  ASSUME NEW p, run \in [Process -> RunSet], p \in Process, Progress(p)
  PROVE  run' = [run EXCEPT ![p] = Stepped(run[p])]
  BY DEF Progress, Stepped, PulledWith, RunSet

LEMMA Stepping ==
  ASSUME NEW A, Filed(A), NEW y, RunRight(A, y), y.pc = "apply", y.actions # <<>>
  PROVE  /\ RunRight(A, Stepped(y)) /\ Stepped(y).pc = "apply" /\ Stepped(y).loaded = y.loaded
         /\ Rest(y) = y.actions /\ Rest(Stepped(y)) = Tail(y.actions) /\ Runnable(A, y.actions)
         /\ Stepped(y).progresses \in Progs /\ Marked(y.progresses, y.actions[1], Stepped(y).progresses)
         /\ Stepped(y).left = <<>> /\ y.left = <<>> /\ Stepped(y).actions = Tail(y.actions)
<1> DEFINE s == y.actions
           a == y.actions[1]
           m == y.progresses
           w == WithProgress(m, a)
           P == IF a.dependency THEN y.pulled \cup {<<a.source, a.serial>>} ELSE y.pulled
           x == Stepped(y)
<1>1. /\ y \in RunSet /\ y.left = <<>> /\ Rest(y) = s /\ Known(A, m) /\ Known(A, y.loaded)
      /\ Runnable(A, s) /\ Unpassed(s, m, y.pulled) /\ s \in Seq(Joined) /\ s # <<>>
  BY DEF RunRight, Rest, Runnable
<1>2. /\ 1 \in 1 .. Len(s) /\ Head(s) = a /\ a \in Joined /\ Tail(s) \in Seq(Joined)
  BY <1>1, TailIs
<1>3. Fits(A, a) /\ a.source \in File /\ a.serial \in Int32
  BY <1>1, <1>2, JoinedSerials DEF Runnable, Fits
<1>4. Known(A, w) /\ w \in Progs /\ Marked(m, a, w)
  <2> HIDE DEF m, a
  <2> QED
    BY <1>1, <1>3, WithIs
<1>5. Unpassed(Tail(s), w, P)
  <2> DEFINE u == y.actions
             g == y.progresses
             k == y.pulled
  <2>1. Runnable(A, u) /\ u # <<>> /\ Marked(g, u[1], w) /\ Unpassed(u, g, k)
    BY <1>1, <1>4
  <2> HIDE DEF u, g, k, w
  <2>2. Unpassed(Tail(u), w, IF u[1].dependency THEN k \cup {<<u[1].source, u[1].serial>>} ELSE k)
    BY <2>1, StaysUnpassed
  <2> QED
    BY <2>2 DEF u, k
<1>6. P \in SUBSET (File \X Int32)
  BY <1>1, <1>3 DEF RunSet
<1>7. /\ x.pc = "apply" /\ x.actions = Tail(s) /\ x.progresses = w /\ x.pulled = P
      /\ x.left = y.left /\ x.loaded = y.loaded /\ x \in RunSet
  <2>1. P = PulledWith(y) /\ w = WithProgress(m, Head(s))
    BY <1>2 DEF PulledWith
  <2> HIDE DEF P, w
  <2> QED
    BY <1>1, <1>2, <1>4, <1>6, <2>1 DEF Stepped, RunSet
<1>8. Runnable(A, Tail(s))
  BY <1>1, TailRuns
<1> HIDE DEF x, w, P
<1>9. Rest(x) = Tail(s) /\ x.left = <<>>
  BY <1>1, <1>7 DEF Rest
<1>10. RunRight(A, x)
  BY <1>1, <1>4, <1>5, <1>7, <1>8, <1>9 DEF RunRight
<1> QED
  BY <1>1, <1>4, <1>7, <1>9, <1>10 DEF x

LEMMA PerformKeeps ==
  ASSUME WellKept, Right, NothingLost, NEW p \in Process, Perform(p)
  PROVE  Right' /\ NothingLost'
<1> DEFINE A == Asked
           y == run[p]
           x == Stepped(run[p])
           s == run[p].actions
           v == installed
           t == Target
           R == Due
           w == StateAfter(installed, run[p].actions[1])
<1>1. /\ Filed(A) /\ AskFor(A, origin, t) /\ RunRight(A, y) /\ y.pc = "apply" /\ s # <<>>
      /\ Known(A, counter) /\ counter \in Progs /\ v \in Installed
  BY AskedFor DEF Perform, Applying, Right, Known
<1>2. run' = [run EXCEPT ![p] = x]
  BY Steps DEF Perform, Right
<1>3. /\ RunRight(A, x) /\ x.pc = "apply" /\ Rest(y) = s /\ Rest(x) = Tail(s) /\ Runnable(A, s)
  BY <1>1, Stepping
<1> HIDE DEF x
<1>4. s \in Seq(Joined) /\ 1 \in 1 .. Len(s) /\ Head(s) = s[1] /\ s[1] \in Joined
  BY <1>1, <1>3, TailIs DEF Runnable
<1>5. installed' = w
  BY <1>4 DEF Perform, StateAfter
<1>6. w \in Installed /\ w[s[1].ref] = Performed(s[1], v[s[1].ref]) /\ \A r \in Ref : r # s[1].ref => w[r] = v[r]
  BY <1>1, <1>4, OneAfter
<1>7. UNCHANGED environment /\ counter' = counter /\ skipped' = skipped /\ overtaken' = overtaken
  BY DEF Perform
<1> HIDE DEF w
<1>8. /\ Right' /\ Asked' = A /\ Target' = t /\ run'[p] = x
      /\ \A q \in Process : q # p => run'[q] = run[q]
  BY <1>1, <1>2, <1>3, <1>5, <1>6, <1>7, RunsRight DEF Right
<1>9. Good(R, A, v, t, counter) /\ Brings(R, v, t, s) /\ \A q \in Process : RunGood(R, A, v, t, run[q])
  <2>1. \A q \in Process : RunGood(R, A, v, t, run[q])
    BY DEF NothingLost, Lossless
  <2> QED
    BY <1>1, <1>3, <2>1 DEF NothingLost, Lossless, RunGood
<1>10. R \subseteq Autoinstalled /\ R \subseteq Ref
  BY DueAre
<1>11. \A r \in R : w[r] = IF r = s[1].ref THEN t[r] ELSE v[r]
  BY <1>4, <1>6, <1>9, <1>10 DEF Brings
<1>12. Brings(R, w, t, Tail(s))
  <2> HIDE DEF A, R, v, t, s
  <2> QED
    BY <1>1, <1>3, <1>9, <1>10, <1>11, TailBrings
<1>13. /\ \A progs \in Progs : Good(R, A, v, t, progs) => Good(R, A, w, t, progs)
       /\ \A u \in Seq(Joined) : Brings(R, v, t, u) => Brings(R, w, t, u)
  <2> HIDE DEF A, R, v, t
  <2> QED
    BY <1>1, <1>11, Approaching
<1>14. \A q \in Process : q # p => RunGood(R, A, w, t, run[q])
  <2> SUFFICES ASSUME NEW q \in Process
               PROVE  RunGood(R, A, w, t, run[q])
    OBVIOUS
  <2>1. run[q].loaded \in Progs /\ Rest(run[q]) \in Seq(Joined) /\ RunGood(R, A, v, t, run[q])
    BY <1>9 DEF Right, RunRight, Known, Runnable
  <2> QED
    BY <1>13, <2>1 DEF RunGood
<1>15. RunGood(R, A, w, t, x)
  BY <1>3, <1>12 DEF RunGood
<1>16. Lossless(R, A, w, t, counter, run')
  BY <1>1, <1>8, <1>9, <1>13, <1>14, <1>15 DEF Lossless
<1> QED
  BY <1>5, <1>7, <1>8, <1>16 DEF NothingLost, Due

LEMMA StampKeeps ==
  ASSUME WellKept, Right, NothingLost, NEW p \in Process, Stamp(p)
  PROVE  Right' /\ NothingLost'
<1> DEFINE A == Asked
           y == run[p]
           x == Stepped(run[p])
           s == run[p].actions
           v == installed
           t == Target
           R == Due
           Q == Due \ {run[p].actions[1].ref}
<1>1. /\ Filed(A) /\ RunRight(A, y) /\ y.pc = "apply" /\ s # <<>> /\ Known(A, counter)
  BY AskedFor DEF Stamp, Applying, Right
<1>2. run' = [run EXCEPT ![p] = x]
  BY Steps DEF Stamp, Right
<1>3. /\ RunRight(A, x) /\ x.pc = "apply" /\ Rest(y) = s /\ Rest(x) = Tail(s) /\ Runnable(A, s)
  BY <1>1, Stepping
<1> HIDE DEF x
<1>4. s \in Seq(Joined) /\ 1 \in 1 .. Len(s) /\ Head(s) = s[1] /\ s[1] \in Joined
  BY <1>1, <1>3, TailIs DEF Runnable
<1>5. /\ UNCHANGED environment /\ installed' = installed /\ counter' = counter /\ overtaken' = overtaken
      /\ skipped' = skipped \cup {s[1].ref}
  BY <1>4 DEF Stamp
<1>6. skipped' \subseteq Ref /\ Due' = Q
  BY <1>4, <1>5 DEF Right, Joined, Due
<1>7. /\ Right' /\ Asked' = A /\ Target' = t /\ run'[p] = x
      /\ \A q \in Process : q # p => run'[q] = run[q]
  BY <1>1, <1>2, <1>3, <1>5, <1>6, RunsRight DEF Right
<1>8. Good(R, A, v, t, counter) /\ \A q \in Process : RunGood(R, A, v, t, run[q])
  BY DEF NothingLost, Lossless
<1>9. Q \subseteq R /\ Q \subseteq Autoinstalled /\ \A r \in Q : r # s[1].ref
  BY DueAre
<1> HIDE DEF Q, R
<1>10. Good(Q, A, v, t, counter) /\ \A q \in Process : RunGood(Q, A, v, t, run[q])
  BY <1>8, <1>9, Fewer DEF RunGood
<1>11. Brings(Q, v, t, s)
  BY <1>1, <1>3, <1>10 DEF RunGood
<1>12. Brings(Q, v, t, Tail(s))
  <2>1. \A r \in Q : v[r] = IF r = s[1].ref THEN t[r] ELSE v[r]
    BY <1>9
  <2> HIDE DEF A, v, t, s
  <2> QED
    BY <1>1, <1>3, <1>9, <1>11, <2>1, TailBrings
<1>13. RunGood(Q, A, v, t, x)
  BY <1>3, <1>12 DEF RunGood
<1>14. Lossless(Q, A, v, t, counter, run')
  BY <1>7, <1>10, <1>13 DEF Lossless
<1> QED
  BY <1>5, <1>6, <1>7, <1>14 DEF NothingLost

LEMMA FailKeeps ==
  ASSUME Right, NothingLost, NEW p \in Process, Fail(p)
  PROVE  Right' /\ NothingLost'
<1> DEFINE y == run[p]
           x == [run[p] EXCEPT !.pc = "load", !.actions = <<>>, !.left = run[p].actions]
<1>1. y \in RunSet /\ RunRight(Asked, y) /\ y.actions # <<>> /\ y.pc = "apply" /\ y.left = <<>>
  BY DEF Right, Fail, Applying, RunRight
<1>2. run' = [run EXCEPT ![p] = x]
  BY DEF Fail, Right, RunSet
<1>3. UNCHANGED <<environment, installed, counter, skipped>> /\ overtaken' = overtaken
  BY DEF Fail, history
<1>4. /\ x \in RunSet /\ x.pc = "load" /\ x.actions = <<>> /\ x.progresses = y.progresses
      /\ x.loaded = y.loaded /\ x.left = y.actions /\ x.pulled = y.pulled
  BY <1>1, EmptySeq DEF RunSet
<1> HIDE DEF x
<1>5. Rest(x) = Rest(y)
  BY <1>1, <1>4 DEF Rest
<1>6. RunRight(Asked, x)
  BY <1>1, <1>4, <1>5 DEF RunRight
<1>7. RunGood(Due, Asked, installed, Target, x)
  BY <1>1, <1>4, <1>5 DEF NothingLost, Lossless, RunGood
<1> QED
  BY <1>2, <1>3, <1>6, <1>7, OneRun

LEMMA CompleteKeeps ==
  ASSUME Right, NothingLost, NEW p \in Process, Complete(p)
  PROVE  Right' /\ NothingLost'
<1> DEFINE y == run[p]
           x == [run[p] EXCEPT !.pc = "load"]
<1>1. y \in RunSet /\ RunRight(Asked, y) /\ y.pc = "apply" /\ y.actions = <<>>
  BY DEF Right, Complete
<1>2. run' = [run EXCEPT ![p] = x]
  BY DEF Complete, Right, RunSet
<1>3. UNCHANGED <<environment, installed, counter, skipped>> /\ overtaken' = overtaken
  BY DEF Complete, history
<1>4. /\ x \in RunSet /\ x.pc = "load" /\ x.actions = y.actions /\ x.progresses = y.progresses
      /\ x.loaded = y.loaded /\ x.left = y.left /\ x.pulled = y.pulled
  BY <1>1 DEF RunSet
<1> HIDE DEF x
<1>5. Rest(x) = Rest(y)
  BY <1>4 DEF Rest
<1>6. RunRight(Asked, x)
  BY <1>1, <1>4, <1>5 DEF RunRight
<1>7. RunGood(Due, Asked, installed, Target, x)
  BY <1>1, <1>4, <1>5 DEF NothingLost, Lossless, RunGood
<1> QED
  BY <1>2, <1>3, <1>6, <1>7, OneRun

LEMMA LoadKeeps ==
  ASSUME Right, NothingLost, NEW p \in Process, Load(p)
  PROVE  Right' /\ NothingLost'
<1> DEFINE y == run[p]
           x == [run[p] EXCEPT !.pc = "save", !.loaded = counter]
<1>1. y \in RunSet /\ RunRight(Asked, y) /\ y.pc = "load" /\ Known(Asked, counter) /\ counter \in Progs
  BY DEF Right, Load, Known
<1>2. run' = [run EXCEPT ![p] = x]
  BY DEF Load, Right, RunSet
<1>3. UNCHANGED <<environment, installed, counter, skipped>> /\ overtaken' = overtaken
  BY DEF Load, history
<1>4. /\ x \in RunSet /\ x.pc = "save" /\ x.actions = y.actions /\ x.progresses = y.progresses
      /\ x.loaded = counter /\ x.left = y.left /\ x.pulled = y.pulled
  BY <1>1 DEF RunSet
<1> HIDE DEF x
<1>5. Rest(x) = Rest(y)
  BY <1>4 DEF Rest
<1>6. RunRight(Asked, x)
  BY <1>1, <1>4, <1>5 DEF RunRight
<1>7. RunGood(Due, Asked, installed, Target, x)
  BY <1>1, <1>4, <1>5 DEF NothingLost, Lossless, RunGood
<1> QED
  BY <1>2, <1>3, <1>6, <1>7, OneRun

LEMMA SaveFailsKeeps ==
  ASSUME Right, NothingLost, NEW p \in Process, SaveFails(p)
  PROVE  Right' /\ NothingLost'
<1>1. Ended(p, "failed") /\ UNCHANGED <<environment, installed, counter, skipped>> /\ overtaken' = overtaken
  BY DEF SaveFails, history
<1> QED
  BY <1>1, Ends

(* The key file has each progress from the run or from what was loaded.          *)
LEMMA KeyFileIs ==
  ASSUME NEW A, NEW p, Known(A, run[p].progresses), Known(A, run[p].loaded)
  PROVE  /\ Known(A, KeyFile(p)) /\ KeyFile(p) \in Progs
         /\ DOMAIN KeyFile(p) = DOMAIN run[p].progresses \cup DOMAIN run[p].loaded
         /\ \A f \in DOMAIN KeyFile(p) :
                KeyFile(p)[f] = IF f \in DOMAIN run[p].progresses THEN run[p].progresses[f] ELSE run[p].loaded[f]
<1> DEFINE m == run[p].progresses
           l == run[p].loaded
           k == KeyFile(p)
<1>1. /\ DOMAIN k = DOMAIN m \cup DOMAIN l
      /\ \A f \in DOMAIN k : k[f] = IF f \in DOMAIN m THEN m[f] ELSE l[f]
      /\ k = [f \in DOMAIN k |-> k[f]]
  BY DEF KeyFile
<1> HIDE DEF k, m, l
<1>2. Known(A, m) /\ Known(A, l) /\ m \in Progs /\ l \in Progs
  BY DEF m, l, Known
<1>3. DOMAIN k \subseteq File /\ \A f \in DOMAIN k : k[f] \in Int32
  BY <1>1, <1>2, ProgsAre
<1>4. k \in Progs
  BY <1>1, <1>3 DEF Progs
<1>5. Known(A, k)
  BY <1>1, <1>2, <1>4 DEF Known
<1> QED
  BY <1>1, <1>4, <1>5 DEF k, m, l

LEMMA SaveKeeps ==
  ASSUME WellKept, Right, NothingLost, NEW p \in Process, Save(p)
  PROVE  Right' /\ NothingLost'
<1> DEFINE A == Asked
           y == run[p]
           s == run[p].left
           m == run[p].progresses
           P == run[p].pulled
           k == KeyFile(p)
           v == installed
           t == Target
           R == Due
           Q == Due \ {run[p].left[i].ref : i \in HalfDone(p)}
<1>1. /\ Filed(A) /\ AskFor(A, origin, t) /\ OneFileForEach /\ Right /\ y.pc = "save"
      /\ RunRight(A, y) /\ RunGood(R, A, v, t, y) /\ \A q \in Process : RunGood(R, A, v, t, run[q])
  BY AskedFor DEF Right, NothingLost, Lossless, Save, WellKept
<1>2. PICK e \in {"ok", "failed"} : run' = [run EXCEPT ![p] = Over(e)]
  <2>1. \E e \in {"ok", "failed"} : Ended(p, e)
    BY DEF Save
  <2> QED
    BY <2>1 DEF Ended, Over
<1> DEFINE x == Over(e)
<1>3. RunRight(A, x) /\ RunGood(Q, A, v, t, x)
  BY OverIs, Resting
<1> HIDE DEF x
<1>4. /\ UNCHANGED environment /\ counter' = k /\ installed' = installed
      /\ skipped' = skipped \cup {s[i].ref : i \in HalfDone(p)} /\ overtaken' \subseteq Process
  BY DEF Save
<1>5. /\ y.actions = <<>> /\ Rest(y) = s /\ Runnable(A, s) /\ Unpassed(s, m, P) /\ s \in Seq(Joined)
      /\ Known(A, m) /\ Known(A, y.loaded) /\ m \in Progs
  BY <1>1 DEF RunRight, Rest, Runnable, Known
<1>6. /\ Known(A, k) /\ k \in Progs
      /\ DOMAIN k = DOMAIN m \cup DOMAIN y.loaded
      /\ \A f \in DOMAIN k : k[f] = IF f \in DOMAIN m THEN m[f] ELSE y.loaded[f]
  BY <1>5, KeyFileIs
<1>7. \A i \in 1 .. Len(s) : i \in HalfDone(p) <=> ~s[i].dependency /\ <<s[i].source, s[i].serial>> \in P
  BY <1>5, LenProperties DEF HalfDone
<1>8. {s[i].ref : i \in HalfDone(p)} \subseteq Ref
  <2>1. \A i \in HalfDone(p) : i \in 1 .. Len(s)
    BY <1>5, LenProperties DEF HalfDone
  <2>2. \A i \in 1 .. Len(s) : s[i].ref \in Ref
    <3>1. \A i \in 1 .. Len(s) : s[i] \in Joined
      <4> HIDE DEF s
      <4> QED
        BY <1>5, ElementOfSeq
    <3> QED
      BY <3>1 DEF Joined
  <2> QED
    BY <2>1, <2>2
<1>9. skipped' \subseteq Ref /\ Due' = Q
  BY <1>4, <1>8 DEF Right, Due
<1> HIDE DEF k
<1>10. /\ Right' /\ Asked' = A /\ Target' = t /\ run'[p] = x
       /\ \A q \in Process : q # p => run'[q] = run[q]
  BY <1>2, <1>3, <1>4, <1>6, <1>9, RunsRight DEF Right, x
<1>11. Good(R, A, v, t, y.loaded) /\ Brings(R, v, t, s)
  BY <1>1, <1>5 DEF RunGood
<1>12. Q \subseteq R /\ R \subseteq Autoinstalled
  BY DueAre
<1>13. \A i \in 1 .. Len(s) : ~s[i].dependency /\ <<s[i].source, s[i].serial>> \in P => s[i].ref \notin Q
  BY <1>7
<1> HIDE DEF Q, R
<1>14. ASSUME NEW f \in DOMAIN m
       PROVE  GoodIn(Q, A, v, t, f, m)
  <2> HIDE DEF A, v, t, s, m, P
  <2> QED
    BY <1>1, <1>5, <1>11, <1>12, <1>13, SavedGood
<1>15. Good(Q, A, v, t, k)
  <2> SUFFICES ASSUME NEW f \in File
               PROVE  GoodIn(Q, A, v, t, f, k)
    BY DEF Good
  <2>1. CASE f \in DOMAIN m
    <3>1. New(A[f], f, k) = New(A[f], f, m)
      BY <1>6, <2>1 DEF New
    <3> QED
      BY <1>14, <2>1, <3>1 DEF GoodIn
  <2>2. CASE f \notin DOMAIN m
    <3>1. New(A[f], f, k) = New(A[f], f, y.loaded)
      BY <1>6, <2>2 DEF New
    <3>2. Good(Q, A, v, t, y.loaded)
      BY <1>11, <1>12, Fewer
    <3> QED
      BY <3>1, <3>2 DEF Good, GoodIn
  <2> QED
    BY <2>1, <2>2
<1>16. \A q \in Process : RunGood(Q, A, v, t, run[q])
  BY <1>1, <1>12, Fewer DEF RunGood
<1>17. Lossless(Q, A, v, t, k, run')
  BY <1>3, <1>10, <1>15, <1>16 DEF Lossless
<1> QED
  BY <1>4, <1>9, <1>10, <1>17 DEF NothingLost

(* The machine is booted again: the runs are over.                             *)
LEMMA Rebooted ==
  ASSUME Right, NothingLost, Reboot, Holds(directory', system'), \A f \in File : Len(directory'[f]) <= MaxEntries,
         Known(Asked', counter),
         Good(Due, Asked, installed, Target, counter) => Good(Due, Asked', installed, Target', counter)
  PROVE  Right' /\ NothingLost'
<1>1. /\ run' = [p \in Process |-> Idle] /\ UNCHANGED <<installed, counter, skipped, origin>>
      /\ overtaken' = {}
  BY DEF Reboot
<1>2. Idle \in RunSet /\ AtRest(Idle)
  BY EmptySeq, NoProgress DEF Idle, RunSet, AtRest
<1>3. RunRight(Asked', Idle) /\ \A R, v, t : RunGood(R, Asked', v, t, Idle)
  BY <1>2, Resting
<1> HIDE DEF Idle
<1>4. \A p \in Process : run'[p] = Idle
  BY <1>1
<1>5. run' \in [Process -> RunSet]
  BY <1>1, <1>2
<1>6. Right'
  BY <1>1, <1>3, <1>4, <1>5 DEF Right
<1>7. Lossless(Due, Asked', installed, Target', counter, run')
  BY <1>3, <1>4 DEF NothingLost, Lossless
<1> QED
  BY <1>1, <1>6, <1>7 DEF NothingLost, Due

LEMMA RestartAsks ==
  ASSUME WellKept, Right, Restart
  PROVE  Asked' = Asked /\ Holds(directory', system')
<1>1. system' \in Systems /\ directory' = directory
  BY DEF Restart
<1>2. Holds(directory, system) /\ Holds(directory', system')
  BY <1>1 DEF Right, Holds
<1>3. Asked' = Asked
  <2> SUFFICES ASSUME NEW f \in File
               PROVE  Kept(directory[f], system) = Kept(directory[f], system')
    BY <1>1 DEF Asked, Asks, ActionsOf
  <2> DEFINE E == Entries[f]
             d == directory[f]
  <2>1. d \in Seq(E) /\ system \in Systems /\ DOMAIN Entries = File
    BY <1>2, InstallerAssumption DEF Holds, File
  <2> HIDE DEF E, d
  <2>2. \A i \in DOMAIN d : d[i] \in E
    BY <2>1, LenProperties, ElementOfSeq
  <2>3. \A i \in DOMAIN d : Read(d[i], system) = Read(d[i], system')
    BY <1>1, <2>1, <2>2 DEF WellKept, ReadTheSame, E
  <2> QED
    BY <2>3 DEF Kept, d
<1> QED
  BY <1>2, <1>3

LEMMA RestartKeeps ==
  ASSUME WellKept, Right, NothingLost, Restart
  PROVE  Right' /\ NothingLost'
<1>1. Reboot /\ system' \in Systems /\ directory' = directory /\ origin' = origin
  BY DEF Restart, Reboot
<1>2. Holds(directory', system') /\ origin \in Installed
  BY RestartAsks DEF Right
<1>3. Asked' = Asked
  BY RestartAsks
<1>4. Target' = Target
  <2>1. Filed(Asked) /\ AskFor(Asked, origin, Target)
    BY AskedFor
  <2>2. AskFor(Asks(directory', system'), origin', Effect(Concatenated(LoadedFrom(directory', system').table), origin'))
    BY <1>1, <1>2, TargetIs
  <2>3. AskFor(Asked', origin', Target')
    BY <2>2 DEF Asked, Target, Loaded, LoadedFrom
  <2> QED
    BY <1>1, <1>3, <2>1, <2>3, TargetsAgree
<1> QED
  BY <1>1, <1>2, <1>3, <1>4, Rebooted DEF Right

LEMMA UpgradeExtends ==
  ASSUME WellKept, Right, NEW f \in DOMAIN Entries, NEW entry \in Entries[f], Upgrade(f, entry)
  PROVE  /\ Holds(directory', system') /\ \A g \in File : Len(directory'[g]) <= MaxEntries
         /\ Filed(Asked') /\ AskFor(Asked', origin, Target') /\ Extended(Asked, Asked', f, ActionOf(f, entry))
<1> DEFINE d == directory[f]
           E == Entries[f]
           n == Len(directory[f])
           e == Append(directory[f], entry)
           a == ActionOf(f, entry)
<1>1. f \in File /\ DOMAIN Entries = File
  BY InstallerAssumption DEF File
<1>2. /\ Reboot /\ system' = system /\ origin' = origin
      /\ n < MaxEntries /\ \A i \in DOMAIN d : d[i].serial < entry.serial
      /\ directory' = [directory EXCEPT ![f] = e]
  BY DEF Upgrade, Reboot
<1>3. /\ directory \in [File -> UNION {Seq(Entries[g]) : g \in File}] /\ system \in Systems
      /\ \A g \in File : directory[g] \in Seq(Entries[g]) /\ Ascending(directory[g])
      /\ \A g \in File : Len(directory[g]) <= MaxEntries
      /\ origin \in Installed
  BY DEF Right, Holds
<1>4. /\ d \in Seq(E) /\ entry \in E /\ Ascending(d) /\ n \in Nat /\ n = Len(d)
      /\ DOMAIN d = 1 .. n /\ \A i \in 1 .. n : d[i] \in E
  <2>1. d \in Seq(E) /\ entry \in E /\ Ascending(d)
    BY <1>1, <1>3
  <2> HIDE DEF d, E
  <2>2. Len(d) \in Nat /\ DOMAIN d = 1 .. Len(d) /\ \A i \in 1 .. Len(d) : d[i] \in E
    BY <2>1, LenProperties, ElementOfSeq
  <2> QED
    BY <2>1, <2>2 DEF d
<1>5. /\ e \in Seq(E) /\ Len(e) = n + 1 /\ e[n + 1] = entry /\ \A i \in 1 .. n : e[i] = d[i]
      /\ DOMAIN e = 1 .. n + 1
  <2> HIDE DEF E, n
  <2> QED
    BY <1>4, AppendProperties DEF n
<1>6. directory'[f] = e /\ \A g \in File : g # f => directory'[g] = directory[g]
  BY <1>1, <1>2, <1>3
<1>7. Ascending(e)
  <2> SUFFICES ASSUME NEW i \in 1 .. n + 1, NEW j \in 1 .. n + 1, i < j
               PROVE  e[i].serial < e[j].serial
    BY <1>5 DEF Ascending
  <2> HIDE DEF e, d, n
  <2>1. i \in 1 .. n /\ (j \in 1 .. n \/ j = n + 1)
    BY <1>4
  <2> QED
    BY <1>2, <1>4, <1>5, <2>1 DEF Ascending
<1>8. Holds(directory', system')
  <2>1. directory' \in [File -> UNION {Seq(Entries[g]) : g \in File}]
    BY <1>1, <1>2, <1>3, <1>5
  <2> HIDE DEF e
  <2>2. \A g \in File : directory'[g] \in Seq(Entries[g]) /\ Ascending(directory'[g])
    BY <1>3, <1>5, <1>6, <1>7
  <2> QED
    BY <1>2, <1>3, <2>1, <2>2 DEF Holds
<1>9. \A g \in File : Len(directory'[g]) <= MaxEntries
  <2>1. n + 1 <= MaxEntries
    BY <1>2, <1>4, InstallerAssumption
  <2> HIDE DEF e, n
  <2> QED
    BY <1>3, <1>5, <1>6, <2>1
<1>11. Filed(Asked') /\ AskFor(Asked', origin, Target')
  <2>1. Filed(Asks(directory', system'))
    BY <1>8, AsksAre DEF WellKept
  <2>2. AskFor(Asks(directory', system'), origin', Effect(Concatenated(LoadedFrom(directory', system').table), origin'))
    BY <1>2, <1>3, <1>8, TargetIs
  <2> QED
    BY <1>2, <2>1, <2>2 DEF Asked, Target, Loaded, LoadedFrom
<1> HIDE DEF e
<1>12. Kept(e, system) = IF Read(entry, system) = "action" THEN Kept(d, system) \cup {n + 1} ELSE Kept(d, system)
  <2> HIDE DEF d, n
  <2>1. \A i \in 1 .. n + 1 : i \in 1 .. n \/ i = n + 1
    BY <1>4
  <2>2. (\A i \in 1 .. n : i \in 1 .. n + 1) /\ n + 1 \in 1 .. n + 1
    BY <1>4
  <2> QED
    BY <1>4, <1>5, <2>1, <2>2 DEF Kept
<1>13. Extended(Asked, Asked', f, a)
  <2>1. \A g \in File : Asked[g] = ActionsOf(g, directory[g], system) /\ Asked'[g] = ActionsOf(g, directory'[g], system)
    BY <1>2 DEF Asked, Asks
  <2>2. \A g \in File : g # f => Asked'[g] = Asked[g]
    BY <1>6, <2>1
  <2>3. \A i \in Kept(d, system) : i \in 1 .. n /\ e[i] = d[i]
    BY <1>4, <1>5 DEF Kept
  <2>4. CASE Read(entry, system) # "action"
    <3>1. Asked'[f] = Asked[f]
      <4>1. Asked'[f] = ActionsOf(f, e, system) /\ Asked[f] = ActionsOf(f, d, system) /\ Kept(e, system) = Kept(d, system)
        BY <1>1, <1>6, <1>12, <2>1, <2>4
      <4> HIDE DEF d
      <4> QED
        BY <2>3, <4>1 DEF ActionsOf
    <3> QED
      BY <1>1, <2>2, <3>1 DEF Extended
  <2>5. CASE Read(entry, system) = "action"
    <3>1. Asked'[f] = Asked[f] \cup {a}
      BY <1>1, <1>5, <1>6, <1>12, <2>1, <2>3, <2>5 DEF ActionsOf
    <3>2. a \in Listed
      BY <1>1, <1>11, <3>1, RefsAre DEF Filed
    <3>3. \A b \in Asked[f] : b.serial < a.serial
      BY <1>1, <1>2, <1>4, <2>1, <2>3 DEF ActionsOf, ActionOf, Action
    <3> QED
      BY <1>1, <2>2, <3>1, <3>2, <3>3 DEF Extended
  <2> QED
    BY <2>4, <2>5
<1> QED
  BY <1>8, <1>9, <1>11, <1>13

LEMMA UpgradeKeeps ==
  ASSUME WellKept, Right, NothingLost, NEW f \in DOMAIN Entries, NEW entry \in Entries[f], Upgrade(f, entry)
  PROVE  Right' /\ NothingLost'
<1> DEFINE a == ActionOf(f, entry)
<1>1. /\ Holds(directory', system') /\ \A g \in File : Len(directory'[g]) <= MaxEntries
      /\ Filed(Asked') /\ AskFor(Asked', origin, Target') /\ Extended(Asked, Asked', f, a)
  BY UpgradeExtends
<1>2. Filed(Asked) /\ AskFor(Asked, origin, Target) /\ Reboot /\ installed \in Installed /\ origin \in Installed
  BY AskedFor DEF Right, Upgrade
<1> HIDE DEF a
<1>3. /\ Known(Asked', counter)
      /\ Good(Due, Asked, installed, Target, counter) => Good(Due, Asked', installed, Target', counter)
  <2> DEFINE A == Asked
             B == Asked'
             t == Target
             u == Target'
             v == installed
             R == Due
  <2>1. /\ Filed(A) /\ Filed(B) /\ Extended(A, B, f, a) /\ AskFor(A, origin, t) /\ AskFor(B, origin, u)
        /\ v \in Installed /\ origin \in Installed /\ Known(A, counter)
    BY <1>1, <1>2 DEF Right
  <2> HIDE DEF A, B, t, u, v, R
  <2>2. /\ \A progs : Known(A, progs) => Known(B, progs)
        /\ \A progs : Known(A, progs) /\ Good(R, A, v, t, progs) => Good(R, B, v, u, progs)
    BY <2>1, Extending
  <2> QED
    BY <2>1, <2>2 DEF A, B, t, u, v, R
<1> QED
  BY <1>1, <1>2, <1>3, Rebooted

LEMMA InitKeeps ==
  ASSUME WellKept, Init
  PROVE  Right /\ NothingLost
<1>1. DOMAIN Entries = File /\ MaxEntries \in Nat
  BY InstallerAssumption DEF File
<1>2. /\ directory = [f \in File |-> <<>>] /\ system \in Systems /\ installed \in Installed /\ origin = installed
      /\ counter = <<>> /\ run = [p \in Process |-> Idle] /\ skipped = {} /\ overtaken = {}
  BY <1>1, InstallerAssumption DEF Init, Installed, Version
<1>3. \A f \in File : <<>> \in Seq(Entries[f]) /\ Ascending(<<>>) /\ Len(<<>>) = 0
  BY EmptySeq DEF Ascending
<1>4. Holds(directory, system) /\ \A f \in File : Len(directory[f]) <= MaxEntries
  <2>1. directory \in [File -> UNION {Seq(Entries[f]) : f \in File}]
    BY <1>2, <1>3
  <2> QED
    BY <1>1, <1>2, <1>3, <2>1 DEF Holds
<1>5. Idle \in RunSet /\ AtRest(Idle)
  BY EmptySeq, NoProgress DEF Idle, RunSet, AtRest
<1>6. RunRight(Asked, Idle) /\ \A R, v, t : RunGood(R, Asked, v, t, Idle)
  BY <1>5, Resting
<1> HIDE DEF Idle
<1>7. Right
  BY <1>2, <1>4, <1>5, <1>6, NoProgress DEF Right
<1>8. \A f \in File : Asked[f] = {}
  BY <1>2 DEF Asked, Asks, ActionsOf, Kept
<1>9. AskFor(Asked, origin, Target)
  BY <1>7, AskedFor
<1>10. \A r \in Ref : Target[r] = installed[r]
  BY <1>2, <1>8, <1>9 DEF AskFor, Makes, Of
<1>11. Good(Due, Asked, installed, Target, counter)
  BY <1>8, <1>10, DueAre DEF Good, GoodIn, New, Makes, Of
<1> QED
  BY <1>2, <1>6, <1>7, <1>11 DEF NothingLost, Lossless

LEMMA StepKeeps ==
  ASSUME WellKept, Right, NothingLost, [Next]_vars
  PROVE  Right' /\ NothingLost'
<1>1. CASE UNCHANGED vars
  <2>1. /\ Asked' = Asked /\ Target' = Target /\ directory' = directory /\ system' = system /\ origin' = origin
        /\ installed' = installed /\ counter' = counter /\ run' = run /\ skipped' = skipped /\ overtaken' = overtaken
    BY <1>1 DEF vars, environment, history, Asked, Target, Loaded
  <2> QED
    BY <2>1 DEF Right, NothingLost, Due
<1>2. CASE \E p \in Process : \/ Check(p) \/ Perform(p) \/ Stamp(p) \/ Fail(p) \/ Complete(p)
                              \/ Load(p) \/ Save(p) \/ SaveFails(p)
                              \/ \E mode \in Modes : Start(p, mode)
  BY <1>2, CheckKeeps, PerformKeeps, StampKeeps, FailKeeps, CompleteKeeps, LoadKeeps, SaveKeeps, SaveFailsKeeps, StartKeeps
<1>3. CASE \E f \in DOMAIN Entries : \E entry \in Entries[f] : Upgrade(f, entry)
  BY <1>3, UpgradeKeeps
<1>4. CASE Restart
  BY <1>4, RestartKeeps
<1> QED
  BY <1>1, <1>2, <1>3, <1>4 DEF Next

LEMMA AlwaysRight ==
  ASSUME WellKept
  PROVE  Spec => [](Right /\ NothingLost)
<1>1. Init => Right /\ NothingLost
  BY InitKeeps
<1>2. Right /\ NothingLost /\ [Next]_vars => (Right /\ NothingLost)'
  BY StepKeeps
<1> QED
  BY <1>1, <1>2, PTL DEF Spec

(* Runs of any number of services, with and without the dependencies, fail at     *)
(* any action, are cut off between any two steps, write key files that others     *)
(* have since changed, and new deployments add entries: what is still to be done *)
(* always makes of every flatpak of the files, but for those whose actions were  *)
(* counted without being performed, what all actions in order would have made of *)
(* the first installation.  An action counts as new if its serial number is above *)
(* its file's in the key file (keep_only_new_actions), which is written only      *)
(* after the actions that have been performed (eufi_apply_flatpak_ref_actions,   *)
(* update_counter).                                                         *)
THEOREM NothingIsForgotten ==
  ASSUME WellKept
  PROVE  Spec => []NothingForgotten
<1>1. Right /\ NothingLost => NothingForgotten
  <2> SUFFICES ASSUME Right, NothingLost, NEW r \in Due
               PROVE  Effect(Pending, installed)[r] = Target[r]
    BY DEF NothingForgotten, Due
  <2>1. Pending \in Seq(Listed) /\ Brings(Due, installed, Target, Pending) /\ installed \in Installed
    BY PendingAre DEF Squashed, Right
  <2> QED
    BY <2>1, Ending, DueAre
<1> QED
  BY <1>1, AlwaysRight, PTL

(* The files, the installation and the key file stay what they are taken for, and *)
(* what a run holds are progresses of files there are, with valid serial numbers *)
(* (eufi_apply_flatpak_ref_actions, update_counter).                            *)
THEOREM TypeCorrect ==
  ASSUME WellKept
  PROVE  Spec => []TypeOK
<1>1. Right => TypeOK
  <2> SUFFICES ASSUME Right
               PROVE  TypeOK
    OBVIOUS
  <2>1. DOMAIN Entries = File
    BY InstallerAssumption DEF File
  <2>2. \A progs \in Progs : Progresses(progs)
    BY <2>1, ProgsAre DEF Progresses, Position, Int32
  <2>3. DOMAIN directory = File /\ \A f \in File : Len(directory[f]) <= MaxEntries
    BY DEF Right, Holds
  <2>4. /\ installed \in [Ref -> {"absent", "old", "new"}] /\ Progresses(counter)
        /\ overtaken \subseteq Process /\ skipped \subseteq Ref
    BY <2>2 DEF Right, Installed, Version, Known
  <2>5. \A p \in Process : RunRight(Asked, run[p]) /\ run[p] \in RunSet
    BY DEF Right
  <2> QED
    BY <2>2, <2>3, <2>4, <2>5 DEF TypeOK, RunRight, RunSet
<1> QED
  BY <1>1, AlwaysRight, PTL

-----------------------------------------------------------------------------
(* The progress, of runs during which no other one saves its own.                *)

Beyond(progs, a) == a.source \in DOMAIN progs => a.serial > progs[a.source]

(* What decides and is new is either done in this run or still in its list.       *)
Covers(C, f, progs, x) ==
    \A a \in New(C, f, progs) : a.type # "update" =>
        \/ a \notin New(C, f, x.progresses)
        \/ \E i \in 1 .. Len(x.actions) : x.actions[i].source = f /\ a.serial <= x.actions[i].serial

Forward(A, progs, x) ==
    /\ x.pc = "save" => x.loaded = progs
    /\ \A f \in DOMAIN progs \cap DOMAIN x.progresses : progs[f] <= x.progresses[f]
    /\ \A i \in 1 .. Len(Rest(x)) : Beyond(progs, Rest(x)[i])
    /\ x.pc # "idle" /\ x.left = <<>> => \A f \in File : Covers(A[f], f, progs, x)

(* What is not new is as the last of its actions made it.                       *)
AsChecked(A, v, progs) ==
    \A f \in File : \A r \in Refs(f) : \A a \in A[f] : IsLast(Old(A[f], f, progs), r, a) => v[r] = MadeBy(a)

Progressive ==
    /\ \A p \in Process \ overtaken : Forward(Asked, counter, run[p])
    /\ clean /\ skipped = {} => /\ \A p \in Process \ overtaken : run[p].progresses = <<>>
                                /\ AsChecked(Asked, installed, counter)

LEMMA RestingForward ==
  ASSUME NEW A, NEW progs, NEW x, x.pc = "idle", x.actions = <<>>, x.left = <<>>, x.progresses = <<>>
  PROVE  Forward(A, progs, x)
<1>1. DOMAIN <<>> = {} /\ Len(<<>>) = 0
  OBVIOUS
<1> QED
  BY <1>1 DEF Forward, Rest

LEMMA StepForward ==
  ASSUME NEW A, Filed(A), NEW progs \in Progs, NEW x, RunRight(A, x), x.pc = "apply", x.actions # <<>>,
         Forward(A, progs, x)
  PROVE  Forward(A, progs, Stepped(x))
<1> DEFINE s == x.actions
           m == x.progresses
           a == x.actions[1]
           y == Stepped(x)
           w == Stepped(x).progresses
<1>1. /\ y.pc = "apply" /\ Rest(x) = s /\ Rest(y) = Tail(s) /\ y.actions = Tail(s) /\ Runnable(A, s)
      /\ w \in Progs /\ Marked(m, a, w) /\ y.left = <<>> /\ x.left = <<>>
  BY Stepping
<1> HIDE DEF y, w
<1>2. s \in Seq(Joined) /\ s # <<>> /\ m \in Progs /\ Unpassed(s, m, x.pulled)
  BY <1>1 DEF RunRight, Runnable, Known
<1>3. /\ Len(s) \in Nat /\ 1 \in 1 .. Len(s) /\ a \in Joined /\ Len(Tail(s)) = Len(s) - 1
      /\ \A i \in 1 .. Len(s) - 1 : i + 1 \in 1 .. Len(s) /\ Tail(s)[i] = s[i + 1]
  BY <1>2, TailIs
<1>4. a.serial \in Int /\ \A i \in 1 .. Len(s) : s[i] \in Joined
  <2> HIDE DEF s, a
  <2> QED
    BY <1>2, <1>3, JoinedSerials, ElementOfSeq
<1>5. DOMAIN w = DOMAIN m \cup {a.source} /\ w[a.source] = a.serial /\ \A f \in DOMAIN m : f # a.source => w[f] = m[f]
  BY <1>1 DEF Marked
<1>6. \A i \in 1 .. Len(s) : Beyond(progs, s[i])
  BY <1>1 DEF Forward
<1>7. a.source \in DOMAIN m => m[a.source] \in Int /\ m[a.source] <= a.serial
  <2>1. ASSUME a.source \in DOMAIN m
        PROVE  m[a.source] \in Int /\ (m[a.source] < a.serial \/ m[a.source] = a.serial)
    BY <1>2, <1>3, <2>1, ProgsAre DEF Unpassed
  <2> QED
    BY <1>4, <2>1
<1>8. ASSUME NEW f \in DOMAIN progs \cap DOMAIN w
      PROVE  progs[f] <= w[f]
  <2>1. CASE f = a.source
    <3>1. progs[f] \in Int /\ a.serial > progs[f]
      BY <1>3, <1>6, <2>1, ProgsAre DEF Beyond
    <3> QED
      BY <1>4, <1>5, <2>1, <3>1
  <2>2. CASE f # a.source
    BY <1>5, <2>2 DEF Forward
  <2> QED
    BY <2>1, <2>2
<1>9. \A i \in 1 .. Len(Tail(s)) : Beyond(progs, Tail(s)[i])
  BY <1>3, <1>6
<1>10. ASSUME NEW f \in File
       PROVE  Covers(A[f], f, progs, y)
  <2> SUFFICES ASSUME NEW b \in New(A[f], f, progs), b.type # "update", b \in New(A[f], f, w)
               PROVE  \E i \in 1 .. Len(Tail(s)) : Tail(s)[i].source = f /\ b.serial <= Tail(s)[i].serial
    BY <1>1 DEF Covers, w, y
  <2>1. b.serial \in Int /\ b \in A[f]
    BY RefsAre, SerialsAre DEF Filed, New
  <2>2. f \in DOMAIN w => b.serial > w[f]
    BY DEF New
  <2>3. b \in New(A[f], f, m)
    <3>1. ASSUME f \in DOMAIN m
          PROVE  b.serial > m[f]
      <4>1. CASE f # a.source
        BY <1>5, <2>2, <3>1, <4>1
      <4>2. CASE f = a.source
        BY <1>4, <1>5, <1>7, <2>1, <2>2, <3>1, <4>2
      <4> QED
        BY <4>1, <4>2
    <3> QED
      BY <2>1, <3>1 DEF New
  <2>4. Covers(A[f], f, progs, x)
    BY <1>1 DEF Forward
  <2>5. PICK i \in 1 .. Len(s) : s[i].source = f /\ b.serial <= s[i].serial
    BY <2>3, <2>4 DEF Covers
  <2>6. i # 1
    <3>1. ASSUME i = 1
          PROVE  FALSE
      <4>1. f = a.source /\ b.serial <= a.serial
        BY <2>5, <3>1
      <4>2. b.serial > a.serial
        BY <1>5, <2>2, <4>1
      <4> QED
        BY <1>4, <2>1, <4>1, <4>2
    <3> QED
      BY <3>1
  <2>7. i - 1 \in 1 .. Len(Tail(s)) /\ (i - 1) + 1 = i /\ i - 1 \in 1 .. Len(s) - 1
    BY <1>3, <2>6
  <2>8. Tail(s)[i - 1] = s[i]
    BY <1>3, <2>7
  <2> QED
    BY <2>5, <2>7, <2>8
<1>11. Forward(A, progs, y)
  <2> HIDE DEF s, m, a
  <2> QED
    BY <1>1, <1>8, <1>9, <1>10 DEF Forward, w, y
<1> QED
  BY <1>11 DEF y

LEMMA BeginsForward ==
  ASSUME WellKept, Right, NEW p \in Process, NEW mode
  PROVE  Forward(Asked, counter, Begun(p, mode)) /\ Begun(p, mode).progresses = <<>>
<1> DEFINE A == Asked
           c == counter
           F == Pending
           q == PendingOf(p)
           x == Begun(p, mode)
<1>1. x.pc = "apply" /\ x.actions = q /\ x.progresses = <<>> /\ x.left = <<>>
  BY DEF Begun, Idle
<1> HIDE DEF x
<1>2. Filed(A) /\ c \in Progs /\ Squashed(Ahead(A, c), F)
  BY AskedFor, PendingAre DEF Right, Known
<1>3. /\ \A i \in 1 .. Len(q) : \E y \in 1 .. Len(F) : q[i].source = F[y].source /\ q[i].serial = F[y].serial
      /\ \A y \in 1 .. Len(F) : \E i \in 1 .. Len(q) : q[i] = F[y]
  BY PendingRuns
<1> HIDE DEF A, q, c, F
<1>4. \A i \in 1 .. Len(F) : F[i].source \in File /\ Stays(New(A[F[i].source], F[i].source, c), F[i])
  BY <1>2 DEF Squashed, Ahead
<1>5. \A i \in 1 .. Len(F) : Beyond(c, F[i])
  BY <1>4 DEF Beyond, New, Stays
<1>6. \A i \in 1 .. Len(q) : Beyond(c, q[i])
  BY <1>3, <1>5 DEF Beyond
<1>7. ASSUME NEW f \in File, NEW a \in New(A[f], f, c), a.type # "update"
      PROVE  \E i \in 1 .. Len(q) : q[i].source = f /\ a.serial <= q[i].serial
  <2>1. PICK i \in 1 .. Len(F) : F[i].ref = a.ref
    BY <1>2 DEF Squashed, Ahead
  <2>2. F[i].source = f
    <3>1. a \in ListedOf(f) /\ F[i] \in ListedOf(F[i].source) /\ F[i].source \in File
      BY <1>2 DEF Squashed, New, Filed
    <3> QED
      BY <2>1, <3>1, RefsAre DEF WellKept
  <2>3. a \in Decisive(New(A[f], f, c), F[i].ref)
    BY <1>7, <2>1 DEF Decisive
  <2>4. a.serial <= F[i].serial
    BY <1>4, <2>2, <2>3 DEF Stays, IsLast
  <2> QED
    BY <1>3, <2>2, <2>4
<1>8. \A f \in File : Covers(A[f], f, c, x)
  BY <1>1, <1>7 DEF Covers
<1>9. DOMAIN <<>> = {} /\ Rest(x) = q
  BY <1>1 DEF Rest
<1> QED
  BY <1>1, <1>6, <1>8, <1>9 DEF Forward, A, c, x

LEMMA QuietForward ==
  ASSUME Right, Progressive, NEW p \in Process, UNCHANGED <<environment, installed, counter, clean, skipped>>,
         overtaken' \in {overtaken, overtaken \ {p}}, NEW x, run' = [run EXCEPT ![p] = x],
         p \notin overtaken' => Forward(Asked, counter, x),
         x.progresses = <<>> \/ (overtaken' = overtaken /\ x.progresses = run[p].progresses)
  PROVE  Progressive'
<1>1. run'[p] = x /\ \A q \in Process : q # p => run'[q] = run[q] /\ (q \in overtaken' <=> q \in overtaken)
  BY DEF Right
<1>2. Asked' = Asked
  BY DEF environment, Asked
<1>3. \A q \in Process \ overtaken' : Forward(Asked', counter', run'[q])
  BY <1>1, <1>2 DEF Progressive
<1>4. ASSUME clean', skipped' = {}
      PROVE  AsChecked(Asked', installed', counter') /\ \A q \in Process \ overtaken' : run'[q].progresses = <<>>
  BY <1>1, <1>2, <1>4 DEF Progressive
<1> QED
  BY <1>3, <1>4 DEF Progressive

LEMMA EndForward ==
  ASSUME Right, Progressive, NEW p \in Process, UNCHANGED <<environment, installed, counter, clean, skipped>>,
         overtaken' \in {overtaken, overtaken \ {p}}, NEW s \in {"ok", "failed", "deltas"}, Ended(p, s)
  PROVE  Progressive'
<1>1. run' = [run EXCEPT ![p] = Over(s)]
  BY DEF Ended, Over
<1>2. AtRest(Over(s))
  BY OverIs
<1>3. Forward(Asked, counter, Over(s)) /\ Over(s).progresses = <<>>
  BY <1>2, RestingForward DEF AtRest
<1> QED
  BY <1>1, <1>3, QuietForward

LEMMA CheckForward ==
  ASSUME Right, Progressive, NEW p \in Process, Check(p)
  PROVE  Progressive'
<1>1. \E s \in {"ok", "failed", "deltas"} : Ended(p, s)
  BY DEF Check
<1>2. UNCHANGED <<environment, installed, counter, clean, skipped>> /\ overtaken' = overtaken
  BY DEF Check, history
<1> QED
  BY <1>1, <1>2, EndForward

LEMMA SaveFailsForward ==
  ASSUME Right, Progressive, NEW p \in Process, SaveFails(p)
  PROVE  Progressive'
<1>1. UNCHANGED <<environment, installed, counter, clean, skipped>> /\ overtaken' = overtaken /\ Ended(p, "failed")
  BY DEF SaveFails, history
<1> QED
  BY <1>1, EndForward

LEMMA StartForward ==
  ASSUME WellKept, Right, Progressive, NEW p \in Process, NEW mode \in Modes, Start(p, mode)
  PROVE  Progressive'
<1>1. UNCHANGED <<environment, installed, counter, clean, skipped>> /\ overtaken' = overtaken \ {p}
  BY Started
<1>2. CASE Ended(p, "failed")
  BY <1>1, <1>2, EndForward
<1>3. CASE run' = [run EXCEPT ![p] = Begun(p, mode)]
  BY <1>1, <1>3, BeginsForward, QuietForward
<1> QED
  BY <1>2, <1>3, Started

LEMMA FailForward ==
  ASSUME Right, Progressive, NEW p \in Process, Fail(p)
  PROVE  Progressive'
<1> DEFINE y == run[p]
           x == [run[p] EXCEPT !.pc = "load", !.actions = <<>>, !.left = run[p].actions]
<1>1. y \in RunSet /\ y.actions # <<>> /\ y.left = <<>>
  BY DEF Right, Fail, Applying, RunRight
<1>2. run' = [run EXCEPT ![p] = x]
  BY DEF Fail, Right, RunSet
<1>3. UNCHANGED <<environment, installed, counter, clean, skipped>> /\ overtaken' = overtaken
  BY DEF Fail, history
<1>4. /\ x.pc = "load" /\ x.actions = <<>> /\ x.progresses = y.progresses /\ x.left = y.actions
  BY <1>1 DEF RunSet
<1> HIDE DEF x
<1>5. Rest(x) = Rest(y) /\ x.left # <<>>
  BY <1>1, <1>4 DEF Rest
<1>6. p \notin overtaken => Forward(Asked, counter, x)
  BY <1>4, <1>5 DEF Progressive, Forward
<1> QED
  BY <1>2, <1>3, <1>4, <1>6, QuietForward

LEMMA CompleteForward ==
  ASSUME Right, Progressive, NEW p \in Process, Complete(p)
  PROVE  Progressive'
<1> DEFINE y == run[p]
           x == [run[p] EXCEPT !.pc = "load"]
<1>1. y \in RunSet /\ y.pc = "apply"
  BY DEF Right, Complete
<1>2. run' = [run EXCEPT ![p] = x]
  BY DEF Complete, Right, RunSet
<1>3. UNCHANGED <<environment, installed, counter, clean, skipped>> /\ overtaken' = overtaken
  BY DEF Complete, history
<1>4. /\ x.pc = "load" /\ x.actions = y.actions /\ x.progresses = y.progresses /\ x.left = y.left
  BY <1>1 DEF RunSet
<1> HIDE DEF x
<1>5. Rest(x) = Rest(y)
  BY <1>4 DEF Rest
<1>6. p \notin overtaken => Forward(Asked, counter, x)
  BY <1>1, <1>4, <1>5 DEF Progressive, Forward, Covers
<1> QED
  BY <1>2, <1>3, <1>4, <1>6, QuietForward

LEMMA LoadForward ==
  ASSUME Right, Progressive, NEW p \in Process, Load(p)
  PROVE  Progressive'
<1> DEFINE y == run[p]
           x == [run[p] EXCEPT !.pc = "save", !.loaded = counter]
<1>1. y \in RunSet /\ y.pc = "load"
  BY DEF Right, Load
<1>2. run' = [run EXCEPT ![p] = x]
  BY DEF Load, Right, RunSet
<1>3. UNCHANGED <<environment, installed, counter, clean, skipped>> /\ overtaken' = overtaken
  BY DEF Load, history
<1>4. /\ x.pc = "save" /\ x.actions = y.actions /\ x.progresses = y.progresses /\ x.left = y.left
      /\ x.loaded = counter
  BY <1>1 DEF RunSet
<1> HIDE DEF x
<1>5. Rest(x) = Rest(y)
  BY <1>4 DEF Rest
<1>6. p \notin overtaken => Forward(Asked, counter, x)
  BY <1>1, <1>4, <1>5 DEF Progressive, Forward, Covers
<1> QED
  BY <1>2, <1>3, <1>4, <1>6, QuietForward

(* An action is performed or stamped.                                         *)
LEMMA ProgressForward ==
  ASSUME WellKept, Right, Progressive, NEW p \in Process, Applying(p), Progress(p),
         UNCHANGED <<environment, counter>>, overtaken' = overtaken, clean' = FALSE
  PROVE  Progressive'
<1> DEFINE x == Stepped(run[p])
<1>1. run' = [run EXCEPT ![p] = x]
  BY Steps DEF Right
<1>2. /\ Filed(Asked) /\ counter \in Progs /\ RunRight(Asked, run[p]) /\ run[p].pc = "apply" /\ run[p].actions # <<>>
  BY AskedFor DEF Right, Known, Applying
<1>3. p \notin overtaken => Forward(Asked, counter, x)
  BY <1>2, StepForward DEF Progressive
<1> HIDE DEF x
<1>4. run'[p] = x /\ \A q \in Process : q # p => run'[q] = run[q]
  BY <1>1 DEF Right
<1>5. Asked' = Asked
  BY DEF environment, Asked
<1> QED
  BY <1>3, <1>4, <1>5 DEF Progressive

LEMMA KeyFileForward ==
  ASSUME Right, Progressive, NEW p \in Process \ overtaken, Save(p)
  PROVE  /\ \A f \in DOMAIN counter : f \in DOMAIN KeyFile(p) /\ KeyFile(p)[f] >= counter[f]
         /\ run[p].loaded = counter
<1> DEFINE y == run[p]
           k == KeyFile(p)
           m == run[p].progresses
<1>1. RunRight(Asked, y) /\ Forward(Asked, counter, y) /\ run[p].loaded = counter /\ counter \in Progs
  BY DEF Right, Progressive, Save, Forward, Known
<1>2. /\ DOMAIN k = DOMAIN m \cup DOMAIN counter
      /\ \A f \in DOMAIN k : k[f] = IF f \in DOMAIN m THEN m[f] ELSE counter[f]
  BY <1>1, KeyFileIs DEF RunRight
<1> HIDE DEF k
<1>3. m \in Progs
  BY <1>1 DEF RunRight, Known
<1>4. ASSUME NEW f \in DOMAIN counter
      PROVE  f \in DOMAIN k /\ k[f] >= counter[f]
  <2>1. counter[f] \in Int
    BY <1>1, ProgsAre
  <2>2. CASE f \in DOMAIN m
    <3>1. counter[f] <= m[f] /\ m[f] \in Int
      BY <1>1, <1>3, <2>2, ProgsAre DEF Forward
    <3> QED
      BY <1>2, <2>1, <2>2, <3>1
  <2>3. CASE f \notin DOMAIN m
    BY <1>2, <2>1, <2>3
  <2> QED
    BY <2>2, <2>3
<1> QED
  BY <1>1, <1>4 DEF k

LEMMA SavedChecks ==
  ASSUME WellKept, Right, NothingLost, Progressive, skipped = {}, NEW p \in Process \ overtaken, Save(p),
         run[p].left = <<>>
  PROVE  AsChecked(Asked, installed, KeyFile(p))
<1> DEFINE y == run[p]
           k == KeyFile(p)
           m == run[p].progresses
           t == Target
           v == installed
<1>1. /\ RunRight(Asked, y) /\ Forward(Asked, counter, y) /\ run[p].loaded = counter /\ y.pc = "save" /\ y.actions = <<>>
      /\ counter \in Progs /\ m \in Progs
  BY DEF Right, Progressive, Save, Forward, RunRight, Known
<1>2. Filed(Asked) /\ AskFor(Asked, origin, t)
  BY AskedFor
<1>3. /\ DOMAIN k = DOMAIN m \cup DOMAIN counter
      /\ \A f \in DOMAIN k : k[f] = IF f \in DOMAIN m THEN m[f] ELSE counter[f]
  BY <1>1, KeyFileIs DEF RunRight
<1>4. \A r \in Autoinstalled : v[r] = t[r]
  <2>1. Rest(y) = <<>> /\ Due = Autoinstalled
    BY <1>1 DEF Rest, Due
  <2>2. Brings(Autoinstalled, v, t, <<>>)
    BY <1>1, <2>1 DEF NothingLost, Lossless, RunGood
  <2>3. Len(<<>>) = 0
    OBVIOUS
  <2> QED
    BY <2>2, <2>3 DEF Brings
<1> HIDE DEF k, t, v
<1> SUFFICES ASSUME NEW f \in File, NEW r \in Refs(f), NEW a \in Asked[f], IsLast(Old(Asked[f], f, k), r, a)
             PROVE  v[r] = MadeBy(a)
  BY DEF AsChecked, k, v
<1> DEFINE C == Asked[f]
<1>5. Actionable(C) /\ Makes(C, r, origin[r], t[r]) /\ r \in Autoinstalled
  BY <1>2, AutoinstalledAre DEF Filed, AskFor
<1>6. Covers(C, f, counter, y)
  BY <1>1 DEF Forward
<1>7. ASSUME NEW b \in C, b.type # "update"
      PROVE  b \in Old(C, f, k)
  <2>1. Len(<<>>) = 0
    OBVIOUS
  <2>2. b \notin New(C, f, counter) \/ b \notin New(C, f, m)
    BY <1>1, <1>6, <1>7, <2>1 DEF Covers
  <2>3. b.serial \in Int
    BY <1>5, SerialsAre DEF Actionable
  <2>4. CASE b \notin New(C, f, m)
    <3>1. f \in DOMAIN m /\ ~(b.serial > m[f])
      BY <2>4 DEF New
    <3>2. m[f] \in Int
      BY <1>1, <3>1, ProgsAre
    <3> QED
      BY <1>3, <2>3, <3>1, <3>2 DEF Old
  <2>5. CASE b \notin New(C, f, counter)
    <3>1. f \in DOMAIN counter /\ ~(b.serial > counter[f])
      BY <2>5 DEF New
    <3>2. counter[f] \in Int
      BY <1>1, <3>1, ProgsAre
    <3>3. f \in DOMAIN m => counter[f] <= m[f] /\ m[f] \in Int
      BY <1>1, <3>1, ProgsAre DEF Forward
    <3>4. f \in DOMAIN k /\ b.serial <= k[f]
      BY <1>3, <2>3, <3>1, <3>2, <3>3
    <3> QED
      BY <3>4 DEF Old
  <2> QED
    BY <2>2, <2>4, <2>5
<1>8. IsLast(C, r, a)
  BY <1>7 DEF IsLast, Decisive
<1>9. t[r] = MadeBy(a)
  <2>1. Makes(C, r, origin[r], MadeBy(a))
    BY <1>8 DEF Makes
  <2> HIDE DEF C
  <2> QED
    BY <1>5, <2>1, MakesOne
<1> QED
  BY <1>4, <1>5, <1>9

(* After a save, whoever else still runs has been overtaken.                     *)
LEMMA SaveForward ==
  ASSUME WellKept, Right, NothingLost, Progressive, NEW p \in Process, Save(p)
  PROVE  Progressive'
<1> DEFINE y == run[p]
           k == KeyFile(p)
<1>1. PICK s \in {"ok", "failed"} : run' = [run EXCEPT ![p] = Over(s)]
  <2>1. \E s \in {"ok", "failed"} : Ended(p, s)
    BY DEF Save
  <2> QED
    BY <2>1 DEF Ended, Over
<1>2. /\ UNCHANGED <<environment, installed>> /\ counter' = k
      /\ clean' => p \notin overtaken /\ (clean \/ y.left = <<>>)
      /\ skipped' = {} => skipped = {}
      /\ overtaken' = {q \in Process : run[q].pc # "idle"} \ {p}
  BY DEF Save
<1>3. Asked' = Asked
  BY <1>2 DEF environment, Asked
<1>4. ASSUME NEW q \in Process \ overtaken'
      PROVE  /\ run'[q].pc = "idle" /\ run'[q].actions = <<>> /\ run'[q].left = <<>> /\ run'[q].progresses = <<>>
  <2>1. CASE q = p
    <3>1. run'[q] = Over(s) /\ AtRest(Over(s))
      BY <1>1, <2>1, OverIs DEF Right
    <3> QED
      BY <3>1 DEF AtRest
  <2>2. CASE q # p
    <3>1. run'[q] = run[q] /\ run[q].pc = "idle" /\ RunRight(Asked, run[q])
      BY <1>1, <1>2, <2>2 DEF Right
    <3> QED
      BY <3>1 DEF RunRight
  <2> QED
    BY <2>1, <2>2
<1> HIDE DEF k
<1>5. \A q \in Process \ overtaken' : Forward(Asked, k, run'[q])
  BY <1>4, RestingForward
<1>6. ASSUME clean', skipped' = {}
      PROVE  AsChecked(Asked, installed, k)
  <2>1. CASE y.left = <<>>
    BY <1>2, <1>6, <2>1, SavedChecks DEF k
  <2>2. CASE y.left # <<>>
    <3>1. p \in Process \ overtaken /\ y.progresses = <<>> /\ AsChecked(Asked, installed, counter)
      BY <1>2, <1>6, <2>2 DEF Progressive
    <3>2. y.loaded = counter /\ DOMAIN <<>> = {} /\ counter \in Progs
      BY <3>1, KeyFileForward DEF Right, Known
    <3>3. k = [f \in DOMAIN counter |-> counter[f]]
      BY <3>1, <3>2 DEF KeyFile, k
    <3>4. k = counter
      BY <3>2, <3>3 DEF Progs
    <3> QED
      BY <3>1, <3>4
  <2> QED
    BY <2>1, <2>2
<1> QED
  BY <1>2, <1>3, <1>4, <1>5, <1>6 DEF Progressive

LEMMA RebootForward ==
  ASSUME Progressive, Reboot, AsChecked(Asked, installed, counter) => AsChecked(Asked', installed, counter)
  PROVE  Progressive'
<1>1. run' = [p \in Process |-> Idle] /\ UNCHANGED <<installed, counter, skipped, clean>>
  BY DEF Reboot
<1>2. Idle.pc = "idle" /\ Idle.actions = <<>> /\ Idle.progresses = <<>> /\ Idle.left = <<>>
  BY DEF Idle
<1> HIDE DEF Idle
<1>3. Forward(Asked', counter, Idle)
  BY <1>2, RestingForward
<1>4. \A p \in Process : run'[p] = Idle
  BY <1>1
<1> QED
  BY <1>1, <1>2, <1>3, <1>4 DEF Progressive

LEMMA RestartForward ==
  ASSUME WellKept, Right, Progressive, Restart
  PROVE  Progressive'
  BY RestartAsks, RebootForward DEF Restart

LEMMA UpgradeForward ==
  ASSUME WellKept, Right, Progressive, NEW f \in DOMAIN Entries, NEW entry \in Entries[f], Upgrade(f, entry)
  PROVE  Progressive'
<1> DEFINE A == Asked
           B == Asked'
           a == ActionOf(f, entry)
<1>1. Extended(A, B, f, a) /\ Known(A, counter) /\ counter \in Progs
  BY UpgradeExtends DEF Right, Known
<1> HIDE DEF A, B, a
<1>2. ASSUME NEW g \in File
      PROVE  Old(B[g], g, counter) = Old(A[g], g, counter)
  <2>1. CASE B[g] = A[g]
    BY <2>1
  <2>2. CASE a \in Listed /\ B[g] = A[g] \cup {a} /\ \A b \in A[g] : b.serial < a.serial
    <3>1. ASSUME g \in DOMAIN counter, a.serial <= counter[g]
          PROVE  FALSE
      <4>1. PICK b \in A[g] : b.serial = counter[g]
        BY <1>1, <3>1 DEF Known
      <4>2. a.serial \in Int /\ counter[g] \in Int
        BY <1>1, <2>2, <3>1, SerialsAre, ProgsAre
      <4> QED
        BY <2>2, <3>1, <4>1, <4>2
    <3> QED
      BY <2>2, <3>1 DEF Old
  <2> QED
    BY <1>1, <2>1, <2>2 DEF Extended
<1>3. \A v : AsChecked(A, v, counter) => AsChecked(B, v, counter)
  <2>1. \A g \in File : \A r, b : IsLast(Old(A[g], g, counter), r, b) => b \in A[g]
    BY DEF IsLast, Decisive, Old
  <2> QED
    BY <1>2, <2>1 DEF AsChecked
<1>4. AsChecked(Asked, installed, counter) => AsChecked(Asked', installed, counter)
  BY <1>3 DEF A, B
<1> QED
  BY <1>4, RebootForward DEF Upgrade

LEMMA InitForward ==
  ASSUME Init
  PROVE  Progressive
<1>1. run = [p \in Process |-> Idle] /\ ~clean
  BY DEF Init
<1>2. Idle.pc = "idle" /\ Idle.actions = <<>> /\ Idle.progresses = <<>> /\ Idle.left = <<>>
  BY DEF Idle
<1> HIDE DEF Idle
<1>3. Forward(Asked, counter, Idle)
  BY <1>2, RestingForward
<1> QED
  BY <1>1, <1>3 DEF Progressive

LEMMA StepForwards ==
  ASSUME WellKept, Right, NothingLost, Progressive, [Next]_vars
  PROVE  Progressive'
<1>1. CASE UNCHANGED vars
  <2>1. /\ Asked' = Asked /\ installed' = installed /\ counter' = counter /\ run' = run
        /\ skipped' = skipped /\ overtaken' = overtaken /\ clean' = clean
    BY <1>1 DEF vars, environment, history, Asked
  <2> QED
    BY <2>1 DEF Progressive
<1>2. ASSUME NEW p \in Process, Perform(p)
      PROVE  Progressive'
  <2>1. Applying(p) /\ Progress(p) /\ UNCHANGED <<environment, counter>> /\ overtaken' = overtaken /\ clean' = FALSE
    BY <1>2 DEF Perform
  <2> QED
    BY <2>1, ProgressForward
<1>3. ASSUME NEW p \in Process, Stamp(p)
      PROVE  Progressive'
  <2>1. Applying(p) /\ Progress(p) /\ UNCHANGED <<environment, counter>> /\ overtaken' = overtaken /\ clean' = FALSE
    BY <1>3 DEF Stamp
  <2> QED
    BY <2>1, ProgressForward
<1>4. CASE \E p \in Process : \/ Check(p) \/ Fail(p) \/ Complete(p) \/ Load(p) \/ Save(p) \/ SaveFails(p)
                              \/ \E mode \in Modes : Start(p, mode)
  BY <1>4, CheckForward, FailForward, CompleteForward, LoadForward, SaveForward, SaveFailsForward, StartForward
<1>5. CASE \E f \in DOMAIN Entries : \E entry \in Entries[f] : Upgrade(f, entry)
  BY <1>5, UpgradeForward
<1>6. CASE Restart
  BY <1>6, RestartForward
<1> QED
  BY <1>1, <1>2, <1>3, <1>4, <1>5, <1>6 DEF Next

-----------------------------------------------------------------------------
(* What the invariant says of a run that failed, of a save, and of a check.       *)

LEMMA FailedNext ==
  ASSUME Right, Progressive, NEW p \in Process \ overtaken, ~DependencyCounts(p)
  PROVE  FailedIsRetried(p)
<1> SUFFICES ASSUME Save(p), run[p].left # <<>>
             PROVE  LET action == Head(run[p].left)
                    IN  action.source \notin DOMAIN counter' \/ counter'[action.source] < action.serial
  BY DEF FailedIsRetried
<1> DEFINE y == run[p]
           s == run[p].left
           a == Head(run[p].left)
           m == run[p].progresses
           k == KeyFile(p)
<1>1. /\ RunRight(Asked, y) /\ Rest(y) = s /\ s \in Seq(Joined) /\ s # <<>>
      /\ Unpassed(s, m, y.pulled) /\ Forward(Asked, counter, y) /\ y.loaded = counter /\ counter \in Progs
  BY KeyFileForward DEF Right, RunRight, Rest, Runnable, Progressive, Known
<1>2. a = s[1] /\ 1 \in 1 .. Len(s) /\ a \in Joined /\ DOMAIN s = 1 .. Len(s)
  BY <1>1, TailIs, LenProperties
<1>3. /\ DOMAIN k = DOMAIN m \cup DOMAIN counter
      /\ \A f \in DOMAIN k : k[f] = IF f \in DOMAIN m THEN m[f] ELSE counter[f]
  BY <1>1, KeyFileIs DEF RunRight
<1>4. ~a.dependency /\ <<a.source, a.serial>> \notin y.pulled
  BY <1>2 DEF DependencyCounts, HalfDone
<1>5. a.source \in DOMAIN m => m[a.source] < a.serial
  BY <1>1, <1>2, <1>4 DEF Unpassed
<1>6. a.source \in DOMAIN counter => counter[a.source] < a.serial
  <2>1. Beyond(counter, a)
    BY <1>1, <1>2 DEF Forward
  <2>2. a.serial \in Int /\ \A f \in DOMAIN counter : counter[f] \in Int
    BY <1>1, <1>2, JoinedSerials, ProgsAre
  <2> QED
    BY <2>1, <2>2 DEF Beyond
<1>7. a.source \notin DOMAIN k \/ k[a.source] < a.serial
  <2> HIDE DEF k, a, m
  <2> QED
    BY <1>3, <1>5, <1>6
<1> QED
  BY <1>7 DEF Save

LEMMA CounterForward ==
  ASSUME Right, Progressive, NEW p \in Process \ overtaken
  PROVE  ProgressNeverBack(p)
  BY KeyFileForward DEF ProgressNeverBack, Save

LEMMA ChecksOk ==
  ASSUME WellKept, Right, Progressive, NEW p \in Process
  PROVE  CheckAgrees(p)
<1> SUFFICES ASSUME skipped = {}, clean, Check(p)
             PROVE  run'[p].status = "ok"
  BY DEF CheckAgrees
<1> DEFINE q == Applied
           A == Asked
<1>1. Loaded.ok
  BY LoadedAre DEF WellKept, Right, Loaded, LoadedFrom
<1>2. Filed(A) /\ counter \in Progs /\ AsChecked(A, installed, counter)
  BY AskedFor DEF Right, Known, Progressive
<1>3. Squashed(Behind(A, counter), q)
  BY <1>2, ToDo DEF Right, Asked
<1> HIDE DEF q, A
<1>4. q \in Seq(Listed) /\ DOMAIN q = 1 .. Len(q)
  BY <1>3, LenProperties DEF Squashed
<1>5. ASSUME NEW i \in 1 .. Len(q)
      PROVE  /\ q[i].type \in Type
             /\ q[i].type = "install" => installed[q[i].ref] # "absent"
             /\ q[i].type = "uninstall" => installed[q[i].ref] = "absent"
  <2> DEFINE f == q[i].source
             b == q[i]
  <2>1. f \in File /\ b \in ListedOf(f) /\ Stays(Old(A[f], f, counter), b)
    BY <1>3 DEF Squashed, Behind
  <2>2. b.ref \in Refs(f) /\ b.type \in Type /\ b \in A[f]
    <3> HIDE DEF f, b
    <3>1. b \in Listed /\ b.ref \in Refs(f)
      BY <2>1, RefsAre
    <3> QED
      BY <2>1, <3>1 DEF Listed, Stays, Old
  <2> HIDE DEF f, b
  <2>3. b.type # "update" => installed[b.ref] = MadeBy(b)
    BY <1>2, <2>1, <2>2 DEF Stays, AsChecked
  <2> QED
    BY <2>2, <2>3 DEF MadeBy, Type, b
<1>6. eufi_check_ref_actions_applied(q) = {}
  <2> SUFFICES ASSUME NEW i \in DOMAIN q
               PROVE  ~(CASE q[i].type = "install" -> installed[q[i].ref] = "absent"
                          [] q[i].type = "uninstall" -> installed[q[i].ref] # "absent"
                          [] q[i].type = "update" -> FALSE)
    BY DEF eufi_check_ref_actions_applied
  <2>1. /\ q[i].type = "install" => installed[q[i].ref] # "absent"
        /\ q[i].type = "uninstall" => installed[q[i].ref] = "absent"
    BY <1>4, <1>5
  <2>2. CASE q[i].type = "install"
    BY <2>1, <2>2
  <2>3. CASE q[i].type = "uninstall"
    BY <2>1, <2>3
  <2>4. CASE q[i].type = "update"
    BY <2>4
  <2> QED
    BY <1>4, <1>5, <2>2, <2>3, <2>4 DEF Type
<1>7. Ended(p, "ok")
  BY <1>1, <1>6 DEF Check, q
<1>8. Over("ok").status = "ok" /\ run' = [run EXCEPT ![p] = Over("ok")]
  BY <1>7 DEF Ended, Over, Idle
<1> QED
  BY <1>8 DEF Right

(* However services run into each other: what a run saves falls back behind no     *)
(* file's serial number in the key file and loses none (update_counter), unless   *)
(* another has saved its progress since the run began; the action that failed is *)
(* not counted as done, unless a dependency with its serial number is            *)
(* (eufi_apply_flatpak_ref_actions); and a check after a run that succeeded finds *)
(* what was performed (eufi_check_ref_actions_applied).                         *)
THEOREM ProgressRight ==
  ASSUME WellKept
  PROVE  Spec => ProgressIsRight
<1> DEFINE Inv == Right /\ NothingLost /\ Progressive
<1>1. Init => Inv
  BY InitKeeps, InitForward
<1>2. Inv /\ [Next]_vars => Inv'
  BY StepKeeps, StepForwards
<1>3. Inv => \A p \in Process :
                /\ ProgressNeverBack(p) \/ p \in overtaken
                /\ FailedIsRetried(p) \/ p \in overtaken \/ DependencyCounts(p)
                /\ CheckAgrees(p)
  BY CounterForward, FailedNext, ChecksOk
<1> QED
  BY <1>1, <1>2, <1>3, PTL DEF Spec, ProgressIsRight
=============================================================================
