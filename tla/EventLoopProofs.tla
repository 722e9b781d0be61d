-------------------------- MODULE EventLoopProofs --------------------------
(***************************************************************************)
(* Proofs about EventLoop: for any programs, handlers and signals, the     *)
(* object and the select loop know the same handlers, and exit handlers    *)
(* run in order.                                                           *)
(***************************************************************************)
EXTENDS EventLoop, FiniteSetTheorems, WellFoundedInduction, TLAPS

-----------------------------------------------------------------------------
(***************************************************************************)
(* Induction over the natural numbers, as a set: its least member that     *)
(* were missing has one before it.                                         *)
(***************************************************************************)
Below == OpToRel(<, Nat)

LEMMA BelowIsOrder == \A x, y \in Nat : x < y => <<x, y>> \in Below
  BY DEF Below, OpToRel

LEMMA Least ==
    ASSUME NEW S \in SUBSET Nat, S # {}
    PROVE  \E x \in S : \A y \in S : x <= y
  <1>1. IsWellFoundedOn(Below, Nat)
    BY NatLessThanWellFounded DEF Below
  <1>2. PICK x \in S : \A y \in S : ~ (<<y, x>> \in Below)
    BY <1>1, WFMin
  <1>3. ASSUME NEW y \in S PROVE x <= y
    <2>1. ~ (y < x)
      BY <1>2, BelowIsOrder
    <2> QED
      BY <2>1
  <1> QED
    BY <1>3

LEMMA Induction ==
    ASSUME NEW S, 0 \in S, \A n \in Nat : n \in S => n + 1 \in S
    PROVE  Nat \subseteq S
  <1>1. SUFFICES ASSUME Nat \ S # {} PROVE FALSE
    OBVIOUS
  <1>2. PICK x \in Nat \ S : \A y \in Nat \ S : x <= y
    BY <1>1, Least
  <1>3. x # 0
    OBVIOUS
  <1>4. x - 1 \in Nat /\ (x - 1) + 1 = x /\ x - 1 < x
    BY <1>3
  <1>5. x - 1 \notin S
    BY <1>4
  <1> QED
    BY <1>2, <1>4, <1>5

-----------------------------------------------------------------------------
(***************************************************************************)
(* Sequences to which an element is added, or from which one is taken, at  *)
(* some place.                                                             *)
(***************************************************************************)
Widened(q, t, k, e) ==
    /\ Len(t) = Len(q) + 1 /\ k \in 1 .. Len(t)
    /\ \A i \in 1 .. Len(t) :
          t[i] = IF i < k THEN q[i] ELSE IF i = k THEN e ELSE q[i - 1]

Narrowed(q, t, k) ==
    /\ Len(q) = Len(t) + 1 /\ k \in 1 .. Len(q)
    /\ \A i \in 1 .. Len(t) : t[i] = IF i < k THEN q[i] ELSE q[i + 1]

\* What is in a sequence.
LEMMA Members ==
    ASSUME NEW S, NEW s \in Seq(S)
    PROVE  /\ DOMAIN s = 1 .. Len(s) /\ Len(s) \in Nat
           /\ ToSet(s) = {s[i] : i \in 1 .. Len(s)}
           /\ ToSet(s) \subseteq S
           /\ IsInjective(s) <=> \A i, j \in 1 .. Len(s) : s[i] = s[j] => i = j
  <1>1. DOMAIN s = 1 .. Len(s) /\ Len(s) \in Nat
    OBVIOUS
  <1>2. ToSet(s) = {s[i] : i \in 1 .. Len(s)}
    BY <1>1 DEF ToSet
  <1>3. IsInjective(s) <=> \A i, j \in 1 .. Len(s) : s[i] = s[j] => i = j
    BY <1>1 DEF IsInjective
  <1>4. \A i \in 1 .. Len(s) : s[i] \in S
    OBVIOUS
  <1> QED
    BY <1>1, <1>2, <1>3, <1>4

LEMMA WidenedSet ==
    ASSUME NEW S, NEW q \in Seq(S), NEW t \in Seq(S), NEW k, NEW e, Widened(q, t, k, e)
    PROVE  ToSet(t) = ToSet(q) \cup {e}
  <1>1. ASSUME NEW i \in 1 .. Len(t) PROVE t[i] = e \/ \E j \in 1 .. Len(q) : t[i] = q[j]
    <2>1. CASE i < k
      BY <2>1 DEF Widened
    <2>2. CASE i = k
      BY <2>2 DEF Widened
    <2>3. CASE i > k
      <3>1. i - 1 \in 1 .. Len(q) /\ t[i] = q[i - 1]
        BY <2>3 DEF Widened
      <3> QED
        BY <3>1
    <2> QED
      BY <2>1, <2>2, <2>3 DEF Widened
  <1>2. ASSUME NEW j \in 1 .. Len(q) PROVE \E i \in 1 .. Len(t) : t[i] = q[j]
    <2>1. CASE j < k
      BY <2>1 DEF Widened
    <2>2. CASE ~ (j < k)
      <3>1. j + 1 \in 1 .. Len(t) /\ t[j + 1] = q[j]
        BY <2>2 DEF Widened
      <3> QED
        BY <3>1
    <2> QED
      BY <2>1, <2>2
  <1>3. k \in 1 .. Len(t) /\ t[k] = e
    BY DEF Widened
  <1> QED
    BY <1>1, <1>2, <1>3, Members

LEMMA WidenedOnce ==
    ASSUME NEW S, NEW q \in Seq(S), NEW t \in Seq(S), NEW k, NEW e, Widened(q, t, k, e),
           IsInjective(q), e \notin ToSet(q)
    PROVE  IsInjective(t)
  <1>1. \A i, j \in 1 .. Len(q) : q[i] = q[j] => i = j
    BY Members
  <1>2. \A i \in 1 .. Len(q) : q[i] # e
    BY Members
  <1> DEFINE Back(i) == IF i < k THEN i ELSE i - 1
  <1>3. \A i \in 1 .. Len(t) : i # k => Back(i) \in 1 .. Len(q) /\ t[i] = q[Back(i)]
    BY DEF Widened
  <1>4. \A i, j \in 1 .. Len(t) : i # k /\ j # k /\ Back(i) = Back(j) => i = j
    BY DEF Widened
  <1>5. t[k] = e /\ k \in 1 .. Len(t)
    BY DEF Widened
  <1> HIDE DEF Back
  <1>6. ASSUME NEW i \in 1 .. Len(t), NEW j \in 1 .. Len(t), t[i] = t[j] PROVE i = j
    BY <1>1, <1>2, <1>3, <1>4, <1>5, <1>6
  <1> QED
    BY <1>6, Members

LEMMA NarrowedSet ==
    ASSUME NEW S, NEW q \in Seq(S), NEW t \in Seq(S), NEW k, Narrowed(q, t, k), IsInjective(q)
    PROVE  ToSet(t) = ToSet(q) \ {q[k]} /\ IsInjective(t)
  <1> DEFINE Fwd(i) == IF i < k THEN i ELSE i + 1
  <1>1. \A i, j \in 1 .. Len(q) : q[i] = q[j] => i = j
    BY Members
  <1>2. \A i \in 1 .. Len(t) : Fwd(i) \in 1 .. Len(q) /\ Fwd(i) # k /\ t[i] = q[Fwd(i)]
    BY DEF Narrowed
  <1>3. \A i, j \in 1 .. Len(t) : Fwd(i) = Fwd(j) => i = j
    BY DEF Narrowed
  <1>4. k \in 1 .. Len(q)
    BY DEF Narrowed
  <1>5. ASSUME NEW j \in 1 .. Len(q), j # k PROVE \E i \in 1 .. Len(t) : Fwd(i) = j
    <2>1. CASE j < k
      BY <2>1 DEF Narrowed
    <2>2. CASE j > k
      <3>1. j - 1 \in 1 .. Len(t) /\ Fwd(j - 1) = j
        BY <2>2 DEF Narrowed
      <3> QED
        BY <3>1
    <2> QED
      BY <1>5, <1>4, <2>1, <2>2
  <1> HIDE DEF Fwd
  <1>6. ToSet(t) = ToSet(q) \ {q[k]}
    <2>1. \A i \in 1 .. Len(t) : t[i] \in ToSet(q) /\ t[i] # q[k]
      BY <1>1, <1>2, <1>4, Members
    <2>2. \A j \in 1 .. Len(q) : q[j] # q[k] => \E i \in 1 .. Len(t) : t[i] = q[j]
      BY <1>2, <1>5
    <2> QED
      BY <2>1, <2>2, Members
  <1>7. ASSUME NEW i \in 1 .. Len(t), NEW j \in 1 .. Len(t), t[i] = t[j] PROVE i = j
    BY <1>1, <1>2, <1>3, <1>7
  <1> QED
    BY <1>6, <1>7, Members
\* At the head, at the tail, at any place.
LEMMA Pushed ==
    ASSUME NEW S, NEW q \in Seq(S), NEW e \in S
    PROVE  <<e>> \o q \in Seq(S) /\ Widened(q, <<e>> \o q, 1, e)
  <1>1. <<e>> \o q \in Seq(S) /\ Len(<<e>> \o q) = Len(q) + 1
    OBVIOUS
  <1>2. \A i \in 1 .. Len(q) + 1 : (<<e>> \o q)[i] = IF i = 1 THEN e ELSE q[i - 1]
    OBVIOUS
  <1>3. Len(q) \in Nat
    OBVIOUS
  <1> QED
    BY <1>1, <1>2, <1>3 DEF Widened

LEMMA Appended ==
    ASSUME NEW S, NEW q \in Seq(S), NEW e \in S
    PROVE  Append(q, e) \in Seq(S) /\ Widened(q, Append(q, e), Len(q) + 1, e)
  <1>1. Append(q, e) \in Seq(S) /\ Len(Append(q, e)) = Len(q) + 1
    OBVIOUS
  <1>2. \A i \in 1 .. Len(q) + 1 : Append(q, e)[i] = IF i <= Len(q) THEN q[i] ELSE e
    OBVIOUS
  <1>3. Len(q) \in Nat
    OBVIOUS
  <1> QED
    BY <1>1, <1>2, <1>3 DEF Widened

LEMMA Inserted ==
    ASSUME NEW S, NEW q \in Seq(S), NEW e \in S, NEW k \in 1 .. Len(q) + 1
    PROVE  InsertAt(q, k, e) \in Seq(S) /\ Widened(q, InsertAt(q, k, e), k, e)
  <1> DEFINE a == SubSeq(q, 1, k - 1)
             b == SubSeq(q, k, Len(q))
             ae == a \o <<e>>
  <1>1. /\ a \in Seq(S) /\ Len(a) = k - 1
        /\ \A i \in 1 .. k - 1 : a[i] = q[i]
    OBVIOUS
  <1>2. /\ b \in Seq(S) /\ Len(b) = Len(q) - k + 1
        /\ \A i \in 1 .. Len(q) - k + 1 : b[i] = q[i + k - 1]
    OBVIOUS
  <1>3. InsertAt(q, k, e) = ae \o b
    BY DEF InsertAt
  <1> HIDE DEF a, b
  <1>4. /\ ae \in Seq(S) /\ Len(ae) = k
        /\ \A i \in 1 .. k : ae[i] = IF i < k THEN q[i] ELSE e
    BY <1>1
  <1> HIDE DEF ae
  <1>5. ae \o b \in Seq(S) /\ Len(ae \o b) = Len(q) + 1
    <2>1. ae \in Seq(S) /\ b \in Seq(S) /\ Len(ae) = k /\ Len(b) = Len(q) - k + 1
      BY <1>2, <1>4
    <2>2. Len(ae \o b) = k + (Len(q) - k + 1)
      BY <2>1
    <2>3. Len(q) \in Nat
      OBVIOUS
    <2> QED
      BY <2>1, <2>2, <2>3
  <1>6. ASSUME NEW i \in 1 .. Len(q) + 1
        PROVE  (ae \o b)[i] = IF i < k THEN q[i] ELSE IF i = k THEN e ELSE q[i - 1]
    <2>1. CASE i <= k
      BY <1>2, <1>4, <2>1
    <2>2. CASE ~ (i <= k)
      <3>1. (ae \o b)[i] = b[i - k] /\ i - k \in 1 .. Len(q) - k + 1
        BY <1>2, <1>4, <2>2
      <3>2. i - k + k - 1 = i - 1
        OBVIOUS
      <3> QED
        BY <1>2, <2>2, <3>1, <3>2
    <2> QED
      BY <2>1, <2>2
  <1> QED
    BY <1>3, <1>5, <1>6 DEF Widened

LEMMA Popped ==
    ASSUME NEW S, NEW q \in Seq(S), q # << >>
    PROVE  /\ Tail(q) \in Seq(S) /\ Narrowed(q, Tail(q), 1)
           /\ Head(q) = q[1] /\ 1 \in 1 .. Len(q)
  <1>1. Len(q) \in Nat \ {0} /\ Len(Tail(q)) = Len(q) - 1 /\ Tail(q) \in Seq(S)
    OBVIOUS
  <1>2. \A i \in 1 .. Len(q) - 1 : Tail(q)[i] = q[i + 1]
    OBVIOUS
  <1> QED
    BY <1>1, <1>2 DEF Narrowed

LEMMA TakenOut ==
    ASSUME NEW S, NEW q \in Seq(S), NEW k \in 1 .. Len(q)
    PROVE  RemoveAt(q, k) \in Seq(S) /\ Narrowed(q, RemoveAt(q, k), k)
  <1> DEFINE a == SubSeq(q, 1, k - 1)
             b == SubSeq(q, k + 1, Len(q))
  <1>1. /\ a \in Seq(S) /\ Len(a) = k - 1
        /\ \A i \in 1 .. k - 1 : a[i] = q[i]
    OBVIOUS
  <1>2. /\ b \in Seq(S) /\ Len(b) = Len(q) - k
        /\ \A i \in 1 .. Len(q) - k : b[i] = q[i + k]
    OBVIOUS
  <1>3. RemoveAt(q, k) = a \o b
    BY DEF RemoveAt
  <1> HIDE DEF a, b
  <1>4. a \o b \in Seq(S) /\ Len(a \o b) = Len(q) - 1
    <2>1. a \in Seq(S) /\ b \in Seq(S) /\ Len(a) = k - 1 /\ Len(b) = Len(q) - k
      BY <1>1, <1>2
    <2> QED
      BY <2>1
  <1>5. ASSUME NEW i \in 1 .. Len(q) - 1
        PROVE  (a \o b)[i] = IF i < k THEN q[i] ELSE q[i + 1]
    <2>1. CASE i < k
      BY <1>1, <1>2, <2>1
    <2>2. CASE ~ (i < k)
      <3>1. (a \o b)[i] = b[i - (k - 1)] /\ i - (k - 1) \in 1 .. Len(q) - k
        BY <1>1, <1>2, <2>2
      <3> QED
        BY <1>2, <2>2, <3>1
    <2> QED
      BY <2>1, <2>2
  <1>6. Len(q) \in Nat
    OBVIOUS
  <1> QED
    BY <1>3, <1>4, <1>5, <1>6 DEF Narrowed

\* A part of an interval that holds what is below any of its members.
LEMMA Prefix ==
    ASSUME NEW n \in Nat, NEW B \in SUBSET (1 .. n),
           \A j \in B : \A i \in 1 .. j : i \in B
    PROVE  Cardinality(B) \in 0 .. n /\ B = 1 .. Cardinality(B)
  <1> DEFINE out == (1 .. n + 1) \ B
  <1>1. out \in SUBSET Nat /\ n + 1 \in out
    OBVIOUS
  <1>2. PICK x \in out : \A y \in out : x <= y
    BY <1>1, Least
  <1>3. x \in 1 .. n + 1 /\ x \notin B
    BY <1>2
  <1>4. B = 1 .. x - 1
    <2>1. ASSUME NEW i \in 1 .. x - 1 PROVE i \in B
      <3>1. i \in 1 .. n + 1 /\ ~ (x <= i)
        BY <1>3
      <3> QED
        BY <1>2, <3>1
    <2>2. ASSUME NEW i \in B PROVE i \in 1 .. x - 1
      <3>1. i \in 1 .. n
        OBVIOUS
      <3>2. CASE x <= i
        <4>1. x \in 1 .. i
          BY <1>3, <3>1, <3>2
        <4> QED
          BY <1>3, <4>1
      <3> QED
        BY <1>3, <3>1, <3>2
    <2> QED
      BY <2>1, <2>2
  <1>5. Cardinality(1 .. x - 1) = x - 1
    <2>1. 1 \in Int /\ x - 1 \in Int
      BY <1>3
    <2>2. Cardinality(1 .. x - 1) = IF 1 > x - 1 THEN 0 ELSE (x - 1) - 1 + 1
      BY <2>1, FS_Interval
    <2> QED
      BY <1>3, <2>2
  <1> QED
    BY <1>3, <1>4, <1>5

\* Nothing is kept of a list whose entries are all gone.
LEMMA KeptNone ==
    ASSUME NEW S, NEW list \in Seq(S), NEW gone, ToSet(list) \subseteq gone
    PROVE  Kept(list, gone) = << >>
  <1> DEFINE Keeps(kept) ==
                 kept = [n \in 0 .. Len(list) |->
                            IF n = 0 THEN << >>
                            ELSE IF list[n] \in gone THEN kept[n - 1]
                            ELSE Append(kept[n - 1], list[n])]
             none == [n \in 0 .. Len(list) |-> << >>]
             all == CHOOSE kept : Keeps(kept)
  <1>1. \A n \in 1 .. Len(list) : list[n] \in gone
    BY Members
  <1>2. Len(list) \in Nat
    OBVIOUS
  <1>3. Keeps(none)
    BY <1>1, <1>2
  <1>4. Keeps(all)
    BY <1>3
  <1>5. Kept(list, gone) = all[Len(list)]
    BY DEF Kept
  <1> HIDE DEF all
  <1> DEFINE S1 == {n \in Nat : n \in 0 .. Len(list) => all[n] = << >>}
  <1>6. \A n \in 0 .. Len(list) :
           all[n] = IF n = 0 THEN << >>
                    ELSE IF list[n] \in gone THEN all[n - 1]
                    ELSE Append(all[n - 1], list[n])
    BY <1>4
  <1>7. 0 \in S1
    BY <1>2, <1>6
  <1>8. ASSUME NEW n \in Nat, n \in S1 PROVE n + 1 \in S1
    <2>1. CASE n + 1 \in 0 .. Len(list)
      <3>1. n \in 0 .. Len(list) /\ n + 1 \in 1 .. Len(list) /\ n + 1 # 0 /\ (n + 1) - 1 = n
        BY <1>2, <2>1
      <3>2. all[n + 1] = all[n]
        BY <1>1, <1>6, <2>1, <3>1
      <3> QED
        BY <1>8, <3>1, <3>2
    <2> QED
      BY <2>1
  <1>9. Nat \subseteq S1
    <2> HIDE DEF S1
    <2> QED
      BY <1>7, <1>8, Induction
  <1> QED
    BY <1>2, <1>5, <1>9
-----------------------------------------------------------------------------
(***************************************************************************)
(* The timers: their callbacks, and the order of their list.               *)
(***************************************************************************)
LEMMA CallbacksOf ==
    ASSUME NEW q \in Seq(Pending)
    PROVE  /\ Callbacks(q) \in Seq(Timers) /\ Len(Callbacks(q)) = Len(q)
           /\ \A i \in 1 .. Len(q) : /\ Callbacks(q)[i] = q[i].callback
                                   /\ q[i] \in Pending /\ q[i].left \in Nat
  <1>1. Len(q) \in Nat /\ DOMAIN q = 1 .. Len(q)
    OBVIOUS
  <1>2. \A i \in 1 .. Len(q) : q[i] \in Pending
    OBVIOUS
  <1>3. \A i \in 1 .. Len(q) : q[i].callback \in Timers /\ q[i].left \in Nat
    BY <1>2 DEF Pending
  <1>4. Callbacks(q) = [i \in 1 .. Len(q) |-> q[i].callback]
    BY <1>1 DEF Callbacks
  <1> DEFINE c == Callbacks(q)
  <1>5. c \in [1 .. Len(q) -> Timers]
    BY <1>3, <1>4
  <1> HIDE DEF c
  <1>6. c \in Seq(Timers) /\ Len(c) = Len(q)
    BY <1>1, <1>5
  <1> QED
    BY <1>2, <1>3, <1>4, <1>6 DEF c

LEMMA TimersWidened ==
    ASSUME NEW q \in Seq(Pending), NEW t \in Seq(Pending), NEW k, NEW e \in Pending,
           Widened(q, t, k, e), Sorted(q),
           \A i \in 1 .. Len(q) : IF i < k THEN q[i].left <= e.left ELSE e.left <= q[i].left
    PROVE  Widened(Callbacks(q), Callbacks(t), k, e.callback) /\ Sorted(t)
  <1>1. Len(q) \in Nat /\ Len(t) = Len(q) + 1 /\ k \in 1 .. Len(t)
    BY DEF Widened
  <1>2. \A i \in 1 .. Len(t) : t[i] = IF i < k THEN q[i] ELSE IF i = k THEN e ELSE q[i - 1]
    BY DEF Widened
  <1>3. \A i \in 1 .. Len(t) : i < k => i \in 1 .. Len(q)
    BY <1>1
  <1>4. \A i \in 1 .. Len(t) : i > k => i - 1 \in 1 .. Len(q) /\ ~ (i - 1 < k)
    BY <1>1
  <1>5. Widened(Callbacks(q), Callbacks(t), k, e.callback)
    <2>1. ASSUME NEW i \in 1 .. Len(t)
          PROVE  Callbacks(t)[i] = IF i < k THEN Callbacks(q)[i]
                                   ELSE IF i = k THEN e.callback ELSE Callbacks(q)[i - 1]
      <3>1. CASE i < k
        BY <1>2, <1>3, <3>1, CallbacksOf
      <3>2. CASE i = k
        BY <1>2, <3>2, CallbacksOf
      <3>3. CASE i > k
        <4>1. i - 1 \in 1 .. Len(q) /\ ~ (i < k) /\ i # k
          BY <1>1, <1>4, <3>3
        <4>2. Callbacks(q)[i - 1] = q[i - 1].callback /\ Callbacks(t)[i] = t[i].callback
          BY <4>1, CallbacksOf
        <4> QED
          BY <1>2, <4>1, <4>2
      <3> QED
        BY <1>1, <3>1, <3>2, <3>3
    <2> QED
      BY <1>1, <2>1, CallbacksOf DEF Widened
  <1>6. ASSUME NEW i \in 1 .. Len(t), NEW j \in 1 .. Len(t), i <= j
        PROVE  t[i].left <= t[j].left
    <2> DEFINE L(x) == q[x].left
    <2>1. \A x, y \in 1 .. Len(q) : x <= y => L(x) <= L(y)
      BY DEF Sorted
    <2>2. \A x \in 1 .. Len(q) : L(x) \in Nat /\ IF x < k THEN L(x) <= e.left ELSE e.left <= L(x)
      BY CallbacksOf
    <2>3. e.left \in Nat
      BY DEF Pending
    <2>4. \A x \in 1 .. Len(t) :
             t[x].left = IF x < k THEN L(x) ELSE IF x = k THEN e.left ELSE L(x - 1)
      BY <1>2
    <2> HIDE DEF L
    <2>5. CASE j < k
      <3>1. i < k
        BY <1>1, <1>6, <2>5
      <3> QED
        BY <1>3, <1>6, <2>1, <2>4, <2>5, <3>1
    <2>6. CASE j = k
      <3>1. CASE i < k
        BY <1>3, <2>2, <2>4, <2>6, <3>1
      <3>2. CASE i = k
        BY <2>3, <2>4, <2>6, <3>2
      <3> QED
        BY <1>1, <1>6, <2>6, <3>1, <3>2
    <2>7. CASE j > k
      <3>1. j - 1 \in 1 .. Len(q) /\ ~ (j - 1 < k) /\ t[j].left = L(j - 1)
        BY <1>1, <1>4, <2>4, <2>7
      <3>2. CASE i < k
        <4>1. i \in 1 .. Len(q) /\ t[i].left = L(i)
          BY <1>3, <2>4, <3>2
        <4>2. i <= j - 1
          BY <1>1, <2>7, <3>2
        <4> QED
          BY <2>1, <3>1, <4>1, <4>2
      <3>3. CASE i = k
        BY <2>2, <2>4, <3>1, <3>3
      <3>4. CASE i > k
        <4>1. i - 1 \in 1 .. Len(q) /\ t[i].left = L(i - 1)
          BY <1>1, <1>4, <2>4, <3>4
        <4>2. i - 1 <= j - 1
          BY <1>6
        <4> QED
          BY <2>1, <3>1, <4>1, <4>2
      <3> QED
        BY <1>1, <3>2, <3>3, <3>4
    <2> QED
      BY <1>1, <2>5, <2>6, <2>7
  <1> QED
    BY <1>5, <1>6 DEF Sorted

LEMMA TimersPopped ==
    ASSUME NEW q \in Seq(Pending), q # << >>, Sorted(q)
    PROVE  /\ Narrowed(Callbacks(q), Callbacks(Tail(q)), 1) /\ Sorted(Tail(q))
           /\ Callbacks(q)[1] = Head(q).callback
  <1> DEFINE t == Tail(q)
  <1>1. t \in Seq(Pending) /\ Narrowed(q, t, 1) /\ Head(q) = q[1] /\ 1 \in 1 .. Len(q)
    BY Popped
  <1> HIDE DEF t
  <1>2. Len(t) \in Nat /\ Len(q) = Len(t) + 1
    BY <1>1 DEF Narrowed
  <1>3. \A i \in 1 .. Len(t) : t[i] = q[i + 1] /\ i + 1 \in 1 .. Len(q)
    BY <1>1, <1>2 DEF Narrowed
  <1>4. Narrowed(Callbacks(q), Callbacks(t), 1)
    <2>1. ASSUME NEW i \in 1 .. Len(t)
          PROVE  Callbacks(t)[i] = Callbacks(q)[i + 1] /\ ~ (i < 1)
      <3>1. Callbacks(t)[i] = t[i].callback
        BY <1>1, CallbacksOf
      <3>2. Callbacks(q)[i + 1] = q[i + 1].callback
        BY <1>3, CallbacksOf
      <3> QED
        BY <1>2, <1>3, <3>1, <3>2
    <2>2. Len(Callbacks(t)) = Len(t) /\ Len(Callbacks(q)) = Len(q)
      BY <1>1, CallbacksOf
    <2> QED
      BY <1>1, <1>2, <2>1, <2>2 DEF Narrowed
  <1>5. Sorted(t)
    <2>1. ASSUME NEW i \in 1 .. Len(t), NEW j \in 1 .. Len(t), i <= j
          PROVE  t[i].left <= t[j].left
      <3>1. \A x, y \in 1 .. Len(q) : x <= y => q[x].left <= q[y].left
        BY DEF Sorted
      <3>2. i + 1 <= j + 1
        BY <2>1
      <3> QED
        BY <1>3, <3>1, <3>2
    <2> QED
      BY <1>1, <2>1 DEF Sorted
  <1>6. Callbacks(q)[1] = Head(q).callback
    BY <1>1, CallbacksOf
  <1> QED
    BY <1>4, <1>5, <1>6 DEF t

\* The timers that do not expire later than t are the first of a sorted list.
LEMMA TimerAdded ==
    ASSUME NEW q \in Seq(Pending), Sorted(q), NEW t \in Timers,
           NEW before, before = {i \in DOMAIN q : q[i].left <= Interval[t]},
           NEW timer, timer = [callback |-> t, left |-> Interval[t]],
           NEW added, added = InsertAt(q, Cardinality(before) + 1, timer)
    PROVE  /\ added \in Seq(Pending) /\ Sorted(added)
           /\ Widened(Callbacks(q), Callbacks(added), Cardinality(before) + 1, t)
  <1>1. Interval[t] \in Nat
    BY LoopAssumption
  <1>2. timer \in Pending /\ timer.callback = t /\ timer.left = Interval[t]
    BY <1>1 DEF Pending
  <1>3. Len(q) \in Nat /\ DOMAIN q = 1 .. Len(q)
    OBVIOUS
  <1>4. before \in SUBSET (1 .. Len(q)) /\ \A j \in before : \A i \in 1 .. j : i \in before
    <2>1. ASSUME NEW j \in before, NEW i \in 1 .. j PROVE i \in before
      <3>1. j \in 1 .. Len(q) /\ i \in 1 .. Len(q) /\ q[j].left <= Interval[t]
        BY <1>3
      <3>2. q[i].left <= q[j].left
        BY <1>3, <3>1 DEF Sorted
      <3>3. q[i].left \in Nat /\ q[j].left \in Nat
        BY <3>1, CallbacksOf
      <3> QED
        BY <1>1, <1>3, <3>1, <3>2, <3>3
    <2> QED
      BY <1>3, <2>1
  <1>5. PICK n \in 0 .. Len(q) : n = Cardinality(before) /\ before = 1 .. n
    BY <1>3, <1>4, Prefix
  <1>6. n + 1 \in 1 .. Len(q) + 1
    BY <1>3
  <1>7. added \in Seq(Pending) /\ Widened(q, added, n + 1, timer)
    BY <1>2, <1>5, <1>6, Inserted
  <1>8. ASSUME NEW i \in 1 .. Len(q)
        PROVE  IF i < n + 1 THEN q[i].left <= timer.left ELSE timer.left <= q[i].left
    <2>1. q[i].left \in Nat
      BY CallbacksOf
    <2>2. i < n + 1 <=> i \in before
      <3>1. i \in Int /\ n \in Int /\ 1 <= i
        BY <1>3, <1>5
      <3>2. i \in before <=> i \in 1 .. n
        BY <1>5
      <3> QED
        BY <3>1, <3>2
    <2>3. i \in before <=> q[i].left <= Interval[t]
      BY <1>3
    <2> QED
      BY <1>1, <1>2, <2>1, <2>2, <2>3
  <1>9. Widened(Callbacks(q), Callbacks(added), n + 1, timer.callback) /\ Sorted(added)
    BY <1>2, <1>7, <1>8, TimersWidened
  <1> QED
    BY <1>2, <1>5, <1>7, <1>9
-----------------------------------------------------------------------------
(***************************************************************************)
(* The operations on the queue of handlers and the lists of the select     *)
(* loop.  While a timer or worker is called, the queue knows it and the    *)
(* lists do not.                                                           *)
(***************************************************************************)
Good(r) == r \in Registry /\ Sorted(r.timeouts) /\ Once(r)

Agree(r, called) ==
    /\ Good(r)
    /\ ToSet(r.handlers) = NxNames(r) \cup called
    /\ NxNames(r) \cap called = {}

LEMMA Kinds ==
    ASSUME NEW r \in Registry
    PROVE  /\ r.handlers \in Seq(Handlers) /\ ToSet(r.handlers) \subseteq Handlers
           /\ r.sources \in Seq(Inputs \cup {Pipe}) /\ ToSet(r.sources) \subseteq Inputs \cup {Pipe}
           /\ r.timeouts \in Seq(Pending) /\ Callbacks(r.timeouts) \in Seq(Timers)
           /\ ToSet(Callbacks(r.timeouts)) \subseteq Timers
           /\ r.works \in Seq(Workers) /\ ToSet(r.works) \subseteq Workers
           /\ NxNames(r) \subseteq Handlers
  <1>1. /\ r.handlers \in Seq(Handlers) /\ r.sources \in Seq(Inputs \cup {Pipe})
        /\ r.timeouts \in Seq(Pending) /\ r.works \in Seq(Workers)
    BY DEF Registry
  <1>2. ToSet(r.handlers) \subseteq Handlers
    BY <1>1, Members
  <1>3. ToSet(r.sources) \subseteq Inputs \cup {Pipe}
    BY <1>1, Members
  <1>4. ToSet(r.works) \subseteq Workers
    BY <1>1, Members
  <1>5. Callbacks(r.timeouts) \in Seq(Timers)
    BY <1>1, CallbacksOf
  <1>6. ToSet(Callbacks(r.timeouts)) \subseteq Timers
    BY <1>5, Members
  <1> QED
    BY <1>1, <1>2, <1>3, <1>4, <1>5, <1>6 DEF NxNames, Handlers

LEMMA NxAdded ==
    ASSUME NEW r, Good(r), NEW h \in Handlers, h \notin NxNames(r)
    PROVE  /\ Good(NxAdd(r, h)) /\ NxNames(NxAdd(r, h)) = NxNames(r) \cup {h}
           /\ NxAdd(r, h).handlers = r.handlers
           /\ h \notin Inputs => NxAdd(r, h).sources = r.sources
  <1> USE DEF Good
  <1>1. h # Pipe
    BY LoopAssumption
  <1>2. CASE h \in Inputs
    <2> DEFINE s == <<h>> \o r.sources
               r2 == [r EXCEPT !.sources = s]
    <2>1. NxAdd(r, h) = r2
      BY <1>2, LoopAssumption DEF NxAdd, NxAddInput
    <2>2. /\ r.sources \in Seq(Inputs \cup {Pipe})
          /\ s \in Seq(Inputs \cup {Pipe}) /\ Widened(r.sources, s, 1, h)
      BY <1>2, Kinds, Pushed
    <2> HIDE DEF s
    <2>3. ToSet(s) = ToSet(r.sources) \cup {h}
      BY <2>2, WidenedSet
    <2>4. h \notin ToSet(r.sources)
      BY <1>1 DEF NxNames
    <2>5. IsInjective(s)
      BY <2>2, <2>4, WidenedOnce DEF Once
    <2>6. /\ r2 \in Registry /\ r2.handlers = r.handlers /\ r2.sources = s
          /\ r2.timeouts = r.timeouts /\ r2.works = r.works
      BY <2>2 DEF Registry
    <2> HIDE DEF r2
    <2> QED
      BY <1>1, <1>2, <2>1, <2>3, <2>5, <2>6 DEF NxNames, Once
  <1>3. CASE h \in Timers
    <2> DEFINE before == {i \in DOMAIN r.timeouts : r.timeouts[i].left <= Interval[h]}
               s == InsertAt(r.timeouts, Cardinality(before) + 1,
                             [callback |-> h, left |-> Interval[h]])
               r2 == [r EXCEPT !.timeouts = s]
    <2>1. NxAdd(r, h) = r2
      BY <1>3, LoopAssumption DEF NxAdd, NxAddTimeOut
    <2>2. /\ s \in Seq(Pending) /\ Sorted(s)
          /\ Widened(Callbacks(r.timeouts), Callbacks(s), Cardinality(before) + 1, h)
      BY <1>3, Kinds, TimerAdded
    <2>3. Callbacks(s) \in Seq(Timers) /\ Callbacks(r.timeouts) \in Seq(Timers)
      BY <2>2, Kinds, CallbacksOf
    <2> HIDE DEF s, before
    <2>4. ToSet(Callbacks(s)) = ToSet(Callbacks(r.timeouts)) \cup {h}
      BY <2>2, <2>3, WidenedSet
    <2>5. h \notin ToSet(Callbacks(r.timeouts))
      BY DEF NxNames
    <2>6. IsInjective(Callbacks(s))
      BY <2>2, <2>3, <2>5, WidenedOnce DEF Once
    <2>7. /\ r2 \in Registry /\ r2.handlers = r.handlers /\ r2.sources = r.sources
          /\ r2.timeouts = s /\ r2.works = r.works
      BY <2>2 DEF Registry
    <2> HIDE DEF r2
    <2> QED
      BY <2>1, <2>2, <2>4, <2>6, <2>7 DEF NxNames, Once
  <1>4. CASE h \in Workers
    <2> DEFINE s == Append(r.works, h)
               r2 == [r EXCEPT !.works = s]
    <2>1. NxAdd(r, h) = r2
      BY <1>4, LoopAssumption DEF NxAdd, NxAddWorkProc
    <2>2. /\ r.works \in Seq(Workers)
          /\ s \in Seq(Workers) /\ Widened(r.works, s, Len(r.works) + 1, h)
      BY <1>4, Kinds, Appended
    <2> HIDE DEF s
    <2>3. ToSet(s) = ToSet(r.works) \cup {h}
      BY <2>2, WidenedSet
    <2>4. h \notin ToSet(r.works)
      BY DEF NxNames
    <2>5. IsInjective(s)
      BY <2>2, <2>4, WidenedOnce DEF Once
    <2>6. /\ r2 \in Registry /\ r2.handlers = r.handlers /\ r2.sources = r.sources
          /\ r2.timeouts = r.timeouts /\ r2.works = s
      BY <2>2 DEF Registry
    <2> HIDE DEF r2
    <2> QED
      BY <2>1, <2>3, <2>5, <2>6 DEF NxNames, Once
  <1> QED
    BY <1>2, <1>3, <1>4 DEF Handlers

\* The queue of handlers with another content.
LEMMA Requeues ==
    ASSUME NEW r, Good(r), NEW q \in Seq(Handlers), IsInjective(q),
           NEW r2, r2 = [r EXCEPT !.handlers = q]
    PROVE  /\ Good(r2) /\ NxNames(r2) = NxNames(r)
           /\ r2.handlers = q /\ r2.sources = r.sources
  <1>1. /\ r2 \in Registry /\ r2.handlers = q /\ r2.sources = r.sources
        /\ r2.timeouts = r.timeouts /\ r2.works = r.works
    BY DEF Good, Registry
  <1> QED
    BY <1>1 DEF Good, NxNames, Once

LEMMA RegisteredAgrees ==
    ASSUME NEW r, NEW called, Agree(r, called), NEW h \in Handlers, h \notin ToSet(r.handlers)
    PROVE  /\ Agree(Registered(r, h), called)
           /\ ToSet(Registered(r, h).handlers) = ToSet(r.handlers) \cup {h}
           /\ ToSet(r.sources) \subseteq ToSet(Registered(r, h).sources)
           /\ ToSet(Registered(r, h).sources) \subseteq ToSet(r.sources) \cup {h}
  <1> DEFINE n == NxAdd(r, h)
             q == <<h>> \o r.handlers
  <1>1. Good(r) /\ r \in Registry /\ h \notin NxNames(r) /\ h \notin called /\ IsInjective(r.handlers)
    BY DEF Agree, Good, Once
  <1>2. Good(n) /\ NxNames(n) = NxNames(r) \cup {h} /\ n.handlers = r.handlers
    BY <1>1, NxAdded
  <1>3. /\ r.handlers \in Seq(Handlers)
        /\ q \in Seq(Handlers) /\ Widened(r.handlers, q, 1, h)
    BY <1>1, Kinds, Pushed
  <1>4. Registered(r, h) = [n EXCEPT !.handlers = q]
    BY <1>2 DEF Registered, PushHead
  <1> HIDE DEF q
  <1>5. ToSet(q) = ToSet(r.handlers) \cup {h} /\ IsInjective(q)
    <2>1. ToSet(q) = ToSet(r.handlers) \cup {h}
      BY <1>3, WidenedSet
    <2>2. IsInjective(q)
      BY <1>1, <1>3, WidenedOnce
    <2> QED
      BY <2>1, <2>2
  <1>6. ToSet(r.sources) \subseteq ToSet(n.sources) /\ ToSet(n.sources) \subseteq ToSet(r.sources) \cup {h}
    <2>1. CASE h \notin Inputs
      BY <1>1, <2>1, NxAdded
    <2>2. CASE h \in Inputs
      <3>1. n.sources = <<h>> \o r.sources
        BY <1>1, <2>2, LoopAssumption DEF NxAdd, NxAddInput, Registry
      <3>2. /\ r.sources \in Seq(Inputs \cup {Pipe})
            /\ n.sources \in Seq(Inputs \cup {Pipe}) /\ Widened(r.sources, n.sources, 1, h)
        BY <1>1, <2>2, <3>1, Kinds, Pushed
      <3> HIDE DEF n
      <3>3. ToSet(n.sources) = ToSet(r.sources) \cup {h}
        BY <3>2, WidenedSet
      <3> QED
        BY <3>3
    <2> QED
      BY <2>1, <2>2
  <1> HIDE DEF n
  <1>7. /\ Good(Registered(r, h)) /\ NxNames(Registered(r, h)) = NxNames(n)
        /\ Registered(r, h).handlers = q /\ Registered(r, h).sources = n.sources
    BY <1>2, <1>3, <1>4, <1>5, Requeues
  <1> QED
    BY <1>1, <1>2, <1>5, <1>6, <1>7 DEF Agree

LEMMA NothingAgrees == Agree(Nothing, {}) /\ NxNames(Nothing) = {} /\ ToSet(Nothing.handlers) = {}
  <1>1. << >> \in Seq(Handlers) /\ << >> \in Seq(Inputs \cup {Pipe}) /\ << >> \in Seq(Workers)
        /\ << >> \in Seq(Pending)
    OBVIOUS
  <1>2. ToSet(<< >>) = {} /\ IsInjective(<< >>) /\ Sorted(<< >>)
    BY DEF ToSet, IsInjective, Sorted
  <1>3. Callbacks(<< >>) = << >>
    BY DEF Callbacks
  <1>4. Nothing \in Registry
    BY <1>1 DEF Nothing, Registry
  <1> QED
    BY <1>2, <1>3, <1>4 DEF Agree, Good, Once, NxNames, Nothing

\* A break frees the handlers in the queue, and with them all there are.
LEMMA FreedAgrees ==
    ASSUME NEW r, NEW called, Agree(r, called)
    PROVE  Freed(r) = Nothing
  <1> DEFINE gone == ToSet(r.handlers)
  <1>1. r \in Registry /\ NxNames(r) \subseteq gone
    BY DEF Agree, Good
  <1>2. NxRemoveInput(r.sources, gone \cup {Pipe}) = << >>
    <2>1. ToSet(r.sources) \subseteq gone \cup {Pipe}
      BY <1>1 DEF NxNames
    <2> QED
      BY <1>1, <2>1, Kinds, KeptNone DEF NxRemoveInput
  <1>3. NxRemoveTimeOut(r.timeouts, gone) = << >>
    <2>1. ToSet(Callbacks(r.timeouts)) \subseteq gone
      BY <1>1 DEF NxNames
    <2>2. ASSUME NEW t \in ToSet(r.timeouts) PROVE t.callback \in gone
      <3>1. PICK i \in 1 .. Len(r.timeouts) : t = r.timeouts[i]
        BY <1>1, Kinds, Members
      <3>2. Callbacks(r.timeouts)[i] = t.callback /\ i \in 1 .. Len(Callbacks(r.timeouts))
        BY <1>1, <3>1, Kinds, CallbacksOf
      <3>3. t.callback \in ToSet(Callbacks(r.timeouts))
        BY <1>1, <3>2, Kinds, Members
      <3> QED
        BY <2>1, <3>3
    <2>3. ToSet(r.timeouts) \subseteq {t \in ToSet(r.timeouts) : t.callback \in gone}
      BY <2>2
    <2> QED
      BY <1>1, <2>3, Kinds, KeptNone DEF NxRemoveTimeOut
  <1>4. NxRemoveWorkProc(r.works, gone) = << >>
    <2>1. ToSet(r.works) \subseteq gone
      BY <1>1 DEF NxNames
    <2> QED
      BY <1>1, <2>1, Kinds, KeptNone DEF NxRemoveWorkProc
  <1> QED
    BY <1>2, <1>3, <1>4 DEF Freed, Nothing
\* A timer or worker is popped off the select loop's list to be called.
LEMMA TimerPopped ==
    ASSUME NEW r, Agree(r, {}), r.timeouts # << >>,
           NEW h, h = Head(r.timeouts).callback,
           NEW r2, r2 = [r EXCEPT !.timeouts = Tail(@)]
    PROVE  /\ Agree(r2, {h}) /\ h \in Timers
           /\ r2.handlers = r.handlers /\ r2.sources = r.sources
  <1> DEFINE s == Tail(r.timeouts)
  <1>1. Good(r) /\ r \in Registry /\ Sorted(r.timeouts) /\ Once(r)
    BY DEF Agree, Good
  <1>2. /\ r.timeouts \in Seq(Pending) /\ s \in Seq(Pending)
    BY <1>1, Kinds, Popped
  <1>3. /\ Narrowed(Callbacks(r.timeouts), Callbacks(s), 1) /\ Sorted(s)
        /\ Callbacks(r.timeouts)[1] = h
    BY <1>1, <1>2, TimersPopped
  <1>4. /\ r2 \in Registry /\ r2.handlers = r.handlers /\ r2.sources = r.sources
        /\ r2.timeouts = s /\ r2.works = r.works
    BY <1>1, <1>2 DEF Registry
  <1> HIDE DEF s
  <1>5. Callbacks(r.timeouts) \in Seq(Timers) /\ Callbacks(s) \in Seq(Timers)
    BY <1>2, CallbacksOf
  <1>6. ToSet(Callbacks(s)) = ToSet(Callbacks(r.timeouts)) \ {h} /\ IsInjective(Callbacks(s))
    BY <1>1, <1>3, <1>5, NarrowedSet DEF Once
  <1>7. h \in ToSet(Callbacks(r.timeouts)) /\ h \in Timers
    <2>1. 1 \in 1 .. Len(Callbacks(r.timeouts))
      BY <1>3 DEF Narrowed
    <2>2. h \in ToSet(Callbacks(r.timeouts))
      BY <1>3, <1>5, <2>1, Members
    <2> QED
      BY <1>1, <2>2, Kinds
  <1>8. h \notin Workers /\ h \notin Inputs
    BY <1>7, LoopAssumption
  <1>9. NxNames(r2) = NxNames(r) \ {h} /\ h \in NxNames(r)
    <2>1. h \notin ToSet(r.works) /\ h \notin ToSet(r.sources) \ {Pipe}
      BY <1>1, <1>8, Kinds
    <2> QED
      BY <1>4, <1>6, <1>7, <2>1 DEF NxNames
  <1> QED
    BY <1>1, <1>3, <1>4, <1>6, <1>7, <1>9 DEF Agree, Good, Once

LEMMA WorkerPopped ==
    ASSUME NEW r, Agree(r, {}), r.works # << >>,
           NEW h, h = Head(r.works),
           NEW r2, r2 = [r EXCEPT !.works = Tail(@)]
    PROVE  /\ Agree(r2, {h}) /\ h \in Workers
           /\ r2.handlers = r.handlers /\ r2.sources = r.sources
  <1> DEFINE s == Tail(r.works)
  <1>1. Good(r) /\ r \in Registry /\ Sorted(r.timeouts) /\ Once(r)
    BY DEF Agree, Good
  <1>2. /\ r.works \in Seq(Workers) /\ s \in Seq(Workers)
        /\ Narrowed(r.works, s, 1) /\ r.works[1] = h /\ 1 \in 1 .. Len(r.works)
    <2>1. r.works \in Seq(Workers)
      BY <1>1, Kinds
    <2> QED
      BY <2>1, Popped
  <1>3. /\ r2 \in Registry /\ r2.handlers = r.handlers /\ r2.sources = r.sources
        /\ r2.timeouts = r.timeouts /\ r2.works = s
    BY <1>1, <1>2 DEF Registry
  <1> HIDE DEF s
  <1>4. ToSet(s) = ToSet(r.works) \ {h} /\ IsInjective(s)
    BY <1>1, <1>2, NarrowedSet DEF Once
  <1>5. h \in ToSet(r.works) /\ h \in Workers
    <2>1. h \in ToSet(r.works)
      BY <1>2, Members
    <2> QED
      BY <1>1, <2>1, Kinds
  <1>6. NxNames(r2) = NxNames(r) \ {h} /\ h \in NxNames(r)
    <2>1. h \notin ToSet(Callbacks(r.timeouts)) /\ h \notin ToSet(r.sources) \ {Pipe}
      BY <1>1, <1>5, Kinds, LoopAssumption
    <2> QED
      BY <1>3, <1>4, <1>5, <2>1 DEF NxNames
  <1> QED
    BY <1>1, <1>3, <1>4, <1>5, <1>6 DEF Agree, Good, Once

\* What was called is deleted from the queue, where it is found.
LEMMA Deleted ==
    ASSUME NEW S, NEW q \in Seq(S), IsInjective(q), NEW h \in ToSet(q)
    PROVE  /\ Delete(q, h) \in Seq(S) /\ IsInjective(Delete(q, h))
           /\ ToSet(Delete(q, h)) = ToSet(q) \ {h}
  <1>1. \E i \in DOMAIN q : q[i] = h
    BY DEF ToSet
  <1>2. Found(q, h) \in DOMAIN q /\ q[Found(q, h)] = h
    BY <1>1 DEF Found
  <1>3. PICK k \in 1 .. Len(q) : k = Found(q, h) /\ q[k] = h
    BY <1>2, Members
  <1>4. RemoveAt(q, k) \in Seq(S) /\ Narrowed(q, RemoveAt(q, k), k)
    BY <1>3, TakenOut
  <1>5. Delete(q, h) = RemoveAt(q, k)
    BY <1>3 DEF Delete
  <1> QED
    BY <1>3, <1>4, <1>5, NarrowedSet

LEMMA RedoneNothing == \A h : Redone(Nothing, h) = Nothing /\ ~ FollowsNull(Nothing, h)
  <1>1. ASSUME NEW h PROVE Redone(Nothing, h) = Nothing
    BY NothingAgrees DEF Redone
  <1>2. ASSUME NEW h PROVE ~ FollowsNull(Nothing, h)
    BY DEF FollowsNull, Nothing
  <1> QED
    BY <1>1, <1>2

LEMMA RedoneAgrees ==
    ASSUME NEW r, NEW h \in Timers \cup Workers, Agree(r, {h})
    PROVE  /\ Agree(Redone(r, h), {})
           /\ FollowsNull(r, h) => Inputs \cap ToSet(Redone(r, h).sources) = {}
  <1> DEFINE d == Delete(r.handlers, h)
  <1>1. /\ Good(r) /\ r \in Registry /\ h \in ToSet(r.handlers) /\ IsInjective(r.handlers)
        /\ h \notin NxNames(r) /\ ToSet(r.handlers) = NxNames(r) \cup {h}
    BY DEF Agree, Good, Once
  <1>2. h \in Handlers /\ h \notin Inputs
    BY LoopAssumption DEF Handlers
  <1>3. d \in Seq(Handlers) /\ IsInjective(d) /\ ToSet(d) = NxNames(r)
    <2>1. r.handlers \in Seq(Handlers)
      BY <1>1, Kinds
    <2>2. d \in Seq(Handlers) /\ IsInjective(d) /\ ToSet(d) = ToSet(r.handlers) \ {h}
      BY <1>1, <2>1, Deleted
    <2> QED
      BY <1>1, <2>2
  <1> HIDE DEF d
  <1>4. Agree(Redone(r, h), {}) /\ Redone(r, h).sources = r.sources
    <2>1. CASE h \in Requeued
      <3> DEFINE n == NxAdd(r, h)
                 q == Append(d, h)
      <3>1. Good(n) /\ NxNames(n) = NxNames(r) \cup {h} /\ n.handlers = r.handlers /\ n.sources = r.sources
        BY <1>1, <1>2, NxAdded
      <3>2. q \in Seq(Handlers) /\ Widened(d, q, Len(d) + 1, h)
        BY <1>2, <1>3, Appended
      <3>3. Redone(r, h) = [n EXCEPT !.handlers = q]
        BY <1>1, <2>1, <3>1 DEF Redone, PushTail, d
      <3> HIDE DEF n, q
      <3>4. ToSet(q) = ToSet(d) \cup {h}
        BY <1>3, <3>2, WidenedSet
      <3>5. IsInjective(q)
        BY <1>1, <1>3, <3>2, WidenedOnce
      <3>6. /\ Good(Redone(r, h)) /\ NxNames(Redone(r, h)) = NxNames(n)
            /\ Redone(r, h).handlers = q /\ Redone(r, h).sources = n.sources
        BY <3>1, <3>2, <3>3, <3>5, Requeues
      <3> QED
        BY <1>3, <3>1, <3>4, <3>6 DEF Agree
    <2>2. CASE h \notin Requeued
      <3>1. Redone(r, h) = [r EXCEPT !.handlers = d]
        BY <1>1, <2>2 DEF Redone, d
      <3>2. /\ Good(Redone(r, h)) /\ NxNames(Redone(r, h)) = NxNames(r)
            /\ Redone(r, h).handlers = d /\ Redone(r, h).sources = r.sources
        BY <1>1, <1>3, <3>1, Requeues
      <3> QED
        BY <1>3, <3>2 DEF Agree
    <2> QED
      BY <2>1, <2>2
  <1>5. ASSUME FollowsNull(r, h) PROVE Inputs \cap ToSet(r.sources) = {}
    <2>1. r.handlers = <<h>>
      BY <1>5 DEF FollowsNull
    <2>2. ToSet(<<h>>) = {h}
      BY DEF ToSet
    <2>3. NxNames(r) = {}
      BY <1>1, <2>1, <2>2
    <2>4. Pipe \notin Inputs
      BY LoopAssumption DEF Handlers
    <2> QED
      BY <2>3, <2>4 DEF NxNames
  <1> QED
    BY <1>4, <1>5

\* What a callback does: after a break nothing is left.
LEMMA EffectedAgrees ==
    ASSUME NEW r, NEW called, Agree(r, called), NEW effect \in Effects,
           effect \in Late => effect \notin ToSet(r.handlers)
    PROVE  /\ effect = "break" => Effected(r, effect) = Nothing
           /\ effect # "break" => Agree(Effected(r, effect), called)
  <1>1. CASE effect = "nothing"
    BY <1>1 DEF Effected
  <1>2. CASE effect = "break"
    BY <1>2, FreedAgrees DEF Effected
  <1>3. CASE effect \in Late
    <2>1. effect # "nothing" /\ effect # "break" /\ effect \in Handlers
      BY <1>3, LoopAssumption
    <2>2. Effected(r, effect) = Registered(r, effect)
      BY <2>1 DEF Effected
    <2> QED
      BY <1>3, <2>1, <2>2, RegisteredAgrees
  <1> QED
    BY <1>1, <1>2, <1>3 DEF Effects
-----------------------------------------------------------------------------
(***************************************************************************)
(* The invariant of the loop is inductive: one lemma for the steps that    *)
(* the registered handlers are no part of, and one for each that changes   *)
(* them.                                                                   *)
(***************************************************************************)
\* Between two steps of a process that has not crashed.
LEMMA AgreeNow ==
    ASSUME IInv, pc # "crashed"
    PROVE  Agree(reg, {}) /\ reg \in Registry
  BY DEF IInv, TypeOK, HandlersAgree, Agree, Good

LEMMA AgreeThen ==
    ASSUME Agree(reg', {})
    PROVE  HandlersAgree' \/ pc' = "crashed"
  BY DEF HandlersAgree, Agree, Good, Once, NxNames

LEMMA NoneBefore ==
    ASSUME NEW S, NEW q \in Seq(S)
    PROVE  << >> \o q = q /\ q \o << >> = q
  OBVIOUS

LEMMA MovedOver ==
    ASSUME NEW S, NEW p \in Seq(S), NEW q \in Seq(S), q # << >>
    PROVE  Append(p, Head(q)) \o Tail(q) = p \o q
  <1> DEFINE e == Head(q)
             t == Tail(q)
  <1>1. e \in S /\ t \in Seq(S) /\ q = <<e>> \o t
    OBVIOUS
  <1> HIDE DEF e, t
  <1>2. Append(p, e) \o t = p \o (<<e>> \o t)
    BY <1>1
  <1> QED
    BY <1>1, <1>2 DEF e, t

\* What is known of sources that are in the read mask.
LEMMA ReadableSources ==
    ASSUME TypeOK
    PROVE  /\ Readable \subseteq Inputs \cup {Pipe} /\ Cardinality(Readable) \in Int
           /\ Len(reg.sources) \in Int
  <1>1. reg.sources \in Seq(Inputs \cup {Pipe}) /\ ToSet(reg.sources) \subseteq Inputs \cup {Pipe}
    BY Kinds DEF TypeOK
  <1>2. IsFiniteSet(ToSet(reg.sources))
    <2> DEFINE n == Len(reg.sources)
               f == [i \in 1 .. n |-> reg.sources[i]]
    <2>1. n \in Nat /\ ToSet(reg.sources) = {reg.sources[i] : i \in 1 .. n}
      BY <1>1, Members
    <2>2. IsFiniteSet(1 .. n)
      BY <2>1, FS_Interval
    <2>3. f \in Surjection(1 .. n, ToSet(reg.sources))
      BY <2>1 DEF Surjection
    <2> QED
      BY <2>2, <2>3, FS_Surjection
  <1>3. Readable \subseteq ToSet(reg.sources)
    BY DEF Readable
  <1>4. Cardinality(Readable) \in Nat
    BY <1>2, <1>3, FS_Subset, FS_CardinalityType
  <1>5. Len(reg.sources) \in Nat
    BY <1>1
  <1> QED
    BY <1>1, <1>3, <1>4, <1>5

\* The object is new, and the program has registered nothing.
LEMMA LoopInit == Init => IInv
  <1> SUFFICES ASSUME Init PROVE IInv
    OBVIOUS
  <1>1. reg = Nothing /\ Agree(reg, {})
    BY NothingAgrees DEF Init, Nothing
  <1>2. program \in Seq(Handlers) /\ IsInjective(program)
    BY LoopAssumption DEF Init
  <1>3. << >> \in Seq(ToSet(Hooks)) /\ << >> \in Seq(Signals) /\ Len(Hooks) \in Nat /\ Len(<< >>) = 0
    <2>1. << >> \in Seq(ToSet(Hooks)) /\ << >> \in Seq(Signals) /\ Len(<< >>) = 0
      OBVIOUS
    <2>2. Hooks \in Seq(ToSet(Hooks))
      BY LoopAssumption
    <2> QED
      BY <2>1, <2>2
  <1>4. TypeOK
    <2>1. reg \in Registry
      BY <1>1 DEF Agree, Good
    <2>2. sent \in 0 .. MaxSent
      BY LoopAssumption DEF Init
    <2>3. broken \in BOOLEAN /\ restored \in BOOLEAN
      BY Zenon DEF Init, PipeInit
    <2>6. pc \in Places /\ active \in Int
      <3>1. pc = "setup" /\ active = 0
        BY Zenon DEF Init
      <3> QED
        BY <3>1 DEF Places
    <2>4. exits \in Seq(ToSet(Hooks)) /\ ran \in Seq(ToSet(Hooks)) /\ pipe \in Seq(Signals)
      BY <1>3 DEF Init, PipeInit
    <2>5. ignored \subseteq Signals /\ mask \subseteq Inputs \cup {Pipe} /\ ready \subseteq Inputs
      BY DEF Init, PipeInit
    <2> QED
      BY <1>2, <2>1, <2>2, <2>3, <2>4, <2>5, <2>6 DEF TypeOK
  <1>5. HandlersAgree /\ Sorted(reg.timeouts)
    BY <1>1 DEF Init, HandlersAgree, Agree, Good
  <1>6. HooksRun /\ BrokenIsQuiet /\ Selected
    BY <1>1 DEF Init, PipeInit, HooksRun, BrokenIsQuiet, Selected
  <1>7. Started
    <2>1. ToSet(reg.handlers) = {} /\ ToSet(reg.sources) = {}
      BY <1>1, NothingAgrees DEF Nothing
    <2>2. \A i \in DOMAIN exits : exits[i] = Hooks[i]
      BY DEF Init
    <2> QED
      BY <1>2, <1>3, <2>1, <2>2 DEF Init, PipeInit, Started
  <1> QED
    BY <1>4, <1>5, <1>6, <1>7 DEF IInv

LEMMA RegisterKeeps ==
    ASSUME IInv, Register
    PROVE  IInv'
  <1> DEFINE h == Head(program)
             s == Tail(program)
  <1>1. pc = "setup" /\ pc' = "setup" /\ Agree(reg, {}) /\ TypeOK /\ Started
    BY AgreeNow DEF Register, IInv
  <1>2. /\ program \in Seq(Handlers) /\ s \in Seq(Handlers) /\ Narrowed(program, s, 1)
        /\ program[1] = h /\ 1 \in 1 .. Len(program) /\ IsInjective(program)
    <2>1. program \in Seq(Handlers) /\ program # << >> /\ IsInjective(program)
      BY <1>1 DEF TypeOK, Register, Started
    <2> QED
      BY <2>1, Popped
  <1>3. reg' = Registered(reg, h) /\ program' = s
    BY DEF Register
  <1> HIDE DEF h, s
  <1>4. h \in ToSet(program) /\ ToSet(s) = ToSet(program) \ {h} /\ IsInjective(s)
    BY <1>2, NarrowedSet, Members
  <1>5. h \in Handlers /\ h \notin ToSet(reg.handlers) /\ h # Pipe
    BY <1>1, <1>2, <1>4, Members, LoopAssumption DEF Started
  <1>6. /\ Agree(reg', {}) /\ ToSet(reg'.handlers) = ToSet(reg.handlers) \cup {h}
        /\ ToSet(reg'.sources) \subseteq ToSet(reg.sources) \cup {h}
    BY <1>1, <1>3, <1>5, RegisteredAgrees
  <1>7. TypeOK' /\ Sorted(reg.timeouts)'
    BY <1>1, <1>2, <1>3, <1>6 DEF TypeOK, Register, Agree, Good
  <1>8. HandlersAgree'
    BY <1>1, <1>6, AgreeThen
  <1>9. HooksRun' /\ BrokenIsQuiet' /\ Selected'
    BY <1>1 DEF Register, HooksRun, BrokenIsQuiet, Selected, Started, IInv
  <1>10. Started'
    BY <1>1, <1>3, <1>4, <1>5, <1>6 DEF Register, Started
  <1> QED
    BY <1>7, <1>8, <1>9, <1>10 DEF IInv

LEMMA AtExitKeeps ==
    ASSUME IInv, AtExit
    PROVE  IInv'
  <1> DEFINE n == Len(exits) + 1
  <1>1. /\ pc = "setup" /\ pc' = "setup" /\ TypeOK /\ Started /\ exits \in Seq(ToSet(Hooks))
        /\ Len(exits) < Len(Hooks) /\ Len(exits) \in Nat /\ Len(Hooks) \in Nat
    BY LoopAssumption DEF AtExit, IInv, TypeOK
  <1>2. n \in 1 .. Len(Hooks) /\ Hooks[n] \in ToSet(Hooks)
    BY <1>1, LoopAssumption, Members
  <1>3. /\ exits' = Append(exits, Hooks[n]) /\ exits' \in Seq(ToSet(Hooks)) /\ Len(exits') = n
        /\ \A i \in 1 .. n : exits'[i] = IF i < n THEN exits[i] ELSE Hooks[n]
    BY <1>1, <1>2 DEF AtExit
  <1>4. \A i \in DOMAIN exits' : exits'[i] = Hooks[i]
    BY <1>1, <1>2, <1>3 DEF Started
  <1>5. Started'
    BY <1>1, <1>2, <1>3, <1>4 DEF AtExit, Started
  <1>6. TypeOK' /\ HandlersAgree' /\ Sorted(reg.timeouts)' /\ HooksRun' /\ BrokenIsQuiet' /\ Selected'
    BY <1>1, <1>3 DEF AtExit, IInv, TypeOK, HandlersAgree, HooksRun, BrokenIsQuiet, Selected
  <1> QED
    BY <1>5, <1>6 DEF IInv
\* All is registered: the self-pipe is read, and the exit handlers are those
\* of the program.
LEMMA LoopKeeps ==
    ASSUME IInv, Loop
    PROVE  IInv'
  <1> DEFINE s == <<Pipe>> \o reg.sources
  <1>1. /\ pc = "setup" /\ pc' = "top" /\ TypeOK /\ Started /\ BrokenIsQuiet
        /\ Agree(reg, {}) /\ reg \in Registry /\ Good(reg) /\ Once(reg)
    BY AgreeNow DEF Loop, Enter, IInv, Agree, Good
  <1>2. /\ reg.sources \in Seq(Inputs \cup {Pipe}) /\ s \in Seq(Inputs \cup {Pipe})
        /\ Widened(reg.sources, s, 1, Pipe)
    BY <1>1, Kinds, Pushed
  <1>3. /\ reg' \in Registry /\ reg'.handlers = reg.handlers /\ reg'.sources = s
        /\ reg'.timeouts = reg.timeouts /\ reg'.works = reg.works
    BY <1>1, <1>2 DEF Loop, Registry
  <1> HIDE DEF s
  <1>4. ToSet(s) = ToSet(reg.sources) \cup {Pipe}
    BY <1>2, WidenedSet
  <1>5. IsInjective(s)
    BY <1>1, <1>2, WidenedOnce DEF Once, Started
  <1>6. NxNames(reg') = NxNames(reg)
    BY <1>3, <1>4 DEF NxNames
  <1>7. Agree(reg', {})
    BY <1>1, <1>3, <1>5, <1>6 DEF Agree, Good, Once
  <1>8. ran \o exits = Hooks
    <2>1. ran = << >> /\ exits \in Seq(ToSet(Hooks)) /\ Hooks \in Seq(ToSet(Hooks))
      BY <1>1, LoopAssumption DEF TypeOK, Started
    <2>2. Len(exits) = Len(Hooks) /\ \A i \in 1 .. Len(exits) : exits[i] = Hooks[i]
      BY <1>1, <2>1 DEF Loop, Started
    <2>3. exits = Hooks
      BY <2>1, <2>2
    <2>4. << >> \o exits = exits
      BY <2>1, NoneBefore
    <2> QED
      BY <2>1, <2>3, <2>4
  <1>9. HandlersAgree'
    BY <1>1, <1>7, AgreeThen
  <1>10. TypeOK' /\ Sorted(reg.timeouts)'
    BY <1>1, <1>7 DEF TypeOK, Loop, Agree, Good, Places
  <1>11. HooksRun' /\ BrokenIsQuiet' /\ Started' /\ Selected'
    BY <1>1, <1>8 DEF Loop, HooksRun, BrokenIsQuiet, Started, Selected, IInv
  <1> QED
    BY <1>9, <1>10, <1>11 DEF IInv

\* The steps of a turn that call nothing.
LEMMA TurnKeeps ==
    ASSUME IInv, Top \/ Select \/ ScanDone \/ NoTimer
    PROVE  IInv'
  <1> USE DEF IInv
  <1>1. reg' = reg /\ pc \in {"top", "select", "scan", "timer"} /\ pc' # "crashed"
    BY DEF Top, Select, ScanDone, NoTimer, Enter
  <1>2. HandlersAgree' /\ Sorted(reg.timeouts)'
    BY <1>1 DEF HandlersAgree
  <1>3. CASE Top
    <2>1. TypeOK'
      BY <1>3, ReadableSources DEF Top, Enter, TypeOK, Places
    <2> QED
      BY <1>2, <1>3, <2>1 DEF Top, Enter, HooksRun, BrokenIsQuiet, Started, Selected
  <1>4. CASE Select
    <2>1. TypeOK'
      BY <1>4, ReadableSources DEF Select, Enter, TypeOK, Places
    <2>2. Pipe \in Readable => pipe # << >>
      BY DEF Readable
    <2> QED
      BY <1>2, <1>4, <2>1, <2>2 DEF Select, Enter, HooksRun, BrokenIsQuiet, Started, Selected
  <1>5. CASE ScanDone
    BY <1>2, <1>5 DEF ScanDone, Enter, TypeOK, Places, HooksRun, BrokenIsQuiet, Started, Selected
  <1>6. CASE NoTimer
    BY <1>2, <1>6 DEF NoTimer, Enter, TypeOK, Places, HooksRun, BrokenIsQuiet, Started, Selected
  <1> QED
    BY <1>3, <1>4, <1>5, <1>6

\* An input is called, of a source that is still registered: nothing was
\* broken before.
LEMMA CallInputKeeps ==
    ASSUME IInv, NEW h \in Inputs, CallInput(h)
    PROVE  IInv'
  <1>1. /\ pc = "scan" /\ pc' = "scan" /\ Agree(reg, {}) /\ TypeOK
    BY AgreeNow DEF CallInput, Scanned, IInv
  <1>2. reg # Nothing
    BY DEF CallInput, Scanned, Nothing
  <1>3. ~ broken /\ ~ restored
    BY <1>2 DEF IInv, BrokenIsQuiet
  <1>4. PICK effect \in Effects : Does(effect) /\ reg' = Effected(reg, effect)
    BY DEF CallInput
  <1>5. /\ effect = "break" => reg' = Nothing
        /\ effect # "break" => Agree(reg', {})
    BY <1>1, <1>4, EffectedAgrees DEF Does
  <1>6. Agree(reg', {})
    BY <1>5, NothingAgrees
  <1>7. broken' => reg' = Nothing
    BY <1>3, <1>4, <1>5 DEF Does
  <1>8. HandlersAgree'
    BY <1>1, <1>6, AgreeThen
  <1>9. broken' \in BOOLEAN
    BY <1>1, <1>4 DEF Does, TypeOK
  <1>10. TypeOK' /\ Sorted(reg.timeouts)'
    BY <1>1, <1>6, <1>9 DEF TypeOK, CallInput, Agree, Good
  <1>11. HooksRun' /\ BrokenIsQuiet' /\ Started' /\ Selected'
    BY <1>1, <1>3, <1>7 DEF CallInput, HooksRun, BrokenIsQuiet, Started, Selected, IInv
  <1> QED
    BY <1>8, <1>10, <1>11 DEF IInv

\* A timer or a worker is called: it is in the queue and off the lists.
LEMMA DispatchKeeps ==
    ASSUME IInv, pc \in {"timer", "worker"}, ~ broken, ~ restored,
           NEW h \in Timers \cup Workers, NEW popped, Agree(popped, {h}),
           popped.handlers = reg.handlers, Dispatch(h, popped)
    PROVE  IInv'
  <1>1. TypeOK
    BY DEF IInv
  <1>2. PICK effect \in Effects :
           /\ Does(effect)
           /\ reg' = Redone(Effected(popped, effect), h)
           /\ pc' = IF FollowsNull(Effected(popped, effect), h) THEN "crashed" ELSE "top"
    BY DEF Dispatch, Enter
  <1> DEFINE called == Effected(popped, effect)
  <1>3. /\ effect = "break" => called = Nothing
        /\ effect # "break" => Agree(called, {h})
    BY <1>2, EffectedAgrees DEF Does
  <1> HIDE DEF called
  <1>4. CASE effect = "break"
    <2>1. reg' = Nothing /\ pc' = "top"
      BY <1>2, <1>3, <1>4, RedoneNothing DEF called
    <2>2. Agree(reg', {})
      BY <2>1, NothingAgrees
    <2>3. HandlersAgree'
      BY <2>1, <2>2, AgreeThen
    <2>4. broken' \in BOOLEAN
      BY <1>1, <1>2 DEF Does, TypeOK
    <2>5. TypeOK' /\ Sorted(reg.timeouts)'
      BY <1>1, <2>1, <2>2, <2>4 DEF Dispatch, TypeOK, Agree, Good, Places
    <2> QED
      BY <2>1, <2>3, <2>5 DEF Dispatch, HooksRun, BrokenIsQuiet, Started, Selected, IInv
  <1>5. CASE effect # "break"
    <2>1. /\ Agree(reg', {})
          /\ FollowsNull(called, h) => Inputs \cap ToSet(reg'.sources) = {}
      BY <1>2, <1>3, <1>5, RedoneAgrees DEF called
    <2>2. pc' \in {"crashed", "top"} /\ (pc' = "crashed" => FollowsNull(called, h))
      BY <1>2 DEF called
    <2>3. HandlersAgree'
      <3>1. CASE pc' = "crashed"
        BY <2>1, <2>2, <3>1 DEF HandlersAgree
      <3>2. CASE pc' # "crashed"
        BY <2>1, <3>2, AgreeThen
      <3> QED
        BY <3>1, <3>2
    <2>4. broken' = FALSE
      BY <1>1, <1>2, <1>5 DEF Does, TypeOK
    <2>5. TypeOK' /\ Sorted(reg.timeouts)'
      BY <1>1, <2>1, <2>2, <2>4 DEF Dispatch, TypeOK, Agree, Good, Places
    <2> QED
      BY <2>2, <2>3, <2>4, <2>5 DEF Dispatch, HooksRun, BrokenIsQuiet, Started, Selected, IInv
  <1> QED
    BY <1>4, <1>5
LEMMA CallTimerKeeps ==
    ASSUME IInv, NEW h \in Timers, CallTimer(h)
    PROVE  IInv'
  <1> DEFINE popped == [reg EXCEPT !.timeouts = Tail(@)]
  <1>1. /\ pc = "timer" /\ Agree(reg, {}) /\ reg.timeouts # << >>
        /\ h = Head(reg.timeouts).callback /\ Dispatch(h, popped)
    BY AgreeNow DEF CallTimer, Due
  <1>2. ~ broken /\ ~ restored
    BY <1>1 DEF IInv, BrokenIsQuiet, Nothing
  <1>3. Agree(popped, {h}) /\ popped.handlers = reg.handlers
    BY <1>1, TimerPopped
  <1> HIDE DEF popped
  <1> QED
    BY <1>1, <1>2, <1>3, DispatchKeeps

LEMMA CallWorkerKeeps ==
    ASSUME IInv, NEW h \in Workers, CallWorker(h)
    PROVE  IInv'
  <1> DEFINE popped == [reg EXCEPT !.works = Tail(@)]
  <1>1. /\ pc = "worker" /\ Agree(reg, {}) /\ reg.works # << >>
        /\ h = Head(reg.works) /\ Dispatch(h, popped)
    BY AgreeNow DEF CallWorker, IInv, Selected
  <1>2. ~ broken /\ ~ restored
    BY <1>1 DEF IInv, BrokenIsQuiet, Nothing
  <1>3. Agree(popped, {h}) /\ popped.handlers = reg.handlers
    BY <1>1, WorkerPopped
  <1> HIDE DEF popped
  <1> QED
    BY <1>1, <1>2, <1>3, DispatchKeeps

\* The destructor frees the handlers, called by _read_pipe or by the program.
LEMMA ReadPipeKeeps ==
    ASSUME IInv, ReadPipe
    PROVE  IInv'
  <1>1. /\ pc = "scan" /\ pc' = "cleanup" /\ TypeOK /\ Pipe \in mask
        /\ Agree(reg, {}) /\ reg' = Freed(reg) /\ pipe' = Tail(pipe)
    BY AgreeNow DEF ReadPipe, Scanned, Enter, IInv
  <1>2. reg' = Nothing /\ Agree(reg', {})
    BY <1>1, FreedAgrees, NothingAgrees
  <1>3. pipe \in Seq(Signals) /\ pipe # << >> /\ sent > 0
    BY <1>1 DEF IInv, TypeOK, Selected
  <1>4. pipe' \in Seq(Signals)
    BY <1>1, <1>3
  <1>5. HandlersAgree'
    BY <1>1, <1>2, AgreeThen
  <1>6. TypeOK' /\ Sorted(reg.timeouts)'
    BY <1>1, <1>2, <1>4 DEF ReadPipe, TypeOK, Agree, Good, Places
  <1>7. HooksRun' /\ BrokenIsQuiet' /\ Started' /\ Selected'
    BY <1>1, <1>2, <1>3 DEF ReadPipe, HooksRun, BrokenIsQuiet, Started, Selected, IInv
  <1> QED
    BY <1>5, <1>6, <1>7 DEF IInv

LEMMA DestroyKeeps ==
    ASSUME IInv, Destroy
    PROVE  IInv'
  <1>1. /\ pc = "returned" /\ pc' = "cleanup" /\ TypeOK
        /\ Agree(reg, {}) /\ reg' = Freed(reg)
    BY AgreeNow DEF Destroy, Enter, IInv
  <1>2. reg' = Nothing /\ Agree(reg', {})
    BY <1>1, FreedAgrees, NothingAgrees
  <1>3. HandlersAgree'
    BY <1>1, <1>2, AgreeThen
  <1>4. TypeOK' /\ Sorted(reg.timeouts)'
    BY <1>1, <1>2 DEF Destroy, TypeOK, Agree, Good, Places
  <1>5. HooksRun' /\ BrokenIsQuiet' /\ Started' /\ Selected'
    BY <1>1, <1>2 DEF Destroy, HooksRun, BrokenIsQuiet, Started, Selected, IInv
  <1> QED
    BY <1>3, <1>4, <1>5 DEF IInv

\* The exit handlers go over one by one from those that remain to those that
\* ran.
LEMMA CleanupKeeps ==
    ASSUME IInv, CallHook \/ CleanedUp
    PROVE  IInv'
  <1> USE DEF IInv
  <1>1. /\ pc = "cleanup" /\ reg' = reg /\ TypeOK /\ ran \o exits = Hooks
        /\ ran \in Seq(ToSet(Hooks)) /\ exits \in Seq(ToSet(Hooks))
    BY DEF CallHook, CleanedUp, HooksRun, TypeOK
  <1>2. CASE CallHook
    <2>1. pc' = "cleanup" /\ exits # << >> /\ ran' = Append(ran, Head(exits)) /\ exits' = Tail(exits)
      BY <1>1, <1>2 DEF CallHook
    <2>2. ran' \o exits' = Hooks
      BY <1>1, <2>1, MovedOver
    <2>3. ran' \in Seq(ToSet(Hooks)) /\ exits' \in Seq(ToSet(Hooks))
      BY <1>1, <2>1
    <2>4. TypeOK'
      BY <1>1, <1>2, <2>1, <2>3 DEF CallHook, TypeOK
    <2> QED
      BY <1>1, <1>2, <2>1, <2>2, <2>4
         DEF CallHook, HandlersAgree, HooksRun, BrokenIsQuiet, Started, Selected
  <1>3. CASE CleanedUp
    <2>1. ran = Hooks /\ exits = << >>
      BY <1>1, <1>3, NoneBefore DEF CleanedUp
    <2>2. TypeOK' /\ pc' \in {"killed", "ended"}
      BY <1>1, <1>3 DEF CleanedUp, Enter, TypeOK, Places
    <2>3. BrokenIsQuiet'
      BY <1>1, <1>3 DEF CleanedUp, BrokenIsQuiet
    <2> QED
      BY <1>1, <1>3, <2>1, <2>2, <2>3
         DEF CleanedUp, HandlersAgree, HooksRun, Started, Selected
  <1> QED
    BY <1>2, <1>3

LEMMA ArrivesKeeps ==
    ASSUME IInv, NEW h \in Inputs, Arrives(h)
    PROVE  IInv'
  BY DEF IInv, Arrives, TypeOK, HandlersAgree, HooksRun, BrokenIsQuiet, Started, Selected

\* Every timer is a tick nearer, so that their order stays.
LEMMA TickKeeps ==
    ASSUME IInv, Tick
    PROVE  IInv'
  <1> DEFINE q == reg.timeouts
             s == [i \in DOMAIN q |-> Nearer(q[i])]
  <1>1. /\ TypeOK /\ Agree(reg, {}) /\ Good(reg) /\ Once(reg) /\ Sorted(q) /\ reg \in Registry
        /\ pc # "setup" /\ pc # "crashed" /\ pc' = pc /\ pc \notin {"cleanup", "ended"}
    BY AgreeNow DEF Tick, Looping, Over, IInv, Agree, Good
  <1>2. q \in Seq(Pending) /\ q # << >> /\ Len(q) \in Nat /\ DOMAIN q = 1 .. Len(q)
    BY <1>1, Kinds DEF Tick
  <1>3. ~ broken /\ ~ restored
    BY <1>2 DEF IInv, BrokenIsQuiet, Nothing
  <1>4. \A i \in 1 .. Len(q) :
           /\ s[i] \in Pending /\ s[i].callback = q[i].callback
           /\ q[i].left \in Nat /\ s[i].left = IF q[i].left = 0 THEN 0 ELSE q[i].left - 1
    <2>1. ASSUME NEW i \in 1 .. Len(q)
          PROVE  /\ s[i] \in Pending /\ s[i].callback = q[i].callback
                 /\ q[i].left \in Nat /\ s[i].left = IF q[i].left = 0 THEN 0 ELSE q[i].left - 1
      <3>1. PICK p \in Pending : p = q[i]
        BY <1>2
      <3>2. s[i] = [p EXCEPT !.left = IF @ = 0 THEN 0 ELSE @ - 1]
        BY <1>2, <3>1 DEF Nearer
      <3> HIDE DEF s
      <3>3. PICK t : t = s[i]
        OBVIOUS
      <3>4. t \in Pending /\ t.callback = p.callback /\ p.left \in Nat
        BY <3>2, <3>3 DEF Pending
      <3>5. t.left = IF p.left = 0 THEN 0 ELSE p.left - 1
        BY <3>2, <3>3 DEF Pending
      <3> QED
        BY <3>1, <3>3, <3>4, <3>5
    <2> QED
      BY <2>1
  <1>5. s \in Seq(Pending) /\ Len(s) = Len(q)
    <2>1. s \in [1 .. Len(q) -> Pending]
      BY <1>2, <1>4
    <2> HIDE DEF s
    <2> QED
      BY <1>2, <2>1
  <1>6. /\ reg' \in Registry /\ reg'.handlers = reg.handlers /\ reg'.sources = reg.sources
        /\ reg'.timeouts = s /\ reg'.works = reg.works
    <2>1. reg' = [reg EXCEPT !.timeouts = s]
      BY DEF Tick
    <2> HIDE DEF s
    <2> QED
      BY <1>1, <1>5, <2>1 DEF Registry
  <1>7. Sorted(s)
    <2>1. \A i, j \in 1 .. Len(q) : i <= j => q[i].left <= q[j].left
      BY <1>1, <1>2 DEF Sorted
    <2>2. DOMAIN s = 1 .. Len(q)
      BY <1>2
    <2> HIDE DEF s
    <2>3. ASSUME NEW i \in 1 .. Len(q), NEW j \in 1 .. Len(q), i <= j
          PROVE  s[i].left <= s[j].left
      BY <1>4, <2>1, <2>3
    <2> QED
      BY <2>2, <2>3 DEF Sorted
  <1>8. Callbacks(s) = Callbacks(q)
    BY <1>2, <1>4 DEF Callbacks
  <1> HIDE DEF s, q
  <1>9. Agree(reg', {})
    BY <1>1, <1>6, <1>7, <1>8 DEF Agree, Good, Once, NxNames, q
  <1>10. HandlersAgree'
    BY <1>1, <1>9, AgreeThen
  <1>11. TypeOK' /\ Sorted(reg.timeouts)'
    BY <1>1, <1>9 DEF Tick, TypeOK, Agree, Good
  <1>12. Selected'
    <2>1. pc = "worker" => reg'.works # << >>
      BY <1>6 DEF IInv, Selected
    <2> QED
      BY <1>1, <2>1 DEF Tick, IInv, Selected
  <1>13. HooksRun' /\ BrokenIsQuiet' /\ Started'
    BY <1>1, <1>3 DEF Tick, HooksRun, BrokenIsQuiet, Started, IInv
  <1> QED
    BY <1>10, <1>11, <1>12, <1>13 DEF IInv

\* A signal kills the process only after a first one has been read.
LEMMA SignalKeeps ==
    ASSUME IInv, NEW s \in Signals, Signal(s)
    PROVE  IInv'
  <1> USE DEF IInv
  <1>1. /\ reg' = reg /\ pc # "crashed" /\ TypeOK /\ sent \in 0 .. MaxSent /\ sent < MaxSent
        /\ sent' = sent + 1 /\ MaxSent \in Nat
    BY LoopAssumption DEF Signal, Over, TypeOK
  <1>2. sent' \in 0 .. MaxSent /\ sent' > 0 /\ (sent > 0 => sent' # 1)
    BY <1>1
  <1>3. CASE Handled(s)
    <2>1. /\ pipe' = Append(pipe, s) /\ pipe \in Seq(Signals) /\ active' \in Int
          /\ ignored' \subseteq Signals /\ pc' = pc
      BY <1>1, <1>3 DEF Handled, TypeOK
    <2>2. pipe' \in Seq(Signals) /\ pipe' # << >>
      BY <2>1
    <2>3. TypeOK'
      BY <1>1, <1>2, <2>1, <2>2 DEF Signal, TypeOK
    <2>4. HooksRun'
      BY <1>1, <1>2, <2>1 DEF Signal, Over, HooksRun
    <2> QED
      BY <1>1, <1>2, <2>1, <2>2, <2>3, <2>4
         DEF Signal, HandlersAgree, BrokenIsQuiet, Started, Selected
  <1>4. CASE Fatal
    <2>1. restored /\ pc' = "killed" /\ pipe' = pipe /\ ignored' = ignored /\ active' = active
      BY <1>4 DEF Fatal, Enter
    <2>2. sent > 0 /\ pc # "setup"
      BY <2>1 DEF Selected, Started
    <2>3. TypeOK'
      BY <1>1, <1>2, <2>1 DEF Signal, TypeOK, Places
    <2>4. HooksRun'
      BY <1>1, <1>2, <2>1, <2>2 DEF Signal, HooksRun
    <2> QED
      BY <1>1, <1>2, <2>1, <2>3, <2>4
         DEF Signal, HandlersAgree, BrokenIsQuiet, Started, Selected
  <1>5. CASE Dropped(s)
    <2>1. pc' = pc /\ pipe' = pipe /\ ignored' = ignored /\ active' = active
      BY <1>5 DEF Dropped
    <2>2. TypeOK'
      BY <1>1, <1>2, <2>1 DEF Signal, TypeOK
    <2>3. HooksRun'
      BY <1>1, <1>2, <2>1 DEF Signal, Over, HooksRun
    <2> QED
      BY <1>1, <1>2, <2>1, <2>2, <2>3
         DEF Signal, HandlersAgree, BrokenIsQuiet, Started, Selected
  <1> QED
    BY <1>3, <1>4, <1>5 DEF Signal

LEMMA StutterKeeps ==
    ASSUME IInv, UNCHANGED vars
    PROVE  IInv'
  BY DEF IInv, vars, TypeOK, HandlersAgree, HooksRun, BrokenIsQuiet, Started, Selected

LEMMA LoopStep == IInv /\ [Next]_vars => IInv'
  <1> SUFFICES ASSUME IInv, [Next]_vars PROVE IInv'
    OBVIOUS
  <1>1. CASE Step
    BY <1>1, RegisterKeeps, AtExitKeeps, LoopKeeps, TurnKeeps, ReadPipeKeeps, CallInputKeeps,
       CallTimerKeeps, CallWorkerKeeps, DestroyKeeps, CleanupKeeps DEF Step
  <1>2. CASE Surroundings
    BY <1>2, TickKeeps, ArrivesKeeps, SignalKeeps DEF Surroundings
  <1>3. CASE UNCHANGED vars
    BY <1>3, StutterKeeps
  <1> QED
    BY <1>1, <1>2, <1>3 DEF Next

-----------------------------------------------------------------------------
(***************************************************************************)
(* The inductive invariant of the loop: what it knows of handlers, timers, *)
(* exit handlers and signals is of its type and fits together, for any     *)
(* programs, callbacks and signals.                                        *)
(***************************************************************************)
THEOREM LoopInductive == Spec => []IInv
  BY LoopInit, LoopStep, PTL DEF Spec

(***************************************************************************)
(* The object and the select loop agree on what is registered, between any *)
(* two callbacks: a handler that is done or was freed by a break is called *)
(* no more, and none is freed twice.                                       *)
(***************************************************************************)
THEOREM LoopAgree == Spec => []HandlersAgree
  <1>1. IInv => HandlersAgree
    BY DEF IInv
  <1> QED
    BY <1>1, LoopInductive, PTL

(***************************************************************************)
(* Exit handlers are called in the order of event_at_exit, all of them and *)
(* each once, however the loop ended: only a second signal that comes      *)
(* while they run cuts them off.                                           *)
(***************************************************************************)
THEOREM LoopHooks == Spec => []HooksRun
  <1>1. IInv => HooksRun
    BY DEF IInv
  <1> QED
    BY <1>1, LoopInductive, PTL

(***************************************************************************)
(* After a break, a signal or the destructor nothing is registered, so no  *)
(* callback is called that select or the scan had already picked.          *)
(***************************************************************************)
THEOREM LoopQuiet == Spec => []BrokenIsQuiet
  <1>1. IInv => BrokenIsQuiet
    BY DEF IInv
  <1> QED
    BY <1>1, LoopInductive, PTL

(***************************************************************************)
(* "Since the timer list is sorted by expiration time, only the first      *)
(* entry in the timer list needs to be examined": whenever a timer has     *)
(* expired, so has the first of the list.                                  *)
(***************************************************************************)
THEOREM LoopFirstIsDue == Spec => []FirstIsDue
  <1>1. ASSUME IInv PROVE FirstIsDue
    <2>1. /\ reg.timeouts \in Seq(Pending)
          /\ \A i, j \in DOMAIN reg.timeouts : i <= j => reg.timeouts[i].left <= reg.timeouts[j].left
      BY <1>1 DEF IInv, TypeOK, Registry, Sorted
    <2> SUFFICES ASSUME NEW i \in DOMAIN reg.timeouts, reg.timeouts[i].left = 0
                 PROVE  Due(reg.timeouts)
      BY DEF FirstIsDue, IsDue
    <2>2. i \in 1 .. Len(reg.timeouts) /\ 1 \in 1 .. Len(reg.timeouts) /\ 1 <= i
      BY <2>1
    <2>3. reg.timeouts[1].left \in Nat /\ reg.timeouts[1].left <= 0
      BY <2>1, <2>2, CallbacksOf
    <2>4. reg.timeouts # << >> /\ Head(reg.timeouts) = reg.timeouts[1]
      BY <2>1, <2>2
    <2> QED
      BY <2>3, <2>4 DEF Due
  <1> QED
    BY <1>1, LoopInductive, PTL
=============================================================================
