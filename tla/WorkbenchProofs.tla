-------------------------- MODULE WorkbenchProofs --------------------------
(***************************************************************************)
(* Proofs about Workbench: for any number of keys and windows, the stack   *)
(* of windows and its focus, and when a window may be used after it was    *)
(* destroyed.                                                              *)
(***************************************************************************)
EXTENDS Workbench, FiniteSetTheorems, TLAPS

-----------------------------------------------------------------------------
(***************************************************************************)
(* Sequences without repetition.                                           *)
(***************************************************************************)

\* What is left of a sequence when the element at one place is taken out.
LEMMA TakenOut ==
    ASSUME NEW S, NEW s \in Seq(S), NEW i \in 1 .. Len(s)
    PROVE  /\ RemoveAt(s, i) \in Seq(S) /\ Len(RemoveAt(s, i)) = Len(s) - 1
           /\ \A k \in 1 .. Len(s) - 1 :
                 RemoveAt(s, i)[k] = IF k < i THEN s[k] ELSE s[k + 1]
  <1> DEFINE a == SubSeq(s, 1, i - 1)
             b == SubSeq(s, i + 1, Len(s))
  <1>1. /\ a \in Seq(S) /\ Len(a) = i - 1
        /\ \A k \in 1 .. i - 1 : a[k] = s[k]
    OBVIOUS
  <1>2. /\ b \in Seq(S) /\ Len(b) = Len(s) - i
        /\ \A k \in 1 .. Len(s) - i : b[k] = s[k + i]
    OBVIOUS
  <1>3. RemoveAt(s, i) = a \o b
    BY DEF RemoveAt
  <1> HIDE DEF a, b
  <1>4. a \o b \in Seq(S) /\ Len(a \o b) = Len(s) - 1
    <2>1. a \in Seq(S) /\ b \in Seq(S) /\ Len(a) = i - 1 /\ Len(b) = Len(s) - i
      BY <1>1, <1>2
    <2> QED
      BY <2>1
  <1>5. ASSUME NEW k \in 1 .. Len(s) - 1
        PROVE  (a \o b)[k] = IF k < i THEN s[k] ELSE s[k + 1]
    <2>1. CASE k < i
      BY <1>1, <1>2, <2>1
    <2>2. CASE ~ (k < i)
      <3>1. (a \o b)[k] = b[k - (i - 1)] /\ k - (i - 1) \in 1 .. Len(s) - i
        BY <1>1, <1>2, <2>2
      <3> QED
        BY <1>2, <2>2, <3>1
    <2> QED
      BY <2>1, <2>2
  <1> QED
    BY <1>3, <1>4, <1>5

Has(s, w) == \E i \in DOMAIN s : s[i] = w

Apart(s) == \A i, j \in 1 .. Len(s) : s[i] = s[j] => i = j

\* A window is taken from a stack that does not repeat it.
LEMMA StackWithout ==
    ASSUME NEW s \in Seq(Windows), Apart(s), NEW w, Has(s, w)
    PROVE  LET t == RemoveAt(s, Place(s, w)) IN
           /\ Place(s, w) \in 1 .. Len(s) /\ s[Place(s, w)] = w
           /\ t \in Seq(Windows) /\ Len(t) = Len(s) - 1 /\ Apart(t)
           /\ \A v : Has(t, v) <=> Has(s, v) /\ v # w
           /\ Len(s) > 1 =>
                 t[Len(t)] = IF s[Len(s)] = w THEN s[Place(s, w) - 1] ELSE s[Len(s)]
  <1>1. PICK i \in 1 .. Len(s) : i = Place(s, w) /\ s[i] = w
    BY DEF Place, Has
  <1>2. PICK t : t = RemoveAt(s, i)
    OBVIOUS
  <1>3. /\ t \in Seq(Windows) /\ Len(t) = Len(s) - 1
        /\ \A k \in 1 .. Len(s) - 1 : t[k] = IF k < i THEN s[k] ELSE s[k + 1]
    BY <1>2, TakenOut
  <1>4. \A k \in 1 .. Len(s) : s[k] = w => k = i
    BY <1>1 DEF Apart
  <1>5. Apart(t)
    <2> SUFFICES ASSUME NEW k \in 1 .. Len(t), NEW l \in 1 .. Len(t), t[k] = t[l]
                 PROVE  k = l
      BY DEF Apart
    <2>1. CASE k < i /\ l < i
      BY <1>3, <2>1 DEF Apart
    <2>2. CASE k < i /\ ~ (l < i)
      <3>1. s[k] = s[l + 1] /\ l + 1 \in 1 .. Len(s) /\ k \in 1 .. Len(s)
        BY <1>3, <2>2
      <3> QED
        BY <2>2, <3>1 DEF Apart
    <2>3. CASE ~ (k < i) /\ l < i
      <3>1. s[k + 1] = s[l] /\ k + 1 \in 1 .. Len(s) /\ l \in 1 .. Len(s)
        BY <1>3, <2>3
      <3> QED
        BY <2>3, <3>1 DEF Apart
    <2>4. CASE ~ (k < i) /\ ~ (l < i)
      <3>1. s[k + 1] = s[l + 1] /\ k + 1 \in 1 .. Len(s) /\ l + 1 \in 1 .. Len(s)
        BY <1>3, <2>4
      <3>2. k + 1 = l + 1
        BY <3>1 DEF Apart
      <3> QED
        BY <3>2
    <2> QED
      BY <2>1, <2>2, <2>3, <2>4
  <1>6. ASSUME NEW v PROVE Has(t, v) <=> Has(s, v) /\ v # w
    <2>1. ASSUME NEW k \in 1 .. Len(t), t[k] = v
          PROVE  Has(s, v) /\ v # w
      <3>1. CASE k < i
        BY <1>3, <1>4, <2>1, <3>1 DEF Has
      <3>2. CASE ~ (k < i)
        <4>1. k + 1 \in 1 .. Len(s) /\ s[k + 1] = v /\ k + 1 # i
          BY <1>3, <2>1, <3>2
        <4> QED
          BY <1>4, <4>1 DEF Has
      <3> QED
        BY <3>1, <3>2
    <2>2. ASSUME NEW k \in 1 .. Len(s), s[k] = v, v # w
          PROVE  Has(t, v)
      <3>1. CASE k < i
        <4>1. k \in 1 .. Len(t) /\ t[k] = v
          BY <1>3, <2>2, <3>1
        <4> QED
          BY <1>3, <4>1 DEF Has
      <3>2. CASE k > i
        <4>1. k - 1 \in 1 .. Len(t) /\ t[k - 1] = v
          BY <1>3, <2>2, <3>2
        <4> QED
          BY <1>3, <4>1 DEF Has
      <3> QED
        BY <1>1, <2>2, <3>1, <3>2
    <2> QED
      BY <1>3, <2>1, <2>2 DEF Has
  <1>7. Len(s) > 1 => t[Len(t)] = IF s[Len(s)] = w THEN s[i - 1] ELSE s[Len(s)]
    <2> HAVE Len(s) > 1
    <2>1. Len(t) \in 1 .. Len(s) - 1
      BY <1>3
    <2>2. CASE s[Len(s)] = w
      <3>1. i = Len(s)
        BY <1>4, <2>2
      <3> QED
        BY <1>3, <2>1, <2>2, <3>1
    <2>3. CASE s[Len(s)] # w
      <3>1. ~ (Len(t) < i)
        BY <1>1, <1>3, <2>3
      <3> QED
        BY <1>3, <2>1, <2>3, <3>1
    <2> QED
      BY <2>2, <2>3
  <1> QED
    BY <1>1, <1>2, <1>3, <1>5, <1>6, <1>7

\* A window that is not in a stack is put on top of it.
LEMMA StackAppend ==
    ASSUME NEW s \in Seq(Windows), Apart(s), NEW w \in Windows, ~ Has(s, w)
    PROVE  LET t == Append(s, w) IN
           /\ t \in Seq(Windows) /\ Len(t) = Len(s) + 1 /\ Apart(t)
           /\ \A v : Has(t, v) <=> Has(s, v) \/ v = w
           /\ t[Len(t)] = w
  <1>1. PICK t : t = Append(s, w)
    OBVIOUS
  <1>2. /\ t \in Seq(Windows) /\ Len(t) = Len(s) + 1 /\ t[Len(s) + 1] = w
        /\ \A k \in 1 .. Len(s) : t[k] = s[k]
    BY <1>1
  <1>3. Apart(t)
    <2> SUFFICES ASSUME NEW k \in 1 .. Len(t), NEW l \in 1 .. Len(t), t[k] = t[l]
                 PROVE  k = l
      BY DEF Apart
    <2>1. CASE k \in 1 .. Len(s) /\ l \in 1 .. Len(s)
      BY <1>2, <2>1 DEF Apart
    <2>2. CASE k \notin 1 .. Len(s) \/ l \notin 1 .. Len(s)
      BY <1>2, <2>2 DEF Has
    <2> QED
      BY <2>1, <2>2
  <1>4. ASSUME NEW v PROVE Has(t, v) <=> Has(s, v) \/ v = w
    BY <1>2 DEF Has
  <1> QED
    BY <1>1, <1>2, <1>3, <1>4

-----------------------------------------------------------------------------
(***************************************************************************)
(* What the methods do to the panels.                                      *)
(***************************************************************************)

\* A bench in order: counted, without repetition, the main menu shown and the
\* window on top focused.
Panels(b) ==
    /\ b \in Bench
    /\ Apart(b.stack) /\ b.panels = Len(b.stack)
    /\ Shown(b, Main) /\ b.main = Main
    /\ b.focus = b.stack[Len(b.stack)]

LEMMA BenchFields ==
    ASSUME NEW b \in Bench
    PROVE  /\ b.stack \in Seq(Windows) /\ b.panels \in Nat
           /\ b.focus \in Windows \cup {NoWindow} /\ b.main \in Windows
           /\ \A s \in Seq(Windows) : [b EXCEPT !.stack = s] \in Bench
           /\ \A n \in Nat : [b EXCEPT !.panels = n] \in Bench
           /\ \A w \in Windows \cup {NoWindow} : [b EXCEPT !.focus = w] \in Bench
  BY DEF Bench

\* The main menu is a window, and there is one at least.
LEMMA MainWindow ==
    Main \in Windows /\ MaxWindows \in Nat /\ Windows \subseteq Nat \ {0}
  BY WorkbenchAssumption DEF WorkbenchAssumption, Main, Windows

\* In order, a bench is not empty and shows the window with the focus.
LEMMA PanelsFocus ==
    ASSUME NEW b, Panels(b)
    PROVE  /\ Len(b.stack) \in Nat \ {0} /\ b.stack # << >>
           /\ b.focus \in Windows /\ Shown(b, b.focus)
           /\ \A v : Shown(b, v) => v \in Windows
           /\ \A v : Shown(b, v) <=> Has(b.stack, v)
  <1>1. b.stack \in Seq(Windows)
    BY BenchFields DEF Panels
  <1>2. Len(b.stack) \in Nat \ {0} /\ b.stack # << >>
    BY <1>1 DEF Panels, Shown
  <1> QED
    BY <1>1, <1>2 DEF Panels, Shown, Has

\* A window that is shown, or is new, comes on top.
LEMMA RaisedPanels ==
    ASSUME NEW b, Panels(b), NEW w \in Windows
    PROVE  LET r == Raised(b, w) IN
           /\ r \in Bench /\ Apart(r.stack)
           /\ r.main = b.main /\ r.panels = b.panels
           /\ r.focus = w /\ r.stack[Len(r.stack)] = w
           /\ Len(r.stack) = IF Shown(b, w) THEN Len(b.stack) ELSE Len(b.stack) + 1
           /\ \A v : Shown(r, v) <=> Shown(b, v) \/ v = w
  <1>1. /\ b \in Bench /\ b.stack \in Seq(Windows) /\ Apart(b.stack)
        /\ \A v : Shown(b, v) <=> Has(b.stack, v)
    BY BenchFields, PanelsFocus DEF Panels
  <1>2. PICK s : s = Without(b, w)
    OBVIOUS
  <1>3. /\ s \in Seq(Windows) /\ Apart(s) /\ ~ Has(s, w)
        /\ Len(s) + 1 = IF Shown(b, w) THEN Len(b.stack) ELSE Len(b.stack) + 1
        /\ \A v : Has(s, v) \/ v = w <=> Shown(b, v) \/ v = w
    <2>1. CASE Shown(b, w)
      <3>1. s = RemoveAt(b.stack, Place(b.stack, w)) /\ Has(b.stack, w)
        BY <1>1, <1>2, <2>1 DEF Without
      <3>2. /\ s \in Seq(Windows) /\ Apart(s) /\ Len(s) = Len(b.stack) - 1
            /\ \A v : Has(s, v) <=> Has(b.stack, v) /\ v # w
        BY <1>1, <3>1, StackWithout
      <3>3. Len(b.stack) \in Nat
        BY <1>1
      <3> QED
        BY <1>1, <2>1, <3>2, <3>3
    <2>2. CASE ~ Shown(b, w)
      BY <1>1, <1>2, <2>2 DEF Without
    <2> QED
      BY <2>1, <2>2
  <1>4. PICK t : t = Append(s, w)
    OBVIOUS
  <1>5. /\ t \in Seq(Windows) /\ Len(t) = Len(s) + 1 /\ Apart(t) /\ t[Len(t)] = w
        /\ \A v : Has(t, v) <=> Has(s, v) \/ v = w
    BY <1>3, <1>4, StackAppend
  <1>6. PICK r : r = Raised(b, w)
    OBVIOUS
  <1>7. r = [b EXCEPT !.stack = t, !.focus = w]
    BY <1>2, <1>4, <1>6 DEF Raised
  <1>8. r \in Bench /\ r.stack = t /\ r.focus = w /\ r.main = b.main /\ r.panels = b.panels
    <2>1. [b EXCEPT !.stack = t] \in Bench
      BY <1>1, <1>5, BenchFields
    <2>2. r \in Bench
      BY <1>7, <2>1, BenchFields
    <2> QED
      BY <1>1, <1>7, <2>2 DEF Bench
  <1>9. \A v : Shown(r, v) <=> Has(t, v)
    BY <1>8 DEF Shown, Has
  <1>10. \A v : Shown(r, v) <=> Shown(b, v) \/ v = w
    BY <1>3, <1>5, <1>9
  <1>11. Len(r.stack) = IF Shown(b, w) THEN Len(b.stack) ELSE Len(b.stack) + 1
    BY <1>3, <1>5, <1>8
  <1> QED
    BY <1>5, <1>6, <1>8, <1>10, <1>11

\* A window that is shown is raised: the bench stays in order.
LEMMA RaisedInOrder ==
    ASSUME NEW b, Panels(b), NEW w, Shown(b, w)
    PROVE  Panels(Raised(b, w)) /\ \A v : Shown(Raised(b, w), v) <=> Shown(b, v)
  <1>1. w \in Windows
    BY PanelsFocus
  <1> QED
    BY <1>1, RaisedPanels DEF Panels

\* A window that is new is added: the bench stays in order.
LEMMA AddedInOrder ==
    ASSUME NEW b, Panels(b), NEW w \in Windows, ~ Shown(b, w)
    PROVE  Panels(Added(b, w)) /\ \A v : Shown(Added(b, w), v) <=> Shown(b, v) \/ v = w
  <1>1. PICK r : r = Raised(b, w)
    OBVIOUS
  <1>2. /\ r \in Bench /\ Apart(r.stack) /\ r.main = b.main /\ r.panels = b.panels
        /\ r.focus = w /\ r.stack[Len(r.stack)] = w
        /\ Len(r.stack) = Len(b.stack) + 1
        /\ \A v : Shown(r, v) <=> Shown(b, v) \/ v = w
    BY <1>1, RaisedPanels
  <1>3. PICK a : a = [r EXCEPT !.panels = b.panels + 1]
    OBVIOUS
  <1>4. a = Added(b, w)
    BY <1>1, <1>2, <1>3 DEF Added
  <1>5. b.panels + 1 \in Nat
    BY BenchFields DEF Panels
  <1>6. a \in Bench
    BY <1>2, <1>3, <1>5, BenchFields
  <1>7. /\ a.stack = r.stack /\ a.focus = r.focus /\ a.main = r.main
        /\ a.panels = b.panels + 1
    BY <1>2, <1>3, <1>6 DEF Bench
  <1>8. Shown(a, Main) /\ \A v : Shown(a, v) <=> Shown(b, v) \/ v = w
    <2>1. \A v : Shown(a, v) <=> Shown(r, v)
      BY <1>7 DEF Shown
    <2>2. Shown(b, Main)
      BY DEF Panels
    <2> QED
      BY <1>2, <2>1, <2>2
  <1> QED
    BY <1>2, <1>4, <1>6, <1>7, <1>8 DEF Panels

\* A window other than the main menu is removed: the one below it, or the one
\* that had the focus, is on top.
LEMMA RemovedInOrder ==
    ASSUME NEW b, Panels(b), NEW w, Shown(b, w), w # Main
    PROVE  Panels(Removed(b, w)) /\ \A v : Shown(Removed(b, w), v) <=> Shown(b, v) /\ v # w
  <1>1. /\ b \in Bench /\ b.stack \in Seq(Windows) /\ Apart(b.stack) /\ Has(b.stack, w)
        /\ b.panels = Len(b.stack) /\ b.focus = b.stack[Len(b.stack)]
        /\ \A v : Shown(b, v) <=> Has(b.stack, v)
    BY BenchFields, PanelsFocus DEF Panels
  <1>2. PICK i : i = Place(b.stack, w)
    OBVIOUS
  <1>3. PICK t : t = Without(b, w)
    OBVIOUS
  <1>4. t = RemoveAt(b.stack, i)
    BY <1>2, <1>3 DEF Without
  <1>5. /\ i \in 1 .. Len(b.stack) /\ b.stack[i] = w
        /\ t \in Seq(Windows) /\ Len(t) = Len(b.stack) - 1 /\ Apart(t)
        /\ \A v : Has(t, v) <=> Has(b.stack, v) /\ v # w
        /\ Len(b.stack) > 1 =>
              t[Len(t)] = IF b.stack[Len(b.stack)] = w THEN b.stack[i - 1]
                                                       ELSE b.stack[Len(b.stack)]
    BY <1>1, <1>2, <1>4, StackWithout
  <1>6. Has(t, Main) /\ Len(t) > 0
    <2>1. Has(t, Main)
      BY <1>1, <1>5 DEF Panels
    <2> QED
      BY <1>5, <2>1 DEF Has
  <1>7. PICK f : f = IF b.focus # w THEN b.focus ELSE Below(b, w)
    OBVIOUS
  <1>8. f = t[Len(t)]
    <2>1. Len(b.stack) > 1
      BY <1>1, <1>5, <1>6
    <2>2. CASE b.focus # w
      BY <1>1, <1>5, <1>7, <2>1, <2>2
    <2>3. CASE b.focus = w
      <3>1. i = Len(b.stack)
        <4>1. Len(b.stack) \in 1 .. Len(b.stack)
          BY <1>5, <2>1
        <4> QED
          BY <1>1, <1>5, <2>3, <4>1 DEF Apart
      <3>2. i # 1
        BY <1>5, <2>1, <3>1
      <3>3. f = Below(b, w)
        BY <1>7, <2>3
      <3>4. f = b.stack[i - 1]
        BY <1>2, <3>2, <3>3 DEF Below
      <3> QED
        BY <1>1, <1>5, <2>1, <2>3, <3>4
    <2> QED
      BY <2>2, <2>3
  <1>9. f \in Windows
    BY <1>5, <1>6, <1>8
  <1>10. PICK r : r = [b EXCEPT !.panels = Len(t), !.focus = f, !.stack = t]
    OBVIOUS
  <1>11. r = Removed(b, w)
    <2>1. Len(b.stack) > 0 /\ Len(b.stack) - 1 = Len(t)
      BY <1>1, <1>5, <1>6
    <2> QED
      BY <1>1, <1>3, <1>6, <1>7, <1>10, <2>1 DEF Removed
  <1>12. r \in Bench
    <2>1. Len(t) \in Nat
      BY <1>5
    <2>2. [b EXCEPT !.panels = Len(t)] \in Bench
      BY <1>1, <2>1, BenchFields
    <2>3. [b EXCEPT !.panels = Len(t), !.focus = f] \in Bench
      BY <1>9, <2>2, BenchFields
    <2> QED
      BY <1>5, <1>10, <2>3, BenchFields
  <1>13. r.stack = t /\ r.panels = Len(t) /\ r.focus = f /\ r.main = b.main
    BY <1>1, <1>10 DEF Bench
  <1>14. \A v : Shown(r, v) <=> Shown(b, v) /\ v # w
    BY <1>1, <1>5, <1>13 DEF Shown, Has
  <1> QED
    BY <1>5, <1>8, <1>11, <1>12, <1>13, <1>14 DEF Panels

-----------------------------------------------------------------------------
(***************************************************************************)
(* What the steps of the workbench keep, whatever the step.                *)
(***************************************************************************)

Ordered ==
    /\ Panels(bench)
    /\ \A v : Shown(bench, v) => v \in DOMAIN kinds
    /\ kinds[Main] = "main"

\* The bench is in order when the stack is and the window on top is focused.
LEMMA InOrder == bench \in Bench => (Stacked /\ FocusOnTop <=> Ordered)
  <1> SUFFICES ASSUME bench \in Bench PROVE Stacked /\ FocusOnTop <=> Ordered
    OBVIOUS
  <1>1. bench.stack \in Seq(Windows)
    BY BenchFields
  <1>2. IsInjective(bench.stack) <=> Apart(bench.stack)
    BY <1>1 DEF IsInjective, Apart
  <1>3. (\A v : Shown(bench, v) => v \in DOMAIN kinds)
            <=> \A i \in DOMAIN bench.stack : bench.stack[i] \in DOMAIN kinds
    BY DEF Shown
  <1>4. Shown(bench, Main) => bench.stack # << >>
    BY DEF Shown
  <1>5. Last(bench.stack) = bench.stack[Len(bench.stack)]
    BY DEF Last
  <1> QED
    BY <1>2, <1>3, <1>4, <1>5 DEF Stacked, FocusOnTop, Panels, Ordered

\* What the steps use of the invariant.
LEMMA Facts ==
    ASSUME IInv
    PROVE  /\ TypeOK /\ bench \in Bench /\ Panels(bench) /\ kinds[Main] = "main"
           /\ kinds \in Seq(Kinds) /\ Len(kinds) \in Nat /\ DOMAIN kinds = 1 .. Len(kinds)
           /\ \A v : Shown(bench, v) => v \in DOMAIN kinds
           /\ bench.focus \in Windows /\ Shown(bench, bench.focus)
           /\ bench.focus \in DOMAIN kinds
  <1>1. TypeOK /\ bench \in Bench /\ kinds \in Seq(Kinds)
    BY DEF IInv, TypeOK
  <1>2. Panels(bench) /\ (\A v : Shown(bench, v) => v \in DOMAIN kinds) /\ kinds[Main] = "main"
    BY <1>1, InOrder DEF IInv, Ordered
  <1>3. Len(kinds) \in Nat /\ DOMAIN kinds = 1 .. Len(kinds)
    BY <1>1
  <1>4. bench.focus \in Windows /\ Shown(bench, bench.focus)
    BY <1>2, PanelsFocus
  <1> QED
    BY <1>1, <1>2, <1>3, <1>4

\* The events, and which of them ask for a removal.
LEMMA EventFacts ==
    /\ \A k \in Keys : Key(k) \in Events
    /\ Message \in Events /\ Exit \in Events
    /\ \A w \in Windows : Removal(w) \in Events
    /\ \A k \in Keys : \A w : Key(k) # Removal(w)
    /\ \A w : Message # Removal(w) /\ Exit # Removal(w)
    /\ \A v, w : Removal(v) = Removal(w) => v = w
    /\ \A e \in Events : e.type = "EVENT_K_REMOVE" =>
          e.window \in Windows /\ e = Removal(e.window)
  <1>1. \A v, w : Removal(v) = Removal(w) => v = w
    <2> TAKE v, w
    <2>1. Removal(v).window = v /\ Removal(w).window = w
      BY DEF Removal
    <2> QED
      BY <2>1
  <1>2. /\ \A k : Key(k).type = "EVENT_K_KEYBOARD"
        /\ Message.type = "EVENT_K_MESSAGE" /\ Exit.type = "EVENT_K_EXIT"
        /\ \A w : Removal(w).type = "EVENT_K_REMOVE" /\ Removal(w).window = w
    BY DEF Key, Message, Exit, Removal
  <1>3. (\A k, w : Key(k) # Removal(w)) /\ \A w : Message # Removal(w) /\ Exit # Removal(w)
    BY <1>2
  <1>4. \A e \in Events : e.type = "EVENT_K_REMOVE" =>
           e.window \in Windows /\ e = Removal(e.window)
    BY <1>2 DEF Events
  <1> QED
    BY <1>1, <1>3, <1>4 DEF Events

\* The queue once its head is handled: the rest moves up by one.
LEMMA Popped ==
    ASSUME NEW q \in Seq(Events), q # << >>, NEW e \in Seq(Events)
    PROVE  /\ Head(q) = q[1] /\ 1 \in DOMAIN q /\ q[1] \in Events
           /\ Tail(q) \o e \in Seq(Events)
           /\ \A i \in DOMAIN (Tail(q) \o e) :
                 \/ i + 1 \in DOMAIN q /\ (Tail(q) \o e)[i] = q[i + 1]
                 \/ \E j \in DOMAIN e : i = Len(q) - 1 + j /\ (Tail(q) \o e)[i] = e[j]
  <1>1. PICK t : t = Tail(q) \o e
    OBVIOUS
  <1>2. /\ t \in Seq(Events) /\ Len(t) = Len(q) - 1 + Len(e)
        /\ \A k \in 1 .. Len(q) - 1 : t[k] = q[k + 1]
        /\ \A k \in 1 .. Len(e) : t[Len(q) - 1 + k] = e[k]
    BY <1>1
  <1>3. Len(q) \in Nat \ {0} /\ Len(e) \in Nat
    OBVIOUS
  <1>4. ASSUME NEW i \in DOMAIN t
        PROVE  \/ i + 1 \in DOMAIN q /\ t[i] = q[i + 1]
               \/ \E j \in DOMAIN e : i = Len(q) - 1 + j /\ t[i] = e[j]
    <2>1. i \in 1 .. Len(t)
      BY <1>2
    <2>2. CASE i \in 1 .. Len(q) - 1
      BY <1>2, <1>3, <2>2
    <2>3. CASE i \notin 1 .. Len(q) - 1
      <3>1. PICK j \in 1 .. Len(e) : i = Len(q) - 1 + j
        <4>1. i - (Len(q) - 1) \in 1 .. Len(e) /\ i = Len(q) - 1 + (i - (Len(q) - 1))
          BY <1>2, <1>3, <2>1, <2>3
        <4> QED
          BY <4>1
      <3>2. t[i] = e[j] /\ j \in DOMAIN e
        BY <1>2, <3>1
      <3> QED
        BY <3>1, <3>2
    <2> QED
      BY <2>2, <2>3
  <1> QED
    BY <1>1, <1>2, <1>4

\* Every removal that the queue holds after a step it held before, d places on.
Moved(d) ==
    \A i \in DOMAIN queue', w \in Windows : queue'[i] = Removal(w) =>
        i + d \in DOMAIN queue /\ queue[i + d] = Removal(w)

\* A step that handles the head and queues no removal.
LEMMA PopMoves ==
    ASSUME TypeOK, queue # << >>, NEW e \in Seq(Events),
           \A i \in DOMAIN e, w \in Windows : e[i] # Removal(w),
           queue' = After(e)
    PROVE  queue' \in Seq(Events) /\ Moved(1)
  <1>1. queue \in Seq(Events)
    BY DEF TypeOK
  <1>2. queue' = Tail(queue) \o e
    BY DEF After
  <1>3. /\ queue' \in Seq(Events)
        /\ \A i \in DOMAIN queue' :
              \/ i + 1 \in DOMAIN queue /\ queue'[i] = queue[i + 1]
              \/ \E j \in DOMAIN e : queue'[i] = e[j]
    BY <1>1, <1>2, Popped
  <1> QED
    BY <1>3 DEF Moved

\* A step after which the removals are as before: what was to go still is there.
LEMMA GoingStays ==
    ASSUME IInv, NEW d \in {0, 1}, Moved(d), queue' \in Seq(Events),
           \A w \in DOMAIN kinds : w \in DOMAIN kinds' /\ kinds'[w] = kinds[w],
           hasty => hasty', twins => twins',
           \A i \in DOMAIN queue', w \in Windows :
               queue'[i] = Removal(w) /\ Shown(bench, w)
                   => Shown(bench', w) \/ hasty' \/ twins'
    PROVE  Going'
  <1> SUFFICES ASSUME NEW i \in DOMAIN queue', NEW w \in Windows, queue'[i] = Removal(w)
               PROVE  /\ w \in DOMAIN kinds' /\ kinds'[w] = "question"
                      /\ hasty' \/ twins' \/ Shown(bench', w)
                      /\ \A j \in DOMAIN queue' : queue'[j] = Removal(w) =>
                            i = j \/ hasty' \/ twins'
    BY DEF Going
  <1>1. i + d \in DOMAIN queue /\ queue[i + d] = Removal(w)
    BY DEF Moved
  <1>2. /\ w \in DOMAIN kinds /\ kinds[w] = "question"
        /\ hasty \/ twins \/ Shown(bench, w)
        /\ \A j \in DOMAIN queue : queue[j] = Removal(w) => i + d = j \/ hasty \/ twins
    BY <1>1 DEF IInv, Going
  <1>3. ASSUME NEW j \in DOMAIN queue', queue'[j] = Removal(w)
        PROVE  i = j \/ hasty' \/ twins'
    <2>1. j + d \in DOMAIN queue /\ queue[j + d] = Removal(w)
      BY <1>3 DEF Moved
    <2>2. i + d = j + d \/ hasty \/ twins
      BY <1>2, <2>1
    <2>3. i \in Nat /\ j \in Nat /\ d \in Nat
      OBVIOUS
    <2>4. i + d = j + d => i = j
      BY <2>3
    <2> QED
      BY <2>2, <2>4
  <1> QED
    BY <1>2, <1>3

\* A step that neither opens a window nor changes the global.
LEMMA AskedStays ==
    ASSUME IInv, UNCHANGED <<kinds, win>>, twins => twins',
           \A v : Shown(bench', v) => Shown(bench, v)
    PROVE  Asked'
  BY DEF IInv, Asked

\* The invariant after a step, from what is shown then.
LEMMA Assembled ==
    ASSUME TypeOK', Panels(bench'), \A v : Shown(bench', v) => v \in DOMAIN kinds',
           kinds'[Main] = "main", Asked', Going', state' = "freed" => hasty' \/ twins'
    PROVE  IInv'
  <1>1. bench' \in Bench
    BY DEF TypeOK
  <1>2. (Stacked /\ FocusOnTop)'
    <2>1. (bench \in Bench => (Stacked /\ FocusOnTop <=> Ordered))'
      BY InOrder, PTL
    <2>2. Ordered'
      BY DEF Ordered
    <2> QED
      BY <1>1, <2>1, <2>2
  <1>3. Shown(bench', Main)
    BY DEF Panels
  <1>4. FreedOnlyInHaste'
    BY <1>3 DEF FreedOnlyInHaste
  <1> QED
    BY <1>2, <1>4 DEF IInv

-----------------------------------------------------------------------------
(***************************************************************************)
(* The steps.                                                              *)
(***************************************************************************)

\* What a handler queues besides a removal.
LEMMA QueuedEvents ==
    ASSUME NEW e \in Seq({Message, Exit})
    PROVE  e \in Seq(Events) /\ \A i \in DOMAIN e, w \in Windows : e[i] # Removal(w)
  <1>1. /\ {Message, Exit} \subseteq Events
        /\ \A m \in {Message, Exit} : \A w : m # Removal(w)
    BY EventFacts
  <1>2. Len(e) \in Nat /\ DOMAIN e = 1 .. Len(e) /\ \A i \in 1 .. Len(e) : e[i] \in {Message, Exit}
    OBVIOUS
  <1> QED
    BY <1>1, <1>2

\* What is queued when nothing is, a message, the end, or messages of many menus.
LEMMA QuietQueues ==
    /\ << >> \in Seq({Message, Exit}) /\ <<Exit>> \in Seq({Message, Exit})
    /\ \A kind : Described(kind) \in Seq({Message, Exit})
    /\ \A n \in Nat : [i \in 1 .. n |-> Message] \in Seq({Message, Exit})
  <1>1. ASSUME NEW n \in Nat PROVE [i \in 1 .. n |-> Message] \in Seq({Message, Exit})
    <2>1. PICK S : S = {Message, Exit}
      OBVIOUS
    <2>2. PICK f : f = [i \in 1 .. n |-> Message]
      OBVIOUS
    <2>3. f \in [1 .. n -> S]
      BY <2>1, <2>2
    <2>4. f \in Seq(S)
      BY <2>3
    <2> QED
      BY <2>1, <2>2, <2>4
  <1>2. << >> \in Seq({Message, Exit}) /\ <<Exit>> \in Seq({Message, Exit})
    OBVIOUS
  <1>3. <<Message>> \in Seq({Message, Exit})
    OBVIOUS
  <1>4. \A kind : Described(kind) \in Seq({Message, Exit})
    BY <1>2, <1>3 DEF Described
  <1> QED
    BY <1>1, <1>2, <1>4

\* The windows, and what was opened, stay as they are, and no removal is queued.
LEMMA Unmoved ==
    ASSUME IInv, NEW d \in {0, 1}, Moved(d), queue' \in Seq(Events),
           UNCHANGED <<bench, kinds, win, refused, hasty, twins>>,
           typed' \in 0 .. MaxKeys, state' \in States \ {"freed"}
    PROVE  IInv'
  <1>1. TypeOK'
    BY DEF IInv, TypeOK
  <1>2. Going'
    BY GoingStays
  <1>3. Asked'
    BY AskedStays
  <1>4. /\ Panels(bench') /\ kinds'[Main] = "main"
        /\ \A v : Shown(bench', v) => v \in DOMAIN kinds'
    BY Facts
  <1> QED
    BY <1>1, <1>2, <1>3, <1>4, Assembled

LEMMA ReadStdinIInv == IInv /\ ReadStdin => IInv'
  <1> SUFFICES ASSUME IInv, ReadStdin PROVE IInv'
    OBVIOUS
  <1>1. PICK k \in Keys : queue' = Append(queue, Key(k))
    BY DEF ReadStdin
  <1>2. queue \in Seq(Events) /\ Key(k) \in Events /\ \A w : Key(k) # Removal(w)
    BY EventFacts DEF IInv, TypeOK
  <1>3. /\ queue' \in Seq(Events) /\ Len(queue') = Len(queue) + 1
        /\ queue'[Len(queue) + 1] = Key(k)
        /\ \A i \in 1 .. Len(queue) : queue'[i] = queue[i]
    BY <1>1, <1>2
  <1>4. Moved(0)
    <2> SUFFICES ASSUME NEW i \in DOMAIN queue', NEW w \in Windows, queue'[i] = Removal(w)
                 PROVE  i + 0 \in DOMAIN queue /\ queue[i + 0] = Removal(w)
      BY DEF Moved
    <2>1. i \in 1 .. Len(queue) + 1 /\ Len(queue) \in Nat
      BY <1>2, <1>3
    <2>2. i # Len(queue) + 1
      BY <1>2, <1>3
    <2>3. i \in 1 .. Len(queue) /\ i + 0 = i
      BY <2>1, <2>2
    <2> QED
      BY <1>2, <1>3, <2>3
  <1>5. typed' \in 0 .. MaxKeys
    <2>1. MaxKeys \in Nat /\ typed \in 0 .. MaxKeys /\ typed < MaxKeys /\ typed' = typed + 1
      BY WorkbenchAssumption DEF WorkbenchAssumption, ReadStdin, IInv, TypeOK
    <2> QED
      BY <2>1
  <1>6. state' \in States \ {"freed"}
    BY DEF ReadStdin, Running, States
  <1> QED
    BY <1>3, <1>4, <1>5, <1>6, Unmoved DEF ReadStdin

\* A handler that only queues, or ends the session.
LEMMA HandledIInv ==
    ASSUME IInv, Running, queue # << >>,
           NEW e \in Seq({Message, Exit}), queue' = After(e),
           UNCHANGED <<bench, kinds, win, typed, refused, hasty, twins>>,
           state' = state \/ state' \in {"ending", "ended"}
    PROVE  IInv'
  <1>1. queue' \in Seq(Events) /\ Moved(1)
    BY PopMoves, QueuedEvents DEF IInv
  <1>2. typed' \in 0 .. MaxKeys
    BY DEF IInv, TypeOK
  <1>3. state' \in States \ {"freed"}
    BY DEF Running, States
  <1> QED
    BY <1>1, <1>2, <1>3, Unmoved

\* The menus that are shown can be counted.
LEMMA MenusCounted ==
    ASSUME bench \in Bench PROVE Cardinality(Menus) \in Nat
  <1>1. bench.stack \in Seq(Windows)
    BY BenchFields
  <1>2. Menus \subseteq 1 .. Len(bench.stack) /\ Len(bench.stack) \in Nat
    BY <1>1 DEF Menus
  <1>3. IsFiniteSet(1 .. Len(bench.stack))
    BY <1>2, FS_Interval
  <1> QED
    BY <1>2, <1>3, FS_Subset, FS_CardinalityType

LEMMA QuietIInv ==
    IInv /\ (HandleResize \/ AnswerYes \/ OtherKey \/ ShowMessage \/ RaiseExit) => IInv'
  <1> SUFFICES ASSUME IInv, HandleResize \/ AnswerYes \/ OtherKey \/ ShowMessage \/ RaiseExit
               PROVE  IInv'
    OBVIOUS
  <1>1. CASE HandleResize
    <2>1. PICK e \in Seq({Message, Exit}) : queue' = After(e)
      BY <1>1, MenusCounted, QuietQueues DEF HandleResize, IInv, TypeOK
    <2> QED
      BY <1>1, <2>1, HandledIInv DEF HandleResize, Pops
  <1>2. CASE AnswerYes
    BY <1>2, HandledIInv, QuietQueues DEF AnswerYes, At, Pops
  <1>3. CASE OtherKey
    <2>1. Running /\ queue # << >> /\ UNCHANGED typed
      BY <1>3 DEF OtherKey, At, Pops
    <2> QED
      BY <1>3, <2>1, HandledIInv, QuietQueues DEF OtherKey
  <1>4. CASE ShowMessage
    BY <1>4, HandledIInv, QuietQueues DEF ShowMessage, PopsType
  <1>5. CASE RaiseExit
    BY <1>5, HandledIInv, QuietQueues DEF RaiseExit, PopsType
  <1> QED
    BY <1>1, <1>2, <1>3, <1>4, <1>5

LEMMA StopIInv == IInv /\ Stop => IInv'
  <1> SUFFICES ASSUME IInv, Stop PROVE IInv'
    OBVIOUS
  <1>1. queue' = queue /\ queue \in Seq(Events) /\ typed' \in 0 .. MaxKeys
    BY DEF Stop, IInv, TypeOK
  <1>2. Moved(0)
    <2>1. \A i \in DOMAIN queue : i + 0 = i
      BY <1>1
    <2> QED
      BY <1>1, <2>1 DEF Moved
  <1>3. state' \in States \ {"freed"}
    BY DEF Stop, States
  <1> QED
    BY <1>1, <1>2, <1>3, Unmoved DEF Stop

\* The bench changes, what was opened does not, and no removal is queued.
LEMMA Rearranged ==
    ASSUME IInv, Running, queue # << >>,
           NEW e \in Seq({Message, Exit}), queue' = After(e),
           Panels(bench'), \A v : Shown(bench', v) => Shown(bench, v),
           UNCHANGED <<kinds, win, typed, refused, twins>>,
           hasty' \in BOOLEAN, hasty => hasty',
           state' \in States, state' = "freed" => hasty' \/ twins',
           \A i \in DOMAIN queue', w \in Windows :
               queue'[i] = Removal(w) /\ Shown(bench, w)
                   => Shown(bench', w) \/ hasty' \/ twins'
    PROVE  IInv'
  <1>1. queue' \in Seq(Events) /\ Moved(1)
    BY PopMoves, QueuedEvents DEF IInv
  <1>2. bench' \in Bench
    BY DEF Panels
  <1>3. TypeOK'
    BY <1>1, <1>2 DEF IInv, TypeOK
  <1>4. Going'
    BY <1>1, GoingStays
  <1>5. Asked'
    BY AskedStays
  <1>6. kinds'[Main] = "main" /\ \A v : Shown(bench', v) => v \in DOMAIN kinds'
    BY Facts
  <1> QED
    BY <1>3, <1>4, <1>5, <1>6, Assembled

\* What is popped and what runs.
LEMMA PopFacts ==
    ASSUME IInv, Running
    PROVE  state \in States /\ state # "freed" /\ hasty \in BOOLEAN /\ twins \in BOOLEAN
  BY DEF IInv, TypeOK, Running

LEMMA HandleF10IInv == IInv /\ HandleF10 => IInv'
  <1> SUFFICES ASSUME IInv, HandleF10 PROVE IInv'
    OBVIOUS
  <1>1. Shown(bench, bench.main) /\ Panels(bench)
    BY Facts DEF Panels
  <1>2. bench' = Raised(bench, bench.main) /\ UNCHANGED state
    BY <1>1 DEF HandleF10
  <1>3. Panels(bench') /\ \A v : Shown(bench', v) <=> Shown(bench, v)
    BY <1>1, <1>2, RaisedInOrder
  <1>4. Running /\ queue # << >> /\ queue' = After(<< >>) /\ UNCHANGED typed
    BY DEF HandleF10, Pops
  <1> QED
    BY <1>2, <1>3, <1>4, PopFacts, QuietQueues, Rearranged DEF HandleF10

LEMMA HandleF11IInv == IInv /\ HandleF11 => IInv'
  <1> SUFFICES ASSUME IInv, HandleF11 PROVE IInv'
    OBVIOUS
  <1>1. Panels(bench)
    BY Facts
  <1>2. Shown(bench, Head(bench.stack))
    <2>1. bench.stack \in Seq(Windows) /\ bench.stack # << >>
      BY <1>1, BenchFields, PanelsFocus DEF Panels
    <2>2. Head(bench.stack) = bench.stack[1] /\ 1 \in DOMAIN bench.stack
      BY <2>1
    <2> QED
      BY <2>2 DEF Shown
  <1>3. bench' = bench \/ bench' = Raised(bench, Head(bench.stack))
    BY DEF HandleF11, Cycled
  <1>4. Panels(bench') /\ \A v : Shown(bench', v) <=> Shown(bench, v)
    BY <1>1, <1>2, <1>3, RaisedInOrder
  <1>5. Running /\ queue # << >> /\ UNCHANGED typed
    BY DEF HandleF11, Pops
  <1>6. PICK e \in Seq({Message, Exit}) : queue' = After(e)
    BY QuietQueues DEF HandleF11
  <1> QED
    BY <1>4, <1>5, <1>6, PopFacts, Rearranged DEF HandleF11

\* To close a window is to remove the one with the focus.
LEMMA ClosedInOrder ==
    ASSUME NEW b, Panels(b)
    PROVE  /\ Panels(Closed(b))
           /\ \A v : Shown(Closed(b), v) => Shown(b, v)
           /\ \A v : Shown(b, v) /\ v # b.focus => Shown(Closed(b), v)
  <1>1. CASE b.focus = b.main
    BY <1>1 DEF Closed
  <1>2. CASE b.focus # b.main
    <2>1. b.focus # Main /\ Shown(b, b.focus)
      BY <1>2, PanelsFocus DEF Panels
    <2>2. PICK l : l = Removed(b, b.focus)
      OBVIOUS
    <2>3. Panels(l) /\ \A v : Shown(l, v) <=> Shown(b, v) /\ v # b.focus
      BY <2>1, <2>2, RemovedInOrder
    <2>4. [l EXCEPT !.focus = Last(l.stack)] = l
      BY <2>3 DEF Panels, Bench, Last
    <2>5. Closed(b) = l
      BY <1>2, <2>2, <2>4 DEF Closed
    <2> QED
      BY <2>3, <2>5
  <1> QED
    BY <1>1, <1>2

LEMMA HandleF12IInv == IInv /\ HandleF12 => IInv'
  <1> SUFFICES ASSUME IInv, HandleF12 PROVE IInv'
    OBVIOUS
  <1>1. Panels(bench)
    BY Facts
  <1>2. Running /\ queue # << >> /\ UNCHANGED <<kinds, win, typed, state, refused, twins>>
    BY DEF HandleF12, Pops
  <1>3. CASE bench.panels > 1
    <2>1. queue' = After(<< >>) /\ bench' = Closed(bench) /\ hasty' = (hasty \/ ToGo)
      BY <1>3 DEF HandleF12
    <2>2. /\ Panels(bench') /\ \A v : Shown(bench', v) => Shown(bench, v)
          /\ \A v : Shown(bench, v) /\ v # bench.focus => Shown(bench', v)
      BY <1>1, <2>1, ClosedInOrder
    <2>3. Moved(1)
      BY <1>2, <2>1, PopMoves, QueuedEvents, QuietQueues DEF IInv
    <2>4. ASSUME NEW i \in DOMAIN queue', NEW w \in Windows,
                 queue'[i] = Removal(w), Shown(bench, w)
          PROVE  Shown(bench', w) \/ hasty' \/ twins'
      <3>1. CASE w = bench.focus
        BY <2>1, <2>3, <2>4, <3>1 DEF Moved, ToGo
      <3> QED
        BY <2>2, <2>4, <3>1
    <2>5. hasty' \in BOOLEAN /\ (hasty => hasty')
      BY <1>2, <2>1, PopFacts DEF ToGo
    <2>6. state' \in States /\ state' # "freed"
      BY <1>2, PopFacts
    <2> QED
      BY <1>2, <2>1, <2>2, <2>4, <2>5, <2>6, QuietQueues, Rearranged
  <1>4. CASE ~ (bench.panels > 1)
    <2>1. queue' = After(<<Exit>>) /\ UNCHANGED <<bench, hasty>>
      BY <1>4 DEF HandleF12
    <2> QED
      BY <1>2, <2>1, QuietQueues, HandledIInv
  <1> QED
    BY <1>3, <1>4

\* To open a window queues messages only.
LEMMA OpenedEvents ==
    ASSUME NEW kind, Open(kind)
    PROVE  \E e \in Seq({Message, Exit}) : queue' = After(e)
  <1>1. PICK c \in Seq({Message, Exit}), d \in Seq({Message, Exit}) :
           c = Described(kind) /\ d = Described(kinds[bench.focus])
    BY QuietQueues
  <1>2. c \o d \in Seq({Message, Exit})
    OBVIOUS
  <1>3. queue' = After(c \o d) \/ queue' = After(<< >>)
    BY <1>1 DEF Open
  <1> QED
    BY <1>2, <1>3, QuietQueues

\* The window with the focus is one whose kind the key is for.
LEMMA Opened ==
    ASSUME IInv, NEW kind \in Kinds, Open(kind), Running
    PROVE  LET w == Len(kinds) + 1 IN
           \/ /\ state' = "ended" /\ UNCHANGED <<bench, kinds>> /\ w \notin Windows
              /\ queue' = After(<< >>)
           \/ /\ w \in Windows /\ UNCHANGED state
              /\ Panels(bench') /\ \A v : Shown(bench', v) <=> Shown(bench, v) \/ v = w
              /\ kinds' \in Seq(Kinds) /\ Len(kinds') <= MaxWindows
              /\ DOMAIN kinds' = 1 .. w
              /\ \A v \in DOMAIN kinds : v \in DOMAIN kinds' /\ kinds'[v] = kinds[v]
              /\ kinds'[w] = kind
  <1>1. PICK w : w = Len(kinds) + 1
    OBVIOUS
  <1>2. CASE w \notin Windows
    BY <1>1, <1>2 DEF Open
  <1>3. CASE w \in Windows
    <2>1. bench' = Added(bench, w) /\ kinds' = Append(kinds, kind) /\ UNCHANGED state
      BY <1>1, <1>3 DEF Open
    <2>2. /\ Panels(bench) /\ kinds \in Seq(Kinds) /\ DOMAIN kinds = 1 .. Len(kinds)
          /\ Len(kinds) \in Nat /\ \A v : Shown(bench, v) => v \in DOMAIN kinds
      BY Facts
    <2>3. ~ Shown(bench, w)
      BY <1>1, <2>2
    <2>4. Panels(bench') /\ \A v : Shown(bench', v) <=> Shown(bench, v) \/ v = w
      BY <1>3, <2>1, <2>2, <2>3, AddedInOrder
    <2>5. /\ kinds' \in Seq(Kinds) /\ Len(kinds') = w /\ kinds'[w] = kind
          /\ \A v \in 1 .. Len(kinds) : kinds'[v] = kinds[v]
      BY <1>1, <2>1, <2>2
    <2>6. DOMAIN kinds' = 1 .. w /\ \A v \in DOMAIN kinds : v \in DOMAIN kinds'
      BY <1>1, <2>2, <2>5
    <2>7. Len(kinds') <= MaxWindows
      BY <1>3, <2>5 DEF Windows
    <2> QED
      BY <1>1, <1>3, <2>1, <2>2, <2>4, <2>5, <2>6, <2>7
  <1> QED
    BY <1>2, <1>3

\* A window was opened, and the global is as it should be.
LEMMA OpenedIInv ==
    ASSUME IInv, Running, queue # << >>,
           NEW e \in Seq({Message, Exit}), queue' = After(e),
           NEW w \in Windows, w = Len(kinds) + 1, UNCHANGED <<typed, state, refused, hasty>>,
           Panels(bench'), \A v : Shown(bench', v) <=> Shown(bench, v) \/ v = w,
           kinds' \in Seq(Kinds), Len(kinds') <= MaxWindows, DOMAIN kinds' = 1 .. w,
           \A v \in DOMAIN kinds : v \in DOMAIN kinds' /\ kinds'[v] = kinds[v],
           win' \in Windows \cup {NoWindow}, twins' \in BOOLEAN, twins => twins', Asked'
    PROVE  IInv'
  <1>1. queue' \in Seq(Events) /\ Moved(1)
    BY PopMoves, QueuedEvents DEF IInv
  <1>2. bench' \in Bench
    BY DEF Panels
  <1>3. TypeOK'
    BY <1>1, <1>2 DEF IInv, TypeOK
  <1>4. Going'
    BY <1>1, GoingStays
  <1>5. /\ Len(kinds) \in Nat /\ DOMAIN kinds = 1 .. Len(kinds) /\ kinds[Main] = "main"
        /\ \A v : Shown(bench, v) => v \in DOMAIN kinds
        /\ Shown(bench, Main)
    BY Facts DEF Panels
  <1>6. kinds'[Main] = "main"
    BY <1>5
  <1>7. w \in DOMAIN kinds'
    BY <1>5
  <1>8. \A v : Shown(bench', v) => v \in DOMAIN kinds'
    BY <1>5, <1>7
  <1>9. state' # "freed"
    BY PopFacts
  <1> QED
    BY <1>3, <1>4, <1>6, <1>8, <1>9, Assembled

LEMMA EnterIInv == IInv /\ Enter => IInv'
  <1> SUFFICES ASSUME IInv, Enter PROVE IInv'
    OBVIOUS
  <1>1. PICK kind \in {"menu", "text"} : Open(kind)
    BY DEF Enter
  <1>2. /\ Running /\ queue # << >>
        /\ UNCHANGED <<typed, win, refused, hasty, twins>>
    BY DEF Enter, At, Pops
  <1>7. PICK e \in Seq({Message, Exit}) : queue' = After(e)
    BY <1>1, OpenedEvents
  <1>3. kind \in Kinds /\ kind # "question"
    BY DEF Kinds
  <1>4. PICK w : w = Len(kinds) + 1
    OBVIOUS
  <1>5. CASE state' = "ended" /\ UNCHANGED <<bench, kinds>>
    BY <1>2, <1>7, <1>5, HandledIInv
  <1>6. CASE ~ (state' = "ended" /\ UNCHANGED <<bench, kinds>>)
    <2>1. /\ w \in Windows /\ UNCHANGED state
          /\ Panels(bench') /\ \A v : Shown(bench', v) <=> Shown(bench, v) \/ v = w
          /\ kinds' \in Seq(Kinds) /\ Len(kinds') <= MaxWindows /\ DOMAIN kinds' = 1 .. w
          /\ \A v \in DOMAIN kinds : v \in DOMAIN kinds' /\ kinds'[v] = kinds[v]
          /\ kinds'[w] = kind
      BY <1>2, <1>3, <1>1, <1>4, <1>6, Opened
    <2>2. Asked'
      <3> SUFFICES ASSUME NEW v \in DOMAIN kinds', kinds'[v] = "question"
                   PROVE  /\ win' \in DOMAIN kinds' /\ kinds'[win'] = "question"
                          /\ Shown(bench', v) => v = win' \/ twins'
        BY DEF Asked
      <3>1. v # w
        BY <1>3, <2>1
      <3>2. Len(kinds) \in Nat /\ DOMAIN kinds = 1 .. Len(kinds)
        BY Facts
      <3>3. v \in DOMAIN kinds
        BY <1>4, <2>1, <3>1, <3>2
      <3>4. kinds[v] = "question"
        BY <2>1, <3>3
      <3>5. /\ win \in DOMAIN kinds /\ kinds[win] = "question"
            /\ Shown(bench, v) => v = win \/ twins
        BY <3>3, <3>4 DEF IInv, Asked
      <3> QED
        BY <1>2, <2>1, <3>1, <3>5
    <2>3. win' \in Windows \cup {NoWindow} /\ twins' \in BOOLEAN
      BY <1>2 DEF IInv, TypeOK
    <2> QED
      BY <1>2, <1>7, <1>4, <2>1, <2>2, <2>3, OpenedIInv
  <1> QED
    BY <1>5, <1>6

LEMMA LogoutIInv == IInv /\ Logout => IInv'
  <1> SUFFICES ASSUME IInv, Logout PROVE IInv'
    OBVIOUS
  <1>1. /\ Running /\ queue # << >> /\ Open("question")
        /\ UNCHANGED <<typed, refused, hasty>>
    BY DEF Logout, At, Pops
  <1>11. PICK e \in Seq({Message, Exit}) : queue' = After(e)
    BY <1>1, OpenedEvents
  <1>2. Len(kinds) \in Nat /\ DOMAIN kinds = 1 .. Len(kinds) /\ MaxWindows \in Nat
    BY Facts, MainWindow
  <1>3. PICK w : w = Len(kinds) + 1
    OBVIOUS
  <1>4. w \in Windows <=> Len(kinds) < MaxWindows
    BY <1>2, <1>3 DEF Windows
  <1>5. win' = IF w \in Windows THEN w ELSE win
    BY <1>3, <1>4 DEF Logout
  <1>6. DEFINE both == \E v \in DOMAIN kinds : kinds[v] = "question" /\ Shown(bench, v)
  <1>7. twins' = (twins \/ both)
    BY DEF Logout
  <1>8. twins \in BOOLEAN /\ twins' \in BOOLEAN /\ (twins => twins')
    BY <1>1, <1>7, PopFacts
  <1>9. CASE w \in Windows
    <2>1. /\ UNCHANGED state
          /\ Panels(bench') /\ \A v : Shown(bench', v) <=> Shown(bench, v) \/ v = w
          /\ kinds' \in Seq(Kinds) /\ Len(kinds') <= MaxWindows /\ DOMAIN kinds' = 1 .. w
          /\ \A v \in DOMAIN kinds : v \in DOMAIN kinds' /\ kinds'[v] = kinds[v]
          /\ kinds'[w] = "question"
      BY <1>1, <1>3, <1>9, Opened DEF Kinds
    <2>2. win' = w /\ w \in DOMAIN kinds'
      BY <1>2, <1>3, <1>5, <1>9, <2>1
    <2>3. Asked'
      <3> SUFFICES ASSUME NEW v \in DOMAIN kinds', kinds'[v] = "question"
                   PROVE  /\ win' \in DOMAIN kinds' /\ kinds'[win'] = "question"
                          /\ Shown(bench', v) => v = win' \/ twins'
        BY DEF Asked
      <3>1. ASSUME v # w, Shown(bench, v) PROVE twins'
        <4>1. v \in DOMAIN kinds
          BY <3>1, Facts
        <4>2. kinds[v] = "question"
          BY <2>1, <4>1
        <4> QED
          BY <1>7, <3>1, <4>1, <4>2
      <3> QED
        BY <2>1, <2>2, <3>1
    <2> QED
      BY <1>1, <1>11, <1>3, <1>8, <1>9, <2>1, <2>2, <2>3, OpenedIInv
  <1>10. CASE w \notin Windows
    <2>1. state' = "ended" /\ UNCHANGED <<bench, kinds, win>>
      BY <1>1, <1>3, <1>5, <1>10, Opened DEF Kinds
    <2>2. queue' \in Seq(Events) /\ Moved(1)
      BY <1>1, <1>11, PopMoves, QueuedEvents DEF IInv
    <2>3. TypeOK'
      BY <1>1, <1>8, <2>1, <2>2 DEF IInv, TypeOK, States
    <2>4. Asked'
      BY <1>8, <2>1, AskedStays
    <2>5. Going'
      BY <1>1, <1>8, <2>1, <2>2, GoingStays
    <2>6. /\ Panels(bench') /\ kinds'[Main] = "main"
          /\ \A v : Shown(bench', v) => v \in DOMAIN kinds'
      BY <2>1, Facts
    <2> QED
      BY <2>1, <2>3, <2>4, <2>5, <2>6, Assembled
  <1> QED
    BY <1>9, <1>10

\* The removal that the answer No queues is the only one of a window that is shown,
\* unless the question was hasty or has a twin.
LEMMA AnswerNoIInv == IInv /\ AnswerNo => IInv'
  <1> SUFFICES ASSUME IInv, AnswerNo PROVE IInv'
    OBVIOUS
  <1>1. /\ Running /\ queue # << >> /\ queue' = After(<<Removal(win)>>)
        /\ kinds[bench.focus] = "question" /\ hasty' = (hasty \/ ToGo)
        /\ refused' = refused \cup {bench.focus}
        /\ UNCHANGED <<bench, kinds, win, typed, state, twins>>
    BY DEF AnswerNo, At, Pops
  <1>2. /\ bench.focus \in Windows /\ Shown(bench, bench.focus)
        /\ bench.focus \in DOMAIN kinds
    BY Facts
  <1>3. /\ win \in DOMAIN kinds /\ kinds[win] = "question"
        /\ win = bench.focus \/ twins
    BY <1>1, <1>2 DEF IInv, Asked
  <1>4. win \in Windows
    <2>1. Len(kinds) <= MaxWindows /\ MaxWindows \in Nat
      BY MainWindow DEF IInv, TypeOK
    <2> QED
      BY <1>3, <2>1, Facts DEF Windows
  <1>5. PICK e : e = <<Removal(win)>>
    OBVIOUS
  <1>6. e \in Seq(Events) /\ DOMAIN e = {1} /\ e[1] = Removal(win)
    <2>1. Removal(win) \in Events
      BY <1>4, EventFacts
    <2> QED
      BY <1>5, <2>1
  <1>7. queue \in Seq(Events) /\ queue' = Tail(queue) \o e
    BY <1>1, <1>5 DEF After, IInv, TypeOK
  <1>8. /\ queue' \in Seq(Events)
        /\ \A i \in DOMAIN queue' :
              \/ i + 1 \in DOMAIN queue /\ queue'[i] = queue[i + 1]
              \/ i = Len(queue) /\ queue'[i] = Removal(win)
    <2>1. Len(queue) \in Nat
      BY <1>7
    <2>2. /\ queue' \in Seq(Events)
          /\ \A i \in DOMAIN queue' :
                \/ i + 1 \in DOMAIN queue /\ queue'[i] = queue[i + 1]
                \/ \E j \in DOMAIN e : i = Len(queue) - 1 + j /\ queue'[i] = e[j]
      <3>1. queue # << >> /\ e \in Seq(Events)
        BY <1>1, <1>6
      <3> QED
        BY <1>7, <3>1, Popped
    <2>3. Len(queue) - 1 + 1 = Len(queue)
      BY <2>1
    <2> QED
      BY <1>6, <2>2, <2>3
  <1>9. (hasty => hasty') /\ hasty' \in BOOLEAN
    BY <1>1, PopFacts DEF ToGo
  <1>10. TypeOK'
    BY <1>1, <1>2, <1>8, <1>9 DEF IInv, TypeOK
  <1>11. ASSUME NEW i \in DOMAIN queue', NEW w \in Windows, queue'[i] = Removal(w)
         PROVE  /\ w \in DOMAIN kinds' /\ kinds'[w] = "question"
                /\ hasty' \/ twins' \/ Shown(bench', w)
                /\ \A j \in DOMAIN queue' : queue'[j] = Removal(w) =>
                      i = j \/ hasty' \/ twins'
    <2>1. ASSUME NEW j \in DOMAIN queue', queue'[j] = Removal(w)
          PROVE  \/ hasty' \/ twins'
                 \/ j = Len(queue) /\ w = win
                 \/ w # win /\ j + 1 \in DOMAIN queue /\ queue[j + 1] = Removal(w)
      <3>1. CASE j + 1 \in DOMAIN queue /\ queue'[j] = queue[j + 1]
        <4>1. w = win => hasty' \/ twins'
          BY <1>1, <1>3, <2>1, <3>1 DEF ToGo
        <4> QED
          BY <2>1, <3>1, <4>1
      <3>2. CASE j = Len(queue) /\ queue'[j] = Removal(win)
        BY <2>1, <3>2, EventFacts
      <3> QED
        BY <1>8, <3>1, <3>2
    <2>2. \/ w = win
          \/ \E k \in DOMAIN queue : queue[k] = Removal(w)
      BY <1>8, <1>11, EventFacts
    <2>3. w \in DOMAIN kinds' /\ kinds'[w] = "question"
      BY <1>1, <1>3, <2>2 DEF IInv, Going
    <2>4. hasty' \/ twins' \/ Shown(bench', w)
      BY <1>1, <1>2, <1>3, <1>9, <2>2 DEF IInv, Going
    <2>5. ASSUME NEW j \in DOMAIN queue', queue'[j] = Removal(w)
          PROVE  i = j \/ hasty' \/ twins'
      <3>1. CASE /\ w # win
                 /\ i + 1 \in DOMAIN queue /\ queue[i + 1] = Removal(w)
                 /\ j + 1 \in DOMAIN queue /\ queue[j + 1] = Removal(w)
        <4>1. i + 1 = j + 1 \/ hasty \/ twins
          BY <3>1 DEF IInv, Going
        <4>2. i \in Nat /\ j \in Nat
          BY <1>8
        <4>3. i + 1 = j + 1 => i = j
          BY <4>2
        <4> QED
          BY <1>1, <1>9, <4>1, <4>3
      <3> QED
        BY <1>11, <2>1, <2>5, <3>1
    <2> QED
      BY <2>3, <2>4, <2>5
  <1>12. Going'
    BY <1>11 DEF Going
  <1>13. Asked'
    BY <1>1, AskedStays
  <1>14. /\ Panels(bench') /\ kinds'[Main] = "main"
         /\ \A v : Shown(bench', v) => v \in DOMAIN kinds'
    BY <1>1, Facts
  <1>15. state' # "freed"
    BY <1>1, PopFacts
  <1> QED
    BY <1>10, <1>12, <1>13, <1>14, <1>15, Assembled

\* What is removed is a question, and not the main menu.
LEMMA RemoveWindowIInv == IInv /\ RemoveWindow => IInv'
  <1> SUFFICES ASSUME IInv, RemoveWindow PROVE IInv'
    OBVIOUS
  <1>1. /\ Running /\ queue # << >> /\ Head(queue).type = "EVENT_K_REMOVE"
        /\ queue' = After(<< >>)
        /\ UNCHANGED <<kinds, win, typed, refused, hasty, twins>>
    BY DEF RemoveWindow, PopsType
  <1>2. PICK w : w = Head(queue).window
    OBVIOUS
  <1>3. 1 \in DOMAIN queue /\ queue[1] = Removal(w) /\ w \in Windows
    <2>1. queue \in Seq(Events)
      BY DEF IInv, TypeOK
    <2>2. Head(queue) = queue[1] /\ 1 \in DOMAIN queue /\ queue[1] \in Events
      BY <1>1, <2>1, QueuedEvents, Popped
    <2> QED
      BY <1>1, <1>2, <2>2, EventFacts
  <1>4. /\ kinds[w] = "question" /\ (hasty \/ twins \/ Shown(bench, w))
        /\ \A j \in DOMAIN queue : queue[j] = Removal(w) => 1 = j \/ hasty \/ twins
    BY <1>3 DEF IInv, Going
  <1>5. w # Main /\ Panels(bench)
    BY <1>4, Facts
  <1>6. Moved(1)
    BY <1>1, PopMoves, QueuedEvents, QuietQueues DEF IInv
  <1>7. CASE Shown(bench, w)
    <2>1. bench' = Removed(bench, w) /\ UNCHANGED state
      BY <1>2, <1>7 DEF RemoveWindow
    <2>2. Panels(bench') /\ \A v : Shown(bench', v) <=> Shown(bench, v) /\ v # w
      BY <1>5, <1>7, <2>1, RemovedInOrder
    <2>3. ASSUME NEW i \in DOMAIN queue', NEW v \in Windows,
                 queue'[i] = Removal(v), Shown(bench, v)
          PROVE  Shown(bench', v) \/ hasty' \/ twins'
      <3>1. CASE v # w
        BY <2>2, <2>3, <3>1
      <3>2. CASE v = w
        <4>1. i + 1 \in DOMAIN queue /\ queue[i + 1] = Removal(w)
          BY <1>6, <2>3, <3>2 DEF Moved
        <4>2. 1 = i + 1 \/ hasty \/ twins
          BY <1>4, <4>1
        <4>3. queue' \in Seq(Events)
          BY <1>1, PopMoves, QueuedEvents, QuietQueues DEF IInv
        <4>4. i \in 1 .. Len(queue')
          BY <4>3
        <4>5. 1 # i + 1
          BY <4>4
        <4> QED
          BY <1>1, <4>2, <4>5
      <3> QED
        BY <3>1, <3>2
    <2> QED
      BY <1>1, <2>1, <2>2, <2>3, PopFacts, QuietQueues, Rearranged
  <1>8. CASE ~ Shown(bench, w)
    <2>1. state' = "freed" /\ UNCHANGED bench
      BY <1>2, <1>8 DEF RemoveWindow
    <2>2. state' \in States
      BY <2>1 DEF States
    <2>3. hasty' \/ twins'
      BY <1>1, <1>4, <1>8
    <2> QED
      BY <1>1, <1>5, <2>1, <2>2, <2>3, PopFacts, QuietQueues, Rearranged
  <1> QED
    BY <1>7, <1>8

-----------------------------------------------------------------------------
(***************************************************************************)
(* The theorems.                                                           *)
(***************************************************************************)

LEMMA InitIInv == Init => IInv
  <1> SUFFICES ASSUME Init PROVE IInv
    OBVIOUS
  <1>1. Main \in Windows /\ MaxKeys \in Nat /\ MaxWindows \in Nat \ {0}
    BY WorkbenchAssumption, MainWindow DEF WorkbenchAssumption
  <1>2. <<Main>> \in Seq(Windows) /\ Len(<<Main>>) = 1 /\ <<Main>>[1] = Main
    BY <1>1
  <1>3. bench \in Bench
    BY <1>1, <1>2 DEF Init, Bench
  <1>4. /\ kinds \in Seq(Kinds) /\ Len(kinds) = 1 /\ kinds[Main] = "main"
        /\ DOMAIN kinds = {Main} /\ queue = << >> /\ queue \in Seq(Events)
    BY DEF Init, Kinds, Main
  <1>5. TypeOK
    <2>1. Len(kinds) <= MaxWindows /\ typed \in 0 .. MaxKeys
      BY <1>1, <1>4 DEF Init
    <2> QED
      BY <1>3, <1>4, <2>1 DEF Init, TypeOK, States
  <1>6. /\ Shown(bench, Main) /\ (\A v : Shown(bench, v) => v = Main)
        /\ Panels(bench)
    BY <1>2, <1>3 DEF Init, Panels, Shown, Apart
  <1>7. Stacked /\ FocusOnTop
    BY <1>3, <1>4, <1>6, InOrder DEF Ordered
  <1>8. Asked
    BY <1>4 DEF Asked
  <1>9. Going
    BY <1>4 DEF Going
  <1>10. FreedOnlyInHaste
    BY <1>6 DEF Init, FreedOnlyInHaste
  <1> QED
    BY <1>5, <1>7, <1>8, <1>9, <1>10 DEF IInv

LEMMA NextIInv == IInv /\ [Next]_vars => IInv'
  <1> SUFFICES ASSUME IInv, [Next]_vars PROVE IInv'
    OBVIOUS
  <1>1. CASE UNCHANGED vars
    <2>1. UNCHANGED <<bench, kinds, win, queue, typed, state, refused, hasty, twins>>
      BY <1>1 DEF vars
    <2> QED
      BY <2>1 DEF IInv, TypeOK, Stacked, FocusOnTop, Asked, Going, FreedOnlyInHaste
  <1>2. CASE ReadStdin
    BY <1>2, ReadStdinIInv
  <1>3. CASE HandleF10 \/ HandleF11 \/ HandleF12
    BY <1>3, HandleF10IInv, HandleF11IInv, HandleF12IInv
  <1>4. CASE HandleResize \/ AnswerYes \/ OtherKey \/ ShowMessage \/ RaiseExit
    BY <1>4, QuietIInv
  <1>5. CASE Enter \/ Logout
    BY <1>5, EnterIInv, LogoutIInv
  <1>6. CASE AnswerNo \/ RemoveWindow
    BY <1>6, AnswerNoIInv, RemoveWindowIInv
  <1>7. CASE Stop
    BY <1>7, StopIInv
  <1> QED
    BY <1>1, <1>2, <1>3, <1>4, <1>5, <1>6, <1>7 DEF Next, Dispatch

(***************************************************************************)
(* The invariant of the workbench is inductive, for any number of keys and *)
(* windows.                                                                *)
(***************************************************************************)
THEOREM WorkbenchInductive == Spec => []IInv
  <1> QED
    BY InitIInv, NextIInv, PTL DEF Spec

(***************************************************************************)
(* The keys go to the window on top, after any sequence of windows that    *)
(* are opened, raised, cycled, closed and removed (workbench.c).           *)
(***************************************************************************)
THEOREM WorkbenchFocus == Spec => []FocusOnTop
  <1>1. IInv => FocusOnTop
    BY DEF IInv
  <1> QED
    BY <1>1, WorkbenchInductive, PTL

(***************************************************************************)
(* The two ways in which a window is used after it was destroyed are the   *)
(* only ones: without a key to a window that is to go, and without two     *)
(* questions, the main menu and every window in the queue are there.       *)
(***************************************************************************)
THEOREM WorkbenchFreed == Spec => []FreedOnlyInHaste
  <1>1. IInv => FreedOnlyInHaste
    BY DEF IInv
  <1> QED
    BY <1>1, WorkbenchInductive, PTL
=============================================================================
