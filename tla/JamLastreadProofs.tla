-------------------------- MODULE JamLastreadProofs --------------------------
(***************************************************************************)
(* Theorems about JamLastread, for every number of processes, users and    *)
(* retries.  The skeleton of the calls gives the lock, the header and      *)
(* the revisions; the rest of IInv is kept because whoever works on the    *)
(* file is the only one inside.                                            *)
(***************************************************************************)
EXTENDS JamLastread, TLAPS, SequenceTheorems

-----------------------------------------------------------------------------
(***************************************************************************)
(* What the skeleton of JamCall keeps, whatever work is done between the   *)
(* lock and the unlock: one lemma for all the steps that the actions are   *)
(* built from.  The same lemmas head JamMessagesProofs.                    *)
(***************************************************************************)
\* The stages of the work, in which the header that was read is that on disk.
Working(stage) == stage \notin Unread \cup {"wheader"}

\* A step of one call, as far as the lock, the header and the revision go.
Skeleton(p) ==
    \/ \E name : Called(p, name)
    \/ \E next \in {"header", "look"} : LockTaken(p, next)
    \/ LockSleeps(p)
    \/ LockFails(p)
    \/ \E next : Working(next) /\ ReadHeader(p, next)
    \/ \E from, to : /\ Working(from) /\ (Working(to) \/ to = "wheader")
                     /\ Work(p, from, to)
    \/ Work(p, "look", "unlock")
    \/ \E from : \E delta \in Int : Working(from) /\ Counted(p, from, delta)
    \/ WriteHeader(p)
    \/ Unlock(p)
    \/ \E from : Working(from) /\ ReturnError(p, from)
    \/ Restarted(p)

(***************************************************************************)
(* A call's own variables are its own.                                     *)
(***************************************************************************)
LEMMA SkeletonOthers ==
  ASSUME NEW S, NEW T, pc \in [Procs -> S], op \in [Procs -> T], CallTypeOK,
         NEW p \in Procs, Skeleton(p), NEW q \in Procs, q # p
  PROVE  pc'[q] = pc[q] /\ op'[q] = op[q] /\ hbuf'[q] = hbuf[q] /\ rev'[q] = rev[q]
  BY DEF Skeleton, Called, LockTaken, LockSleeps, LockFails, ReadHeader, Work, Counted,
         WriteHeader, Unlock, ReturnError, Restarted, Enter, Leave, CallTypeOK

\* The fields of a header.
LEMMA HeaderFields ==
  /\ NoHeader \in HeaderRecord /\ NoHeader.mod = 0
  /\ \A h \in HeaderRecord : h.mod \in Nat /\ h.active \in Int
  BY DEF HeaderRecord, NoHeader

\* The header that has been counted in.
LEMMA CountedHeader ==
  ASSUME NEW h \in HeaderRecord, NEW d \in Int
  PROVE  /\ [mod |-> h.mod + 1, active |-> h.active + d] \in HeaderRecord
         /\ [mod |-> h.mod + 1, active |-> h.active + d].mod = h.mod + 1
  BY DEF HeaderRecord

\* The invariant holds before the first call.
LEMMA SkeletonInit == CallInit => CallTypeOK /\ CallInv
  BY HeaderFields, LockAssumption, CallAssumption
     DEF CallInit, CallTypeOK, CallInv, LockInit, LockTypeOK, Inside, Unread,
         LockAssumption, CallAssumption

\* Every step keeps the types.
LEMMA SkeletonType ==
  ASSUME NEW S, NEW T, pc \in [Procs -> S], op \in [Procs -> T], CallTypeOK,
         NEW p \in Procs, Skeleton(p)
  PROVE  CallTypeOK'
  <1> USE LockAssumption DEF CallTypeOK, LockTypeOK, LockAssumption
  <1>1. CASE \E name : Called(p, name)
    BY <1>1 DEF Called
  <1>2. CASE \/ \E next \in {"header", "look"} : LockTaken(p, next)
             \/ LockSleeps(p) \/ LockFails(p)
    BY <1>2 DEF LockTaken, LockSleeps, LockFails, Granted, Sleeps, Refused
  <1>3. CASE \E next : Working(next) /\ ReadHeader(p, next)
    BY <1>3 DEF ReadHeader
  <1>4. CASE \/ \E from, to : Work(p, from, to)
             \/ \E from : Working(from) /\ ReturnError(p, from)
    BY <1>4, HeaderFields DEF Work, ReturnError
  <1>5. CASE \E from : \E delta \in Int : Working(from) /\ Counted(p, from, delta)
    <2>0. PICK from : \E delta \in Int : Counted(p, from, delta)
      BY <1>5
    <2>1. PICK delta \in Int : Counted(p, from, delta)
      BY <2>0
    <2>2. /\ hbuf' = [hbuf EXCEPT ![p] = [mod |-> hbuf[p].mod + 1, active |-> hbuf[p].active + delta]]
          /\ rev' = [rev EXCEPT ![p] = hbuf[p].mod + 1]
          /\ UNCHANGED <<owner, tries, hdr>>
      BY <2>1 DEF Counted
    <2>3. [mod |-> hbuf[p].mod + 1, active |-> hbuf[p].active + delta] \in HeaderRecord
      BY CountedHeader
    <2>4. hbuf[p].mod + 1 \in Nat
      BY HeaderFields
    <2>5. QED
      BY <2>2, <2>3, <2>4
  <1>6. CASE WriteHeader(p)
    BY <1>6 DEF WriteHeader
  <1>7. CASE Unlock(p) \/ Restarted(p)
    BY <1>7, HeaderFields DEF Unlock, Restarted, Released, Died
  <1>8. QED
    BY <1>1, <1>2, <1>3, <1>4, <1>5, <1>6, <1>7 DEF Skeleton

\* CallInv, as it is of one process and of two.
Own(q) ==
    /\ Inside(q) => owner[Header] = q
    /\ pc[q] \notin Unread \cup {"wheader"} => hbuf[q] = hdr
    /\ pc[q] # "wheader" => rev[q] <= hdr.mod
    /\ pc[q] = "wheader" =>
          \/ hbuf[q].mod = hdr.mod /\ rev[q] <= hdr.mod
          \/ hbuf[q].mod = hdr.mod + 1 /\ rev[q] = hdr.mod + 1

Apart == \A p, q \in Procs : p # q /\ rev[p] # 0 => rev[q] # rev[p]

\* The two parts are the invariant.
LEMMA CallInvParts == CallInv <=> (\A q \in Procs : Own(q)) /\ Apart
  BY DEF CallInv, Own, Apart

\* Nobody takes the lock from the process that has it.
LEMMA SkeletonLock ==
  ASSUME CallTypeOK, NEW p \in Procs, Skeleton(p), NEW q \in Procs, q # p,
         owner[Header] = q
  PROVE  owner'[Header] = q
  BY LockAssumption, CallAssumption
     DEF Skeleton, Called, LockTaken, LockSleeps, LockFails, ReadHeader, Work, Counted,
         WriteHeader, Unlock, ReturnError, Restarted, Granted, Sleeps, Refused,
         Grantable, Released, Died, CallTypeOK, LockTypeOK, LockAssumption, CallAssumption

\* The header on disk changes in one step only, that of the owner of the lock.
LEMMA SkeletonHeader ==
  ASSUME NEW p \in Procs, Skeleton(p)
  PROVE  hdr' = hdr \/ (hdr' = hbuf[p] /\ WriteHeader(p))
  BY DEF Skeleton, Called, LockTaken, LockSleeps, LockFails, ReadHeader, Work, Counted,
         WriteHeader, Unlock, ReturnError, Restarted, Sleeps, Refused

(***************************************************************************)
(* A step of one process keeps what holds of the others: the header does   *)
(* not change under the owner of the lock, and it does not go back.        *)
(***************************************************************************)
LEMMA SkeletonOwnOthers ==
  ASSUME NEW S, NEW T, pc \in [Procs -> S], op \in [Procs -> T], CallTypeOK,
         NEW p \in Procs, Skeleton(p), Own(p), NEW q \in Procs, q # p, Own(q)
  PROVE  Own(q)'
  <1>1. pc'[q] = pc[q] /\ op'[q] = op[q] /\ hbuf'[q] = hbuf[q] /\ rev'[q] = rev[q]
    BY SkeletonOthers
  <1>2. Inside(q) => owner[Header] = q /\ owner'[Header] = q
    BY SkeletonLock DEF Own
  <1>3. CASE hdr' = hdr
    BY <1>1, <1>2, <1>3 DEF Own, Inside
  <1>4. CASE hdr' = hbuf[p] /\ WriteHeader(p)
    <2>1. pc[p] = "wheader" /\ owner[Header] = p
      BY <1>4 DEF WriteHeader, Own, Inside
    <2>2. pc[q] \in {"idle", "lock"}
      BY <2>1 DEF Own, Inside
    <2>3. hdr.mod \in Nat /\ hbuf[p].mod \in Nat /\ rev[q] \in Nat
      BY HeaderFields DEF CallTypeOK
    <2>4. hdr.mod <= hdr'.mod
      BY <1>4, <2>1, <2>3 DEF Own
    <2>5. rev[q] <= hdr'.mod
      BY <2>2, <2>3, <2>4, <1>4 DEF Own
    <2>6. QED
      BY <1>1, <2>2, <2>5 DEF Own, Inside, Unread
  <1>5. QED
    BY <1>3, <1>4, SkeletonHeader

(***************************************************************************)
(* A step of a call keeps what holds of the process itself.                *)
(***************************************************************************)
LEMMA SkeletonOwn ==
  ASSUME NEW S, NEW T, pc \in [Procs -> S], op \in [Procs -> T], CallTypeOK,
         NEW p \in Procs, Skeleton(p), Own(p)
  PROVE  Own(p)'
  <1>0. /\ hdr.mod \in Nat /\ hbuf[p].mod \in Nat /\ rev[p] \in Nat
        /\ Header \in Ranges /\ NoOne # p
    BY HeaderFields, LockAssumption, CallAssumption
       DEF CallTypeOK, LockAssumption, CallAssumption
  <1>1. CASE (\E name : Called(p, name)) \/ LockSleeps(p) \/ LockFails(p)
    <2>1. UNCHANGED <<hdr, hbuf, rev>> /\ pc'[p] \in {"idle", "lock"} /\ pc[p] \in {"idle", "lock"}
      BY <1>1 DEF Called, LockSleeps, LockFails, Enter, Leave
    <2>2. QED
      BY <2>1 DEF Own, Inside, Unread
  <1>2. CASE \E next \in {"header", "look"} : LockTaken(p, next)
    <2>1. UNCHANGED <<hdr, hbuf, rev>> /\ pc'[p] \in {"header", "look"} /\ pc[p] = "lock"
      BY <1>2 DEF LockTaken, Enter
    <2>2. owner'[Header] = p
      BY <1>0, <1>2 DEF LockTaken, Granted, CallTypeOK, LockTypeOK
    <2>3. QED
      BY <2>1, <2>2 DEF Own, Inside, Unread
  <1>3. CASE \E next : Working(next) /\ ReadHeader(p, next)
    <2>1. /\ UNCHANGED <<hdr, owner, rev>> /\ Working(pc'[p]) /\ pc[p] = "header"
          /\ hbuf'[p] = hdr
      BY <1>3 DEF ReadHeader, Enter, CallTypeOK
    <2>2. QED
      BY <2>1 DEF Own, Inside, Unread, Working
  <1>4. CASE \/ \E from, to : /\ Working(from) /\ (Working(to) \/ to = "wheader")
                              /\ Work(p, from, to)
             \/ Work(p, "look", "unlock")
    <2>1. /\ UNCHANGED <<hdr, owner, hbuf, rev>>
          /\ \/ Working(pc[p]) /\ (Working(pc'[p]) \/ pc'[p] = "wheader")
             \/ pc[p] = "look" /\ pc'[p] = "unlock"
      BY <1>4 DEF Work, Enter
    <2>2. QED
      BY <2>1 DEF Own, Inside, Unread, Working
  <1>5. CASE \E from : \E delta \in Int : Working(from) /\ Counted(p, from, delta)
    <2>0. PICK from : \E delta \in Int : Working(from) /\ Counted(p, from, delta)
      BY <1>5
    <2>1. PICK delta \in Int : Working(from) /\ Counted(p, from, delta)
      BY <2>0
    <2>2. /\ UNCHANGED <<hdr, owner>> /\ Working(pc[p]) /\ pc'[p] = "wheader"
          /\ hbuf'[p] = [mod |-> hbuf[p].mod + 1, active |-> hbuf[p].active + delta]
          /\ rev'[p] = hbuf[p].mod + 1
      BY <2>1 DEF Counted, Enter, CallTypeOK
    <2>3. hbuf'[p].mod = hbuf[p].mod + 1
      BY <2>2, CountedHeader DEF CallTypeOK
    <2>4. hbuf[p] = hdr /\ owner[Header] = p
      BY <2>2 DEF Own, Working, Inside, Unread
    <2>5. QED
      BY <2>2, <2>3, <2>4 DEF Own, Inside
  <1>6. CASE WriteHeader(p)
    <2>1. /\ hdr' = hbuf[p] /\ UNCHANGED <<owner, hbuf, rev>>
          /\ pc[p] = "wheader" /\ pc'[p] = "unlock"
      BY <1>6 DEF WriteHeader, Enter
    <2>2. QED
      BY <1>0, <2>1 DEF Own, Inside, Unread
  <1>7. CASE Unlock(p) \/ \E from : Working(from) /\ ReturnError(p, from)
    <2>1. UNCHANGED <<hdr, rev>> /\ pc'[p] = "idle" /\ pc[p] # "wheader"
      BY <1>7 DEF Unlock, ReturnError, Leave, Enter, Working
    <2>2. QED
      BY <2>1 DEF Own, Inside, Unread
  <1>8. CASE Restarted(p)
    <2>1. hdr' = hdr /\ pc'[p] = "idle" /\ rev'[p] = 0
      BY <1>8 DEF Restarted, Leave, Enter, CallTypeOK
    <2>2. QED
      BY <1>0, <2>1 DEF Own, Inside, Unread
  <1>9. QED
    BY <1>1, <1>2, <1>3, <1>4, <1>5, <1>6, <1>7, <1>8 DEF Skeleton

(***************************************************************************)
(* A revision that an object gets is ahead of the header, and so of every  *)
(* other object's.                                                         *)
(***************************************************************************)
LEMMA SkeletonApart ==
  ASSUME NEW S, NEW T, pc \in [Procs -> S], op \in [Procs -> T], CallTypeOK,
         NEW p \in Procs, Skeleton(p), \A q \in Procs : Own(q), Apart
  PROVE  Apart'
  <1>1. \A q \in Procs \ {p} : rev'[q] = rev[q]
    BY SkeletonOthers
  <1>2. CASE rev'[p] \in {0, rev[p]}
    BY <1>1, <1>2 DEF Apart
  <1>3. CASE \E from : \E delta \in Int : Working(from) /\ Counted(p, from, delta)
    <2>1. Working(pc[p]) /\ rev'[p] = hbuf[p].mod + 1
      BY <1>3 DEF Counted, CallTypeOK
    <2>2. hbuf[p] = hdr /\ owner[Header] = p
      BY <2>1 DEF Own, Working, Inside, Unread
    <2>3. hdr.mod \in Nat /\ \A q \in Procs : rev[q] \in Nat
      BY HeaderFields DEF CallTypeOK
    <2>4. \A q \in Procs \ {p} : rev[q] <= hdr.mod
      BY <2>2 DEF Own, Inside
    <2>5. \A q \in Procs \ {p} : rev'[q] # rev'[p]
      BY <1>1, <2>1, <2>2, <2>3, <2>4
    <2>6. QED
      BY <1>1, <2>5 DEF Apart
  <1>4. rev'[p] \in {0, rev[p]} \/ \E from : \E delta \in Int : Working(from) /\ Counted(p, from, delta)
    BY DEF Skeleton, Called, LockTaken, LockSleeps, LockFails, ReadHeader, Work,
           WriteHeader, Unlock, ReturnError, Restarted, CallTypeOK
  <1>5. QED
    BY <1>2, <1>3, <1>4

(***************************************************************************)
(* Every step of a call keeps the types and the invariant.                 *)
(***************************************************************************)
LEMMA SkeletonInv ==
  ASSUME NEW S, NEW T, pc \in [Procs -> S], op \in [Procs -> T], CallTypeOK, CallInv,
         NEW p \in Procs, Skeleton(p)
  PROVE  CallTypeOK' /\ CallInv'
  <1>1. CallTypeOK'
    BY SkeletonType
  <1>2. (\A q \in Procs : Own(q)) /\ Apart
    BY CallInvParts
  <1>3. ASSUME NEW q \in Procs PROVE Own(q)'
    BY <1>2, SkeletonOwn, SkeletonOwnOthers
  <1>4. Apart'
    BY <1>2, SkeletonApart
  <1>5. (CallInv <=> (\A q \in Procs : Own(q)) /\ Apart)'
    BY CallInvParts, PTL
  <1>6. QED
    BY <1>1, <1>3, <1>4, <1>5

(***************************************************************************)
(* The invariant is strong enough: one process at a time is past the lock  *)
(* with a header that is still true, and a revision belongs to one object. *)
(***************************************************************************)
LEMMA CallInvEnough ==
  ASSUME CallTypeOK, CallInv
  PROVE  Exclusive /\ RevisionInv
  <1>1. hdr.mod \in Nat /\ \A p \in Procs : hbuf[p].mod \in Nat /\ rev[p] \in Nat
    BY HeaderFields DEF CallTypeOK
  <1>2. Exclusive
    <2>1. ASSUME NEW p \in Procs, pc[p] = "wheader"
          PROVE  hbuf[p].mod - hdr.mod \in {0, 1}
      <3>1. hbuf[p].mod = hdr.mod \/ hbuf[p].mod = hdr.mod + 1
        BY <2>1 DEF CallInv
      <3>2. QED
        BY <1>1, <3>1
    <2>2. QED
      BY <2>1 DEF CallInv, Exclusive
  <1>3. RevisionInv
    <2>1. ASSUME NEW p \in Procs
          PROVE  rev[p] <= IF Inside(p) THEN hdr.mod + 1 ELSE hdr.mod
      <3>1. CASE pc[p] = "wheader"
        BY <1>1, <3>1 DEF CallInv, Inside
      <3>2. CASE pc[p] # "wheader"
        BY <1>1, <3>2 DEF CallInv, Inside
      <3>3. QED
        BY <3>1, <3>2
    <2>2. QED
      BY <2>1 DEF RevisionInv, CallInv
  <1>4. QED
    BY <1>2, <1>3

-----------------------------------------------------------------------------

(***************************************************************************)
(* Each action is a step of the skeleton.                                  *)
(***************************************************************************)
LEMMA MarksSkeleton ==
  ASSUME NEW p \in Procs, NewCall(p) \/ Step(p) \/ Restart(p)
  PROVE  Skeleton(p)
  <1>1. CASE NewCall(p)
    BY <1>1 DEF NewCall, CallAdd, CallGet, CallDel, CallPut, Skeleton
  <1>2. CASE Restart(p)
    BY <1>2 DEF Restart, Skeleton
  <1>3. CASE Locked(p)
    BY <1>3 DEF Locked, Skeleton
  <1>4. CASE HeaderRead(p) \/ LockSleeps(p) \/ LockFails(p) \/ WriteHeader(p) \/ Unlock(p)
    <2>1. Working("find")
      BY DEF Working, Unread
    <2>2. QED
      BY <1>4, <2>1 DEF HeaderRead, Skeleton
  <1>5. CASE FindGet(p)
    BY <1>5 DEF FindGet, Skeleton
  <1>6. CASE FindAdd(p) \/ FindDel(p) \/ FindPut(p)
    <2>1. Working("find") /\ Working("append") /\ Working("overwrite") /\ Working("clear")
      BY DEF Working, Unread
    <2>2. \E to : (Working(to) \/ to = "wheader") /\ Work(p, "find", to)
      BY <1>6, <2>1 DEF FindAdd, FindDel, FindPut
    <2>3. QED
      BY <2>1, <2>2 DEF Skeleton
  <1>7. CASE AppendMark(p) \/ Overwrite(p) \/ Clear(p)
    <2>1. /\ Working("append") /\ Working("overwrite") /\ Working("clear")
          /\ 0 \in Int
      BY DEF Working, Unread
    <2>2. \E from : Working(from) /\ Counted(p, from, 0)
      BY <1>7, <2>1 DEF AppendMark, Overwrite, Clear
    <2>3. QED
      BY <2>1, <2>2 DEF Skeleton
  <1>8. QED
    BY <1>1, <1>2, <1>3, <1>4, <1>5, <1>6, <1>7 DEF Step

\* The fields of a last-read record.
LEMMA LastreadFields ==
  /\ NoMark \in Lastread /\ NoMark.user = NoUser
  /\ \A m \in Lastread : m.user \in Users \cup {NoUser} /\ m.last \in Nat /\ m.high \in Nat
  BY DEF Lastread, NoMark

\* The record that an add appends.
LEMMA AddedRecord ==
  ASSUME NEW u \in Users
  PROVE  [NoMark EXCEPT !.user = u] \in Lastread /\ [NoMark EXCEPT !.user = u].user = u
  BY DEF Lastread, NoMark

\* The record of a user who has read on, and that of a merge.
ReadTo(m, a, b) == [m EXCEPT !.last = a, !.high = b]

\* It is a record of the same user.
LEMMA ReadOn ==
  ASSUME NEW m \in Lastread, NEW a \in Nat, NEW b \in Nat
  PROVE  ReadTo(m, a, b) \in Lastread /\ ReadTo(m, a, b).user = m.user
         /\ ReadTo(m, a, b).high = b
  BY DEF Lastread, ReadTo

\* A merge keeps the user and takes the higher number.
LEMMA MergedMade ==
  ASSUME TypeOK, NEW p \in Procs, NEW d \in Lastread
  PROVE  /\ Merged(p, d) \in Lastread /\ Merged(p, d).user = mine[p].user
         /\ hbuf[p].mod > rev[p] => Merged(p, d).high >= d.high
  <1>1. mine[p] \in Lastread
    BY DEF TypeOK
  <1>2. /\ Higher(d.last, mine[p].last) \in Nat /\ Higher(d.high, mine[p].high) \in Nat
        /\ Higher(d.high, mine[p].high) >= d.high
    BY <1>1, LastreadFields DEF Higher
  <1>3. CASE hbuf[p].mod > rev[p]
    <2>1. Merged(p, d) = ReadTo(mine[p], Higher(d.last, mine[p].last),
                                Higher(d.high, mine[p].high))
      BY <1>3 DEF Merged, ReadTo
    <2>2. PICK a \in Nat, b \in Nat : /\ Merged(p, d) = ReadTo(mine[p], a, b)
                                      /\ b >= d.high
      BY <1>2, <2>1
    <2>3. /\ ReadTo(mine[p], a, b) \in Lastread
          /\ ReadTo(mine[p], a, b).user = mine[p].user
          /\ ReadTo(mine[p], a, b).high = b
      BY <1>1, ReadOn
    <2>4. QED
      BY <2>2, <2>3
  <1>4. CASE ~ (hbuf[p].mod > rev[p])
    BY <1>1, <1>4 DEF Merged
  <1>5. QED
    BY <1>3, <1>4

\* Where the search stops: at the user's only record.
LEMMA PlaceFound ==
  ASSUME TypeOK, OneRecord, NEW u \in Users, Places(u) # {}
  PROVE  /\ Place(u) \in 1 .. Len(marks) /\ Places(u) = {Place(u)}
         /\ marks[Place(u)] \in Lastread /\ marks[Place(u)].user = u
  <1>1. PICK i \in Places(u) : TRUE
    OBVIOUS
  <1>2. Places(u) = {i}
    BY <1>1 DEF OneRecord
  <1>3. i \in 1 .. Len(marks) /\ marks[i].user = u /\ Len(marks) \in Nat
    BY <1>1, LenProperties DEF Places, TypeOK
  <1>4. Place(u) = i
    BY <1>2, <1>3 DEF Place
  <1>5. marks[i] \in Lastread
    BY <1>3, ElementOfSeq DEF TypeOK
  <1>6. QED
    BY <1>2, <1>3, <1>4, <1>5

-----------------------------------------------------------------------------
\* MarksInv, as it is of one process, and of the last change.
Mine(q) ==
    /\ pc[q] = "idle" <=> op[q] = "none"
    /\ mine[q].user \in {have[q], NoUser}
    /\ pc[q] # "idle" => arg[q] \in Users
    /\ op[q] = "put" => arg[q] = have[q]
    /\ pc[q] = "look" => op[q] = "get"
    /\ pc[q] \in {"append", "overwrite"} => op[q] \in {"add", "put"}
    /\ pc[q] = "overwrite" => op[q] = "put"

Ahead(q) ==
    pc[q] = "overwrite" /\ rev[q] < hdr.mod
        => mine[q].high >= marks[Place(arg[q])].high

Last ==
    changer \in Procs =>
        \/ pc[changer] = "wheader" /\ hbuf[changer].mod = hdr.mod + 1
        \/ \A q \in Procs \ {changer} : rev[q] < hdr.mod

Held(q) ==
    /\ pc[q] \in {"overwrite", "clear"} => Places(arg[q]) # {}
    /\ pc[q] = "append" => Places(arg[q]) = {}

\* The parts are the invariants.
LEMMA MarksInvParts ==
  /\ MarksInv <=> (\A q \in Procs : Mine(q) /\ Ahead(q)) /\ Last
  /\ FoundStays <=> \A q \in Procs : Held(q)
  BY DEF MarksInv, FoundStays, Mine, Ahead, Last, Held

\* The invariant holds before the first call.
LEMMA MarksInit == Init => IInv
  <1> SUFFICES ASSUME Init PROVE IInv
    OBVIOUS
  <1>1. CallTypeOK /\ CallInv
    BY SkeletonInit DEF Init
  <1>2. marks = << >> /\ \A u : Places(u) = {}
    BY DEF Init, Places
  <1>3. TypeOK
    BY <1>1, LastreadFields DEF Init, CallInit, TypeOK, Stages
  <1>4. OneRecord /\ FoundStays
    BY <1>2 DEF OneRecord, FoundStays, Init, CallInit
  <1>5. MarksInv
    BY LastreadFields, LockAssumption DEF MarksInv, Init, CallInit, LockAssumption
  <1>6. QED
    BY <1>1, <1>3, <1>4, <1>5 DEF IInv

-----------------------------------------------------------------------------
Acts(p) == NewCall(p) \/ Step(p) \/ Restart(p)

\* A step of one process leaves the others' variables alone.
LEMMA ActsOthers ==
  ASSUME TypeOK, NEW p \in Procs, Acts(p), NEW q \in Procs, q # p
  PROVE  /\ pc'[q] = pc[q] /\ op'[q] = op[q] /\ hbuf'[q] = hbuf[q] /\ rev'[q] = rev[q]
         /\ arg'[q] = arg[q] /\ mine'[q] = mine[q] /\ have'[q] = have[q]
  <1>1. Skeleton(p)
    BY MarksSkeleton DEF Acts
  <1>2. pc'[q] = pc[q] /\ op'[q] = op[q] /\ hbuf'[q] = hbuf[q] /\ rev'[q] = rev[q]
    BY <1>1, SkeletonOthers DEF TypeOK
  <1>3. arg'[q] = arg[q] /\ mine'[q] = mine[q] /\ have'[q] = have[q]
    BY DEF TypeOK, Acts, NewCall, CallAdd, CallGet, CallDel, CallPut, Restart, Step,
           Locked, HeaderRead, FindGet, FindAdd, FindDel, FindPut, AppendMark,
           Overwrite, Clear, Changes, Return, lrdVars
  <1>4. QED
    BY <1>2, <1>3

\* Three steps write to the file, and they are the changes.
LEMMA Writers ==
  ASSUME NEW p \in Procs, Acts(p)
  PROVE  \/ AppendMark(p) \/ Overwrite(p) \/ Clear(p)
         \/ /\ marks' = marks
            /\ changer' = changer \/ (changer' = NoOne /\ changer = p)
  BY DEF Acts, NewCall, CallAdd, CallGet, CallDel, CallPut, Restart, Step,
         Locked, HeaderRead, FindGet, FindAdd, FindDel, FindPut, Return, lrdVars

\* A record that is appended is that of a user who had none, or of nobody.
LEMMA Appended ==
  ASSUME IInv, NEW p \in Procs, AppendMark(p)
  PROVE  /\ arg[p] \in Users /\ Places(arg[p]) = {} /\ arg' = arg
         /\ \E m \in Lastread : /\ m.user \in {arg[p], NoUser}
                                /\ marks' = Append(marks, m)
  <1>1. pc[p] = "append" /\ arg' = arg
    BY DEF AppendMark, Counted, Changes
  <1>2. Mine(p) /\ Held(p)
    BY MarksInvParts DEF IInv
  <1>3. arg[p] \in Users /\ Places(arg[p]) = {}
    BY <1>1, <1>2 DEF Mine, Held
  <1>4. CASE op[p] = "add"
    BY <1>1, <1>3, <1>4, AddedRecord DEF AppendMark
  <1>5. CASE op[p] # "add"
    <2>1. op[p] = "put" /\ mine[p].user \in {arg[p], NoUser}
      BY <1>1, <1>2, <1>5 DEF Mine
    <2>2. marks' = Append(marks, mine[p]) /\ mine[p] \in Lastread
      BY <1>5 DEF AppendMark, IInv, TypeOK
    <2>3. QED
      BY <1>1, <1>3, <2>1, <2>2
  <1>6. QED
    BY <1>4, <1>5

\* A record that is replaced was that of the user, and it stays his or is
\* nobody's.
LEMMA Replaced ==
  ASSUME IInv, NEW p \in Procs, Overwrite(p) \/ Clear(p)
  PROVE  /\ arg[p] \in Users /\ Places(arg[p]) = {Place(arg[p])} /\ arg' = arg
         /\ Place(arg[p]) \in 1 .. Len(marks)
         /\ \E m \in Lastread : /\ m.user \in {arg[p], NoUser}
                                /\ marks' = [marks EXCEPT ![Place(arg[p])] = m]
  <1>1. pc[p] \in {"overwrite", "clear"} /\ arg' = arg
    BY DEF Overwrite, Clear, Counted, Changes
  <1>2. Mine(p) /\ Held(p)
    BY MarksInvParts DEF IInv
  <1>3. arg[p] \in Users /\ Places(arg[p]) # {}
    BY <1>1, <1>2 DEF Mine, Held
  <1>4. Place(arg[p]) \in 1 .. Len(marks) /\ Places(arg[p]) = {Place(arg[p])}
    BY <1>3, PlaceFound DEF IInv
  <1>5. CASE Overwrite(p)
    <2>1. op[p] = "put" /\ mine[p].user \in {arg[p], NoUser}
      BY <1>2, <1>5 DEF Mine, Overwrite, Counted
    <2>2. marks' = [marks EXCEPT ![Place(arg[p])] = mine[p]] /\ mine[p] \in Lastread
      BY <1>5 DEF Overwrite, IInv, TypeOK
    <2>3. QED
      BY <1>1, <1>3, <1>4, <2>1, <2>2
  <1>6. CASE Clear(p)
    BY <1>1, <1>3, <1>4, <1>6, LastreadFields DEF Clear
  <1>7. QED
    BY <1>5, <1>6

(***************************************************************************)
(* No write gives a user a second record.                                  *)
(***************************************************************************)
LEMMA OneRecordKept ==
  ASSUME IInv, NEW p \in Procs, Acts(p)
  PROVE  OneRecord' /\ marks' \in Seq(Lastread)
  <1>1. marks \in Seq(Lastread) /\ OneRecord /\ NoUser \notin Users
    BY LastreadAssumption DEF IInv, TypeOK, LastreadAssumption
  <1>2. CASE marks' = marks
    BY <1>1, <1>2 DEF OneRecord, Places
  <1>3. CASE AppendMark(p)
    <2>1. PICK m \in Lastread : m.user \in {arg[p], NoUser} /\ marks' = Append(marks, m)
      BY <1>3, Appended
    <2>2. /\ marks' \in Seq(Lastread) /\ Len(marks') = Len(marks) + 1 /\ Len(marks) \in Nat
          /\ \A i \in 1 .. Len(marks) : marks'[i] = marks[i]
          /\ marks'[Len(marks) + 1] = m
      BY <1>1, <2>1, AppendProperties, LenProperties
    <2>3. ASSUME NEW u \in Users, NEW i \in Places(u)', NEW k \in Places(u)'
          PROVE  i = k
      <3>1. /\ i \in 1 .. Len(marks) + 1 /\ marks'[i].user = u
            /\ k \in 1 .. Len(marks) + 1 /\ marks'[k].user = u
        BY <2>2, <2>3 DEF Places
      <3>2. CASE u = arg[p]
        <4>1. \A j \in 1 .. Len(marks) : marks[j].user # u
          BY <1>3, <3>2, Appended DEF Places
        <4>2. QED
          BY <2>2, <3>1, <4>1
      <3>3. CASE u # arg[p]
        <4>1. i \in Places(u) /\ k \in Places(u)
          BY <1>1, <2>1, <2>2, <3>1, <3>3 DEF Places
        <4>2. QED
          BY <1>1, <4>1 DEF OneRecord
      <3>4. QED
        BY <3>2, <3>3
    <2>4. QED
      BY <2>2, <2>3 DEF OneRecord
  <1>4. CASE Overwrite(p) \/ Clear(p)
    <2> DEFINE at == Place(arg[p])
    <2>1. /\ at \in 1 .. Len(marks) /\ Places(arg[p]) = {at}
          /\ \E m \in Lastread : m.user \in {arg[p], NoUser}
                                 /\ marks' = [marks EXCEPT ![at] = m]
      BY <1>4, Replaced
    <2> HIDE DEF at
    <2>2. PICK m \in Lastread : m.user \in {arg[p], NoUser}
                                /\ marks' = [marks EXCEPT ![at] = m]
      BY <2>1
    <2>3. /\ marks' \in Seq(Lastread) /\ Len(marks') = Len(marks)
          /\ \A i \in 1 .. Len(marks) : marks'[i] = IF i = at THEN m ELSE marks[i]
      BY <1>1, <2>1, <2>2, ExceptSeq
    <2>4. ASSUME NEW u \in Users, NEW i \in Places(u)' PROVE i \in Places(u)
      <3>1. i \in 1 .. Len(marks) /\ marks'[i].user = u
        BY <2>3, <2>4 DEF Places
      <3>2. CASE i = at
        BY <1>1, <2>1, <2>2, <2>3, <3>1, <3>2
      <3>3. CASE i # at
        BY <2>3, <3>1, <3>3 DEF Places
      <3>4. QED
        BY <3>2, <3>3
    <2>5. QED
      BY <1>1, <2>3, <2>4 DEF OneRecord
  <1>5. QED
    BY <1>2, <1>3, <1>4, Writers

-----------------------------------------------------------------------------
\* What a get finds is a record, of the user or of nobody.
LEMMA GotRecord ==
  ASSUME TypeOK, OneRecord, NEW u \in Users
  PROVE  LET m == IF Places(u) = {} THEN NoMark ELSE marks[Place(u)] IN
         m \in Lastread /\ m.user \in {u, NoUser}
  BY PlaceFound, LastreadFields

\* A call has a user.
LEMMA HasUser ==
  ASSUME IInv, NEW p \in Procs, pc[p] # "idle"
  PROVE  arg[p] \in Users
  BY MarksInvParts DEF IInv, Mine

(***************************************************************************)
(* The variables keep their types.                                         *)
(***************************************************************************)
LEMMA MarksType ==
  ASSUME IInv, NEW p \in Procs, Acts(p)
  PROVE  TypeOK'
  <1>0. TypeOK /\ CallTypeOK /\ CallInv /\ OneRecord
    BY DEF IInv, TypeOK
  <1>1. CallTypeOK'
    BY <1>0, MarksSkeleton, SkeletonInv DEF Acts, TypeOK
  <1>2. marks' \in Seq(Lastread)
    BY OneRecordKept
  <1>3. changer' \in Procs \cup {NoOne}
    BY <1>0, Writers DEF TypeOK, AppendMark, Overwrite, Clear, Changes
  <1>4. CASE NewCall(p)
    <2>1. CASE \E u \in Users : CallAdd(p, u) \/ CallGet(p, u) \/ CallDel(p, u)
      BY <1>0, <1>1, <1>2, <1>3, <2>1
         DEF TypeOK, Stages, CallAdd, CallGet, CallDel, Called, Enter
    <2>2. ASSUME NEW n \in 1 .. MaxNum, CallPut(p, n) PROVE TypeOK'
      <3>1. mine' = [mine EXCEPT ![p] = ReadTo(mine[p], n, n)] /\ mine[p] \in Lastread
        BY <1>0, <2>2 DEF CallPut, ReadTo, TypeOK
      <3>2. n \in Nat
        OBVIOUS
      <3>3. mine' \in [Procs -> Lastread]
        BY <1>0, <3>1, <3>2, ReadOn DEF TypeOK
      <3>4. QED
        BY <1>0, <1>1, <1>2, <1>3, <2>2, <3>3 DEF TypeOK, Stages, CallPut, Called, Enter
    <2>3. QED
      BY <1>4, <2>1, <2>2 DEF NewCall
  <1>5. CASE Restart(p)
    BY <1>0, <1>1, <1>2, <1>3, <1>5, LastreadFields
       DEF TypeOK, Stages, Restart, Restarted, Leave, Enter
  <1>6. CASE FindGet(p)
    <2>1. arg[p] \in Users
      BY <1>6, HasUser DEF FindGet, Work
    <2>2. mine' \in [Procs -> Lastread]
      BY <1>0, <1>6, <2>1, GotRecord DEF TypeOK, FindGet
    <2>3. QED
      BY <1>0, <1>1, <1>2, <1>3, <1>6, <2>2 DEF TypeOK, Stages, FindGet, Work, Enter
  <1>7. CASE FindPut(p)
    <2>1. arg[p] \in Users
      BY <1>7, HasUser DEF FindPut, Work
    <2>2. Places(arg[p]) # {} => Merged(p, marks[Place(arg[p])]) \in Lastread
      BY <1>0, <2>1, PlaceFound, MergedMade
    <2>3. mine' \in [Procs -> Lastread]
      BY <1>0, <1>7, <2>2 DEF TypeOK, FindPut
    <2>4. QED
      BY <1>0, <1>1, <1>2, <1>3, <1>7, <2>3 DEF TypeOK, Stages, FindPut, Work, Enter
  <1>8. CASE AppendMark(p) \/ Overwrite(p) \/ Clear(p)
    BY <1>0, <1>1, <1>2, <1>3, <1>8
       DEF TypeOK, Stages, AppendMark, Overwrite, Clear, Changes, Counted, Enter
  <1>9. CASE Locked(p) \/ HeaderRead(p) \/ (LockSleeps(p) /\ UNCHANGED lrdVars)
             \/ FindAdd(p) \/ FindDel(p) \/ (WriteHeader(p) /\ UNCHANGED lrdVars)
    BY <1>0, <1>1, <1>2, <1>3, <1>9
       DEF TypeOK, Stages, Locked, LockTaken, HeaderRead, ReadHeader, LockSleeps,
           FindAdd, FindDel, Work, WriteHeader, Enter, lrdVars
  <1>10. CASE (LockFails(p) /\ Return(p)) \/ (Unlock(p) /\ Return(p))
    BY <1>0, <1>1, <1>2, <1>3, <1>10
       DEF TypeOK, Stages, LockFails, Unlock, Leave, Enter, Return
  <1>11. QED
    BY <1>4, <1>5, <1>6, <1>7, <1>8, <1>9, <1>10 DEF Acts, Step

(***************************************************************************)
(* A call keeps its user, its copy and what it is at.                      *)
(***************************************************************************)
LEMMA MineKept ==
  ASSUME IInv, NEW p \in Procs, Acts(p)
  PROVE  Mine(p)'
  <1>0. TypeOK /\ Mine(p) /\ OneRecord
    BY MarksInvParts DEF IInv
  <1>1. CASE NewCall(p)
    <2>1. CASE \E u \in Users : CallAdd(p, u) \/ CallGet(p, u) \/ CallDel(p, u)
      BY <1>0, <2>1 DEF TypeOK, Mine, CallAdd, CallGet, CallDel, Called, Enter
    <2>2. ASSUME NEW n \in 1 .. MaxNum, CallPut(p, n) PROVE Mine(p)'
      <3>1. mine'[p] = ReadTo(mine[p], n, n) /\ mine[p] \in Lastread
        BY <1>0, <2>2 DEF CallPut, ReadTo, TypeOK
      <3>2. n \in Nat
        OBVIOUS
      <3>3. mine'[p].user = mine[p].user
        BY <3>1, <3>2, ReadOn
      <3>4. have[p] \in Users
        BY <1>0, <2>2 DEF CallPut, TypeOK
      <3>5. QED
        BY <1>0, <2>2, <3>3, <3>4 DEF TypeOK, Mine, CallPut, Called, Enter
    <2>3. QED
      BY <1>1, <2>1, <2>2 DEF NewCall
  <1>2. CASE Restart(p)
    BY <1>0, <1>2, LastreadFields DEF TypeOK, Mine, Restart, Restarted, Leave, Enter
  <1>3. CASE FindGet(p)
    <2>1. pc[p] = "look" /\ op[p] = "get" /\ arg[p] \in Users
      BY <1>0, <1>3 DEF FindGet, Work, Mine
    <2>2. mine'[p].user \in {arg[p], NoUser}
      BY <1>0, <1>3, <2>1, GotRecord DEF TypeOK, FindGet
    <2>3. QED
      BY <1>0, <1>3, <2>1, <2>2 DEF TypeOK, Mine, FindGet, Work, Enter
  <1>4. CASE FindPut(p)
    <2>1. arg[p] \in Users /\ pc[p] = "find" /\ op[p] = "put"
      BY <1>0, <1>4 DEF FindPut, Work, Mine
    <2>2. Places(arg[p]) # {} => Merged(p, marks[Place(arg[p])]).user = mine[p].user
      BY <1>0, <2>1, PlaceFound, MergedMade
    <2>3. mine'[p].user = mine[p].user
      BY <1>0, <1>4, <2>2 DEF TypeOK, FindPut
    <2>4. QED
      BY <1>0, <1>4, <2>1, <2>3 DEF TypeOK, Mine, FindPut, Work, Enter
  <1>5. CASE AppendMark(p) \/ Overwrite(p) \/ Clear(p)
    BY <1>0, <1>5
       DEF TypeOK, Mine, AppendMark, Overwrite, Clear, Changes, Counted, Enter
  <1>6. CASE Locked(p) \/ HeaderRead(p) \/ (LockSleeps(p) /\ UNCHANGED lrdVars)
             \/ FindAdd(p) \/ FindDel(p) \/ (WriteHeader(p) /\ UNCHANGED lrdVars)
    BY <1>0, <1>6
       DEF TypeOK, Mine, Locked, LockTaken, HeaderRead, ReadHeader, LockSleeps,
           FindAdd, FindDel, Work, WriteHeader, Enter, lrdVars
  <1>7. CASE (LockFails(p) /\ Return(p)) \/ (Unlock(p) /\ Return(p))
    BY <1>0, <1>7 DEF TypeOK, Mine, LockFails, Unlock, Leave, Enter, Return
  <1>8. QED
    BY <1>1, <1>2, <1>3, <1>4, <1>5, <1>6, <1>7 DEF Acts, Step

-----------------------------------------------------------------------------
\* Only the process that is inside writes, to the records or to the header.
LEMMA OnlyInside ==
  ASSUME IInv, NEW p \in Procs, Acts(p), NEW q \in Procs, q # p, Inside(q)
  PROVE  UNCHANGED <<hdr, marks>> /\ ~ Inside(p)
  <1>1. ~ Inside(p)
    BY DEF IInv, CallInv
  <1>2. ~ (WriteHeader(p) \/ AppendMark(p) \/ Overwrite(p) \/ Clear(p))
    BY <1>1 DEF Inside, WriteHeader, AppendMark, Overwrite, Clear, Counted
  <1>3. QED
    BY <1>1, <1>2, MarksSkeleton, SkeletonHeader, Writers DEF Acts

(***************************************************************************)
(* What a call has found of the file stays true until it writes.           *)
(***************************************************************************)
LEMMA HeldKept ==
  ASSUME IInv, NEW p \in Procs, Acts(p), NEW q \in Procs
  PROVE  Held(q)'
  <1>0. TypeOK /\ Held(q)
    BY MarksInvParts DEF IInv
  <1>1. CASE q # p
    <2>1. pc'[q] = pc[q] /\ arg'[q] = arg[q]
      BY <1>0, <1>1, ActsOthers
    <2>2. CASE Inside(q)
      BY <1>0, <1>1, <2>1, <2>2, OnlyInside DEF Held, Places
    <2>3. CASE ~ Inside(q)
      BY <2>1, <2>3 DEF Inside, Held
    <2>4. QED
      BY <2>2, <2>3
  <1>2. CASE q = p
    <2>1. CASE FindAdd(p) \/ FindDel(p) \/ FindPut(p)
      BY <1>0, <1>2, <2>1
         DEF Held, Places, FindAdd, FindDel, FindPut, Work, Enter, TypeOK, lrdVars
    <2>2. CASE ~ (FindAdd(p) \/ FindDel(p) \/ FindPut(p))
      <3>1. pc'[p] \notin {"overwrite", "clear", "append"}
        BY <1>0, <2>2
           DEF Acts, NewCall, CallAdd, CallGet, CallDel, CallPut, Called, Restart,
               Restarted, Step, Locked, LockTaken, HeaderRead, ReadHeader, LockSleeps,
               LockFails, FindGet, Work, AppendMark, Overwrite, Clear, Counted,
               WriteHeader, Unlock, Leave, Enter, TypeOK, Sleeps
      <3>2. QED
        BY <1>2, <3>1 DEF Held
    <2>3. QED
      BY <2>1, <2>2
  <1>3. QED
    BY <1>1, <1>2

(***************************************************************************)
(* A put that has looked is not behind, unless nobody else has counted.    *)
(***************************************************************************)
LEMMA AheadKept ==
  ASSUME IInv, NEW p \in Procs, Acts(p), NEW q \in Procs
  PROVE  Ahead(q)'
  <1>0. TypeOK /\ CallTypeOK /\ Ahead(q) /\ OneRecord
    BY MarksInvParts DEF IInv, TypeOK
  <1>1. CASE q # p
    <2>1. pc'[q] = pc[q] /\ arg'[q] = arg[q] /\ rev'[q] = rev[q] /\ mine'[q] = mine[q]
      BY <1>0, <1>1, ActsOthers
    <2>2. CASE Inside(q)
      BY <1>0, <1>1, <2>1, <2>2, OnlyInside DEF Ahead, Place, Places
    <2>3. CASE ~ Inside(q)
      BY <2>1, <2>3 DEF Inside, Ahead
    <2>4. QED
      BY <2>2, <2>3
  <1>2. CASE q = p
    <2>1. CASE FindPut(p)
      <3>1. /\ pc[p] = "find" /\ arg[p] \in Users
            /\ UNCHANGED <<hdr, rev, marks, arg>> /\ Place(arg[p])' = Place(arg[p])
        BY <2>1, HasUser DEF FindPut, Work, Place, Places
      <3>2. CASE Places(arg[p]) = {}
        BY <1>0, <1>2, <2>1, <3>2 DEF FindPut, Work, Enter, TypeOK, Ahead
      <3>3. CASE Places(arg[p]) # {}
        <4>1. mine'[p] = Merged(p, marks[Place(arg[p])])
          BY <1>0, <2>1, <3>3 DEF FindPut, TypeOK
        <4>2. marks[Place(arg[p])] \in Lastread
          BY <1>0, <3>1, <3>3, PlaceFound
        <4>3. hbuf[p] = hdr
          BY <3>1 DEF IInv, CallInv, Unread
        <4>4. rev[p] \in Nat /\ hdr.mod \in Nat
          BY <1>0, HeaderFields DEF CallTypeOK
        <4>5. rev[p] < hdr.mod => mine'[p].high >= marks[Place(arg[p])].high
          BY <1>0, <4>1, <4>2, <4>3, <4>4, MergedMade
        <4>6. QED
          BY <1>2, <3>1, <4>5 DEF Ahead
      <3>4. QED
        BY <3>2, <3>3
    <2>2. CASE ~ FindPut(p)
      <3>1. pc'[p] # "overwrite"
        BY <1>0, <2>2
           DEF Acts, NewCall, CallAdd, CallGet, CallDel, CallPut, Called, Restart,
               Restarted, Step, Locked, LockTaken, HeaderRead, ReadHeader, LockSleeps,
               LockFails, FindGet, FindAdd, FindDel, Work, AppendMark, Overwrite, Clear,
               Counted, WriteHeader, Unlock, Leave, Enter, TypeOK, Sleeps
      <3>2. QED
        BY <1>2, <3>1 DEF Ahead
    <2>3. QED
      BY <2>1, <2>2
  <1>3. QED
    BY <1>1, <1>2

\* Who counts a change gets a revision, and nobody else does.
LEMMA Counters ==
  ASSUME TypeOK, NEW p \in Procs, Acts(p)
  PROVE  \/ AppendMark(p) \/ Overwrite(p) \/ Clear(p)
         \/ WriteHeader(p) /\ rev' = rev
         \/ Restart(p)
         \/ pc[p] # "wheader" /\ UNCHANGED <<hdr, rev>>
  BY DEF Acts, NewCall, CallAdd, CallGet, CallDel, CallPut, Called, Step, Locked,
         LockTaken, HeaderRead, ReadHeader, LockSleeps, LockFails, FindGet, FindAdd,
         FindDel, FindPut, Work, WriteHeader, Unlock, lrdVars

(***************************************************************************)
(* Once a process has counted the last change, every other object is       *)
(* behind the header.                                                      *)
(***************************************************************************)
LEMMA LastKept ==
  ASSUME IInv, NEW p \in Procs, Acts(p)
  PROVE  Last'
  <1>0. /\ TypeOK /\ CallTypeOK /\ Last /\ NoOne \notin Procs
        /\ \A q \in Procs : Own(q)
    BY MarksInvParts, CallInvParts, LockAssumption DEF IInv, TypeOK, LockAssumption
  <1>1. hdr.mod \in Nat /\ \A q \in Procs : rev[q] \in Nat /\ hbuf[q].mod \in Nat
    BY <1>0, HeaderFields DEF CallTypeOK
  <1>2. CASE AppendMark(p) \/ Overwrite(p) \/ Clear(p)
    <2>1. changer' = p /\ \E from \in {"append", "overwrite", "clear"} : Counted(p, from, 0)
      BY <1>2 DEF AppendMark, Overwrite, Clear, Changes
    <2>2. /\ pc[p] \in {"append", "overwrite", "clear"} /\ pc'[p] = "wheader" /\ hdr' = hdr
          /\ hbuf'[p] = [mod |-> hbuf[p].mod + 1, active |-> hbuf[p].active + 0]
      BY <1>0, <2>1 DEF Counted, Enter, TypeOK, CallTypeOK
    <2>3. hbuf'[p].mod = hbuf[p].mod + 1
      BY <1>0, <2>2, CountedHeader DEF CallTypeOK
    <2>4. hbuf[p] = hdr
      BY <1>0, <2>2 DEF Own, Unread
    <2>5. QED
      BY <2>1, <2>2, <2>3, <2>4 DEF Last
  <1>3. CASE ~ (AppendMark(p) \/ Overwrite(p) \/ Clear(p)) /\ changer' \in Procs
    <2> DEFINE c == changer
    <2>1. changer' = c /\ c \in Procs /\ (Restart(p) => pc[p] # "wheader" \/ c # p)
      BY <1>0, <1>3, Writers DEF Restart
    <2>2. CASE WriteHeader(p) /\ rev' = rev
      <3>1. pc[p] = "wheader" /\ hdr' = hbuf[p]
        BY <2>2 DEF WriteHeader
      <3>2. \A q \in Procs \ {p} : ~ Inside(q) /\ rev[q] <= hdr.mod
        BY <1>0, <3>1 DEF Own, Inside
      <3>3. CASE c = p
        <4>1. hbuf[p].mod = hdr.mod + 1 \/ \A q \in Procs \ {p} : rev[q] < hdr.mod
          BY <1>0, <2>1, <3>3 DEF Last
        <4>2. hbuf[p].mod = hdr.mod \/ hbuf[p].mod = hdr.mod + 1
          BY <1>0, <3>1 DEF Own
        <4>3. ASSUME NEW q \in Procs \ {p} PROVE rev[q] < hbuf[p].mod
          <5>1. rev[q] <= hdr.mod /\ rev[q] \in Nat /\ hdr.mod \in Nat
            BY <1>1, <3>2
          <5>2. CASE hbuf[p].mod = hdr.mod + 1
            BY <5>1, <5>2
          <5>3. CASE hbuf[p].mod # hdr.mod + 1
            BY <4>1, <4>2, <5>1, <5>3
          <5>4. QED
            BY <5>2, <5>3
        <4>4. QED
          BY <2>1, <2>2, <3>1, <3>3, <4>3 DEF Last
      <3>4. CASE c # p
        <4>1. \A q \in Procs \ {c} : rev[q] < hdr.mod
          BY <1>0, <2>1, <3>2, <3>4 DEF Last, Inside
        <4>2. hbuf[p].mod = hdr.mod
          BY <1>0, <1>1, <3>1, <3>4, <4>1 DEF Own
        <4>3. QED
          BY <2>1, <2>2, <3>1, <4>1, <4>2 DEF Last
      <3>5. QED
        BY <3>3, <3>4
    <2>3. CASE Restart(p) \/ (pc[p] # "wheader" /\ UNCHANGED <<hdr, rev>>)
      <3>1. hdr' = hdr /\ \A q \in Procs : rev'[q] = rev[q] \/ rev'[q] = 0
        BY <1>0, <2>3 DEF Restart, Restarted, CallTypeOK
      <3>2. CASE pc[c] = "wheader" /\ hbuf[c].mod = hdr.mod + 1
        <4>1. c # p
          BY <2>1, <2>3, <3>2
        <4>2. pc'[c] = pc[c] /\ hbuf'[c] = hbuf[c]
          BY <1>0, <2>1, <4>1, ActsOthers
        <4>3. QED
          BY <2>1, <3>1, <3>2, <4>2 DEF Last
      <3>3. CASE \A q \in Procs \ {c} : rev[q] < hdr.mod
        <4>1. \A q \in Procs \ {c} : rev'[q] < hdr'.mod
          BY <1>1, <3>1, <3>3
        <4>2. QED
          BY <2>1, <4>1 DEF Last
      <3>4. QED
        BY <1>0, <2>1, <3>2, <3>3 DEF Last
    <2>4. QED
      BY <1>0, <1>3, <2>2, <2>3, Counters
  <1>4. CASE changer' \notin Procs
    BY <1>4 DEF Last
  <1>5. QED
    BY <1>2, <1>3, <1>4

-----------------------------------------------------------------------------
(***************************************************************************)
(* The inductive invariant: it holds at the start and every step of every  *)
(* process keeps it.                                                       *)
(***************************************************************************)
THEOREM MarksInductive == Spec => []IInv
  <1>1. Init => IInv
    BY MarksInit
  <1>2. IInv /\ [Next]_vars => IInv'
    <2>1. ASSUME IInv, UNCHANGED vars PROVE IInv'
      <3> USE <2>1 DEF vars, callVars, lrdVars
      <3>1. TypeOK'
        BY DEF IInv, TypeOK, CallTypeOK, LockTypeOK
      <3>2. CallInv'
        BY DEF IInv, CallInv, Inside
      <3>3. OneRecord' /\ FoundStays'
        BY DEF IInv, OneRecord, FoundStays, Places
      <3>4. MarksInv'
        <4>1. (\A q \in Procs : Mine(q) /\ Ahead(q)) /\ Last
          BY MarksInvParts DEF IInv
        <4>2. ASSUME NEW q \in Procs PROVE Mine(q)' /\ Ahead(q)'
          BY <4>1 DEF Mine, Ahead, Place, Places
        <4>3. Last'
          BY <4>1 DEF Last
        <4>4. QED
          BY <4>2, <4>3 DEF MarksInv, Mine, Ahead, Last
      <3>5. QED
        BY <3>1, <3>2, <3>3, <3>4 DEF IInv
    <2>2. ASSUME IInv, NEW p \in Procs, Acts(p) PROVE IInv'
      <3>1. TypeOK' /\ OneRecord'
        BY <2>2, MarksType, OneRecordKept
      <3>2. CallInv'
        BY <2>2, MarksSkeleton, SkeletonInv DEF Acts, IInv, TypeOK
      <3>3. ASSUME NEW q \in Procs PROVE Mine(q)'
        <4>1. Mine(q)
          BY <2>2, MarksInvParts DEF IInv
        <4>2. CASE q = p
          BY <2>2, <4>2, MineKept
        <4>3. CASE q # p
          BY <2>2, <4>1, <4>3, ActsOthers DEF IInv, Mine
        <4>4. QED
          BY <4>2, <4>3
      <3>4. FoundStays'
        BY <2>2, HeldKept DEF FoundStays, Held
      <3>5. MarksInv'
        BY <2>2, <3>3, AheadKept, LastKept DEF MarksInv, Mine, Ahead, Last
      <3>6. QED
        BY <3>1, <3>2, <3>4, <3>5 DEF IInv
    <2>3. QED
      BY <2>1, <2>2 DEF Next, Acts
  <1>3. QED
    BY <1>1, <1>2, PTL DEF Spec

(***************************************************************************)
(* Whatever the interleaving and whoever dies: one process at a time is at *)
(* the files, and a revision belongs to one object.                        *)
(***************************************************************************)
THEOREM MarksExclusive == Spec => [](Exclusive /\ RevisionInv)
  <1>1. IInv => Exclusive /\ RevisionInv
    BY CallInvEnough DEF IInv, TypeOK
  <1>2. QED
    BY <1>1, MarksInductive, PTL

(***************************************************************************)
(* No user ever has two last-read records.                                 *)
(***************************************************************************)
THEOREM MarksApart == Spec => []OneRecord
  BY MarksInductive, PTL DEF IInv

(***************************************************************************)
(* What a call has found stays true until it writes.                       *)
(***************************************************************************)
THEOREM MarksFound == Spec => []FoundStays
  BY MarksInductive, PTL DEF IInv

(***************************************************************************)
(* A put takes a record back only by the object that made the last change, *)
(* or after a death that left a change uncounted.                          *)
(***************************************************************************)
THEOREM MarksBack == Spec => BackOnlyByLast
  <1>1. IInv /\ [Next]_vars =>
          [\A p \in Procs : Overwrite(p) /\ marks'[Place(arg[p])].high
                                                 < marks[Place(arg[p])].high
                => changer \in {p, NoOne}]_vars
    <2> SUFFICES ASSUME IInv, NEW p \in Procs, Overwrite(p),
                        marks'[Place(arg[p])].high < marks[Place(arg[p])].high
                 PROVE  changer \in {p, NoOne}
      OBVIOUS
    <2>0. TypeOK /\ CallTypeOK /\ Ahead(p) /\ Last /\ \A q \in Procs : Own(q)
      BY MarksInvParts, CallInvParts DEF IInv, TypeOK
    <2>1. /\ Place(arg[p]) \in 1 .. Len(marks)
          /\ marks[Place(arg[p])] \in Lastread /\ mine[p] \in Lastread
      BY <2>0, Replaced, ElementOfSeq DEF TypeOK
    <2>2. marks' = [marks EXCEPT ![Place(arg[p])] = mine[p]] /\ marks \in Seq(Lastread)
      BY <2>0 DEF Overwrite, TypeOK
    <2>3. marks'[Place(arg[p])] = mine[p]
      BY <2>1, <2>2, ExceptSeq
    <2>4. pc[p] = "overwrite" /\ hdr.mod \in Nat /\ rev[p] \in Nat
      BY <2>0, HeaderFields DEF Overwrite, Counted, CallTypeOK
    <2>5. ~ (mine[p].high >= marks[Place(arg[p])].high)
      BY <2>1, <2>3, LastreadFields
    <2>6. ~ (rev[p] < hdr.mod)
      BY <2>0, <2>4, <2>5 DEF Ahead
    <2>7. ASSUME changer \in Procs, changer # p PROVE FALSE
      <3>1. ~ (pc[changer] = "wheader")
        BY <2>0, <2>4, <2>7 DEF Own, Inside
      <3>2. QED
        BY <2>0, <2>6, <2>7, <3>1 DEF Last
    <2>8. QED
      BY <2>0, <2>7 DEF TypeOK
  <1>2. QED
    BY <1>1, MarksInductive, PTL DEF Spec, BackOnlyByLast
=============================================================================
