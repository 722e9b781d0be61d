-------------------------- MODULE JamMessagesProofs --------------------------
(***************************************************************************)
(* Theorems about JamMessages, for every number of processes, texts, sizes *)
(* and retries: the index is sound, a put fits in its place, the messages  *)
(* are counted, and the base is the archive of MessageBase.                *)
(*                                                                         *)
(* The skeleton of the calls says that one process at a time is at the     *)
(* files.  Its step keeps them sound and keeps what it knows of them       *)
(* (Stepped); the others, who are not at the files, know only what no step *)
(* takes back (Keeps).                                                     *)
(***************************************************************************)
EXTENDS JamMessages, TLAPS, SequenceTheorems, FiniteSetTheorems

-----------------------------------------------------------------------------
(***************************************************************************)
(* What the skeleton of JamCall keeps, whatever work is done between the   *)
(* lock and the unlock: one lemma for all the steps that the actions are   *)
(* built from.  The same lemmas head JamLastreadProofs.                    *)
(***************************************************************************)
\* The stages of the work, in which the header that was read is that on disk.
Working(stage) == stage \notin Unread \cup {"wheader"}

\* A step of one call, as far as the lock, the header and the revision go.
Skeleton(p) ==
    \/ \E name : Called(p, name)
    \/ \E next \in {"header", "look"} : LockTaken(p, next)
    \/ LockSleeps(p)
    \/ LockFails(p)
    \/ \E next : Working(next) /\ ReadHeader(p, next)
    \/ \E from, to : /\ Working(from) /\ (Working(to) \/ to = "wheader")
                     /\ Work(p, from, to)
    \/ Work(p, "look", "unlock")
    \/ \E from : \E delta \in Int : Working(from) /\ Counted(p, from, delta)
    \/ WriteHeader(p)
    \/ Unlock(p)
    \/ \E from : Working(from) /\ ReturnError(p, from)
    \/ Restarted(p)

(***************************************************************************)
(* A call's own variables are its own.                                     *)
(***************************************************************************)
LEMMA SkeletonOthers ==
  ASSUME NEW S, NEW T, pc \in [Procs -> S], op \in [Procs -> T], CallTypeOK,
         NEW p \in Procs, Skeleton(p), NEW q \in Procs, q # p
  PROVE  pc'[q] = pc[q] /\ op'[q] = op[q] /\ hbuf'[q] = hbuf[q] /\ rev'[q] = rev[q]
  BY DEF Skeleton, Called, LockTaken, LockSleeps, LockFails, ReadHeader, Work, Counted,
         WriteHeader, Unlock, ReturnError, Restarted, Enter, Leave, CallTypeOK

\* The fields of a header.
LEMMA HeaderFields ==
  /\ NoHeader \in HeaderRecord /\ NoHeader.mod = 0
  /\ \A h \in HeaderRecord : h.mod \in Nat /\ h.active \in Int
  BY DEF HeaderRecord, NoHeader

\* The header that has been counted in.
LEMMA CountedHeader ==
  ASSUME NEW h \in HeaderRecord, NEW d \in Int
  PROVE  /\ [mod |-> h.mod + 1, active |-> h.active + d] \in HeaderRecord
         /\ [mod |-> h.mod + 1, active |-> h.active + d].mod = h.mod + 1
  BY DEF HeaderRecord

\* The invariant holds before the first call.
LEMMA SkeletonInit == CallInit => CallTypeOK /\ CallInv
  BY HeaderFields, LockAssumption, CallAssumption
     DEF CallInit, CallTypeOK, CallInv, LockInit, LockTypeOK, Inside, Unread,
         LockAssumption, CallAssumption

\* Every step keeps the types.
LEMMA SkeletonType ==
  ASSUME NEW S, NEW T, pc \in [Procs -> S], op \in [Procs -> T], CallTypeOK,
         NEW p \in Procs, Skeleton(p)
  PROVE  CallTypeOK'
  <1> USE LockAssumption DEF CallTypeOK, LockTypeOK, LockAssumption
  <1>1. CASE \E name : Called(p, name)
    BY <1>1 DEF Called
  <1>2. CASE \/ \E next \in {"header", "look"} : LockTaken(p, next)
             \/ LockSleeps(p) \/ LockFails(p)
    BY <1>2 DEF LockTaken, LockSleeps, LockFails, Granted, Sleeps, Refused
  <1>3. CASE \E next : Working(next) /\ ReadHeader(p, next)
    BY <1>3 DEF ReadHeader
  <1>4. CASE \/ \E from, to : Work(p, from, to)
             \/ \E from : Working(from) /\ ReturnError(p, from)
    BY <1>4, HeaderFields DEF Work, ReturnError
  <1>5. CASE \E from : \E delta \in Int : Working(from) /\ Counted(p, from, delta)
    <2>0. PICK from : \E delta \in Int : Counted(p, from, delta)
      BY <1>5
    <2>1. PICK delta \in Int : Counted(p, from, delta)
      BY <2>0
    <2>2. /\ hbuf' = [hbuf EXCEPT ![p] = [mod |-> hbuf[p].mod + 1, active |-> hbuf[p].active + delta]]
          /\ rev' = [rev EXCEPT ![p] = hbuf[p].mod + 1]
          /\ UNCHANGED <<owner, tries, hdr>>
      BY <2>1 DEF Counted
    <2>3. [mod |-> hbuf[p].mod + 1, active |-> hbuf[p].active + delta] \in HeaderRecord
      BY CountedHeader
    <2>4. hbuf[p].mod + 1 \in Nat
      BY HeaderFields
    <2>5. QED
      BY <2>2, <2>3, <2>4
  <1>6. CASE WriteHeader(p)
    BY <1>6 DEF WriteHeader
  <1>7. CASE Unlock(p) \/ Restarted(p)
    BY <1>7, HeaderFields DEF Unlock, Restarted, Released, Died
  <1>8. QED
    BY <1>1, <1>2, <1>3, <1>4, <1>5, <1>6, <1>7 DEF Skeleton

\* CallInv, as it is of one process and of two.
Own(q) ==
    /\ Inside(q) => owner[Header] = q
    /\ pc[q] \notin Unread \cup {"wheader"} => hbuf[q] = hdr
    /\ pc[q] # "wheader" => rev[q] <= hdr.mod
    /\ pc[q] = "wheader" =>
          \/ hbuf[q].mod = hdr.mod /\ rev[q] <= hdr.mod
          \/ hbuf[q].mod = hdr.mod + 1 /\ rev[q] = hdr.mod + 1

Apart == \A p, q \in Procs : p # q /\ rev[p] # 0 => rev[q] # rev[p]

\* The two parts are the invariant.
LEMMA CallInvParts == CallInv <=> (\A q \in Procs : Own(q)) /\ Apart
  BY DEF CallInv, Own, Apart

\* Nobody takes the lock from the process that has it.
LEMMA SkeletonLock ==
  ASSUME CallTypeOK, NEW p \in Procs, Skeleton(p), NEW q \in Procs, q # p,
         owner[Header] = q
  PROVE  owner'[Header] = q
  BY LockAssumption, CallAssumption
     DEF Skeleton, Called, LockTaken, LockSleeps, LockFails, ReadHeader, Work, Counted,
         WriteHeader, Unlock, ReturnError, Restarted, Granted, Sleeps, Refused,
         Grantable, Released, Died, CallTypeOK, LockTypeOK, LockAssumption, CallAssumption

\* The header on disk changes in one step only, that of the owner of the lock.
LEMMA SkeletonHeader ==
  ASSUME NEW p \in Procs, Skeleton(p)
  PROVE  hdr' = hdr \/ (hdr' = hbuf[p] /\ WriteHeader(p))
  BY DEF Skeleton, Called, LockTaken, LockSleeps, LockFails, ReadHeader, Work, Counted,
         WriteHeader, Unlock, ReturnError, Restarted, Sleeps, Refused

(***************************************************************************)
(* A step of one process keeps what holds of the others: the header does   *)
(* not change under the owner of the lock, and it does not go back.        *)
(***************************************************************************)
LEMMA SkeletonOwnOthers ==
  ASSUME NEW S, NEW T, pc \in [Procs -> S], op \in [Procs -> T], CallTypeOK,
         NEW p \in Procs, Skeleton(p), Own(p), NEW q \in Procs, q # p, Own(q)
  PROVE  Own(q)'
  <1>1. pc'[q] = pc[q] /\ op'[q] = op[q] /\ hbuf'[q] = hbuf[q] /\ rev'[q] = rev[q]
    BY SkeletonOthers
  <1>2. Inside(q) => owner[Header] = q /\ owner'[Header] = q
    BY SkeletonLock DEF Own
  <1>3. CASE hdr' = hdr
    BY <1>1, <1>2, <1>3 DEF Own, Inside
  <1>4. CASE hdr' = hbuf[p] /\ WriteHeader(p)
    <2>1. pc[p] = "wheader" /\ owner[Header] = p
      BY <1>4 DEF WriteHeader, Own, Inside
    <2>2. pc[q] \in {"idle", "lock"}
      BY <2>1 DEF Own, Inside
    <2>3. hdr.mod \in Nat /\ hbuf[p].mod \in Nat /\ rev[q] \in Nat
      BY HeaderFields DEF CallTypeOK
    <2>4. hdr.mod <= hdr'.mod
      BY <1>4, <2>1, <2>3 DEF Own
    <2>5. rev[q] <= hdr'.mod
      BY <2>2, <2>3, <2>4, <1>4 DEF Own
    <2>6. QED
      BY <1>1, <2>2, <2>5 DEF Own, Inside, Unread
  <1>5. QED
    BY <1>3, <1>4, SkeletonHeader

(***************************************************************************)
(* A step of a call keeps what holds of the process itself.                *)
(***************************************************************************)
LEMMA SkeletonOwn ==
  ASSUME NEW S, NEW T, pc \in [Procs -> S], op \in [Procs -> T], CallTypeOK,
         NEW p \in Procs, Skeleton(p), Own(p)
  PROVE  Own(p)'
  <1>0. /\ hdr.mod \in Nat /\ hbuf[p].mod \in Nat /\ rev[p] \in Nat
        /\ Header \in Ranges /\ NoOne # p
    BY HeaderFields, LockAssumption, CallAssumption
       DEF CallTypeOK, LockAssumption, CallAssumption
  <1>1. CASE (\E name : Called(p, name)) \/ LockSleeps(p) \/ LockFails(p)
    <2>1. UNCHANGED <<hdr, hbuf, rev>> /\ pc'[p] \in {"idle", "lock"} /\ pc[p] \in {"idle", "lock"}
      BY <1>1 DEF Called, LockSleeps, LockFails, Enter, Leave
    <2>2. QED
      BY <2>1 DEF Own, Inside, Unread
  <1>2. CASE \E next \in {"header", "look"} : LockTaken(p, next)
    <2>1. UNCHANGED <<hdr, hbuf, rev>> /\ pc'[p] \in {"header", "look"} /\ pc[p] = "lock"
      BY <1>2 DEF LockTaken, Enter
    <2>2. owner'[Header] = p
      BY <1>0, <1>2 DEF LockTaken, Granted, CallTypeOK, LockTypeOK
    <2>3. QED
      BY <2>1, <2>2 DEF Own, Inside, Unread
  <1>3. CASE \E next : Working(next) /\ ReadHeader(p, next)
    <2>1. /\ UNCHANGED <<hdr, owner, rev>> /\ Working(pc'[p]) /\ pc[p] = "header"
          /\ hbuf'[p] = hdr
      BY <1>3 DEF ReadHeader, Enter, CallTypeOK
    <2>2. QED
      BY <2>1 DEF Own, Inside, Unread, Working
  <1>4. CASE \/ \E from, to : /\ Working(from) /\ (Working(to) \/ to = "wheader")
                              /\ Work(p, from, to)
             \/ Work(p, "look", "unlock")
    <2>1. /\ UNCHANGED <<hdr, owner, hbuf, rev>>
          /\ \/ Working(pc[p]) /\ (Working(pc'[p]) \/ pc'[p] = "wheader")
             \/ pc[p] = "look" /\ pc'[p] = "unlock"
      BY <1>4 DEF Work, Enter
    <2>2. QED
      BY <2>1 DEF Own, Inside, Unread, Working
  <1>5. CASE \E from : \E delta \in Int : Working(from) /\ Counted(p, from, delta)
    <2>0. PICK from : \E delta \in Int : Working(from) /\ Counted(p, from, delta)
      BY <1>5
    <2>1. PICK delta \in Int : Working(from) /\ Counted(p, from, delta)
      BY <2>0
    <2>2. /\ UNCHANGED <<hdr, owner>> /\ Working(pc[p]) /\ pc'[p] = "wheader"
          /\ hbuf'[p] = [mod |-> hbuf[p].mod + 1, active |-> hbuf[p].active + delta]
          /\ rev'[p] = hbuf[p].mod + 1
      BY <2>1 DEF Counted, Enter, CallTypeOK
    <2>3. hbuf'[p].mod = hbuf[p].mod + 1
      BY <2>2, CountedHeader DEF CallTypeOK
    <2>4. hbuf[p] = hdr /\ owner[Header] = p
      BY <2>2 DEF Own, Working, Inside, Unread
    <2>5. QED
      BY <2>2, <2>3, <2>4 DEF Own, Inside
  <1>6. CASE WriteHeader(p)
    <2>1. /\ hdr' = hbuf[p] /\ UNCHANGED <<owner, hbuf, rev>>
          /\ pc[p] = "wheader" /\ pc'[p] = "unlock"
      BY <1>6 DEF WriteHeader, Enter
    <2>2. QED
      BY <1>0, <2>1 DEF Own, Inside, Unread
  <1>7. CASE Unlock(p) \/ \E from : Working(from) /\ ReturnError(p, from)
    <2>1. UNCHANGED <<hdr, rev>> /\ pc'[p] = "idle" /\ pc[p] # "wheader"
      BY <1>7 DEF Unlock, ReturnError, Leave, Enter, Working
    <2>2. QED
      BY <2>1 DEF Own, Inside, Unread
  <1>8. CASE Restarted(p)
    <2>1. hdr' = hdr /\ pc'[p] = "idle" /\ rev'[p] = 0
      BY <1>8 DEF Restarted, Leave, Enter, CallTypeOK
    <2>2. QED
      BY <1>0, <2>1 DEF Own, Inside, Unread
  <1>9. QED
    BY <1>1, <1>2, <1>3, <1>4, <1>5, <1>6, <1>7, <1>8 DEF Skeleton

(***************************************************************************)
(* A revision that an object gets is ahead of the header, and so of every  *)
(* other object's.                                                         *)
(***************************************************************************)
LEMMA SkeletonApart ==
  ASSUME NEW S, NEW T, pc \in [Procs -> S], op \in [Procs -> T], CallTypeOK,
         NEW p \in Procs, Skeleton(p), \A q \in Procs : Own(q), Apart
  PROVE  Apart'
  <1>1. \A q \in Procs \ {p} : rev'[q] = rev[q]
    BY SkeletonOthers
  <1>2. CASE rev'[p] \in {0, rev[p]}
    BY <1>1, <1>2 DEF Apart
  <1>3. CASE \E from : \E delta \in Int : Working(from) /\ Counted(p, from, delta)
    <2>1. Working(pc[p]) /\ rev'[p] = hbuf[p].mod + 1
      BY <1>3 DEF Counted, CallTypeOK
    <2>2. hbuf[p] = hdr /\ owner[Header] = p
      BY <2>1 DEF Own, Working, Inside, Unread
    <2>3. hdr.mod \in Nat /\ \A q \in Procs : rev[q] \in Nat
      BY HeaderFields DEF CallTypeOK
    <2>4. \A q \in Procs \ {p} : rev[q] <= hdr.mod
      BY <2>2 DEF Own, Inside
    <2>5. \A q \in Procs \ {p} : rev'[q] # rev'[p]
      BY <1>1, <2>1, <2>2, <2>3, <2>4
    <2>6. QED
      BY <1>1, <2>5 DEF Apart
  <1>4. rev'[p] \in {0, rev[p]} \/ \E from : \E delta \in Int : Working(from) /\ Counted(p, from, delta)
    BY DEF Skeleton, Called, LockTaken, LockSleeps, LockFails, ReadHeader, Work,
           WriteHeader, Unlock, ReturnError, Restarted, CallTypeOK
  <1>5. QED
    BY <1>2, <1>3, <1>4

(***************************************************************************)
(* Every step of a call keeps the types and the invariant.                 *)
(***************************************************************************)
LEMMA SkeletonInv ==
  ASSUME NEW S, NEW T, pc \in [Procs -> S], op \in [Procs -> T], CallTypeOK, CallInv,
         NEW p \in Procs, Skeleton(p)
  PROVE  CallTypeOK' /\ CallInv'
  <1>1. CallTypeOK'
    BY SkeletonType
  <1>2. (\A q \in Procs : Own(q)) /\ Apart
    BY CallInvParts
  <1>3. ASSUME NEW q \in Procs PROVE Own(q)'
    BY <1>2, SkeletonOwn, SkeletonOwnOthers
  <1>4. Apart'
    BY <1>2, SkeletonApart
  <1>5. (CallInv <=> (\A q \in Procs : Own(q)) /\ Apart)'
    BY CallInvParts, PTL
  <1>6. QED
    BY <1>1, <1>3, <1>4, <1>5

(***************************************************************************)
(* The invariant is strong enough: one process at a time is past the lock  *)
(* with a header that is still true, and a revision belongs to one object. *)
(***************************************************************************)
LEMMA CallInvEnough ==
  ASSUME CallTypeOK, CallInv
  PROVE  Exclusive /\ RevisionInv
  <1>1. hdr.mod \in Nat /\ \A p \in Procs : hbuf[p].mod \in Nat /\ rev[p] \in Nat
    BY HeaderFields DEF CallTypeOK
  <1>2. Exclusive
    <2>1. ASSUME NEW p \in Procs, pc[p] = "wheader"
          PROVE  hbuf[p].mod - hdr.mod \in {0, 1}
      <3>1. hbuf[p].mod = hdr.mod \/ hbuf[p].mod = hdr.mod + 1
        BY <2>1 DEF CallInv
      <3>2. QED
        BY <1>1, <3>1
    <2>2. QED
      BY <2>1 DEF CallInv, Exclusive
  <1>3. RevisionInv
    <2>1. ASSUME NEW p \in Procs
          PROVE  rev[p] <= IF Inside(p) THEN hdr.mod + 1 ELSE hdr.mod
      <3>1. CASE pc[p] = "wheader"
        BY <1>1, <3>1 DEF CallInv, Inside
      <3>2. CASE pc[p] # "wheader"
        BY <1>1, <3>2 DEF CallInv, Inside
      <3>3. QED
        BY <3>1, <3>2
    <2>2. QED
      BY <2>1 DEF RevisionInv, CallInv
  <1>4. QED
    BY <1>2, <1>3

-----------------------------------------------------------------------------

\* Where the calls are.
Placed ==
    /\ pc \in [Procs -> Stages]
    /\ op \in [Procs -> {"none", "add", "get", "put", "del"}]

(***************************************************************************)
(* Each action is a step of the skeleton.                                  *)
(***************************************************************************)
LEMMA MessagesSkeleton ==
  ASSUME NEW p \in Procs, NewCall(p) \/ Step(p) \/ Restart(p)
  PROVE  Skeleton(p)
  <1>0. \A stage \in Stages \ {"idle", "lock", "header", "unlock", "wheader"} : Working(stage)
    BY DEF Stages, Working, Unread
  <1>1. CASE NewCall(p)
    BY <1>1 DEF NewCall, CallAdd, CallGet, CallDel, CallPut, Skeleton
  <1>2. CASE Restart(p)
    BY <1>2 DEF Restart, Skeleton
  <1>3. CASE Locked(p) \/ LockSleeps(p) \/ LockFails(p) \/ WriteHeader(p) \/ Unlock(p)
    BY <1>3 DEF Locked, Skeleton
  <1>4. CASE HeaderRead(p)
    BY <1>0, <1>4 DEF HeaderRead, Skeleton, Stages
  <1>5. CASE FindFails(p)
    BY <1>0, <1>5 DEF FindFails, Skeleton, Stages
  <1>6. CASE \/ FindGet(p) \/ FindChange(p) \/ Mark(p) \/ Erase(p) \/ AppendText(p)
             \/ AppendHead(p) \/ AppendFields(p) \/ InPlace(p) \/ InPlaceFields(p)
    <2>1. \E from, to : /\ Working(from) /\ (Working(to) \/ to = "wheader")
                        /\ Work(p, from, to)
      BY <1>0, <1>6 DEF FindGet, FindChange, Mark, Erase, AppendText, AppendHead,
                        AppendFields, InPlace, InPlaceFields, Stages
    <2>2. QED
      BY <2>1 DEF Skeleton
  <1>7. CASE Unindex(p) \/ AppendIndex(p) \/ Reindex(p)
    <2>1. \E from : \E delta \in Int : Working(from) /\ Counted(p, from, delta)
      BY <1>0, <1>7 DEF Unindex, AppendIndex, Reindex, Stages
    <2>2. QED
      BY <2>1 DEF Skeleton
  <1>8. QED
    BY <1>1, <1>2, <1>3, <1>4, <1>5, <1>6, <1>7 DEF Step

\* A call goes from stage to stage.
LEMMA PlacedKept ==
  ASSUME Placed, NEW p \in Procs, NewCall(p) \/ Step(p) \/ Restart(p)
  PROVE  Placed'
  <1> USE DEF Placed, Stages, Enter, Leave
  <1>1. CASE NewCall(p) \/ Restart(p)
    BY <1>1 DEF NewCall, CallAdd, CallGet, CallDel, CallPut, Called, Restart, Restarted
  <1>2. CASE \/ Locked(p) \/ HeaderRead(p) \/ LockSleeps(p) \/ LockFails(p)
             \/ FindFails(p) \/ WriteHeader(p) \/ Unlock(p)
    BY <1>2 DEF Locked, LockTaken, HeaderRead, ReadHeader, LockSleeps, LockFails,
                FindFails, ReturnError, WriteHeader, Unlock
  <1>3. CASE \/ FindGet(p) \/ FindChange(p) \/ Mark(p) \/ Erase(p) \/ AppendText(p)
             \/ AppendHead(p) \/ AppendFields(p) \/ InPlace(p) \/ InPlaceFields(p)
    BY <1>3 DEF FindGet, FindChange, Mark, Erase, AppendText, AppendHead,
                AppendFields, InPlace, InPlaceFields, Work
  <1>4. CASE Unindex(p) \/ AppendIndex(p) \/ Reindex(p)
    BY <1>4 DEF Unindex, AppendIndex, Reindex, Counted
  <1>5. QED
    BY <1>1, <1>2, <1>3, <1>4 DEF Step

-----------------------------------------------------------------------------
(***************************************************************************)
(* Messages, and the places in the .jhr file.                              *)
(***************************************************************************)
Slot == [head : Message, room : Nat]

\* The fields of a message have their types.
LEMMA MessageFields ==
  /\ NoMsg \in Message
  /\ \A m \in Message : /\ m.num \in Nat /\ m.text \in Nat /\ m.long \in BOOLEAN
                        /\ m.deleted \in BOOLEAN /\ m.size \in Nat /\ m.times \in Nat
  BY DEF Message, NoMsg

\* The message of a caller who adds, with subfields of some length.
LEMMA EditSize ==
  ASSUME NEW m \in Message, NEW s \in Nat
  PROVE  /\ [m EXCEPT !.size = s] \in Message
         /\ [m EXCEPT !.size = s].size = s
  BY DEF Message

\* The old message when it is marked: FindChange.
LEMMA EditOld ==
  ASSUME NEW m \in Message
  PROVE  /\ [m EXCEPT !.long = FALSE, !.deleted = TRUE] \in Message
         /\ [m EXCEPT !.long = FALSE, !.deleted = TRUE].num = m.num
         /\ [m EXCEPT !.long = FALSE, !.deleted = TRUE].text = m.text
         /\ [m EXCEPT !.long = FALSE, !.deleted = TRUE].size = m.size
         /\ [m EXCEPT !.long = FALSE, !.deleted = TRUE].long = FALSE
  <1>1. [m EXCEPT !.long = FALSE] \in Message
    BY DEF Message
  <1>2. \A q \in Message : [q EXCEPT !.deleted = TRUE] \in Message
    BY DEF Message
  <1>3. [m EXCEPT !.long = FALSE, !.deleted = TRUE] \in Message
    BY <1>1, <1>2
  <1>4. QED
    BY <1>3 DEF Message

\* The copy that is put back: CallPut.
LEMMA EditPut ==
  ASSUME NEW m \in Message, NEW s \in Nat
  PROVE  /\ [m EXCEPT !.times = @ + 1, !.size = s] \in Message
         /\ [m EXCEPT !.times = @ + 1, !.size = s].num = m.num
         /\ [m EXCEPT !.times = @ + 1, !.size = s].text = m.text
         /\ [m EXCEPT !.times = @ + 1, !.size = s].long = m.long
         /\ [m EXCEPT !.times = @ + 1, !.size = s].size = s
  <1>1. [m EXCEPT !.times = @ + 1] \in Message
    BY DEF Message
  <1>2. \A q \in Message : [q EXCEPT !.size = s] \in Message
    BY DEF Message
  <1>3. [m EXCEPT !.times = @ + 1, !.size = s] \in Message
    BY <1>1, <1>2
  <1>4. QED
    BY <1>3 DEF Message

\* The values of a new message: AppendText.
LEMMA EditAdd ==
  ASSUME NEW m \in Message, NEW t \in Nat, NEW n \in Nat
  PROVE  /\ [m EXCEPT !.text = t, !.long = TRUE, !.num = n] \in Message
         /\ [m EXCEPT !.text = t, !.long = TRUE, !.num = n].num = n
         /\ [m EXCEPT !.text = t, !.long = TRUE, !.num = n].text = t
         /\ [m EXCEPT !.text = t, !.long = TRUE, !.num = n].long = TRUE
         /\ [m EXCEPT !.text = t, !.long = TRUE, !.num = n].size = m.size
  <1>1. [m EXCEPT !.text = t] \in Message
    BY DEF Message
  <1>2. \A q \in Message : [q EXCEPT !.long = TRUE] \in Message
    BY DEF Message
  <1>3. \A q \in Message : [q EXCEPT !.num = n] \in Message
    BY DEF Message
  <1>4. [m EXCEPT !.text = t, !.long = TRUE, !.num = n] \in Message
    BY <1>1, <1>2, <1>3
  <1>5. QED
    BY <1>4 DEF Message

\* The copy after the merge with what is on disk: Normalized.
LEMMA EditMerged ==
  ASSUME NEW m \in Message, NEW f \in Message
  PROVE  LET q == [m EXCEPT !.times = IF f.times > @ THEN f.times ELSE @,
                            !.deleted = f.deleted] IN
         /\ q \in Message /\ q.num = m.num /\ q.text = m.text /\ q.size = m.size
         /\ q.long = m.long
  <1>0. f.times \in Nat /\ f.deleted \in BOOLEAN
    BY MessageFields
  <1>1. [m EXCEPT !.times = IF f.times > @ THEN f.times ELSE @] \in Message
    BY <1>0 DEF Message
  <1>2. \A q \in Message : [q EXCEPT !.deleted = f.deleted] \in Message
    BY <1>0 DEF Message
  <1>3. [m EXCEPT !.times = IF f.times > @ THEN f.times ELSE @, !.deleted = f.deleted] \in Message
    BY <1>1, <1>2
  <1>5. QED
    BY <1>3 DEF Message

\* A merge leaves the number, the text, its length and the subfields alone.
LEMMA NormalizedMessage ==
  ASSUME NEW p \in Procs, NEW m \in Message, Found(p) \in Message
  PROVE  /\ Normalized(p, m) \in Message
         /\ Normalized(p, m).num = m.num
         /\ Normalized(p, m).text = m.text
         /\ Normalized(p, m).size = m.size
         /\ Normalized(p, m).long = m.long
  <1>1. CASE Newer(p)
    BY <1>1, EditMerged DEF Normalized
  <1>2. CASE ~ Newer(p)
    BY <1>2 DEF Normalized
  <1>3. QED
    BY <1>1, <1>2

\* A place with another message or with other room is a place.
LEMMA SlotFields ==
  ASSUME NEW t \in Slot
  PROVE  /\ t.head \in Message /\ t.room \in Nat
         /\ \A m \in Message : /\ [t EXCEPT !.head = m] \in Slot
                               /\ [t EXCEPT !.head = m].head = m
                               /\ [t EXCEPT !.head = m].room = t.room
         /\ \A r \in Nat : /\ [t EXCEPT !.room = r] \in Slot
                            /\ [t EXCEPT !.room = r].room = r
                            /\ [t EXCEPT !.room = r].head = t.head
  BY DEF Slot

\* One place is replaced.
LEMMA SlotSet ==
  ASSUME NEW s \in Seq(Slot), NEW i \in 1 .. Len(s), NEW t \in Slot
  PROVE  /\ [s EXCEPT ![i] = t] \in Seq(Slot)
         /\ Len([s EXCEPT ![i] = t]) = Len(s)
         /\ \A k \in 1 .. Len(s) : [s EXCEPT ![i] = t][k] = IF k = i THEN t ELSE s[k]
  BY ExceptSeq

\* A message is written over another one: Mark and InPlace.
LEMMA SlotHead ==
  ASSUME NEW s \in Seq(Slot), NEW i \in 1 .. Len(s), NEW m \in Message
  PROVE  /\ [s EXCEPT ![i].head = m] \in Seq(Slot)
         /\ Len([s EXCEPT ![i].head = m]) = Len(s)
         /\ \A k \in 1 .. Len(s) :
               /\ [s EXCEPT ![i].head = m][k].head = IF k = i THEN m ELSE s[k].head
               /\ [s EXCEPT ![i].head = m][k].room = s[k].room
  <1>1. s[i] \in Slot
    OBVIOUS
  <1>2. PICK t \in Slot : t = [s[i] EXCEPT !.head = m] /\ t.head = m /\ t.room = s[i].room
    BY <1>1, SlotFields
  <1>3. [s EXCEPT ![i].head = m] = [s EXCEPT ![i] = t]
    BY <1>2
  <1>4. QED
    BY <1>2, <1>3, SlotSet

\* The subfields are written behind the last message: AppendFields.
LEMMA SlotRoom ==
  ASSUME NEW s \in Seq(Slot), NEW i \in 1 .. Len(s), NEW r \in Nat
  PROVE  /\ [s EXCEPT ![i].room = r] \in Seq(Slot)
         /\ Len([s EXCEPT ![i].room = r]) = Len(s)
         /\ \A k \in 1 .. Len(s) :
               /\ [s EXCEPT ![i].room = r][k].room = IF k = i THEN r ELSE s[k].room
               /\ [s EXCEPT ![i].room = r][k].head = s[k].head
  <1>1. s[i] \in Slot
    OBVIOUS
  <1>2. PICK t \in Slot : t = [s[i] EXCEPT !.room = r] /\ t.room = r /\ t.head = s[i].head
    BY <1>1, SlotFields
  <1>3. [s EXCEPT ![i].room = r] = [s EXCEPT ![i] = t]
    BY <1>2
  <1>4. QED
    BY <1>2, <1>3, SlotSet

\* A message comes at the end, without its subfields: AppendHead.
LEMMA SlotNew ==
  ASSUME NEW s \in Seq(Slot), NEW m \in Message
  PROVE  LET a == Append(s, [head |-> m, room |-> 0]) IN
         /\ a \in Seq(Slot)
         /\ Len(a) = Len(s) + 1
         /\ a[Len(s) + 1].head = m
         /\ \A k \in 1 .. Len(s) : a[k] = s[k]
  BY DEF Slot

-----------------------------------------------------------------------------
(***************************************************************************)
(* The files, and what a step may do to them.                              *)
(***************************************************************************)
\* The types of the files and of the callers' variables.
FilesTyped ==
    /\ msgs \in Seq(Slot)
    /\ texts \in Seq(Texts)
    /\ index \in Seq(Nat)

LocalsTyped ==
    /\ arg \in [Procs -> Nat] /\ at \in [Procs -> Nat] /\ have \in [Procs -> Nat]
    /\ body \in [Procs -> Texts \cup {Erased}]
    /\ old \in [Procs -> Message]
    /\ new \in [Procs -> Message]
    /\ msg \in [Procs -> Message]
    /\ lost \in BOOLEAN
    /\ spoilt \subseteq Nat

\* The type invariant, and that no text is overwritten, in four parts.
LEMMA TypeParts ==
  TypeOK /\ texts \in Seq(Texts) <=> CallTypeOK /\ Placed /\ FilesTyped /\ LocalsTyped
  <1>1. texts \in Seq(Texts) => texts \in Seq(Texts \cup {Erased})
    <2>1. ASSUME texts \in Seq(Texts) PROVE texts \in [1 .. Len(texts) -> Texts] /\ Len(texts) \in Nat
      BY <2>1
    <2>2. ASSUME texts \in Seq(Texts) PROVE texts \in [1 .. Len(texts) -> Texts \cup {Erased}]
      BY <2>1, <2>2
    <2>3. QED
      BY <2>1, <2>2, SeqDef
  <1>2. QED
    BY <1>1 DEF TypeOK, Placed, FilesTyped, LocalsTyped, Slot

\* What a step may do to the files, as the other callers see it.
Keeps ==
    /\ Len(index) <= Len(index')
    /\ \A n \in 1 .. Len(index) : Live(n)' => Live(n) /\ Says(n)' = Says(n)

FilesSame == UNCHANGED <<msgs, texts, index>>

\* A step that leaves the files alone takes nothing back.
LEMMA SameKeeps ==
  ASSUME FilesTyped, FilesSame PROVE Keeps
  BY DEF FilesTyped, FilesSame, Keeps, Live, Says

\* A step that leaves the files alone keeps them sound.
LEMMA SameSound ==
  ASSUME FilesTyped, IndexSound, FilesSame PROVE FilesTyped' /\ IndexSound'
  BY DEF FilesTyped, FilesSame, IndexSound, Live, Complete

\* A step that leaves the index alone keeps it sound, when the messages it points
\* to keep number and text and their subfields go on fitting.
LEMMA Rewritten ==
  ASSUME FilesTyped, IndexSound, FilesTyped', index' = index,
         Len(msgs) <= Len(msgs'), Len(texts) <= Len(texts'),
         \A k \in 1 .. Len(msgs) :
            (\E n \in 1 .. Len(index) : Live(n) /\ index[n] = k) =>
            /\ msgs'[k].head.num = msgs[k].head.num
            /\ msgs'[k].head.text = msgs[k].head.text
            /\ msgs[k].head.size <= msgs[k].room => msgs'[k].head.size <= msgs'[k].room
  PROVE  IndexSound' /\ Keeps
  <1>1. \A n \in 1 .. Len(index) : Live(n)' <=> Live(n)
    BY DEF Live
  <1>2. \A n \in 1 .. Len(index) : Live(n) =>
           /\ index[n] \in 1 .. Len(msgs)
           /\ msgs'[index[n]].head.num = msgs[index[n]].head.num
           /\ msgs'[index[n]].head.text = msgs[index[n]].head.text
           /\ msgs[index[n]].head.size <= msgs[index[n]].room =>
                 msgs'[index[n]].head.size <= msgs'[index[n]].room
    BY DEF IndexSound, Complete
  <1>3. ASSUME NEW n \in 1 .. Len(index), Live(n) PROVE Complete(n)'
    <2>1. Complete(n)
      BY <1>3 DEF IndexSound
    <2>2. Len(msgs) \in Nat /\ Len(msgs') \in Nat /\ Len(texts) \in Nat /\ Len(texts') \in Nat
      BY DEF FilesTyped
    <2>3. QED
      BY <1>2, <1>3, <2>1, <2>2 DEF Complete
  <1>4. IndexSound'
    BY <1>1, <1>2, <1>3 DEF IndexSound
  <1>5. Keeps
    BY <1>1, <1>2 DEF Keeps, Says, FilesTyped
  <1>6. QED
    BY <1>4, <1>5

\* A call that is not at the files knows what it knew.
LEMMA OthersKnow ==
  ASSUME NEW q \in Procs, KnownTo(q), FilesTyped,
         pc'[q] = pc[q], op'[q] = op[q],
         arg'[q] = arg[q], body'[q] = body[q], old'[q] = old[q], new'[q] = new[q],
         at'[q] = at[q], msg'[q] = msg[q], have'[q] = have[q],
         FilesSame \/ (Keeps /\ ~ Inside(q))
  PROVE  KnownTo(q)'
  <1>1. CASE FilesSame
    BY <1>1 DEF FilesSame, KnownTo, OnRoute, Asked, Copied, Numbered, Changed, Appended,
                Live, Says, Found, Written
  <1>2. CASE Keeps /\ ~ Inside(q)
    <2>1. Len(index) \in Nat /\ 1 .. Len(index) \subseteq 1 .. Len(index')
      BY <1>2 DEF FilesTyped, Keeps
    <2>2. OnRoute(q)' /\ Asked(q)'
      BY <2>1 DEF KnownTo, OnRoute, Asked
    <2>3. Copied(q)'
      BY <1>2, <2>1 DEF KnownTo, Copied, Keeps
    <2>4. Numbered(q)' /\ Changed(q)' /\ Appended(q)'
      BY <1>2 DEF Inside, Numbered, Changed, Appended
    <2>5. QED
      BY <2>2, <2>3, <2>4 DEF KnownTo
  <1>3. QED
    BY <1>1, <1>2

FitsOf(q) == pc[q] \in {"inplace", "refields"} => msg[q].size <= msgs[index[arg[q]]].room

\* The same of a message that is written over the old one.
LEMMA OthersFit ==
  ASSUME NEW q \in Procs, FitsOf(q), pc'[q] = pc[q], arg'[q] = arg[q], msg'[q] = msg[q],
         FilesSame \/ (Keeps /\ ~ Inside(q))
  PROVE  FitsOf(q)'
  BY DEF FilesSame, FitsOf, Inside

-----------------------------------------------------------------------------
(***************************************************************************)
(* What the process that makes a step does to the files and knows after it. *)
(***************************************************************************)
Ready(p) ==
    /\ CallTypeOK /\ Placed /\ FilesTyped /\ LocalsTyped
    /\ IndexSound /\ KnownTo(p) /\ FitsOf(p)

Stepped(p) ==
    /\ FilesTyped' /\ LocalsTyped' /\ IndexSound'
    /\ KnownTo(p)' /\ FitsOf(p)'
    /\ FilesSame \/ (Keeps /\ Inside(p))

\* Early and late in a call there is little to know.
LEMMA Outside ==
  ASSUME NEW p \in Procs, pc'[p] \in {"idle", "lock", "header", "find", "text", "wheader", "unlock"},
         OnRoute(p)', Asked(p)', Copied(p)'
  PROVE  KnownTo(p)' /\ FitsOf(p)'
  BY DEF KnownTo, Numbered, Changed, Appended, FitsOf

\* The beginning of a call.
LEMMA CallSteps ==
  ASSUME NEW p \in Procs, Ready(p), NewCall(p)
  PROVE  Stepped(p)
  <1> USE DEF Ready
  <1>0. NewSizes \subseteq Nat /\ Sizes \subseteq Nat
    BY MessagesAssumption DEF MessagesAssumption
  <1>1. CASE \E t \in Texts, s \in NewSizes : CallAdd(p, t, s)
    <2>1. PICK t \in Texts, s \in NewSizes : CallAdd(p, t, s)
      BY <1>1
    <2>2. [NoMsg EXCEPT !.size = s] \in Message
      BY <1>0, MessageFields, EditSize
    <2>3. /\ FilesSame /\ UNCHANGED <<arg, old, at, msg, have, lost, spoilt>>
          /\ body' = [body EXCEPT ![p] = t]
          /\ new' = [new EXCEPT ![p] = [NoMsg EXCEPT !.size = s]]
          /\ pc'[p] = "lock" /\ op'[p] = "add"
      BY <2>1 DEF CallAdd, Called, FilesSame, Enter, Placed
    <2>4. LocalsTyped'
      BY <2>2, <2>3 DEF LocalsTyped
    <2>5. OnRoute(p)' /\ Asked(p)' /\ Copied(p)'
      BY <2>3 DEF OnRoute, Asked, KnownTo, Copied, FilesSame, LocalsTyped, Live, Says
    <2>6. QED
      BY <2>3, <2>4, <2>5, Outside, SameSound DEF Stepped
  <1>2. CASE \E n \in 1 .. Len(index) : CallGet(p, n) \/ CallDel(p, n)
    <2>1. PICK n \in 1 .. Len(index) : CallGet(p, n) \/ CallDel(p, n)
      BY <1>2
    <2>2. /\ FilesSame /\ UNCHANGED <<body, old, new, at, msg, have, lost, spoilt>>
          /\ arg' = [arg EXCEPT ![p] = n]
          /\ pc'[p] = "lock" /\ op'[p] \in {"get", "del"}
      BY <2>1 DEF CallGet, CallDel, Called, FilesSame, Enter, Placed
    <2>3. n \in Nat /\ LocalsTyped'
      BY <2>2 DEF LocalsTyped, FilesTyped
    <2>4. OnRoute(p)' /\ Asked(p)' /\ Copied(p)'
      BY <2>2 DEF OnRoute, Asked, KnownTo, Copied, FilesSame, LocalsTyped, Live, Says
    <2>5. QED
      BY <2>2, <2>3, <2>4, Outside, SameSound DEF Stepped
  <1>3. CASE \E s \in Sizes : CallPut(p, s)
    <2>1. PICK s \in Sizes : CallPut(p, s)
      BY <1>3
    <2>2. PICK m \in Message : /\ m = [msg[p] EXCEPT !.times = @ + 1, !.size = s]
                               /\ m.num = msg[p].num /\ m.text = msg[p].text
      BY <1>0, EditPut DEF LocalsTyped
    <2>3. /\ FilesSame /\ UNCHANGED <<body, old, new, at, have, lost, spoilt>>
          /\ have[p] # 0 /\ arg' = [arg EXCEPT ![p] = have[p]]
          /\ msg' = [msg EXCEPT ![p] = [msg[p] EXCEPT !.times = @ + 1, !.size = s]]
          /\ pc'[p] = "lock" /\ op'[p] = "put"
      BY <2>1 DEF CallPut, Called, FilesSame, Enter, Placed
    <2>4. msg' = [msg EXCEPT ![p] = m]
      BY <2>2, <2>3
    <2>5. LocalsTyped'
      BY <2>3, <2>4 DEF LocalsTyped
    <2>6. OnRoute(p)' /\ Asked(p)' /\ Copied(p)'
      BY <2>2, <2>3, <2>4 DEF OnRoute, Asked, KnownTo, Copied, FilesSame, LocalsTyped, Live, Says
    <2>7. QED
      BY <2>3, <2>5, <2>6, Outside, SameSound DEF Stepped
  <1>4. QED
    BY <1>1, <1>2, <1>3 DEF NewCall

\* The lock, the header, and the end of a put in place.
LEMMA QuietSteps ==
  ASSUME NEW p \in Procs, Ready(p),
         \/ Locked(p) \/ HeaderRead(p)
         \/ (LockSleeps(p) \/ WriteHeader(p)) /\ UNCHANGED jamVars
         \/ InPlaceFields(p)
  PROVE  Stepped(p)
  <1> USE DEF Ready
  <1>1. UNCHANGED jamVars
    BY DEF Locked, HeaderRead, InPlaceFields
  <1>2. FilesSame /\ FilesTyped' /\ IndexSound'
    BY <1>1, SameSound DEF jamVars, FilesSame
  <1>3. LocalsTyped' /\ Asked(p)' /\ Copied(p)'
    <2>1. UNCHANGED op
      BY DEF Locked, LockTaken, HeaderRead, ReadHeader, LockSleeps, WriteHeader, InPlaceFields, Work
    <2>2. QED
      BY <1>1, <2>1 DEF jamVars, LocalsTyped, KnownTo, Asked, Copied, Live, Says
  <1>4. /\ OnRoute(p)'
        /\ pc'[p] \in {"lock", "header", "find", "text", "wheader", "unlock"}
    BY DEF Locked, LockTaken, HeaderRead, ReadHeader, LockSleeps, WriteHeader, InPlaceFields,
           Work, Enter, Placed, KnownTo, OnRoute
  <1>5. QED
    BY <1>2, <1>3, <1>4, Outside DEF Stepped

\* The call is over.
LEMMA ReturnSteps ==
  ASSUME NEW p \in Procs, Ready(p),
         FindFails(p) \/ ((LockFails(p) \/ Unlock(p)) /\ Return(p))
  PROVE  Stepped(p)
  <1> USE DEF Ready
  <1>1. Return(p) /\ pc'[p] = "idle" /\ op'[p] = "none"
    BY DEF FindFails, ReturnError, LockFails, Unlock, Leave, Enter, Placed
  <1>2. FilesSame /\ FilesTyped' /\ IndexSound'
    BY <1>1, SameSound DEF Return, FilesSame
  <1>3. LocalsTyped'
    BY <1>1, MessageFields DEF Return, LocalsTyped
  <1>4. OnRoute(p)' /\ Asked(p)' /\ Copied(p)'
    BY <1>1 DEF OnRoute, Asked, KnownTo, Copied, Return, Live, Says
  <1>5. QED
    BY <1>1, <1>2, <1>3, <1>4, Outside DEF Stepped

\* A process that dies, or closes the base.
LEMMA RestartSteps ==
  ASSUME NEW p \in Procs, Ready(p), Restart(p)
  PROVE  Stepped(p)
  <1> USE DEF Ready
  <1>1. pc'[p] = "idle" /\ op'[p] = "none" /\ have'[p] = 0
    BY DEF Restart, Restarted, Leave, Enter, Placed, LocalsTyped
  <1>2. FilesSame /\ FilesTyped' /\ IndexSound'
    BY SameSound DEF Restart, FilesSame
  <1>3. LocalsTyped'
    BY MessageFields DEF Restart, LocalsTyped
  <1>4. OnRoute(p)' /\ Asked(p)' /\ Copied(p)'
    BY <1>1 DEF OnRoute, Asked, Copied
  <1>5. QED
    BY <1>1, <1>2, <1>3, <1>4, Outside DEF Stepped

\* The message that a call is about, when it is not gone.
LEMMA FoundThere ==
  ASSUME NEW p \in Procs, Ready(p), arg[p] \in 1 .. Len(index), index[arg[p]] # NoOffset
  PROVE  /\ Live(arg[p]) /\ index[arg[p]] \in 1 .. Len(msgs)
         /\ msgs[index[arg[p]]] \in Slot
         /\ Found(p) \in Message
         /\ Found(p).num = arg[p] - 1 + Base
         /\ Found(p).text = Says(arg[p])
         /\ Found(p).text \in 1 .. Len(texts)
         /\ Found(p).size <= msgs[index[arg[p]]].room
         /\ \A n \in 1 .. Len(index) : Live(n) /\ n # arg[p] => index[n] # index[arg[p]]
  <1> USE DEF Ready
  <1>1. Live(arg[p])
    BY DEF Live
  <1>2. Complete(arg[p])
    BY <1>1 DEF IndexSound
  <1>3. index[arg[p]] \in 1 .. Len(msgs) /\ msgs[index[arg[p]]] \in Slot
    BY <1>2 DEF Complete, FilesTyped
  <1>4. Found(p) \in Message
    BY <1>3, SlotFields DEF Found
  <1>5. \A n \in 1 .. Len(index) : Live(n) /\ n # arg[p] => index[n] # index[arg[p]]
    BY <1>1 DEF IndexSound
  <1>6. QED
    BY <1>1, <1>2, <1>3, <1>4, <1>5 DEF Complete, Found, Says

\* A get: the copy says what the record says.
LEMMA FindGetSteps ==
  ASSUME NEW p \in Procs, Ready(p), FindGet(p)
  PROVE  Stepped(p)
  <1> USE DEF Ready
  <1>1. /\ pc'[p] = "wheader" /\ op'[p] = "get" /\ op[p] = "get"
        /\ FilesSame /\ UNCHANGED <<arg, body, old, new, at, lost, spoilt>>
        /\ msg' = [msg EXCEPT ![p] = Found(p)]
        /\ have' = [have EXCEPT ![p] = arg[p]]
        /\ index[arg[p]] # NoOffset
    BY DEF FindGet, Work, Enter, Placed, FilesSame
  <1>2. arg[p] \in 1 .. Len(index)
    BY <1>1 DEF KnownTo, Asked
  <1>3. Found(p) \in Message
    BY <1>1, <1>2, FoundThere
  <1>4. LocalsTyped'
    BY <1>1, <1>3 DEF LocalsTyped
  <1>5. msg'[p] = Found(p) /\ have'[p] = arg[p]
    BY <1>1 DEF LocalsTyped
  <1>6. Copied(p)'
    BY <1>1, <1>2, <1>5, FoundThere DEF Copied, FilesSame, Live, Says
  <1>7. OnRoute(p)' /\ Asked(p)'
    BY <1>1, <1>2 DEF OnRoute, Asked, FilesSame
  <1>8. QED
    BY <1>1, <1>4, <1>6, <1>7, Outside, SameSound DEF Stepped

\* A put or a delete has found its message: the old one differs from it in the mark
\* only, and a put in place has not grown.
LEMMA FindChangeSteps ==
  ASSUME NEW p \in Procs, Ready(p), FindChange(p)
  PROVE  Stepped(p)
  <1> USE DEF Ready
  <1> DEFINE o == [Found(p) EXCEPT !.long = FALSE, !.deleted = TRUE]
  <1>1. /\ pc'[p] = IF op[p] = "put" /\ ~ Grown(p) THEN "inplace" ELSE "mark"
        /\ op[p] \in {"put", "del"} /\ op'[p] = op[p]
        /\ FilesSame /\ UNCHANGED <<arg, body, new, at, have, lost, spoilt>>
        /\ old' = [old EXCEPT ![p] = o]
        /\ msg' = IF op[p] = "put" THEN [msg EXCEPT ![p] = Normalized(p, msg[p])] ELSE msg
        /\ index[arg[p]] # NoOffset
    BY DEF FindChange, Work, Enter, Placed, FilesSame
  <1>2. arg[p] \in 1 .. Len(index) /\ arg[p] \in Nat
    BY <1>1 DEF KnownTo, Asked, LocalsTyped
  <1>3. Found(p) \in Message
    BY <1>1, <1>2, FoundThere
  <1>4. o \in Message /\ o.num = Found(p).num /\ o.text = Found(p).text
        /\ o.size = Found(p).size /\ o.long = FALSE
    BY <1>3, EditOld
  <1> HIDE DEF o
  <1>5. msg[p] \in Message
    BY DEF LocalsTyped
  <1>6. msg' \in [Procs -> Message]
    BY <1>1, <1>3, <1>5, NormalizedMessage DEF LocalsTyped
  <1>7. LocalsTyped'
    BY <1>1, <1>4, <1>6 DEF LocalsTyped
  <1>8. /\ msg'[p].num = msg[p].num /\ msg'[p].text = msg[p].text
        /\ msg'[p].size = msg[p].size
    BY <1>1, <1>3, <1>5, NormalizedMessage DEF LocalsTyped
  <1>9. Found(p)' = Found(p) /\ Live(arg[p])' /\ msgs' = msgs /\ index' = index /\ arg' = arg
    BY <1>1, <1>2 DEF FilesSame, Found, Live
  <1>10. OnRoute(p)' /\ Asked(p)'
    BY <1>1, <1>2 DEF OnRoute, KnownTo, Asked, FilesSame
  <1>11. Copied(p)'
    BY <1>1, <1>8 DEF KnownTo, Copied, FilesSame, Live, Says
  <1>12. Changed(p)'
    BY <1>1, <1>4, <1>9 DEF Changed, LocalsTyped
  <1>13. Numbered(p)' /\ Appended(p)'
    BY <1>1 DEF Numbered, Appended
  <1>14. FitsOf(p)'
    <2>1. CASE op[p] = "put" /\ ~ Grown(p)
      <3>1. msg[p].size \in Nat /\ Found(p).size \in Nat /\ msgs[index[arg[p]]].room \in Nat
        BY <1>1, <1>2, <1>3, <1>5, FoundThere, MessageFields, SlotFields
      <3>2. msg[p].size <= Found(p).size
        BY <2>1, <3>1 DEF Grown
      <3>3. Found(p).size <= msgs[index[arg[p]]].room
        BY <1>1, <1>2, FoundThere
      <3>4. msg[p].size <= msgs[index[arg[p]]].room
        BY <3>1, <3>2, <3>3
      <3>5. QED
        BY <1>8, <1>9, <3>4 DEF FitsOf
    <2>2. CASE ~ (op[p] = "put" /\ ~ Grown(p))
      BY <1>1, <2>2 DEF FitsOf
    <2>3. QED
      BY <2>1, <2>2
  <1>15. QED
    BY <1>1, <1>7, <1>10, <1>11, <1>12, <1>13, <1>14, SameSound DEF Stepped, KnownTo

\* A message is written over itself, with its number and text.
LEMMA Overwritten ==
  ASSUME NEW p \in Procs, Ready(p), Live(arg[p]), NEW m \in Message,
         m.num = Found(p).num, m.text = Found(p).text,
         m.size <= msgs[index[arg[p]]].room,
         msgs' = [msgs EXCEPT ![index[arg[p]]].head = m],
         UNCHANGED <<texts, index>>
  PROVE  /\ FilesTyped' /\ IndexSound' /\ Keeps
         /\ msgs'[index[arg[p]]].head = m
         /\ msgs'[index[arg[p]]].room = msgs[index[arg[p]]].room
  <1> USE DEF Ready
  <1>1. index[arg[p]] \in 1 .. Len(msgs) /\ msgs \in Seq(Slot)
    BY FoundThere DEF Live, FilesTyped
  <1>2. /\ msgs' \in Seq(Slot) /\ Len(msgs') = Len(msgs)
        /\ \A k \in 1 .. Len(msgs) :
              /\ msgs'[k].head = IF k = index[arg[p]] THEN m ELSE msgs[k].head
              /\ msgs'[k].room = msgs[k].room
    BY <1>1, SlotHead
  <1>3. FilesTyped'
    BY <1>2 DEF FilesTyped
  <1>4. \A k \in 1 .. Len(msgs) :
            /\ msgs'[k].head.num = msgs[k].head.num
            /\ msgs'[k].head.text = msgs[k].head.text
            /\ msgs[k].head.size <= msgs[k].room => msgs'[k].head.size <= msgs'[k].room
    BY <1>2 DEF Found
  <1>5. Len(msgs) <= Len(msgs') /\ Len(texts) <= Len(texts')
    BY <1>2 DEF FilesTyped
  <1>6. IndexSound' /\ Keeps
    BY <1>3, <1>4, <1>5, Rewritten
  <1>7. QED
    BY <1>1, <1>2, <1>3, <1>6

\* The old message is marked where it is and stays whole.
LEMMA MarkSteps ==
  ASSUME NEW p \in Procs, Ready(p), Mark(p)
  PROVE  Stepped(p)
  <1> USE DEF Ready
  <1>1. /\ pc[p] = "mark" /\ pc'[p] = IF op[p] = "del" THEN "erase" ELSE "append"
        /\ op'[p] = op[p]
        /\ UNCHANGED <<texts, index, arg, body, old, new, at, msg, have, lost, spoilt>>
        /\ msgs' = [msgs EXCEPT ![index[arg[p]]].head = old[p]]
    BY DEF Mark, Work, Enter, Placed
  <1>2. /\ Live(arg[p]) /\ ~ old[p].long
        /\ old[p].num = Found(p).num /\ old[p].text = Found(p).text
        /\ old[p].size = Found(p).size
    BY <1>1 DEF KnownTo, Changed
  <1>3. Found(p).size <= msgs[index[arg[p]]].room /\ old[p] \in Message
    BY <1>2, FoundThere DEF Live, LocalsTyped
  <1>4. /\ FilesTyped' /\ IndexSound' /\ Keeps
        /\ msgs'[index[arg[p]]].head = old[p]
    BY <1>1, <1>2, <1>3, Overwritten
  <1>5. LocalsTyped'
    BY <1>1 DEF LocalsTyped
  <1>6. OnRoute(p)' /\ Asked(p)'
    BY <1>1 DEF OnRoute, Asked, KnownTo
  <1>7. Copied(p)'
    BY <1>1, <1>4 DEF Copied, KnownTo, Keeps
  <1>8. Changed(p)'
    BY <1>1, <1>2, <1>4 DEF Changed, Live, Found
  <1>9. Numbered(p)'
    BY <1>1 DEF Numbered, KnownTo, OnRoute
  <1>10. Appended(p)' /\ FitsOf(p)'
    BY <1>1 DEF Appended, FitsOf
  <1>11. Inside(p)
    BY <1>1 DEF Inside
  <1>12. QED
    BY <1>4, <1>5, <1>6, <1>7, <1>8, <1>9, <1>10, <1>11 DEF Stepped, KnownTo

\* The delete's "erase" overwrites nothing: the length it takes is 0.
LEMMA EraseSteps ==
  ASSUME NEW p \in Procs, Ready(p), Erase(p)
  PROVE  Stepped(p)
  <1> USE DEF Ready
  <1>1. /\ pc[p] = "erase" /\ pc'[p] = "unindex" /\ op'[p] = op[p]
        /\ UNCHANGED <<msgs, index, arg, body, old, new, at, msg, have, lost, spoilt>>
        /\ texts' = IF old[p].long THEN [texts EXCEPT ![old[p].text] = Erased] ELSE texts
    BY DEF Erase, Work, Enter, Placed
  <1>2. Live(arg[p]) /\ ~ old[p].long
    BY <1>1 DEF KnownTo, Changed
  <1>3. FilesSame
    BY <1>1, <1>2 DEF FilesSame
  <1>4. LocalsTyped'
    BY <1>1 DEF LocalsTyped
  <1>5. OnRoute(p)' /\ Asked(p)' /\ Copied(p)'
    BY <1>1, <1>3 DEF OnRoute, Asked, Copied, KnownTo, Live, Says
  <1>6. Changed(p)'
    BY <1>1, <1>2 DEF Changed, Live
  <1>7. Numbered(p)' /\ Appended(p)' /\ FitsOf(p)'
    BY <1>1 DEF Numbered, Appended, FitsOf
  <1>8. QED
    BY <1>3, <1>4, <1>5, <1>6, <1>7, SameSound DEF Stepped, KnownTo

\* A put over the old message writes the same number and text and fits.
LEMMA InPlaceSteps ==
  ASSUME NEW p \in Procs, Ready(p), InPlace(p)
  PROVE  Stepped(p)
  <1> USE DEF Ready
  <1>1. /\ pc[p] = "inplace" /\ pc'[p] = "refields" /\ op'[p] = op[p]
        /\ UNCHANGED <<texts, index, arg, body, old, new, at, msg, have, lost, spoilt>>
        /\ msgs' = [msgs EXCEPT ![index[arg[p]]].head = msg[p]]
    BY DEF InPlace, Work, Enter, Placed
  <1>2. /\ Live(arg[p]) /\ op[p] = "put" /\ arg[p] = have[p]
        /\ arg[p] \in 1 .. Len(index)
    BY <1>1 DEF KnownTo, Changed, OnRoute, Asked
  <1>3. msg[p].num = Found(p).num /\ msg[p].text = Found(p).text
    BY <1>2, FoundThere DEF KnownTo, Copied, Live
  <1>4. msg[p].size <= msgs[index[arg[p]]].room /\ msg[p] \in Message
    BY <1>1 DEF FitsOf, LocalsTyped
  <1>5. /\ FilesTyped' /\ IndexSound' /\ Keeps
        /\ msgs'[index[arg[p]]].room = msgs[index[arg[p]]].room
    BY <1>1, <1>2, <1>3, <1>4, Overwritten
  <1>6. LocalsTyped'
    BY <1>1 DEF LocalsTyped
  <1>7. OnRoute(p)' /\ Asked(p)'
    BY <1>1, <1>2 DEF OnRoute, Asked, KnownTo
  <1>8. Copied(p)'
    BY <1>1, <1>5 DEF Copied, KnownTo, Keeps
  <1>9. Changed(p)' /\ FitsOf(p)'
    BY <1>1, <1>2, <1>4, <1>5 DEF Changed, Live, FitsOf
  <1>10. Numbered(p)' /\ Appended(p)' /\ Inside(p)
    BY <1>1 DEF Numbered, Appended, Inside
  <1>11. QED
    BY <1>5, <1>6, <1>7, <1>8, <1>9, <1>10 DEF Stepped, KnownTo

\* An add: the text comes at the end and is no other message's.
LEMMA AppendTextSteps ==
  ASSUME NEW p \in Procs, Ready(p), AppendText(p)
  PROVE  Stepped(p)
  <1> USE DEF Ready
  <1>1. /\ pc[p] = "text" /\ pc'[p] = "append" /\ op'[p] = op[p]
        /\ UNCHANGED <<msgs, index, arg, body, old, at, msg, have, lost, spoilt>>
        /\ texts' = Append(texts, body[p])
        /\ new' = [new EXCEPT ![p] = [new[p] EXCEPT !.text = Len(texts) + 1, !.long = TRUE,
                                                     !.num = Len(index) + Base]]
    BY DEF AppendText, Work, Enter, Placed
  <1>2. op[p] = "add" /\ body[p] \in Texts
    BY <1>1 DEF KnownTo, OnRoute, Asked
  <1>3. /\ Len(texts) \in Nat /\ Len(index) \in Nat /\ new[p] \in Message
        /\ Len(texts) + 1 \in Nat /\ Len(index) + Base \in Nat
    BY MessagesAssumption DEF FilesTyped, LocalsTyped, MessagesAssumption
  <1>4. PICK m \in Message : /\ m = [new[p] EXCEPT !.text = Len(texts) + 1, !.long = TRUE,
                                                  !.num = Len(index) + Base]
                            /\ m.num = Len(index) + Base /\ m.text = Len(texts) + 1
    <2>1. PICK t \in Nat, n \in Nat : t = Len(texts) + 1 /\ n = Len(index) + Base
      BY <1>3
    <2>2. PICK m \in Message : /\ m = [new[p] EXCEPT !.text = t, !.long = TRUE, !.num = n]
                              /\ m.num = n /\ m.text = t
      <3>1. [new[p] EXCEPT !.text = t, !.long = TRUE, !.num = n] \in Message
        BY <1>3, EditAdd
      <3>2. [new[p] EXCEPT !.text = t, !.long = TRUE, !.num = n].num = n
        BY <1>3 DEF Message
      <3>3. [new[p] EXCEPT !.text = t, !.long = TRUE, !.num = n].text = t
        BY <1>3 DEF Message
      <3>4. QED
        BY <3>1, <3>2, <3>3
    <2>3. QED
      BY <2>1, <2>2
  <1>5. texts' \in Seq(Texts) /\ Len(texts') = Len(texts) + 1
    BY <1>1, <1>2, AppendProperties DEF FilesTyped
  <1>6. FilesTyped'
    BY <1>1, <1>5 DEF FilesTyped
  <1>7. IndexSound' /\ Keeps
    BY <1>1, <1>3, <1>5, <1>6, Rewritten DEF FilesTyped
  <1>8. LocalsTyped'
    BY <1>1, <1>4 DEF LocalsTyped
  <1>9. OnRoute(p)' /\ Asked(p)' /\ Inside(p)
    BY <1>1, <1>2 DEF OnRoute, Asked, Inside
  <1>10. Copied(p)'
    BY <1>1, <1>7 DEF Copied, KnownTo, Keeps
  <1>11. \A n \in 1 .. Len(index) : Live(n) => Says(n) \in 1 .. Len(texts)
    BY DEF IndexSound, Complete, Says
  <1>12. Numbered(p)'
    <2>1. new'[p] = m
      BY <1>1, <1>4 DEF LocalsTyped
    <2>2. Len(texts) + 1 \in 1 .. Len(texts')
      BY <1>3, <1>5
    <2>3. \A n \in 1 .. Len(index) : Live(n) => Says(n) # Len(texts) + 1
      BY <1>3, <1>11
    <2>4. QED
      BY <1>1, <1>4, <2>1, <2>2, <2>3 DEF Numbered, Live, Says
  <1>13. Changed(p)' /\ Appended(p)' /\ FitsOf(p)'
    BY <1>1, <1>2 DEF Changed, Appended, FitsOf
  <1>14. QED
    BY <1>6, <1>7, <1>8, <1>9, <1>10, <1>12, <1>13 DEF Stepped, KnownTo

\* The structure comes at the end, where no record points yet.
LEMMA AppendHeadSteps ==
  ASSUME NEW p \in Procs, Ready(p), AppendHead(p)
  PROVE  Stepped(p)
  <1> USE DEF Ready
  <1>1. /\ pc[p] = "append" /\ pc'[p] = "fields" /\ op'[p] = op[p]
        /\ UNCHANGED <<texts, index, arg, body, old, new, msg, have, lost, spoilt>>
        /\ at' = [at EXCEPT ![p] = Len(msgs) + 1]
        /\ msgs' = Append(msgs, [head |-> Written(p), room |-> 0])
    BY DEF AppendHead, Work, Enter, Placed
  <1>2. Written(p) \in Message /\ Written(p)' = Written(p)
    BY <1>1 DEF Written, LocalsTyped
  <1>3. /\ msgs' \in Seq(Slot) /\ Len(msgs') = Len(msgs) + 1 /\ Len(msgs) \in Nat
        /\ msgs'[Len(msgs) + 1].head = Written(p)
        /\ \A k \in 1 .. Len(msgs) : msgs'[k] = msgs[k]
    BY <1>1, <1>2, SlotNew DEF FilesTyped
  <1>4. FilesTyped' /\ Len(msgs) <= Len(msgs') /\ Len(texts) <= Len(texts')
    BY <1>1, <1>3 DEF FilesTyped
  <1>5. IndexSound' /\ Keeps
    BY <1>1, <1>3, <1>4, Rewritten
  <1>6. LocalsTyped' /\ at'[p] = Len(msgs) + 1
    BY <1>1, <1>3 DEF LocalsTyped
  <1>7. OnRoute(p)' /\ Asked(p)' /\ Inside(p)
    BY <1>1 DEF OnRoute, Asked, Inside, KnownTo
  <1>8. Copied(p)'
    BY <1>1, <1>5 DEF Copied, KnownTo, Keeps
  <1>9. \A n \in 1 .. Len(index) : Live(n) => Says(n)' = Says(n) /\ Live(n)'
    BY <1>1, <1>3 DEF IndexSound, Complete, Says, Live
  <1>10. Numbered(p)'
    BY <1>1, <1>9 DEF Numbered, KnownTo, Live
  <1>11. Changed(p)'
    BY <1>1 DEF Changed, KnownTo, OnRoute, Live
  <1>12. Appended(p)' /\ FitsOf(p)'
    BY <1>1, <1>2, <1>3, <1>6 DEF Appended, FitsOf
  <1>13. QED
    BY <1>4, <1>5, <1>6, <1>7, <1>8, <1>10, <1>11, <1>12 DEF Stepped, KnownTo

\* The subfields follow: the message is complete.
LEMMA AppendFieldsSteps ==
  ASSUME NEW p \in Procs, Ready(p), AppendFields(p)
  PROVE  Stepped(p)
  <1> USE DEF Ready
  <1>1. /\ pc[p] = "fields" /\ pc'[p] = IF op[p] = "add" THEN "index" ELSE "reindex"
        /\ op'[p] = op[p]
        /\ UNCHANGED <<texts, index, arg, body, old, new, at, msg, have, lost, spoilt>>
        /\ msgs' = [msgs EXCEPT ![at[p]].room = Written(p).size]
    BY DEF AppendFields, Work, Enter, Placed
  <1>2. /\ Written(p) \in Message /\ Written(p)' = Written(p) /\ Written(p).size \in Nat
        /\ op[p] \in {"add", "put"}
    BY <1>1, MessageFields DEF Written, LocalsTyped, KnownTo, OnRoute
  <1>3. at[p] \in 1 .. Len(msgs) /\ msgs[at[p]].head = Written(p)
    BY <1>1 DEF KnownTo, Appended
  <1>4. /\ msgs' \in Seq(Slot) /\ Len(msgs') = Len(msgs)
        /\ \A k \in 1 .. Len(msgs) :
              /\ msgs'[k].head = msgs[k].head
              /\ msgs'[k].room = IF k = at[p] THEN Written(p).size ELSE msgs[k].room
    <2>1. PICK r \in Nat : r = Written(p).size
      BY <1>2
    <2>2. msgs' = [msgs EXCEPT ![at[p]].room = r] /\ msgs \in Seq(Slot)
      BY <1>1, <2>1 DEF FilesTyped
    <2>3. QED
      BY <1>3, <2>1, <2>2, SlotRoom
  <1>5. FilesTyped' /\ Len(msgs) <= Len(msgs') /\ Len(texts) <= Len(texts')
    BY <1>1, <1>4 DEF FilesTyped
  <1>6. \A k \in 1 .. Len(msgs) :
            msgs[k].head.size <= msgs[k].room => msgs'[k].head.size <= msgs'[k].room
    BY <1>2, <1>3, <1>4
  <1>7. IndexSound' /\ Keeps
    BY <1>1, <1>4, <1>5, <1>6, Rewritten
  <1>8. LocalsTyped'
    BY <1>1 DEF LocalsTyped
  <1>9. OnRoute(p)' /\ Asked(p)' /\ Inside(p)
    BY <1>1, <1>2 DEF OnRoute, Asked, Inside, KnownTo
  <1>10. Copied(p)'
    BY <1>1, <1>7 DEF Copied, KnownTo, Keeps
  <1>11. \A n \in 1 .. Len(index) : Live(n) => Says(n)' = Says(n) /\ Live(n)'
    BY <1>1, <1>4 DEF IndexSound, Complete, Says, Live
  <1>12. Numbered(p)'
    BY <1>1, <1>11 DEF Numbered, KnownTo, Live
  <1>13. Changed(p)'
    BY <1>1, <1>2 DEF Changed, KnownTo, OnRoute, Live
  <1>14. Appended(p)' /\ FitsOf(p)'
    BY <1>1, <1>2, <1>3, <1>4 DEF Appended, FitsOf
  <1>15. QED
    BY <1>5, <1>7, <1>8, <1>9, <1>10, <1>12, <1>13, <1>14 DEF Stepped, KnownTo

\* The new record points to a complete message with the next number.
LEMMA AppendIndexSteps ==
  ASSUME NEW p \in Procs, Ready(p), AppendIndex(p)
  PROVE  Stepped(p)
  <1> USE DEF Ready
  <1>1. /\ pc[p] = "index" /\ pc'[p] = "wheader" /\ op'[p] = op[p]
        /\ UNCHANGED <<msgs, texts, arg, body, old, new, at, msg, have, lost, spoilt>>
        /\ index' = Append(index, at[p])
    BY DEF AppendIndex, Counted, Enter, Placed
  <1>2. /\ op[p] = "add" /\ Written(p) = new[p]
        /\ at[p] \in 1 .. Len(msgs) /\ msgs[at[p]].head = new[p]
        /\ msgs[at[p]].room = new[p].size
        /\ new[p].num = Len(index) + Base
        /\ new[p].text \in 1 .. Len(texts)
        /\ \A n \in 1 .. Len(index) : Live(n) => Says(n) # new[p].text
    BY <1>1 DEF KnownTo, OnRoute, Written, Appended, Numbered
  <1>3. /\ index' \in Seq(Nat) /\ Len(index') = Len(index) + 1 /\ Len(index) \in Nat
        /\ index'[Len(index) + 1] = at[p]
        /\ \A k \in 1 .. Len(index) : index'[k] = index[k]
    BY <1>1, AppendProperties DEF FilesTyped, LocalsTyped
  <1>4. FilesTyped'
    BY <1>1, <1>3 DEF FilesTyped
  <1>5. /\ \A n \in 1 .. Len(index) : Live(n)' <=> Live(n)
        /\ \A n \in 1 .. Len(index) : Says(n)' = Says(n)
        /\ \A k \in Nat : k = Len(index) + 1 => Says(k)' = new[p].text
    <2>1. \A n \in 1 .. Len(index) : index'[n] = index[n] /\ n \in 1 .. Len(index')
      BY <1>3
    <2>2. \A n \in 1 .. Len(index) : (Live(n)' <=> Live(n))
      BY <2>1 DEF Live
    <2>3. \A n \in 1 .. Len(index) : Says(n)' = Says(n)
      BY <1>1, <2>1 DEF Says
    <2>4. \A k \in Nat : k = Len(index) + 1 => Says(k)' = new[p].text
      BY <1>1, <1>2, <1>3 DEF Says
    <2>5. QED
      BY <2>2, <2>3, <2>4
  <1>6. Keeps
    BY <1>3, <1>5 DEF Keeps
  <1>7. ASSUME NEW n \in 1 .. Len(index'), Live(n)' PROVE Complete(n)'
    <2>1. CASE n \in 1 .. Len(index)
      <3>1. Complete(n)
        BY <1>5, <1>7, <2>1 DEF IndexSound
      <3>2. QED
        BY <1>1, <1>3, <2>1, <3>1 DEF Complete
    <2>2. CASE n = Len(index) + 1
      <3>1. new[p].size \in Nat /\ Base \in Nat
        BY MessageFields, MessagesAssumption DEF LocalsTyped, MessagesAssumption
      <3>2. new[p].num = n - 1 + Base
        BY <1>2, <1>3, <2>2, <3>1
      <3>3. new[p].size <= new[p].size
        BY <3>1
      <3>4. QED
        BY <1>1, <1>2, <1>3, <2>2, <3>2, <3>3 DEF Complete
    <2>3. QED
      BY <1>3, <2>1, <2>2
  <1>8. ASSUME NEW n \in 1 .. Len(index'), NEW k \in 1 .. Len(index'), Live(n)', Live(k)', n # k
        PROVE  Says(n)' # Says(k)'
    <2>1. CASE n \in 1 .. Len(index) /\ k \in 1 .. Len(index)
      BY <1>5, <1>8, <2>1 DEF IndexSound, Says
    <2>2. CASE n = Len(index) + 1 /\ k \in 1 .. Len(index)
      <3>1. Live(k) /\ Says(k)' = Says(k) /\ Says(k) # new[p].text
        BY <1>2, <1>5, <1>8, <2>2
      <3>2. QED
        BY <1>3, <1>5, <2>2, <3>1
    <2>3. CASE k = Len(index) + 1 /\ n \in 1 .. Len(index)
      <3>1. Live(n) /\ Says(n)' = Says(n) /\ Says(n) # new[p].text
        BY <1>2, <1>5, <1>8, <2>3
      <3>2. QED
        BY <1>3, <1>5, <2>3, <3>1
    <2>4. QED
      BY <1>3, <1>8, <2>1, <2>2, <2>3
  <1>9. IndexSound'
    BY <1>7, <1>8 DEF IndexSound, Says
  <1>10. LocalsTyped'
    BY <1>1 DEF LocalsTyped
  <1>11. OnRoute(p)' /\ Asked(p)' /\ Inside(p)
    BY <1>1, <1>2 DEF OnRoute, Asked, Inside, KnownTo
  <1>12. Copied(p)'
    BY <1>1, <1>3, <1>6 DEF Copied, KnownTo, Keeps
  <1>13. QED
    BY <1>1, <1>4, <1>6, <1>9, <1>10, <1>11, <1>12, Outside DEF Stepped

\* The record of a put goes to the new message with the old number and text, or stays.
LEMMA ReindexSteps ==
  ASSUME NEW p \in Procs, Ready(p), Reindex(p)
  PROVE  Stepped(p)
  <1> USE DEF Ready
  <1>1. /\ pc[p] = "reindex" /\ pc'[p] = "wheader" /\ op'[p] = op[p]
        /\ UNCHANGED <<msgs, texts, arg, body, old, new, at, msg, have, lost>>
        /\ spoilt' = IF Newer(p) THEN spoilt \cup {arg[p]} ELSE spoilt
        /\ index' = IF Newer(p) THEN index ELSE [index EXCEPT ![arg[p]] = at[p]]
    BY DEF Reindex, Counted, Enter, Placed
  <1>2. /\ op[p] = "put" /\ Written(p) = msg[p] /\ Live(arg[p])
        /\ at[p] \in 1 .. Len(msgs) /\ msgs[at[p]].head = msg[p]
        /\ msgs[at[p]].room = msg[p].size
        /\ arg[p] = have[p] /\ arg[p] \in 1 .. Len(index)
    BY <1>1 DEF KnownTo, OnRoute, Written, Appended, Changed, Asked
  <1>3. msg[p].num = arg[p] - 1 + Base /\ msg[p].text = Says(arg[p])
    BY <1>2 DEF KnownTo, Copied
  <1>4. LocalsTyped' /\ Inside(p)
    BY <1>1 DEF LocalsTyped, Inside
  <1>5. CASE Newer(p)
    <2>1. FilesSame
      BY <1>1, <1>5 DEF FilesSame
    <2>2. OnRoute(p)' /\ Asked(p)' /\ Copied(p)'
      BY <1>1, <1>2, <2>1 DEF OnRoute, Asked, Copied, KnownTo, FilesSame, Live, Says
    <2>3. QED
      BY <1>1, <1>4, <2>1, <2>2, SameSound, Outside DEF Stepped
  <1>6. CASE ~ Newer(p)
    <2>1. /\ index' \in Seq(Nat) /\ Len(index') = Len(index)
          /\ \A k \in 1 .. Len(index) : index'[k] = IF k = arg[p] THEN at[p] ELSE index[k]
      BY <1>1, <1>2, <1>6, ExceptSeq DEF FilesTyped, LocalsTyped
    <2>2. FilesTyped'
      BY <1>1, <2>1 DEF FilesTyped
    <2>3. \A n \in 1 .. Len(index) : (Live(n)' <=> Live(n)) /\ (Says(n)' = Says(n))
      <3>1. \A n \in 1 .. Len(index) : n \in 1 .. Len(index') /\ (n # arg[p] => index'[n] = index[n])
        BY <2>1
      <3>2. index'[arg[p]] = at[p] /\ at[p] # NoOffset /\ index[arg[p]] # NoOffset
        BY <1>2, <2>1 DEF Live, NoOffset
      <3>3. \A n \in 1 .. Len(index) : Live(n)' <=> Live(n)
        BY <3>1, <3>2 DEF Live
      <3>4. \A n \in 1 .. Len(index) : Says(n)' = Says(n)
        BY <1>1, <1>2, <1>3, <3>1, <3>2 DEF Says
      <3>5. QED
        BY <3>3, <3>4
    <2>4. Keeps
      BY <2>1, <2>3 DEF Keeps, FilesTyped
    <2>5. ASSUME NEW n \in 1 .. Len(index), Live(n)' PROVE Complete(n)'
      <3>1. Complete(n)
        BY <2>3, <2>5 DEF IndexSound
      <3>2. CASE n = arg[p]
        <4>1. msgs[at[p]].head.text \in 1 .. Len(texts)
          BY <1>2, <1>3, <3>1, <3>2 DEF Complete, Says
        <4>2. msgs[at[p]].head.size <= msgs[at[p]].room
          BY <1>2, MessageFields DEF LocalsTyped
        <4>3. QED
          BY <1>1, <1>2, <1>3, <2>1, <3>2, <4>1, <4>2 DEF Complete
      <3>3. CASE n # arg[p]
        BY <1>1, <2>1, <3>1, <3>3 DEF Complete
      <3>4. QED
        BY <3>2, <3>3
    <2>6. \A n, k \in 1 .. Len(index) : Live(n)' /\ Live(k)' /\ n # k => Says(n)' # Says(k)'
      BY <2>3 DEF IndexSound, Says
    <2>7. IndexSound'
      BY <2>1, <2>5, <2>6 DEF IndexSound, Says
    <2>8. OnRoute(p)' /\ Asked(p)'
      BY <1>1, <1>2, <2>1 DEF OnRoute, Asked, KnownTo
    <2>9. Copied(p)'
      BY <1>1, <2>1, <2>4 DEF Copied, KnownTo, Keeps
    <2>10. QED
      BY <1>1, <1>4, <2>2, <2>4, <2>7, <2>8, <2>9, Outside DEF Stepped
  <1>7. QED
    BY <1>5, <1>6

\* The record of a delete is gone.
LEMMA UnindexSteps ==
  ASSUME NEW p \in Procs, Ready(p), Unindex(p)
  PROVE  Stepped(p)
  <1> USE DEF Ready
  <1>1. /\ pc[p] = "unindex" /\ pc'[p] = "wheader" /\ op'[p] = op[p]
        /\ UNCHANGED <<msgs, texts, arg, body, old, new, at, msg, have, lost, spoilt>>
        /\ index' = [index EXCEPT ![arg[p]] = NoOffset]
    BY DEF Unindex, Counted, Enter, Placed
  <1>2. op[p] = "del" /\ Live(arg[p]) /\ arg[p] \in 1 .. Len(index)
    BY <1>1 DEF KnownTo, OnRoute, Changed, Asked
  <1>3. /\ index' \in Seq(Nat) /\ Len(index') = Len(index)
        /\ \A k \in 1 .. Len(index) : index'[k] = IF k = arg[p] THEN NoOffset ELSE index[k]
    BY <1>1, <1>2, ExceptSeq DEF FilesTyped, NoOffset
  <1>4. FilesTyped'
    BY <1>1, <1>3 DEF FilesTyped
  <1>5. \A n \in 1 .. Len(index) : Live(n)' => n # arg[p] /\ Live(n) /\ Says(n)' = Says(n)
    BY <1>1, <1>2, <1>3 DEF Live, Says
  <1>6. Keeps
    BY <1>3, <1>5 DEF Keeps, FilesTyped
  <1>7. ASSUME NEW n \in 1 .. Len(index), Live(n)' PROVE Complete(n)'
    BY <1>1, <1>3, <1>5, <1>7 DEF IndexSound, Complete
  <1>8. \A n, k \in 1 .. Len(index) : Live(n)' /\ Live(k)' /\ n # k => Says(n)' # Says(k)'
    BY <1>5 DEF IndexSound, Says
  <1>9. IndexSound'
    BY <1>3, <1>7, <1>8 DEF IndexSound, Says
  <1>10. LocalsTyped' /\ Inside(p)
    BY <1>1 DEF LocalsTyped, Inside
  <1>11. OnRoute(p)' /\ Asked(p)'
    BY <1>1, <1>2, <1>3 DEF OnRoute, Asked, KnownTo
  <1>12. Copied(p)'
    BY <1>1, <1>3, <1>6 DEF Copied, KnownTo, Keeps
  <1>13. QED
    BY <1>1, <1>4, <1>6, <1>9, <1>10, <1>11, <1>12, Outside DEF Stepped


-----------------------------------------------------------------------------
(***************************************************************************)
(* All steps, and what they leave to the other processes.                  *)
(***************************************************************************)
\* Every step of a process keeps the files and what the process knows.
LEMMA AllSteps ==
  ASSUME NEW p \in Procs, Ready(p), NewCall(p) \/ Step(p) \/ Restart(p)
  PROVE  Stepped(p)
  <1>1. CASE NewCall(p)
    BY <1>1, CallSteps
  <1>2. CASE Restart(p)
    BY <1>2, RestartSteps
  <1>3. CASE Step(p)
    <2>1. CASE \/ Locked(p) \/ HeaderRead(p) \/ InPlaceFields(p)
               \/ (LockSleeps(p) \/ WriteHeader(p)) /\ UNCHANGED jamVars
      BY <2>1, QuietSteps
    <2>2. CASE FindFails(p) \/ ((LockFails(p) \/ Unlock(p)) /\ Return(p))
      BY <2>2, ReturnSteps
    <2>3. CASE FindGet(p) \/ FindChange(p) \/ Mark(p) \/ Erase(p) \/ Unindex(p)
      BY <2>3, FindGetSteps, FindChangeSteps, MarkSteps, EraseSteps, UnindexSteps
    <2>4. CASE AppendText(p) \/ AppendHead(p) \/ AppendFields(p) \/ AppendIndex(p)
      BY <2>4, AppendTextSteps, AppendHeadSteps, AppendFieldsSteps, AppendIndexSteps
    <2>5. CASE Reindex(p) \/ InPlace(p)
      BY <2>5, ReindexSteps, InPlaceSteps
    <2>6. QED
      BY <1>3, <2>1, <2>2, <2>3, <2>4, <2>5 DEF Step
  <1>4. QED
    BY <1>1, <1>2, <1>3

\* The callers' variables are their own.
LEMMA LocalsOthers ==
  ASSUME LocalsTyped, NEW p \in Procs, NewCall(p) \/ Step(p) \/ Restart(p),
         NEW q \in Procs, q # p
  PROVE  /\ arg'[q] = arg[q] /\ body'[q] = body[q] /\ old'[q] = old[q] /\ new'[q] = new[q]
         /\ at'[q] = at[q] /\ msg'[q] = msg[q] /\ have'[q] = have[q]
  <1> USE DEF LocalsTyped
  <1>1. CASE NewCall(p) \/ Restart(p)
    BY <1>1 DEF NewCall, CallAdd, CallGet, CallDel, CallPut, Restart
  <1>2. CASE UNCHANGED jamVars \/ Return(p)
    BY <1>2 DEF jamVars, Return
  <1>3. CASE \/ FindGet(p) \/ FindChange(p) \/ Mark(p) \/ Erase(p) \/ Unindex(p)
             \/ AppendText(p) \/ AppendHead(p) \/ AppendFields(p) \/ AppendIndex(p)
             \/ Reindex(p) \/ InPlace(p)
    BY <1>3 DEF FindGet, FindChange, Mark, Erase, Unindex, AppendText, AppendHead,
                AppendFields, AppendIndex, Reindex, InPlace
  <1>4. QED
    BY <1>1, <1>2, <1>3 DEF Step, Locked, HeaderRead, FindFails, InPlaceFields

\* There are finitely many messages.
LEMMA AliveFinite ==
  ASSUME FilesTyped PROVE IsFiniteSet(Alive) /\ Cardinality(Alive) \in Nat
  <1>1. Alive \subseteq 1 .. Len(index) /\ Len(index) \in Nat /\ IsFiniteSet(1 .. Len(index))
    BY FS_Interval DEF Alive, FilesTyped
  <1>2. QED
    BY <1>1, FS_Subset, FS_CardinalityType

\* An add makes one message more.
LEMMA AliveAdded ==
  ASSUME NEW p \in Procs, Ready(p), AppendIndex(p)
  PROVE  Cardinality(Alive)' = Cardinality(Alive) + 1
  <1>1. /\ index' = Append(index, at[p]) /\ index \in Seq(Nat) /\ Len(index) \in Nat
        /\ at[p] \in Nat /\ at[p] # NoOffset
    BY DEF AppendIndex, Counted, Ready, FilesTyped, KnownTo, Appended, LocalsTyped, NoOffset
  <1>2. /\ Len(index') = Len(index) + 1 /\ index'[Len(index) + 1] = at[p]
        /\ \A k \in 1 .. Len(index) : index'[k] = index[k]
    BY <1>1, AppendProperties
  <1>3. Alive' = Alive \cup {Len(index) + 1}
    BY <1>1, <1>2 DEF Alive, Live
  <1>4. Len(index) + 1 \notin Alive
    BY <1>1 DEF Alive
  <1>5. QED
    BY <1>3, <1>4, AliveFinite, FS_AddElement DEF Ready

\* A delete makes one message less.
LEMMA AliveRemoved ==
  ASSUME NEW p \in Procs, Ready(p), Unindex(p)
  PROVE  Cardinality(Alive)' = Cardinality(Alive) - 1
  <1>1. /\ index' = [index EXCEPT ![arg[p]] = NoOffset] /\ index \in Seq(Nat)
        /\ Live(arg[p])
    BY DEF Unindex, Counted, Ready, FilesTyped, KnownTo, Changed
  <1>2. /\ Len(index') = Len(index)
        /\ \A k \in 1 .. Len(index) : index'[k] = IF k = arg[p] THEN NoOffset ELSE index[k]
    BY <1>1, ExceptSeq DEF NoOffset, Live
  <1>3. Alive' = Alive \ {arg[p]} /\ arg[p] \in Alive
    BY <1>1, <1>2 DEF Alive, Live
  <1>4. QED
    BY <1>3, AliveFinite, FS_RemoveElement DEF Ready

\* All the other steps leave the number alone.
LEMMA AliveSame ==
  ASSUME NEW p \in Procs, Ready(p), NewCall(p) \/ Step(p) \/ Restart(p),
         ~ AppendIndex(p), ~ Unindex(p)
  PROVE  Alive' = Alive
  <1>1. CASE UNCHANGED index
    BY <1>1 DEF Alive, Live
  <1>2. CASE Reindex(p)
    <2>1. CASE Newer(p)
      BY <1>1, <1>2, <2>1 DEF Reindex
    <2>2. CASE ~ Newer(p)
      <3>1. /\ index' = [index EXCEPT ![arg[p]] = at[p]] /\ index \in Seq(Nat)
            /\ Live(arg[p]) /\ at[p] # NoOffset /\ at[p] \in Nat
        BY <1>2, <2>2 DEF Reindex, Counted, Ready, FilesTyped, KnownTo, Changed, Appended, NoOffset, LocalsTyped
      <3>2. /\ Len(index') = Len(index)
            /\ \A k \in 1 .. Len(index) : index'[k] = IF k = arg[p] THEN at[p] ELSE index[k]
        BY <3>1, ExceptSeq DEF Live
      <3>3. QED
        BY <3>1, <3>2 DEF Alive, Live
    <2>3. QED
      BY <2>1, <2>2
  <1>3. UNCHANGED index \/ Reindex(p)
    BY DEF NewCall, CallAdd, CallGet, CallDel, CallPut, Restart, Step, Locked, HeaderRead,
           Return, FindFails, FindGet, FindChange, Mark, Erase, AppendText, AppendHead,
           AppendFields, InPlace, InPlaceFields, jamVars
  <1>4. QED
    BY <1>1, <1>2, <1>3


\* Each step keeps the count: the header that a call will write counts what its index
\* record has changed, unless the process dies between the two.
LEMMA CountKept ==
  ASSUME NEW p \in Procs, Ready(p), CallInv, Counting, NewCall(p) \/ Step(p) \/ Restart(p)
  PROVE  Counting'
  <1> DEFINE K == Cardinality(Alive)
  <1>1. \A q \in Procs \ {p} : pc'[q] = pc[q] /\ hbuf'[q] = hbuf[q]
    BY MessagesSkeleton, SkeletonOthers DEF Ready, Placed
  <1>2. /\ pc \in [Procs -> Stages] /\ hbuf \in [Procs -> HeaderRecord] /\ hdr \in HeaderRecord
        /\ K \in Nat
    BY AliveFinite DEF Ready, Placed, CallTypeOK
  <1>3. ASSUME Working(pc[p])
        PROVE  /\ \A q \in Procs : pc[q] # "wheader"
               /\ hbuf[p] = hdr
               /\ ~ lost => hbuf[p].active = K
    <2>1. owner[Header] = p /\ hbuf[p] = hdr /\ pc[p] # "wheader"
      BY <1>3 DEF CallInv, Inside, Working, Unread
    <2>2. \A q \in Procs \ {p} : pc[q] # "wheader"
      BY <2>1 DEF CallInv, Inside
    <2>3. QED
      BY <2>1, <2>2 DEF Counting
  <1>4. CASE AppendIndex(p) \/ Unindex(p) \/ Reindex(p)
    <2>1. PICK d \in Int : K' = K + d /\ \E from : Working(from) /\ Counted(p, from, d)
      <3>1. Working("index") /\ Working("unindex") /\ Working("reindex")
        BY DEF Working, Unread
      <3>2. CASE AppendIndex(p)
        BY <3>1, <3>2, AliveAdded DEF AppendIndex
      <3>3. CASE Unindex(p)
        <4>1. K' = K + (-1) /\ -1 \in Int
          BY <1>2, <3>3, AliveRemoved
        <4>2. Counted(p, "unindex", -1)
          BY <3>3 DEF Unindex
        <4>3. QED
          BY <3>1, <4>1, <4>2
      <3>4. CASE Reindex(p)
        <4>1. Alive' = Alive
          BY <3>4, AliveSame DEF Reindex, AppendIndex, Unindex, Counted, Step
        <4>2. QED
          BY <1>2, <3>1, <3>4, <4>1 DEF Reindex
      <3>5. QED
        BY <1>4, <3>2, <3>3, <3>4
    <2>2. /\ Working(pc[p]) /\ pc'[p] = "wheader" /\ hdr' = hdr /\ lost' = lost
          /\ hbuf'[p] = [mod |-> hbuf[p].mod + 1, active |-> hbuf[p].active + d]
      BY <1>2, <1>4, <2>1 DEF Counted, Enter, AppendIndex, Unindex, Reindex
    <2>3. hbuf'[p].active = hbuf[p].active + d
      BY <2>2
    <2>4. ~ lost => hbuf'[p].active = K'
      BY <1>2, <1>3, <2>1, <2>2, <2>3
    <2>5. \A q \in Procs \ {p} : pc'[q] # "wheader"
      BY <1>1, <1>3, <2>2
    <2>6. QED
      BY <2>2, <2>4, <2>5 DEF Counting
  <1>5. CASE ~ (AppendIndex(p) \/ Unindex(p) \/ Reindex(p))
    <2>1. K' = K
      BY <1>5, AliveSame
    <2>2. CASE Restart(p)
      <3>1. /\ hdr' = hdr /\ pc'[p] = "idle"
            /\ lost' = (lost \/ (pc[p] = "wheader" /\ hbuf[p] # hdr))
        BY <1>2, <2>2 DEF Restart, Restarted, Leave, Enter
      <3>2. ASSUME ~ lost', \A q \in Procs : pc'[q] # "wheader"
            PROVE  hdr.active = K
        <4>1. CASE pc[p] = "wheader"
          BY <3>1, <3>2, <4>1 DEF Counting
        <4>2. CASE pc[p] # "wheader"
          BY <1>1, <3>1, <3>2, <4>2 DEF Counting
        <4>3. QED
          BY <4>1, <4>2
      <3>3. QED
        BY <1>1, <2>1, <3>1, <3>2 DEF Counting
    <2>3. CASE WriteHeader(p) /\ UNCHANGED jamVars
      <3>1. /\ pc[p] = "wheader" /\ pc'[p] = "unlock" /\ hdr' = hbuf[p] /\ lost' = lost
        BY <1>2, <2>3 DEF WriteHeader, Enter, jamVars
      <3>2. \A q \in Procs \ {p} : pc[q] # "wheader"
        BY <3>1 DEF CallInv, Inside
      <3>3. QED
        BY <1>1, <2>1, <3>1, <3>2 DEF Counting
    <2>4. CASE FindGet(p) \/ InPlaceFields(p)
      <3>1. /\ Working(pc[p]) /\ pc'[p] = "wheader" /\ hdr' = hdr /\ hbuf' = hbuf /\ lost' = lost
        BY <1>2, <2>4 DEF FindGet, InPlaceFields, Work, Enter, jamVars, Working, Unread
      <3>2. QED
        BY <1>1, <1>3, <2>1, <3>1 DEF Counting
    <2>5. CASE hdr' = hdr /\ lost' = lost /\ pc[p] # "wheader" /\ pc'[p] # "wheader"
      BY <1>1, <2>1, <2>5 DEF Counting
    <2>6. CASE NewCall(p)
      <3>1. hdr' = hdr /\ lost' = lost /\ pc[p] # "wheader" /\ pc'[p] # "wheader"
        BY <1>2, <2>6 DEF NewCall, CallAdd, CallGet, CallDel, CallPut, Called, Enter
      <3>2. QED
        BY <2>5, <3>1
    <2>7. CASE \/ Locked(p) \/ HeaderRead(p) \/ FindFails(p)
               \/ LockSleeps(p) /\ UNCHANGED jamVars
               \/ (LockFails(p) \/ Unlock(p)) /\ Return(p)
      <3>1. hdr' = hdr /\ lost' = lost /\ pc[p] # "wheader" /\ pc'[p] # "wheader"
        BY <1>2, <2>7 DEF Locked, LockTaken, HeaderRead, ReadHeader, LockSleeps, LockFails, Unlock,
           Leave, Enter, Return, FindFails, ReturnError, jamVars
      <3>2. QED
        BY <2>5, <3>1
    <2>8. CASE \/ FindChange(p) \/ Mark(p) \/ Erase(p) \/ AppendText(p) \/ AppendHead(p)
               \/ AppendFields(p) \/ InPlace(p)
      <3>1. hdr' = hdr /\ lost' = lost /\ pc[p] # "wheader" /\ pc'[p] # "wheader"
        BY <1>2, <2>8 DEF FindChange, Mark, Erase, AppendText, AppendHead, AppendFields, InPlace,
           Work, Enter
      <3>2. QED
        BY <2>5, <3>1
    <2>9. QED
      BY <1>5, <2>2, <2>3, <2>4, <2>6, <2>7, <2>8 DEF Step
  <1>6. QED
    BY <1>4, <1>5

-----------------------------------------------------------------------------
(***************************************************************************)
(* Which messages show their text.                                         *)
(***************************************************************************)
Long(n) == msgs[index[n]].head.long

\* Only a mark, a put in place or a new record changes the length of a text, and of
\* the call's own message.
LEMMA LongKept ==
  ASSUME NEW p \in Procs, Ready(p), NewCall(p) \/ Step(p) \/ Restart(p),
         NEW n \in 1 .. Len(index), Live(n), Live(n)',
         n # arg[p] \/ ~ (Mark(p) \/ InPlace(p) \/ Reindex(p))
  PROVE  Long(n)' = Long(n)
  <1> USE DEF Ready
  <1>1. index[n] \in 1 .. Len(msgs) /\ msgs \in Seq(Slot) /\ index \in Seq(Nat)
    BY DEF IndexSound, Complete, FilesTyped
  <1>2. CASE UNCHANGED <<msgs, index>>
    BY <1>2 DEF Long
  <1>3. CASE AppendHead(p)
    <2>1. PICK m \in Message : msgs' = Append(msgs, [head |-> m, room |-> 0]) /\ index' = index
      BY <1>3 DEF AppendHead, Written, LocalsTyped
    <2>2. msgs'[index[n]] = msgs[index[n]]
      BY <1>1, <2>1, SlotNew
    <2>3. QED
      BY <2>1, <2>2 DEF Long
  <1>4. CASE AppendFields(p)
    <2>1. Written(p) \in Message /\ Written(p).size \in Nat /\ at[p] \in 1 .. Len(msgs)
      BY <1>4, MessageFields DEF AppendFields, Work, Written, LocalsTyped, KnownTo, Appended
    <2>2. PICK r \in Nat : msgs' = [msgs EXCEPT ![at[p]].room = r] /\ index' = index
      BY <1>4, <2>1 DEF AppendFields
    <2>3. msgs'[index[n]].head = msgs[index[n]].head
      BY <1>1, <2>1, <2>2, SlotRoom
    <2>4. QED
      BY <2>2, <2>3 DEF Long
  <1>5. CASE AppendIndex(p)
    <2>1. msgs' = msgs /\ index' = Append(index, at[p]) /\ at[p] \in Nat
      BY <1>5 DEF AppendIndex, LocalsTyped
    <2>2. index'[n] = index[n]
      BY <1>1, <2>1, AppendProperties
    <2>3. QED
      BY <2>1, <2>2 DEF Long
  <1>6. CASE Unindex(p)
    <2>1. msgs' = msgs /\ index' = [index EXCEPT ![arg[p]] = NoOffset]
      BY <1>6 DEF Unindex
    <2>2. arg[p] \in 1 .. Len(index)
      BY <1>6 DEF Unindex, Counted, KnownTo, Changed, Live
    <2>3. n # arg[p] /\ index'[n] = index[n]
      BY <1>1, <2>1, <2>2 DEF Live
    <2>4. QED
      BY <2>1, <2>3 DEF Long
  <1>7. CASE (Mark(p) \/ InPlace(p)) /\ n # arg[p]
    <2>1. arg[p] \in 1 .. Len(index) /\ index[arg[p]] # NoOffset
      BY <1>7 DEF Mark, InPlace, Work, KnownTo, Changed, Live
    <2>2. index[arg[p]] \in 1 .. Len(msgs) /\ index[n] # index[arg[p]]
      BY <1>7, <2>1, FoundThere
    <2>3. PICK m \in Message : msgs' = [msgs EXCEPT ![index[arg[p]]].head = m] /\ index' = index
      BY <1>7 DEF Mark, InPlace, LocalsTyped
    <2>4. msgs'[index[n]].head = msgs[index[n]].head
      BY <1>1, <2>2, <2>3, SlotHead
    <2>5. QED
      BY <2>3, <2>4 DEF Long
  <1>8. CASE Reindex(p) /\ n # arg[p]
    <2>1. msgs' = msgs /\ index' = IF Newer(p) THEN index ELSE [index EXCEPT ![arg[p]] = at[p]]
      BY <1>8 DEF Reindex
    <2>2. index'[n] = index[n]
      BY <1>1, <1>8, <2>1
    <2>3. QED
      BY <2>1, <2>2 DEF Long
  <1>9. \/ UNCHANGED <<msgs, index>> \/ AppendHead(p) \/ AppendFields(p) \/ AppendIndex(p)
        \/ Unindex(p) \/ Mark(p) \/ InPlace(p) \/ Reindex(p)
    BY DEF NewCall, CallAdd, CallGet, CallDel, CallPut, Restart, Step, Locked, HeaderRead,
           Return, FindFails, FindGet, FindChange, Erase, AppendText, InPlaceFields, jamVars
  <1>10. QED
    BY <1>2, <1>3, <1>4, <1>5, <1>6, <1>7, <1>8, <1>9

\* Whether another call is midway is its own affair.
LEMMA MidwayOthers ==
  ASSUME NEW p \in Procs, Ready(p), NewCall(p) \/ Step(p) \/ Restart(p),
         NEW q \in Procs, q # p
  PROVE  (Midway(q)' <=> Midway(q)) /\ arg'[q] = arg[q]
  <1>1. pc'[q] = pc[q] /\ op'[q] = op[q]
    BY MessagesSkeleton, SkeletonOthers DEF Ready, Placed
  <1>2. arg'[q] = arg[q]
    BY LocalsOthers DEF Ready
  <1>3. QED
    BY <1>1, <1>2 DEF Midway

\* A call that is midway after its step was about the same record before.
LEMMA MidwaySelf ==
  ASSUME NEW p \in Procs, Ready(p), NewCall(p) \/ Step(p) \/ Restart(p), Midway(p)'
  PROVE  arg'[p] = arg[p] /\ (Mark(p) \/ Midway(p))
  <1> USE DEF Ready, Placed, Enter, Leave
  <1>1. CASE NewCall(p) \/ Restart(p)
    BY <1>1 DEF NewCall, CallAdd, CallGet, CallDel, CallPut, Called, Restart, Restarted, Midway
  <1>2. CASE \/ Locked(p) \/ HeaderRead(p) \/ LockSleeps(p) \/ LockFails(p)
             \/ FindFails(p) \/ WriteHeader(p) \/ Unlock(p)
    BY <1>2 DEF Locked, LockTaken, HeaderRead, ReadHeader, LockSleeps, LockFails,
                FindFails, ReturnError, WriteHeader, Unlock, Midway
  <1>3. CASE FindGet(p) \/ FindChange(p) \/ AppendText(p) \/ InPlace(p) \/ InPlaceFields(p)
    BY <1>3 DEF FindGet, FindChange, AppendText, InPlace, InPlaceFields, Work, Midway,
                KnownTo, OnRoute
  <1>4. CASE Unindex(p) \/ AppendIndex(p) \/ Reindex(p)
    BY <1>4 DEF Unindex, AppendIndex, Reindex, Counted, Midway
  <1>5. CASE Mark(p) \/ Erase(p) \/ AppendHead(p) \/ AppendFields(p)
    BY <1>5 DEF Mark, Erase, AppendHead, AppendFields, Work, Midway, KnownTo, OnRoute
  <1>6. QED
    BY <1>1, <1>2, <1>3, <1>4, <1>5 DEF Step

\* One call at a time is midway, and none while another is past the lock.
LEMMA MidwayAlone ==
  ASSUME CallInv, NEW p \in Procs, Inside(p), NEW q \in Procs, Midway(q)
  PROVE  q = p
  BY DEF CallInv, Inside, Midway

\* The stages in which a call is midway, and what it does there.
LEMMA MidwaySteps ==
  ASSUME NEW p \in Procs, Ready(p), NewCall(p) \/ Step(p) \/ Restart(p), Midway(p)
  PROVE  \/ Reindex(p) \/ Restart(p) \/ Unindex(p) \/ AppendHead(p) \/ AppendFields(p)
         \/ Erase(p)
  BY DEF NewCall, CallAdd, CallGet, CallDel, CallPut, Called, Step, Locked, LockTaken,
         HeaderRead, ReadHeader, LockSleeps, LockFails, FindFails, ReturnError, FindGet,
         FindChange, Mark, AppendText, AppendIndex, InPlace, InPlaceFields, Work, Counted,
         WriteHeader, Unlock, Midway

\* Only an add makes the index longer.
LEMMA IndexGrows ==
  ASSUME NEW p \in Procs, Ready(p), NewCall(p) \/ Step(p) \/ Restart(p), ~ AppendIndex(p)
  PROVE  Len(index') = Len(index)
  <1>1. UNCHANGED index \/ Reindex(p) \/ Unindex(p)
    BY DEF NewCall, CallAdd, CallGet, CallDel, CallPut, Restart, Step, Locked, HeaderRead,
           Return, FindFails, FindGet, FindChange, Mark, Erase, AppendText, AppendHead,
           AppendFields, InPlace, InPlaceFields, jamVars
  <1>2. CASE Reindex(p) \/ Unindex(p)
    BY <1>2 DEF Reindex, Unindex, Ready, FilesTyped
  <1>3. QED
    BY <1>1, <1>2

\* A put that moves the record shows what its copy says, and one that does not
\* leaves a record that is spoilt.
LEMMA ReindexShows ==
  ASSUME NEW p \in Procs, IInv, Ready(p), Reindex(p),
         NEW n \in 1 .. Len(index), n = arg[p], Live(n), n \notin spoilt'
  PROVE  Shown(n)'
  <1> USE DEF Ready
  <1>1. /\ ~ Newer(p) /\ spoilt' = spoilt /\ msgs' = msgs
        /\ index' = [index EXCEPT ![n] = at[p]]
    BY DEF Reindex
  <1>2. op[p] = "put" /\ have[p] = n /\ msgs[at[p]].head = msg[p]
    BY DEF Reindex, Counted, KnownTo, OnRoute, Asked, Appended, Written
  <1>3. msg[p].long
    BY <1>1, <1>2 DEF IInv, Showing
  <1>4. index'[n] = at[p]
    BY <1>1 DEF FilesTyped
  <1>5. msgs'[index'[n]].head.long
    BY <1>1, <1>2, <1>3, <1>4
  <1>6. QED
    BY <1>5 DEF Shown

\* Spoilt messages stay so.
LEMMA SpoiltGrows ==
  ASSUME NEW p \in Procs, NewCall(p) \/ Step(p) \/ Restart(p)
  PROVE  spoilt \subseteq spoilt'
  <1>1. CASE Restart(p) \/ Reindex(p)
    BY <1>1 DEF Restart, Reindex
  <1>2. spoilt' = spoilt \/ Restart(p) \/ Reindex(p)
    BY DEF NewCall, CallAdd, CallGet, CallDel, CallPut, Step, Locked, HeaderRead, Return,
           FindFails, FindGet, FindChange, Mark, Erase, Unindex, AppendText, AppendHead,
           AppendFields, AppendIndex, InPlace, InPlaceFields, jamVars
  <1>3. QED
    BY <1>1, <1>2

\* What shows its text goes on to, or is marked for the time of the call.
LEMMA LongShows ==
  ASSUME NEW p \in Procs, IInv, Ready(p), NewCall(p) \/ Step(p) \/ Restart(p),
         NEW n \in 1 .. Len(index), Live(n), Live(n)', Long(n), n \notin spoilt'
  PROVE  Shown(n)'
  <1> USE DEF Ready
  <1>0. n \notin spoilt
    BY SpoiltGrows
  <1>1. CASE n # arg[p] \/ ~ (Mark(p) \/ InPlace(p) \/ Reindex(p))
    <2>1. Long(n)'
      BY <1>1, LongKept
    <2>2. QED
      BY <2>1 DEF Long, Shown
  <1>2. CASE Mark(p) /\ n = arg[p]
    <2>1. Midway(p)' /\ arg'[p] = n
      BY <1>2 DEF Mark, Work, Enter, Placed, KnownTo, OnRoute, Midway
    <2>2. QED
      BY <2>1 DEF Shown
  <1>3. CASE InPlace(p) /\ n = arg[p]
    <2>1. msg[p].long /\ msg[p] \in Message
      BY <1>0, <1>3 DEF InPlace, Work, KnownTo, OnRoute, Asked, IInv, Showing, LocalsTyped
    <2>2. index[n] \in 1 .. Len(msgs) /\ msgs \in Seq(Slot)
      BY DEF IndexSound, Complete, FilesTyped
    <2>3. msgs' = [msgs EXCEPT ![index[n]].head = msg[p]] /\ index' = index
      BY <1>3 DEF InPlace
    <2>4. msgs'[index[n]].head = msg[p]
      BY <2>1, <2>2, <2>3, SlotHead
    <2>5. QED
      BY <2>1, <2>3, <2>4 DEF Shown
  <1>4. CASE Reindex(p) /\ n = arg[p]
    BY <1>4, ReindexShows
  <1>5. QED
    BY <1>1, <1>2, <1>3, <1>4

\* Every record keeps on showing its text, spoilt ones apart.
LEMMA RecordsShow ==
  ASSUME NEW p \in Procs, IInv, Ready(p), Stepped(p), NewCall(p) \/ Step(p) \/ Restart(p),
         NEW n \in 1 .. Len(index'), Live(n)', n \notin spoilt'
  PROVE  Shown(n)'
  <1> USE DEF Ready
  <1>0. n \notin spoilt
    BY SpoiltGrows
  <1>1. CASE n \in 1 .. Len(index)
    <2>1. Live(n)
      BY <1>1, SameKeeps DEF Stepped, Keeps
    <2>2. Shown(n)
      BY <1>0, <1>1, <2>1 DEF IInv, Showing
    <2>3. CASE Long(n)
      BY <1>1, <2>1, <2>3, LongShows
    <2>4. CASE \E q \in Procs : q # p /\ Midway(q) /\ arg[q] = n
      <3>1. PICK q \in Procs : q # p /\ Midway(q) /\ arg[q] = n
        BY <2>4
      <3>2. Midway(q)' /\ arg'[q] = n
        BY <3>1, MidwayOthers
      <3>3. QED
        BY <3>2 DEF Shown
    <2>5. CASE Midway(p) /\ arg[p] = n
      <3>1. CASE Reindex(p)
        BY <1>1, <2>1, <2>5, <3>1, ReindexShows
      <3>2. CASE Restart(p)
        BY <2>5, <3>2 DEF Restart
      <3>3. CASE Unindex(p)
        <4>1. index' = [index EXCEPT ![n] = NoOffset]
          BY <2>5, <3>3 DEF Unindex
        <4>2. index'[n] = NoOffset
          BY <1>1, <4>1 DEF FilesTyped
        <4>3. QED
          BY <4>2 DEF Live
      <3>4. CASE AppendHead(p) \/ AppendFields(p) \/ Erase(p)
        <4>1. Midway(p)' /\ arg'[p] = n
          BY <2>5, <3>4 DEF AppendHead, AppendFields, Erase, Work, Enter, Placed, Midway
        <4>2. QED
          BY <4>1 DEF Shown
      <3>5. \/ Reindex(p) \/ Restart(p) \/ Unindex(p) \/ AppendHead(p) \/ AppendFields(p)
            \/ Erase(p)
        BY <2>5, MidwaySteps
      <3>6. QED
        BY <3>1, <3>2, <3>3, <3>4, <3>5
    <2>6. QED
      BY <2>2, <2>3, <2>4, <2>5 DEF Shown, Long
  <1>2. CASE n \notin 1 .. Len(index)
    <2>1. AppendIndex(p)
      BY <1>2, IndexGrows
    <2>2. /\ index \in Seq(Nat) /\ index' = Append(index, at[p]) /\ at[p] \in Nat
          /\ msgs' = msgs /\ op[p] = "add" /\ msgs[at[p]].head = new[p] /\ new[p].long
      BY <2>1 DEF AppendIndex, Counted, FilesTyped, LocalsTyped, KnownTo, OnRoute, Appended,
                  Written, IInv, Showing
    <2>3. n = Len(index) + 1 /\ index'[Len(index) + 1] = at[p]
      BY <1>2, <2>2, AppendProperties
    <2>4. QED
      BY <2>2, <2>3 DEF Shown
  <1>3. QED
    BY <1>1, <1>2

\* The copies of messages that are not spoilt have the length of their text.
LEMMA CopiesLong ==
  ASSUME NEW p \in Procs, IInv, Ready(p), Stepped(p), NewCall(p) \/ Step(p) \/ Restart(p),
         NEW q \in Procs, Live(have[q])', have'[q] \notin spoilt'
  PROVE  msg'[q].long
  <1> USE DEF Ready
  <1>1. ASSUME have'[q] = have[q]
        PROVE  Live(have[q]) /\ msg[q].long
    <2>1. have[q] \in 1 .. Len(index)
      BY <1>1 DEF Live, IInv, KnownTo, Copied
    <2>2. Live(have[q])'  <=> (have[q] \in 1 .. Len(index') /\ index'[have[q]] # NoOffset)
      BY <1>1 DEF Live
    <2>3. \A n \in 1 .. Len(index) : n \in 1 .. Len(index') /\ index'[n] # NoOffset => Live(n)
      BY SameKeeps DEF Stepped, Keeps, Live
    <2>4. Live(have[q])
      BY <2>1, <2>2, <2>3
    <2>5. have[q] \notin spoilt
      BY <1>1, SpoiltGrows
    <2>6. QED
      BY <2>4, <2>5 DEF IInv, Showing
  <1>2. CASE have'[q] = have[q] /\ msg'[q] = msg[q]
    BY <1>1, <1>2
  <1>3. CASE q = p /\ NewCall(p)
    <2>1. have' = have
      BY <1>3 DEF NewCall, CallAdd, CallGet, CallDel, CallPut
    <2>2. msg[p].long
      BY <1>1, <1>3, <2>1
    <2>3. msg'[p].long = msg[p].long
      <3>1. CASE \E s \in Sizes : CallPut(p, s)
        <4>1. PICK s \in Sizes : CallPut(p, s)
          BY <3>1
        <4>2. s \in Nat /\ msg[p] \in Message
          BY MessagesAssumption DEF MessagesAssumption, LocalsTyped
        <4>3. PICK m \in Message : /\ m = [msg[p] EXCEPT !.times = @ + 1, !.size = s]
                                   /\ m.long = msg[p].long
          BY <4>2, EditPut
        <4>4. msg' = [msg EXCEPT ![p] = m]
          BY <4>1, <4>3 DEF CallPut
        <4>5. QED
          BY <4>3, <4>4 DEF LocalsTyped
      <3>2. CASE ~ \E s \in Sizes : CallPut(p, s)
        BY <1>3, <3>2 DEF NewCall, CallAdd, CallGet, CallDel
      <3>3. QED
        BY <3>1, <3>2
    <2>4. QED
      BY <1>3, <2>2, <2>3
  <1>4. CASE q = p /\ Restart(p)
    <2>1. have'[p] = 0
      BY <1>4 DEF Restart, LocalsTyped
    <2>2. QED
      BY <1>4, <2>1 DEF Live
  <1>5. CASE q = p /\ FindGet(p)
    <2>1. /\ pc[p] = "find" /\ op[p] = "get" /\ index[arg[p]] # NoOffset
          /\ msg'[p] = Found(p) /\ have'[p] = arg[p] /\ index' = index /\ spoilt' = spoilt
      BY <1>5 DEF FindGet, Work, LocalsTyped
    <2>2. Live(arg[p])
      BY <2>1 DEF KnownTo, Asked, Live
    <2>3. Shown(arg[p])
      BY <1>5, <2>1, <2>2 DEF IInv, Showing, Live
    <2>4. Inside(p) /\ ~ Midway(p)
      BY <2>1 DEF Inside, Midway
    <2>5. ~ \E r \in Procs : Midway(r)
      BY <2>4, MidwayAlone DEF IInv
    <2>6. QED
      BY <1>5, <2>1, <2>3, <2>5 DEF Shown, Found
  <1>6. CASE q = p /\ FindChange(p)
    <2>1. /\ have' = have /\ index[arg[p]] # NoOffset /\ op[p] \in {"put", "del"}
          /\ msg'[p] = IF op[p] = "put" THEN Normalized(p, msg[p]) ELSE msg[p]
      BY <1>6 DEF FindChange, LocalsTyped
    <2>2. msg[p].long
      BY <1>1, <1>6, <2>1
    <2>3. arg[p] \in 1 .. Len(index)
      BY <2>1 DEF KnownTo, Asked
    <2>4. Found(p) \in Message /\ msg[p] \in Message
      BY <2>1, <2>3, FoundThere DEF LocalsTyped
    <2>5. Normalized(p, msg[p]).long = msg[p].long
      BY <2>4, NormalizedMessage
    <2>6. QED
      BY <1>6, <2>1, <2>2, <2>5
  <1>7. CASE q = p /\ Step(p) /\ ~ FindGet(p) /\ ~ FindChange(p)
    <2>1. have' = have /\ msg' = msg
      BY <1>7 DEF Step, Locked, HeaderRead, Return, FindFails, Mark, Erase, Unindex, AppendText,
         AppendHead, AppendFields, AppendIndex, Reindex, InPlace, InPlaceFields, jamVars
    <2>2. QED
      BY <1>2, <2>1
  <1>8. CASE q # p
    BY <1>2, <1>8, LocalsOthers
  <1>9. QED
    BY <1>3, <1>4, <1>5, <1>6, <1>7, <1>8

\* A message that is being added has the length of its text.
LEMMA NewLong ==
  ASSUME NEW p \in Procs, IInv, Ready(p), NewCall(p) \/ Step(p) \/ Restart(p),
         NEW q \in Procs, op'[q] = "add", pc'[q] \in {"append", "fields", "index"}
  PROVE  new'[q].long
  <1> USE DEF Ready, Placed, Enter, Leave
  <1>1. CASE q # p
    <2>1. pc'[q] = pc[q] /\ op'[q] = op[q]
      BY <1>1, MessagesSkeleton, SkeletonOthers
    <2>2. new'[q] = new[q]
      BY <1>1, LocalsOthers
    <2>3. QED
      BY <2>1, <2>2 DEF IInv, Showing
  <1>2. CASE q = p /\ AppendText(p)
    <2>1. new[p] \in Message
      BY DEF LocalsTyped
    <2>2. PICK t \in Nat, k \in Nat : t = Len(texts) + 1 /\ k = Len(index) + Base
      BY MessagesAssumption DEF MessagesAssumption, FilesTyped
    <2>3. PICK m : m = [new[p] EXCEPT !.text = t, !.long = TRUE, !.num = k] /\ m.long = TRUE
      <3>1. [new[p] EXCEPT !.text = t, !.long = TRUE, !.num = k].long = TRUE
        BY <2>1, EditAdd
      <3>2. QED
        BY <3>1
    <2>4. new' = [new EXCEPT ![p] = m]
      BY <1>2, <2>2, <2>3 DEF AppendText
    <2>5. QED
      BY <1>2, <2>3, <2>4 DEF LocalsTyped
  <1>3. CASE q = p /\ (AppendHead(p) \/ AppendFields(p))
    BY <1>3 DEF AppendHead, AppendFields, Work, IInv, Showing
  <1>4. CASE q = p /\ (NewCall(p) \/ Restart(p))
    BY <1>4 DEF NewCall, CallAdd, CallGet, CallDel, CallPut, Called, Restart, Restarted
  <1>5. CASE q = p /\ (\/ Locked(p) \/ HeaderRead(p) \/ LockSleeps(p) \/ LockFails(p)
                       \/ FindFails(p) \/ WriteHeader(p) \/ Unlock(p))
    BY <1>5 DEF Locked, LockTaken, HeaderRead, ReadHeader, LockSleeps, LockFails,
                FindFails, ReturnError, WriteHeader, Unlock
  <1>6. CASE q = p /\ (\/ FindGet(p) \/ FindChange(p) \/ Mark(p) \/ Erase(p) \/ InPlace(p)
                       \/ InPlaceFields(p))
    BY <1>6 DEF FindGet, FindChange, Mark, Erase, InPlace, InPlaceFields, Work, KnownTo, OnRoute
  <1>7. CASE q = p /\ (Unindex(p) \/ AppendIndex(p) \/ Reindex(p))
    BY <1>7 DEF Unindex, AppendIndex, Reindex, Counted
  <1>8. QED
    BY <1>1, <1>2, <1>3, <1>4, <1>5, <1>6, <1>7 DEF Step

\* What shows its text goes on to.
LEMMA ShowingKept ==
  ASSUME NEW p \in Procs, IInv, Ready(p), Stepped(p), NewCall(p) \/ Step(p) \/ Restart(p)
  PROVE  Showing'
  BY RecordsShow, CopiesLong, NewLong DEF Showing

-----------------------------------------------------------------------------
(***************************************************************************)
(* The inductive invariant, and what follows from it.                      *)
(***************************************************************************)
LEMMA InitIInv == Init => IInv
  <1> SUFFICES ASSUME Init PROVE IInv
    OBVIOUS
  <1>1. CallTypeOK /\ CallInv
    BY SkeletonInit DEF Init
  <1>2. /\ Len(msgs) = 0 /\ Len(texts) = 0 /\ Len(index) = 0
        /\ msgs \in Seq(Slot) /\ texts \in Seq(Texts) /\ index \in Seq(Nat)
    BY DEF Init
  <1>3. Placed /\ FilesTyped
    BY <1>2 DEF Init, CallInit, Placed, Stages, FilesTyped
  <1>4. LocalsTyped
    BY MessageFields DEF Init, LocalsTyped
  <1>5. TypeOK /\ texts \in Seq(Texts)
    BY <1>1, <1>3, <1>4, TypeParts
  <1>6. IndexSound
    BY <1>2 DEF IndexSound
  <1>7. \A p \in Procs : pc[p] = "idle" /\ op[p] = "none" /\ have[p] = 0
    BY DEF Init, CallInit
  <1>8. FitsInPlace
    BY <1>7 DEF FitsInPlace
  <1>9. \A p \in Procs : KnownTo(p)
    BY <1>7 DEF KnownTo, OnRoute, Asked, Copied, Numbered, Changed, Appended
  <1>10. Counting
    <2>1. Alive = {}
      BY <1>2 DEF Alive
    <2>2. Cardinality(Alive) = 0
      BY <2>1, FS_EmptySet
    <2>3. hdr.active = 0
      BY DEF Init, CallInit, NoHeader
    <2>4. QED
      BY <1>7, <2>2, <2>3 DEF Counting
  <1>11. Showing
    BY <1>2, <1>7 DEF Showing, Live
  <1>12. QED
    BY <1>1, <1>5, <1>6, <1>8, <1>9, <1>10, <1>11 DEF IInv

\* What a step of one process starts from.
LEMMA InvReady ==
  ASSUME IInv, NEW p \in Procs PROVE Ready(p)
  BY TypeParts DEF IInv, Ready, FitsInPlace, FitsOf

\* Every step keeps the inductive invariant.
LEMMA NextIInv == IInv /\ [Next]_vars => IInv'
  <1>1. ASSUME IInv, UNCHANGED vars PROVE IInv'
    <2>1. TypeOK' /\ (texts \in Seq(Texts))' /\ CallInv'
      BY <1>1 DEF vars, callVars, jamVars, IInv, TypeOK, CallTypeOK, LockTypeOK, CallInv, Inside
    <2>2. IndexSound' /\ FitsInPlace'
      BY <1>1 DEF vars, callVars, jamVars, IInv, IndexSound, Complete, Live, FitsInPlace
    <2>3. ASSUME NEW p \in Procs PROVE KnownTo(p)'
      BY <1>1 DEF vars, callVars, jamVars, IInv, KnownTo, OnRoute, Asked, Copied, Numbered,
                  Changed, Appended, Live, Says, Found, Written
    <2>4. Counting'
      BY <1>1 DEF vars, callVars, jamVars, IInv, Counting, Alive, Live
    <2>5. Showing'
      BY <1>1 DEF vars, callVars, jamVars, IInv, Showing, Shown, Midway, Live
    <2>6. QED
      BY <2>1, <2>2, <2>3, <2>4, <2>5 DEF IInv
  <1>2. ASSUME IInv, NEW p \in Procs, NewCall(p) \/ Step(p) \/ Restart(p) PROVE IInv'
    <2>1. Ready(p) /\ Stepped(p)
      BY <1>2, InvReady, AllSteps
    <2>2. Skeleton(p) /\ CallTypeOK /\ Placed /\ CallInv /\ FilesTyped /\ LocalsTyped
      BY <1>2, <2>1, MessagesSkeleton DEF IInv, Ready
    <2>3. CallTypeOK' /\ CallInv'
      BY <2>2, SkeletonInv DEF Placed
    <2>4. Placed'
      BY <1>2, <2>2, PlacedKept
    <2>5. TypeOK' /\ (texts \in Seq(Texts))'
      <3>1. (TypeOK /\ texts \in Seq(Texts) <=> CallTypeOK /\ Placed /\ FilesTyped /\ LocalsTyped)'
        BY TypeParts, PTL
      <3>2. QED
        BY <2>1, <2>3, <2>4, <3>1 DEF Stepped
    <2>6. ASSUME NEW q \in Procs, q # p PROVE KnownTo(q)' /\ FitsOf(q)'
      <3>1. pc'[q] = pc[q] /\ op'[q] = op[q]
        BY <2>2, <2>6, SkeletonOthers DEF Placed
      <3>2. /\ arg'[q] = arg[q] /\ body'[q] = body[q] /\ old'[q] = old[q] /\ new'[q] = new[q]
            /\ at'[q] = at[q] /\ msg'[q] = msg[q] /\ have'[q] = have[q]
        BY <1>2, <2>2, <2>6, LocalsOthers
      <3>3. FilesSame \/ (Keeps /\ ~ Inside(q))
        BY <2>1, <2>2, <2>6 DEF Stepped, CallInv
      <3>4. KnownTo(q) /\ FitsOf(q)
        BY <1>2, InvReady DEF Ready
      <3>5. QED
        BY <2>2, <3>1, <3>2, <3>3, <3>4, OthersKnow, OthersFit
    <2>7. \A q \in Procs : KnownTo(q)' /\ FitsOf(q)'
      BY <2>1, <2>6 DEF Stepped
    <2>8. FitsInPlace'
      BY <2>7 DEF FitsInPlace, FitsOf
    <2>9. Counting'
      BY <1>2, <2>1, CountKept DEF IInv
    <2>10. Showing'
      BY <1>2, <2>1, ShowingKept
    <2>11. QED
      BY <2>1, <2>3, <2>5, <2>7, <2>8, <2>9, <2>10 DEF IInv, Stepped
  <1>3. QED
    BY <1>1, <1>2 DEF Next

(***************************************************************************)
(* However the processes interleave, are refused the lock and die: what a  *)
(* call knows of the files under the lock is so, stage by stage.           *)
(***************************************************************************)
THEOREM MessagesInductive == Spec => []IInv
  BY InitIInv, NextIInv, PTL DEF Spec

(***************************************************************************)
(* The files and the callers' variables keep their types: no delete marks  *)
(* a record with something that is not an offset.                          *)
(***************************************************************************)
THEOREM MessagesTyped == Spec => []TypeOK
  <1>1. IInv => TypeOK
    BY DEF IInv
  <1>2. QED
    BY <1>1, MessagesInductive, PTL

(***************************************************************************)
(* A record of the index points to a complete message with the number of   *)
(* the record, and no two records share a message or a text.               *)
(***************************************************************************)
THEOREM MessagesIndex == Spec => []IndexSound
  <1>1. IInv => IndexSound
    BY DEF IInv
  <1>2. QED
    BY <1>1, MessagesInductive, PTL

(***************************************************************************)
(* A put that is written over the old message never runs into the message  *)
(* behind it.                                                              *)
(***************************************************************************)
THEOREM MessagesFit == Spec => []FitsInPlace
  <1>1. IInv => FitsInPlace
    BY DEF IInv
  <1>2. QED
    BY <1>1, MessagesInductive, PTL

(***************************************************************************)
(* When nobody is in a call active_msgs is the number of the messages,     *)
(* unless a process died between its change and the header.                *)
(***************************************************************************)
THEOREM MessagesCounted == Spec => []ActiveCount
  <1>1. IInv => ActiveCount
    <2>1. Alive = {n \in 1 .. Len(index) : Live(n)}
      BY DEF Alive
    <2>2. QED
      BY <2>1 DEF IInv, Counting, ActiveCount, Inside
  <1>2. QED
    BY <1>1, MessagesInductive, PTL

(***************************************************************************)
(* One process at a time is at the files of the base, the header it has    *)
(* read is still true when it writes it back, and a revision belongs to    *)
(* one object.                                                             *)
(***************************************************************************)
THEOREM MessagesExclusive == Spec => [](Exclusive /\ RevisionInv)
  <1>1. IInv => Exclusive /\ RevisionInv
    BY CallInvEnough DEF IInv, TypeOK
  <1>2. QED
    BY <1>1, MessagesInductive, PTL


-----------------------------------------------------------------------------
(***************************************************************************)
(* The base is the archive.                                                *)
(***************************************************************************)
\* A function that goes on for one place is the sequence with an element more.
LEMMA AppendAs ==
  ASSUME NEW N \in Nat, NEW a, NEW b, NEW r,
         a = [n \in 1 .. N |-> a[n]], b = [n \in 1 .. N + 1 |-> b[n]],
         \A n \in 1 .. N : b[n] = a[n], b[N + 1] = r
  PROVE  b = Append(a, r)
  <1> DEFINE S == {b[n] : n \in 1 .. N + 1}
  <1>1. a \in [1 .. N -> S]
    <2>1. \A n \in 1 .. N : n \in 1 .. N + 1 /\ a[n] = b[n]
      OBVIOUS
    <2>2. QED
      BY <2>1
  <1>2. b \in [1 .. N + 1 -> S] /\ r \in S
    OBVIOUS
  <1> HIDE DEF S
  <1>3. a \in Seq(S) /\ Len(a) = N
    BY <1>1, SeqDef
  <1>4. b \in Seq(S) /\ Len(b) = N + 1
    BY <1>2, SeqDef
  <1>5. PICK c : c = Append(a, r)
    OBVIOUS
  <1>6. /\ c \in Seq(S) /\ Len(c) = N + 1
        /\ \A n \in 1 .. N : c[n] = a[n]
        /\ c[N + 1] = r
    <2>1. r \in S /\ a \in Seq(S)
      BY <1>2, <1>3
    <2>2. /\ Append(a, r) \in Seq(S)
          /\ Len(Append(a, r)) = Len(a) + 1
          /\ \A n \in 1 .. Len(a) : Append(a, r)[n] = a[n]
          /\ Append(a, r)[Len(a) + 1] = r
      BY <2>1, AppendProperties
    <2>3. QED
      BY <1>3, <1>5, <2>2
  <1>7. ASSUME NEW n \in 1 .. N + 1 PROVE b[n] = c[n]
    <2>1. n \in 1 .. N \/ n = N + 1
      OBVIOUS
    <2>2. CASE n \in 1 .. N
      BY <1>6, <2>2
    <2>3. CASE n = N + 1
      BY <1>6, <2>3
    <2>4. QED
      BY <2>1, <2>2, <2>3
  <1>8. b = c
    BY <1>4, <1>6, <1>7, SeqEqual
  <1>9. QED
    BY <1>5, <1>8

\* What the readers see, given that the index is sound.
Seen(n) ==
    IF Live(n) THEN [num |-> n - 1 + Base, text |-> texts[Says(n)], shown |-> Shown(n)]
    ELSE Gone

\* The archive, record by record, when the index is sound.
LEMMA ArchiveSeen ==
  ASSUME FilesTyped, IndexSound
  PROVE  /\ archive = [n \in 1 .. Len(index) |-> Seen(n)]
         /\ Len(archive) = Len(index)
         /\ \A n \in 1 .. Len(index) : archive[n] = Seen(n)
  <1>1. Len(index) \in Nat
    BY DEF FilesTyped
  <1>2. ASSUME NEW n \in 1 .. Len(index) PROVE archive[n] = Seen(n)
    <2>1. CASE Live(n)
      <3>1. Complete(n) /\ index[n] # NoOffset
        BY <2>1 DEF IndexSound, Live
      <3>2. QED
        BY <2>1, <3>1 DEF archive, Seen, Complete, Says
    <2>2. CASE ~ Live(n)
      BY <2>2 DEF archive, Seen, Live
    <2>3. QED
      BY <2>1, <2>2
  <1>3. archive = [n \in 1 .. Len(index) |-> Seen(n)]
    <2>1. archive = [n \in 1 .. Len(index) |-> archive[n]]
      BY DEF archive
    <2>2. QED
      BY <1>2, <2>1
  <1>4. Len([n \in 1 .. Len(index) |-> Seen(n)]) = Len(index)
    BY <1>1
  <1>5. QED
    BY <1>2, <1>3, <1>4

\* No text is overwritten.
LEMMA TextsKept ==
  ASSUME NEW p \in Procs, Ready(p), NewCall(p) \/ Step(p) \/ Restart(p),
         NEW i \in 1 .. Len(texts)
  PROVE  texts'[i] = texts[i]
  <1>1. CASE UNCHANGED texts
    BY <1>1
  <1>2. CASE AppendText(p)
    <2>1. texts \in Seq(Texts) /\ body[p] \in Texts /\ texts' = Append(texts, body[p])
      BY <1>2 DEF AppendText, Work, Ready, FilesTyped, KnownTo, OnRoute, Asked
    <2>2. QED
      BY <2>1, AppendProperties
  <1>3. CASE Erase(p)
    BY <1>1, <1>3 DEF Erase, Work, Ready, KnownTo, Changed
  <1>4. UNCHANGED texts \/ AppendText(p) \/ Erase(p)
    BY DEF NewCall, CallAdd, CallGet, CallDel, CallPut, Restart, Step, Locked, HeaderRead,
           Return, FindFails, FindGet, FindChange, Mark, Unindex, AppendHead, AppendFields,
           AppendIndex, Reindex, InPlace, InPlaceFields, jamVars
  <1>5. QED
    BY <1>1, <1>2, <1>3, <1>4

\* Whether a text is shown is yes or no.
LEMMA ShownBoolean ==
  ASSUME NEW n PROVE Shown(n) \in BOOLEAN
  BY DEF Shown

\* A record that the call is not about shows its text as before.
LEMMA ShownKept ==
  ASSUME NEW p \in Procs, Ready(p), NewCall(p) \/ Step(p) \/ Restart(p),
         NEW n \in 1 .. Len(index), Live(n), Live(n)', n # arg[p] \/ AppendIndex(p)
  PROVE  Shown(n)' <=> Shown(n)
  <1>1. AppendIndex(p) => ~ (Mark(p) \/ InPlace(p) \/ Reindex(p) \/ Midway(p))
    BY DEF AppendIndex, Mark, InPlace, Reindex, Counted, Work, Midway
  <1>2. Long(n)' = Long(n)
    BY <1>1, LongKept
  <1>3. ~ (Midway(p) /\ arg[p] = n)
    BY <1>1
  <1>4. ~ (Midway(p)' /\ arg'[p] = n)
    <2>1. ASSUME Midway(p)', arg'[p] = n PROVE FALSE
      <3>1. arg'[p] = arg[p] /\ (Mark(p) \/ Midway(p))
        BY <2>1, MidwaySelf
      <3>2. QED
        BY <1>1, <2>1, <3>1
    <2>2. QED
      BY <2>1
  <1>5. ASSUME NEW q \in Procs
        PROVE  (Midway(q)' /\ arg'[q] = n) <=> (Midway(q) /\ arg[q] = n)
    <2>1. CASE q = p
      BY <1>3, <1>4, <2>1
    <2>2. CASE q # p
      BY <2>2, MidwayOthers
    <2>3. QED
      BY <2>1, <2>2
  <1>6. QED
    BY <1>2, <1>5 DEF Shown, Long

\* A message that stays keeps its text, and is shown as it was unless the call is
\* about it.
LEMMA SeenText ==
  ASSUME NEW p \in Procs, Ready(p), Stepped(p), NewCall(p) \/ Step(p) \/ Restart(p),
         NEW n \in 1 .. Len(index), Live(n), Live(n)'
  PROVE  texts'[Says(n)'] = texts[Says(n)]
  <1>1. Keeps
    BY SameKeeps DEF Stepped, Ready
  <1>2. Says(n)' = Says(n)
    BY <1>1 DEF Keeps
  <1>3. Says(n) \in 1 .. Len(texts)
    BY DEF Ready, IndexSound, Complete, Says
  <1>4. texts'[Says(n)] = texts[Says(n)]
    BY <1>3, TextsKept
  <1>5. QED
    BY <1>2, <1>4

LEMMA SeenSame ==
  ASSUME NEW p \in Procs, Ready(p), Stepped(p), NewCall(p) \/ Step(p) \/ Restart(p),
         NEW n \in 1 .. Len(index), Live(n)' <=> Live(n),
         Live(n) => (Shown(n)' <=> Shown(n))
  PROVE  Seen(n)' = Seen(n)
  <1>1. CASE Live(n)
    <2>1. texts'[Says(n)'] = texts[Says(n)]
      BY <1>1, SeenText
    <2>2. Shown(n)' = Shown(n)
      <3>1. Shown(n) \in BOOLEAN
        BY ShownBoolean
      <3>2. Shown(n)' \in BOOLEAN
        BY DEF Shown
      <3>3. QED
        BY <1>1, <3>1, <3>2
    <2>3. QED
      BY <1>1, <2>1, <2>2 DEF Seen
  <1>2. CASE ~ Live(n)
    BY <1>2 DEF Seen
  <1>3. QED
    BY <1>1, <1>2

\* The place of a message that is live is not empty.
LEMMA LiveThere ==
  ASSUME NEW p \in Procs, Ready(p), NEW n \in 1 .. Len(index), Live(n)
  PROVE  archive[n] # Gone
  <1>1. Says(n) \in 1 .. Len(texts) /\ texts \in Seq(Texts)
    BY DEF Ready, IndexSound, Complete, Says, FilesTyped
  <1>2. archive[n] = [num |-> n - 1 + Base, text |-> texts[Says(n)], shown |-> Shown(n)]
    BY ArchiveSeen DEF Ready, Seen
  <1>3. archive[n].text \in Texts
    BY <1>1, <1>2
  <1>4. Gone.text = Erased /\ Erased \notin Texts
    BY MessagesAssumption DEF Gone, MessagesAssumption
  <1>5. QED
    BY <1>3, <1>4

\* An add is the archive's Add, when the record of the index is written.
LEMMA AddStep ==
  ASSUME NEW p \in Procs, IInv, Ready(p), Stepped(p), AppendIndex(p)
  PROVE  \E t \in Texts : Store!Add(t)
  <1> DEFINE t == texts[new[p].text]
  <1>1. /\ index \in Seq(Nat) /\ Len(index) \in Nat /\ index' = Append(index, at[p])
        /\ at[p] \in Nat /\ at[p] # NoOffset /\ at[p] \in 1 .. Len(msgs)
        /\ msgs' = msgs /\ texts' = texts /\ texts \in Seq(Texts)
        /\ msgs[at[p]].head = new[p] /\ new[p].text \in 1 .. Len(texts)
        /\ new[p].long = TRUE /\ spoilt' = spoilt
    <2>1. op[p] = "add" /\ pc[p] = "index"
      BY DEF AppendIndex, Counted, Ready, KnownTo, OnRoute
    <2>2. new[p].long = TRUE
      BY <2>1, MessageFields DEF IInv, Showing, Ready, LocalsTyped
    <2>3. QED
      BY <2>1, <2>2 DEF AppendIndex, Ready, FilesTyped, LocalsTyped, KnownTo, Appended,
                        Numbered, Written, NoOffset
  <1>2. /\ Len(index') = Len(index) + 1 /\ index'[Len(index) + 1] = at[p]
        /\ \A k \in 1 .. Len(index) : index'[k] = index[k]
    BY <1>1, AppendProperties
  <1>3. t \in Texts
    BY <1>1
  <1>4. /\ archive = [n \in 1 .. Len(index) |-> Seen(n)] /\ Len(archive) = Len(index)
    BY ArchiveSeen DEF Ready
  <1>5. archive' = [n \in 1 .. Len(index) + 1 |-> archive'[n]]
        /\ \A n \in 1 .. Len(index) + 1 : archive'[n] = Seen(n)'
    <2>1. (FilesTyped /\ IndexSound =>
            /\ archive = [n \in 1 .. Len(index) |-> Seen(n)]
            /\ Len(archive) = Len(index)
            /\ \A n \in 1 .. Len(index) : archive[n] = Seen(n))'
      BY ArchiveSeen, PTL
    <2>2. QED
      BY <1>2, <2>1 DEF Stepped
  <1>6. ASSUME NEW n \in 1 .. Len(index) PROVE archive'[n] = archive[n]
    <2>1. Live(n)' <=> Live(n)
      BY <1>1, <1>2 DEF Live
    <2>2. Live(n) => (Shown(n)' <=> Shown(n))
      BY <2>1, ShownKept DEF Step
    <2>3. Seen(n)' = Seen(n)
      BY <2>1, <2>2, SeenSame DEF Step
    <2>4. QED
      BY <1>1, <1>4, <1>5, <2>3
  <1>7. ASSUME NEW n \in Nat, n = Len(index) + 1
        PROVE  archive'[n] = [num |-> Len(index) + Base, text |-> t, shown |-> TRUE]
    <2>1. Live(n)' /\ Says(n)' = new[p].text
      BY <1>1, <1>2, <1>7 DEF Live, Says
    <2>2. n - 1 + Base = Len(index) + Base
      BY <1>1, <1>7, MessagesAssumption DEF MessagesAssumption
    <2>3. archive'[n] = Seen(n)'
      BY <1>1, <1>5, <1>7
    <2>4. Shown(n)' = TRUE
      BY <1>1, <1>2, <1>7 DEF Shown
    <2>5. QED
      BY <1>1, <2>1, <2>2, <2>3, <2>4 DEF Seen
  <1>8. archive' = Append(archive, [num |-> Len(archive) + Base, text |-> t, shown |-> TRUE])
    <2>1. archive = [n \in 1 .. Len(index) |-> archive[n]]
      BY <1>4
    <2>2. PICK N \in Nat : N = Len(index)
      BY <1>1
    <2>3. PICK b : b = archive'
      OBVIOUS
    <2>4. PICK r : r = [num |-> Len(index) + Base, text |-> t, shown |-> TRUE]
      OBVIOUS
    <2>5. b[N + 1] = r
      <3>1. PICK k \in Nat : k = N + 1
        BY <2>2
      <3>2. archive'[k] = r
        BY <1>7, <2>2, <2>4, <3>1
      <3>3. QED
        BY <2>3, <3>1, <3>2
    <2>6. b = Append(archive, r)
      BY <1>5, <1>6, <2>1, <2>2, <2>3, <2>5, AppendAs
    <2>7. QED
      BY <1>4, <2>3, <2>4, <2>6
  <1>9. QED
    BY <1>1, <1>3, <1>8 DEF Store!Add

\* A delete is the archive's Delete, when the record of the index is overwritten.
LEMMA DeleteStep ==
  ASSUME NEW p \in Procs, Ready(p), Stepped(p), Unindex(p)
  PROVE  \E n \in 1 .. Len(archive) : Store!Delete(n)
  <1>1. /\ index \in Seq(Nat) /\ Len(index) \in Nat
        /\ index' = [index EXCEPT ![arg[p]] = NoOffset]
        /\ Live(arg[p]) /\ arg[p] \in 1 .. Len(index) /\ spoilt' = spoilt
    BY DEF Unindex, Counted, Ready, FilesTyped, KnownTo, Changed, Live
  <1>2. /\ Len(index') = Len(index)
        /\ \A k \in 1 .. Len(index) : index'[k] = IF k = arg[p] THEN NoOffset ELSE index[k]
    BY <1>1, ExceptSeq DEF NoOffset
  <1>3. /\ archive = [n \in 1 .. Len(index) |-> Seen(n)] /\ Len(archive) = Len(index)
    BY ArchiveSeen DEF Ready
  <1>4. archive' = [n \in 1 .. Len(index) |-> archive'[n]]
        /\ \A n \in 1 .. Len(index) : archive'[n] = Seen(n)'
    <2>1. (FilesTyped /\ IndexSound =>
            /\ archive = [n \in 1 .. Len(index) |-> Seen(n)]
            /\ Len(archive) = Len(index)
            /\ \A n \in 1 .. Len(index) : archive[n] = Seen(n))'
      BY ArchiveSeen, PTL
    <2>2. QED
      BY <1>2, <2>1 DEF Stepped
  <1>5. archive[arg[p]] # Gone
    BY <1>1, LiveThere
  <1>6. \A n \in 1 .. Len(index) : archive'[n] = IF n = arg[p] THEN Gone ELSE archive[n]
    <2>1. ASSUME NEW n \in 1 .. Len(index), n = arg[p] PROVE archive'[n] = Gone
      <3>1. ~ Live(n)'
        BY <1>2, <2>1 DEF Live
      <3>2. QED
        BY <1>4, <3>1 DEF Seen
    <2>2. ASSUME NEW n \in 1 .. Len(index), n # arg[p] PROVE archive'[n] = archive[n]
      <3>1. Live(n)' <=> Live(n)
        BY <1>1, <1>2, <2>2 DEF Live
      <3>2. Live(n) => (Shown(n)' <=> Shown(n))
        BY <2>2, <3>1, ShownKept DEF Step
      <3>3. Seen(n)' = Seen(n)
        BY <3>1, <3>2, SeenSame DEF Step
      <3>4. QED
        BY <1>3, <1>4, <3>3
    <2>3. QED
      BY <2>1, <2>2
  <1>7. archive' = [archive EXCEPT ![arg[p]] = Gone]
    <2>1. [archive EXCEPT ![arg[p]] = Gone] =
            [n \in 1 .. Len(index) |-> IF n = arg[p] THEN Gone ELSE archive[n]]
      BY <1>3
    <2>2. QED
      BY <1>4, <1>6, <2>1
  <1>8. QED
    BY <1>1, <1>3, <1>5, <1>7 DEF Store!Delete

\* Only the record that the call is about is spoilt, and it is live.
LEMMA SpoiltSelf ==
  ASSUME NEW p \in Procs, Ready(p), NewCall(p) \/ Step(p) \/ Restart(p)
  PROVE  spoilt' = spoilt \/ (spoilt' = spoilt \cup {arg[p]} /\ Live(arg[p]))
  <1>1. CASE Reindex(p)
    BY <1>1 DEF Reindex, Counted, Ready, KnownTo, Changed
  <1>2. CASE Restart(p)
    BY <1>2 DEF Restart, Midway, Ready, KnownTo, OnRoute, Changed
  <1>3. spoilt' = spoilt \/ Restart(p) \/ Reindex(p)
    BY DEF NewCall, CallAdd, CallGet, CallDel, CallPut, Step, Locked, HeaderRead, Return,
           FindFails, FindGet, FindChange, Mark, Erase, Unindex, AppendText, AppendHead,
           AppendFields, AppendIndex, InPlace, InPlaceFields, jamVars
  <1>4. QED
    BY <1>1, <1>2, <1>3

\* Every other step leaves the archive as it is, but for the text of a record that
\* is spoilt.
LEMMA OtherStep ==
  ASSUME NEW p \in Procs, IInv, Ready(p), Stepped(p), NewCall(p) \/ Step(p) \/ Restart(p),
         ~ AppendIndex(p), ~ Unindex(p)
  PROVE  \/ UNCHANGED <<archive, spoilt>>
         \/ \E n \in 1 .. Len(archive) : Store!Change(n) \/ Store!Damage(n)
  <1>1. Alive' = Alive
    BY AliveSame
  <1>2. Len(index') = Len(index)
    BY IndexGrows
  <1>3. \A n \in 1 .. Len(index) : Live(n)' <=> Live(n)
    BY <1>1, <1>2 DEF Alive
  <1>4. ASSUME NEW n \in 1 .. Len(index), n # arg[p] PROVE Seen(n)' = Seen(n)
    <2>1. Live(n) => (Shown(n)' <=> Shown(n))
      BY <1>3, <1>4, ShownKept
    <2>2. QED
      BY <1>3, <2>1, SeenSame
  <1>5. /\ archive = [n \in 1 .. Len(index) |-> Seen(n)] /\ Len(archive) = Len(index)
        /\ \A n \in 1 .. Len(index) : archive[n] = Seen(n)
    BY ArchiveSeen DEF Ready
  <1>6. archive' = [n \in 1 .. Len(index) |-> Seen(n)']
    <2>1. (FilesTyped /\ IndexSound =>
            /\ archive = [n \in 1 .. Len(index) |-> Seen(n)]
            /\ Len(archive) = Len(index)
            /\ \A n \in 1 .. Len(index) : archive[n] = Seen(n))'
      BY ArchiveSeen, PTL
    <2>2. QED
      BY <1>2, <2>1 DEF Stepped
  <1>7. CASE ~ Live(arg[p])
    <2>1. ASSUME NEW n \in 1 .. Len(index) PROVE Seen(n)' = Seen(n)
      <3>1. Live(n) => (Shown(n)' <=> Shown(n))
        BY <1>3, <1>7, ShownKept
      <3>2. QED
        BY <1>3, <3>1, SeenSame
    <2>2. archive' = archive
      BY <1>5, <1>6, <2>1
    <2>3. QED
      BY <1>7, <2>2, SpoiltSelf
  <1>8. CASE Live(arg[p])
    <2>1. PICK a \in 1 .. Len(index) : a = arg[p]
      BY <1>8 DEF Live
    <2>2. Live(a) /\ Live(a)' /\ a \in 1 .. Len(index')
      BY <1>2, <1>3, <1>8, <2>1
    <2>3. CASE a \notin spoilt'
      <3>1. Shown(a)
        BY <2>2, <2>3, SpoiltGrows DEF IInv, Showing
      <3>2. Shown(a)'
        BY <2>2, <2>3, RecordsShow
      <3>3. Seen(a)' = Seen(a)
        BY <1>3, <3>1, <3>2, SeenSame
      <3>4. \A n \in 1 .. Len(index) : Seen(n)' = Seen(n)
        BY <1>4, <2>1, <3>3
      <3>5. archive' = archive
        BY <1>5, <1>6, <3>4
      <3>6. spoilt' = spoilt
        BY <2>1, <2>3, SpoiltSelf
      <3>7. QED
        BY <3>5, <3>6
    <2>4. CASE a \in spoilt'
      <3>1. PICK b \in BOOLEAN : b = Shown(a)'
        BY DEF Shown
      <3>2. texts'[Says(a)'] = texts[Says(a)]
        BY <2>2, SeenText
      <3>3. Seen(a) = [num |-> a - 1 + Base, text |-> texts[Says(a)], shown |-> Shown(a)]
        BY <2>2 DEF Seen
      <3>4. Seen(a)' = [num |-> a - 1 + Base, text |-> texts[Says(a)], shown |-> b]
        BY <2>2, <3>1, <3>2 DEF Seen
      <3>5. Seen(a)' = [Seen(a) EXCEPT !.shown = b]
        BY <3>3, <3>4
      <3>6. [archive EXCEPT ![a].shown = b] =
               [n \in 1 .. Len(index) |-> IF n = a THEN [Seen(a) EXCEPT !.shown = b] ELSE Seen(n)]
        BY <1>5
      <3>7. \A n \in 1 .. Len(index) :
               Seen(n)' = IF n = a THEN [Seen(a) EXCEPT !.shown = b] ELSE Seen(n)
        BY <1>4, <2>1, <3>5
      <3>8. archive' = [archive EXCEPT ![a].shown = b]
        BY <1>6, <3>6, <3>7
      <3>9. archive[a] # Gone /\ a \in 1 .. Len(archive)
        BY <1>5, <2>2, LiveThere
      <3>10. Store!Show(a)
        BY <2>4, <3>1, <3>8, <3>9 DEF Store!Show
      <3>11. spoilt' = spoilt \/ spoilt' = spoilt \cup {a}
        BY <2>1, SpoiltSelf
      <3>12. QED
        BY <3>9, <3>10, <3>11 DEF Store!Change, Store!Damage
    <2>5. QED
      BY <2>3, <2>4
  <1>9. QED
    BY <1>7, <1>8

\* Every step is one of the archive's, or changes nothing of it.
LEMMA ArchiveStep == IInv /\ [Next]_vars => [Store!Next]_<<archive, spoilt>>
  <1>1. ASSUME UNCHANGED vars PROVE UNCHANGED <<archive, spoilt>>
    BY <1>1 DEF vars, callVars, jamVars, archive, Shown, Midway
  <1>2. ASSUME IInv, NEW p \in Procs, NewCall(p) \/ Step(p) \/ Restart(p)
        PROVE  Store!Next \/ UNCHANGED <<archive, spoilt>>
    <2>1. Ready(p) /\ Stepped(p)
      BY <1>2, InvReady, AllSteps
    <2>2. CASE AppendIndex(p)
      BY <1>2, <2>1, <2>2, AddStep DEF Store!Next
    <2>3. CASE Unindex(p)
      BY <2>1, <2>3, DeleteStep DEF Store!Next
    <2>4. CASE ~ AppendIndex(p) /\ ~ Unindex(p)
      BY <1>2, <2>1, <2>4, OtherStep DEF Store!Next
    <2>5. QED
      BY <2>2, <2>3, <2>4
  <1>3. QED
    BY <1>1, <1>2 DEF Next

(***************************************************************************)
(* To its readers the base is the archive of MessageBase: a message gets   *)
(* the next number, keeps number and text, and goes for good.  Its text is *)
(* shown for as long as it is not one of those that a put has left with a  *)
(* message marked deleted, or a process that died has; these never show    *)
(* another text.                                                           *)
(***************************************************************************)
THEOREM MessagesImplement == Spec => ImplementsBase
  <1>1. Init => Store!Init
    BY DEF Init, Store!Init, archive
  <1>2. QED
    BY <1>1, ArchiveStep, MessagesInductive, PTL DEF Spec, ImplementsBase, Store!Spec
=============================================================================
