-------------------------- MODULE RecordOpenProofs --------------------------
(***************************************************************************)
(* Theorems about RecordOpen, for every number of processes, records and   *)
(* retries, of a store that exists: the races of RecordOpen's other runs   *)
(* are those of the creation.  The inductive invariant is IInv.            *)
(***************************************************************************)
EXTENDS RecordOpen, SequenceTheorems, TLAPS

USE DEF Enter, Fail, Opening, Extending, NoFile, Empty, Counter, lockVars,
        procVars

(***************************************************************************)
(* The records of an existing store are numbered from 1.                   *)
(***************************************************************************)
LEMMA Existing ==
  ASSUME ~ Fresh, Init
  PROVE  /\ datf \in Seq(Nat)
         /\ Len(datf) = Records
         /\ Numbered => \A i \in 1 .. Len(datf) : datf[i] = i
  <1>1. datf = [i \in 1 .. Records |-> IF Numbered \/ i <= NumPerm THEN i ELSE 0]
    BY DEF Init
  <1>2. datf \in [1 .. Records -> Nat] /\ Records \in Nat
    BY <1>1, OpenAssumption DEF OpenAssumption
  <1>3. datf \in Seq(Nat)
    BY <1>2, SeqDef
  <1>4. Len(datf) = Records
    <2>1. DOMAIN datf = 1 .. Len(datf) /\ Len(datf) \in Nat
      BY <1>3, LenProperties
    <2>2. DOMAIN datf = 1 .. Records
      BY <1>2
    <2>3. QED
      BY <1>2, <2>1, <2>2
  <1>5. Numbered => \A i \in 1 .. Len(datf) : datf[i] = i
    BY <1>1, <1>4
  <1>6. QED
    BY <1>3, <1>4, <1>5

(***************************************************************************)
(* An existing store satisfies the invariant.                              *)
(***************************************************************************)
LEMMA InitHist == Init => HistTypeOK
  BY OpenAssumption DEF Init, HistTypeOK, OpenAssumption

LEMMA InitIInv ==
  ASSUME ~ Fresh, Ranges = Nat, Init
  PROVE  IInv
  <1>1. Records \in Nat /\ Records >= 1 /\ Numbered \in BOOLEAN
    BY OpenAssumption DEF OpenAssumption
  <1>2. seqf = IF Numbered THEN Records + 1 ELSE 1
    BY DEF Init
  <1>3. LockTypeOK
    BY LockAssumption DEF Init, LockInit, LockTypeOK, LockAssumption
  <1>4. FilesTypeOK
    BY <1>1, <1>2, Existing DEF Init, FilesTypeOK
  <1>5. CallsTypeOK
    BY <1>1 DEF Init, CallsTypeOK
  <1>6. LockInv
    BY LockAssumption DEF Init, LockInit, LockInv, Owns, InCounter, LockAssumption
  <1>7. ExistsInv
    <2>1. made
      BY DEF Init
    <2>2. \A p \in Procs : pc[p] = "closed"
      BY DEF Init
    <2>3. QED
      BY <1>1, <1>2, <2>1, <2>2 DEF ExistsInv
  <1>8. Numbered => NumbersUnique /\ NumbersInv
    BY <1>1, <1>2, Existing DEF Init, NumbersUnique, NumbersInv, Holds
  <1>9. QED
    BY <1>3, <1>4, <1>5, <1>6, <1>7, <1>8, InitHist DEF IInv, TypeOK

(***************************************************************************)
(* A step of p leaves the call of every other process alone.               *)
(***************************************************************************)
LEMMA OthersKeep ==
  ASSUME CallsTypeOK, NEW p \in Procs, Act(p), NEW q \in Procs, q # p
  PROVE  /\ pc'[q] = pc[q] /\ goal'[q] = goal[q] /\ phase'[q] = phase[q]
         /\ todo'[q] = todo[q] /\ num'[q] = num[q] /\ pos'[q] = pos[q]
  <1> USE DEF CallsTypeOK
  <1>1. CASE CallOpen(p) \/ Close(p) \/ CallExtend(p) \/ Crash(p)
    BY <1>1 DEF CallOpen, Close, CallExtend, Crash
  <1>2. CASE SeqCreate(p) \/ SeqFirst(p) \/ DatCheck(p) \/ DatCreate(p)
    BY <1>2 DEF SeqCreate, SeqFirst, DatCheck, DatCreate
  <1>3. CASE PeekRead(p) \/ PeekUnlock(p)
    BY <1>3 DEF PeekRead, PeekUnlock
  <1>4. CASE SeekEnd(p) \/ TurnNext(p) \/ TurnInit(p) \/ TurnDone(p)
    BY <1>4 DEF SeekEnd, TurnNext, TurnInit, TurnDone
  <1>5. CASE SeqRead(p) \/ SeqWrite(p) \/ SeqUnlock(p)
    BY <1>5 DEF SeqRead, SeqWrite, SeqUnlock
  <1>6. CASE RecWrite(p) \/ RecUnlock(p)
    BY <1>6 DEF RecWrite, RecUnlock
  <1>7. CASE LockTaken(p) \/ LockSleeps(p) \/ LockFails(p)
    BY <1>7 DEF LockTaken, LockSleeps, LockFails
  <1>8. QED
    BY <1>1, <1>2, <1>3, <1>4, <1>5, <1>6, <1>7 DEF Act, Step
(***************************************************************************)
(* The types, one file of state at a time.                                 *)
(***************************************************************************)
LEMMA LockTypeNext ==
  ASSUME LockTypeOK, NEW p \in Procs, Act(p)
  PROVE  LockTypeOK'
  <1> USE LockAssumption DEF LockTypeOK, LockAssumption
  <1>1. CASE CallOpen(p) \/ Close(p) \/ CallExtend(p)
    BY <1>1 DEF CallOpen, Close, CallExtend
  <1>2. CASE \/ SeqCreate(p) \/ SeqFirst(p) \/ DatCheck(p) \/ DatCreate(p)
             \/ PeekRead(p)
    BY <1>2 DEF SeqCreate, SeqFirst, DatCheck, DatCreate, PeekRead
  <1>3. CASE SeekEnd(p) \/ TurnNext(p) \/ TurnInit(p) \/ TurnDone(p)
    BY <1>3 DEF SeekEnd, TurnNext, TurnInit, TurnDone
  <1>4. CASE SeqRead(p) \/ SeqWrite(p) \/ RecWrite(p)
    BY <1>4 DEF SeqRead, SeqWrite, RecWrite
  <1>5. CASE PeekUnlock(p) \/ SeqUnlock(p) \/ RecUnlock(p)
    BY <1>5 DEF PeekUnlock, SeqUnlock, RecUnlock, Released
  <1>6. CASE LockTaken(p) \/ LockSleeps(p) \/ LockFails(p)
    BY <1>6 DEF LockTaken, LockSleeps, LockFails, Granted, Sleeps, Refused
  <1>7. CASE Crash(p)
    BY <1>7 DEF Crash, Died
  <1>8. QED
    BY <1>1, <1>2, <1>3, <1>4, <1>5, <1>6, <1>7 DEF Act, Step

\* What a step does to the files: it takes a number, or writes a record.
LEMMA FilesStep ==
  ASSUME FilesTypeOK, CallsTypeOK, ExistsInv, NEW p \in Procs, Act(p)
  PROVE  /\ made' = made
         /\ SeqWrite(p) \/ seqf' = seqf
         /\ RecWrite(p) \/ datf' = datf
  <1> USE DEF ExistsInv, CallsTypeOK, FilesTypeOK
  <1>1. CASE CallOpen(p) \/ Close(p) \/ CallExtend(p) \/ Crash(p)
    BY <1>1 DEF CallOpen, Close, CallExtend, Crash
  <1>2. CASE SeqCreate(p) \/ SeqFirst(p) \/ DatCheck(p) \/ DatCreate(p)
    BY <1>2 DEF SeqCreate, SeqFirst, DatCheck, DatCreate
  <1>3. CASE PeekRead(p) \/ PeekUnlock(p)
    BY <1>3 DEF PeekRead, PeekUnlock
  <1>4. CASE SeekEnd(p) \/ TurnNext(p) \/ TurnInit(p) \/ TurnDone(p)
    BY <1>4 DEF SeekEnd, TurnNext, TurnInit, TurnDone
  <1>5. CASE SeqRead(p) \/ SeqWrite(p) \/ SeqUnlock(p)
    BY <1>5 DEF SeqRead, SeqWrite, SeqUnlock
  <1>6. CASE RecWrite(p) \/ RecUnlock(p)
    BY <1>6 DEF RecWrite, RecUnlock
  <1>7. CASE LockTaken(p) \/ LockSleeps(p) \/ LockFails(p)
    BY <1>7 DEF LockTaken, LockSleeps, LockFails
  <1>8. QED
    BY <1>1, <1>2, <1>3, <1>4, <1>5, <1>6, <1>7 DEF Act, Step

\* What a step of p takes for granted: it reads a counter that exists, writes
\* behind no hole, and has a record to write.
Sound(p) ==
    /\ pc[p] \in {"peekread", "seqread"} => seqf \in Nat
    /\ pc[p] = "recwrite" => pos[p] <= Len(datf)
    /\ pc[p] = "recunlock" => todo[p] > 0

LEMMA ExistsSound ==
  ASSUME FilesTypeOK, ExistsInv, NEW p \in Procs
  PROVE  Sound(p)
  BY DEF FilesTypeOK, ExistsInv, Sound

\* A record that is written replaces one of the file or is the next one.
LEMMA RecordWritten ==
  ASSUME FilesTypeOK, CallsTypeOK, NEW p \in Procs, Sound(p), RecWrite(p)
  PROVE  /\ datf' \in Seq(Nat)
         /\ Len(datf') >= Len(datf) /\ Len(datf') >= pos[p] + 1
         /\ \A i \in 1 .. Len(datf') :
                \/ datf'[i] = Content(p)
                \/ i <= Len(datf) /\ datf'[i] = datf[i]
         /\ \A i, j \in 1 .. Len(datf') :
                i # j => (i <= Len(datf) /\ datf'[i] = datf[i])
                         \/ (j <= Len(datf) /\ datf'[j] = datf[j])
  <1>1. Content(p) \in Nat /\ pos[p] \in Nat
    BY DEF Content, CallsTypeOK
  <1>2. datf \in Seq(Nat) /\ Len(datf) \in Nat
    BY DEF FilesTypeOK
  <1>3. CASE pos[p] < Len(datf)
    <2>1. datf' = [datf EXCEPT ![pos[p] + 1] = Content(p)]
      BY <1>3 DEF RecWrite
    <2>2. QED
      BY <1>1, <1>2, <1>3, <2>1
  <1>4. CASE ~ (pos[p] < Len(datf)) /\ pos[p] <= Len(datf)
    <2>1. datf' = Append(datf, Content(p))
      BY <1>4 DEF RecWrite
    <2>2. /\ Len(datf') = Len(datf) + 1 /\ datf' \in Seq(Nat)
          /\ \A i \in 1 .. Len(datf) : datf'[i] = datf[i]
          /\ datf'[Len(datf) + 1] = Content(p)
      BY <1>1, <1>2, <2>1, AppendProperties
    <2>3. \A i \in 1 .. Len(datf') : i \in 1 .. Len(datf) \/ i = Len(datf) + 1
      BY <1>2, <2>2
    <2>4. QED
      BY <1>1, <1>2, <1>4, <2>2, <2>3
  <1>5. QED
    BY <1>1, <1>2, <1>3, <1>4 DEF Sound, RecWrite

\* Every step keeps the types of the files.
LEMMA FilesTypeNext ==
  ASSUME FilesTypeOK, CallsTypeOK, NEW p \in Procs, Sound(p), Act(p)
  PROVE  FilesTypeOK'
  <1> USE DEF FilesTypeOK, CallsTypeOK
  <1>1. CASE CallOpen(p) \/ Close(p) \/ CallExtend(p) \/ Crash(p)
    BY <1>1 DEF CallOpen, Close, CallExtend, Crash
  <1>2. CASE SeqCreate(p) \/ SeqFirst(p) \/ DatCheck(p) \/ DatCreate(p)
    <2>1. seqf' \in {seqf, Empty, 1} /\ datf' = datf
      BY <1>2 DEF SeqCreate, SeqFirst, DatCheck, DatCreate
    <2>2. made' = made \/ made' = TRUE
      BY <1>2 DEF SeqCreate, SeqFirst, DatCheck, DatCreate
    <2>3. made' \in BOOLEAN
      BY <2>2
    <2>4. QED
      BY <2>1, <2>3
  <1>3. CASE PeekRead(p) \/ PeekUnlock(p)
    BY <1>3 DEF PeekRead, PeekUnlock
  <1>4. CASE SeekEnd(p) \/ TurnNext(p) \/ TurnInit(p) \/ TurnDone(p)
    BY <1>4 DEF SeekEnd, TurnNext, TurnInit, TurnDone
  <1>5. CASE SeqRead(p) \/ SeqUnlock(p) \/ RecUnlock(p)
    BY <1>5 DEF SeqRead, SeqUnlock, RecUnlock
  <1>6. CASE SeqWrite(p)
    BY <1>6 DEF SeqWrite
  <1>7. CASE RecWrite(p)
    <2>1. datf' \in Seq(Nat)
      BY <1>7, RecordWritten
    <2>2. seqf' = seqf /\ made' = made
      BY <1>7 DEF RecWrite
    <2>3. QED
      BY <2>1, <2>2
  <1>8. CASE LockTaken(p) \/ LockSleeps(p) \/ LockFails(p)
    BY <1>8 DEF LockTaken, LockSleeps, LockFails
  <1>9. QED
    BY <1>1, <1>2, <1>3, <1>4, <1>5, <1>6, <1>7, <1>8 DEF Act, Step

\* Every step keeps the types of the calls.
LEMMA CallsTypeNext ==
  ASSUME FilesTypeOK, CallsTypeOK, NEW p \in Procs, Sound(p), Act(p)
  PROVE  CallsTypeOK'
  <1> USE DEF CallsTypeOK
  <1>1. Len(datf) \in Nat /\ Records \in Nat /\ NumPerm \in Nat
    BY OpenAssumption DEF FilesTypeOK, OpenAssumption
  <1>2. CASE CallOpen(p)
    BY <1>1, <1>2 DEF CallOpen
  <1>3. CASE Close(p) \/ CallExtend(p) \/ Crash(p)
    BY <1>3 DEF Close, CallExtend, Crash
  <1>4. CASE SeqCreate(p) \/ SeqFirst(p) \/ DatCheck(p) \/ DatCreate(p)
    BY <1>4 DEF SeqCreate, SeqFirst, DatCheck, DatCreate
  <1>5. CASE PeekRead(p)
    BY <1>5 DEF PeekRead, Sound
  <1>c. CASE PeekUnlock(p)
    <2>1. /\ \E stage \in {"closed", "open", "datcheck"} : pc' = [pc EXCEPT ![p] = stage]
          /\ recs' = recs \/ recs' = [recs EXCEPT ![p] = num[p]]
          /\ UNCHANGED <<goal, phase, todo, num, pos>>
      BY <1>c DEF PeekUnlock
    <2>2. QED
      BY <2>1
  <1>6. CASE SeekEnd(p)
    <2>1. (IF goal[p] = "open" THEN recs[p] ELSE 1) \in Nat
      OBVIOUS
    <2>2. QED
      BY <1>1, <1>6, <2>1 DEF SeekEnd
  <1>7. CASE TurnNext(p) \/ TurnDone(p)
    BY <1>7 DEF TurnNext, TurnDone
  <1>a. CASE TurnInit(p)
    <2>1. phase' \in [Procs -> {"extend", "init"}]
      BY <1>a DEF TurnInit
    <2>2. todo' \in [Procs -> Nat] /\ pos' \in [Procs -> Nat]
      BY <1>1, <1>a DEF TurnInit
    <2>3. UNCHANGED <<pc, goal, recs, num>>
      BY <1>a DEF TurnInit
    <2>4. QED
      BY <2>1, <2>2, <2>3
  <1>8. CASE SeqRead(p) \/ SeqWrite(p)
    <2>1. /\ num' = num \/ (num' = [num EXCEPT ![p] = seqf] /\ seqf \in Nat)
          /\ \E stage \in {"sequnlock", "seqwrite"} : pc' = [pc EXCEPT ![p] = stage]
          /\ UNCHANGED <<goal, phase, todo, recs, pos>>
      BY <1>8 DEF SeqRead, SeqWrite, Sound
    <2>2. QED
      BY <2>1
  <1>b. CASE SeqUnlock(p)
    BY <1>b DEF SeqUnlock
  <1>9. CASE RecWrite(p)
    BY <1>9 DEF RecWrite
  <1>10. CASE RecUnlock(p)
    <2>1. todo[p] > 0
      BY <1>10 DEF RecUnlock, Sound
    <2>2. QED
      BY <1>10, <2>1 DEF RecUnlock
  <1>11. CASE LockTaken(p) \/ LockSleeps(p) \/ LockFails(p)
    BY <1>11 DEF LockTaken, LockSleeps, LockFails, Locking, AfterLock
  <1>12. QED
    BY <1>2, <1>3, <1>4, <1>5, <1>c, <1>6, <1>7, <1>a, <1>8, <1>b, <1>9, <1>10, <1>11
       DEF Act, Step

\* What was opened early stays so.
LEMMA EarlyStays ==
  ASSUME early, NEW p \in Procs, Act(p)
  PROVE  early'
  BY DEF histVars, Act, Step, CallOpen, TurnDone, Close, CallExtend, Crash, DatCheck,
         DatCreate, SeqCreate, SeqFirst, PeekRead, PeekUnlock, SeekEnd, TurnNext, TurnInit,
         SeqRead, SeqWrite, SeqUnlock, RecWrite, RecUnlock, LockTaken, LockSleeps, LockFails

\* The history: an open is early while the store that has been begun is not done,
\* and the process that creates it is done with its last turn.
LEMMA HistNext ==
  ASSUME HistTypeOK, NEW p \in Procs, Act(p)
  PROVE  /\ HistTypeOK'
         /\ CallOpen(p) /\ Begun /\ ~ done => early'
         /\ done' = done \/ TurnDone(p)
  <1> USE DEF HistTypeOK, histVars
  <1>1. CASE CallOpen(p) \/ TurnDone(p)
    BY <1>1 DEF CallOpen, TurnDone
  <1>2. CASE Close(p) \/ CallExtend(p) \/ Crash(p) \/ DatCheck(p) \/ DatCreate(p)
    BY <1>2 DEF CallOpen, Close, CallExtend, Crash, DatCheck, DatCreate
  <1>3. CASE \/ SeqCreate(p) \/ SeqFirst(p) \/ PeekRead(p) \/ PeekUnlock(p) \/ SeekEnd(p)
             \/ TurnNext(p) \/ TurnInit(p)
    BY <1>3 DEF CallOpen, SeqCreate, SeqFirst, PeekRead, PeekUnlock, SeekEnd, TurnNext,
                TurnInit
  <1>4. CASE \/ SeqRead(p) \/ SeqWrite(p) \/ SeqUnlock(p) \/ RecWrite(p) \/ RecUnlock(p)
             \/ LockTaken(p) \/ LockSleeps(p) \/ LockFails(p)
    BY <1>4 DEF CallOpen, SeqRead, SeqWrite, SeqUnlock, RecWrite, RecUnlock, LockTaken,
                LockSleeps, LockFails, Locking
  <1>5. QED
    BY <1>1, <1>2, <1>3, <1>4 DEF Act, Step

-----------------------------------------------------------------------------
(***************************************************************************)
(* Every step keeps the ownership of the ranges: what the others own does  *)
(* not change, and p owns what it takes.                                   *)
(***************************************************************************)
LEMMA OwnsOthers ==
  ASSUME CallsTypeOK, NEW p \in Procs, Act(p), NEW q \in Procs, q # p, NEW x \in Ranges
  PROVE  Owns(q, x)' <=> Owns(q, x)
  BY OthersKeep DEF Owns, InCounter

\* A step of p keeps what p owns and what the others own.
LEMMA LockNext ==
  ASSUME Ranges = Nat, CallsTypeOK, LockTypeOK, LockInv, NEW p \in Procs, Act(p)
  PROVE  LockInv'
  <1> USE LockAssumption DEF CallsTypeOK, LockTypeOK, LockAssumption
  <1> SUFFICES \A x \in Ranges : /\ owner'[x] = p <=> Owns(p, x)'
                                 /\ \A q \in Procs \ {p} : owner'[x] = q <=> owner[x] = q
    BY OwnsOthers DEF LockInv
  <1>0. \A x \in Ranges : owner[x] = p <=> Owns(p, x)
    BY DEF LockInv
  <1> USE DEF Owns, InCounter
  <1>1. CASE CallOpen(p) \/ Close(p) \/ CallExtend(p)
    BY <1>0, <1>1 DEF CallOpen, Close, CallExtend
  <1>2. CASE SeqCreate(p) \/ SeqFirst(p) \/ DatCheck(p) \/ DatCreate(p)
    BY <1>0, <1>2 DEF SeqCreate, SeqFirst, DatCheck, DatCreate
  <1>3. CASE PeekRead(p)
    BY <1>0, <1>3 DEF PeekRead
  <1>4. CASE SeekEnd(p) \/ TurnNext(p) \/ TurnInit(p) \/ TurnDone(p)
    BY <1>0, <1>4 DEF SeekEnd, TurnNext, TurnInit, TurnDone
  <1>5. CASE SeqRead(p) \/ SeqWrite(p)
    BY <1>0, <1>5 DEF SeqRead, SeqWrite
  <1>6. CASE RecWrite(p)
    BY <1>0, <1>6 DEF RecWrite
  <1>7. CASE PeekUnlock(p) \/ SeqUnlock(p)
    BY <1>0, <1>7 DEF PeekUnlock, SeqUnlock, Released
  <1>8. CASE RecUnlock(p)
    BY <1>0, <1>8 DEF RecUnlock, Released
  <1>9. CASE LockTaken(p)
    BY <1>0, <1>9 DEF LockTaken, Granted, Grantable, Locking, AfterLock, Wanted
  <1>10. CASE LockSleeps(p) \/ LockFails(p)
    BY <1>0, <1>10 DEF LockSleeps, LockFails, Sleeps, Refused, Locking
  <1>11. CASE Crash(p)
    BY <1>0, <1>11 DEF Crash, Died
  <1>12. QED
    BY <1>1, <1>2, <1>3, <1>4, <1>5, <1>6, <1>7, <1>8, <1>9, <1>10, <1>11 DEF Act, Step
(***************************************************************************)
(* Every step keeps the two files and leaves no hole in the records.       *)
(***************************************************************************)
ExistsPart(p) ==
    /\ pc[p] \notin {"seqnew", "seqone", "datnew"}
    /\ pc[p] \in Extending \ {"seekend"} => pos[p] <= Len(datf)
    /\ pc[p] \in Extending \ {"seekend", "turn"} => todo[p] > 0

\* Every step keeps the store without holes.
LEMMA ExistsNext ==
  ASSUME FilesTypeOK, CallsTypeOK, ExistsInv, NEW p \in Procs, Act(p)
  PROVE  ExistsInv'
  <1>1. seqf' >= 1 /\ made'
    <2>1. seqf >= 1 /\ made /\ num[p] \in Nat
      BY DEF ExistsInv, CallsTypeOK
    <2>2. made' = made
      BY FilesStep
    <2>3. seqf' = seqf \/ seqf' = num[p] + 1
      BY FilesStep DEF SeqWrite
    <2>4. QED
      BY <2>1, <2>2, <2>3
  <1>2. Len(datf) \in Nat /\ Len(datf') \in Nat /\ Len(datf') >= Len(datf)
    BY FilesStep, ExistsSound, RecordWritten DEF FilesTypeOK
  <1>3. ExistsPart(p) /\ seqf >= 1 /\ made
    BY DEF ExistsInv, ExistsPart
  <1>4. ExistsPart(p)'
    <2> USE DEF ExistsPart, CallsTypeOK
    <2>1. CASE CallOpen(p) \/ Close(p) \/ CallExtend(p) \/ Crash(p)
      <3>1. seqf # NoFile
        BY <1>3
      <3>2. pc'[p] \in {"peek", "closed", "seekend"}
        BY <2>1, <3>1 DEF CallOpen, Close, CallExtend, Crash
      <3>3. QED
        BY <3>2
    <2>2. CASE SeqCreate(p) \/ SeqFirst(p) \/ DatCheck(p) \/ DatCreate(p)
      BY <1>3, <2>2 DEF SeqCreate, SeqFirst, DatCheck, DatCreate
    <2>3. CASE PeekRead(p) \/ PeekUnlock(p)
      BY <1>3, <2>3 DEF PeekRead, PeekUnlock
    <2>4. CASE SeekEnd(p)
      BY <1>2, <2>4, FilesStep DEF SeekEnd
    <2>a. CASE TurnNext(p) \/ TurnDone(p)
      BY <1>3, <2>a DEF TurnNext, TurnDone
    <2>b. CASE TurnInit(p)
      BY <1>2, <1>3, <2>b DEF TurnInit
    <2>5. CASE SeqRead(p) \/ SeqWrite(p) \/ SeqUnlock(p)
      BY <1>3, <2>5 DEF SeqRead, SeqWrite, SeqUnlock
    <2>6. CASE RecWrite(p)
      <3>1. pos'[p] = pos[p] + 1 /\ pos'[p] <= Len(datf')
        BY <2>6, ExistsSound, RecordWritten, <1>2 DEF RecWrite
      <3>2. pc'[p] = "recunlock" /\ todo' = todo /\ pc[p] = "recwrite"
        BY <2>6 DEF RecWrite
      <3>3. QED
        BY <1>3, <3>1, <3>2
    <2>7. CASE RecUnlock(p)
      BY <1>3, <2>7 DEF RecUnlock
    <2>8. CASE LockTaken(p) \/ LockSleeps(p) \/ LockFails(p)
      BY <1>3, <2>8 DEF LockTaken, LockSleeps, LockFails, Locking, AfterLock
    <2>9. QED
      BY <2>1, <2>2, <2>3, <2>4, <2>a, <2>b, <2>5, <2>6, <2>7, <2>8 DEF Act, Step
  <1>5. ASSUME NEW q \in Procs, q # p PROVE ExistsPart(q)'
    <2>1. pc'[q] = pc[q] /\ todo'[q] = todo[q] /\ pos'[q] = pos[q] /\ pos[q] \in Nat
      BY <1>5, OthersKeep DEF CallsTypeOK
    <2>2. ExistsPart(q)
      BY DEF ExistsInv, ExistsPart
    <2>3. QED
      BY <1>2, <2>1, <2>2 DEF ExistsPart
  <1>6. QED
    BY <1>1, <1>4, <1>5 DEF ExistsInv, ExistsPart

-----------------------------------------------------------------------------
(***************************************************************************)
(* The numbers.  A step that writes neither file, and after which p holds  *)
(* no number it did not hold before, keeps them apart.                     *)
(***************************************************************************)
LEMMA NumbersStay ==
  ASSUME CallsTypeOK, NumbersUnique, NumbersInv, Numbered, NEW p \in Procs, Act(p),
         seqf' = seqf, datf' = datf,
         Holds(p)' => Holds(p) /\ num'[p] = num[p],
         pc'[p] = "seqwrite" => num'[p] = seqf,
         pc'[p] \in {"reclock", "recwrite"} => num'[p] # Empty
  PROVE  NumbersUnique' /\ NumbersInv'
  <1>1. ASSUME NEW q \in Procs, q # p
        PROVE  /\ Holds(q)' <=> Holds(q)
               /\ num'[q] = num[q] /\ pc'[q] = pc[q]
    BY <1>1, OthersKeep DEF Holds
  <1>2. NumbersUnique'
    BY DEF NumbersUnique
  <1>3. NumbersInv'
    BY <1>1 DEF NumbersInv
  <1>4. QED
    BY <1>2, <1>3

\* Every step keeps the numbers of a numbered store apart.
LEMMA NumbersNext ==
  ASSUME Ranges = Nat, TypeOK, LockInv, ExistsInv, Numbered, NumbersUnique, NumbersInv,
         NEW p \in Procs, Act(p)
  PROVE  NumbersUnique' /\ NumbersInv'
  <1> USE DEF TypeOK, CallsTypeOK
  <1>1. seqf \in Nat /\ seqf >= 1 /\ Len(datf) \in Nat
    BY DEF FilesTypeOK, ExistsInv
  <1>2. /\ pc[p] = "seqwrite" => num[p] = seqf
        /\ pc[p] \in {"reclock", "recwrite"} => num[p] # Empty
    BY DEF NumbersInv
  <1>3. CASE CallOpen(p) \/ Close(p) \/ CallExtend(p) \/ Crash(p)
    BY <1>3, NumbersStay DEF CallOpen, Close, CallExtend, Crash, Holds
  <1>4. CASE SeqCreate(p) \/ SeqFirst(p) \/ DatCheck(p) \/ DatCreate(p)
    BY <1>4, NumbersStay DEF SeqCreate, SeqFirst, DatCheck, DatCreate, Holds, ExistsInv
  <1>5. CASE PeekRead(p) \/ PeekUnlock(p)
    BY <1>5, NumbersStay DEF PeekRead, PeekUnlock, Holds
  <1>6. CASE SeekEnd(p) \/ TurnNext(p) \/ TurnInit(p) \/ TurnDone(p)
    BY <1>6, NumbersStay DEF SeekEnd, TurnNext, TurnInit, TurnDone, Holds
  <1>7. CASE SeqRead(p) \/ SeqUnlock(p)
    BY <1>7, NumbersStay DEF SeqRead, SeqUnlock, Holds
  <1>8. CASE RecUnlock(p)
    BY <1>8, NumbersStay DEF RecUnlock, Holds
  <1>9. CASE LockTaken(p) \/ LockSleeps(p) \/ LockFails(p)
    BY <1>2, <1>9, NumbersStay DEF LockTaken, LockSleeps, LockFails, Locking, AfterLock, Holds
  <1>10. CASE SeqWrite(p)
    <2>1. /\ pc[p] = "seqwrite" /\ pc'[p] = "sequnlock" /\ num' = num /\ datf' = datf
          /\ num[p] = seqf /\ seqf' = seqf + 1
      BY <1>2, <1>10 DEF SeqWrite
    <2>2. ASSUME NEW q \in Procs, q # p
          PROVE  /\ pc'[q] = pc[q] /\ pc[q] # "seqwrite"
                 /\ Holds(q)' <=> Holds(q)
      BY <2>1, <2>2, OthersKeep DEF LockInv, Owns, InCounter, Holds
    <2>3. NumbersUnique'
      BY <2>1 DEF NumbersUnique
    <2>4. \A i \in 1 .. Len(datf) : datf[i] \in Nat /\ datf[i] < seqf
      BY DEF FilesTypeOK, NumbersInv
    <2>5. \A q \in Procs : q # p /\ Holds(q) => num[q] < seqf /\ num[q] # num[p]
      BY <2>1 DEF NumbersInv
    <2>6. NumbersInv'
      <3>1. \A i \in 1 .. Len(datf) : datf[i] < seqf + 1 /\ datf[i] # num[p]
        BY <1>1, <2>1, <2>4
      <3>2. \A q \in Procs : q # p /\ Holds(q) => num[q] < seqf + 1
        BY <1>1, <2>5
      <3>3. ~ Holds(p)
        BY <2>1 DEF Holds
      <3>4. \A q \in Procs : pc'[q] # "seqwrite"
        BY <2>1, <2>2
      <3>5. \A q \in Procs : pc'[q] \in {"reclock", "recwrite"} => num'[q] # Empty
        BY <2>1, <2>2 DEF NumbersInv
      <3>6. \A q \in Procs : q # p /\ Holds(q)' =>
                /\ num'[q] < seqf'
                /\ \A i \in 1 .. Len(datf) : datf[i] # num[q]
                /\ num[q] # num[p]
                /\ \A r \in Procs \ {q} : r # p /\ Holds(r)' => num[r] # num[q]
        BY <2>1, <2>2, <2>5, <3>2 DEF NumbersInv
      <3>7. num[p] < seqf'
        BY <1>1, <2>1
      <3>8. QED
        BY <2>1, <3>1, <3>4, <3>5, <3>6, <3>7 DEF NumbersInv
    <2>7. QED
      BY <2>3, <2>6
  <1>11. CASE RecWrite(p)
    <2>1. /\ pc[p] = "recwrite" /\ pc'[p] = "recunlock" /\ num' = num /\ seqf' = seqf
          /\ Holds(p) /\ ~ Holds(p)' /\ Content(p) = num[p]
      BY <1>2, <1>11 DEF RecWrite, Holds, Content
    <2>2. /\ num[p] < seqf
          /\ \A i \in 1 .. Len(datf) : datf[i] # num[p]
          /\ \A q \in Procs \ {p} : Holds(q) => num[q] # num[p]
      BY <2>1 DEF NumbersInv
    <2>3. /\ Len(datf') \in Nat
          /\ \A i \in 1 .. Len(datf') :
                \/ datf'[i] = num[p]
                \/ i \in 1 .. Len(datf) /\ datf'[i] = datf[i]
          /\ \A i, j \in 1 .. Len(datf') :
                i # j => (i \in 1 .. Len(datf) /\ datf'[i] = datf[i])
                         \/ (j \in 1 .. Len(datf) /\ datf'[j] = datf[j])
      <3>1. datf' \in Seq(Nat) /\ datf \in Seq(Nat)
        BY <1>11, ExistsSound, RecordWritten DEF FilesTypeOK
      <3>2. Len(datf') \in Nat /\ Len(datf) \in Nat
        BY <3>1
      <3>3. /\ \A i \in 1 .. Len(datf') :
                  \/ datf'[i] = Content(p)
                  \/ i <= Len(datf) /\ datf'[i] = datf[i]
            /\ \A i, j \in 1 .. Len(datf') :
                  i # j => (i <= Len(datf) /\ datf'[i] = datf[i])
                           \/ (j <= Len(datf) /\ datf'[j] = datf[j])
        BY <1>11, ExistsSound, RecordWritten
      <3>4. \A i \in 1 .. Len(datf') : i <= Len(datf) => i \in 1 .. Len(datf)
        BY <3>2
      <3>5. QED
        BY <2>1, <3>2, <3>3, <3>4
    <2>4. NumbersUnique'
      BY <2>2, <2>3 DEF NumbersUnique
    <2>5. ASSUME NEW q \in Procs, q # p
          PROVE  pc'[q] = pc[q] /\ (Holds(q)' <=> Holds(q))
      BY <2>1, <2>5, OthersKeep DEF Holds
    <2>6. \A i \in 1 .. Len(datf') : datf'[i] < seqf
      BY <2>2, <2>3 DEF NumbersInv
    <2>7. ASSUME NEW q \in Procs, q # p, Holds(q)
          PROVE  \A i \in 1 .. Len(datf') : datf'[i] # num[q]
      BY <2>2, <2>3, <2>7 DEF NumbersInv
    <2>8. NumbersInv'
      BY <2>1, <2>5, <2>6, <2>7 DEF NumbersInv
    <2>9. QED
      BY <2>4, <2>8
  <1>12. QED
    BY <1>3, <1>4, <1>5, <1>6, <1>7, <1>8, <1>9, <1>10, <1>11 DEF Act, Step

(***************************************************************************)
(* Every step keeps the invariant.                                         *)
(***************************************************************************)
LEMMA NextIInv ==
  ASSUME Ranges = Nat, IInv, [Next]_vars
  PROVE  IInv'
  <1> USE DEF IInv, TypeOK
  <1>1. CASE UNCHANGED vars
    BY <1>1 DEF vars, histVars, procVars, LockTypeOK, FilesTypeOK, CallsTypeOK,
                HistTypeOK, LockInv, Owns, InCounter, ExistsInv, NumbersUnique,
                NumbersInv, Holds
  <1>2. ASSUME NEW p \in Procs, Act(p) PROVE IInv'
    <2>1. TypeOK'
      BY <1>2, ExistsSound, LockTypeNext, FilesTypeNext, CallsTypeNext, HistNext
    <2>2. LockInv' /\ ExistsInv'
      BY <1>2, LockNext, ExistsNext
    <2>3. Numbered => NumbersUnique' /\ NumbersInv'
      BY <1>2, NumbersNext
    <2>4. QED
      BY <2>1, <2>2, <2>3
  <1>3. QED
    BY <1>1, <1>2 DEF Next

(***************************************************************************)
(* The inductive invariant, for a store that exists.                       *)
(***************************************************************************)
THEOREM OpenInductive ==
  ASSUME ~ Fresh, Ranges = Nat
  PROVE  Spec => []IInv
  <1>1. Init => IInv
    BY InitIInv
  <1>2. IInv /\ [Next]_vars => IInv'
    BY NextIInv
  <1>3. QED
    BY <1>1, <1>2, PTL DEF Spec

(***************************************************************************)
(* No two nodes of an existing store ever have one number, whatever the    *)
(* interleaving of those that extend it and whoever dies in between.       *)
(***************************************************************************)
THEOREM NodesApart ==
  ASSUME ~ Fresh, Ranges = Nat
  PROVE  Spec => []NumbersUnique
  <1>1. IInv => NumbersUnique
    BY DEF IInv, NumbersUnique
  <1>2. QED
    BY OpenInductive, <1>1, PTL

(***************************************************************************)
(* The counter and each record are written by one process at a time, and   *)
(* no process that has returned from a call has a lock.                    *)
(***************************************************************************)
THEOREM OpenLocksHold ==
  ASSUME ~ Fresh, Ranges = Nat
  PROVE  Spec => []LockInv
  <1>1. IInv => LockInv
    BY DEF IInv
  <1>2. QED
    BY OpenInductive, <1>1, PTL

-----------------------------------------------------------------------------
(***************************************************************************)
(* The creation of a store.                                                *)
(***************************************************************************)
USE DEF Missing

\* At first nothing is there, or all is.
LEMMA InitCreated ==
  ASSUME Ranges = Nat, Init
  PROVE  CreatedInv
  <1>1. Records \in Nat /\ Records >= 1 /\ NumPerm \in Nat /\ NumPerm <= Records
    BY OpenAssumption DEF OpenAssumption
  <1>2. Numbered \in BOOLEAN /\ Fresh \in BOOLEAN
    BY OpenAssumption DEF OpenAssumption
  <1>3. LockTypeOK
    BY LockAssumption DEF Init, LockInit, LockTypeOK, LockAssumption
  <1>4. CallsTypeOK
    BY <1>1 DEF Init, CallsTypeOK
  <1>5. LockInv
    BY LockAssumption DEF Init, LockInit, LockInv, Owns, InCounter, LockAssumption
  <1>6. CASE Fresh
    <2>1. Missing /\ Closed /\ ~ done
      BY <1>6 DEF Init, Closed
    <2>2. FilesTypeOK
      <3>1. made \in BOOLEAN
        BY <1>2 DEF Init
      <3>2. QED
        BY <2>1, <3>1 DEF FilesTypeOK
    <2>3. QED
      BY <1>3, <1>4, <1>5, <2>1, <2>2, InitHist DEF CreatedInv, TypeOK
  <1>7. CASE ~ Fresh
    <2>1. datf \in Seq(Nat) /\ Len(datf) = Records
      BY <1>7, Existing
    <2>2. \A i \in 1 .. NumPerm : datf[i] = i
      BY <1>1, <1>7 DEF Init
    <2>3. seqf \in Nat /\ seqf >= 1 /\ made
      <3>1. made
        BY <1>7 DEF Init
      <3>2. seqf = IF Numbered THEN Records + 1 ELSE 1
        BY <1>7 DEF Init
      <3>3. QED
        BY <1>1, <3>1, <3>2
    <2>4. Complete
      BY <1>1, <2>1, <2>2, <2>3 DEF Complete
    <2>5. \A p \in Procs : Using(p)
      BY DEF Init, Using
    <2>6. FilesTypeOK
      BY <2>1, <2>3 DEF FilesTypeOK
    <2>7. QED
      BY <1>3, <1>4, <1>5, <2>3, <2>4, <2>5, <2>6, InitHist DEF CreatedInv, TypeOK
  <1>8. QED
    BY <1>2, <1>6, <1>7

\* A process that is closed can do nothing but open the store.
LEMMA ClosedOpens ==
  ASSUME NEW p \in Procs, pc[p] = "closed", Act(p)
  PROVE  CallOpen(p)
  BY DEF Act, Step, Close, CallExtend, Crash, SeqCreate, SeqFirst, PeekRead,
         PeekUnlock, DatCheck, DatCreate, SeekEnd, TurnNext, TurnInit, TurnDone,
         SeqRead, SeqWrite, SeqUnlock, RecWrite, RecUnlock, LockTaken,
         LockSleeps, LockFails, Locking

\* While one process creates the store the others wait to open it, or are early.
LEMMA CreatorActs ==
  ASSUME HistTypeOK, ~ done, NEW p \in Procs, Creating(p),
         NEW q \in Procs, Act(q), ~ early'
  PROVE  q = p
  <1> SUFFICES ASSUME q # p PROVE FALSE
    OBVIOUS
  <1>1. CallOpen(q)
    BY ClosedOpens DEF Creating
  <1>2. Begun
    <2>1. CASE pc[p] = "seqnew"
      BY <2>1 DEF Begun
    <2>2. CASE pc[p] # "seqnew"
      BY <2>2 DEF Begun, Creating, NoFile, Empty
    <2>3. QED
      BY <2>1, <2>2
  <1>3. QED
    BY <1>1, <1>2, HistNext

\* The creator is granted every lock.
LEMMA CreatorGranted ==
  ASSUME Ranges = Nat, CallsTypeOK, LockTypeOK, LockInv, NEW p \in Procs, Creating(p)
  PROVE  Grantable(p, Wanted(p))
  <1>1. Wanted(p) \in Ranges
    BY DEF Wanted, CallsTypeOK
  <1>2. \A q \in Procs : q # p => ~ Owns(q, Wanted(p))
    BY DEF Creating, Owns, InCounter
  <1>3. owner[Wanted(p)] \in Procs \cup {NoOne}
    BY <1>1 DEF LockTypeOK
  <1>4. QED
    BY <1>1, <1>2, <1>3 DEF LockInv, Grantable

\* The first to open a store that is missing creates it.
LEMMA MissingNext ==
  ASSUME CallsTypeOK, Missing, Closed, NEW p \in Procs, Act(p)
  PROVE  Creating(p)'
  <1>1. CallOpen(p)
    BY ClosedOpens DEF Closed
  <1>2. /\ pc'[p] = "seqnew" /\ goal'[p] = "open" /\ recs'[p] = Records
        /\ UNCHANGED <<seqf, made, datf>>
    BY <1>1 DEF CallOpen, CallsTypeOK
  <1>3. \A q \in Procs \ {p} : pc'[q] = "closed"
    BY OthersKeep DEF Closed
  <1>4. QED
    BY <1>2, <1>3 DEF Creating

\* The creator dies: nothing is there, or a counter that the next open is early for.
LEMMA CreatorDies ==
  ASSUME CallsTypeOK, HistTypeOK, NEW p \in Procs, Creating(p), Crash(p)
  PROVE  Closed' /\ done' = done /\ (Missing' \/ seqf' # NoFile)
  <1>1. UNCHANGED <<seqf, made, datf, histVars>> /\ pc' = [pc EXCEPT ![p] = "closed"]
    BY DEF Crash, Enter
  <1>2. Closed'
    BY <1>1 DEF Creating, Closed, CallsTypeOK
  <1>3. Missing \/ seqf # NoFile
    BY DEF Creating, NoFile, Empty
  <1>4. QED
    BY <1>1, <1>2, <1>3 DEF histVars

\* The creator's files and lock before its loops.
LEMMA CreatorStarts ==
  ASSUME CallsTypeOK, NEW p \in Procs, Creating(p),
         SeqCreate(p) \/ SeqFirst(p) \/ DatCheck(p) \/ DatCreate(p) \/ SeekEnd(p)
  PROVE  Creating(p)'
  <1> USE DEF CallsTypeOK, Creating
  <1>0. Records \in Nat /\ Records >= 1
    BY OpenAssumption DEF OpenAssumption
  <1>1. ASSUME SeqCreate(p) \/ SeqFirst(p) \/ DatCheck(p) \/ DatCreate(p) \/ SeekEnd(p)
        PROVE  /\ goal'[p] = "open" /\ recs'[p] = Records
               /\ \A q \in Procs \ {p} : pc'[q] = "closed"
    BY <1>1 DEF SeqCreate, SeqFirst, DatCheck, DatCreate, SeekEnd
  <1>2. CASE SeqCreate(p)
    BY <1>1, <1>2 DEF SeqCreate
  <1>3. CASE SeqFirst(p)
    BY <1>1, <1>3 DEF SeqFirst
  <1>4. CASE DatCheck(p)
    BY <1>1, <1>4 DEF DatCheck
  <1>5. CASE DatCreate(p)
    BY <1>1, <1>5 DEF DatCreate
  <1>6. CASE SeekEnd(p)
    <2>1. /\ pc[p] = "seekend" /\ seqf >= 1 /\ made /\ datf = << >>
      BY <1>6 DEF SeekEnd
    <2>2. /\ pc'[p] = "turn" /\ phase'[p] = "extend" /\ todo'[p] = Records
          /\ pos'[p] = 0 /\ UNCHANGED <<seqf, made, datf>>
      BY <1>6, <2>1 DEF SeekEnd
    <2>3. Written(p)'
      BY <1>0, <2>1, <2>2 DEF Written
    <2>4. QED
      BY <1>1, <1>6, <2>1, <2>2, <2>3
  <1>7. QED
    BY <1>2, <1>3, <1>4, <1>5, <1>6

\* The creator goes on to the next call for the record it is writing.
LEMMA CreatorGoesOn ==
  ASSUME CallsTypeOK, NEW p \in Procs, Creating(p), Act(p),
         pc[p] \in Extending \ {"seekend", "recunlock"},
         pc'[p] \in Extending \ {"seekend", "recunlock"},
         seqf' >= 1, pc'[p] \in {"seqwrite", "sequnlock"} => num'[p] # Empty,
         pc'[p] # "turn" => todo[p] > 0,
         UNCHANGED <<made, datf, goal, phase, todo, recs, pos>>
  PROVE  Creating(p)'
  <1>1. Written(p) /\ made
    BY DEF Creating
  <1>2. Written(p)'
    BY <1>1 DEF Written
  <1>3. goal'[p] = "open" /\ recs'[p] = Records
    BY DEF Creating
  <1>4. \A q \in Procs \ {p} : pc'[q] = "closed"
    BY OthersKeep DEF Creating
  <1>5. QED
    BY <1>1, <1>2, <1>3, <1>4 DEF Creating

LEMMA CreatorCalls ==
  ASSUME FilesTypeOK, CallsTypeOK, NEW p \in Procs, Creating(p), Act(p),
         TurnNext(p) \/ SeqRead(p) \/ SeqWrite(p) \/ SeqUnlock(p)
            \/ (LockTaken(p) /\ pc[p] # "peek")
  PROVE  Creating(p)'
  <1>1. /\ pc[p] \in Extending \ {"seekend", "recunlock"}
        /\ UNCHANGED <<made, datf, goal, phase, todo, recs, pos>>
    BY DEF TurnNext, SeqRead, SeqWrite, SeqUnlock, LockTaken, Locking
  <1>2. /\ seqf \in Nat /\ seqf >= 1 /\ Written(p) /\ num[p] \in Nat
        /\ pc[p] \in {"seqwrite", "sequnlock"} => num[p] # Empty
    BY <1>1 DEF Creating, FilesTypeOK, CallsTypeOK
  <1>3. pc[p] # "turn" => todo[p] > 0
    BY <1>2 DEF Written
  <1> USE DEF CallsTypeOK
  <1>4. CASE TurnNext(p)
    <2>1. pc'[p] \in {"seqlock", "reclock"} /\ todo[p] > 0 /\ seqf' = seqf
      BY <1>4 DEF TurnNext
    <2>2. QED
      BY <1>1, <1>2, <2>1, CreatorGoesOn
  <1>5. CASE SeqRead(p)
    <2>1. pc'[p] = "seqwrite" /\ num'[p] = seqf /\ seqf' = seqf /\ pc[p] = "seqread"
      BY <1>2, <1>5 DEF SeqRead
    <2>2. QED
      BY <1>1, <1>2, <1>3, <2>1, CreatorGoesOn
  <1>6. CASE SeqWrite(p)
    <2>1. pc'[p] = "sequnlock" /\ num'[p] = num[p] /\ pc[p] = "seqwrite"
      BY <1>6 DEF SeqWrite
    <2>2. seqf' >= 1
      BY <1>2, <1>6 DEF SeqWrite
    <2>3. QED
      BY <1>1, <1>2, <1>3, <2>1, <2>2, CreatorGoesOn
  <1>7. CASE SeqUnlock(p)
    <2>1. pc'[p] = "reclock" /\ seqf' = seqf /\ pc[p] = "sequnlock"
      BY <1>2, <1>7 DEF SeqUnlock
    <2>2. QED
      BY <1>1, <1>2, <1>3, <2>1, CreatorGoesOn
  <1>8. CASE LockTaken(p) /\ pc[p] # "peek"
    <2>1. pc'[p] \in {"seqread", "recwrite"} /\ seqf' = seqf /\ pc[p] # "turn"
      BY <1>8 DEF LockTaken, Locking, AfterLock
    <2>2. QED
      BY <1>1, <1>2, <1>3, <2>1, CreatorGoesOn
  <1>9. QED
    BY <1>4, <1>5, <1>6, <1>7, <1>8

\* The loops: from the blank records to the permanent ones, and to the end.
LEMMA CreatorTurns ==
  ASSUME FilesTypeOK, CallsTypeOK, NEW p \in Procs, Creating(p), Act(p),
         TurnInit(p) \/ TurnDone(p)
  PROVE  Creating(p)' \/ (seqf' >= 1 /\ Complete' /\ \A q \in Procs : Using(q)')
  <1>1. pc[p] = "turn" /\ todo[p] = 0
    BY DEF TurnInit, TurnDone
  <1>2. seqf >= 1 /\ made /\ Written(p) /\ goal[p] = "open" /\ recs[p] = Records
    BY <1>1 DEF Creating
  <1>3. /\ Len(datf) \in Nat /\ pos[p] \in Nat /\ Records \in Nat
        /\ NumPerm \in Nat /\ NumPerm <= Records
    BY OpenAssumption DEF OpenAssumption, FilesTypeOK, CallsTypeOK
  <1>4. \A q \in Procs \ {p} : pc'[q] = "closed"
    BY OthersKeep DEF Creating
  <1>5. CASE TurnInit(p)
    <2>1. /\ phase'[p] = "init" /\ todo'[p] = NumPerm /\ pos'[p] = 0
          /\ UNCHANGED <<seqf, made, datf, pc, goal, recs>> /\ phase[p] = "extend"
      BY <1>5 DEF TurnInit, CallsTypeOK
    <2>2. Len(datf) = Records
      BY <1>1, <1>2, <1>3, <2>1 DEF Written
    <2>3. Written(p)'
      BY <1>1, <1>3, <2>1, <2>2 DEF Written
    <2>4. QED
      BY <1>1, <1>2, <1>4, <2>1, <2>3 DEF Creating
  <1>6. CASE TurnDone(p)
    <2>1. phase[p] = "init" /\ pc'[p] = "open" /\ UNCHANGED <<seqf, made, datf>>
      BY <1>2, <1>6 DEF TurnDone, CallsTypeOK
    <2>2. /\ Len(datf) = Records /\ pos[p] = NumPerm
          /\ \A i \in 1 .. pos[p] : datf[i] = i
      BY <1>1, <1>2, <1>3, <2>1 DEF Written
    <2>3. Complete'
      BY <1>2, <1>3, <2>1, <2>2 DEF Complete
    <2>4. \A q \in Procs : Using(q)'
      BY <1>4, <2>1 DEF Using
    <2>5. QED
      BY <1>2, <2>1, <2>3, <2>4
  <1>7. QED
    BY <1>5, <1>6

\* The records: each is appended, or is a permanent one at its place.
LEMMA CreatorWrites ==
  ASSUME FilesTypeOK, CallsTypeOK, NEW p \in Procs, Creating(p), Act(p),
         RecWrite(p) \/ RecUnlock(p)
  PROVE  Creating(p)'
  <1>1. pc[p] \in {"recwrite", "recunlock"}
    BY DEF RecWrite, RecUnlock
  <1>2. /\ seqf >= 1 /\ made /\ Written(p) /\ goal[p] = "open" /\ recs[p] = Records
        /\ todo[p] > 0
    BY <1>1 DEF Creating, Written
  <1>3. /\ datf \in Seq(Nat) /\ Len(datf) \in Nat /\ pos[p] \in Nat /\ Records \in Nat
        /\ todo[p] \in Nat /\ NumPerm \in Nat /\ NumPerm <= Records
    BY OpenAssumption DEF OpenAssumption, FilesTypeOK, CallsTypeOK
  <1>4. \A q \in Procs \ {p} : pc'[q] = "closed"
    BY OthersKeep DEF Creating
  <1>5. CASE RecUnlock(p)
    <2>1. /\ pc[p] = "recunlock" /\ pc'[p] = "turn" /\ todo'[p] = todo[p] - 1
          /\ UNCHANGED <<seqf, made, datf, goal, phase, recs, pos>>
      BY <1>5 DEF RecUnlock, CallsTypeOK
    <2>2. Written(p)'
      BY <1>2, <1>3, <2>1 DEF Written
    <2>3. QED
      BY <1>2, <1>4, <2>1, <2>2 DEF Creating
  <1>6. CASE RecWrite(p)
    <2>1. /\ pc[p] = "recwrite" /\ pc'[p] = "recunlock" /\ pos'[p] = pos[p] + 1
          /\ UNCHANGED <<seqf, made, goal, phase, todo, recs>>
      BY <1>6 DEF RecWrite, CallsTypeOK
    <2>2. CASE phase[p] = "extend"
      <3>1. pos[p] = Len(datf) /\ Len(datf) + todo[p] = Records
        BY <1>2, <2>1, <2>2 DEF Written
      <3>2. datf' = Append(datf, Content(p))
        BY <1>3, <1>6, <3>1 DEF RecWrite
      <3>3. Len(datf') = Len(datf) + 1
        BY <1>3, <3>2
      <3>4. Written(p)'
        BY <1>2, <1>3, <2>1, <2>2, <3>1, <3>3 DEF Written
      <3>5. QED
        BY <1>2, <1>4, <2>1, <3>4 DEF Creating
    <2>3. CASE phase[p] = "init"
      <3>1. /\ Len(datf) = Records /\ pos[p] + todo[p] = NumPerm
            /\ \A i \in 1 .. pos[p] : datf[i] = i
        BY <1>2, <2>1, <2>3 DEF Written
      <3>2. pos[p] < Len(datf) /\ ~ Numbered
        <4>1. NumPerm # 0
          BY <1>2, <1>3, <3>1
        <4>2. ~ Numbered
          BY <4>1, OpenAssumption DEF OpenAssumption
        <4>3. pos[p] < Len(datf)
          BY <1>2, <1>3, <3>1
        <4>4. QED
          BY <4>2, <4>3
      <3>3. Content(p) = pos[p] + 1
        BY <2>3, <3>2 DEF Content
      <3>4. datf' = [datf EXCEPT ![pos[p] + 1] = pos[p] + 1]
        BY <1>6, <3>2, <3>3 DEF RecWrite
      <3>5. Len(datf') = Len(datf) /\ \A i \in 1 .. pos[p] + 1 : datf'[i] = i
        BY <1>3, <3>1, <3>2, <3>4
      <3>6. Written(p)'
        <4>1. pos'[p] + (todo'[p] - 1) = NumPerm /\ todo'[p] > 0
          BY <1>2, <1>3, <2>1, <3>1
        <4>2. \A i \in 1 .. pos'[p] : datf'[i] = i
          BY <2>1, <3>5
        <4>3. phase'[p] = "init" /\ Len(datf') = Records
          BY <2>1, <2>3, <3>1, <3>5
        <4>4. QED
          BY <2>1, <4>1, <4>2, <4>3 DEF Written
      <3>7. QED
        BY <1>2, <1>4, <2>1, <3>6 DEF Creating
    <2>4. QED
      BY <2>2, <2>3 DEF CallsTypeOK
  <1>7. QED
    BY <1>5, <1>6

\* A step of the creator: nothing fails, and at the end the store is complete.
LEMMA CreatingNext ==
  ASSUME Ranges = Nat, TypeOK, LockInv,
         NEW p \in Procs, Creating(p), Act(p), ~ Crash(p)
  PROVE  Creating(p)' \/ (seqf' >= 1 /\ Complete' /\ \A q \in Procs : Using(q)')
  <1>1. FilesTypeOK /\ CallsTypeOK /\ LockTypeOK
    BY DEF TypeOK
  <1>2. pc[p] \in {"seqnew", "seqone", "datcheck", "datnew"} \cup Extending
    BY DEF Creating
  <1>3. ~ (CallOpen(p) \/ Close(p) \/ CallExtend(p) \/ PeekRead(p) \/ PeekUnlock(p))
    BY <1>2 DEF CallOpen, Close, CallExtend, PeekRead, PeekUnlock
  <1>4. ~ (LockSleeps(p) \/ LockFails(p))
    BY <1>1, CreatorGranted DEF LockSleeps, LockFails, Sleeps, Refused
  <1>5. CASE SeqCreate(p) \/ SeqFirst(p) \/ DatCheck(p) \/ DatCreate(p) \/ SeekEnd(p)
    BY <1>1, <1>5, CreatorStarts
  <1>6. CASE TurnNext(p) \/ SeqRead(p) \/ SeqWrite(p) \/ SeqUnlock(p) \/ LockTaken(p)
    BY <1>1, <1>2, <1>6, CreatorCalls
  <1>7. CASE TurnInit(p) \/ TurnDone(p)
    BY <1>1, <1>7, CreatorTurns
  <1>8. CASE RecWrite(p) \/ RecUnlock(p)
    BY <1>1, <1>8, CreatorWrites
  <1>9. QED
    BY <1>3, <1>4, <1>5, <1>6, <1>7, <1>8 DEF Act, Step

\* A step of anyone once the store is complete.
LEMMA UsingNext ==
  ASSUME TypeOK, seqf >= 1, Complete, \A q \in Procs : Using(q), NEW p \in Procs, Act(p)
  PROVE  seqf' >= 1 /\ Complete' /\ \A q \in Procs : Using(q)'
  <1>1. /\ FilesTypeOK /\ CallsTypeOK /\ Using(p)
        /\ datf \in Seq(Nat) /\ Len(datf) \in Nat /\ pos[p] \in Nat /\ num[p] \in Nat
        /\ todo[p] \in Nat /\ Records \in Nat /\ NumPerm \in Nat /\ NumPerm <= Records
    BY OpenAssumption DEF OpenAssumption, TypeOK, FilesTypeOK, CallsTypeOK
  <1>2. Sound(p)
    BY <1>1 DEF Using, Sound, FilesTypeOK
  <1>3. /\ pc[p] \notin {"seqnew", "seqone", "datnew"} /\ made
        /\ Len(datf) >= Records /\ seqf # NoFile
    BY <1>1 DEF Using, Complete
  <1>4. /\ made' = made
        /\ SeqWrite(p) \/ seqf' = seqf
        /\ RecWrite(p) \/ datf' = datf
    <2>1. ~ (SeqCreate(p) \/ SeqFirst(p) \/ DatCreate(p))
      BY <1>3 DEF SeqCreate, SeqFirst, DatCreate
    <2>2. CASE CallOpen(p) \/ Close(p) \/ CallExtend(p) \/ Crash(p) \/ DatCheck(p)
      BY <2>2 DEF CallOpen, Close, CallExtend, Crash, DatCheck
    <2>3. CASE PeekRead(p) \/ PeekUnlock(p) \/ SeekEnd(p) \/ TurnNext(p)
      BY <2>3 DEF PeekRead, PeekUnlock, SeekEnd, TurnNext
    <2>4. CASE TurnInit(p) \/ TurnDone(p) \/ SeqRead(p) \/ SeqWrite(p) \/ SeqUnlock(p)
      BY <2>4 DEF TurnInit, TurnDone, SeqRead, SeqWrite, SeqUnlock
    <2>5. CASE RecWrite(p) \/ RecUnlock(p) \/ LockTaken(p) \/ LockSleeps(p) \/ LockFails(p)
      BY <2>5 DEF RecWrite, RecUnlock, LockTaken, LockSleeps, LockFails
    <2>6. QED
      BY <2>1, <2>2, <2>3, <2>4, <2>5 DEF Act, Step
  <1>5. seqf' >= 1
    BY <1>1, <1>4 DEF SeqWrite
  <1>6. Len(datf') \in Nat /\ Len(datf') >= Len(datf)
    BY <1>1, <1>2, <1>4, RecordWritten
  <1>7. Complete'
    <2>1. CASE datf' = datf
      BY <1>4, <2>1 DEF Complete
    <2>2. CASE RecWrite(p)
      <3>1. Records <= pos[p] /\ pos[p] <= Len(datf)
        BY <1>1, <2>2 DEF RecWrite, Using
      <3>2. \A i \in 1 .. NumPerm : datf'[i] = datf[i]
        <4>1. Content(p) \in Nat
          BY <1>1 DEF Content
        <4>2. CASE pos[p] < Len(datf)
          BY <1>1, <2>2, <3>1, <4>1, <4>2 DEF RecWrite
        <4>3. CASE ~ (pos[p] < Len(datf))
          <5>1. datf' = Append(datf, Content(p))
            BY <2>2, <4>3 DEF RecWrite
          <5>2. QED
            BY <1>1, <1>3, <4>1, <5>1, AppendProperties
        <4>4. QED
          BY <4>2, <4>3
      <3>3. QED
        BY <1>1, <1>3, <1>4, <1>6, <3>2 DEF Complete
    <2>3. QED
      BY <1>4, <2>1, <2>2
  <1>8. Using(p)'
    <2> USE DEF Using, CallsTypeOK
    <2>1. CASE CallOpen(p) \/ Close(p) \/ CallExtend(p) \/ Crash(p) \/ DatCheck(p)
      BY <1>1, <1>3, <2>1 DEF CallOpen, Close, CallExtend, Crash, DatCheck
    <2>2. CASE PeekRead(p) \/ PeekUnlock(p)
      BY <1>1, <2>2 DEF PeekRead, PeekUnlock
    <2>3. CASE SeekEnd(p)
      BY <1>1, <1>3, <2>3 DEF SeekEnd
    <2>4. CASE TurnNext(p) \/ TurnInit(p) \/ TurnDone(p)
      BY <1>1, <2>4 DEF TurnNext, TurnInit, TurnDone
    <2>5. CASE SeqRead(p) \/ SeqWrite(p) \/ SeqUnlock(p)
      BY <1>1, <2>5 DEF SeqRead, SeqWrite, SeqUnlock
    <2>6. CASE RecWrite(p)
      <3>1. /\ pc[p] = "recwrite" /\ pc'[p] = "recunlock" /\ pos'[p] = pos[p] + 1
            /\ goal' = goal /\ phase' = phase /\ todo' = todo
        BY <1>1, <2>6 DEF RecWrite
      <3>2. pos'[p] <= Len(datf')
        BY <1>1, <1>2, <2>6, <3>1, RecordWritten
      <3>3. QED
        BY <1>1, <3>1, <3>2
    <2>7. CASE RecUnlock(p)
      BY <1>1, <2>7 DEF RecUnlock
    <2>8. CASE LockTaken(p)
      BY <1>1, <2>8 DEF LockTaken, Locking, AfterLock
    <2>9. CASE LockSleeps(p) \/ LockFails(p)
      BY <1>1, <2>9 DEF LockSleeps, LockFails, Locking
    <2>10. QED
      BY <1>3, <2>1, <2>2, <2>3, <2>4, <2>5, <2>6, <2>7, <2>8, <2>9
         DEF Act, Step, SeqCreate, SeqFirst, DatCreate
  <1>9. ASSUME NEW q \in Procs, q # p PROVE Using(q)'
    <2>1. /\ pc'[q] = pc[q] /\ todo'[q] = todo[q] /\ pos'[q] = pos[q] /\ pos[q] \in Nat
          /\ goal'[q] = goal[q] /\ phase'[q] = phase[q]
      BY <1>1, <1>9, OthersKeep DEF CallsTypeOK
    <2>2. Using(q)
      OBVIOUS
    <2>3. QED
      BY <1>1, <1>6, <2>1, <2>2 DEF Using
  <1>10. QED
    BY <1>5, <1>7, <1>8, <1>9

\* Every step keeps the invariant of the creation.
LEMMA CreatedNext ==
  ASSUME Ranges = Nat, CreatedInv, [Next]_vars
  PROVE  CreatedInv'
  <1>1. CASE UNCHANGED vars
    <2>1. /\ UNCHANGED <<owner, tries, seqf, made, datf, done, early>>
          /\ UNCHANGED <<pc, goal, phase, todo, recs, num, pos>>
      BY <1>1 DEF vars, histVars, procVars
    <2>2. TypeOK => TypeOK'
      BY <2>1 DEF TypeOK, LockTypeOK, FilesTypeOK, CallsTypeOK, HistTypeOK
    <2>3. LockInv => LockInv'
      BY <2>1 DEF LockInv, Owns, InCounter
    <2>4. \A p \in Procs : (Creating(p) => Creating(p)') /\ (Using(p) => Using(p)')
      BY <2>1 DEF Creating, Written, Using
    <2>5. (Complete => Complete') /\ (Closed => Closed') /\ (Missing => Missing')
      BY <2>1 DEF Complete, Closed
    <2>6. QED
      BY <2>1, <2>2, <2>3, <2>4, <2>5 DEF CreatedInv
  <1>2. CASE early
    <2>1. SUFFICES ASSUME NEW p \in Procs, Act(p) PROVE early'
      BY <1>1 DEF Next, CreatedInv
    <2>2. QED
      BY <1>2, <2>1, EarlyStays
  <1>3. ASSUME ~ early, ~ early', NEW p \in Procs, Act(p) PROVE CreatedInv'
    <2>1. TypeOK /\ LockInv /\ FilesTypeOK /\ CallsTypeOK /\ LockTypeOK /\ HistTypeOK
      BY <1>3 DEF CreatedInv, TypeOK
    <2>2. HistTypeOK' /\ (done' = done \/ TurnDone(p))
      BY <1>3, <2>1, HistNext
    <2>3. CASE Closed /\ (Missing \/ seqf # NoFile) /\ ~ done
      <3>1. Sound(p) /\ pc[p] = "closed" /\ CallOpen(p)
        BY <1>3, <2>3, ClosedOpens DEF Sound, Closed
      <3>2. TypeOK' /\ LockInv'
        BY <1>3, <2>1, <2>2, <3>1, LockTypeNext, FilesTypeNext, CallsTypeNext, LockNext
           DEF TypeOK
      <3>3. Missing
        BY <1>3, <2>1, <2>3, <3>1, HistNext DEF Begun
      <3>4. Creating(p)' /\ done' = done
        BY <1>3, <2>1, <2>2, <2>3, <3>1, <3>3, MissingNext DEF TurnDone
      <3>5. QED
        BY <2>3, <3>2, <3>4 DEF CreatedInv
    <2>4. ASSUME NEW c \in Procs, Creating(c), ~ done PROVE CreatedInv'
      <3>1. p = c
        BY <1>3, <2>1, <2>4, CreatorActs
      <3>2. Sound(p)
        <4>1. pc[p] \in {"peekread", "seqread"} => seqf \in Nat
          BY <2>1, <2>4, <3>1 DEF Creating, FilesTypeOK
        <4>2. pc[p] = "recunlock" => todo[p] > 0
          BY <2>4, <3>1 DEF Creating, Written
        <4>3. ASSUME pc[p] = "recwrite" PROVE pos[p] <= Len(datf)
          <5>1. Written(p)
            BY <2>4, <3>1, <4>3 DEF Creating
          <5>2. /\ Len(datf) \in Nat /\ pos[p] \in Nat /\ todo[p] \in Nat
                /\ NumPerm \in Nat /\ NumPerm <= Records /\ Records \in Nat
            BY <2>1, OpenAssumption DEF OpenAssumption, FilesTypeOK, CallsTypeOK
          <5>3. QED
            BY <4>3, <5>1, <5>2 DEF Written
        <4>4. QED
          BY <4>1, <4>2, <4>3 DEF Sound
      <3>3. TypeOK' /\ LockInv'
        BY <1>3, <2>1, <2>2, <3>2, LockTypeNext, FilesTypeNext, CallsTypeNext, LockNext
           DEF TypeOK
      <3>4. CASE Crash(p)
        <4>1. Closed' /\ ~ done' /\ (Missing' \/ seqf' # NoFile)
          BY <2>1, <2>4, <3>1, <3>4, CreatorDies
        <4>2. QED
          BY <3>3, <4>1 DEF CreatedInv
      <3>5. CASE ~ Crash(p)
        <4>1. Creating(p)' \/ (seqf' >= 1 /\ Complete' /\ \A q \in Procs : Using(q)')
          BY <1>3, <2>1, <2>4, <3>1, <3>5, CreatingNext
        <4>2. ASSUME Creating(p)' PROVE ~ done'
          <5>1. ~ TurnDone(p)
            BY <2>1, <4>2 DEF Creating, TurnDone, Enter, CallsTypeOK
          <5>2. QED
            BY <2>2, <2>4, <5>1
        <4>3. QED
          BY <3>3, <4>1, <4>2 DEF CreatedInv
      <3>6. QED
        BY <3>4, <3>5
    <2>5. CASE seqf >= 1 /\ Complete /\ \A q \in Procs : Using(q)
      <3>1. Sound(p)
        BY <2>1, <2>5 DEF Sound, Using, FilesTypeOK
      <3>2. TypeOK' /\ LockInv'
        BY <1>3, <2>1, <2>2, <3>1, LockTypeNext, FilesTypeNext, CallsTypeNext, LockNext
           DEF TypeOK
      <3>3. seqf' >= 1 /\ Complete' /\ \A q \in Procs : Using(q)'
        BY <1>3, <2>1, <2>5, UsingNext
      <3>4. QED
        BY <3>2, <3>3 DEF CreatedInv
    <2>6. QED
      BY <1>3, <2>3, <2>4, <2>5 DEF CreatedInv
  <1>4. QED
    BY <1>1, <1>2, <1>3 DEF Next, CreatedInv

(***************************************************************************)
(* An open that has returned finds all the records that the class asks     *)
(* for, and the permanent ones at their places, for any number of          *)
(* processes and records, in a store that was there or is created, though  *)
(* its users extend it at positions that others have overtaken, are        *)
(* refused locks and die in any call (rms.c, node.c and user.c).  Only a   *)
(* store that somebody opened before it was finished is excepted.          *)
(***************************************************************************)
THEOREM StoreComplete ==
  ASSUME Ranges = Nat
  PROVE  Spec => []OpenedIsComplete
  <1>1. Init => CreatedInv
    BY InitCreated
  <1>2. CreatedInv /\ [Next]_vars => CreatedInv'
    BY CreatedNext
  <1>3. CreatedInv => OpenedIsComplete
    BY DEF CreatedInv, Creating, Complete, Closed, OpenedIsComplete
  <1>4. QED
    BY <1>1, <1>2, <1>3, PTL DEF Spec
=============================================================================
