--------------------------- MODULE RecordFileProofs ---------------------------
(***************************************************************************)
(* Theorems about RecordFile, for every number of processes, records,      *)
(* payloads and retries.  The inductive invariant is IInv: the type        *)
(* invariant, who owns which range at which stage (LockInv), that a write  *)
(* is computed from what is on disk (WriteIsCurrent), what a call carries  *)
(* (StageInv) and what a structure in memory knows of the record it was    *)
(* read from (CopyInv).                                                    *)
(***************************************************************************)
EXTENDS RecordFile, TLAPS

USE FileAssumption, LockAssumption
    DEF Stages, Calls, LockTypeOK, Enter, Return, FileAssumption, LockAssumption

(***************************************************************************)
(* The file has a first record, where a scan begins.                       *)
(***************************************************************************)
LEMMA FirstRec == 1 \in Recs
  BY DEF Recs, Store!Recs, Store!StoreAssumption

\* A structure nobody has filled is of the type of a record.
LEMMA UnreadType == Unread \in Record
  BY DEF Unread, Record, Store!Record, Store!Flags, Store!StoreAssumption

\* _user_del and _profile_del write a record, one revision up.
LEMMA DeletedType ==
  ASSUME NEW d \in Record
  PROVE  Store!Deleted(d) \in Record /\ Store!Deleted(d).rev = d.rev + 1
  BY DEF Store!Deleted, Store!UserDeleted, Store!ProfileDeleted, Record,
         Store!Record, Store!Flags, Store!StoreAssumption

\* _user_put and _profile_put write a record, one revision up.
LEMMA MergedType ==
  ASSUME NEW d \in Record, NEW m \in Record
  PROVE  Merged(d, m) \in Record /\ Merged(d, m).rev = d.rev + 1
  BY DEF Merged, Normalized, Record, Store!Record

(***************************************************************************)
(* The file as it is created holds records of revision 1.                  *)
(***************************************************************************)
LEMMA BornType ==
  Store!Born \in [Recs -> Record] /\ \A r \in Recs : Store!Born[r].rev = 1
  BY DEF Store!Born, Store!UserBorn, Store!ProfileBorn, Store!StoreAssumption,
         Recs, Record, Store!Record, Store!Flags

(***************************************************************************)
(* The variables of RecordFile keep their types.                           *)
(***************************************************************************)
LEMMA InitType == Init => TypeOK
  BY BornType, UnreadType, FirstRec DEF Init, TypeOK, LockInit

\* A caller's arguments are of their types.
LEMMA CallType ==
  ASSUME TypeOK, NEW p \in Procs, NewCall(p)
  PROVE  TypeOK'
  <1>1. ASSUME NEW r \in Recs, CallGet(p, r) PROVE TypeOK'
    BY <1>1 DEF TypeOK, CallGet, Call
  <1>2. ASSUME NEW r \in Recs, CallDel(p, r) PROVE TypeOK'
    BY <1>2 DEF TypeOK, CallDel, Call
  <1>3. ASSUME NEW w \in Payloads, CallPut(p, w) PROVE TypeOK'
    <2>1. [mem[p] EXCEPT !.who = w] \in Record
      <3>1. mem[p] \in Record
        BY DEF TypeOK
      <3>2. QED
        BY <3>1 DEF Record, Store!Record
    <2>2. home[p] \in Recs
      BY <1>3 DEF TypeOK, CallPut, NoRec
    <2>3. QED
      BY <1>3, <2>1, <2>2 DEF TypeOK, CallPut, Call
  <1>4. ASSUME NEW w \in Payloads, NEW v \in FreshRevs, CallAdd(p, w, v)
        PROVE  TypeOK'
    <2>1. [flags |-> {}, rev |-> v, who |-> w] \in Record
      <3>1. v \in Nat
        OBVIOUS
      <3>2. QED
        BY <3>1 DEF Record, Store!Record
    <2>2. QED
      BY <1>4, <2>1, FirstRec DEF TypeOK, CallAdd, Call
  <1>5. QED
    BY <1>1, <1>2, <1>3, <1>4 DEF NewCall

\* Each system call of a call keeps the types, by one case per action.
LEMMA StepType ==
  ASSUME TypeOK, NEW p \in Procs, Step(p)
  PROVE  TypeOK'
  <1>1. CASE LockTaken(p)
    BY <1>1 DEF TypeOK, LockTaken, Granted
  <1>2. CASE LockSleeps(p)
    BY <1>2 DEF TypeOK, LockSleeps, Sleeps
  <1>3. CASE LockFails(p)
    <2>1. pc' \in [Procs -> Stages]
      BY <1>3 DEF TypeOK, LockFails
    <2>2. buf' \in [Procs -> Record] /\ caller' \in [Procs -> Record]
      BY <1>3, UnreadType DEF TypeOK, LockFails
    <2>3. owner' \in [Ranges -> Procs \cup {NoOne}] /\ tries' \in [Procs -> 0 .. Retries]
      BY <1>3 DEF TypeOK, LockFails, Refused
    <2>4. QED
      BY <1>3, <2>1, <2>2, <2>3 DEF TypeOK, LockFails
  <1>4. CASE ReadOnly(p)
    BY <1>4 DEF TypeOK, ReadOnly
  <1>5. CASE ReadPut(p)
    <2>1. Merged(file[rec[p]], mem[p]) \in Record
      BY MergedType DEF TypeOK
    <2>2. QED
      BY <1>5, <2>1 DEF TypeOK, ReadPut
  <1>6. CASE ReadDel(p)
    <2>1. Store!Deleted(file[rec[p]]) \in Record
      BY DeletedType DEF TypeOK
    <2>2. buf' \in [Procs -> Record] /\ pc' \in [Procs -> Stages]
      BY <1>6, <2>1 DEF TypeOK, ReadDel
    <2>3. QED
      BY <1>6, <2>2 DEF TypeOK, ReadDel
  <1>7. CASE Write(p)
    BY <1>7 DEF TypeOK, Write
  <1>8. CASE UnlockGet(p)
    BY <1>8, UnreadType DEF TypeOK, UnlockGet, Unlocked, Released
  <1>9. CASE UnlockChange(p)
    BY <1>9, UnreadType DEF TypeOK, UnlockChange, Unlocked, Released
  <1>10. CASE UnlockFound(p)
    BY <1>10 DEF TypeOK, UnlockFound, Unlocked, Released
  <1>11. CASE UnlockNext(p)
    <2>1. rec[p] + 1 \in Recs
      BY <1>11 DEF TypeOK, UnlockNext, Recs, Store!Recs, Store!StoreAssumption
    <2>2. QED
      BY <1>11, <2>1 DEF TypeOK, UnlockNext, Unlocked, Released
  <1>12. CASE UnlockFull(p)
    BY <1>12, UnreadType DEF TypeOK, UnlockFull, Unlocked, Released
  <1>13. QED
    BY <1>1, <1>2, <1>3, <1>4, <1>5, <1>6, <1>7, <1>8, <1>9, <1>10, <1>11,
       <1>12 DEF Step

\* A process that is started anew has variables of their types.
LEMMA CrashType ==
  ASSUME TypeOK, NEW p \in Procs, Crash(p)
  PROVE  TypeOK'
  BY UnreadType, FirstRec DEF TypeOK, Crash, Died

\* Every step keeps the types.
LEMMA NextType == TypeOK /\ [Next]_vars => TypeOK'
  <1>1. TypeOK /\ UNCHANGED vars => TypeOK'
    BY DEF TypeOK, vars
  <1>2. QED
    BY <1>1, CallType, StepType, CrashType DEF Next

(***************************************************************************)
(* Type correctness of the shared file and of every process's call.        *)
(***************************************************************************)
THEOREM TypeCorrect == Spec => []TypeOK
  BY InitType, NextType, PTL DEF Spec

-----------------------------------------------------------------------------
(***************************************************************************)
(* The locks.  A step of p changes the ownership of p's own range only.    *)
(***************************************************************************)
LEMMA LocksInit == Init => LockInv /\ StageInv
  BY FirstRec DEF Init, LockInit, LockInv, StageInv

\* Every step keeps what a call carries at each of its stages.
LEMMA StageNext == TypeOK /\ StageInv /\ [Next]_vars => StageInv'
  <1> SUFFICES ASSUME TypeOK, StageInv, [Next]_vars PROVE StageInv'
    OBVIOUS
  <1> USE DEF TypeOK, StageInv
  <1>1. CASE UNCHANGED vars
    BY <1>1 DEF vars
  <1>2. ASSUME NEW p \in Procs, NewCall(p) PROVE StageInv'
    <2>1. \E name \in Calls \ {"none"} : \E r, data : Call(p, name, r, data)
      BY <1>2 DEF NewCall, CallGet, CallDel, CallPut, CallAdd
    <2>2. QED
      BY <2>1 DEF Call
  <1>3. ASSUME NEW p \in Procs, LockTaken(p) \/ LockSleeps(p) \/ LockFails(p)
        PROVE  StageInv'
    BY <1>3 DEF LockTaken, LockSleeps, LockFails
  <1>4. ASSUME NEW p \in Procs, ReadOnly(p) \/ ReadPut(p) \/ ReadDel(p) \/ Write(p)
        PROVE  StageInv'
    BY <1>4 DEF ReadOnly, ReadPut, ReadDel, Write
  <1>5. ASSUME NEW p \in Procs,
               \/ UnlockGet(p) \/ UnlockChange(p)
               \/ UnlockFound(p) \/ UnlockNext(p) \/ UnlockFull(p)
        PROVE  StageInv'
    BY <1>5 DEF UnlockGet, UnlockChange, UnlockFound, UnlockNext, UnlockFull,
                Unlocked
  <1>6. ASSUME NEW p \in Procs, Crash(p) PROVE StageInv'
    BY <1>6 DEF Crash
  <1>7. QED
    BY <1>1, <1>2, <1>3, <1>4, <1>5, <1>6 DEF Next, Step

\* Every new call is a Call on a record of the file.
LEMMA NewCallIsCall ==
  ASSUME TypeOK, NEW p \in Procs, NewCall(p)
  PROVE  \E name \in Calls \ {"none"}, r \in Recs : \E data : Call(p, name, r, data)
  <1>1. CASE \E r \in Recs : CallGet(p, r) \/ CallDel(p, r)
    BY <1>1 DEF CallGet, CallDel
  <1>2. CASE \E w \in Payloads : CallPut(p, w)
    <2>1. home[p] \in Recs
      BY <1>2 DEF TypeOK, CallPut, NoRec
    <2>2. QED
      BY <1>2, <2>1 DEF CallPut
  <1>3. CASE \E w \in Payloads \ {Blank}, v \in FreshRevs : CallAdd(p, w, v)
    BY <1>3, FirstRec DEF CallAdd
  <1>4. QED
    BY <1>1, <1>2, <1>3 DEF NewCall

\* Every step keeps the ownership of the ranges, one case per action.
LEMMA LockNext == TypeOK /\ StageInv /\ LockInv /\ [Next]_vars => LockInv'
  <1> SUFFICES ASSUME TypeOK, StageInv, LockInv, [Next]_vars PROVE LockInv'
    OBVIOUS
  <1> USE DEF TypeOK, StageInv, LockInv
  <1>1. CASE UNCHANGED vars
    BY <1>1 DEF vars
  <1>2. ASSUME NEW p \in Procs, NewCall(p) PROVE LockInv'
    <2>1. PICK name \in Calls \ {"none"}, r \in Recs :
              \E data : Call(p, name, r, data)
      BY <1>2, NewCallIsCall
    <2>2. QED
      BY <2>1 DEF Call
  <1>3. ASSUME NEW p \in Procs, LockTaken(p) PROVE LockInv'
    BY <1>3 DEF LockTaken, Granted, Grantable
  <1>4. ASSUME NEW p \in Procs, LockSleeps(p) PROVE LockInv'
    BY <1>4 DEF LockSleeps, Sleeps
  <1>5. ASSUME NEW p \in Procs, LockFails(p) PROVE LockInv'
    BY <1>5 DEF LockFails, Refused
  <1>6. ASSUME NEW p \in Procs, ReadOnly(p) \/ ReadPut(p) \/ ReadDel(p) \/ Write(p)
        PROVE  LockInv'
    BY <1>6 DEF ReadOnly, ReadPut, ReadDel, Write
  <1>7. ASSUME NEW p \in Procs,
               \/ UnlockGet(p) \/ UnlockChange(p)
               \/ UnlockFound(p) \/ UnlockNext(p) \/ UnlockFull(p)
        PROVE  LockInv'
    <2>1. Unlocked(p) /\ pc'[p] \in {"idle", "lock"} /\ rec'[p] \in Recs
      BY <1>7, NextType DEF UnlockGet, UnlockChange, UnlockFound, UnlockNext,
            UnlockFull, Next, Step
    <2>2. \A q \in Procs \ {p} :
              rec'[q] = rec[q] /\ pc'[q] = pc[q] /\ op'[q] = op[q]
      BY <1>7 DEF UnlockGet, UnlockChange, UnlockFound, UnlockNext, UnlockFull
    <2>3. \A r \in Recs : owner'[r] # p /\ (\A q \in Procs \ {p} : owner'[r] = q <=> owner[r] = q)
      BY <2>1 DEF Unlocked, Released
    <2>4. locked' = [locked EXCEPT ![p] = FALSE]
      BY <2>1 DEF Unlocked
    <2>5. QED
      BY <2>1, <2>2, <2>3, <2>4
  <1>8. ASSUME NEW p \in Procs, Crash(p) PROVE LockInv'
    BY <1>8, FirstRec DEF Crash, Died
  <1>9. QED
    BY <1>1, <1>2, <1>3, <1>4, <1>5, <1>6, <1>7, <1>8 DEF Next, Step

(***************************************************************************)
(* Two processes are never between the read and the write of one record.   *)
(***************************************************************************)
THEOREM LocksHold == Spec => []LockInv
  <1>1. TypeOK /\ StageInv /\ LockInv /\ [Next]_vars => (StageInv /\ LockInv)'
    BY StageNext, LockNext
  <1>2. QED
    BY LocksInit, TypeCorrect, <1>1, PTL DEF Spec

-----------------------------------------------------------------------------
(***************************************************************************)
(* What a write does: it raises the revision of the record by one, and     *)
(* leaves the other records alone.  No other step changes the file.        *)
(***************************************************************************)
LEMMA WriteRaises ==
  ASSUME TypeOK, StageInv, WriteIsCurrent, NEW p \in Procs, Write(p)
  PROVE  /\ file' = [file EXCEPT ![rec[p]] = file'[rec[p]]]
         /\ file'[rec[p]] \in Record
         /\ file'[rec[p]].rev = file[rec[p]].rev + 1
  <1> DEFINE d == file[rec[p]]
  <1>1. d \in Record /\ caller[p] \in Record /\ rec[p] \in Recs
    BY DEF TypeOK
  <1>2. CASE op[p] = "del"
    <2>1. file' = [file EXCEPT ![rec[p]] = Store!Deleted(d)]
      BY <1>2 DEF Write, WriteIsCurrent
    <2>2. QED
      BY <1>1, <2>1, DeletedType DEF TypeOK
  <1>3. CASE op[p] # "del"
    <2>1. file' = [file EXCEPT ![rec[p]] = Merged(d, caller[p])]
      BY <1>3 DEF Write, WriteIsCurrent
    <2>2. QED
      BY <1>1, <2>1, MergedType DEF TypeOK
  <1>4. QED
    BY <1>2, <1>3

\* No step but _rms_write changes the file.
LEMMA OnlyWriteChanges ==
  ASSUME [Next]_vars
  PROVE  file' = file \/ \E p \in Procs : Write(p)
  <1>1. CASE UNCHANGED vars
    BY <1>1 DEF vars
  <1>2. ASSUME NEW p \in Procs, NewCall(p) PROVE file' = file
    BY <1>2 DEF NewCall, CallGet, CallDel, CallPut, CallAdd, Call
  <1>3. ASSUME NEW p \in Procs, Step(p), ~ Write(p) PROVE file' = file
    BY <1>3 DEF Step, LockTaken, LockSleeps, LockFails, ReadOnly, ReadPut,
                ReadDel, UnlockGet, UnlockChange, UnlockFound, UnlockNext,
                UnlockFull
  <1>4. ASSUME NEW p \in Procs, Crash(p) PROVE file' = file
    BY <1>4 DEF Crash
  <1>5. QED
    BY <1>1, <1>2, <1>3, <1>4 DEF Next

(***************************************************************************)
(* A step of p leaves the call of every other process alone.               *)
(***************************************************************************)
LEMMA OthersKeep ==
  ASSUME TypeOK, NEW p \in Procs, NewCall(p) \/ Step(p) \/ Crash(p),
         NEW q \in Procs, q # p
  PROVE  /\ pc'[q] = pc[q] /\ op'[q] = op[q] /\ rec'[q] = rec[q]
         /\ buf'[q] = buf[q] /\ mem'[q] = mem[q]
         /\ home'[q] = home[q] /\ caller'[q] = caller[q]
  <1> USE DEF TypeOK
  <1>1. CASE NewCall(p)
    BY <1>1 DEF NewCall, CallGet, CallDel, CallPut, CallAdd, Call
  <1>2. CASE LockTaken(p) \/ LockSleeps(p) \/ LockFails(p)
    BY <1>2 DEF LockTaken, LockSleeps, LockFails
  <1>3. CASE ReadOnly(p) \/ ReadPut(p) \/ ReadDel(p) \/ Write(p)
    BY <1>3 DEF ReadOnly, ReadPut, ReadDel, Write
  <1>4. CASE \/ UnlockGet(p) \/ UnlockChange(p)
             \/ UnlockFound(p) \/ UnlockNext(p) \/ UnlockFull(p)
    BY <1>4 DEF UnlockGet, UnlockChange, UnlockFound, UnlockNext, UnlockFull,
                Unlocked
  <1>5. CASE Crash(p)
    BY <1>5 DEF Crash
  <1>6. QED
    BY <1>1, <1>2, <1>3, <1>4, <1>5 DEF Step

(***************************************************************************)
(* The write of a put or a delete is computed from the record on disk.     *)
(***************************************************************************)
LEMMA CurrentNext ==
  TypeOK /\ StageInv /\ LockInv /\ WriteIsCurrent /\ [Next]_vars => WriteIsCurrent'
  <1> SUFFICES ASSUME TypeOK, StageInv, LockInv, WriteIsCurrent, [Next]_vars,
                      NEW q \in Procs, pc'[q] = "write"
               PROVE  LET d == file'[rec'[q]] IN
                      IF op'[q] = "del" THEN /\ buf'[q] = Store!Deleted(d)
                                             /\ ~ Store!Protected(d)
                                        ELSE /\ buf'[q] = d
                                             /\ mem'[q] = Merged(d, caller'[q])
    BY DEF WriteIsCurrent
  <1>1. CASE UNCHANGED vars
    BY <1>1 DEF vars, WriteIsCurrent
  <1>2. ASSUME NEW p \in Procs, NewCall(p) \/ Step(p) \/ Crash(p), p # q
        PROVE  /\ pc[q] = "write" /\ op'[q] = op[q] /\ rec'[q] = rec[q]
               /\ buf'[q] = buf[q] /\ mem'[q] = mem[q] /\ caller'[q] = caller[q]
               /\ file'[rec[q]] = file[rec[q]]
    <2>1. pc[q] = "write" /\ op[q] # "get"
      BY <1>2, OthersKeep DEF StageInv
    <2>2. owner[rec[q]] = q /\ rec[q] \in Recs
      BY <2>1 DEF LockInv, TypeOK
    <2>3. ASSUME NEW x \in Procs, Write(x), x # q PROVE rec[x] # rec[q]
      <3>1. owner[rec[x]] = x
        BY <2>3 DEF LockInv, StageInv, Write
      <3>2. QED
        BY <2>2, <2>3, <3>1
    <2>4. Write(q) => pc'[q] = "unlock"
      BY DEF Write, TypeOK
    <2>5. file'[rec[q]] = file[rec[q]]
      BY <2>2, <2>3, <2>4, OnlyWriteChanges DEF Write, TypeOK
    <2>6. QED
      BY <1>2, <2>1, <2>5, OthersKeep
  <1>3. ASSUME NEW p \in Procs, NewCall(p) \/ Step(p) \/ Crash(p), p # q
        PROVE  LET d == file'[rec'[q]] IN
               IF op'[q] = "del" THEN /\ buf'[q] = Store!Deleted(d)
                                      /\ ~ Store!Protected(d)
                                 ELSE /\ buf'[q] = d
                                      /\ mem'[q] = Merged(d, caller'[q])
    BY <1>2, <1>3 DEF WriteIsCurrent
  <1>4. ASSUME NewCall(q) \/ Step(q) \/ Crash(q)
        PROVE  ReadPut(q) \/ ReadDel(q)
    BY <1>4 DEF NewCall, CallGet, CallDel, CallPut, CallAdd, Call, Step,
                LockTaken, LockSleeps, LockFails, ReadOnly, Write, UnlockGet,
                UnlockChange, UnlockFound, UnlockNext, UnlockFull, Unlocked,
                Crash, TypeOK
  <1>5. CASE ReadPut(q)
    BY <1>5 DEF ReadPut, TypeOK, StageInv
  <1>6. CASE ReadDel(q)
    BY <1>6 DEF ReadDel, TypeOK
  <1>7. QED
    BY <1>1, <1>3, <1>4, <1>5, <1>6 DEF Next

-----------------------------------------------------------------------------
(***************************************************************************)
(* What a structure in memory knows of its record stays true, because the  *)
(* record only changes together with its revision.                         *)
(***************************************************************************)
LEMMA RevisionGrows ==
  ASSUME TypeOK, StageInv, WriteIsCurrent, [Next]_vars, NEW r \in Recs
  PROVE  file'[r] = file[r] \/ file'[r].rev = file[r].rev + 1
  BY OnlyWriteChanges, WriteRaises DEF TypeOK

\* The fields of a record have their types.
LEMMA RecordFields ==
  ASSUME NEW d \in Record
  PROVE  d.rev \in Nat
  BY DEF Record, Store!Record

\* A copy that is not newer than its record stays so while others write.
LEMMA CopyStays ==
  ASSUME TypeOK, StageInv, WriteIsCurrent, [Next]_vars, NEW r \in Recs,
         NEW d \in Record, CopyOf(r, d)
  PROVE  CopyOf(r, d)'
  <1>1. file[r].rev \in Nat /\ d.rev \in Nat
    BY RecordFields DEF TypeOK
  <1>2. QED
    BY <1>1, RevisionGrows DEF CopyOf

\* A structure just read from a record is a copy of it.
LEMMA CopyOfDisk ==
  ASSUME TypeOK, NEW r \in Recs
  PROVE  CopyOf(r, file[r])
  BY RecordFields DEF CopyOf, TypeOK

\* A new process has no structure of any record.
LEMMA CopyInit == Init => CopyInv
  BY BornType DEF Init, CopyInv, CopyPart

\* Nothing is lost of what the other processes know.
LEMMA CopyOthers ==
  ASSUME TypeOK, StageInv, WriteIsCurrent, CopyInv, [Next]_vars,
         NEW q \in Procs,
         pc'[q] = pc[q], op'[q] = op[q], rec'[q] = rec[q], buf'[q] = buf[q],
         mem'[q] = mem[q], home'[q] = home[q], caller'[q] = caller[q]
  PROVE  CopyPart(q)'
  <1>1. CopyPart(q)
    BY DEF CopyInv
  <1>2. /\ rec[q] \in Recs /\ buf[q] \in Record /\ mem[q] \in Record
        /\ caller[q] \in Record /\ home[q] \in Recs \cup {NoRec}
    BY DEF TypeOK
  <1>3. \A r \in Recs, d \in Record : CopyOf(r, d) => CopyOf(r, d)'
    BY CopyStays
  <1>4. file[rec[q]].rev \in Nat /\ file[rec[q]].rev >= 1
    BY <1>2, RecordFields DEF TypeOK, CopyInv
  <1>5. file'[rec[q]].rev = 1 => file'[rec[q]] = file[rec[q]]
    BY <1>2, <1>4, RevisionGrows
  <1>6. Store!Vacant(file[rec[q]]) /\ file'[rec[q]] = file[rec[q]]
            => Store!Vacant(file'[rec[q]])
    OBVIOUS
  <1>7. /\ home'[q] # NoRec /\ ~ (pc'[q] = "write" /\ op'[q] = "put")
              => CopyOf(home[q], mem[q])'
        /\ pc'[q] = "write" /\ op'[q] = "put" => CopyOf(rec[q], caller[q])'
        /\ pc'[q] = "unlock" /\ op'[q] \in {"get", "scan"} => CopyOf(rec[q], buf[q])'
    BY <1>1, <1>2, <1>3 DEF CopyPart
  <1>8. QED
    BY <1>1, <1>5, <1>6, <1>7 DEF CopyPart, CopyOf, Store!Vacant, Store!UserVacant,
       Store!ProfileVacant

\* The process that makes a call.
LEMMA CopyCall ==
  ASSUME TypeOK, StageInv, CopyInv, NEW p \in Procs, NewCall(p)
  PROVE  CopyPart(p)'
  <1>1. CopyPart(p) /\ pc[p] = "idle" /\ file' = file
    BY DEF CopyInv, NewCall, CallGet, CallDel, CallPut, CallAdd, Call
  <1>2. ASSUME NEW r \in Recs, CallGet(p, r) \/ CallDel(p, r) PROVE CopyPart(p)'
    BY <1>1, <1>2 DEF CallGet, CallDel, Call, CopyPart, CopyOf, TypeOK
  <1>3. ASSUME NEW w \in Payloads, CallPut(p, w) PROVE CopyPart(p)'
    <2>1. mem[p] \in Record
      BY DEF TypeOK
    <2>2. /\ [mem[p] EXCEPT !.who = w].rev = mem[p].rev
          /\ [mem[p] EXCEPT !.who = w].flags = mem[p].flags
      BY <2>1 DEF Record, Store!Record
    <2>3. CopyOf(home[p], mem[p])
      BY <1>1, <1>3 DEF CopyPart, CallPut
    <2>4. /\ mem'[p].rev = mem[p].rev /\ mem'[p].flags = mem[p].flags
          /\ pc'[p] = "lock" /\ op'[p] = "put" /\ rec'[p] = home[p]
          /\ home'[p] = home[p]
      BY <1>3, <2>2 DEF CallPut, Call, TypeOK
    <2>5. QED
      BY <1>1, <2>3, <2>4 DEF CopyPart, CopyOf
  <1>4. ASSUME NEW w \in Payloads, NEW v \in FreshRevs, CallAdd(p, w, v)
        PROVE  CopyPart(p)'
    <2>1. v \in Nat /\ v <= 1
      OBVIOUS
    <2>2. QED
      BY <1>4, <2>1 DEF CallAdd, Call, CopyPart, TypeOK
  <1>5. QED
    BY <1>2, <1>3, <1>4 DEF NewCall

\* The process that takes a step of its call.
LEMMA CopyStep ==
  ASSUME TypeOK, StageInv, LockInv, WriteIsCurrent, CopyInv,
         NEW p \in Procs, Step(p)
  PROVE  CopyPart(p)'
  <1>1. CopyPart(p) /\ (\A r \in Recs : file[r] \in Record /\ file[r].rev >= 1)
    BY DEF CopyInv, TypeOK
  <1>2. rec[p] \in Recs /\ file[rec[p]] \in Record /\ file[rec[p]].rev \in Nat
        /\ mem[p] \in Record /\ caller[p] \in Record /\ buf[p] \in Record
    BY RecordFields DEF TypeOK
  <1>3. CopyOf(rec[p], file[rec[p]])
    BY <1>2, CopyOfDisk
  <1>4. CASE LockTaken(p) \/ LockSleeps(p) \/ LockFails(p)
    BY <1>1, <1>4 DEF LockTaken, LockSleeps, LockFails, CopyPart, CopyOf, TypeOK
  <1>5. CASE ReadOnly(p)
    BY <1>1, <1>2, <1>3, <1>5 DEF ReadOnly, CopyPart, CopyOf, TypeOK
  <1>6. CASE ReadPut(p)
    <2>1. mem[p] = caller[p] /\ pc[p] = "read" /\ file' = file
      BY <1>6 DEF ReadPut, StageInv
    <2>2. op[p] = "put" => CopyOf(rec[p], caller[p])
      <3>1. rec[p] # NoRec
        BY <1>2 DEF NoRec, Recs, Store!Recs
      <3>2. QED
        BY <1>1, <2>1, <3>1 DEF CopyPart
    <2>3. /\ pc'[p] = "write" /\ op'[p] = op[p] /\ rec'[p] = rec[p]
          /\ home'[p] = home[p] /\ caller'[p] = caller[p] /\ op[p] \in {"put", "addput"}
      BY <1>6 DEF ReadPut, TypeOK
    <2>4. QED
      BY <1>1, <2>1, <2>2, <2>3 DEF CopyPart, CopyOf
  <1>7. CASE ReadDel(p)
    BY <1>1, <1>7 DEF ReadDel, CopyPart, CopyOf, TypeOK
  <1>8. CASE Write(p)
    <2>1. /\ pc'[p] = "unlock" /\ op'[p] = op[p] /\ rec'[p] = rec[p]
          /\ home'[p] = home[p] /\ caller'[p] = caller[p] /\ mem' = mem
          /\ op[p] \in {"put", "addput", "del"} /\ pc[p] = "write"
      BY <1>8 DEF Write, TypeOK, StageInv
    <2>2. op[p] = "put" => file'[rec[p]] = mem[p]
      BY <1>2, <1>8 DEF Write, TypeOK
    <2>3. op[p] = "put" => CopyOf(home[p], mem[p])'
      <3>1. op[p] = "put" => file'[home[p]] = mem'[p]
        BY <1>1, <2>1, <2>2 DEF CopyPart
      <3>2. QED
        BY <1>2, <2>1, <3>1, RecordFields DEF CopyOf
    <2>4. op[p] = "del" /\ home[p] # NoRec => CopyOf(home[p], mem[p])'
      BY <1>1, <1>2, <1>8, <2>1, CopyStays DEF CopyPart, Next, Step, TypeOK
    <2>5. op[p] = "addput" => home[p] = NoRec
      BY <1>1, <2>1 DEF CopyPart
    <2>6. QED
      BY <1>1, <2>1, <2>3, <2>4, <2>5 DEF CopyPart
  <1>9. CASE UnlockGet(p)
    BY <1>1, <1>2, <1>9 DEF UnlockGet, Unlocked, CopyPart, CopyOf, TypeOK
  <1>10. CASE UnlockChange(p)
    BY <1>1, <1>10 DEF UnlockChange, Unlocked, CopyPart, CopyOf, TypeOK
  <1>11. CASE UnlockFound(p)
    <2>1. CopyOf(rec[p], buf[p]) /\ buf[p].rev >= 1 /\ buf[p].rev \in Nat
      BY <1>1, <1>2, <1>11, RecordFields DEF UnlockFound, Unlocked, CopyPart
    <2>2. file[rec[p]].rev = 1 => file[rec[p]].flags = buf[p].flags
      BY <1>2, <2>1 DEF CopyOf
    <2>3. file[rec[p]].rev = 1 => Store!Vacant(file[rec[p]])
      BY <1>11, <2>2 DEF UnlockFound, Store!Vacant, Store!UserVacant, Store!ProfileVacant
    <2>4. /\ pc'[p] = "lock" /\ op'[p] = "addput" /\ rec' = rec /\ home' = home
          /\ caller' = caller /\ file' = file /\ op[p] = "scan" /\ pc[p] = "unlock"
      BY <1>11 DEF UnlockFound, Unlocked, TypeOK
    <2>5. QED
      BY <1>1, <2>3, <2>4 DEF CopyPart, Store!Vacant, Store!UserVacant, Store!ProfileVacant
  <1>12. CASE UnlockNext(p) \/ UnlockFull(p)
    BY <1>1, <1>12 DEF UnlockNext, UnlockFull, Unlocked, CopyPart, CopyOf, TypeOK
  <1>13. QED
    BY <1>4, <1>5, <1>6, <1>7, <1>8, <1>9, <1>10, <1>11, <1>12 DEF Step

\* Every step keeps what the structures in memory know of their records.
LEMMA CopyNext ==
  TypeOK /\ StageInv /\ LockInv /\ WriteIsCurrent /\ CopyInv /\ [Next]_vars => CopyInv'
  <1> SUFFICES ASSUME TypeOK, StageInv, LockInv, WriteIsCurrent, CopyInv, [Next]_vars
               PROVE  CopyInv'
    OBVIOUS
  <1>1. \A r \in Recs : file'[r].rev >= 1
    BY RevisionGrows, RecordFields DEF CopyInv, TypeOK
  <1>2. ASSUME NEW q \in Procs PROVE CopyPart(q)'
    <2>1. CASE UNCHANGED vars
      BY <2>1, CopyOthers DEF vars
    <2>2. ASSUME NEW p \in Procs, NewCall(p) \/ Step(p) \/ Crash(p), p # q
          PROVE  CopyPart(q)'
      BY <2>2, CopyOthers, OthersKeep
    <2>3. CASE NewCall(q)
      BY <2>3, CopyCall
    <2>4. CASE Step(q)
      BY <2>4, CopyStep
    <2>5. CASE Crash(q)
      BY <2>5 DEF Crash, CopyPart, TypeOK
    <2>6. QED
      BY <2>1, <2>2, <2>3, <2>4, <2>5 DEF Next
  <1>3. QED
    BY <1>1, <1>2 DEF CopyInv

\* The created file and the idle processes satisfy the invariant.
LEMMA InitIInv == Init => IInv
  BY InitType, LocksInit, CopyInit DEF IInv, Init, WriteIsCurrent

\* Every step keeps the invariant.
LEMMA NextIInv == IInv /\ [Next]_vars => IInv'
  BY NextType, StageNext, LockNext, CurrentNext, CopyNext DEF IInv

(***************************************************************************)
(* The inductive invariant.                                                *)
(***************************************************************************)
THEOREM Inductive == Spec => []IInv
  BY InitIInv, NextIInv, PTL DEF Spec

(***************************************************************************)
(* The read-modify-write of put and del is atomic, although it is three    *)
(* system calls, with any number of processes, retries and crashes.        *)
(***************************************************************************)
THEOREM WritesAreCurrent == Spec => []WriteIsCurrent
  <1>1. IInv => WriteIsCurrent
    BY DEF IInv
  <1>2. QED
    BY Inductive, <1>1, PTL

-----------------------------------------------------------------------------
(***************************************************************************)
(* What the file promises.  Each write is one of RecordStore's changes.    *)
(***************************************************************************)
LEMMA WriteRefines ==
  ASSUME IInv, NEW p \in Procs, Write(p)
  PROVE  Store!Next
  <1> DEFINE r == rec[p]
             d == file[r]
             c == caller[p]
  <1>1. /\ r \in Recs /\ d \in Record /\ c \in Record /\ d.rev \in Nat
        /\ c.rev \in Nat /\ d.rev >= 1
    BY RecordFields DEF IInv, TypeOK, CopyInv
  <1>2. pc[p] = "write" /\ op[p] \in {"put", "addput", "del"}
    BY DEF Write, IInv, StageInv
  <1>3. CASE op[p] = "del"
    <2>1. Store!Remove(r)
      BY <1>2, <1>3 DEF Write, IInv, WriteIsCurrent, Store!Remove, Store!Changed
    <2>2. QED
      BY <1>1, <2>1 DEF Store!Next, Recs
  <1>4. ASSUME op[p] # "del" PROVE Store!Changed(r, Merged(d, c))
    BY <1>2, <1>4 DEF Write, IInv, WriteIsCurrent, Store!Changed
  <1>5. CASE op[p] # "del" /\ d.rev > c.rev
    <2>1. Store!Keep(r)
      BY <1>4, <1>5 DEF Merged, Normalized, Store!Keep
    <2>2. QED
      BY <1>1, <2>1 DEF Store!Next, Recs
  <1>6. CASE op[p] # "del" /\ ~ (d.rev > c.rev)
    <2>1. Merged(d, c) = [flags |-> c.flags, rev |-> d.rev + 1, who |-> c.who]
      BY <1>1, <1>6 DEF Merged, Record, Store!Record
    <2>2. c.who \in Payloads
      BY <1>1 DEF Record, Store!Record
    <2>3. CASE op[p] = "put"
      <3>1. c.flags = d.flags
        BY <1>1, <1>2, <1>6, <2>3 DEF CopyInv, IInv, CopyPart, CopyOf
      <3>2. Store!Update(r)
        BY <1>4, <1>6, <2>1, <2>2, <3>1 DEF Store!Update
      <3>3. QED
        BY <1>1, <3>2 DEF Store!Next, Recs
    <2>4. CASE op[p] = "addput"
      <3>1. c.flags = {} /\ Store!Vacant(d) /\ d.rev = 1
        BY <1>1, <1>2, <1>6, <2>4 DEF CopyInv, IInv, CopyPart
      <3>2. Store!Claim(r)
        BY <1>4, <1>6, <2>1, <2>2, <3>1 DEF Store!Claim
      <3>3. QED
        BY <1>1, <3>2 DEF Store!Next, Recs
    <2>5. QED
      BY <1>2, <1>6, <2>3, <2>4
  <1>7. QED
    BY <1>3, <1>5, <1>6

\* Every step of the code is a change of RecordStore or none.
LEMMA NextRefines == IInv /\ [Next]_vars => [Store!Next]_file
  BY OnlyWriteChanges, WriteRefines

(***************************************************************************)
(* The code's system calls implement atomic changes of the file: a stale   *)
(* put only raises the revision, an accepted one keeps the flags, an add   *)
(* takes vacant slots only, a permanent account is never deleted.          *)
(***************************************************************************)
THEOREM Refinement == Spec => ImplementsStore
  <1>1. Init => Store!Init
    BY DEF Init, Store!Init
  <1>2. QED
    BY <1>1, Inductive, NextRefines, PTL DEF Spec, ImplementsStore, Store!Spec

(***************************************************************************)
(* No update is lost: a put that changes the payload comes from a caller   *)
(* who had seen the latest revision of the record.                         *)
(***************************************************************************)
THEOREM NoUpdateLost == Spec => NoLostUpdate
  <1>1. ASSUME IInv, NEW p \in Procs, Write(p), op[p] = "put",
               file'[rec[p]].who # file[rec[p]].who
        PROVE  caller[p].rev = file[rec[p]].rev
    <2> DEFINE d == file[rec[p]]
               c == caller[p]
    <2>1. rec[p] \in Recs /\ d \in Record /\ c \in Record
      BY <1>1 DEF IInv, TypeOK
    <2>2. file'[rec[p]] = Merged(d, c)
      BY <1>1, <2>1 DEF Write, IInv, WriteIsCurrent, TypeOK
    <2>3. ~ (d.rev > c.rev)
      BY <1>1, <2>1, <2>2 DEF Merged, Normalized, Record, Store!Record
    <2>4. c.rev <= d.rev
      BY <1>1 DEF Write, IInv, CopyInv, CopyPart, CopyOf
    <2>5. QED
      BY <2>1, <2>3, <2>4, RecordFields
  <1>2. IInv /\ [Next]_vars =>
          [\A p \in Procs :
             Write(p) /\ op[p] = "put" /\ file'[rec[p]].who # file[rec[p]].who
                => caller[p].rev = file[rec[p]].rev]_vars
    BY <1>1
  <1>3. QED
    BY Inductive, <1>2, PTL DEF Spec, NoLostUpdate

(***************************************************************************)
(* A record of the first revision is as the file was created with it.      *)
(***************************************************************************)
LEMMA FirstRevision ==
  Spec => [](\A r \in Recs : file[r].rev = 1 => file[r] = Store!Born[r])
  <1> DEFINE Untouched == \A r \in Recs : file[r].rev = 1 => file[r] = Store!Born[r]
  <1>1. Init => Untouched
    BY DEF Init
  <1>2. Untouched /\ IInv /\ [Next]_vars => Untouched'
    <2> SUFFICES ASSUME Untouched, IInv, [Next]_vars, NEW r \in Recs, file'[r].rev = 1
                 PROVE  file'[r] = Store!Born[r]
      OBVIOUS
    <2>1. file[r].rev \in Nat /\ file[r].rev >= 1
      BY RecordFields DEF IInv, TypeOK, CopyInv
    <2>2. file'[r] = file[r]
      BY <2>1, RevisionGrows DEF IInv
    <2>3. QED
      BY <2>2
  <1> HIDE DEF Untouched
  <1>3. Spec => []Untouched
    BY <1>1, <1>2, Inductive, PTL DEF Spec
  <1>4. QED
    BY <1>3, PTL DEF Untouched

(***************************************************************************)
(* In the file of users a deleted account stays deleted, whoever still has *)
(* it in memory and whatever add had chosen its slot.  (A deleted profile  *)
(* is a vacant slot, and the theorem does not speak of it.)                *)
(***************************************************************************)
THEOREM DeletedForGood ==
  ASSUME Klass = "user"
  PROVE  Spec => DeletedStays
  <1> DEFINE Untouched == \A r \in Recs : file[r].rev = 1 => file[r] = Store!Born[r]
  <1>1. ASSUME Untouched, IInv, Store!Next, NEW r \in Recs, "deleted" \in file[r].flags
        PROVE  "deleted" \in file'[r].flags
    <2>1. file[r].rev # 1
      <3>1. Store!Born[r].flags \in {{"perm"}, {"inactive"}}
        BY DEF Store!Born, Store!UserBorn, Recs
      <3>2. "deleted" \notin {"perm"} /\ "deleted" \notin {"inactive"}
        OBVIOUS
      <3>3. QED
        BY <1>1, <3>1, <3>2
    <2>2. PICK x \in Store!Recs :
              Store!Update(x) \/ Store!Keep(x) \/ Store!Remove(x) \/ Store!Claim(x)
      BY <1>1 DEF Store!Next
    <2>3. file \in [Recs -> Record]
      BY <1>1 DEF IInv, TypeOK
    <2>4. CASE Store!Update(x)
      BY <1>1, <2>3, <2>4 DEF Store!Update, Store!Changed
    <2>5. CASE Store!Keep(x)
      BY <1>1, <2>3, <2>5 DEF Store!Keep, Store!Changed, Record, Store!Record
    <2>6. CASE Store!Remove(x)
      BY <1>1, <2>3, <2>6 DEF Store!Remove, Store!Changed, Store!Deleted, Store!UserDeleted
    <2>7. CASE Store!Claim(x)
      BY <1>1, <2>1, <2>3, <2>7 DEF Store!Claim, Store!Changed
    <2>8. QED
      BY <2>2, <2>4, <2>5, <2>6, <2>7
  <1>2. Untouched /\ IInv /\ [Next]_vars =>
          [\A r \in Recs : "deleted" \in file[r].flags => "deleted" \in file'[r].flags]_vars
    BY <1>1, NextRefines
  <1> HIDE DEF Untouched
  <1>3. Spec => []Untouched
    BY FirstRevision DEF Untouched
  <1>4. QED
    BY <1>2, <1>3, Inductive, PTL DEF Spec, DeletedStays
=============================================================================
