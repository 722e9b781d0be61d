------------------------------ MODULE RecordFile ------------------------------
(***************************************************************************)
(* A file of fixed size records shared by several processes, one system    *)
(* call per step: src/rms/rms.c with the methods that src/bbs/src/user/    *)
(* user.c or profile.c override.  Each process has its own rms_t object    *)
(* and runs one call of the library at a time.                             *)
(*                                                                         *)
(* A call goes through the stages lock, read, write and unlock of the      *)
(* record rec[p].  An add is a scan, record by record, and then the put of *)
(* the record whose slot it found, with the lock given up in between.      *)
(***************************************************************************)
EXTENDS FileLock

CONSTANTS Klass,      \* "user" or "profile"
          NumRecs,    \* the records of the file
          Payloads,   \* the names and other fields, as one value
          Blank,      \* the payload of an unused record
          Perm,       \* the permanent accounts
          FreshRevs,  \* the revisions a caller's new structure may carry
          MaxRev      \* bound: no call that writes starts past this revision

NoRec == 0

VARIABLES file,       \* the records on disk
          locked,     \* self->locked
          pc,         \* the stage of the call, "idle" between calls
          op,         \* the call in progress, or the last one
          rec,        \* the record the call is at (self->record in a scan)
          buf,        \* the call's local ondisk
          mem,        \* the caller's structure
          home,       \* the record mem was read from, NoRec if none
          caller      \* history: mem as it was when the call was made

vars == <<owner, tries, file, locked, pc, op, rec, buf, mem, home, caller>>

\* The file of this module is the file of the store.
Store == INSTANCE RecordStore WITH
             Klass <- Klass, NumRecs <- NumRecs, Payloads <- Payloads,
             Blank <- Blank, Perm <- Perm, file <- file

Recs == Store!Recs
Record == Store!Record

ASSUME FileAssumption ==
    /\ Store!StoreAssumption
    /\ Ranges = Recs
    /\ FreshRevs \subseteq {0, 1}
    /\ MaxRev \in Nat

Stages == {"idle", "lock", "read", "write", "unlock"}
Calls == {"none", "get", "put", "del", "scan", "addput"}

Unread == [flags |-> {}, rev |-> 0, who |-> Blank]

TypeOK ==
    /\ LockTypeOK
    /\ file \in [Recs -> Record]
    /\ locked \in [Procs -> BOOLEAN]
    /\ pc \in [Procs -> Stages]
    /\ op \in [Procs -> Calls]
    /\ rec \in [Procs -> Recs]
    /\ buf \in [Procs -> Record]
    /\ mem \in [Procs -> Record]
    /\ home \in [Procs -> Recs \cup {NoRec}]
    /\ caller \in [Procs -> Record]

Init ==
    /\ LockInit
    /\ file = Store!Born
    /\ locked = [p \in Procs |-> FALSE]
    /\ pc = [p \in Procs |-> "idle"]
    /\ op = [p \in Procs |-> "none"]
    /\ rec = [p \in Procs |-> 1]
    /\ buf = [p \in Procs |-> Unread]
    /\ mem = [p \in Procs |-> Unread]
    /\ home = [p \in Procs |-> NoRec]
    /\ caller = [p \in Procs |-> Unread]

-----------------------------------------------------------------------------
(***************************************************************************)
(* What a put writes: _user_put and _profile_put compare the revision on   *)
(* disk with the caller's.  A caller that is behind gets its structure     *)
(* overwritten by _normalize, and that is what goes back to disk.          *)
(***************************************************************************)
Normalized(ondisk) == [ondisk EXCEPT !.rev = @ + 1]

\* A mistaken form of Merged: the caller's structure wins, stale or not.
MergedBlind(ondisk, mine) == [mine EXCEPT !.rev = ondisk.rev + 1]

Merged(ondisk, mine) ==
    IF ondisk.rev > mine.rev THEN Normalized(ondisk)
                             ELSE [mine EXCEPT !.rev = ondisk.rev + 1]

WithinBound == \A r \in Recs : file[r].rev < MaxRev

\* A call is made: the arguments are the caller's structure and the record.
Call(p, name, r, data) ==
    /\ pc[p] = "idle"
    /\ pc' = [pc EXCEPT ![p] = "lock"]
    /\ op' = [op EXCEPT ![p] = name]
    /\ rec' = [rec EXCEPT ![p] = r]
    /\ mem' = [mem EXCEPT ![p] = data]
    /\ caller' = [caller EXCEPT ![p] = data]
    /\ UNCHANGED <<owner, tries, file, locked, buf>>

CallGet(p, r) ==
    /\ Call(p, "get", r, mem[p])
    /\ UNCHANGED home

\* The caller puts back what it got, with a payload of its own.
CallPut(p, w) ==
    /\ home[p] # NoRec
    /\ WithinBound
    /\ Call(p, "put", home[p], [mem[p] EXCEPT !.who = w])
    /\ UNCHANGED home

CallDel(p, r) ==
    /\ WithinBound
    /\ Call(p, "del", r, mem[p])
    /\ UNCHANGED home

\* A new record; the scan begins at the first one.
CallAdd(p, w, v) ==
    /\ WithinBound
    /\ Call(p, "scan", 1, [flags |-> {}, rev |-> v, who |-> w])
    /\ home' = [home EXCEPT ![p] = NoRec]

-----------------------------------------------------------------------------
(***************************************************************************)
(* The stages of a call.  A process holds at most one range, that of the   *)
(* record its call is at.                                                  *)
(***************************************************************************)
Enter(p, stage) == pc' = [pc EXCEPT ![p] = stage]

\* The call returns; its locals are gone.
Return(p) ==
    /\ Enter(p, "idle")
    /\ buf' = [buf EXCEPT ![p] = Unread]
    /\ caller' = [caller EXCEPT ![p] = Unread]

\* _rms_lock succeeds.
LockTaken(p) ==
    /\ pc[p] = "lock"
    /\ Granted(p, rec[p])
    /\ locked' = [locked EXCEPT ![p] = TRUE]
    /\ Enter(p, "read")
    /\ UNCHANGED <<file, op, rec, buf, mem, home, caller>>

LockSleeps(p) ==
    /\ pc[p] = "lock"
    /\ Sleeps(p, rec[p])
    /\ UNCHANGED <<file, locked, pc, op, rec, buf, mem, home, caller>>

\* A mistaken form of LockFails: no call looks at the result.
LockFailsUnseen(p) ==
    /\ pc[p] = "lock"
    /\ Refused(p, rec[p])
    /\ Enter(p, "read")
    /\ UNCHANGED <<file, locked, op, rec, buf, mem, home, caller>>

\* _rms_lock fails.  Every call gives up with an error, except a get, which
\* does not look at the result and reads the record without the lock.
LockFails(p) ==
    /\ pc[p] = "lock"
    /\ Refused(p, rec[p])
    /\ \/ /\ op[p] = "get"
          /\ Enter(p, "read")
          /\ UNCHANGED <<buf, caller>>
       \/ /\ op[p] # "get"
          /\ Return(p)
    /\ UNCHANGED <<file, locked, op, rec, mem, home>>

\* _rms_get, _rms_first and _rms_next: only the read.
ReadOnly(p) ==
    /\ pc[p] = "read"
    /\ op[p] \in {"get", "scan"}
    /\ buf' = [buf EXCEPT ![p] = file[rec[p]]]
    /\ Enter(p, "unlock")
    /\ UNCHANGED <<owner, tries, file, locked, op, rec, mem, home, caller>>

\* _user_put, _profile_put: the caller's structure becomes what is written.
ReadPut(p) ==
    /\ pc[p] = "read"
    /\ op[p] \in {"put", "addput"}
    /\ buf' = [buf EXCEPT ![p] = file[rec[p]]]
    /\ mem' = [mem EXCEPT ![p] = Merged(file[rec[p]], @)]
    /\ Enter(p, "write")
    /\ UNCHANGED <<owner, tries, file, locked, op, rec, home, caller>>

\* _user_del, _profile_del: the local copy is marked, unless it is protected.
ReadDel(p) ==
    /\ pc[p] = "read"
    /\ op[p] = "del"
    /\ LET d == file[rec[p]] IN
       \/ /\ Store!Protected(d)
          /\ buf' = [buf EXCEPT ![p] = d]
          /\ Enter(p, "unlock")
       \/ /\ ~ Store!Protected(d)
          /\ buf' = [buf EXCEPT ![p] = Store!Deleted(d)]
          /\ Enter(p, "write")
    /\ UNCHANGED <<owner, tries, file, locked, op, rec, mem, home, caller>>

\* _rms_write, after the seek back by one record.
Write(p) ==
    /\ pc[p] = "write"
    /\ file' = [file EXCEPT ![rec[p]] = IF op[p] = "del" THEN buf[p] ELSE mem[p]]
    /\ Enter(p, "unlock")
    /\ UNCHANGED <<owner, tries, locked, op, rec, buf, mem, home, caller>>

\* _rms_unlock.
Unlocked(p) ==
    /\ pc[p] = "unlock"
    /\ Released(p, rec[p])
    /\ locked' = [locked EXCEPT ![p] = FALSE]

\* _rms_get builds the caller's structure once the lock is given up.
UnlockGet(p) ==
    /\ op[p] = "get"
    /\ Unlocked(p)
    /\ mem' = [mem EXCEPT ![p] = buf[p]]
    /\ home' = [home EXCEPT ![p] = rec[p]]
    /\ Return(p)
    /\ UNCHANGED <<file, op, rec>>

UnlockChange(p) ==
    /\ op[p] \in {"put", "del", "addput"}
    /\ Unlocked(p)
    /\ Return(p)
    /\ UNCHANGED <<file, op, rec, mem, home>>

\* _user_add, _profile_add: put the record in a vacant slot, or try the next.
UnlockFound(p) ==
    /\ op[p] = "scan"
    /\ Store!Vacant(buf[p])
    /\ Unlocked(p)
    /\ op' = [op EXCEPT ![p] = "addput"]
    /\ Enter(p, "lock")
    /\ UNCHANGED <<file, rec, buf, mem, home, caller>>

UnlockNext(p) ==
    /\ op[p] = "scan"
    /\ ~ Store!Vacant(buf[p])
    /\ rec[p] < NumRecs
    /\ Unlocked(p)
    /\ rec' = [rec EXCEPT ![p] = @ + 1]
    /\ Enter(p, "lock")
    /\ UNCHANGED <<file, op, buf, mem, home, caller>>

\* The read past the last record returns no bytes: EOVERFLOW.
UnlockFull(p) ==
    /\ op[p] = "scan"
    /\ ~ Store!Vacant(buf[p])
    /\ rec[p] = NumRecs
    /\ Unlocked(p)
    /\ Return(p)
    /\ UNCHANGED <<file, op, rec, mem, home>>

(***************************************************************************)
(* The process dies between two system calls, and the next caller starts a *)
(* new one in its place.                                                   *)
(***************************************************************************)
Crash(p) ==
    /\ Died(p)
    /\ locked' = [locked EXCEPT ![p] = FALSE]
    /\ Return(p)
    /\ op' = [op EXCEPT ![p] = "none"]
    /\ rec' = [rec EXCEPT ![p] = 1]
    /\ mem' = [mem EXCEPT ![p] = Unread]
    /\ home' = [home EXCEPT ![p] = NoRec]
    /\ UNCHANGED file

-----------------------------------------------------------------------------
NewCall(p) ==
    \/ \E r \in Recs : CallGet(p, r) \/ CallDel(p, r)
    \/ \E w \in Payloads : CallPut(p, w)
    \/ \E w \in Payloads \ {Blank}, v \in FreshRevs : CallAdd(p, w, v)

Step(p) ==
    \/ LockTaken(p) \/ LockSleeps(p) \/ LockFails(p)
    \/ ReadOnly(p) \/ ReadPut(p) \/ ReadDel(p)
    \/ Write(p)
    \/ UnlockGet(p) \/ UnlockChange(p)
    \/ UnlockFound(p) \/ UnlockNext(p) \/ UnlockFull(p)

Next == \E p \in Procs : NewCall(p) \/ Step(p) \/ Crash(p)

Spec == Init /\ [][Next]_vars

\* A process that runs goes on running until it is between two calls.
FairSpec == Spec /\ \A p \in Procs : WF_vars(Step(p))

-----------------------------------------------------------------------------
(***************************************************************************)
(* Every process that is past its lock owns the range of the record it is  *)
(* at, nobody owns a range it is not using, and self->locked tells the     *)
(* truth: no error path leaves a lock behind, and two processes are never  *)
(* between the read and the write of one record.  A get may be without.    *)
(***************************************************************************)
LockInv ==
    \A p \in Procs :
        /\ locked[p] <=> owner[rec[p]] = p
        /\ \A r \in Recs : owner[r] = p => r = rec[p] /\ pc[p] \in {"read", "write", "unlock"}
        /\ pc[p] \in {"read", "write", "unlock"} /\ op[p] # "get" => owner[rec[p]] = p

(***************************************************************************)
(* What a put or a delete is about to write was computed from what is on   *)
(* disk at that moment: the read-modify-write of put and del is atomic.    *)
(***************************************************************************)
WriteIsCurrent ==
    \A p \in Procs : pc[p] = "write" =>
        LET d == file[rec[p]] IN
        IF op[p] = "del" THEN /\ buf[p] = Store!Deleted(d)
                              /\ ~ Store!Protected(d)
                         ELSE /\ buf[p] = d
                              /\ mem[p] = Merged(d, caller[p])

(***************************************************************************)
(* Why a put, which writes every field, keeps the flags of the record: a   *)
(* structure in memory is never newer than the record it was read from,    *)
(* and one of the same revision has the record's flags.  Until an add      *)
(* writes, its slot is vacant as long as it is of the first revision.      *)
(***************************************************************************)
CopyOf(r, d) ==
    /\ d.rev <= file[r].rev
    /\ d.rev = file[r].rev => d.flags = file[r].flags

CopyPart(p) ==
    /\ home[p] # NoRec /\ ~ (pc[p] = "write" /\ op[p] = "put")
          => CopyOf(home[p], mem[p])
    /\ pc[p] # "idle" /\ op[p] = "put" => rec[p] = home[p]
    /\ pc[p] = "write" /\ op[p] = "put" => CopyOf(rec[p], caller[p])
    /\ pc[p] = "unlock" /\ op[p] \in {"get", "scan"}
          => CopyOf(rec[p], buf[p]) /\ buf[p].rev >= 1
    /\ pc[p] # "idle" /\ op[p] \in {"scan", "addput"}
          => home[p] = NoRec /\ caller[p].rev <= 1 /\ caller[p].flags = {}
    /\ pc[p] \in {"lock", "read", "write"} /\ op[p] = "addput"
          => (file[rec[p]].rev = 1 => Store!Vacant(file[rec[p]]))

CopyInv ==
    /\ \A r \in Recs : file[r].rev >= 1
    /\ \A p \in Procs : CopyPart(p)

(***************************************************************************)
(* Which calls reach which stages, and what they carry there.              *)
(***************************************************************************)
StageInv ==
    \A p \in Procs :
        /\ pc[p] # "idle" => op[p] # "none"
        /\ pc[p] = "write" => op[p] \in {"put", "addput", "del"}
        /\ pc[p] \in {"lock", "read"} => mem[p] = caller[p]
        /\ pc[p] = "unlock" /\ op[p] = "scan" => mem[p] = caller[p]

IInv == TypeOK /\ LockInv /\ WriteIsCurrent /\ StageInv /\ CopyInv

(***************************************************************************)
(* A put that changes the payload of a record was made by a caller who had *)
(* seen the record's latest revision: no update is lost to a stale copy.   *)
(***************************************************************************)
NoLostUpdate ==
    [][\A p \in Procs :
          Write(p) /\ op[p] = "put" /\ file'[rec[p]].who # file[rec[p]].who
              => caller[p].rev = file[rec[p]].rev]_vars

(***************************************************************************)
(* A deleted account stays deleted: no process that still has the account  *)
(* in memory, and no add that had chosen the slot before, brings it back.  *)
(***************************************************************************)
DeletedStays ==
    [][\A r \in Recs : "deleted" \in file[r].flags
                           => "deleted" \in file'[r].flags]_vars

(***************************************************************************)
(* Whatever the interleaving of the system calls, the file only goes       *)
(* through the atomic changes of RecordStore.                              *)
(***************************************************************************)
ImplementsStore == Store!Spec

(***************************************************************************)
(* Every call ends: a contended lock is given up after Retries sleeps.     *)
(***************************************************************************)
CallsEnd == \A p \in Procs : pc[p] # "idle" ~> pc[p] = "idle"
=============================================================================
