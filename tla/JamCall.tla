------------------------------- MODULE JamCall -------------------------------
(***************************************************************************)
(* What the calls of src/bbs/src/jam/jam.c have in common.  A message base *)
(* is four files under one lock, that of the first byte of the header      *)
(* file.  A call takes the lock, reads the header, does its work, writes   *)
(* the whole header back and gives the lock up.  The work counts itself in *)
(* the header's mod_counter, and the object remembers the count of its own *)
(* last change in self->revision.                                          *)
(*                                                                         *)
(* JamMessages and JamLastread add the work.                               *)
(***************************************************************************)
EXTENDS FileLock

CONSTANTS Crashes,    \* processes may die in the middle of a call
          MaxMods     \* bound: no change starts past this mod_counter

VARIABLES hdr,        \* jam_header_t on disk: mod_counter and active_msgs
          pc,         \* the stage of the call, "idle" between calls
          op,         \* the call in progress
          hbuf,       \* the call's local header
          rev         \* self->revision

callVars == <<owner, tries, hdr, pc, op, hbuf, rev>>

Header == 0           \* the range of the lock

ASSUME CallAssumption ==
    /\ Ranges = {Header}
    /\ Crashes \in BOOLEAN
    /\ MaxMods \in Nat

HeaderRecord == [mod : Nat, active : Int]

NoHeader == [mod |-> 0, active |-> 0]

CallTypeOK ==
    /\ LockTypeOK
    /\ hdr \in HeaderRecord
    /\ hbuf \in [Procs -> HeaderRecord]
    /\ rev \in [Procs -> Nat]

CallInit ==
    /\ LockInit
    /\ hdr = NoHeader
    /\ pc = [p \in Procs |-> "idle"]
    /\ op = [p \in Procs |-> "none"]
    /\ hbuf = [p \in Procs |-> NoHeader]
    /\ rev = [p \in Procs |-> 0]

Enter(p, stage) == pc' = [pc EXCEPT ![p] = stage]

\* The call returns.
Leave(p) ==
    /\ Enter(p, "idle")
    /\ op' = [op EXCEPT ![p] = "none"]

\* A stage that leaves the lock, the header and the revision alone.
Work(p, from, to) ==
    /\ pc[p] = from
    /\ Enter(p, to)
    /\ UNCHANGED <<owner, tries, hdr, op, hbuf, rev>>

Called(p, name) ==
    /\ pc[p] = "idle"
    /\ Enter(p, "lock")
    /\ op' = [op EXCEPT ![p] = name]
    /\ UNCHANGED <<owner, tries, hdr, hbuf, rev>>

\* _jam_lock, and where the call goes from there.
LockTaken(p, next) ==
    /\ pc[p] = "lock"
    /\ Granted(p, Header)
    /\ Enter(p, next)
    /\ UNCHANGED <<hdr, op, hbuf, rev>>

LockSleeps(p) ==
    /\ pc[p] = "lock"
    /\ Sleeps(p, Header)
    /\ UNCHANGED <<hdr, pc, op, hbuf, rev>>

\* A mistaken form of LockFails: the result of the lock is not looked at.
LockFailsUnseen(p) ==
    /\ pc[p] = "lock"
    /\ Refused(p, Header)
    /\ Enter(p, "header")
    /\ UNCHANGED <<hdr, op, hbuf, rev>>

LockFails(p) ==
    /\ pc[p] = "lock"
    /\ Refused(p, Header)
    /\ Leave(p)
    /\ UNCHANGED <<hdr, hbuf, rev>>

ReadHeader(p, next) ==
    /\ pc[p] = "header"
    /\ hbuf' = [hbuf EXCEPT ![p] = hdr]
    /\ Enter(p, next)
    /\ UNCHANGED <<owner, tries, hdr, op, rev>>

\* A change is done: it counts in the local header and in the object, and
\* delta messages have come or gone.
Counted(p, from, delta) ==
    /\ pc[p] = from
    /\ hbuf' = [hbuf EXCEPT ![p] = [mod |-> @.mod + 1, active |-> @.active + delta]]
    /\ rev' = [rev EXCEPT ![p] = hbuf[p].mod + 1]
    /\ Enter(p, "wheader")
    /\ UNCHANGED <<owner, tries, hdr, op>>

\* A mistaken form of WriteHeader: what was counted is not written.
WriteHeaderUncounted(p) ==
    /\ pc[p] = "wheader"
    /\ hdr' = [hbuf[p] EXCEPT !.mod = hdr.mod]
    /\ Enter(p, "unlock")
    /\ UNCHANGED <<owner, tries, op, hbuf, rev>>

WriteHeader(p) ==
    /\ pc[p] = "wheader"
    /\ hdr' = hbuf[p]
    /\ Enter(p, "unlock")
    /\ UNCHANGED <<owner, tries, op, hbuf, rev>>

Unlock(p) ==
    /\ pc[p] = "unlock"
    /\ Released(p, Header)
    /\ Leave(p)
    /\ hbuf' = [hbuf EXCEPT ![p] = NoHeader]
    /\ UNCHANGED <<hdr, rev>>

\* An error after the lock.  Every call says "if (self->locked) unlock" and
\* nothing ever sets self->locked: the lock stays.
ReturnError(p, from) ==
    /\ pc[p] = from
    /\ Leave(p)
    /\ hbuf' = [hbuf EXCEPT ![p] = NoHeader]
    /\ UNCHANGED <<owner, tries, hdr, rev>>

\* The process dies, or closes the base, and opens it again: the kernel
\* frees its lock, and a new object has seen no revision.
Restarted(p) ==
    /\ pc[p] = "idle" \/ Crashes
    /\ Died(p)
    /\ Leave(p)
    /\ hbuf' = [hbuf EXCEPT ![p] = NoHeader]
    /\ rev' = [rev EXCEPT ![p] = 0]
    /\ UNCHANGED hdr

-----------------------------------------------------------------------------
Inside(p) == pc[p] \notin {"idle", "lock"}

(***************************************************************************)
(* Why the calls are sound: whoever is past the lock owns it; the header   *)
(* that a call has read is that on disk until the call counts a change,    *)
(* and then one ahead; an object that is ahead of the header is that of    *)
(* the call that has just counted; and a revision belongs to one object.   *)
(***************************************************************************)
Unread == {"idle", "lock", "header", "look", "unlock"}

CallInv ==
    /\ \A p \in Procs :
        /\ Inside(p) => owner[Header] = p
        /\ pc[p] \notin Unread \cup {"wheader"} => hbuf[p] = hdr
        /\ pc[p] # "wheader" => rev[p] <= hdr.mod
        /\ pc[p] = "wheader" =>
              \/ hbuf[p].mod = hdr.mod /\ rev[p] <= hdr.mod
              \/ hbuf[p].mod = hdr.mod + 1 /\ rev[p] = hdr.mod + 1
    /\ \A p, q \in Procs : p # q /\ rev[p] # 0 => rev[q] # rev[p]

(***************************************************************************)
(* The files are read and written by the owner of the lock only, and what  *)
(* a call has read of the header stays true until it writes it back.       *)
(***************************************************************************)
Exclusive ==
    \A p \in Procs :
        /\ Inside(p) => owner[Header] = p
        /\ pc[p] = "wheader" => hbuf[p].mod - hdr.mod \in {0, 1}

(***************************************************************************)
(* Why an object may skip the merge when the counter is its revision: a    *)
(* count belongs to one object, however the processes die, so that nobody  *)
(* has counted a change since.                                             *)
(***************************************************************************)
RevisionInv ==
    \A p \in Procs :
        /\ rev[p] <= IF Inside(p) THEN hdr.mod + 1 ELSE hdr.mod
        /\ \A q \in Procs \ {p} : rev[p] # 0 => rev[q] # rev[p]
=============================================================================
