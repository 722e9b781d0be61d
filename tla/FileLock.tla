------------------------------ MODULE FileLock ------------------------------
(***************************************************************************)
(* Advisory record locks as src/rms/files.c uses them: fcntl(F_SETLK) with *)
(* F_WRLCK on a byte range, tried again after a sleep until the number of  *)
(* retries is used up, and F_UNLCK on the range of the last attempt.       *)
(*                                                                         *)
(* The kernel's part is external: a range has at most one owner, a lock is *)
(* owned by a process and not by a descriptor, the kernel drops it when    *)
(* the process dies, and unlocking a range one does not own does nothing.  *)
(* The ranges this code locks never overlap unless they are equal (one     *)
(* record, one counter, one byte of a header), so a range is an atom.      *)
(***************************************************************************)
EXTENDS Integers

CONSTANTS Procs,      \* the processes (one per caller of the bulletin board)
          Ranges,     \* the byte ranges that are ever locked
          NoOne,      \* the owner of a free range
          Retries     \* files_t's retries: attempts made after the first one

ASSUME LockAssumption ==
    /\ NoOne \notin Procs
    /\ Retries \in Nat

VARIABLES owner,      \* the kernel's lock table: range -> owner
          tries       \* _files_lock's local count of refused attempts

lockVars == <<owner, tries>>

LockTypeOK ==
    /\ owner \in [Ranges -> Procs \cup {NoOne}]
    /\ tries \in [Procs -> 0 .. Retries]

LockInit ==
    /\ owner = [x \in Ranges |-> NoOne]
    /\ tries = [p \in Procs |-> 0]

(***************************************************************************)
(* One turn of _files_lock's loop.  Exactly one of the three outcomes is   *)
(* possible in any state: the lock is granted; it is refused and the       *)
(* process sleeps before its next attempt; or it is refused with the       *)
(* retries used up and the call fails.                                     *)
(***************************************************************************)
Grantable(p, x) == owner[x] \in {NoOne, p}

Granted(p, x) ==
    /\ Grantable(p, x)
    /\ owner' = [owner EXCEPT ![x] = p]
    /\ tries' = [tries EXCEPT ![p] = 0]

\* A mistaken form of Sleeps: the attempts are not counted.
SleepsUncounted(p, x) ==
    /\ ~ Grantable(p, x)
    /\ UNCHANGED lockVars

Sleeps(p, x) ==
    /\ ~ Grantable(p, x)
    /\ tries[p] + 1 <= Retries
    /\ tries' = [tries EXCEPT ![p] = @ + 1]
    /\ UNCHANGED owner

Refused(p, x) ==
    /\ ~ Grantable(p, x)
    /\ tries[p] + 1 > Retries
    /\ tries' = [tries EXCEPT ![p] = 0]
    /\ UNCHANGED owner

\* _files_unlock: the range of the last attempt, owned or not.
Released(p, x) ==
    /\ owner' = [owner EXCEPT ![x] = IF @ = p THEN NoOne ELSE @]
    /\ UNCHANGED tries

\* The process dies: the kernel frees every range it owns.
Died(p) ==
    /\ owner' = [x \in Ranges |-> IF owner[x] = p THEN NoOne ELSE owner[x]]
    /\ tries' = [tries EXCEPT ![p] = 0]
=============================================================================
