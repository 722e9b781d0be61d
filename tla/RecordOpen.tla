------------------------------ MODULE RecordOpen ------------------------------
(***************************************************************************)
(* How a datastore comes to exist and grows: _rms_open, _rms_get_sequence  *)
(* and _rms_peek_sequence of src/rms/rms.c, with the _extend and _init of  *)
(* the node, user or profile class, one system call per step.  A store is  *)
(* two files: <name>.seq, a counter, and <name>.dat, the records.          *)
(*                                                                         *)
(* A record is represented by the number in it: nodenum for a node, the    *)
(* eternal number for a user, 0 for a record without one.                  *)
(***************************************************************************)
EXTENDS FileLock, Sequences

CONSTANTS Numbered,   \* _node_extend numbers its records, the others do not
          Records,    \* the records the classes are created with
          NumPerm,    \* the permanent records that _init writes
          Fresh,      \* the store does not exist at first
          Crashes,    \* processes may die
          MaxRecords  \* bound: no extend starts past this size or number

NoFile == -1
Empty == 0
Counter == 0          \* the range of the lock on the .seq file

VARIABLES seqf,       \* the .seq file: NoFile, Empty or the number in it
          made,       \* the .dat file exists
          datf,       \* the .dat file
          pc,         \* the next system call, "closed" or "open" between calls
          goal,       \* "open" or "extend": the call in progress or the last
          phase,      \* "extend" or "init": which of the two is writing
          todo,       \* records still to write
          recs,       \* self->records
          num,        \* the long read from .seq, Empty if the read fell short
          pos,        \* position of the .dat descriptor, in records
          done,       \* history: a process that created the store has finished
          early       \* history: a process opened a store that was not finished

procVars == <<pc, goal, phase, todo, recs, num, pos>>
histVars == <<done, early>>
vars == <<owner, tries, seqf, made, datf, procVars, histVars>>

ASSUME OpenAssumption ==
    /\ Records \in Nat \ {0} /\ NumPerm \in 0 .. Records
    /\ Numbered \in BOOLEAN /\ Fresh \in BOOLEAN
    /\ Crashes \in BOOLEAN
    /\ Numbered => NumPerm = 0
    /\ MaxRecords \in Nat
    /\ Ranges \subseteq Nat

Opening == {"seqnew", "seqone", "peek", "peekread", "peekunlock", "datcheck",
            "datnew"}
Extending == {"seekend", "turn", "seqlock", "seqread", "seqwrite", "sequnlock",
              "reclock", "recwrite", "recunlock"}

FilesTypeOK ==
    /\ seqf \in {NoFile, Empty} \cup Nat
    /\ made \in BOOLEAN
    /\ datf \in Seq(Nat)

CallsTypeOK ==
    /\ pc \in [Procs -> {"closed", "open"} \cup Opening \cup Extending]
    /\ goal \in [Procs -> {"open", "extend"}]
    /\ phase \in [Procs -> {"extend", "init"}]
    /\ todo \in [Procs -> Nat]
    /\ recs \in [Procs -> Nat]
    /\ num \in [Procs -> Nat]
    /\ pos \in [Procs -> Nat]

HistTypeOK == done \in BOOLEAN /\ early \in BOOLEAN

TypeOK == LockTypeOK /\ FilesTypeOK /\ CallsTypeOK /\ HistTypeOK

Init ==
    /\ LockInit
    /\ seqf = IF Fresh THEN NoFile ELSE IF Numbered THEN Records + 1 ELSE 1
    /\ made = ~ Fresh
    /\ datf = IF Fresh THEN << >>
              ELSE [i \in 1 .. Records |-> IF Numbered \/ i <= NumPerm THEN i ELSE 0]
    /\ pc = [p \in Procs |-> "closed"]
    /\ goal = [p \in Procs |-> "open"]
    /\ phase = [p \in Procs |-> "extend"]
    /\ todo = [p \in Procs |-> 0]
    /\ recs = [p \in Procs |-> Records]
    /\ num = [p \in Procs |-> Empty]
    /\ pos = [p \in Procs |-> 0]
    /\ done = ~ Fresh
    /\ early = FALSE

-----------------------------------------------------------------------------
Enter(p, stage) == pc' = [pc EXCEPT ![p] = stage]

\* An open that fails ends the program; an extend that fails is an error.
Fail(p) == Enter(p, IF goal[p] = "open" THEN "closed" ELSE "open")

\* A process has created the first file of the store, or is about to.
Begun == seqf # NoFile \/ \E q \in Procs : pc[q] = "seqnew"

(***************************************************************************)
(* _rms_open.  The test whether a file exists and the opening of one that  *)
(* does are a single step, for a file that exists stays.                   *)
(***************************************************************************)
CallOpen(p) ==
    /\ pc[p] = "closed"
    /\ Enter(p, IF seqf = NoFile THEN "seqnew" ELSE "peek")
    /\ goal' = [goal EXCEPT ![p] = "open"]
    /\ recs' = [recs EXCEPT ![p] = Records]
    /\ pos' = [pos EXCEPT ![p] = 0]
    /\ early' = (early \/ (Begun /\ ~ done))
    /\ UNCHANGED <<lockVars, seqf, made, datf, phase, todo, num, done>>

\* open(O_RDWR | O_CREAT): another process may have been here before.
SeqCreate(p) ==
    /\ pc[p] = "seqnew"
    /\ seqf' = IF seqf = NoFile THEN Empty ELSE seqf
    /\ Enter(p, "seqone")
    /\ UNCHANGED <<lockVars, made, datf, goal, phase, todo, recs, num, pos, histVars>>

\* The first number is written without the lock that guards the counter.
SeqFirst(p) ==
    /\ pc[p] = "seqone"
    /\ seqf' = 1
    /\ Enter(p, "datcheck")
    /\ UNCHANGED <<lockVars, made, datf, goal, phase, todo, recs, num, pos, histVars>>

PeekRead(p) ==
    /\ pc[p] = "peekread"
    /\ num' = [num EXCEPT ![p] = seqf]
    /\ Enter(p, "peekunlock")
    /\ UNCHANGED <<lockVars, seqf, made, datf, goal, phase, todo, recs, pos, histVars>>

PeekUnlock(p) ==
    /\ pc[p] = "peekunlock"
    /\ Released(p, Counter)
    /\ \/ /\ num[p] = Empty
          /\ Fail(p)
          /\ UNCHANGED recs
       \/ /\ num[p] # Empty
          /\ Enter(p, "datcheck")
          /\ recs' = [recs EXCEPT ![p] = num[p]]
    /\ UNCHANGED <<seqf, made, datf, goal, phase, todo, num, pos, histVars>>

DatCheck(p) ==
    /\ pc[p] = "datcheck"
    /\ Enter(p, IF made THEN "open" ELSE "datnew")
    /\ UNCHANGED <<lockVars, seqf, made, datf, goal, phase, todo, recs, num, pos, histVars>>

DatCreate(p) ==
    /\ pc[p] = "datnew"
    /\ made' = TRUE
    /\ Enter(p, "seekend")
    /\ UNCHANGED <<lockVars, seqf, datf, goal, phase, todo, recs, num, pos, histVars>>

Close(p) ==
    /\ pc[p] = "open"
    /\ Enter(p, "closed")
    /\ UNCHANGED <<lockVars, seqf, made, datf, goal, phase, todo, recs, num, pos, histVars>>

-----------------------------------------------------------------------------
(***************************************************************************)
(* _extend: by self->records when the store is created, by one when it is  *)
(* called by a user of the library; then _init for the open that created.  *)
(***************************************************************************)
CallExtend(p) ==
    /\ pc[p] = "open"
    /\ seqf < MaxRecords /\ Len(datf) < MaxRecords
    /\ goal' = [goal EXCEPT ![p] = "extend"]
    /\ Enter(p, "seekend")
    /\ UNCHANGED <<lockVars, seqf, made, datf, phase, todo, recs, num, pos, histVars>>

\* A mistaken form of SeekEnd: one record too few.
SeekEndShort(p) ==
    /\ pc[p] = "seekend"
    /\ pos' = [pos EXCEPT ![p] = Len(datf)]
    /\ phase' = [phase EXCEPT ![p] = "extend"]
    /\ todo' = [todo EXCEPT ![p] = IF goal[p] = "open" THEN recs[p] - 1 ELSE 1]
    /\ Enter(p, "turn")
    /\ UNCHANGED <<lockVars, seqf, made, datf, goal, recs, num, histVars>>

SeekEnd(p) ==
    /\ pc[p] = "seekend"
    /\ pos' = [pos EXCEPT ![p] = Len(datf)]
    /\ phase' = [phase EXCEPT ![p] = "extend"]
    /\ todo' = [todo EXCEPT ![p] = IF goal[p] = "open" THEN recs[p] ELSE 1]
    /\ Enter(p, "turn")
    /\ UNCHANGED <<lockVars, seqf, made, datf, goal, recs, num, histVars>>

\* The head of the loop of _extend, or of the writes of _init.
\* A mistaken form of TurnNext: the loop does not end.
TurnNextEndless(p) ==
    /\ pc[p] = "turn"
    /\ Enter(p, IF Numbered THEN "seqlock" ELSE "reclock")
    /\ UNCHANGED <<lockVars, seqf, made, datf, goal, phase, todo, recs, num, pos, histVars>>

TurnNext(p) ==
    /\ pc[p] = "turn"
    /\ todo[p] > 0
    /\ Enter(p, IF Numbered THEN "seqlock" ELSE "reclock")
    /\ UNCHANGED <<lockVars, seqf, made, datf, goal, phase, todo, recs, num, pos, histVars>>

\* A mistaken form of TurnInit: no seek to the first record.
TurnInitUnsought(p) ==
    /\ pc[p] = "turn"
    /\ todo[p] = 0 /\ phase[p] = "extend" /\ goal[p] = "open"
    /\ phase' = [phase EXCEPT ![p] = "init"]
    /\ todo' = [todo EXCEPT ![p] = NumPerm]
    /\ UNCHANGED <<lockVars, seqf, made, datf, pc, goal, recs, num, pos, histVars>>

TurnInit(p) ==
    /\ pc[p] = "turn"
    /\ todo[p] = 0 /\ phase[p] = "extend" /\ goal[p] = "open"
    /\ phase' = [phase EXCEPT ![p] = "init"]
    /\ todo' = [todo EXCEPT ![p] = NumPerm]
    /\ pos' = [pos EXCEPT ![p] = 0]
    /\ UNCHANGED <<lockVars, seqf, made, datf, pc, goal, recs, num, histVars>>

TurnDone(p) ==
    /\ pc[p] = "turn"
    /\ todo[p] = 0 /\ (phase[p] = "init" \/ goal[p] = "extend")
    /\ Enter(p, "open")
    /\ done' = (done \/ goal[p] = "open")
    /\ UNCHANGED <<lockVars, seqf, made, datf, goal, phase, todo, recs, num, pos, early>>

\* _rms_get_sequence: read the number, write the one after it.
SeqRead(p) ==
    /\ pc[p] = "seqread"
    /\ num' = [num EXCEPT ![p] = seqf]
    /\ Enter(p, IF seqf = Empty THEN "sequnlock" ELSE "seqwrite")
    /\ UNCHANGED <<lockVars, seqf, made, datf, goal, phase, todo, recs, pos, histVars>>

\* A mistaken form of SeqWrite: the number itself is written back.
SeqWriteSame(p) ==
    /\ pc[p] = "seqwrite"
    /\ seqf' = num[p]
    /\ Enter(p, "sequnlock")
    /\ UNCHANGED <<lockVars, made, datf, goal, phase, todo, recs, num, pos, histVars>>

SeqWrite(p) ==
    /\ pc[p] = "seqwrite"
    /\ seqf' = num[p] + 1
    /\ Enter(p, "sequnlock")
    /\ UNCHANGED <<lockVars, made, datf, goal, phase, todo, recs, num, pos, histVars>>

SeqUnlock(p) ==
    /\ pc[p] = "sequnlock"
    /\ Released(p, Counter)
    /\ \/ num[p] = Empty /\ Fail(p)
       \/ num[p] # Empty /\ Enter(p, "reclock")
    /\ UNCHANGED <<seqf, made, datf, goal, phase, todo, recs, num, pos, histVars>>

\* What is written: a numbered node, a permanent account, or a blank.
Content(p) == IF Numbered THEN num[p]
              ELSE IF phase[p] = "init" THEN pos[p] + 1 ELSE 0

RecWrite(p) ==
    /\ pc[p] = "recwrite"
    /\ datf' = IF pos[p] < Len(datf) THEN [datf EXCEPT ![pos[p] + 1] = Content(p)]
                                     ELSE Append(datf, Content(p))
    /\ pos' = [pos EXCEPT ![p] = @ + 1]
    /\ Enter(p, "recunlock")
    /\ UNCHANGED <<lockVars, seqf, made, goal, phase, todo, recs, num, histVars>>

RecUnlock(p) ==
    /\ pc[p] = "recunlock"
    /\ Released(p, pos[p])
    /\ todo' = [todo EXCEPT ![p] = @ - 1]
    /\ Enter(p, "turn")
    /\ UNCHANGED <<seqf, made, datf, goal, phase, recs, num, pos, histVars>>

-----------------------------------------------------------------------------
(***************************************************************************)
(* Where a process takes a lock, the range of it and where that leads.     *)
(***************************************************************************)
Locking == {"peek", "seqlock", "reclock"}

Wanted(p) == IF pc[p] = "reclock" THEN pos[p] + 1 ELSE Counter

AfterLock(stage) == CASE stage = "peek"    -> "peekread"
                      [] stage = "seqlock" -> "seqread"
                      [] stage = "reclock" -> "recwrite"

LockTaken(p) ==
    /\ pc[p] \in Locking
    /\ Granted(p, Wanted(p))
    /\ Enter(p, AfterLock(pc[p]))
    /\ UNCHANGED <<seqf, made, datf, goal, phase, todo, recs, num, pos, histVars>>

LockSleeps(p) ==
    /\ pc[p] \in Locking
    /\ Sleeps(p, Wanted(p))
    /\ UNCHANGED <<seqf, made, datf, procVars, histVars>>

\* A mistaken form of LockFails: the result is not looked at.
LockFailsUnseen(p) ==
    /\ pc[p] \in Locking
    /\ Refused(p, Wanted(p))
    /\ Enter(p, AfterLock(pc[p]))
    /\ UNCHANGED <<seqf, made, datf, goal, phase, todo, recs, num, pos, histVars>>

LockFails(p) ==
    /\ pc[p] \in Locking
    /\ Refused(p, Wanted(p))
    /\ Fail(p)
    /\ UNCHANGED <<seqf, made, datf, goal, phase, todo, recs, num, pos, histVars>>

\* A process dies, and another caller starts in its place.
Crash(p) ==
    /\ Crashes
    /\ pc[p] # "closed"
    /\ Died(p)
    /\ Enter(p, "closed")
    /\ UNCHANGED <<seqf, made, datf, goal, phase, todo, recs, num, pos, histVars>>

-----------------------------------------------------------------------------
Step(p) ==
    \/ SeqCreate(p) \/ SeqFirst(p) \/ PeekRead(p) \/ PeekUnlock(p)
    \/ DatCheck(p) \/ DatCreate(p)
    \/ SeekEnd(p) \/ TurnNext(p) \/ TurnInit(p) \/ TurnDone(p)
    \/ SeqRead(p) \/ SeqWrite(p) \/ SeqUnlock(p)
    \/ RecWrite(p) \/ RecUnlock(p)
    \/ LockTaken(p) \/ LockSleeps(p) \/ LockFails(p)

Act(p) == CallOpen(p) \/ Close(p) \/ CallExtend(p) \/ Step(p) \/ Crash(p)

Next == \E p \in Procs : Act(p)

Spec == Init /\ [][Next]_vars

-----------------------------------------------------------------------------
(***************************************************************************)
(* A process between a lock and its unlock owns the range it asked for,    *)
(* and no process owns any other: the counter is read and written by one   *)
(* process at a time, and an error return leaves no lock behind.           *)
(***************************************************************************)
InCounter == {"peekread", "peekunlock", "seqread", "seqwrite", "sequnlock"}

Owns(p, x) == \/ pc[p] \in InCounter /\ x = Counter
              \/ pc[p] = "recwrite" /\ x = pos[p] + 1
              \/ pc[p] = "recunlock" /\ x = pos[p]

LockInv == \A p \in Procs, x \in Ranges : owner[x] = p <=> Owns(p, x)

(***************************************************************************)
(* No two nodes of the store have one number, although a number is taken   *)
(* under one lock and written to the store under another, and whoever dies *)
(* in between.                                                             *)
(***************************************************************************)
NumbersUnique ==
    Numbered => \A i, j \in 1 .. Len(datf) : datf[i] = datf[j] => i = j

(***************************************************************************)
(* Why they are unique: the counter is past every number that is on disk   *)
(* or in the hands of a process, and a number is in one place only.        *)
(***************************************************************************)
Holds(p) == pc[p] \in {"sequnlock", "reclock", "recwrite"} /\ num[p] # Empty

NumbersInv ==
    /\ \A i \in 1 .. Len(datf) : datf[i] < seqf
    /\ \A p \in Procs :
        /\ pc[p] = "seqwrite" => num[p] = seqf
        /\ pc[p] \in {"reclock", "recwrite"} => num[p] # Empty
        /\ Holds(p) => /\ num[p] < seqf
                       /\ \A i \in 1 .. Len(datf) : datf[i] # num[p]
                       /\ \A q \in Procs \ {p} : Holds(q) => num[q] # num[p]

(***************************************************************************)
(* A store that exists goes on to exist, and a write of a record replaces  *)
(* one of the file or is the next one: there is never a hole in the file.  *)
(***************************************************************************)
ExistsInv ==
    /\ seqf >= 1
    /\ made
    /\ \A p \in Procs :
        /\ pc[p] \notin {"seqnew", "seqone", "datnew"}
        /\ pc[p] \in Extending \ {"seekend"} => pos[p] <= Len(datf)
        /\ pc[p] \in Extending \ {"seekend", "turn"} => todo[p] > 0

IInv == TypeOK /\ LockInv /\ ExistsInv
        /\ (Numbered => NumbersUnique /\ NumbersInv)

(***************************************************************************)
(* What rms.pod says of rms_open, "created, extended to the correct size   *)
(* and be initialized": an open that returned OK has all the records the   *)
(* class asked for, and the permanent ones at their places, whatever the   *)
(* others write at positions that are no longer the end, and whoever dies. *)
(* The one exception is a store that was opened before it was finished: by *)
(* a second process while the first creates it, or by the next one when    *)
(* the first has died there.  Nothing in rms.c tells such a store.         *)
(***************************************************************************)
OpenedIsComplete ==
    ~ early => \A p \in Procs : pc[p] = "open" =>
        /\ Len(datf) >= Records
        /\ \A i \in 1 .. NumPerm : datf[i] = i

(***************************************************************************)
(* Why: the store does not exist yet, or one process is creating it while  *)
(* the others are yet to open it, or has died there and nobody has opened  *)
(* it since, or it is complete and is only ever added to.                  *)
(***************************************************************************)
Missing == seqf = NoFile /\ ~ made /\ datf = << >>

Complete ==
    /\ made /\ Len(datf) >= Records
    /\ \A i \in 1 .. NumPerm : datf[i] = i

\* p has created the files that its stage is past, and written what precedes
\* its position: blank records up to Records, and then the permanent ones.
Written(p) ==
    LET left == IF pc[p] = "recunlock" THEN todo[p] - 1 ELSE todo[p] IN
    /\ pc[p] # "turn" => todo[p] > 0
    /\ \/ phase[p] = "extend" /\ pos[p] = Len(datf) /\ Len(datf) + left = Records
       \/ /\ phase[p] = "init" /\ Len(datf) = Records /\ pos[p] + left = NumPerm
          /\ \A i \in 1 .. pos[p] : datf[i] = i

Creating(p) ==
    /\ goal[p] = "open" /\ recs[p] = Records
    /\ \/ pc[p] = "seqnew" /\ Missing
       \/ pc[p] = "seqone" /\ seqf = Empty /\ ~ made /\ datf = << >>
       \/ pc[p] \in {"datcheck", "datnew"} /\ seqf >= 1 /\ ~ made /\ datf = << >>
       \/ pc[p] = "seekend" /\ seqf >= 1 /\ made /\ datf = << >>
       \/ pc[p] \in Extending \ {"seekend"} /\ seqf >= 1 /\ made /\ Written(p)
    /\ pc[p] \in {"seqwrite", "sequnlock"} => num[p] # Empty
    /\ \A q \in Procs \ {p} : pc[q] = "closed"

\* p opens the store as it is, or extends it behind the records it was made with.
Using(p) ==
    \/ pc[p] \in {"closed", "open", "peek", "peekread", "peekunlock", "datcheck"}
    \/ pc[p] = "seekend" /\ goal[p] = "extend"
    \/ /\ pc[p] \in Extending \ {"seekend"} /\ goal[p] = "extend"
       /\ phase[p] = "extend" /\ Records <= pos[p] /\ pos[p] <= Len(datf)
       /\ pc[p] # "turn" => todo[p] > 0

Closed == \A p \in Procs : pc[p] = "closed"

CreatedInv ==
    \/ early
    \/ /\ TypeOK /\ LockInv
       /\ \/ Missing /\ Closed /\ ~ done
          \/ (\E p \in Procs : Creating(p)) /\ ~ done
          \/ seqf # NoFile /\ Closed /\ ~ done
          \/ seqf >= 1 /\ Complete /\ \A p \in Procs : Using(p)
=============================================================================
