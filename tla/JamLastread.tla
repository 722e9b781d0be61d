----------------------------- MODULE JamLastread -----------------------------
(***************************************************************************)
(* The last-read records of a message base: add, get, put and delete of    *)
(* src/bbs/src/jam/jam.c, one write per step, by several processes.  One   *)
(* user may be in several sessions, each with a copy of the record.        *)
(***************************************************************************)
EXTENDS JamCall, Sequences

CONSTANTS Calls,      \* the calls that are made
          Users,      \* user_crc
          NoUser,     \* JAM_NO_CRC, the user of a record that is deleted
          MaxNum,     \* bound: the highest number that is read
          MaxMarks    \* bound: no add or put starts with this many records

VARIABLES marks,      \* the .jlr file
          arg,        \* the call's user_crc
          mine,       \* the caller's jam_lastread_t
          have,       \* the user mine was read for, NoUser if none
          changer     \* history: the last process that has changed the base,
                      \* NoOne if it died before it wrote the header

lrdVars == <<marks, arg, mine, have, changer>>
vars == <<callVars, lrdVars>>

ASSUME LastreadAssumption ==
    /\ Calls \subseteq {"add", "get", "put", "del"}
    /\ NoUser \notin Users
    /\ MaxNum \in Nat /\ MaxMarks \in Nat

Lastread == [user : Users \cup {NoUser}, last : Nat, high : Nat]

NoMark == [user |-> NoUser, last |-> 0, high |-> 0]

Stages == {"idle", "lock", "header", "wheader", "unlock", "look", "find", "append",
           "overwrite", "clear"}

TypeOK ==
    /\ CallTypeOK
    /\ pc \in [Procs -> Stages]
    /\ op \in [Procs -> {"none", "add", "get", "put", "del"}]
    /\ marks \in Seq(Lastread)
    /\ arg \in [Procs -> Users \cup {NoUser}]
    /\ have \in [Procs -> Users \cup {NoUser}]
    /\ mine \in [Procs -> Lastread]
    /\ changer \in Procs \cup {NoOne}

Init ==
    /\ CallInit
    /\ marks = << >>
    /\ arg = [p \in Procs |-> NoUser]
    /\ mine = [p \in Procs |-> NoMark]
    /\ have = [p \in Procs |-> NoUser]
    /\ changer = NoOne

Places(u) == {i \in 1 .. Len(marks) : marks[i].user = u}

\* Where _find_lastread stops: at the first record of the user.
Place(u) == CHOOSE i \in Places(u) : \A k \in Places(u) : i <= k

-----------------------------------------------------------------------------
WithinBound == hdr.mod < MaxMods /\ Len(marks) < MaxMarks

CallAdd(p, u) ==
    /\ "add" \in Calls
    /\ WithinBound
    /\ Called(p, "add")
    /\ arg' = [arg EXCEPT ![p] = u]
    /\ UNCHANGED <<marks, mine, have, changer>>

CallGet(p, u) ==
    /\ "get" \in Calls
    /\ Called(p, "get")
    /\ arg' = [arg EXCEPT ![p] = u]
    /\ UNCHANGED <<marks, mine, have, changer>>

CallDel(p, u) ==
    /\ "del" \in Calls
    /\ hdr.mod < MaxMods
    /\ Called(p, "del")
    /\ arg' = [arg EXCEPT ![p] = u]
    /\ UNCHANGED <<marks, mine, have, changer>>

\* The user has read on, up to message n.
CallPut(p, n) ==
    /\ "put" \in Calls
    /\ WithinBound
    /\ have[p] # NoUser /\ n > mine[p].high
    /\ Called(p, "put")
    /\ arg' = [arg EXCEPT ![p] = have[p]]
    /\ mine' = [mine EXCEPT ![p] = [@ EXCEPT !.last = n, !.high = n]]
    /\ UNCHANGED <<marks, have, changer>>

\* A get does not read the header.
Locked(p) ==
    /\ LockTaken(p, IF op[p] = "get" THEN "look" ELSE "header")
    /\ UNCHANGED lrdVars

HeaderRead(p) == ReadHeader(p, "find") /\ UNCHANGED lrdVars

-----------------------------------------------------------------------------
(***************************************************************************)
(* _find_lastread, and the search of _update_lastread.                     *)
(***************************************************************************)
FindGet(p) ==
    /\ Work(p, "look", "unlock")
    /\ mine' = [mine EXCEPT ![p] = IF Places(arg[p]) = {} THEN NoMark
                                    ELSE marks[Place(arg[p])]]
    /\ have' = [have EXCEPT ![p] = arg[p]]
    /\ UNCHANGED <<marks, arg, changer>>

\* A mistaken form of FindAdd: the file is not searched.
FindAddUnsearched(p) ==
    /\ Work(p, "find", "append")
    /\ op[p] = "add"
    /\ UNCHANGED lrdVars

FindAdd(p) ==
    /\ Work(p, "find", IF Places(arg[p]) = {} THEN "append" ELSE "wheader")
    /\ op[p] = "add"
    /\ UNCHANGED lrdVars

FindDel(p) ==
    /\ Work(p, "find", IF Places(arg[p]) = {} THEN "wheader" ELSE "clear")
    /\ op[p] = "del"
    /\ UNCHANGED lrdVars

\* _normalize_lastread, when somebody has changed the base since.
Higher(a, b) == IF a > b THEN a ELSE b

\* A mistaken form of Merged: the counter is not compared with the revision.
MergedBlind(p, d) == mine[p]

Merged(p, d) ==
    IF hbuf[p].mod > rev[p]
    THEN [mine[p] EXCEPT !.last = Higher(d.last, @), !.high = Higher(d.high, @)]
    ELSE mine[p]

FindPut(p) ==
    /\ Work(p, "find", IF Places(arg[p]) = {} THEN "append" ELSE "overwrite")
    /\ op[p] = "put"
    /\ mine' = IF Places(arg[p]) = {} THEN mine
               ELSE [mine EXCEPT ![p] = Merged(p, marks[Place(arg[p])])]
    /\ UNCHANGED <<marks, arg, have, changer>>

-----------------------------------------------------------------------------
Changes(p) ==
    /\ changer' = p
    /\ UNCHANGED <<arg, mine, have>>

\* _append_lastread: an add's new record, or what the caller puts.
AppendMark(p) ==
    /\ Counted(p, "append", 0)
    /\ marks' = Append(marks, IF op[p] = "add" THEN [NoMark EXCEPT !.user = arg[p]]
                                               ELSE mine[p])
    /\ Changes(p)

\* The write of _update_lastread: all of the caller's structure.
Overwrite(p) ==
    /\ Counted(p, "overwrite", 0)
    /\ marks' = [marks EXCEPT ![Place(arg[p])] = mine[p]]
    /\ Changes(p)

\* A mistaken form of Clear: the mark is -1 instead of JAM_NO_CRC.
ClearSigned(p) ==
    /\ Counted(p, "clear", 0)
    /\ marks' = [marks EXCEPT ![Place(arg[p])] = [NoMark EXCEPT !.user = -1]]
    /\ Changes(p)

\* The write of _del_lastread.
Clear(p) ==
    /\ Counted(p, "clear", 0)
    /\ marks' = [marks EXCEPT ![Place(arg[p])] = NoMark]
    /\ Changes(p)

Return(p) ==
    /\ arg' = [arg EXCEPT ![p] = NoUser]
    /\ UNCHANGED <<marks, mine, have, changer>>

Restart(p) ==
    /\ Restarted(p)
    /\ arg' = [arg EXCEPT ![p] = NoUser]
    /\ mine' = [mine EXCEPT ![p] = NoMark]
    /\ have' = [have EXCEPT ![p] = NoUser]
    /\ changer' = IF pc[p] = "wheader" /\ changer = p THEN NoOne ELSE changer
    /\ UNCHANGED marks

NewCall(p) ==
    \/ \E u \in Users : CallAdd(p, u) \/ CallGet(p, u) \/ CallDel(p, u)
    \/ \E n \in 1 .. MaxNum : CallPut(p, n)

Step(p) ==
    \/ Locked(p) \/ HeaderRead(p)
    \/ LockSleeps(p) /\ UNCHANGED lrdVars
    \/ LockFails(p) /\ Return(p)
    \/ FindGet(p) \/ FindAdd(p) \/ FindDel(p) \/ FindPut(p)
    \/ AppendMark(p) \/ Overwrite(p) \/ Clear(p)
    \/ WriteHeader(p) /\ UNCHANGED lrdVars
    \/ Unlock(p) /\ Return(p)

Next == \E p \in Procs : NewCall(p) \/ Step(p) \/ Restart(p)

Spec == Init /\ [][Next]_vars

-----------------------------------------------------------------------------
(***************************************************************************)
(* A user has one record, although adds and puts of several sessions look  *)
(* for it and append it, and whoever dies in between.                      *)
(***************************************************************************)
OneRecord == \A u \in Users : \A i, k \in Places(u) : i = k

(***************************************************************************)
(* The position that a call has found stays that of its user until the     *)
(* record is written: nobody appends, clears or overwrites meanwhile.      *)
(***************************************************************************)
FoundStays ==
    \A p \in Procs :
        /\ pc[p] \in {"overwrite", "clear"} => Places(arg[p]) # {}
        /\ pc[p] = "append" => Places(arg[p]) = {}

(***************************************************************************)
(* Why: a copy is that of the user it was read for, or of nobody; the one  *)
(* that is about to be written has the higher number, unless nobody else   *)
(* has counted a change; and once a process has counted the last change,   *)
(* every other object is behind it.                                        *)
(***************************************************************************)
MarksInv ==
    /\ \A p \in Procs :
        /\ pc[p] = "idle" <=> op[p] = "none"
        /\ mine[p].user \in {have[p], NoUser}
        /\ pc[p] # "idle" => arg[p] \in Users
        /\ op[p] = "put" => arg[p] = have[p]
        /\ pc[p] = "look" => op[p] = "get"
        /\ pc[p] \in {"append", "overwrite"} => op[p] \in {"add", "put"}
        /\ pc[p] = "overwrite" => op[p] = "put"
        /\ pc[p] = "overwrite" /\ rev[p] < hdr.mod
              => mine[p].high >= marks[Place(arg[p])].high
    /\ changer \in Procs =>
        \/ pc[changer] = "wheader" /\ hbuf[changer].mod = hdr.mod + 1
        \/ \A q \in Procs \ {changer} : rev[q] < hdr.mod

IInv == TypeOK /\ CallInv /\ OneRecord /\ FoundStays /\ MarksInv

(***************************************************************************)
(* A put takes a record back only when nobody else has changed the base    *)
(* since the object's own last change, unless that one died before it      *)
(* could count the change: otherwise the put keeps the higher numbers.     *)
(***************************************************************************)
BackOnlyByLast ==
    [][\A p \in Procs : Overwrite(p) /\ marks'[Place(arg[p])].high
                                           < marks[Place(arg[p])].high
          => changer \in {p, NoOne}]_vars
=============================================================================
