----------------------------- MODULE JamMessages -----------------------------
(***************************************************************************)
(* The messages of a base: add, get, put and delete of                     *)
(* src/bbs/src/jam/jam.c, one write per step, by several processes that    *)
(* may die between any two writes.  The reads that a call does in a row    *)
(* under the lock are one step.                                            *)
(*                                                                         *)
(* The .jhr file behind the header and the .jdt file are only ever         *)
(* appended to, so an offset is a position in a sequence.                  *)
(***************************************************************************)
EXTENDS JamCall, Sequences, FiniteSets

CONSTANTS Calls,      \* the calls that are made
          Texts,      \* what messages say
          NewSizes,   \* lengths of the subfields of a new message
          Sizes,      \* and of one that is put
          Base,       \* base_msg_num
          MaxMsgs,    \* bound: no add or put starts with this many message headers
          MaxTexts,   \* bound: no add starts with this many texts
          MaxTimes    \* bound: no put starts from this times_read

VARIABLES msgs,       \* message headers in .jhr, each with room for subfields
          texts,      \* the .jdt file
          index,      \* the .jdx file: position in msgs, NoOffset if deleted
          arg,        \* the call's msgnum, counted from 1
          body,       \* the text the caller adds
          old,        \* the call's local oldmsg
          new,        \* the message the caller adds
          at,         \* the call's local offset
          msg,        \* the caller's jam_message_t
          have,       \* the msgnum that msg was read from, 0 if none
          lost,       \* history: a process died between its change and the header
          spoilt      \* history: the records left with a message that is marked deleted

jamVars == <<msgs, texts, index, arg, body, old, new, at, msg, have, lost, spoilt>>
vars == <<callVars, jamVars>>

NoOffset == 0         \* JAM_NO_CRC
Erased == "erased"    \* a text that has been overwritten with zeros

ASSUME MessagesAssumption ==
    /\ Calls \subseteq {"add", "get", "put", "del"}
    /\ NewSizes \cup Sizes \subseteq Nat \ {0}
    /\ Base \in Nat /\ MaxMsgs \in Nat /\ MaxTexts \in Nat /\ MaxTimes \in Nat
    /\ Erased \notin Texts

\* jam_message_t; long says that text_length is that of the text, not 0.
Message == [num : Nat, text : Nat, long : BOOLEAN, deleted : BOOLEAN,
            size : Nat, times : Nat]

NoMsg == [num |-> 0, text |-> 0, long |-> FALSE, deleted |-> FALSE,
          size |-> 0, times |-> 0]

Stages == {"idle", "lock", "header", "wheader", "unlock", "find", "text",
           "append", "fields", "index", "mark", "erase", "unindex", "reindex",
           "inplace", "refields"}

TypeOK ==
    /\ CallTypeOK
    /\ pc \in [Procs -> Stages]
    /\ op \in [Procs -> {"none", "add", "get", "put", "del"}]
    /\ msgs \in Seq([head : Message, room : Nat])
    /\ texts \in Seq(Texts \cup {Erased})
    /\ index \in Seq(Nat)
    /\ arg \in [Procs -> Nat] /\ at \in [Procs -> Nat] /\ have \in [Procs -> Nat]
    /\ body \in [Procs -> Texts \cup {Erased}]
    /\ old \in [Procs -> Message]
    /\ new \in [Procs -> Message]
    /\ msg \in [Procs -> Message]
    /\ lost \in BOOLEAN
    /\ spoilt \subseteq Nat

Init ==
    /\ CallInit
    /\ msgs = << >> /\ texts = << >> /\ index = << >>
    /\ arg = [p \in Procs |-> 0]
    /\ body = [p \in Procs |-> Erased]
    /\ old = [p \in Procs |-> NoMsg]
    /\ at = [p \in Procs |-> 0]
    /\ new = [p \in Procs |-> NoMsg]
    /\ msg = [p \in Procs |-> NoMsg]
    /\ have = [p \in Procs |-> 0]
    /\ lost = FALSE
    /\ spoilt = {}

Live(n) == n \in 1 .. Len(index) /\ index[n] # NoOffset

\* The call is over and its locals are gone; what it read stays.
Return(p) ==
    /\ arg' = [arg EXCEPT ![p] = 0]
    /\ body' = [body EXCEPT ![p] = Erased]
    /\ old' = [old EXCEPT ![p] = NoMsg]
    /\ new' = [new EXCEPT ![p] = NoMsg]
    /\ at' = [at EXCEPT ![p] = 0]
    /\ UNCHANGED <<msgs, texts, index, msg, have, lost, spoilt>>

-----------------------------------------------------------------------------
(***************************************************************************)
(* The calls.  A caller takes the number of a message from a search of the *)
(* index, so that it exists when the call is made; when the lock is had it *)
(* may be gone.                                                            *)
(***************************************************************************)
CallAdd(p, t, s) ==
    /\ "add" \in Calls
    /\ hdr.mod < MaxMods /\ Len(msgs) < MaxMsgs /\ Len(texts) < MaxTexts
    /\ Called(p, "add")
    /\ body' = [body EXCEPT ![p] = t]
    /\ new' = [new EXCEPT ![p] = [NoMsg EXCEPT !.size = s]]
    /\ UNCHANGED <<msgs, texts, index, arg, old, at, msg, have, lost, spoilt>>

CallGet(p, n) ==
    /\ "get" \in Calls
    /\ Live(n)
    /\ Called(p, "get")
    /\ arg' = [arg EXCEPT ![p] = n]
    /\ UNCHANGED <<msgs, texts, index, body, old, new, at, msg, have, lost, spoilt>>

CallDel(p, n) ==
    /\ "del" \in Calls
    /\ hdr.mod < MaxMods
    /\ Live(n)
    /\ Called(p, "del")
    /\ arg' = [arg EXCEPT ![p] = n]
    /\ UNCHANGED <<msgs, texts, index, body, old, new, at, msg, have, lost, spoilt>>

\* The caller has read the message once more and puts it back, with
\* subfields of its own.
CallPut(p, s) ==
    /\ "put" \in Calls
    /\ hdr.mod < MaxMods /\ Len(msgs) < MaxMsgs
    /\ have[p] # 0 /\ Live(have[p]) /\ msg[p].times < MaxTimes
    /\ Called(p, "put")
    /\ arg' = [arg EXCEPT ![p] = have[p]]
    /\ msg' = [msg EXCEPT ![p] = [msg[p] EXCEPT !.times = @ + 1, !.size = s]]
    /\ UNCHANGED <<msgs, texts, index, body, old, new, at, have, lost, spoilt>>

Locked(p) == LockTaken(p, "header") /\ UNCHANGED jamVars

HeaderRead(p) ==
    /\ ReadHeader(p, IF op[p] = "add" THEN "text" ELSE "find")
    /\ UNCHANGED jamVars

-----------------------------------------------------------------------------
(***************************************************************************)
(* _find_index and _find_message.  The offset of a deleted message is far  *)
(* behind the end of the file: EIO.                                        *)
(***************************************************************************)
Found(p) == msgs[index[arg[p]]].head

FindFails(p) ==
    /\ ReturnError(p, "find")
    /\ index[arg[p]] = NoOffset
    /\ Return(p)

FindGet(p) ==
    /\ Work(p, "find", "wheader")
    /\ op[p] = "get" /\ index[arg[p]] # NoOffset
    /\ msg' = [msg EXCEPT ![p] = Found(p)]
    /\ have' = [have EXCEPT ![p] = arg[p]]
    /\ UNCHANGED <<msgs, texts, index, arg, body, old, new, at, lost, spoilt>>

\* _normalize_message, when somebody has changed the base since.
Newer(p) == hbuf[p].mod > rev[p]

Normalized(p, m) ==
    IF ~ Newer(p) THEN m
    ELSE [m EXCEPT !.times = IF Found(p).times > @ THEN Found(p).times ELSE @,
                   !.deleted = Found(p).deleted]

\* A mistaken form of Grown: the lengths are not compared.
GrownNever(p) == FALSE

Grown(p) == msg[p].size > Found(p).size

FindChange(p) ==
    /\ pc[p] = "find" /\ op[p] \in {"put", "del"} /\ index[arg[p]] # NoOffset
    /\ Work(p, "find", IF op[p] = "put" /\ ~ Grown(p) THEN "inplace" ELSE "mark")
    /\ old' = [old EXCEPT ![p] = [Found(p) EXCEPT !.long = FALSE, !.deleted = TRUE]]
    /\ msg' = IF op[p] = "put" THEN [msg EXCEPT ![p] = Normalized(p, @)] ELSE msg
    /\ UNCHANGED <<msgs, texts, index, arg, body, new, at, have, lost, spoilt>>

\* The old message is marked deleted and written where it is.
Mark(p) ==
    /\ Work(p, "mark", IF op[p] = "del" THEN "erase" ELSE "append")
    /\ msgs' = [msgs EXCEPT ![index[arg[p]]].head = old[p]]
    /\ UNCHANGED <<texts, index, arg, body, old, new, at, msg, have, lost, spoilt>>

\* "erase the message text": as many zeros as text_length says by now.
Erase(p) ==
    /\ Work(p, "erase", "unindex")
    /\ texts' = IF old[p].long THEN [texts EXCEPT ![old[p].text] = Erased] ELSE texts
    /\ UNCHANGED <<msgs, index, arg, body, old, new, at, msg, have, lost, spoilt>>

\* Mistaken forms of Unindex: the mark of a deleted record is -1 instead of
\* JAM_NO_CRC; the message that goes is not counted.
UnindexSigned(p) ==
    /\ Counted(p, "unindex", -1)
    /\ index' = [index EXCEPT ![arg[p]] = -1]
    /\ UNCHANGED <<msgs, texts, arg, body, old, new, at, msg, have, lost, spoilt>>

UnindexUncounted(p) ==
    /\ Counted(p, "unindex", 0)
    /\ index' = [index EXCEPT ![arg[p]] = NoOffset]
    /\ UNCHANGED <<msgs, texts, arg, body, old, new, at, msg, have, lost, spoilt>>

\* _delete_index.
Unindex(p) ==
    /\ Counted(p, "unindex", -1)
    /\ index' = [index EXCEPT ![arg[p]] = NoOffset]
    /\ UNCHANGED <<msgs, texts, arg, body, old, new, at, msg, have, lost, spoilt>>

\* _append_text, and the values of a new message; its number is the count
\* of the index records.
AppendText(p) ==
    /\ Work(p, "text", "append")
    /\ texts' = Append(texts, body[p])
    /\ new' = [new EXCEPT ![p] = [@ EXCEPT !.text = Len(texts) + 1, !.long = TRUE,
                                           !.num = Len(index) + Base]]
    /\ UNCHANGED <<msgs, index, arg, body, old, at, msg, have, lost, spoilt>>

Written(p) == IF op[p] = "add" THEN new[p] ELSE msg[p]

\* A mistaken form of AppendHead: the offset is that of the message before.
AppendHeadShort(p) ==
    /\ Work(p, "append", "fields")
    /\ at' = [at EXCEPT ![p] = Len(msgs)]
    /\ msgs' = Append(msgs, [head |-> Written(p), room |-> 0])
    /\ UNCHANGED <<texts, index, arg, body, old, new, msg, have, lost, spoilt>>

\* _append_message: the structure, and then its subfields.
AppendHead(p) ==
    /\ Work(p, "append", "fields")
    /\ at' = [at EXCEPT ![p] = Len(msgs) + 1]
    /\ msgs' = Append(msgs, [head |-> Written(p), room |-> 0])
    /\ UNCHANGED <<texts, index, arg, body, old, new, msg, have, lost, spoilt>>

AppendFields(p) ==
    /\ Work(p, "fields", IF op[p] = "add" THEN "index" ELSE "reindex")
    /\ msgs' = [msgs EXCEPT ![at[p]].room = Written(p).size]
    /\ UNCHANGED <<texts, index, arg, body, old, new, at, msg, have, lost, spoilt>>

\* _append_index.
AppendIndex(p) ==
    /\ Counted(p, "index", 1)
    /\ index' = Append(index, at[p])
    /\ UNCHANGED <<msgs, texts, arg, body, old, new, at, msg, have, lost, spoilt>>

\* A mistaken form of Reindex: the new offset is not written.
ReindexUnwritten(p) ==
    /\ Counted(p, "reindex", 0)
    /\ UNCHANGED <<msgs, texts, index, arg, body, old, new, at, msg, have, lost, spoilt>>

\* _update_index: _normalize_index keeps the offset that is on disk.
Reindex(p) ==
    /\ Counted(p, "reindex", 0)
    /\ index' = IF Newer(p) THEN index ELSE [index EXCEPT ![arg[p]] = at[p]]
    /\ spoilt' = IF Newer(p) THEN spoilt \cup {arg[p]} ELSE spoilt
    /\ UNCHANGED <<msgs, texts, arg, body, old, new, at, msg, have, lost>>

\* A put that has not grown is written over the old message and does not
\* count as a change.
InPlace(p) ==
    /\ Work(p, "inplace", "refields")
    /\ msgs' = [msgs EXCEPT ![index[arg[p]]].head = msg[p]]
    /\ UNCHANGED <<texts, index, arg, body, old, new, at, msg, have, lost, spoilt>>

InPlaceFields(p) == Work(p, "refields", "wheader") /\ UNCHANGED jamVars

-----------------------------------------------------------------------------
\* Between the mark on the old message and the write to the index.
Midway(p) ==
    \/ op[p] = "put" /\ pc[p] \in {"append", "fields", "reindex"}
    \/ op[p] = "del" /\ pc[p] \in {"erase", "unindex"}

Restart(p) ==
    /\ Restarted(p)
    /\ arg' = [arg EXCEPT ![p] = 0]
    /\ body' = [body EXCEPT ![p] = Erased]
    /\ old' = [old EXCEPT ![p] = NoMsg]
    /\ new' = [new EXCEPT ![p] = NoMsg]
    /\ at' = [at EXCEPT ![p] = 0]
    /\ msg' = [msg EXCEPT ![p] = NoMsg]
    /\ have' = [have EXCEPT ![p] = 0]
    /\ lost' = (lost \/ (pc[p] = "wheader" /\ hbuf[p] # hdr))
    /\ spoilt' = IF Midway(p) THEN spoilt \cup {arg[p]} ELSE spoilt
    /\ UNCHANGED <<msgs, texts, index>>

NewCall(p) ==
    \/ \E t \in Texts, s \in NewSizes : CallAdd(p, t, s)
    \/ \E n \in 1 .. Len(index) : CallGet(p, n) \/ CallDel(p, n)
    \/ \E s \in Sizes : CallPut(p, s)

Step(p) ==
    \/ Locked(p) \/ HeaderRead(p)
    \/ LockSleeps(p) /\ UNCHANGED jamVars
    \/ LockFails(p) /\ Return(p)
    \/ FindFails(p) \/ FindGet(p) \/ FindChange(p)
    \/ Mark(p) \/ Erase(p) \/ Unindex(p)
    \/ AppendText(p) \/ AppendHead(p) \/ AppendFields(p) \/ AppendIndex(p)
    \/ Reindex(p) \/ InPlace(p) \/ InPlaceFields(p)
    \/ WriteHeader(p) /\ UNCHANGED jamVars
    \/ Unlock(p) /\ Return(p)

Next == \E p \in Procs : NewCall(p) \/ Step(p) \/ Restart(p)

Spec == Init /\ [][Next]_vars

\* A process that runs goes on running until it is between two calls.
FairSpec == Spec /\ \A p \in Procs : WF_vars(Step(p))

-----------------------------------------------------------------------------
(***************************************************************************)
(* However the processes interleave and die, a record of the index points  *)
(* to a complete message: its number is the place of the record, its text  *)
(* is in the text file, its subfields are on disk, and no two records      *)
(* share a message or a text.                                              *)
(***************************************************************************)
Complete(n) ==
    /\ index[n] \in 1 .. Len(msgs)
    /\ LET m == msgs[index[n]] IN
       /\ m.head.num = n - 1 + Base
       /\ m.head.text \in 1 .. Len(texts)
       /\ m.head.size <= m.room

IndexSound ==
    /\ \A n \in 1 .. Len(index) : Live(n) => Complete(n)
    /\ \A n, k \in 1 .. Len(index) : Live(n) /\ Live(k) /\ n # k =>
          msgs[index[n]].head.text # msgs[index[k]].head.text

(***************************************************************************)
(* A put that is written over the old message fits in its place: it never  *)
(* runs into the message behind.                                           *)
(***************************************************************************)
FitsInPlace ==
    \A p \in Procs : pc[p] \in {"inplace", "refields"} =>
        msg[p].size <= msgs[index[arg[p]]].room

(***************************************************************************)
(* When nobody is in a call, active_msgs is the "Number of active (not     *)
(* deleted) msgs" of jam.h: each call writes the whole header back, and    *)
(* none writes back one that has been overtaken.  Only a process that died *)
(* between the index and the header can have spoilt it.                    *)
(***************************************************************************)
ActiveCount ==
    (\A p \in Procs : ~ Inside(p)) /\ ~ lost =>
        hdr.active = Cardinality({n \in 1 .. Len(index) : Live(n)})

(***************************************************************************)
(* To its readers a base is the archive of MessageBase: messages come at   *)
(* the end with the next number, keep it with their text, and go for good. *)
(* A reader gets as much of the text as text_length says, and that is 0 in *)
(* a message that was marked deleted: it stays so, in a record that is not *)
(* deleted, when a put that grew finds that the base has changed since the *)
(* object's own last change and keeps the old offset, or when a put or a   *)
(* delete dies midway.  Such a message is damaged; it may show its text    *)
(* again when an older copy is put, and never shows another one.           *)
(***************************************************************************)
Gone == [num |-> -1, text |-> Erased, shown |-> FALSE]

\* Nobody can read while a call is midway: the message is as it was before.
Shown(n) ==
    \/ msgs[index[n]].head.long
    \/ \E p \in Procs : Midway(p) /\ arg[p] = n

archive ==
    [n \in 1 .. Len(index) |->
        IF index[n] = NoOffset THEN Gone
        ELSE LET m == msgs[index[n]].head IN
             [num |-> m.num, text |-> texts[m.text], shown |-> Shown(n)]]

Store == INSTANCE MessageBase WITH
             Texts <- Texts, Base <- Base, Gone <- Gone,
             archive <- archive, damaged <- spoilt

ImplementsBase == Store!Spec

(***************************************************************************)
(* Every call ends, whoever holds the lock and forgets to give it up.      *)
(***************************************************************************)
CallsEnd == \A p \in Procs : pc[p] # "idle" ~> pc[p] = "idle"

(***************************************************************************)
(* What jam.pod says of jam_put_message, "will update a message": when it  *)
(* is about to return OK the message has been updated and is not deleted.  *)
(***************************************************************************)
PutStored ==
    \A p \in Procs : pc[p] = "unlock" /\ op[p] = "put" =>
        LET m == msgs[index[arg[p]]].head IN
        ~ m.deleted /\ m.times = msg[p].times
-----------------------------------------------------------------------------
(***************************************************************************)
(* Why all this is so: what a call knows of the base from one stage to the *)
(* next, and what a message that was read says about the base later.       *)
(***************************************************************************)
\* The stages of each call.
OnRoute(p) ==
    \/ op[p] = "none" /\ pc[p] = "idle"
    \/ op[p] = "add" /\ pc[p] \in {"lock", "header", "text", "append", "fields",
                                   "index", "wheader", "unlock"}
    \/ op[p] = "get" /\ pc[p] \in {"lock", "header", "find", "wheader", "unlock"}
    \/ op[p] = "put" /\ pc[p] \in {"lock", "header", "find", "mark", "append",
                                   "fields", "reindex", "inplace", "refields",
                                   "wheader", "unlock"}
    \/ op[p] = "del" /\ pc[p] \in {"lock", "header", "find", "mark", "erase",
                                   "unindex", "wheader", "unlock"}

\* A call is about a record of the index; a put about the one that was read.
Asked(p) ==
    /\ op[p] \in {"get", "put", "del"} => arg[p] \in 1 .. Len(index)
    /\ op[p] = "put" => arg[p] = have[p]
    /\ op[p] = "add" => body[p] \in Texts

Says(n) == msgs[index[n]].head.text

\* The caller's copy has the number and the text of its record for good.
Copied(p) ==
    have[p] # 0 =>
        /\ have[p] \in 1 .. Len(index)
        /\ msg[p].num = have[p] - 1 + Base
        /\ Live(have[p]) => msg[p].text = Says(have[p])

\* A message that is being added has the next number and a text of its own.
Numbered(p) ==
    op[p] = "add" /\ pc[p] \in {"append", "fields", "index"} =>
        /\ new[p].num = Len(index) + Base
        /\ new[p].text \in 1 .. Len(texts)
        /\ \A n \in 1 .. Len(index) : Live(n) => Says(n) # new[p].text

\* A message that is being changed is there; the old one stays whole.
Changed(p) ==
    /\ \/ pc[p] \in {"mark", "erase", "unindex", "reindex", "inplace", "refields"}
       \/ pc[p] \in {"append", "fields"} /\ op[p] = "put"
       => Live(arg[p])
    /\ pc[p] \in {"mark", "erase"} =>
          /\ ~ old[p].long
          /\ old[p].num = Found(p).num
          /\ old[p].text = Found(p).text
          /\ old[p].size = Found(p).size

\* What was appended is complete before the index points to it.
Appended(p) ==
    /\ pc[p] \in {"fields", "index", "reindex"} =>
          at[p] \in 1 .. Len(msgs) /\ msgs[at[p]].head = Written(p)
    /\ pc[p] \in {"index", "reindex"} => msgs[at[p]].room = Written(p).size

Alive == {n \in 1 .. Len(index) : Live(n)}

\* The count is right in the header that will be written.
Counting ==
    ~ lost =>
        /\ (\A p \in Procs : pc[p] # "wheader") => hdr.active = Cardinality(Alive)
        /\ \A p \in Procs : pc[p] = "wheader" => hbuf[p].active = Cardinality(Alive)

\* A message shows its text unless it is spoilt or its change is midway, and the
\* copies of a message that is not spoilt have the length of its text.
Showing ==
    /\ \A n \in 1 .. Len(index) : Live(n) /\ n \notin spoilt => Shown(n)
    /\ \A p \in Procs :
        /\ Live(have[p]) /\ have[p] \notin spoilt => msg[p].long
        /\ op[p] = "add" /\ pc[p] \in {"append", "fields", "index"} => new[p].long

KnownTo(p) ==
    OnRoute(p) /\ Asked(p) /\ Copied(p) /\ Numbered(p) /\ Changed(p) /\ Appended(p)

(***************************************************************************)
(* The inductive invariant.  No text is ever overwritten, since a delete   *)
(* takes text_length from a structure that is still empty.                 *)
(***************************************************************************)
IInv ==
    /\ TypeOK /\ texts \in Seq(Texts)
    /\ CallInv
    /\ IndexSound
    /\ FitsInPlace
    /\ \A p \in Procs : KnownTo(p)
    /\ Counting
    /\ Showing
=============================================================================
