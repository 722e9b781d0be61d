------------------------------- MODULE Rooms -------------------------------
(***************************************************************************)
(* The rooms of the bulletin board, src/bbs/src/room: a file of records,   *)
(* some of them empty, and for every room of messages a message base, the  *)
(* files that msgs.c opens through jam.c.  The base is named by the        *)
(* conference of the room, not by its record.                              *)
(*                                                                         *)
(* An object of room.c has one handler: that of the record that was read   *)
(* last, by whatever operation.  Reading a record (under its lock) and     *)
(* building the room from it (after the unlock, with the handler of the    *)
(* record before detached and the new one attached) are two steps.         *)
(***************************************************************************)
EXTENDS Integers, FiniteSets

CONSTANTS Procs,       \* processes, each with one object of room.c
          Slots,       \* the number of records
          Lobby,       \* conference of the room that _msgs_init writes
          Areas,       \* conferences that room-create is given
          AddFlags,    \* flags that a room may be created with
          PutFlags,    \* flags that a caller may give a room
          Nil,         \* no copy
          MaxRev,      \* bound: revision of a record
          MaxCalls     \* bound: calls of the processes

Flags == {"RM_INUSE", "RM_PERMROOM", "RM_MESSAGES"}

ASSUME RoomsAssumption ==
    /\ Slots \in Nat \ {0} /\ MaxRev \in Nat \ {0} /\ MaxCalls \in Nat
    /\ Lobby \in Nat \ {0} /\ Areas \subseteq Nat \ {0, Lobby}
    /\ Nil \notin [rev : Nat, conf : Nat, flags : SUBSET Flags]
    /\ AddFlags \cup PutFlags \subseteq SUBSET Flags
    /\ \A f \in AddFlags \cup PutFlags : "RM_INUSE" \in f

VARIABLES rooms,       \* rooms.dat
          base,        \* the files of each conference: 0, or which creation
          made,        \* history: creations of the files of each conference
          proc,        \* the processes
          calls,       \* history: calls
          crossed,     \* history: records written by an add that came late
          overlap,     \* history: areas that two processes looked for at once
          estray       \* history: areas whose base went with another room

vars == <<rooms, base, made, proc, calls, crossed, overlap, estray>>

Conferences == Areas \cup {Lobby}

\* A record without flags has no conference, a room of messages has one.
Room == {r \in [rev : 1 .. MaxRev, conf : Conferences \cup {0}, flags : SUBSET Flags] :
             /\ r.flags = {} => r.conf = 0
             /\ "RM_MESSAGES" \in r.flags => r.conf # 0}

\* No handler; one whose base was removed under it; or an open base.
None == [conf |-> 0, made |-> 0]
Broken == [conf |-> 0, made |-> -1]
Handler == [conf : Conferences, made : Nat] \cup {None, Broken}

\* index is the record of the call, built the one that was built last, held the
\* one that copy came from; own is FALSE when a put took over what others stored.
Out == [stage |-> "idle", call |-> "none", want |-> 0, index |-> 0, seen |-> Nil,
        handler |-> None, built |-> 0, copy |-> Nil, held |-> 0, own |-> TRUE]

HasBase(room) == "RM_MESSAGES" \in room.flags

Process == [stage : {"idle", "read", "build", "write"},
            call : {"none", "find", "add", "get"},
            want : Areas \cup {0},
            index : 0 .. Slots, built : 0 .. Slots, held : 0 .. Slots,
            seen : Room \cup {Nil}, copy : Room \cup {Nil},
            handler : Handler, own : BOOLEAN]

TypeOK ==
    /\ rooms \in [1 .. Slots -> Room]
    /\ base \in [Conferences -> Nat] /\ made \in [Conferences -> Nat]
    /\ \A c \in Conferences : base[c] <= made[c]
    /\ proc \in [Procs -> Process]
    /\ calls \in 0 .. MaxCalls
    /\ crossed \subseteq 1 .. Slots
    /\ overlap \subseteq Areas
    /\ estray \subseteq Conferences

Init ==
    /\ rooms = [i \in 1 .. Slots |->
           IF i = 1 THEN [rev |-> 1, conf |-> Lobby, flags |-> Flags]
                    ELSE [rev |-> 1, conf |-> 0, flags |-> {}]]
    /\ base = [c \in Conferences |-> 0]
    /\ made = base
    /\ proc = [p \in Procs |-> Out]
    /\ calls = 0
    /\ crossed = {} /\ overlap = {} /\ estray = {}

-----------------------------------------------------------------------------
(***************************************************************************)
(* Calls that read: find, get, and the scan of add.                        *)
(***************************************************************************)
Idle(p) == proc[p].stage = "idle"

Called ==
    /\ calls < MaxCalls
    /\ calls' = calls + 1

\* room_find, for the area that room-create is about to create.
Find(p, c) ==
    /\ Idle(p) /\ Called
    /\ proc' = [proc EXCEPT ![p].stage = "read", ![p].call = "find",
                            ![p].want = c, ![p].index = 1]
    /\ overlap' = IF \E q \in Procs \ {p} : proc[q].want = c
                  THEN overlap \cup {c} ELSE overlap
    /\ UNCHANGED <<rooms, base, made, crossed, estray>>

\* room_get of an index that a search gave; the copy before is freed.
Get(p, i) ==
    /\ Idle(p) /\ Called
    /\ proc' = [proc EXCEPT ![p].stage = "read", ![p].call = "get", ![p].index = i,
                            ![p].copy = Nil, ![p].held = 0, ![p].own = TRUE]
    /\ UNCHANGED <<rooms, base, made, crossed, overlap, estray>>

Read(p) ==
    /\ proc[p].stage = "read"
    /\ proc' = [proc EXCEPT ![p].stage = "build", ![p].seen = rooms[proc[p].index]]
    /\ UNCHANGED <<rooms, base, made, calls, crossed, overlap, estray>>

Ended(process) == [process EXCEPT !.stage = "idle", !.call = "none", !.want = 0,
                                  !.index = 0, !.seen = Nil]

\* Mistaken form of Attach: the files are created whether they exist or not.
AttachTruncated(room) ==
    /\ base' = IF HasBase(room) THEN [base EXCEPT ![room.conf] = made[room.conf] + 1] ELSE base
    /\ made' = IF HasBase(room) THEN [made EXCEPT ![room.conf] = @ + 1] ELSE made

\* jam_open by _msgs_attach: the files that do not exist are created.
Attach(room) ==
    LET new == HasBase(room) /\ base[room.conf] = 0
    IN  /\ made' = IF new THEN [made EXCEPT ![room.conf] = @ + 1] ELSE made
        /\ base' = IF new THEN [base EXCEPT ![room.conf] = made[room.conf] + 1] ELSE base

\* Mistaken form of Reattached: without a base, the handler before is left.
ReattachedLate(p, room) ==
    IF HasBase(room) THEN [conf |-> room.conf, made |-> base'[room.conf]]
                     ELSE proc[p].handler

\* The handler before is detached, and that of the room attached.
Reattached(p, room) ==
    IF HasBase(room) THEN [conf |-> room.conf, made |-> base'[room.conf]] ELSE None

Empty(room) == room.flags = {} /\ room.conf = 0

\* Mistaken form of Found: a room without messages is not compared.
FoundMessages(room, c) == HasBase(room) /\ room.conf = c

Found(room, c) == room.conf = c

\* What the call goes on with, once the record at its index is built: a find
\* ends at the room, and without one room-create adds it; an add needs an empty
\* record, and ends with EOVERFLOW.
Onward(process) ==
    LET scan == [process EXCEPT !.stage = "read", !.seen = Nil]
        more == process.index < Slots
    IN  CASE process.call = "get" ->
               [Ended(process) EXCEPT !.copy = process.seen, !.held = process.index]
          [] process.call = "find" /\ Found(process.seen, process.want) ->
               Ended(process)
          [] process.call = "add" /\ Empty(process.seen) ->
               [process EXCEPT !.stage = "write"]
          [] OTHER ->
               IF more THEN [scan EXCEPT !.index = @ + 1]
               ELSE IF process.call = "find" THEN [scan EXCEPT !.call = "add", !.index = 1]
               ELSE Ended(process)

\* A process with a broken handler cannot detach it, and reads no more rooms.
Build(p) ==
    LET room == proc[p].seen IN
    /\ proc[p].stage = "build"
    /\ IF proc[p].handler = Broken
       THEN /\ proc' = [proc EXCEPT ![p] = Ended(@)]
            /\ UNCHANGED <<base, made>>
       ELSE /\ Attach(room)
            /\ proc' = [proc EXCEPT ![p] =
                   Onward([@ EXCEPT !.handler = Reattached(p, room),
                                    !.built = proc[p].index])]
    /\ UNCHANGED <<rooms, calls, crossed, overlap, estray>>

\* The lock of the record is refused, after the retries.
Refused(p) ==
    /\ proc[p].stage \in {"read", "write"}
    /\ proc' = [proc EXCEPT ![p] = Ended(@)]
    /\ UNCHANGED <<rooms, base, made, calls, crossed, overlap, estray>>

-----------------------------------------------------------------------------
(***************************************************************************)
(* Calls that write: the end of add, put and del.                          *)
(***************************************************************************)

\* The record that was found empty is written without being read again.  The
\* process may die between the record and the files of its base.
Write(p) ==
    LET i == proc[p].index IN
    /\ proc[p].stage = "write"
    /\ proc[p].seen.rev < MaxRev
    /\ \E f \in AddFlags :
          LET room == [rev |-> proc[p].seen.rev + 1, conf |-> proc[p].want, flags |-> f]
          IN  /\ rooms' = [rooms EXCEPT ![i] = room]
              /\ \/ /\ Attach(room)
                    /\ proc' = [proc EXCEPT ![p] =
                           [Ended(@) EXCEPT !.handler = Reattached(p, room), !.built = i]]
                 \/ proc' = [proc EXCEPT ![p] = Out] /\ UNCHANGED <<base, made>>
    /\ crossed' = IF rooms[i] = proc[p].seen THEN crossed ELSE crossed \cup {i}
    /\ UNCHANGED <<calls, overlap, estray>>

\* _room_put: a copy that is older than the record is normalized.
Stored(ondisk, room) ==
    IF ondisk.rev > room.rev THEN [ondisk EXCEPT !.rev = @ + 1]
                             ELSE [room EXCEPT !.rev = ondisk.rev + 1]

\* The caller has taken flags away, or changed what has none.
Put(p) ==
    LET i == proc[p].held IN
    /\ Idle(p) /\ Called /\ proc[p].copy # Nil
    /\ rooms[i].rev < MaxRev
    /\ \E f \in PutFlags \cup {proc[p].copy.flags} :
          f \ {"RM_INUSE"} \subseteq proc[p].copy.flags /\
          LET stored == Stored(rooms[i], [proc[p].copy EXCEPT !.flags = f])
          IN  /\ rooms' = [rooms EXCEPT ![i] = stored]
              /\ proc' = [proc EXCEPT ![p].copy = stored,
                             ![p].own = @ /\ rooms[i].rev <= proc[p].copy.rev]
    /\ UNCHANGED <<base, made, crossed, overlap, estray>>

\* Mistaken form of Wiped: the revision is left.
WipedSilent(room) == [rev |-> room.rev, conf |-> 0, flags |-> {}]

\* Mistaken form of Wiped: the conference is left.
WipedFlags(room) == [room EXCEPT !.rev = @ + 1, !.flags = {}]

Wiped(room) == [rev |-> room.rev + 1, conf |-> 0, flags |-> {}]

\* The files that the handler names are removed, whosever room it is of, and
\* the handler, whose base is destroyed already, is detached: closing it once
\* more goes well, fails or ends the process.
RemoveBase(p, handler) ==
    IF handler \in {None, Broken}
    THEN /\ proc' = [proc EXCEPT ![p].copy = Nil, ![p].held = 0]
         /\ UNCHANGED <<base, estray>>
    ELSE LET c == handler.conf IN
         /\ base' = [base EXCEPT ![c] = 0]
         /\ estray' = IF base[c] # 0 /\ \E i \in 1 .. Slots : rooms'[i].conf = c
                      THEN estray \cup {c} ELSE estray
         /\ \/ /\ base[c] # 0
               /\ proc' = [proc EXCEPT ![p].copy = Nil, ![p].held = 0, ![p].handler = None]
            \/ proc' = [proc EXCEPT ![p].copy = Nil, ![p].held = 0, ![p].handler = Broken]
            \/ base[c] # 0 /\ proc' = [proc EXCEPT ![p] = Out]

\* room_del of the room that was got, whose copy the caller then frees; the
\* process may die between the record and the files.
Del(p) ==
    LET i == proc[p].held IN
    /\ Idle(p) /\ Called /\ proc[p].copy # Nil
    /\ "RM_PERMROOM" \notin rooms[i].flags
    /\ rooms[i].rev < MaxRev
    /\ rooms' = [rooms EXCEPT ![i] = Wiped(@)]
    /\ \/ RemoveBase(p, proc[p].handler)
       \/ proc' = [proc EXCEPT ![p] = Out] /\ UNCHANGED <<base, estray>>
    /\ UNCHANGED <<made, crossed, overlap>>

\* room_close, or the end of the process.
Leave(p) ==
    /\ proc[p] # Out
    /\ proc' = [proc EXCEPT ![p] = Out]
    /\ UNCHANGED <<rooms, base, made, calls, crossed, overlap, estray>>

Next == \E p \in Procs :
    \/ \E c \in Areas : Find(p, c)
    \/ \E i \in 1 .. Slots : Get(p, i)
    \/ Read(p) \/ Build(p) \/ Refused(p)
    \/ Write(p) \/ Put(p) \/ Del(p) \/ Leave(p)

Spec == Init /\ [][Next]_vars

-----------------------------------------------------------------------------
(***************************************************************************)
(* A copy says what is stored as long as its revision does, and is never   *)
(* ahead of the record, except where an add has written a record late and  *)
(* set its revision back: put tells a stale copy by its revision alone.    *)
(***************************************************************************)
CopySound ==
    \A p \in Procs :
        LET i == proc[p].held IN
        proc[p].copy # Nil /\ i \notin crossed =>
            /\ proc[p].copy.rev <= rooms[i].rev
            /\ proc[p].copy.rev = rooms[i].rev => proc[p].copy = rooms[i]

(***************************************************************************)
(* Two rooms never have one conference, so that no two share a message     *)
(* base, unless two room-creates looked for it at once or the record of    *)
(* one was written late: find and add are two operations.                  *)
(***************************************************************************)
OneConference ==
    \A i, j \in (1 .. Slots) \ crossed :
        i # j /\ rooms[i].conf # 0 /\ rooms[i].conf = rooms[j].conf =>
            rooms[i].conf \in overlap

(***************************************************************************)
(* What is posted through the handler of the room that was got, and not    *)
(* changed since, is read by everyone: the handler has the files of the    *)
(* conference open, not some that were removed or replaced, unless a del   *)
(* took the base of a room that was still there.                           *)
(***************************************************************************)
HandlerCurrent ==
    \A p \in Procs :
        LET i == proc[p].held IN
        /\ Idle(p) /\ proc[p].copy # Nil /\ proc[p].own
        /\ proc[p].built = i /\ proc[p].handler \notin {None, Broken}
        /\ i \notin crossed /\ rooms[i] = proc[p].copy
        /\ rooms[i].conf \notin estray
        => proc[p].handler = [conf |-> rooms[i].conf, made |-> base[rooms[i].conf]]

(***************************************************************************)
(* A message base is removed with the room that it belongs to, when the    *)
(* room deleted is the one that was read last and nobody has changed it:   *)
(* room_del takes the base of the handler, not that of its index.          *)
(***************************************************************************)
RemovesOwn ==
    [][\A p \in Procs, c \in Conferences :
          LET i == proc[p].held IN
          /\ base[c] # 0 /\ base'[c] = 0
          /\ proc'[p] # proc[p] /\ proc[p].built = i
          /\ proc[p].own /\ proc[p].copy = rooms[i] /\ i \notin crossed
          => rooms[i].conf = c /\ rooms'[i].conf = 0]_vars

-----------------------------------------------------------------------------
(***************************************************************************)
(* Why: what a process knows from one of its steps to the next.            *)
(***************************************************************************)
\* A call has an index, what it has read, and a conference to look for; a
\* handler has files open that were there.
Staged(p) ==
    /\ Idle(p) <=> proc[p].call = "none"
    /\ ~ Idle(p) => proc[p].index # 0
    /\ proc[p].stage \in {"build", "write"} => proc[p].seen # Nil
    /\ proc[p].stage = "write" => proc[p].call = "add" /\ Empty(proc[p].seen)
    /\ proc[p].want # 0 <=> proc[p].call \in {"find", "add"}
    /\ proc[p].copy # Nil => proc[p].held # 0
    /\ proc[p].handler \notin {None, Broken} => proc[p].handler.made # 0

\* The room is what record i says, or what it said at an earlier revision.
Was(room, i) ==
    /\ room.rev <= rooms[i].rev
    /\ room.rev = rooms[i].rev => room = rooms[i]

\* What a call has read is sound as a copy is, and no older than the copy.
Seen(p) ==
    LET i == proc[p].index IN
    proc[p].stage \in {"build", "write"} /\ i \notin crossed =>
        /\ Was(proc[p].seen, i)
        /\ proc[p].copy # Nil /\ proc[p].held = i => proc[p].copy.rev <= proc[p].seen.rev

\* Whoever looks for a conference alone misses no room of it: one can only be
\* where the search has still to come.
Searching(p) ==
    LET c == proc[p].want IN
    c # 0 /\ c \notin overlap =>
        /\ \A q \in Procs \ {p} : proc[q].want # c
        /\ \A j \in (1 .. Slots) \ crossed : rooms[j].conf = c =>
              /\ proc[p].call = "find"
              /\ proc[p].index <= j
              /\ proc[p].stage = "build" /\ proc[p].index = j => proc[p].seen.conf = c

\* The handler of a copy has the files of its conference open until the record
\* or, astray, the base goes.
Holding(p) ==
    LET i == proc[p].held
        c == proc[p].copy.conf
    IN  /\ proc[p].copy # Nil /\ proc[p].own
        /\ proc[p].built = i /\ proc[p].handler \notin {None, Broken} /\ i \notin crossed
        => \/ proc[p].copy.rev < rooms[i].rev
           \/ /\ proc[p].handler.conf = c
              /\ c \in estray \/ proc[p].handler.made = base[c]

\* The inductive invariant.
IInv ==
    /\ TypeOK /\ CopySound /\ OneConference
    /\ \A p \in Procs : Staged(p) /\ Seen(p) /\ Searching(p) /\ Holding(p)
=============================================================================
