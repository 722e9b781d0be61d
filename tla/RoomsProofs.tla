---------------------------- MODULE RoomsProofs ----------------------------
(***************************************************************************)
(* Proofs about Rooms: for any number of processes, records and areas, and *)
(* for deaths anywhere, its inductive invariant, that stale copies are     *)
(* told, that a conference has one room, that the files of a handler are   *)
(* those of its room, and that a base goes with its own room.              *)
(***************************************************************************)
EXTENDS Rooms, TLAPS

-----------------------------------------------------------------------------
(***************************************************************************)
(* Records of processes, and the operators that make them.                 *)
(***************************************************************************)

\* A process with one field changed is a process.
LEMMA ProcessSet ==
    ASSUME NEW r \in Process
    PROVE  /\ \A v \in {"idle", "read", "build", "write"} : [r EXCEPT !.stage = v] \in Process
           /\ \A v \in {"none", "find", "add", "get"} : [r EXCEPT !.call = v] \in Process
           /\ \A v \in Areas \cup {0} : [r EXCEPT !.want = v] \in Process
           /\ \A v \in 0 .. Slots : [r EXCEPT !.index = v] \in Process
           /\ \A v \in 0 .. Slots : [r EXCEPT !.built = v] \in Process
           /\ \A v \in 0 .. Slots : [r EXCEPT !.held = v] \in Process
           /\ \A v \in Room \cup {Nil} : [r EXCEPT !.seen = v] \in Process
           /\ \A v \in Room \cup {Nil} : [r EXCEPT !.copy = v] \in Process
           /\ \A v \in Handler : [r EXCEPT !.handler = v] \in Process
           /\ \A v \in BOOLEAN : [r EXCEPT !.own = v] \in Process
  BY DEF Process

\* A copy that is there is a room.
LEMMA NilApart ==
    Nil \notin Room
  <1>2. 1 .. MaxRev \subseteq Nat /\ Conferences \cup {0} \subseteq Nat
    BY RoomsAssumption DEF RoomsAssumption, Conferences
  <1>3. Room \subseteq [rev : Nat, conf : Nat, flags : SUBSET Flags]
    BY <1>2 DEF Room
  <1> QED
    BY <1>3, RoomsAssumption DEF RoomsAssumption

\* The numbers of the module.
LEMMA Numbers ==
    /\ Slots \in Nat /\ MaxRev \in Nat /\ 0 \in 0 .. Slots /\ 1 \in 1 .. Slots
    /\ Conferences \subseteq Nat \ {0} /\ Areas \subseteq Conferences
  BY RoomsAssumption DEF RoomsAssumption, Conferences

\* What a process is without an object.
LEMMA OutType ==
    /\ Out \in Process
    /\ Out.stage = "idle" /\ Out.call = "none" /\ Out.want = 0 /\ Out.index = 0
    /\ Out.seen = Nil /\ Out.handler = None /\ Out.built = 0 /\ Out.copy = Nil
    /\ Out.held = 0 /\ Out.own = TRUE
  BY Numbers DEF Out, Process, Handler

\* The end of a call leaves the handler and the copy alone.
LEMMA EndedFields ==
    ASSUME NEW r \in Process
    PROVE  /\ Ended(r) \in Process
           /\ Ended(r).stage = "idle" /\ Ended(r).call = "none" /\ Ended(r).want = 0
           /\ Ended(r).index = 0 /\ Ended(r).seen = Nil
           /\ Ended(r).handler = r.handler /\ Ended(r).built = r.built
           /\ Ended(r).copy = r.copy /\ Ended(r).held = r.held /\ Ended(r).own = r.own
  <1>1. Ended(r) \in Process
    BY Numbers, ProcessSet DEF Ended
  <1> QED
    BY <1>1 DEF Ended, Process

\* A call that has ended, or has not begun, knows nothing of its own.
AtRest(r) == r.stage = "idle" /\ r.call = "none" /\ r.want = 0

\* What is left of a process by a step that does not touch its handler.
SameHandler(r, s) == s.handler = r.handler /\ s.built = r.built /\ s.own = r.own

\* What is left by a step that does not touch its copy.
SameCopy(r, s) == s.copy = r.copy /\ s.held = r.held

\* How a call goes on from a record that it has built.
Goes(r, s) ==
    /\ SameHandler(r, s)
    /\ \/ AtRest(s) /\ r.call = "get" /\ s.copy = r.seen /\ s.held = r.index
       \/ AtRest(s) /\ SameCopy(r, s)
       \/ /\ s.stage = "write" /\ r.call = "add" /\ Empty(r.seen) /\ SameCopy(r, s)
          /\ s.call = r.call /\ s.want = r.want /\ s.index = r.index /\ s.seen = r.seen
       \/ /\ s.stage = "read" /\ SameCopy(r, s) /\ s.want = r.want
          /\ r.call \in {"find", "add"}
          /\ r.call = "find" => ~ Found(r.seen, r.want)
          /\ \/ s.call = r.call /\ s.index = r.index + 1
             \/ r.index = Slots /\ r.call = "find" /\ s.call = "add" /\ s.index = 1

\* A call that has built the record at its index goes on in one of these ways.
LEMMA OnwardGoes ==
    ASSUME NEW r \in Process, r.call # "none", r.index # 0
    PROVE  Onward(r) \in Process /\ Goes(r, Onward(r))
  <1> DEFINE scan == [r EXCEPT !.stage = "read", !.seen = Nil]
  <1>1. /\ scan \in Process /\ scan.stage = "read"
        /\ SameHandler(r, scan) /\ SameCopy(r, scan)
        /\ scan.want = r.want /\ scan.call = r.call /\ scan.index = r.index
    <2>1. scan \in Process
      BY ProcessSet
    <2> QED
      BY <2>1 DEF Process, SameHandler, SameCopy
  <1>2. CASE r.call = "get"
    <2> DEFINE e == Ended(r)
               s == [e EXCEPT !.copy = r.seen, !.held = r.index]
    <2>1. r.seen \in Room \cup {Nil} /\ r.index \in 0 .. Slots
      BY DEF Process
    <2>2. s \in Process
      BY <2>1, EndedFields, ProcessSet
    <2>3. /\ AtRest(s) /\ SameHandler(e, s) /\ s.copy = r.seen /\ s.held = r.index
      <3> HIDE DEF e
      <3>1. e \in Process /\ AtRest(e)
        BY EndedFields DEF e, AtRest
      <3> QED
        BY <3>1 DEF Process, AtRest, SameHandler
    <2>4. SameHandler(r, s)
      BY <2>3, EndedFields DEF SameHandler
    <2>5. Onward(r) = s
      BY <1>2 DEF Onward
    <2> HIDE DEF s, e
    <2> QED
      BY <2>2, <2>3, <2>4, <2>5, <1>2 DEF Goes
  <1>3. CASE r.call = "find" /\ Found(r.seen, r.want)
    <2>1. Onward(r) = Ended(r)
      BY <1>3 DEF Onward
    <2> QED
      BY <2>1, EndedFields DEF Goes, AtRest, SameHandler, SameCopy
  <1>4. CASE r.call = "add" /\ Empty(r.seen)
    <2> DEFINE s == [r EXCEPT !.stage = "write"]
    <2>1. Onward(r) = s
      BY <1>4 DEF Onward
    <2>2. s \in Process
      BY ProcessSet
    <2>3. /\ s.stage = "write" /\ SameHandler(r, s) /\ SameCopy(r, s)
          /\ s.call = r.call /\ s.want = r.want /\ s.index = r.index /\ s.seen = r.seen
      BY DEF Process, SameHandler, SameCopy
    <2> HIDE DEF s
    <2> QED
      BY <2>1, <2>2, <2>3, <1>4 DEF Goes
  <1>5. CASE /\ r.call \in {"find", "add"}
             /\ r.call = "find" => ~ Found(r.seen, r.want)
             /\ r.call = "add" => ~ Empty(r.seen)
    <2>1. r.index \in 1 .. Slots /\ Slots \in Nat
      BY Numbers DEF Process
    <2>2. CASE r.index < Slots
      <3> DEFINE s == [scan EXCEPT !.index = scan.index + 1]
      <3>1. Onward(r) = s
        BY <1>5, <2>2 DEF Onward
      <3>2. r.index + 1 \in 0 .. Slots
        BY <2>1, <2>2
      <3> HIDE DEF scan
      <3>3. s \in Process
        BY <1>1, <3>2, ProcessSet
      <3>4. /\ s.stage = "read" /\ SameHandler(r, s) /\ SameCopy(r, s)
            /\ s.want = r.want /\ s.call = r.call /\ s.index = r.index + 1
        BY <1>1 DEF Process, SameHandler, SameCopy
      <3> HIDE DEF s
      <3> QED
        BY <1>5, <3>1, <3>3, <3>4 DEF Goes
    <2>3. CASE ~ (r.index < Slots) /\ r.call = "find"
      <3> DEFINE s == [scan EXCEPT !.call = "add", !.index = 1]
      <3>1. Onward(r) = s
        BY <1>5, <2>3 DEF Onward
      <3> HIDE DEF scan
      <3>2. s \in Process
        <4>1. [scan EXCEPT !.call = "add"] \in Process
          BY <1>1, ProcessSet
        <4>2. 1 \in 0 .. Slots
          BY Numbers
        <4> QED
          BY <4>1, <4>2, ProcessSet
      <3>3. /\ s.stage = "read" /\ SameHandler(r, s) /\ SameCopy(r, s)
            /\ s.want = r.want /\ s.call = "add" /\ s.index = 1
        BY <1>1 DEF Process, SameHandler, SameCopy
      <3>4. r.index = Slots
        BY <2>1, <2>3
      <3> HIDE DEF s
      <3> QED
        BY <1>5, <2>3, <3>1, <3>2, <3>3, <3>4 DEF Goes
    <2>4. CASE ~ (r.index < Slots) /\ r.call = "add"
      <3>1. Onward(r) = Ended(r)
        BY <1>5, <2>4 DEF Onward
      <3> QED
        BY <3>1, EndedFields DEF Goes, AtRest, SameHandler, SameCopy
    <2> QED
      BY <1>5, <2>2, <2>3, <2>4
  <1>6. r.call \in {"find", "add", "get"}
    BY DEF Process
  <1> QED
    BY <1>2, <1>3, <1>4, <1>5, <1>6

-----------------------------------------------------------------------------
(***************************************************************************)
(* Attaching a base.                                                       *)
(***************************************************************************)

\* Attach gives a room of messages a base and changes no base that is there.
LEMMA AttachKeeps ==
    ASSUME TypeOK, NEW room \in Room, Attach(room)
    PROVE  /\ base' \in [Conferences -> Nat] /\ made' \in [Conferences -> Nat]
           /\ \A c \in Conferences : base'[c] <= made'[c]
           /\ \A c \in Conferences : base'[c] = base[c] \/ base[c] = 0
           /\ HasBase(room) => room.conf \in Conferences /\ base'[room.conf] # 0
  <1> DEFINE c == room.conf
  <1>1. HasBase(room) => c \in Conferences
    BY Numbers DEF Room, HasBase
  <1>2. base \in [Conferences -> Nat] /\ made \in [Conferences -> Nat]
    BY DEF TypeOK
  <1>3. \A d \in Conferences : base[d] <= made[d]
    BY DEF TypeOK
  <1>4. CASE HasBase(room) /\ base[c] = 0
    <2>1. /\ made' = [made EXCEPT ![c] = made[c] + 1]
          /\ base' = [base EXCEPT ![c] = made[c] + 1]
      BY <1>4 DEF Attach
    <2> HIDE DEF c
    <2> QED
      BY <1>1, <1>2, <1>3, <1>4, <2>1 DEF c
  <1>5. CASE ~ (HasBase(room) /\ base[c] = 0)
    <2>1. made' = made /\ base' = base
      BY <1>5 DEF Attach
    <2> QED
      BY <1>1, <1>2, <1>3, <1>5, <2>1
  <1> QED
    BY <1>4, <1>5

\* The handler that is attached has the files of the room open.
LEMMA ReattachedFields ==
    ASSUME TypeOK, NEW p \in Procs, NEW room \in Room, Attach(room)
    PROVE  /\ Reattached(p, room) \in Handler
           /\ Reattached(p, room) \notin {None, Broken} =>
                 /\ HasBase(room)
                 /\ Reattached(p, room).conf = room.conf
                 /\ Reattached(p, room).made = base'[room.conf]
                 /\ base'[room.conf] # 0
  <1>1. CASE HasBase(room)
    <2>1. room.conf \in Conferences /\ base'[room.conf] \in Nat /\ base'[room.conf] # 0
      BY <1>1, AttachKeeps
    <2>2. Reattached(p, room) = [conf |-> room.conf, made |-> base'[room.conf]]
      BY <1>1 DEF Reattached
    <2> QED
      BY <1>1, <2>1, <2>2 DEF Handler
  <1>2. CASE ~ HasBase(room)
    BY <1>2 DEF Reattached, Handler
  <1> QED
    BY <1>1, <1>2

-----------------------------------------------------------------------------
(***************************************************************************)
(* What a step does to the records, the bases and the races.               *)
(***************************************************************************)

\* A record that was not written late is as it was, or has gone on.
Forward ==
    \A i \in (1 .. Slots) \ crossed' :
        i \notin crossed /\ (rooms'[i] = rooms[i] \/ rooms[i].rev < rooms'[i].rev)

\* A conference goes from a record, or comes to the one that an add writes.
Comes(p) ==
    \A i \in (1 .. Slots) \ crossed' :
        \/ rooms'[i].conf \in {rooms[i].conf, 0}
        \/ /\ i = proc[p].index /\ proc[p].call = "add"
           /\ rooms'[i].conf = proc[p].want

\* Who begins to look for what somebody looks for has raced with him.
Looks(p) ==
    \A q \in Procs \ {p} : proc'[p].want = proc[q].want =>
        proc'[p].want \in {0, proc[p].want} \cup overlap'

\* A base that is there is replaced by none, and goes with its room, or astray.
Stays ==
    \A c \in Conferences :
        \/ base'[c] = base[c] \/ base[c] = 0 \/ c \in estray'
        \/ \A i \in 1 .. Slots : rooms'[i].conf # c

\* A step of p, as the other processes see it.
Moves(p) ==
    /\ Forward /\ Comes(p) /\ Looks(p) /\ Stays
    /\ overlap \subseteq overlap' /\ estray \subseteq estray'
    /\ \A q \in Procs \ {p} : proc'[q] = proc[q]

\* CopySound, of one process.
Copied(p) ==
    LET i == proc[p].held IN
    proc[p].copy # Nil /\ i \notin crossed => Was(proc[p].copy, i)

LEMMA CopySoundParts ==
    CopySound <=> \A p \in Procs : Copied(p)
  BY DEF CopySound, Copied, Was

\* A room that was in the file is, after a step, in it or in its past.
LEMMA WasStays ==
    ASSUME TypeOK, TypeOK', Forward, NEW i \in (1 .. Slots) \ crossed', NEW room \in Room,
           Was(room, i)
    PROVE  /\ room.rev <= rooms'[i].rev
           /\ room.rev = rooms'[i].rev => room = rooms'[i] /\ rooms'[i] = rooms[i]
  <1>1. room.rev \in Int /\ rooms[i].rev \in Int /\ rooms'[i].rev \in Int
    BY Numbers DEF TypeOK, Room
  <1> QED
    BY <1>1 DEF Forward, Was

\* Where there is a copy, it is a room.
LEMMA CopyType ==
    ASSUME TypeOK, NEW p \in Procs
    PROVE  /\ proc[p] \in Process
           /\ proc[p].copy # Nil => proc[p].copy \in Room
           /\ proc[p].seen # Nil => proc[p].seen \in Room
           /\ proc[p].index \in 0 .. Slots /\ proc[p].held \in 0 .. Slots
  <1>1. proc[p] \in Process
    BY DEF TypeOK
  <1> QED
    BY <1>1 DEF Process

\* A copy that the step leaves alone stays sound.
LEMMA CopiedStays ==
    ASSUME IInv, TypeOK', NEW p \in Procs, Forward, SameCopy(proc[p], proc'[p])
    PROVE  Copied(p)'
  <1> DEFINE i == proc[p].held
             room == proc[p].copy
  <1>1. proc'[p].copy = room /\ proc'[p].held = i
    BY DEF SameCopy
  <1>2. CASE room # Nil /\ i \notin crossed'
    <2>1. TypeOK /\ Copied(p) /\ Staged(p)
      BY CopySoundParts DEF IInv
    <2>2. i \in (1 .. Slots) \ crossed' /\ room \in Room
      BY <1>2, <2>1, CopyType, Numbers DEF Staged
    <2>3. Was(room, i)
      BY <1>2, <2>1, <2>2 DEF Copied, Forward
    <2>4. room.rev <= rooms'[i].rev /\ (room.rev = rooms'[i].rev => room = rooms'[i])
      BY <2>1, <2>2, <2>3, WasStays
    <2> QED
      BY <1>1, <2>4 DEF Copied, Was
  <1>3. CASE ~ (room # Nil /\ i \notin crossed')
    BY <1>1, <1>3 DEF Copied
  <1> QED
    BY <1>2, <1>3

\* What a call that goes on has read stays sound.
LEMMA SeenStays ==
    ASSUME IInv, TypeOK', NEW p \in Procs, Forward, SameCopy(proc[p], proc'[p]),
           proc[p].stage \in {"build", "write"},
           proc'[p].index = proc[p].index, proc'[p].seen = proc[p].seen
    PROVE  Seen(p)'
  <1> DEFINE i == proc[p].index
             room == proc[p].seen
  <1>1. CASE i \notin crossed'
    <2>1. TypeOK /\ Seen(p) /\ Staged(p)
      BY DEF IInv
    <2>2. i \in (1 .. Slots) \ crossed' /\ room \in Room
      BY <1>1, <2>1, CopyType, Numbers DEF Staged, Idle
    <2>3. /\ Was(room, i)
          /\ proc[p].copy # Nil /\ proc[p].held = i => proc[p].copy.rev <= room.rev
      BY <2>1, <2>2 DEF Seen, Forward
    <2>4. room.rev <= rooms'[i].rev /\ (room.rev = rooms'[i].rev => room = rooms'[i])
      BY <2>1, <2>2, <2>3, WasStays
    <2> QED
      BY <2>3, <2>4 DEF Seen, Was, SameCopy
  <1>2. CASE i \in crossed'
    BY <1>2 DEF Seen
  <1> QED
    BY <1>1, <1>2

\* A handler that the step leaves alone, with its copy, stays current.
LEMMA HoldingStays ==
    ASSUME IInv, TypeOK', NEW p \in Procs, Forward, Stays, estray \subseteq estray',
           SameCopy(proc[p], proc'[p]), SameHandler(proc[p], proc'[p])
    PROVE  Holding(p)'
  <1> DEFINE i == proc[p].held
             room == proc[p].copy
             c == proc[p].copy.conf
             h == proc[p].handler
  <1>1. /\ proc'[p].copy = room /\ proc'[p].held = i /\ proc'[p].handler = h
        /\ proc'[p].built = proc[p].built /\ proc'[p].own = proc[p].own
    BY DEF SameCopy, SameHandler
  <1>2. CASE /\ room # Nil /\ proc[p].own
             /\ proc[p].built = i /\ h \notin {None, Broken} /\ i \notin crossed'
    <2>1. TypeOK /\ Copied(p) /\ Staged(p) /\ Holding(p)
      BY CopySoundParts DEF IInv
    <2>2. i \in (1 .. Slots) \ crossed' /\ room \in Room
      BY <1>2, <2>1, CopyType, Numbers DEF Staged
    <2>3. i \notin crossed /\ Was(room, i)
      BY <1>2, <2>1, <2>2 DEF Copied, Forward
    <2>4. /\ room.rev <= rooms'[i].rev
          /\ room.rev = rooms'[i].rev => room = rooms'[i] /\ rooms'[i] = rooms[i]
      BY <2>1, <2>2, <2>3, WasStays
    <2>5. room.rev \in Int /\ rooms'[i].rev \in Int
      <3>1. rooms'[i] \in Room
        BY <2>2 DEF TypeOK
      <3> QED
        BY <2>2, <3>1 DEF Room
    <2>6. CASE room.rev < rooms'[i].rev
      BY <1>1, <2>6 DEF Holding
    <2>7. CASE room = rooms'[i] /\ rooms'[i] = rooms[i]
      <3>1. h.conf = c /\ (c \in estray \/ h.made = base[c])
        <4>1. ~ (room.rev < rooms[i].rev)
          BY <2>5, <2>7
        <4> QED
          BY <1>2, <2>1, <2>3, <4>1 DEF Holding
      <3>2. c \in Conferences /\ h.made # 0
        <4>1. h \in Handler
          BY <2>1, CopyType DEF Process
        <4> QED
          BY <1>2, <2>1, <3>1, <4>1 DEF Handler, Staged
      <3>3. c \in estray' \/ h.made = base'[c]
        BY <2>2, <2>7, <3>1, <3>2 DEF Stays
      <3> QED
        BY <1>1, <3>1, <3>3 DEF Holding
    <2> QED
      BY <2>4, <2>5, <2>6, <2>7
  <1>3. CASE ~ (/\ room # Nil /\ proc[p].own
                /\ proc[p].built = i /\ h \notin {None, Broken} /\ i \notin crossed')
    BY <1>1, <1>3 DEF Holding
  <1> QED
    BY <1>2, <1>3

\* The search of another process misses nothing by the step.
LEMMA OthersSearch ==
    ASSUME IInv, TypeOK', NEW p \in Procs, NEW q \in Procs \ {p}, Moves(p)
    PROVE  Searching(q)'
  <1> DEFINE c == proc[q].want
  <1>1. proc'[q] = proc[q]
    BY DEF Moves
  <1>2. CASE c # 0 /\ c \notin overlap'
    <2>1. /\ c \notin overlap /\ Searching(q)
          /\ \A r \in Procs \ {q} : proc[r].want # c
      BY <1>2 DEF IInv, Moves, Searching
    <2>2. ASSUME NEW r \in Procs \ {q} PROVE proc'[r].want # c
      <3>1. CASE r # p
        BY <2>1, <3>1 DEF Moves
      <3>2. CASE r = p
        BY <1>2, <2>1, <3>2 DEF Moves, Looks
      <3> QED
        BY <3>1, <3>2
    <2>3. ASSUME NEW j \in (1 .. Slots) \ crossed', rooms'[j].conf = c
          PROVE  j \notin crossed /\ rooms[j].conf = c
      BY <1>2, <2>1, <2>3 DEF Moves, Comes, Forward
    <2>4. ASSUME NEW j \in (1 .. Slots) \ crossed', rooms'[j].conf = c
          PROVE  /\ proc[q].call = "find"
                 /\ proc[q].index <= j
                 /\ proc[q].stage = "build" /\ proc[q].index = j => proc[q].seen.conf = c
      BY <1>2, <2>1, <2>3, <2>4 DEF Searching
    <2> QED
      BY <1>1, <2>2, <2>4 DEF Searching
  <1>3. CASE ~ (c # 0 /\ c \notin overlap')
    BY <1>1, <1>3 DEF Searching
  <1> QED
    BY <1>2, <1>3

\* No second room of a conference comes by the step.
LEMMA OneConferenceStays ==
    ASSUME IInv, NEW p \in Procs, Moves(p)
    PROVE  OneConference'
  <1> DEFINE c == proc[p].want
  <1> SUFFICES ASSUME NEW i \in (1 .. Slots) \ crossed', NEW j \in (1 .. Slots) \ crossed',
                      i # j, rooms'[i].conf # 0, rooms'[i].conf = rooms'[j].conf,
                      rooms'[i].conf \notin overlap'
               PROVE  FALSE
    BY DEF OneConference
  <1>1. i \notin crossed /\ j \notin crossed /\ rooms'[i].conf \notin overlap
    BY DEF Moves, Forward
  <1>2. ASSUME NEW k \in {i, j}, NEW l \in {i, j}, k # l,
               k = proc[p].index, proc[p].call = "add", rooms'[k].conf = c
        PROVE  FALSE
    <2>1. rooms[l].conf = c
      BY <1>2 DEF Moves, Comes
    <2>2. c # 0 /\ c \notin overlap
      BY <1>1, <1>2
    <2>3. Searching(p)
      BY DEF IInv
    <2> QED
      BY <1>1, <1>2, <2>1, <2>2, <2>3 DEF Searching
  <1>3. rooms[i].conf = rooms'[i].conf /\ rooms[j].conf = rooms'[j].conf
    BY <1>2 DEF Moves, Comes
  <1> QED
    BY <1>1, <1>3 DEF IInv, OneConference

\* Enough of a step of p: what the others and the records see, and its own part.
LEMMA StepIInv ==
    ASSUME IInv, TypeOK', NEW p \in Procs, Moves(p),
           Staged(p)', Copied(p)', Seen(p)', Searching(p)', Holding(p)'
    PROVE  IInv'
  <1>1. ASSUME NEW q \in Procs
        PROVE  /\ Staged(q)' /\ Copied(q)'
               /\ Seen(q)' /\ Searching(q)' /\ Holding(q)'
    <2>1. CASE q = p
      BY <2>1
    <2>2. CASE q # p
      <3>1. /\ proc'[q] = proc[q] /\ q \in Procs \ {p}
            /\ SameCopy(proc[q], proc'[q]) /\ SameHandler(proc[q], proc'[q])
        BY <2>2 DEF Moves, SameCopy, SameHandler
      <3>2. Forward /\ Stays /\ estray \subseteq estray'
        BY DEF Moves
      <3>3. Staged(q)'
        BY <3>1 DEF IInv, Staged, Idle
      <3>4. Copied(q)' /\ Holding(q)'
        BY <3>1, <3>2, CopiedStays, HoldingStays
      <3>5. Seen(q)'
        <4>1. CASE proc[q].stage \in {"build", "write"}
          BY <3>1, <3>2, <4>1, SeenStays
        <4>2. CASE proc[q].stage \notin {"build", "write"}
          BY <3>1, <4>2 DEF Seen
        <4> QED
          BY <4>1, <4>2
      <3>6. Searching(q)'
        BY <3>1, OthersSearch
      <3> QED
        BY <3>3, <3>4, <3>5, <3>6
    <2> QED
      BY <2>1, <2>2
  <1>2. CopySound'
    BY <1>1 DEF CopySound, Copied, Was
  <1>3. OneConference'
    BY OneConferenceStays
  <1> QED
    BY <1>1, <1>2, <1>3 DEF IInv

-----------------------------------------------------------------------------
(***************************************************************************)
(* Steps that change no record: the calls that read.                       *)
(***************************************************************************)

\* A step that leaves the records moves only a search.
LEMMA QuietMoves ==
    ASSUME NEW p \in Procs, TypeOK, NEW r, proc' = [proc EXCEPT ![p] = r],
           UNCHANGED <<rooms, crossed, estray>>, overlap \subseteq overlap',
           \A c \in Conferences : base'[c] = base[c] \/ base[c] = 0,
           r.want \in {0, proc[p].want} \cup overlap'
               \/ \A q \in Procs \ {p} : proc[q].want # r.want
    PROVE  Moves(p) /\ proc'[p] = r
  <1>1. proc'[p] = r /\ \A q \in Procs \ {p} : proc'[q] = proc[q]
    BY DEF TypeOK
  <1>2. Forward /\ Comes(p) /\ Stays
    BY DEF Forward, Comes, Stays
  <1>3. Looks(p)
    BY <1>1 DEF Looks
  <1> QED
    BY <1>1, <1>2, <1>3 DEF Moves

\* What changes with the processes alone keeps its type.
LEMMA QuietType ==
    ASSUME TypeOK, NEW p \in Procs, NEW r \in Process, proc' = [proc EXCEPT ![p] = r],
           UNCHANGED <<rooms, base, made, crossed, estray>>,
           calls' \in 0 .. MaxCalls, overlap' \subseteq Areas
    PROVE  TypeOK'
  <1>1. proc' \in [Procs -> Process]
    BY DEF TypeOK
  <1> QED
    BY <1>1 DEF TypeOK

\* A call has been counted.
LEMMA CalledType ==
    ASSUME TypeOK, Called
    PROVE  calls' \in 0 .. MaxCalls
  BY RoomsAssumption DEF RoomsAssumption, TypeOK, Called

\* Who is in no call has read nothing and looks for nothing.
LEMMA RestKnows ==
    ASSUME NEW p \in Procs, AtRest(proc'[p])
    PROVE  Seen(p)' /\ Searching(p)'
  BY DEF AtRest, Seen, Searching

\* A call that ends knows what it knew of its copy.
LEMMA EndKeeps ==
    ASSUME IInv, TypeOK', NEW p \in Procs, Moves(p), AtRest(proc'[p]),
           SameCopy(proc[p], proc'[p]), SameHandler(proc[p], proc'[p])
    PROVE  IInv'
  <1>1. Seen(p)' /\ Searching(p)'
    BY RestKnows
  <1>2. Copied(p)' /\ Holding(p)'
    BY CopiedStays, HoldingStays DEF Moves
  <1>3. Staged(p)'
    BY DEF IInv, Staged, Idle, AtRest, SameCopy, SameHandler
  <1> QED
    BY <1>1, <1>2, <1>3, StepIInv

\* A process that has gone knows nothing.
LEMMA OutKeeps ==
    ASSUME IInv, TypeOK', NEW p \in Procs, Moves(p), proc'[p] = Out
    PROVE  IInv'
  <1>1. AtRest(proc'[p])
    BY OutType DEF AtRest
  <1>2. Seen(p)' /\ Searching(p)'
    BY <1>1, RestKnows
  <1>3. Copied(p)' /\ Holding(p)'
    BY OutType DEF Copied, Holding
  <1>4. Staged(p)'
    BY <1>1, OutType DEF Staged, Idle, AtRest
  <1> QED
    BY <1>2, <1>3, <1>4, StepIInv

\* What the invariant says of one process.
LEMMA Knows ==
    ASSUME IInv, NEW p \in Procs
    PROVE  /\ TypeOK /\ Copied(p) /\ Staged(p) /\ Seen(p) /\ Searching(p) /\ Holding(p)
           /\ proc[p] \in Process
  BY CopySoundParts, CopyType DEF IInv

\* A find begins, in a race or alone.
LEMMA FindKeeps ==
    ASSUME IInv, NEW p \in Procs, NEW c \in Areas, Find(p, c)
    PROVE  IInv'
  <1> DEFINE r == [proc[p] EXCEPT !.stage = "read", !.call = "find", !.want = c, !.index = 1]
  <1>1. /\ TypeOK /\ Staged(p) /\ Searching(p) /\ proc[p] \in Process
        /\ proc' = [proc EXCEPT ![p] = r]
    BY Knows DEF Find, TypeOK
  <1>2. r \in Process
    <2>1. 1 \in 0 .. Slots /\ c \in Areas \cup {0}
      BY Numbers
    <2>2. [proc[p] EXCEPT !.stage = "read"] \in Process
      BY <1>1, ProcessSet
    <2>3. [proc[p] EXCEPT !.stage = "read", !.call = "find"] \in Process
      BY <2>2, ProcessSet
    <2>4. [proc[p] EXCEPT !.stage = "read", !.call = "find", !.want = c] \in Process
      BY <2>1, <2>3, ProcessSet
    <2> QED
      BY <2>1, <2>4, ProcessSet
  <1>3. /\ r.stage = "read" /\ r.call = "find" /\ r.want = c /\ r.index = 1
        /\ SameCopy(proc[p], r) /\ SameHandler(proc[p], r)
    BY <1>1 DEF Process, SameCopy, SameHandler
  <1> HIDE DEF r
  <1>4. /\ overlap \subseteq overlap' /\ overlap' \subseteq Areas
        /\ c \notin overlap' => \A q \in Procs \ {p} : proc[q].want # c
    BY <1>1 DEF Find, TypeOK
  <1>5. TypeOK'
    BY <1>1, <1>2, <1>4, CalledType, QuietType DEF Find
  <1>6. Moves(p) /\ proc'[p] = r
    <2>1. \/ r.want \in {0, proc[p].want} \cup overlap'
          \/ \A q \in Procs \ {p} : proc[q].want # r.want
      BY <1>3, <1>4
    <2>2. UNCHANGED <<rooms, crossed, estray, base>>
      BY DEF Find
    <2> QED
      BY <1>1, <1>4, <2>1, <2>2, QuietMoves
  <1>7. Staged(p)' /\ Seen(p)'
    <2>1. c # 0
      BY Numbers
    <2> QED
      BY <1>1, <1>3, <1>6, <2>1 DEF Staged, Idle, Seen, SameCopy, SameHandler
  <1>8. Searching(p)'
    <2>1. ASSUME c \notin overlap', NEW q \in Procs \ {p}
          PROVE  proc'[q].want # c
      BY <1>4, <1>6, <2>1 DEF Moves
    <2>2. \A j \in (1 .. Slots) \ crossed' : 1 <= j
      BY Numbers
    <2> QED
      BY <1>3, <1>6, <2>1, <2>2 DEF Searching
  <1>9. Copied(p)' /\ Holding(p)'
    BY <1>3, <1>5, <1>6, CopiedStays, HoldingStays DEF Moves
  <1> QED
    BY <1>5, <1>6, <1>7, <1>8, <1>9, StepIInv

\* A get begins, without a copy.
LEMMA GetKeeps ==
    ASSUME IInv, NEW p \in Procs, NEW i \in 1 .. Slots, Get(p, i)
    PROVE  IInv'
  <1> DEFINE r == [proc[p] EXCEPT !.stage = "read", !.call = "get", !.index = i,
                                  !.copy = Nil, !.held = 0, !.own = TRUE]
  <1>1. /\ TypeOK /\ Staged(p) /\ proc[p] \in Process /\ Idle(p)
        /\ proc' = [proc EXCEPT ![p] = r]
    BY Knows DEF Get, TypeOK
  <1>2. r \in Process
    <2>1. i \in 0 .. Slots /\ 0 \in 0 .. Slots
      BY Numbers
    <2>2. [proc[p] EXCEPT !.stage = "read"] \in Process
      BY <1>1, ProcessSet
    <2>3. [proc[p] EXCEPT !.stage = "read", !.call = "get"] \in Process
      BY <2>2, ProcessSet
    <2>4. [proc[p] EXCEPT !.stage = "read", !.call = "get", !.index = i] \in Process
      BY <2>1, <2>3, ProcessSet
    <2>5. [proc[p] EXCEPT !.stage = "read", !.call = "get", !.index = i, !.copy = Nil] \in Process
      BY <2>4, ProcessSet
    <2>6. [proc[p] EXCEPT !.stage = "read", !.call = "get", !.index = i,
                          !.copy = Nil, !.held = 0] \in Process
      BY <2>1, <2>5, ProcessSet
    <2> QED
      BY <2>6, ProcessSet
  <1>3. /\ r.stage = "read" /\ r.call = "get" /\ r.want = proc[p].want /\ r.index = i
        /\ r.copy = Nil /\ r.handler = proc[p].handler
    BY <1>1 DEF Process
  <1> HIDE DEF r
  <1>4. r.want = 0
    BY <1>1, <1>3 DEF Staged
  <1>5. TypeOK'
    <2>1. overlap' \subseteq Areas
      BY <1>1 DEF Get, TypeOK
    <2> QED
      BY <1>1, <1>2, <2>1, CalledType, QuietType DEF Get
  <1>6. Moves(p) /\ proc'[p] = r
    BY <1>1, <1>4, QuietMoves DEF Get
  <1>7. Staged(p)' /\ Seen(p)' /\ Searching(p)' /\ Copied(p)' /\ Holding(p)'
    <2>1. i # 0
      OBVIOUS
    <2> QED
      BY <1>1, <1>3, <1>4, <1>6, <2>1
      DEF Staged, Idle, Seen, Searching, Copied, Holding
  <1> QED
    BY <1>5, <1>6, <1>7, StepIInv

\* A record is read.
LEMMA ReadKeeps ==
    ASSUME IInv, NEW p \in Procs, Read(p)
    PROVE  IInv'
  <1> DEFINE i == proc[p].index
             room == rooms[i]
             r == [proc[p] EXCEPT !.stage = "build", !.seen = room]
  <1>1. /\ TypeOK /\ Copied(p) /\ Staged(p) /\ Searching(p) /\ proc[p] \in Process
        /\ proc[p].stage = "read"
        /\ proc' = [proc EXCEPT ![p] = r]
    BY Knows DEF Read, TypeOK
  <1>2. i \in 1 .. Slots /\ room \in Room /\ room # Nil
    <2>1. i \in 1 .. Slots
      BY <1>1, CopyType, Numbers DEF Staged, Idle
    <2> QED
      BY <1>1, <2>1, NilApart DEF TypeOK
  <1>3. r \in Process
    <2>1. [proc[p] EXCEPT !.stage = "build"] \in Process
      BY <1>1, ProcessSet
    <2> QED
      BY <1>2, <2>1, ProcessSet
  <1>4. /\ r.stage = "build" /\ r.call = proc[p].call /\ r.want = proc[p].want
        /\ r.index = i /\ r.seen = room
        /\ SameCopy(proc[p], r) /\ SameHandler(proc[p], r)
    BY <1>1 DEF Process, SameCopy, SameHandler
  <1>5. TypeOK'
    <2>1. overlap' \subseteq Areas /\ calls' \in 0 .. MaxCalls
      BY <1>1 DEF Read, TypeOK
    <2> QED
      BY <1>1, <1>3, <2>1, QuietType DEF Read
  <1> HIDE DEF r
  <1>6. Moves(p) /\ proc'[p] = r
    BY <1>1, <1>4, QuietMoves DEF Read
  <1>7. Staged(p)'
    BY <1>1, <1>2, <1>4, <1>6 DEF Staged, Idle, SameCopy, SameHandler
  <1>8. Seen(p)'
    <2>1. room.rev \in Int
      BY <1>2 DEF Room
    <2>2. CASE i \notin crossed
      <3>1. proc[p].copy # Nil /\ proc[p].held = i => proc[p].copy.rev <= room.rev
        BY <1>1, <2>2 DEF Copied, Was
      <3> QED
        BY <1>4, <1>6, <2>1, <3>1 DEF Seen, Was, SameCopy, Read
    <2>3. CASE i \in crossed
      BY <1>4, <1>6, <2>3 DEF Seen, Read
    <2> QED
      BY <2>2, <2>3
  <1>9. Searching(p)'
    <2>1. /\ proc'[p].want = proc[p].want /\ proc'[p].call = proc[p].call
          /\ proc'[p].index = i /\ proc'[p].seen = rooms[i]
          /\ UNCHANGED <<rooms, crossed, overlap>>
      BY <1>4, <1>6 DEF Read
    <2>2. \A q \in Procs \ {p} : proc'[q] = proc[q]
      BY <1>6 DEF Moves
    <2> QED
      BY <1>1, <2>1, <2>2 DEF Searching
  <1>10. Copied(p)' /\ Holding(p)'
    BY <1>4, <1>5, <1>6, CopiedStays, HoldingStays DEF Moves
  <1> QED
    BY <1>5, <1>6, <1>7, <1>8, <1>9, <1>10, StepIInv

\* A lock that is refused ends the call.
LEMMA RefusedKeeps ==
    ASSUME IInv, NEW p \in Procs, Refused(p)
    PROVE  IInv'
  <1> DEFINE r == Ended(proc[p])
  <1>1. TypeOK /\ proc[p] \in Process /\ proc' = [proc EXCEPT ![p] = r]
    BY Knows DEF Refused
  <1>2. /\ r \in Process /\ AtRest(r)
        /\ SameCopy(proc[p], r) /\ SameHandler(proc[p], r)
    BY <1>1, EndedFields DEF AtRest, SameCopy, SameHandler
  <1> HIDE DEF r
  <1>3. TypeOK'
    <2>1. overlap' \subseteq Areas /\ calls' \in 0 .. MaxCalls
      BY <1>1 DEF Refused, TypeOK
    <2> QED
      BY <1>1, <1>2, <2>1, QuietType DEF Refused
  <1>4. Moves(p) /\ proc'[p] = r
    BY <1>1, <1>2, QuietMoves DEF Refused, AtRest
  <1> QED
    BY <1>2, <1>3, <1>4, EndKeeps

\* An object that is closed takes nothing with it.
LEMMA LeaveKeeps ==
    ASSUME IInv, NEW p \in Procs, Leave(p)
    PROVE  IInv'
  <1>1. TypeOK /\ proc' = [proc EXCEPT ![p] = Out]
    BY DEF IInv, Leave
  <1>2. TypeOK'
    <2>1. overlap' \subseteq Areas /\ calls' \in 0 .. MaxCalls
      BY <1>1 DEF Leave, TypeOK
    <2> QED
      BY <1>1, <2>1, OutType, QuietType DEF Leave
  <1>3. Moves(p) /\ proc'[p] = Out
    BY <1>1, OutType, QuietMoves DEF Leave
  <1> QED
    BY <1>2, <1>3, OutKeeps

\* A step that attaches a base keeps its type.
LEMMA AttachType ==
    ASSUME TypeOK, NEW p \in Procs, NEW r \in Process, NEW room \in Room,
           Attach(room), proc' = [proc EXCEPT ![p] = r],
           rooms' \in [1 .. Slots -> Room], crossed' \subseteq 1 .. Slots,
           UNCHANGED <<calls, overlap, estray>>
    PROVE  TypeOK'
  <1>1. proc' \in [Procs -> Process]
    BY DEF TypeOK
  <1>2. /\ base' \in [Conferences -> Nat] /\ made' \in [Conferences -> Nat]
        /\ \A c \in Conferences : base'[c] <= made'[c]
    BY AttachKeeps
  <1> QED
    BY <1>1, <1>2 DEF TypeOK

\* What a process is when the room that it has read is attached.
Built(p) == [proc[p] EXCEPT !.handler = Reattached(p, proc[p].seen), !.built = proc[p].index]

\* The room has been built, with its handler, and the call goes on.
LEMMA BuildKeeps ==
    ASSUME IInv, NEW p \in Procs, Build(p)
    PROVE  IInv'
  <1> DEFINE i == proc[p].index
             room == proc[p].seen
  <1>1. /\ TypeOK /\ Copied(p) /\ Staged(p) /\ Seen(p) /\ Searching(p) /\ Holding(p)
        /\ proc[p] \in Process /\ proc[p].stage = "build"
    BY Knows DEF Build
  <1>2. i \in 1 .. Slots /\ room \in Room /\ proc[p].call # "none"
    BY <1>1, CopyType, Numbers DEF Staged, Idle
  <1>3. CASE proc[p].handler = Broken
    <2> DEFINE r == Ended(proc[p])
    <2>1. proc' = [proc EXCEPT ![p] = r] /\ UNCHANGED <<base, made>>
      BY <1>3 DEF Build
    <2>2. /\ r \in Process /\ AtRest(r)
          /\ SameCopy(proc[p], r) /\ SameHandler(proc[p], r)
      BY <1>1, EndedFields DEF AtRest, SameCopy, SameHandler
    <2> HIDE DEF r
    <2>3. TypeOK'
      <3>1. overlap' \subseteq Areas /\ calls' \in 0 .. MaxCalls
        BY <1>1 DEF Build, TypeOK
      <3> QED
        BY <1>1, <2>1, <2>2, <3>1, QuietType DEF Build
    <2>4. Moves(p) /\ proc'[p] = r
      BY <1>1, <2>1, <2>2, QuietMoves DEF Build, AtRest
    <2> QED
      BY <2>2, <2>3, <2>4, EndKeeps
  <1>4. CASE proc[p].handler # Broken
    <2> DEFINE h == Reattached(p, room)
               n == Built(p)
               s == Onward(n)
    <2>1. Attach(room) /\ proc' = [proc EXCEPT ![p] = s]
      BY <1>4 DEF Build, Built
    <2>2. /\ h \in Handler
          /\ h \notin {None, Broken} =>
                HasBase(room) /\ h.conf = room.conf /\ h.made = base'[room.conf] /\ h.made # 0
      BY <1>1, <1>2, <2>1, ReattachedFields
    <2>3. /\ n \in Process
          /\ n.handler = h /\ n.built = i /\ n.own = proc[p].own /\ SameCopy(proc[p], n)
          /\ n.stage = "build" /\ n.call = proc[p].call /\ n.want = proc[p].want
          /\ n.index = i /\ n.seen = room
      <3> HIDE DEF h
      <3>1. [proc[p] EXCEPT !.handler = h] \in Process
        BY <1>1, <2>2, ProcessSet
      <3>2. i \in 0 .. Slots
        BY <1>2
      <3>3. n = [proc[p] EXCEPT !.handler = h, !.built = i]
        BY DEF Built, h
      <3>4. n \in Process
        BY <3>1, <3>2, <3>3, ProcessSet
      <3> QED
        BY <1>1, <3>3, <3>4 DEF Process, SameCopy
    <2>4. s \in Process /\ Goes(n, s)
      <3> HIDE DEF n
      <3>1. i # 0
        BY <1>2
      <3> QED
        BY <1>2, <2>3, <3>1, OnwardGoes
    <2> HIDE DEF h, n, s
    <2>5. TypeOK'
      <3>1. rooms' \in [1 .. Slots -> Room] /\ crossed' \subseteq 1 .. Slots
        BY <1>1 DEF Build, TypeOK
      <3> QED
        BY <1>1, <1>2, <2>1, <2>4, <3>1, AttachType DEF Build
    <2>6. Moves(p) /\ proc'[p] = s
      <3>1. s.want \in {0, proc[p].want}
        BY <2>3, <2>4 DEF Goes, AtRest
      <3>2. \A c \in Conferences : base'[c] = base[c] \/ base[c] = 0
        BY <1>1, <1>2, <2>1, AttachKeeps
      <3> QED
        BY <1>1, <2>1, <3>1, <3>2, QuietMoves DEF Build
    <2>7. s.handler = h /\ s.built = i /\ s.own = proc[p].own
      BY <2>3, <2>4 DEF Goes, SameHandler
    <2>8. UNCHANGED <<rooms, calls, crossed, overlap, estray>>
      BY DEF Build
    <2>9. Forward
      BY <2>6 DEF Moves
    <2>10. CASE AtRest(s) /\ s.copy = room /\ s.held = i
      <3>1. Seen(p)' /\ Searching(p)'
        BY <2>6, <2>10, RestKnows
      <3>2. Staged(p)'
        <4>1. i # 0
          BY <1>2
        <4> QED
          BY <2>2, <2>6, <2>7, <2>10, <4>1 DEF Staged, Idle, AtRest
      <3>3. Copied(p)'
        BY <1>1, <2>6, <2>8, <2>10 DEF Copied, Seen, Was
      <3>4. Holding(p)'
        BY <2>2, <2>6, <2>7, <2>10 DEF Holding
      <3> QED
        BY <2>5, <2>6, <3>1, <3>2, <3>3, <3>4, StepIInv
    <2>11. CASE SameCopy(proc[p], s)
      <3>1. Copied(p)'
        BY <2>5, <2>6, <2>9, <2>11, CopiedStays
      <3>2. Holding(p)'
        <4>1. CASE /\ s.copy # Nil /\ s.held = i /\ h \notin {None, Broken} /\ i \notin crossed
          <5> DEFINE copy == proc[p].copy
          <5>1. s.copy = copy /\ proc[p].held = i /\ copy # Nil
            BY <2>11, <4>1 DEF SameCopy
          <5>2. Was(copy, i) /\ Was(room, i) /\ copy.rev <= room.rev
            BY <1>1, <4>1, <5>1 DEF Copied, Seen
          <5>3. copy.rev \in Int /\ room.rev \in Int /\ rooms[i].rev \in Int
            BY <1>1, <1>2, <5>1, CopyType DEF TypeOK, Room
          <5>4. copy.rev < rooms[i].rev \/ copy = room
            BY <5>2, <5>3 DEF Was
          <5> QED
            BY <2>2, <2>6, <2>7, <2>8, <4>1, <5>1, <5>4 DEF Holding
        <4>2. CASE ~ (/\ s.copy # Nil /\ s.held = i
                      /\ h \notin {None, Broken} /\ i \notin crossed)
          BY <2>6, <2>7, <2>8, <4>2 DEF Holding
        <4> QED
          BY <4>1, <4>2
      <3>3. CASE AtRest(s)
        <4>1. Seen(p)' /\ Searching(p)'
          BY <2>6, <3>3, RestKnows
        <4>2. Staged(p)'
          BY <1>1, <2>2, <2>6, <2>7, <2>11, <3>3 DEF Staged, Idle, AtRest, SameCopy
        <4> QED
          BY <2>5, <2>6, <3>1, <3>2, <4>1, <4>2, StepIInv
      <3>4. CASE /\ s.stage = "write" /\ proc[p].call = "add" /\ Empty(room)
                 /\ s.call = "add" /\ s.want = proc[p].want /\ s.index = i /\ s.seen = room
        <4>1. Seen(p)'
          BY <1>1, <2>5, <2>6, <2>9, <2>11, <3>4, SeenStays
        <4>2. Searching(p)'
          <5>1. \A q \in Procs \ {p} : proc'[q] = proc[q]
            BY <2>6 DEF Moves
          <5> QED
            BY <1>1, <2>6, <2>8, <3>4, <5>1 DEF Searching
        <4>3. Staged(p)'
          BY <1>1, <2>2, <2>6, <2>7, <2>11, <3>4 DEF Staged, Idle, SameCopy
        <4> QED
          BY <2>5, <2>6, <3>1, <3>2, <4>1, <4>2, <4>3, StepIInv
      <3>5. CASE /\ s.stage = "read" /\ s.want = proc[p].want
                 /\ proc[p].call \in {"find", "add"}
                 /\ proc[p].call = "find" => ~ Found(room, proc[p].want)
                 /\ \/ s.call = proc[p].call /\ s.index = i + 1
                    \/ i = Slots /\ proc[p].call = "find" /\ s.call = "add" /\ s.index = 1
        <4>1. s.index # 0 /\ s.call \in {"find", "add"}
          BY <1>2, <3>5
        <4>2. Seen(p)'
          BY <2>6, <3>5 DEF Seen
        <4>3. Staged(p)'
          BY <1>1, <2>2, <2>6, <2>7, <2>11, <3>5, <4>1 DEF Staged, Idle, SameCopy
        <4>4. Searching(p)'
          <5> DEFINE c == proc[p].want
          <5>1. ASSUME c # 0, c \notin overlap
                PROVE  \A q \in Procs \ {p} : proc'[q].want # c
            BY <1>1, <2>6, <5>1 DEF Moves, Searching
          <5>2. ASSUME c # 0, c \notin overlap,
                       NEW j \in (1 .. Slots) \ crossed, rooms[j].conf = c
                PROVE  s.call = "find" /\ s.index <= j
            <6>1. /\ proc[p].call = "find" /\ i <= j
                  /\ i = j => room.conf = c
              BY <1>1, <5>2 DEF Searching
            <6>2. i # j
              BY <3>5, <6>1 DEF Found
            <6> QED
              BY <1>2, <3>5, <6>1, <6>2
          <5> QED
            BY <2>6, <2>8, <3>5, <5>1, <5>2 DEF Searching
        <4> QED
          BY <2>5, <2>6, <3>1, <3>2, <4>2, <4>3, <4>4, StepIInv
      <3> QED
        <4>1. \/ AtRest(s)
              \/ /\ s.stage = "write" /\ proc[p].call = "add" /\ Empty(room)
                 /\ s.call = "add" /\ s.want = proc[p].want /\ s.index = i /\ s.seen = room
              \/ /\ s.stage = "read" /\ s.want = proc[p].want
                 /\ proc[p].call \in {"find", "add"}
                 /\ proc[p].call = "find" => ~ Found(room, proc[p].want)
                 /\ \/ s.call = proc[p].call /\ s.index = i + 1
                    \/ i = Slots /\ proc[p].call = "find" /\ s.call = "add" /\ s.index = 1
          BY <2>3, <2>4 DEF Goes
        <4> QED
          BY <3>3, <3>4, <3>5, <4>1
    <2> QED
      BY <2>3, <2>4, <2>10, <2>11 DEF Goes, SameCopy
  <1> QED
    BY <1>3, <1>4

-----------------------------------------------------------------------------
(***************************************************************************)
(* Steps that write a record.                                              *)
(***************************************************************************)

\* A record of the file that is replaced.
LEMMA ReplacedType ==
    ASSUME TypeOK, NEW i \in 1 .. Slots, NEW room \in Room,
           rooms' = [rooms EXCEPT ![i] = room]
    PROVE  /\ rooms' \in [1 .. Slots -> Room] /\ rooms'[i] = room
           /\ \A k \in 1 .. Slots : k # i => rooms'[k] = rooms[k]
  BY DEF TypeOK

\* An add writes the record that it found empty, and attaches a base or dies.
LEMMA WriteKeeps ==
    ASSUME IInv, NEW p \in Procs, Write(p)
    PROVE  IInv'
  <1> DEFINE i == proc[p].index
             seen == proc[p].seen
             c == proc[p].want
  <1>1. /\ TypeOK /\ Copied(p) /\ Staged(p) /\ Seen(p) /\ Searching(p)
        /\ proc[p] \in Process /\ proc[p].stage = "write"
    BY Knows DEF Write
  <1>2. i \in 1 .. Slots /\ seen \in Room /\ proc[p].call = "add" /\ c \in Areas /\ c # 0
    BY <1>1, CopyType, Numbers DEF Staged, Idle, Process
  <1>3. PICK f \in AddFlags :
           LET room == [rev |-> seen.rev + 1, conf |-> c, flags |-> f]
           IN  /\ rooms' = [rooms EXCEPT ![i] = room]
               /\ \/ /\ Attach(room)
                     /\ proc' = [proc EXCEPT ![p] =
                            [Ended(@) EXCEPT !.handler = Reattached(p, room), !.built = i]]
                  \/ proc' = [proc EXCEPT ![p] = Out] /\ UNCHANGED <<base, made>>
    BY DEF Write
  <1> DEFINE room == [rev |-> seen.rev + 1, conf |-> c, flags |-> f]
  <1>4. room \in Room /\ room.rev = seen.rev + 1 /\ room.conf = c
    <2>1. f \in SUBSET Flags /\ f # {}
      BY RoomsAssumption DEF RoomsAssumption
    <2>2. seen.rev + 1 \in 1 .. MaxRev
      BY <1>2, Numbers DEF Room, Write
    <2>3. c \in Conferences \cup {0}
      BY <1>2, Numbers
    <2> QED
      BY <1>2, <2>1, <2>2, <2>3 DEF Room
  <1> HIDE DEF room
  <1>5. /\ rooms' \in [1 .. Slots -> Room] /\ rooms'[i] = room
        /\ \A k \in 1 .. Slots : k # i => rooms'[k] = rooms[k]
    BY <1>1, <1>2, <1>3, <1>4, ReplacedType DEF room
  <1>6. /\ crossed \subseteq crossed' /\ crossed' \subseteq 1 .. Slots
        /\ i \notin crossed' => rooms[i] = seen
    BY <1>1, <1>2 DEF Write, TypeOK
  <1>7. seen.rev < room.rev
    BY <1>2, <1>4 DEF Room
  <1>8. Forward /\ Comes(p)
    BY <1>2, <1>4, <1>5, <1>6, <1>7 DEF Forward, Comes
  <1>9. ASSUME NEW r, proc' = [proc EXCEPT ![p] = r], r.want = 0,
               \A d \in Conferences : base'[d] = base[d] \/ base[d] = 0
        PROVE  Moves(p) /\ proc'[p] = r
    <2>1. proc'[p] = r /\ \A q \in Procs \ {p} : proc'[q] = proc[q]
      BY <1>1, <1>9 DEF TypeOK
    <2>2. Looks(p)
      BY <1>9, <2>1 DEF Looks
    <2>3. Stays
      BY <1>9 DEF Stays
    <2> QED
      BY <1>8, <2>1, <2>2, <2>3 DEF Moves, Write
  <1>10. CASE proc' = [proc EXCEPT ![p] = Out] /\ UNCHANGED <<base, made>>
    <2>1. TypeOK'
      <3>1. proc' \in [Procs -> Process]
        BY <1>1, <1>10, OutType DEF TypeOK
      <3> QED
        BY <1>1, <1>5, <1>6, <1>10, <3>1 DEF TypeOK, Write
    <2>2. Moves(p) /\ proc'[p] = Out
      BY <1>9, <1>10, OutType
    <2> QED
      BY <2>1, <2>2, OutKeeps
  <1>11. CASE /\ Attach(room)
              /\ proc' = [proc EXCEPT ![p] =
                     [Ended(@) EXCEPT !.handler = Reattached(p, room), !.built = i]]
    <2> DEFINE h == Reattached(p, room)
               e == Ended(proc[p])
               r == [e EXCEPT !.handler = h, !.built = i]
    <2>1. proc' = [proc EXCEPT ![p] = r]
      BY <1>11
    <2>2. h \in Handler /\ (h \notin {None, Broken} => h.made # 0)
      BY <1>1, <1>4, <1>11, ReattachedFields
    <2>3. e \in Process /\ AtRest(e) /\ SameCopy(proc[p], e)
      BY <1>1, EndedFields DEF AtRest, SameCopy
    <2> HIDE DEF h, e
    <2>4. r \in Process
      <3>1. [e EXCEPT !.handler = h] \in Process
        BY <2>2, <2>3, ProcessSet
      <3>2. i \in 0 .. Slots
        BY <1>2
      <3> QED
        BY <3>1, <3>2, ProcessSet
    <2>5. /\ AtRest(r) /\ r.handler = h /\ r.built = i /\ SameCopy(proc[p], r)
      BY <2>3 DEF Process, AtRest, SameCopy
    <2> HIDE DEF r
    <2>6. TypeOK'
      BY <1>1, <1>4, <1>5, <1>6, <1>11, <2>1, <2>4, AttachType DEF Write
    <2>7. Moves(p) /\ proc'[p] = r
      <3>1. \A d \in Conferences : base'[d] = base[d] \/ base[d] = 0
        BY <1>1, <1>4, <1>11, AttachKeeps
      <3> QED
        BY <1>9, <2>1, <2>5, <3>1 DEF AtRest
    <2>8. Seen(p)' /\ Searching(p)' /\ Copied(p)'
      BY <1>8, <2>5, <2>6, <2>7, RestKnows, CopiedStays
    <2>9. Staged(p)'
      BY <1>1, <2>2, <2>5, <2>7 DEF Staged, Idle, AtRest, SameCopy
    <2>10. Holding(p)'
      <3>1. CASE r.copy # Nil /\ r.held = i /\ i \notin crossed'
        <4> DEFINE copy == proc[p].copy
        <4>1. copy # Nil /\ proc[p].held = i /\ r.copy = copy /\ i \notin crossed
          BY <1>6, <2>5, <3>1 DEF SameCopy
        <4>2. copy.rev <= rooms[i].rev /\ rooms[i] = seen
          BY <1>1, <1>6, <3>1, <4>1 DEF Copied, Was
        <4>3. copy.rev \in Int /\ seen.rev \in Int /\ room.rev \in Int
          BY <1>1, <1>2, <1>4, <4>1, CopyType DEF Room
        <4>4. copy.rev < rooms'[i].rev
          BY <1>5, <1>7, <4>2, <4>3
        <4> QED
          BY <2>7, <3>1, <4>1, <4>4 DEF Holding
      <3>2. CASE ~ (r.copy # Nil /\ r.held = i /\ i \notin crossed')
        BY <2>5, <2>7, <3>2 DEF Holding
      <3> QED
        BY <3>1, <3>2
    <2> QED
      BY <2>6, <2>7, <2>8, <2>9, <2>10, StepIInv
  <1> QED
    BY <1>3, <1>10, <1>11 DEF room

\* What a put stores is a room, at the next revision, of the same conference
\* when the copy is sound.
LEMMA StoredFields ==
    ASSUME NEW ondisk \in Room, NEW copy \in Room, NEW f \in PutFlags \cup {copy.flags},
           f \ {"RM_INUSE"} \subseteq copy.flags, ondisk.rev < MaxRev
    PROVE  LET new == [copy EXCEPT !.flags = f]
           IN  /\ Stored(ondisk, new) \in Room
               /\ Stored(ondisk, new).rev = ondisk.rev + 1
               /\ ondisk.rev > copy.rev => Stored(ondisk, new).conf = ondisk.conf
               /\ ~ (ondisk.rev > copy.rev) => Stored(ondisk, new).conf = copy.conf
  <1> DEFINE new == [copy EXCEPT !.flags = f]
  <1>1. /\ new \in [rev : 1 .. MaxRev, conf : Conferences \cup {0}, flags : SUBSET Flags]
        /\ new.rev = copy.rev /\ new.conf = copy.conf /\ new.flags = f
    BY RoomsAssumption DEF RoomsAssumption, Room
  <1>2. new \in Room
    <2>1. f = {} => copy.flags = {}
      BY RoomsAssumption DEF RoomsAssumption
    <2>2. "RM_MESSAGES" \in f => "RM_MESSAGES" \in copy.flags
      OBVIOUS
    <2> HIDE DEF new
    <2> QED
      BY <1>1, <2>1, <2>2 DEF Room
  <1>3. ondisk.rev + 1 \in 1 .. MaxRev
    BY Numbers DEF Room
  <1> DEFINE later(room) == [room EXCEPT !.rev = ondisk.rev + 1]
  <1>4. ASSUME NEW room \in Room
        PROVE  later(room) \in Room /\ later(room).rev = ondisk.rev + 1
                 /\ later(room).conf = room.conf
    BY <1>3 DEF Room
  <1>5. Stored(ondisk, new) = IF ondisk.rev > copy.rev THEN later(ondisk) ELSE later(new)
    BY <1>1 DEF Stored
  <1> HIDE DEF new, later
  <1> QED
    BY <1>1, <1>2, <1>4, <1>5 DEF new

\* A copy is put over the record that it came from.
LEMMA PutKeeps ==
    ASSUME IInv, NEW p \in Procs, Put(p)
    PROVE  IInv'
  <1> DEFINE i == proc[p].held
             copy == proc[p].copy
             own == proc[p].own /\ rooms[i].rev <= copy.rev
  <1>1. /\ TypeOK /\ Copied(p) /\ Staged(p) /\ Holding(p) /\ proc[p] \in Process
        /\ Idle(p) /\ copy # Nil
    BY Knows DEF Put
  <1>2. AtRest(proc[p])
    BY <1>1 DEF Staged, Idle, AtRest, Process
  <1>3. i \in 1 .. Slots /\ copy \in Room /\ rooms[i] \in Room /\ rooms[i].rev < MaxRev
    <2>1. i \in 1 .. Slots
      BY <1>1, CopyType, Numbers DEF Staged
    <2> QED
      BY <1>1, <2>1, CopyType DEF TypeOK, Put
  <1>4. PICK f \in PutFlags \cup {copy.flags} :
           /\ f \ {"RM_INUSE"} \subseteq copy.flags
           /\ LET stored == Stored(rooms[i], [copy EXCEPT !.flags = f])
              IN  /\ rooms' = [rooms EXCEPT ![i] = stored]
                  /\ proc' = [proc EXCEPT ![p].copy = stored,
                                 ![p].own = @ /\ rooms[i].rev <= copy.rev]
    BY DEF Put
  <1> DEFINE stored == Stored(rooms[i], [copy EXCEPT !.flags = f])
             r == [proc[p] EXCEPT !.copy = stored, !.own = own]
  <1>5. /\ stored \in Room /\ stored.rev = rooms[i].rev + 1
        /\ rooms[i].rev > copy.rev => stored.conf = rooms[i].conf
        /\ ~ (rooms[i].rev > copy.rev) => stored.conf = copy.conf
    BY <1>3, <1>4, StoredFields
  <1> HIDE DEF stored
  <1>6. rooms' = [rooms EXCEPT ![i] = stored]
    BY <1>4 DEF stored
  <1>7. proc' = [proc EXCEPT ![p] = r]
    BY <1>1, <1>4 DEF stored, TypeOK
  <1>8. own \in BOOLEAN
    OBVIOUS
  <1>9. own => proc[p].own /\ rooms[i].rev <= copy.rev
    OBVIOUS
  <1> HIDE DEF own
  <1>10. r \in Process
    <2>1. [proc[p] EXCEPT !.copy = stored] \in Process
      BY <1>1, <1>5, ProcessSet
    <2> QED
      BY <1>8, <2>1, ProcessSet
  <1>11. /\ AtRest(r) /\ r.copy = stored /\ r.held = i /\ r.own = own
         /\ r.handler = proc[p].handler /\ r.built = proc[p].built
    BY <1>1, <1>2 DEF Process, AtRest
  <1> HIDE DEF r
  <1>12. /\ rooms' \in [1 .. Slots -> Room] /\ rooms'[i] = stored
         /\ \A k \in 1 .. Slots : k # i => rooms'[k] = rooms[k]
    BY <1>1, <1>3, <1>5, <1>6, ReplacedType
  <1>13. UNCHANGED <<base, made, crossed, overlap, estray>> /\ calls' \in 0 .. MaxCalls
    BY <1>1, CalledType DEF Put
  <1>14. TypeOK'
    <2>1. proc' \in [Procs -> Process]
      BY <1>1, <1>7, <1>10 DEF TypeOK
    <2> QED
      BY <1>1, <1>12, <1>13, <2>1 DEF TypeOK
  <1>15. proc'[p] = r /\ \A q \in Procs \ {p} : proc'[q] = proc[q]
    BY <1>1, <1>7 DEF TypeOK
  <1>16. ASSUME i \notin crossed
         PROVE  /\ stored.conf = rooms[i].conf
                /\ own => copy = rooms[i]
    <2>1. copy.rev \in Int /\ rooms[i].rev \in Int
      BY <1>3 DEF Room
    <2> QED
      BY <1>1, <1>5, <1>9, <1>16, <2>1 DEF Copied, Was
  <1>17. Moves(p)
    <2>1. rooms[i].rev < stored.rev
      BY <1>3, <1>5 DEF Room
    <2>2. Forward /\ Comes(p)
      BY <1>12, <1>13, <1>16, <2>1 DEF Forward, Comes
    <2>3. Looks(p) /\ Stays
      BY <1>11, <1>13, <1>15 DEF Looks, AtRest, Stays
    <2> QED
      BY <1>13, <1>15, <2>2, <2>3 DEF Moves
  <1>18. Staged(p)'
    BY <1>1, <1>3, <1>11, <1>15, Numbers DEF Staged, Idle, AtRest
  <1>19. Copied(p)'
    BY <1>5, <1>11, <1>12, <1>15 DEF Copied, Was, Room
  <1>20. Seen(p)' /\ Searching(p)'
    BY <1>11, <1>15, RestKnows
  <1>21. Holding(p)'
    <2>1. CASE /\ own /\ proc[p].built = i
               /\ proc[p].handler \notin {None, Broken} /\ i \notin crossed
      <3>1. copy = rooms[i] /\ proc[p].own /\ stored.conf = copy.conf
        BY <1>9, <1>16, <2>1
      <3>2. ~ (copy.rev < rooms[i].rev)
        BY <1>3, <3>1 DEF Room
      <3>3. /\ proc[p].handler.conf = copy.conf
            /\ copy.conf \in estray \/ proc[p].handler.made = base[copy.conf]
        BY <1>1, <2>1, <3>1, <3>2 DEF Holding
      <3> QED
        BY <1>11, <1>13, <1>15, <3>1, <3>3 DEF Holding
    <2>2. CASE ~ (/\ own /\ proc[p].built = i
                  /\ proc[p].handler \notin {None, Broken} /\ i \notin crossed)
      BY <1>11, <1>13, <1>15, <2>2 DEF Holding
    <2> QED
      BY <2>1, <2>2
  <1> QED
    BY <1>14, <1>17, <1>18, <1>19, <1>20, <1>21, StepIInv

\* A room is deleted, and with it the base of the handler.
LEMMA DelKeeps ==
    ASSUME IInv, NEW p \in Procs, Del(p)
    PROVE  IInv'
  <1> DEFINE i == proc[p].held
             h == proc[p].handler
             wiped == Wiped(rooms[i])
  <1>1. /\ TypeOK /\ Staged(p) /\ proc[p] \in Process /\ Idle(p) /\ proc[p].copy # Nil
    BY Knows DEF Del
  <1>2. AtRest(proc[p])
    BY <1>1 DEF Staged, Idle, AtRest, Process
  <1>3. i \in 1 .. Slots /\ rooms[i] \in Room /\ rooms[i].rev < MaxRev
    <2>1. i \in 1 .. Slots
      BY <1>1, CopyType, Numbers DEF Staged
    <2> QED
      BY <1>1, <2>1 DEF TypeOK, Del
  <1>4. wiped \in Room /\ rooms[i].rev < wiped.rev /\ wiped.conf = 0
    BY <1>3, Numbers DEF Wiped, Room
  <1> HIDE DEF wiped
  <1>5. /\ rooms' \in [1 .. Slots -> Room] /\ rooms'[i] = wiped
        /\ \A k \in 1 .. Slots : k # i => rooms'[k] = rooms[k]
    <2>1. rooms' = [rooms EXCEPT ![i] = wiped]
      BY DEF Del, wiped
    <2> QED
      BY <1>1, <1>3, <1>4, <2>1, ReplacedType
  <1>6. UNCHANGED <<made, crossed, overlap>> /\ calls' \in 0 .. MaxCalls
    BY <1>1, CalledType DEF Del
  <1>7. Forward /\ Comes(p)
    BY <1>4, <1>5, <1>6 DEF Forward, Comes
  <1>8. ASSUME NEW r \in Process, proc' = [proc EXCEPT ![p] = r], r.want = 0,
               base' \in [Conferences -> Nat],
               \A c \in Conferences : base'[c] \in {0, base[c]},
               Stays, estray \subseteq estray', estray' \subseteq Conferences
        PROVE  TypeOK' /\ Moves(p) /\ proc'[p] = r
    <2>1. /\ proc' \in [Procs -> Process]
          /\ proc'[p] = r /\ \A q \in Procs \ {p} : proc'[q] = proc[q]
      BY <1>1, <1>8 DEF TypeOK
    <2>2. ASSUME NEW c \in Conferences PROVE base'[c] <= made[c]
      <3>1. base[c] <= made[c] /\ made[c] \in Nat
        BY <1>1 DEF TypeOK
      <3>2. base'[c] = 0 \/ base'[c] = base[c]
        BY <1>8
      <3> QED
        BY <3>1, <3>2
    <2>3. TypeOK'
      BY <1>1, <1>5, <1>6, <1>8, <2>1, <2>2 DEF TypeOK
    <2>4. Looks(p)
      BY <1>8, <2>1 DEF Looks
    <2> QED
      BY <1>6, <1>7, <1>8, <2>1, <2>3, <2>4 DEF Moves
  <1>9. CASE proc' = [proc EXCEPT ![p] = Out] /\ UNCHANGED <<base, estray>>
    <2>1. Stays
      BY <1>9 DEF Stays
    <2>2. TypeOK' /\ Moves(p) /\ proc'[p] = Out
      <3>1. /\ base' \in [Conferences -> Nat] /\ estray' \subseteq Conferences
            /\ \A c \in Conferences : base'[c] \in {0, base[c]}
        BY <1>1, <1>9 DEF TypeOK
      <3> QED
        BY <1>8, <1>9, <2>1, <3>1, OutType
    <2> QED
      BY <2>2, OutKeeps
  <1>10. CASE RemoveBase(p, h)
    <2> DEFINE bare == [proc[p] EXCEPT !.copy = Nil, !.held = 0]
               r(n) == [bare EXCEPT !.handler = n]
    <2>1. /\ bare \in Process /\ AtRest(bare) /\ bare.copy = Nil /\ bare.handler = h
      <3>1. [proc[p] EXCEPT !.copy = Nil] \in Process
        BY <1>1, ProcessSet
      <3>2. bare \in Process
        BY <3>1, Numbers, ProcessSet
      <3> QED
        BY <1>1, <1>2, <3>2 DEF Process, AtRest
    <2>2. \/ proc' = [proc EXCEPT ![p] = bare]
          \/ proc' = [proc EXCEPT ![p] = r(None)]
          \/ proc' = [proc EXCEPT ![p] = r(Broken)]
          \/ proc' = [proc EXCEPT ![p] = Out]
      <3>1. proc \in [Procs -> Process]
        BY <1>1 DEF TypeOK
      <3>2. \A n : [proc EXCEPT ![p].copy = Nil, ![p].held = 0, ![p].handler = n]
                  = [proc EXCEPT ![p] = r(n)]
        BY <3>1
      <3>3. [proc EXCEPT ![p].copy = Nil, ![p].held = 0] = [proc EXCEPT ![p] = bare]
        BY <3>1
      <3> HIDE DEF r, bare
      <3> QED
        BY <1>10, <3>2, <3>3 DEF RemoveBase
    <2> HIDE DEF bare
    <2>3. ASSUME NEW n \in {None, Broken}
          PROVE  /\ r(n) \in Process /\ AtRest(r(n)) /\ r(n).copy = Nil
                 /\ r(n).handler \in {None, Broken, h}
      <3>1. n \in Handler
        BY DEF Handler
      <3>2. r(n) \in Process
        BY <2>1, <3>1, ProcessSet
      <3> QED
        BY <2>1, <3>2 DEF Process, AtRest
    <2>4. PICK s \in Process :
             /\ proc' = [proc EXCEPT ![p] = s] /\ AtRest(s) /\ s.copy = Nil
             /\ s.handler \in {None, Broken, h}
      <3>1. Out \in Process /\ AtRest(Out) /\ Out.copy = Nil /\ Out.handler = None
        BY OutType DEF AtRest
      <3> HIDE DEF r
      <3> QED
        BY <2>1, <2>2, <2>3, <3>1
    <2>5. /\ base' \in [Conferences -> Nat]
          /\ \A c \in Conferences : base'[c] \in {0, base[c]}
          /\ estray \subseteq estray' /\ estray' \subseteq Conferences
          /\ Stays
      <3>1. CASE h \in {None, Broken}
        BY <1>1, <1>10, <3>1 DEF RemoveBase, TypeOK, Stays
      <3>2. CASE h \notin {None, Broken}
        <4>1. h.conf \in Conferences
          BY <1>1, <3>2 DEF Process, Handler
        <4>2. /\ base' = [base EXCEPT ![h.conf] = 0]
              /\ estray' = IF base[h.conf] # 0 /\ \E k \in 1 .. Slots : rooms'[k].conf = h.conf
                           THEN estray \cup {h.conf} ELSE estray
          BY <1>10, <3>2 DEF RemoveBase
        <4>3. base \in [Conferences -> Nat] /\ estray \subseteq Conferences
          BY <1>1 DEF TypeOK
        <4> HIDE DEF h
        <4>4. Stays
          BY <4>1, <4>2, <4>3 DEF Stays
        <4> QED
          BY <4>1, <4>2, <4>3, <4>4
      <3> QED
        BY <3>1, <3>2
    <2>6. TypeOK' /\ Moves(p) /\ proc'[p] = s
      BY <1>8, <2>4, <2>5 DEF AtRest
    <2>7. Staged(p)'
      BY <1>1, <2>4, <2>6 DEF Staged, Idle, AtRest
    <2>8. Copied(p)' /\ Seen(p)' /\ Searching(p)' /\ Holding(p)'
      BY <2>4, <2>6, RestKnows DEF Copied, Holding
    <2> QED
      BY <2>6, <2>7, <2>8, StepIInv
  <1> QED
    BY <1>9, <1>10 DEF Del

-----------------------------------------------------------------------------
(***************************************************************************)
(* The invariant.                                                          *)
(***************************************************************************)

\* It holds of the file that _msgs_init has written, with no process on it.
LEMMA InitIInv ==
    Init => IInv
  <1> SUFFICES ASSUME Init PROVE IInv
    OBVIOUS
  <1>1. ASSUME NEW p \in Procs PROVE proc[p] = Out
    BY <1>1 DEF Init
  <1>2. ASSUME NEW i \in 1 .. Slots
        PROVE  rooms[i] \in Room /\ (rooms[i].conf # 0 => i = 1)
    <2>1. 1 \in 1 .. MaxRev
      BY RoomsAssumption DEF RoomsAssumption
    <2>2. Lobby \in Conferences \cup {0} /\ Lobby # 0
      BY RoomsAssumption DEF RoomsAssumption, Conferences
    <2>3. [rev |-> 1, conf |-> Lobby, flags |-> Flags] \in Room
      BY <2>1, <2>2 DEF Room, Flags
    <2>4. [rev |-> 1, conf |-> 0, flags |-> {}] \in Room
      BY <2>1 DEF Room
    <2> QED
      BY <2>3, <2>4 DEF Init
  <1>3. TypeOK
    <2>1. rooms \in [1 .. Slots -> Room]
      BY <1>2 DEF Init
    <2>2. /\ base \in [Conferences -> Nat] /\ made \in [Conferences -> Nat]
          /\ \A c \in Conferences : base[c] <= made[c]
      BY DEF Init
    <2>3. proc \in [Procs -> Process]
      BY OutType DEF Init
    <2>4. calls \in 0 .. MaxCalls
      BY RoomsAssumption DEF RoomsAssumption, Init
    <2> QED
      BY <2>1, <2>2, <2>3, <2>4 DEF Init, TypeOK
  <1>4. CopySound
    BY <1>1, OutType DEF CopySound
  <1>5. OneConference
    BY <1>2 DEF OneConference
  <1>6. ASSUME NEW p \in Procs
        PROVE  Staged(p) /\ Seen(p) /\ Searching(p) /\ Holding(p)
    BY <1>1, OutType DEF Staged, Idle, Seen, Searching, Holding
  <1> QED
    BY <1>3, <1>4, <1>5, <1>6 DEF IInv

\* Every step keeps it.
LEMMA NextIInv ==
    IInv /\ [Next]_vars => IInv'
  <1> SUFFICES ASSUME IInv, [Next]_vars PROVE IInv'
    OBVIOUS
  <1>1. CASE UNCHANGED vars
    BY <1>1 DEF vars, IInv, TypeOK, CopySound, OneConference,
                Staged, Idle, Seen, Was, Searching, Holding
  <1>2. ASSUME NEW p \in Procs,
               \/ \E c \in Areas : Find(p, c)
               \/ \E i \in 1 .. Slots : Get(p, i)
               \/ Read(p) \/ Build(p) \/ Refused(p)
               \/ Write(p) \/ Put(p) \/ Del(p) \/ Leave(p)
        PROVE  IInv'
    <2>1. CASE \E c \in Areas : Find(p, c)
      BY <2>1, FindKeeps
    <2>2. CASE \E i \in 1 .. Slots : Get(p, i)
      BY <2>2, GetKeeps
    <2>3. CASE Read(p)
      BY <2>3, ReadKeeps
    <2>4. CASE Build(p)
      BY <2>4, BuildKeeps
    <2>5. CASE Refused(p)
      BY <2>5, RefusedKeeps
    <2>6. CASE Write(p)
      BY <2>6, WriteKeeps
    <2>7. CASE Put(p)
      BY <2>7, PutKeeps
    <2>8. CASE Del(p)
      BY <2>8, DelKeeps
    <2>9. CASE Leave(p)
      BY <2>9, LeaveKeeps
    <2> QED
      BY <1>2, <2>1, <2>2, <2>3, <2>4, <2>5, <2>6, <2>7, <2>8, <2>9
  <1> QED
    BY <1>1, <1>2 DEF Next

\* The inductive invariant holds in every state, for any number of processes,
\* records and areas: what a call has read is the record or its past, who looks
\* alone for a conference misses no room of it, and a handler has the files of
\* its room.
THEOREM RoomsInductive ==
    Spec => []IInv
  BY InitIInv, NextIInv, PTL DEF Spec

\* A copy says what is stored as long as its revision does, and is never ahead:
\* room_put may tell a stale copy by its revision.
THEOREM RoomsCopySound ==
    Spec => []CopySound
  <1>1. IInv => CopySound
    BY DEF IInv
  <1> QED
    BY <1>1, RoomsInductive, PTL

\* A conference has one room, but for searches at once and records written late.
THEOREM RoomsOneConference ==
    Spec => []OneConference
  <1>1. IInv => OneConference
    BY DEF IInv
  <1> QED
    BY <1>1, RoomsInductive, PTL

\* What is posted through the handler of a room goes to the files that everyone
\* reads, but for bases that a del took from a room that was still there.
THEOREM RoomsHandlerCurrent ==
    Spec => []HandlerCurrent
  <1>1. IInv => HandlerCurrent
    <2> SUFFICES ASSUME IInv, NEW p \in Procs,
                        proc[p].copy # Nil, proc[p].own,
                        proc[p].built = proc[p].held,
                        proc[p].handler \notin {None, Broken},
                        proc[p].held \notin crossed,
                        rooms[proc[p].held] = proc[p].copy,
                        proc[p].copy.conf \notin estray
                 PROVE  proc[p].handler =
                          [conf |-> proc[p].copy.conf, made |-> base[proc[p].copy.conf]]
      BY DEF HandlerCurrent
    <2>1. proc[p].handler \in [conf : Conferences, made : Nat]
      BY Knows DEF Process, Handler
    <2>2. proc[p].copy \in Room
      BY Knows, CopyType
    <2>3. ~ (proc[p].copy.rev < rooms[proc[p].held].rev)
      BY <2>2 DEF Room
    <2>4. /\ proc[p].handler.conf = proc[p].copy.conf
          /\ proc[p].handler.made = base[proc[p].copy.conf]
      BY <2>3, Knows DEF Holding
    <2> QED
      BY <2>1, <2>4
  <1> QED
    BY <1>1, RoomsInductive, PTL

\* Attaching a base takes none away.
LEMMA AttachTakesNone ==
    ASSUME TypeOK, NEW room, Attach(room), NEW c \in Conferences
    PROVE  base'[c] = base[c] \/ base[c] = 0
  <1>1. base \in [Conferences -> Nat]
    BY DEF TypeOK
  <1> QED
    BY <1>1 DEF Attach

\* A message base goes with the room that it belongs to, when the room that is
\* deleted is the one that was read last and nobody has changed it.
THEOREM RoomsRemoveTheirOwn ==
    Spec => RemovesOwn
  <1> DEFINE Own(p, c) ==
          LET i == proc[p].held IN
          /\ base[c] # 0 /\ base'[c] = 0
          /\ proc'[p] # proc[p] /\ proc[p].built = i
          /\ proc[p].own /\ proc[p].copy = rooms[i] /\ i \notin crossed
          => rooms[i].conf = c /\ rooms'[i].conf = 0
  <1>1. ASSUME IInv, Next, NEW p \in Procs, NEW c \in Conferences
        PROVE  Own(p, c)
    <2> SUFFICES ASSUME base[c] # 0, base'[c] = 0, proc'[p] # proc[p],
                        proc[p].built = proc[p].held, proc[p].own,
                        proc[p].copy = rooms[proc[p].held], proc[p].held \notin crossed
                 PROVE  rooms[proc[p].held].conf = c /\ rooms'[proc[p].held].conf = 0
      OBVIOUS
    <2> HIDE DEF Own
    <2> DEFINE i == proc[p].held
    <2>1. TypeOK
      BY <1>1 DEF IInv
    <2>2. PICK o \in Procs :
             \/ \E a \in Areas : Find(o, a)
             \/ \E k \in 1 .. Slots : Get(o, k)
             \/ Read(o) \/ Build(o) \/ Refused(o)
             \/ Write(o) \/ Put(o) \/ Del(o) \/ Leave(o)
      BY <1>1 DEF Next
    <2>3. ~ (base' = base)
      OBVIOUS
    <2>4. ~ (\E room : Attach(room))
      BY <2>1, AttachTakesNone
    <2>5. Del(o)
      <3>1. ~ (\E a \in Areas : Find(o, a)) /\ ~ (\E k \in 1 .. Slots : Get(o, k))
        BY <2>3 DEF Find, Get
      <3>2. ~ Read(o) /\ ~ Refused(o) /\ ~ Put(o) /\ ~ Leave(o)
        BY <2>3 DEF Read, Refused, Put, Leave
      <3>3. ~ Build(o)
        BY <2>3, <2>4 DEF Build
      <3>4. ~ Write(o)
        BY <2>3, <2>4 DEF Write
      <3> QED
        BY <2>2, <3>1, <3>2, <3>3, <3>4
    <2>6. RemoveBase(o, proc[o].handler)
      BY <2>3, <2>5 DEF Del
    <2>7. /\ proc[o].handler \notin {None, Broken}
          /\ base' = [base EXCEPT ![proc[o].handler.conf] = 0]
      BY <2>3, <2>6 DEF RemoveBase
    <2>8. o = p
      <3>1. proc \in [Procs -> Process]
        BY <2>1 DEF TypeOK
      <3>2. \A q \in Procs \ {o} : proc'[q] = proc[q]
        BY <2>6, <2>7, <3>1 DEF RemoveBase
      <3> QED
        BY <3>2
    <2>9. proc[p].handler.conf = c
      <3>1. base \in [Conferences -> Nat]
        BY <2>1 DEF TypeOK
      <3> QED
        BY <2>7, <2>8, <3>1
    <2>10. proc[p].copy # Nil /\ proc[p].copy \in Room
      BY <2>1, <2>5, <2>8, CopyType DEF Del
    <2>11. rooms[i].conf = c
      <3>1. ~ (proc[p].copy.rev < rooms[i].rev)
        BY <2>10 DEF Room
      <3>2. Holding(p)
        BY <1>1 DEF IInv
      <3> QED
        BY <2>7, <2>8, <2>9, <2>10, <3>1, <3>2 DEF Holding
    <2>12. rooms'[i].conf = 0
      <3>1. i \in 1 .. Slots
        BY <1>1, <2>1, <2>10, CopyType, Numbers DEF IInv, Staged
      <3> QED
        BY <2>1, <2>5, <2>8, <3>1 DEF Del, Wiped, TypeOK
    <2> QED
      BY <2>11, <2>12
  <1>2. IInv /\ [Next]_vars => [\A p \in Procs, c \in Conferences : Own(p, c)]_vars
    BY <1>1
  <1> QED
    BY <1>2, RoomsInductive, PTL DEF Spec, RemovesOwn
=============================================================================
