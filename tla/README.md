# Verification of fun-with-c

`fun-with-c` is a set of C libraries and, built on them, *xa-bbs*, a bulletin
board: one process per caller, and everything the callers share is in files
that the processes lock with `fcntl`. This directory models those shared files
and the process around them, the session with its event loop and its screen, in
TLA+, checks the models with TLC and proves theorems about them with TLAPS.

## 1. The system

| Component | State it keeps | Operations | How it interacts |
|---|---|---|---|
| Record store (`rms/rms.c`) | `<name>.dat`, fixed size records with a revision; `<name>.seq`, a counter; in memory `self->locked`, `self->record` | open, close, add, del, get, put, first/next/prev/last, find, search, extend, get_sequence | classes override add, del, put, normalize, build, extend and init |
| File locks (`rms/files.c`) | the kernel's lock table, a count of attempts | lock with retries, unlock, read, write, seek | under every store |
| Users, profiles (`bbs/src/user`) | records of 256 users, their profiles | the overrides | read at log in, put at log off |
| Nodes (`bbs/src/node`) | one record per line of the board | the overrides | a session puts its status there and polls it |
| Message base (`bbs/src/jam`) | four files: header and messages `.jhr`, texts `.jdt`, index `.jdx`, last-read `.jlr`; in memory `self->revision` | add, new, del, get, put, search of messages; add, del, get, put of last-read | one lock for all of it; a room has one base |
| Rooms (`bbs/src/room`) | records of rooms; in memory the handler (the message base) of one room | add, del, get, put, scan, handler | attaches and detaches a message base as it reads records |
| Doors (`bbs/src/door`) | records of doors, usage per user | put with a merge of its own | run by a session |
| Session (`bbs/src/main`) | `useron`, `qnode`, indexes | init, log off, status, menus | calls every store; its callbacks run in the event loop |
| Event loop (`events/event.c` on `gpl/nix`) | a queue of handlers and, in the select loop, lists of timers, inputs and workers; exit handlers; a self-pipe | register, loop, break, signal | runs the session |
| Workbench (`widgets/workbench.c`) | a stack of windows, the window with the focus, a queue of events | add, remove now or later, set menu, set focus, dispatch | its timer and its input are callbacks of the event loop; its windows call the stores |
| Objects, errors, tracer, logger, messages | per object | construction, recording of errors | everywhere |
| QWK packets, finds, utilities | files of one process, or none | formatting, compare callbacks, forms | callers of the stores |
| `cclibs`, `gpl`, `snippets`, `rms/btree.c` | third party | | |

What is hard in it, and hardly reached by the tests (which run one process):

* **Interleavings of processes.** A lock guards one record, one counter or one
  byte of a header, and what is guarded is often more than what is locked: an
  add scans under one lock and writes under another; an extension seeks before
  it locks; the creation of a store locks nothing.
* **Stale copies.** Callers keep a structure for minutes and put it back. The
  revision in a record, or `mod_counter` against `self->revision` in a message
  base, decides whether the copy or the disk wins.
* **Deaths.** A caller who hangs up kills a process between any two system
  calls. The kernel frees its locks, and what it had half written stays.
* **Error paths.** A call that fails after its lock must give it up; a lock that
  is contended is retried and then refused.
* **Callbacks.** A handler is called out of a list that it may change; an event is
  handled while more are in the queue; a window is destroyed later than it is
  asked for, or by somebody else; a signal comes at any moment.
* **Two files for one thing.** A room is a record and, by its conference, the files
  of a message base; an object has one handler, that of the room it read last.
* **Capacity.** Slots of a record file are found and used again, messages shrink
  and grow in place.

`PROJECT.json` lists these hazards by source line, with the property that
covers each or the reason why none does.

What makes each component correct: for a record store, that a read-modify-write
of a record is atomic, that no update is lost to a stale copy, that deleted
stays deleted and that numbers are unique; for a message base, that every index
record points to a complete message with the right number whoever dies, that
counts agree with what is there and that a last-read mark is taken back by its own session only; for
rooms, that a room has its own base, and what is posted or removed is in the base
of the room that was meant; for sessions, that counters lose nothing and the stores
say who is on; for the loop, that a handler is called when it should and never after
it is gone, and that the process ends in order; for the screen, that keys go to the
window on top and to none that is gone; for all, that locks are given back and that
every call returns.

## 2. The modules

    FileLock ──┬── RecordFile ── RecordFileProofs      RecordStore (abstract)
               ├── RecordOpen ── RecordOpenProofs
               └── JamCall ──┬── JamMessages ── JamMessagesProofs    MessageBase (abstract)
                             └── JamLastread ── JamLastreadProofs
    Session ───── SessionProofs       Tally (abstract)
    Rooms ─────── RoomsProofs
    EventLoop ─── EventLoopProofs
    Workbench ─── WorkbenchProofs

| Module | Models | Its state in the code |
|---|---|---|
| `FileLock` | `_files_lock`, `_files_unlock` and the kernel's side of `fcntl` | `owner`: the kernel's table; `tries`: the local count of refused attempts |
| `RecordStore` | what a store promises: atomic claims of a slot, updates, removals | `file` |
| `RecordFile` | get, put, del and add of users and profiles by several processes, one system call per step | `file` the `.dat` file, `locked` `self->locked`, `pc`/`op`/`rec` the call in progress and the record it is at, `buf` the local `ondisk`, `mem` the caller's structure, `home` where it was read from |
| `RecordOpen` | `_rms_open`, `_rms_get_sequence`, `_rms_peek_sequence`, the `_extend` of nodes and users and the `_init` of users | `seqf`, `made`, `datf` the two files; `goal`, `phase`, `todo`, `recs`, `num`, `pos` the locals and the position of the descriptor; histories of a creation that was finished (`done`) and of a store that was opened before that (`early`) |
| `JamCall` | what the calls of `jam.c` have in common: the lock, the header and its `mod_counter`, the error return, the death of a process | `hdr` on disk, `hbuf` the local header, `rev` `self->revision` |
| `JamMessages` | add, get, put and delete of messages | `msgs` the `.jhr` file behind the header, `texts`, `index`; `old`, `new`, `at` locals, `msg` and `have` the caller's copy; history `spoilt`, the records left with a message that is marked deleted |
| `MessageBase` | what a base is to its readers: an archive that grows at the end and loses messages for good, and where damaged messages may come without their text | `archive`, `damaged` |
| `JamLastread` | add, get, put and delete of last-read records | `marks`, `mine` and `have` the caller's copy |
| `EventLoop` | registration, the select loop with its inputs, timers and workers, break, signals through the self-pipe, exit handlers | `reg` the queue of handlers and the three lists of `NxAppContext`, `exits`, `broken`, `pipe`, `ignored` and `restored` the dispositions of signals, `active` and `mask` what `select` returned |
| `Session` | log in, status, the run of a door, log off, the loss of a session at any step | `users`, `nodes`, `door` the stores; `sess` of each process `useron`, `qnode` and its copy of the door; histories of what was done |
| `Tally` | what a counter per user promises: it grows by one and never goes back | `tally` |
| `Rooms` | find, add, get, put and del of rooms, with the handler and the message base | `rooms` the `.dat` file; `base` the files of each conference, by creation; `proc` of each process the call, the copy and the handler |
| `Workbench` | the windows and the queue of events of one session | `bench` the panels, the count, the focus and the main menu; `win` the global of `bbs_logout.c`; `queue` |

The record stores are below `Session` and `Rooms`, and are not composed with them
step by step: `RecordFile` shows that a get, a put or a delete of a record is one
step to everybody else, and the modules above take it as one. `Session` ends where
the loop is broken, which `EventLoop` shows happens at once, and `Workbench` where
`raise(SIGTERM)` is called, which `EventLoop` treats as a signal.

The modules named `...Proofs` hold the theorems. The `MC...`
modules add the sets and symmetries that the `.cfg` files need.

How the code is abstracted:

* **A step is a system call** that others can see: an attempt to lock, a write,
  an unlock, a read that can be overtaken. Reads that a call does in a row under
  the lock are one step in the Jam modules; each is a step of its own in the
  record stores, where a get may go on without its lock.
* **A payload is a value.** Names, terminals and screens are one field, `who`;
  a text of a message is a member of a small set; subfields are their length,
  with the room that they have in the file. A conversion that drops or changes
  something the properties see is modelled by what it does: `_normalize` gives
  the caller the record on disk, `_jam_normalize_message` keeps the higher
  `times_read` and the attributes of the disk, `_jam_delete_index` makes an
  offset that no read reaches, and the length of a text is set to 0 before it is
  used to erase it.
* **Offsets are positions.** Both files of a message base are only appended to
  or written in place, so an offset is an index of a sequence.
* **The kernel is external**: a lock has one owner, a process that dies loses
  its locks, unlocking what one does not own does nothing.
* A structure that a caller has not filled is blank with a revision of 0 or 1,
  as the callers of the repository build theirs.
* `sizeof` and short reads are left out except where a short read is reached: an
  empty counter, the end of a scan, the offset of a deleted message.
* **In `EventLoop` a callback is one step**: the process has one thread. Time is a
  count of ticks to the expiration of each timer. Every place where a signal can
  come between two steps is there, before the loop and in the exit handlers too.
* **In `Session` all the ways to fail are one**, `Lost`: an error of a store, a door
  that exits with a status, a hang-up and a crash all end the process without a log
  off, for `event_loop` returns an error after every break, and `main` skips
  `bbs_logoff` then. A user over the limit, and a user with a profile who runs a
  door (`profile_get` is passed no place for the record), end there as well.
* **In `Rooms` reading a record and building the room from it are two steps**, for
  the lock is given up in between, and the second one changes the handler.
  A message base is its creation: files that were removed and made again are
  others. Closing a base that is destroyed already (`room.c:1956`) is a choice of
  going well, failing and ending.
* **In `Workbench` a window is a number** and is compared by it; a window that is
  used after it was destroyed is the end of what the module says.
* In `JamCall` a call that is over forgets its locals; what lives on is the
  object's revision and the caller's copy.

Bounds are constants and are named in the comments of the modules: `MaxRev`,
`MaxRecords`, `MaxMods`, `MaxMsgs`, `MaxTexts`, `MaxTimes`, `MaxMarks`, `MaxNum`,
`MaxSent`, `MaxLogins`, `MaxRuns`, `MaxDay`, `MaxCalls`, `MaxKeys`, `MaxWindows`.
Each stops *new calls* (or keys, or signals) from being made once the file has come that far; no step
of a call in progress is ever cut off, so that no bound hides the end of a call.

Some operators are preceded by a *mistaken form*: the same operator with a
plausible bug (an unseen result, a dropped comparison, a missing count). They
are not part of any specification; each shows that a property fails when the
code is wrong in that way.

## 3. What the runs check

| Run | Instance | Shows |
|---|---|---|
| `user_file` | 2 processes, 2 users (one permanent), 1 retry, revisions to 3 | `LockInv`, `WriteIsCurrent`: the read and the write of a record are never separated by another's write, although a get may go on without its lock; `NoLostUpdate`; `DeletedStays`; `IInv`, the inductive invariant they rest on, with the types and `CopyInv`; and the file goes through the changes of `RecordStore` only |
| `profile_file` | 2 processes, 2 profiles, revisions to 2, fair | the refinement for the class whose empty slot is a deleted record and whose delete wipes it; and `CallsEnd`: every call returns |
| `open_nodes` | 3 processes, an existing store, crashes | `NumbersUnique`: no two nodes have one number although a number is taken under one lock and stored under another; and `IInv`, the inductive invariant |
| `open_new_users` | 2 processes, a store that does not exist, crashes | `OpenedIsComplete`: an open that returns has all records, the permanent accounts at their numbers, unless the store was opened before its creation was finished (`early`) |
| `jam` | 2 processes, all calls on messages, a new message of length 2 that is put with 1 and 3, crashes, every refusal final | `Exclusive`; `IndexSound`: the index points to complete messages with the right numbers; `FitsInPlace`: no put runs over the next message; `ActiveCount`, unless a process died between its change and the header; and the base is the archive of `MessageBase`: a message keeps its number and its text, and its readers get that text, whatever copies are put, unless a put that had grown was overtaken or a process died in a change of it (`spoilt`); and `IInv`, the inductive invariant of all of these |
| `jam_live` | 2 processes, all calls, 2 lengths, 1 retry, no crash, fair | `CallsEnd`: every call ends, with a lock that an error has left behind too |
| `jam_put` | 2 processes, 2 lengths, no crash | *violation* of `PutStored` |
| `marks` | 2 sessions of one user, 1 retry, crashes | `OneRecord`, `BackOnlyByLast`, and `IInv`, the inductive invariant they rest on, with `FoundStays`, `Exclusive` and the revisions |
| `events` | the programs of the repository: inputs, timers that are queued again or not, workers registered by callbacks, 2 exit handlers, 2 signals, fair | `HandlersAgree`: the object and the select loop have the same handlers between callbacks and after a break, and the queue keeps its nodes; `HooksRun`: exit handlers run once and in order, whatever ends the process; `SignalEndsOrSpins` and `TimersRun`: a signal ends the process and due timers run, but for one case; and `IInv`, the inductive invariant of the first two, with the order of the timers and what a break leaves |
| `session` | 2 sessions at a time of 3 users (one with a profile) on 1 node and 1 door, 3 log ins, 2 runs, 2 days | `Tallies`: the counters of users and doors never go back although each put starts from an old copy; `Accounts`: a user with one session at a time is counted exactly and no day goes past the limit and one session; `WhoIsOn`; `DoorInUse`: a door is used by one session at a time and given back; and `IInv`, the inductive invariant of all four |
| `rooms` | 2 processes, 3 records, a lobby and 2 areas, 5 calls, crashes | `CopySound`: a revision tells a stale copy; `OneConference`; `HandlerCurrent`: what is posted goes to the files of the room; `RemovesOwn`: a base is removed with its own room; and `IInv`, the inductive invariant of all four |
| `workbench` | 5 keys of any kind, 5 windows, fair | `FocusOnTop`; `FreedOnlyInHaste`: no window is used after it was destroyed, but in two ways; `AnswerCloses`: a question that is answered No goes away; and `IInv`, the inductive invariant of the first two |

The exceptions in these properties are part of what they say, and each is reached:
`early` is a store that was opened before its creation was finished, by a second
process or by the next one when the first had died, `lost` a process that died
between its change of the index and the header, `spoilt` the messages whose record
points to a header that is marked deleted and has a `text_length` of 0,
`crossed` is a record that two adds of rooms both found empty, `overlap` a
conference that two `room-create` look for at once, `estray` a base that went with
the wrong room, `twin` a user with two sessions, `raced` a door that was taken
between the get that tests it and the put that takes it, `stuck` a session that
ended inside the door, `hasty` a key to a window whose removal is queued and
`twins` two log-off questions on one global. The properties hold everywhere else.
What the code does wrong inside an exception no property catches: it is told under
"Disagreements", and such a hazard is listed in `PROJECT.json` with the property that
says where the harm ends.

**Why the bounds are enough.** Two processes suffice for every race of the code,
for a lock has one owner and a call works on one record; three take part in
`open_nodes`, where a third can hold a number between the other two. Two records
are one to find occupied and one to take. A revision, or `mod_counter`, matters
only by comparison with a copy's: with three values a copy can be older than,
equal to and newer than what it is compared with. In `jam` a new
message has the middle one of three lengths, and a put makes it shorter or longer, or
as long as it is by now when another put has made it shorter; it shrinks in its place,
and grows once more. One retry is a
refusal that is retried and one that is final; where `Retries = 0` only the final one
is left, to keep the run small, and the retry is in the runs beside it. `jam_live` has
no crash: a death frees the lock and ends a call, and what may keep a call from its
end is a lock that is held, by a call in progress or by one that has returned an error
and forgot it.

In `session` a put is tested against another session's put of the same user, node or
door, which takes two sessions; three log ins let one session find what two before
it have left, and two days are the change of the date. One node is enough, for
nodes share nothing. In `rooms` five calls are two creations with a get, a put and a
delete between them, by either process; three records are the lobby, one to find
and one to take; with one area and six calls the run passes as well. In `workbench`
five keys open two windows or questions and leave three to close, cycle and answer
them in haste; in `events` a second signal is the one that finds the first in
progress.

**Deadlock** is checked in every run but three, where the system stops: in `session`
and `rooms` because log ins and calls are bounded, in `workbench` because the
session ends.

**Fairness.** `FairSpec` is weak fairness of `Step(p)`, the steps of a call in
progress: the operating system goes on running a process that can run. It says
nothing of new calls or deaths. No fairness of the lock is assumed (`fcntl` with
`F_SETLK` promises none, a process may be refused for ever): `CallsEnd` holds
because the attempts are counted. In `EventLoop` it is weak fairness of the steps
of the process and of time: the process goes on running, its callbacks return, and
ticks pass. In `Workbench` it is weak fairness of the timer that dispatches events
(`TimersRun` is what justifies it) and of the end after a signal. `Session` and
`Rooms` state no fairness: nothing in them must happen.

### Disagreements with what the documents say

* `jam_put` — a put of a message that has grown appends the new message and
  marks the old one deleted; when another object has changed the base since,
  `_jam_update_index` normalizes the index back to the old offset and the put
  returns OK. The old header has a `text_length` of 0 by then (`jam.c:2661`), so that
  every reader gets an empty text (`jam.c:2577`); a death between the mark and the
  index does the same. It is `spoilt`, and `ImplementsBase` says that nothing else
  takes a text away.

The same models show more, which no run keeps; the first five are at odds with what
the documents or the messages of the program say:

* `_user_add` (and `_profile_add`) gives up the lock of the slot before `_put` takes
  it again, and `_put` normalizes: two adds of one slot both return OK and the
  second account is not stored (`user.c:46`; `user.pod:294`, "adds a user").
* `_rms_open` tests whether the store exists and then writes the first number
  without the lock of the counter: the process that is late sets the counter back,
  and two nodes get one number (`rms.c:957`; `NumbersUnique` with `Fresh = TRUE`).
  A process that comes between the two files, or after one that died there, takes
  the store for one of a single record and extends it by that (`rms.c:942`; `rms.pod:214`,
  "created, extended to the correct size and be initialized"). It is `early`, and
  nothing in `rms.c` tells such a store.
* Every error path of `jam.c` unlocks `if (self->locked)`, which nothing sets. A get
  of a message that was deleted while the caller waited for the lock fails, and
  keeps the base locked (`jam.c:2608`; `jam.pod:140`, "released by the library").
  `CallsEnd` still holds: the others give up.
* A signal that interrupts `select` while a worker is queued leaves the loop
  spinning: `numActive` stays -1, and the inner loop tests `errno` and skips the
  select (`nxmainloop.c:184`; `event.pod:160`, "will cleanup the event handlers").
  It is the `Spinning` of `SignalEndsOrSpins`.
* Two sessions that read a door before either has put it both run it
  (`bbs_doors.c:1150`; "Sorry, this door is already in use"). It is `raced`.

Record stores and message bases: an add of a profile in the slot
of a deleted one returns OK and stores nothing, for its revision is behind that
of the slot (`profile.c:44`); two processes that extend a store write to one
place (`node.c:53`); the text of a deleted message is not
erased, for its length is set to 0 before (`jam.c:2387`); a put in place does
not count in `mod_counter`, so that `times_read` goes back (`jam.c:2699`); a
crash between index and header leaves `active_msgs` wrong for good
(`jam.c:2516`); a put of a last-read record that was not there appends a record
of nobody (`jam.c:1898`); and the revision is that of the whole base, so that a
session that has changed another record puts a stale copy without the merge and
the highest number read goes back (`jam.c:1872`).

Rooms: an add that comes late writes over another room and sets its revision
back, after which a stale copy is taken for a new one (`room.c:1219`); two
`room-create` make two rooms on one message base (`room-create.c:182`); a delete
removes the base of the room that was read last (`room.c:1301`); a base that is
removed is closed again after it was destroyed (`room.c:1956`).

Sessions: a user with two sessions loses a call and minutes, for the later put
is normalized (`user.c:372`); a session that is lost in a door leaves the door in
use for good and the node on; the status of a node stays `NODE_XTRN` after a
door until the next status; a user with a profile gets no further into a door
(`bbs_doors.c:1177`); `bbs_logoff` after the loop in `main` is never reached,
and F12 in the main menu ends a session by a signal, without a log off.

Event loop: a program with nothing but a timer that is queued again loses the
last node of its queue and follows a null pointer (`que_pop_head.c:66`;
`HandlersAgree` says who is safe); a second signal while the exit handlers run
kills the process before the rest of them; workers run when input is there too.

Screen: a second F8 before the queued removal is handled, or F12, makes the
removal compare a window that is freed (`bbs_logout.c:43`), and the answer to
the older of two questions removes the newer (`bbs_logout.c:107`).

## 4. What is proved

The theorems hold for any finite or infinite set of processes, any number of
records, retries, payloads and revisions; the bounds of the runs are constants
that the proofs leave open.

*RecordFileProofs*, from `LockAssumption`, `FileAssumption` and the assumption
of `RecordStore` on its constants:

* `TypeCorrect`, `LocksHold`, `WritesAreCurrent`, `Inductive`, `NoUpdateLost`,
  `DeletedForGood` and `Refinement`: the system calls implement the atomic
  changes of `RecordStore`.

The argument: `LockInv` alone is inductive with `StageInv` (which call reaches
which stage). It gives exclusive access between read and write, and from it
`WriteIsCurrent`: what is about to be written was computed from what is on disk
now. The refinement follows, for then the only step that changes the file,
`Write`, is one of `Update`, `Claim`, `Remove` or `Keep` of `RecordStore`. That a stale
copy never brings back a deleted account needs one thing more, which `LockInv` does
not give: `CopyInv`, that a copy in memory is never newer than its record and
has the record's flags when it is as new. `CopyInv` is about every process's copy,
so its step has a part for the process that acts and a lemma (`CopyOthers`) for
the others: a write raises the revision, which makes every other copy older.

*RecordOpenProofs*, from `OpenAssumption`, with a range to lock for every record
(`Ranges = Nat`); for a store that exists (`~Fresh`):

* `OpenLocksHold`, `NodesApart` (no two nodes ever have one number, whatever
  dies) and the invariant they rest on, `OpenInductive`;

and for any store, there or to be created, by any number of processes that may die
at any call:

* `StoreComplete` (`OpenedIsComplete`): who has opened it finds every record, the
  permanent ones at their places, unless it was opened before it was finished
  (`early`).

`NumbersUnique` is not inductive: a number lives in the counter, then in the
hands of a process, then on disk. `NumbersInv` says that the counter is past every number
that is on disk or in hands, that a number in hands is not on disk and in one
pair of hands only, and that a process about to write the counter holds the
number that is in it. That last fact needs `LockInv` for the range of the
counter. `ExistsInv` excludes the creation, where two nodes may get one number.
`CreatedInv` is the creation, of a store that is not `early`: it is missing; or one
process makes it while the others are yet to open it (`Creating`), and its place in
the code says how many records are written and what the counter says; or that
process has died, or given up at a lock, and nobody has opened it since; or the store
is complete and is only added to behind its `Records`. That nobody else is inside
while it is made is no hypothesis: it is what `early` would have recorded, which
is never taken back (`EarlyStays`). The lemmas follow the creator from the test
for the file to the last permanent record, and let it die at each place
(`CreatorDies`).

What the two modules of `jam.c` have in common is proved at the head of each, from
`LockAssumption` and `CallAssumption`: `SkeletonInv`, that a step of
a call of `jam.c` keeps `CallInv`, whatever it does to the files. `Skeleton(p)` lists
the shapes a step can have. `CallInv` says that who is past the lock owns it,
that the header a call has read is that on disk until it counts a change and
then one ahead, and that an object's revision is not past the header's unless
the object has just counted. Two facts carry the proof: nobody takes a lock from
its owner (`SkeletonLock`), and the header on disk changes in one step only, of
the owner, which never takes it back (`SkeletonHeader`). A revision is then new
when it is given, so that it belongs to one object. Error returns that keep the lock are
steps of the skeleton like the others: they harm nobody's data.

*JamMessagesProofs*, from the same two and `MessagesAssumption`: `MessagesInductive`,
`MessagesTyped`, `MessagesIndex`, `MessagesFit`, `MessagesCounted`,
`MessagesExclusive` and `MessagesImplement`, the refinement of `MessageBase`.

None of these is inductive, for what a call writes was read, copied or appended
some system calls before. `KnownTo(p)` says, stage by stage, what a call may
count on while it has the lock: that the message it is at is the one that was
asked for and where the index says (`OnRoute`, `Asked`), that the old message
and the one to write agree in what they say (`Copied`), that a new one has the
next number (`Numbered`), and which of the message, the text and the index are
written by then (`Changed`, `Appended`). A step has three parts: for the process that takes
it, for the others, who are not past the lock and know only what lasts
(`OthersKnow`), and for the files. `IndexSound` holds through a death at any
point because an entry of the index is written when what it points to is
complete. `Counting` finds the number of messages in the header on disk or in the
local header of the one who is about to write it, which makes `ActiveCount` a
statement about the moments when nobody is in a call.
The refinement (`ArchiveStep`) needs more: that a text, once written, is never
written over, that a message that is moved by a put says what the old one said, and
`Showing`. A reader gets as many bytes as `text_length` says, and a put that has
grown sets it to 0 in the old header before the index points to the new one. In
between the text is not gone for anyone, for the process has the lock (`Midway`,
`MidwayAlone`); what is left when the index is written, or not, decides. `Showing`
says that the record of a message shows its text unless it is `spoilt` or midway, and
that copies of a message that is not spoilt have the length of its text; that last part
is needed since a put writes the copy, with its length, over the header. `RecordsShow`
and `CopiesLong` keep these two. A damaged message may show its text again, when a
copy from before is put in its place: `Show` of `MessageBase` allows it, of damaged
messages only.

*JamLastreadProofs*, with `LastreadAssumption`: `MarksInductive`, `MarksApart`,
`MarksFound`, `MarksBack`, `MarksExclusive`. `OneRecord` is not inductive: an append must
come from a call whose search found nothing and has not been overtaken
(`FoundStays`, which needs the lock), and must be of the user that was searched
for or of nobody (`MarksInv`, for the copy a caller puts was read for one user and
`have` says which). `BackOnlyByLast` needs the last part of `MarksInv`, which
relates three things: once a process has counted a change, every *other* object's
revision is below the header's, so that its put merges and takes the higher
number.

*SessionProofs*, from `SessionAssumption`: `SessionInvariant`, `SessionTypes`,
`SessionDoor`, `SessionNodes`, `SessionAccounts` and `SessionTallies`, the
refinement of `Tally`.

Neither the tallies nor the state of a door is inductive, for what is stored comes from copies. `CopiesSound` says
what a copy may be: no newer than its record; one call ahead of it when it is as
new (a user), equal to it when it is as new and never ahead in a counter (the
door). A put is then normalized, which leaves the calls as they are and takes the
larger of two numbers of runs that differ by one at most, or it adds one.
`DoorTaken` is the same for the door's state: a door for one that a session is
about to take was free in its copy, so that it still is, unless `raced` says
otherwise. Every action has a lemma that says what it does to the process that
takes it (`...Takes`), and lemmas for a step that stores no user, changes no door,
or puts one (`UserCopyKept`, `DoorKept`, `DoorCopyOlder`) treat the others.

`WhoIsOn` rests on `NodesKnown`: a node with one session since it was free has
that session only, whose `qnode` is what the store says of the node, and a
node that was given back or lost has none. A status that is put from `qnode` is
then a change of the session's own record, and never of an old copy.

`Accounts` rests on `Booked`, which says the same of the copies as `Accounts` of the
records, and a little more. A session books its call and its minutes in memory and
stores them at log off, so its copy must be exact until then: as new as the record,
with the minutes of its day in `today` and all others `online`. It is, because no
other session of that user is there to store anything, and because nothing was
worked after the day of the copy (`NoneAfter`): when the first call of a new day moves
`today` to `online`, the new day is empty. The day of the log off is that of the log
in, whatever the date is by then. For the door, each copy has the line of its *own*
user as the record has it, so a put that is normalized counts one run of that user
and takes the larger, which is the record's, of all others (`PutOfOwn`, `PutOfOther`).
The sum of the days is a recursive function; that it exists and grows by what one
day grows by (`Sums`, `TotalWith`) is an induction over the days.

*RoomsProofs*, from `RoomsAssumption`: `RoomsInductive`, `RoomsCopySound`,
`RoomsOneConference`, `RoomsHandlerCurrent` and `RoomsRemoveTheirOwn`. The
assumption says of the flags a room is put with that `RM_INUSE` is among them,
as `room-create.c:53` sets it and nothing clears it.

A conference belongs to one room because the search for it and the write of the
room agree, and they are steps apart. `Staged` says which calls reach which
stage and what they have read by then; `Seen`, that what a call has read is the
record or an older revision of it (`Was`), and no older than the copy it replaces,
unless the record was `crossed`; `Searching`, that who looks for a conference alone
misses no room of it, for one can only be where the search has still to come,
unless there was an `overlap`; `Holding`, that the handler of a copy has the files
of its conference open as they were created last, until the record is revised or the
base goes `estray`.
`RoomsRemoveTheirOwn` is an action property: it adds to the invariant that
attaching a base takes none away (`AttachTakesNone`).

*WorkbenchProofs*, from `WorkbenchAssumption`: `WorkbenchInductive`,
`WorkbenchFocus` and `WorkbenchFreed`.

The stack of panels is read in three ways, as an order, as a count and as the
window with the focus. `Stacked` says that they agree and that the order has
each window once; `Raised`, `Added` and `Removed` are the lemmas that keep it.
That no freed window is used needs the queue: the global names the question that
is shown, if there is one (`Asked`), only questions are queued for removal, and each
of them once, while it is there (`Going`), unless `hasty` or `twins` says otherwise. Taking an event moves the others up by one, and a
removal then takes a window that no later event is about and that is not the
main menu.

*EventLoopProofs*, from `LoopAssumption`: `LoopInductive`, `LoopAgree`
(`HandlersAgree`) and `LoopHooks` (`HooksRun`); and two statements that no run
lists, `LoopQuiet` and `LoopFirstIsDue`.

`HandlersAgree` compares the queue of the object, filtered by kind of handler, with
the three lists of the select loop, at the moments when nothing is half done. In
between they do not agree: a timer that has expired is out of the list of the loop
and still in the queue while its callback runs, and a callback may break the loop,
which empties both, or register a worker. The proof follows the three lists through
each operation of the queues (`Appended`, `Inserted`, `Popped`, `TakenOut`), says what
filtering by kind makes of each (`KeptNone`, `CallbacksOf`, `TimersWidened`,
`TimersPopped`), and brings these together in one lemma for each handler of the code
(`RegisteredAgrees`, `RedoneAgrees`, `EffectedAgrees`, `FreedAgrees`). `Sorted` is
needed for the timers, which are put in by their time: with it the first of the list
is the first that is due, as the comment of `nxmainloop.c` says that it may be taken for.
`Selected` says that what `select` has found is there when the loop comes to it,
and `Started` that a program registers each callback once.

**Inductions.** The induction rules of the library take an operator as a parameter,
which the provers cannot instantiate. Where a proof here goes by induction, it is
over a *set* of natural numbers: `Induction` says that a set with 0 and with the
successor of each of its members has all of them, and follows from the least number
that is not in it. Filtered sequences in `EventLoopProofs` and sums in
`SessionProofs` are treated so. What the recursion computes is a function, never a
`RECURSIVE` operator.

Only model-checked:

* Liveness (`CallsEnd`, `AnswerCloses`, `SignalEndsOrSpins`, `TimersRun`), which
  rests on fairness and `ENABLED`.
* What a store is when it was opened early, and a message base when several
  processes create it, is no theorem: the code does not promise it.

## 5. What is not modelled

* The creation and removal of the files of a message base; searches, which only
  read under the lock; the contents of subfields. `jam_new_message` only fills a
  structure.
* `rms_remove`, which nothing calls; prev, last, find and search of a record
  store, which are reads of the same shape as first and next.
* The handler of a room of doors, which has the shape of that of messages; rooms of
  the flags that have no handler yet; `_room_extend` and the first rooms, which are
  the initial state of `Rooms`. The invite, kill and forget of `bbs_rooms.c` are
  called by nothing.
* The tests of access (`bbs_access.c`) and the lists of lines (`bbs_utils.c`): they
  read and build what one process sees.
* Screens beyond the order of windows and keys: what is drawn, tabs and texts in a
  window, the forms. The older `windows/` is not used by the bulletin board.
* QWK packets, finds, most utilities: formatting of the files of one process, and
  calls of the stores.
* Objects, errors, tracer, logger, messages, factory: no shared state.
* Reads past the end. The test of a record number joins its two halves by "and"
  (`rms.c:360`), `node_put` does not look at the count that it has read
  (`node.c:130`), and `_jam_find_index` returns what an empty read left in a local
  (`jam.c:2110`): the models ask for records that exist. The fields that
  `_user_init` leaves unset (`user.c:231`) are in no module.
* Third party code, but for the select loop of `gpl/nix` and the linked queue of
  `cclibs/que`, as `EventLoop` uses them.

## 6. The plan

1. *Done:* all the modules above, model-checked; and for every safety property that
   a passing run checks a theorem.
2. *Creation of a message base*, with the same race as `_rms_open`.
3. *Composition:* `Rooms` over the calls of `JamMessages`, in the place of a base
   that is its creation.
