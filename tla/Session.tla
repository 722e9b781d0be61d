------------------------------ MODULE Session ------------------------------
(***************************************************************************)
(* The sessions of the bulletin board, src/bbs/src/main: each is a process *)
(* that reads its node and its user, shows its status on the node, runs    *)
(* the door, and logs off; it works on copies of the records, and two      *)
(* sessions meet only in the stores of nodes, users and doors.             *)
(*                                                                         *)
(* A get or a put of a record is one step, as RecordFile shows of rms.c.   *)
(* A put that is refused, a door that fails, a hang-up and a crash are the *)
(* same to the stores: the error is passed on until the loop is broken,    *)
(* and the process ends without a log off.                                 *)
(***************************************************************************)
EXTENDS Integers

CONSTANTS Sessions,    \* processes of xa-bbs
          Users,       \* accounts
          Nodes,       \* node numbers of the store
          Profiled,    \* the users with a profile
          TimeLimit,   \* timelimit, in minutes a day
          Minutes,     \* how long a session or a door may take
          Nobody,      \* useron of a node that is offline
          Nil,         \* no copy
          MaxLogins,   \* bound: log ins
          MaxRuns,     \* bound: runs of the door
          MaxDay       \* bound: days

ASSUME SessionAssumption ==
    /\ Profiled \subseteq Users
    /\ TimeLimit \in Nat
    /\ Minutes \subseteq Nat
    /\ Nobody \notin Users
    /\ MaxLogins \in Nat /\ MaxRuns \in Nat /\ MaxDay \in Nat \ {0}

VARIABLES users,       \* the store of users
          nodes,       \* the store of nodes
          door,        \* the record of the door
          sess,        \* the processes: stage, useron, qnode and door
          day,         \* the date
          logins,      \* history: log ins
          runs,        \* history: runs that were started
          worked,      \* history: minutes of the log offs, by day of log in
          logoffs,     \* history: log offs that were stored
          played,      \* history: runs of the door that were stored
          twin,        \* history: the users with two sessions at once
          fate,        \* history: how the last session of a node ended
          stuck,       \* history: a session ended inside the door
          raced        \* history: the door was taken since it was found free

vars == <<users, nodes, door, sess, day, logins, runs, worked, logoffs,
          played, twin, fate, stuck, raced>>

User == [rev : Nat, calls : Nat, today : Nat, online : Nat, lastcall : 0 .. MaxDay]
Action == {"NODE_OFFL", "NODE_MAIN", "NODE_XTRN"}
Node == [rev : Nat, action : Action, useron : Users \cup {Nobody}]
Usage == [Users -> [runs : Nat, wasted : Nat]]
Door == [rev : Nat, multiuser : BOOLEAN, active : BOOLEAN, usage : Usage]

Stages == {"out", "noded", "loaded", "menu", "door_read", "door_taken",
           "door_shown", "leaving"}
Process == [stage : Stages, user : Users \cup {Nobody}, node : Nodes \cup {Nil},
            useron : User \cup {Nil}, qnode : Node \cup {Nil}, door : Door \cup {Nil}]

\* What a process holds in each stage.
Fits(p) ==
    /\ p.stage # "out" => p.user \in Users /\ p.node \in Nodes /\ p.qnode \in Node
    /\ p.stage \notin {"out", "noded"} => p.useron \in User
    /\ p.stage \in {"door_read", "door_taken", "door_shown"} => p.door \in Door

\* Inside bbs_doors, with a copy of the door.
InDoor(s) == sess[s].stage \in {"door_read", "door_taken", "door_shown"}

\* The door is taken.
Inside(s) == sess[s].stage \in {"door_taken", "door_shown"}

\* useron is loaded and not yet stored.
Loaded(s) == sess[s].stage \notin {"out", "noded", "leaving"}

TypeOK ==
    /\ users \in [Users -> User]
    /\ nodes \in [Nodes -> Node]
    /\ door \in Door
    /\ sess \in [Sessions -> Process] /\ \A s \in Sessions : Fits(sess[s])
    /\ day \in 1 .. MaxDay
    /\ logins \in 0 .. MaxLogins /\ runs \in 0 .. MaxRuns
    /\ worked \in [Users -> [1 .. MaxDay -> Nat]]
    /\ logoffs \in [Users -> Nat]
    /\ played \in Usage
    /\ twin \subseteq Users
    /\ fate \in [Nodes -> {"off", "on", "lost", "mixed"}]
    /\ stuck \in BOOLEAN /\ raced \in BOOLEAN

Out == [stage |-> "out", user |-> Nobody, node |-> Nil, useron |-> Nil,
        qnode |-> Nil, door |-> Nil]

Unused == [u \in Users |-> [runs |-> 0, wasted |-> 0]]

Init ==
    /\ users = [u \in Users |->
           [rev |-> 1, calls |-> 0, today |-> 0, online |-> 0, lastcall |-> 0]]
    /\ nodes = [n \in Nodes |->
           [rev |-> 1, action |-> "NODE_OFFL", useron |-> Nobody]]
    /\ \E m \in BOOLEAN :
           door = [rev |-> 1, multiuser |-> m, active |-> FALSE, usage |-> Unused]
    /\ sess = [s \in Sessions |-> Out]
    /\ day = 1
    /\ logins = 0 /\ runs = 0
    /\ worked = [u \in Users |-> [d \in 1 .. MaxDay |-> 0]]
    /\ logoffs = [u \in Users |-> 0]
    /\ played = Unused
    /\ twin = {}
    /\ fate = [n \in Nodes |-> "off"]
    /\ stuck = FALSE /\ raced = FALSE

-----------------------------------------------------------------------------
(***************************************************************************)
(* The puts of node.c, user.c and door.c: what is written, and what the    *)
(* copy becomes.  A copy that is older than the record is normalized.      *)
(***************************************************************************)
\* Mistaken form of Stored: the revision is that of the copy.
StoredSameRev(ondisk, record, normalized) ==
    IF ondisk.rev > record.rev THEN normalized ELSE record

Stored(ondisk, record, normalized) ==
    IF ondisk.rev > record.rev THEN normalized
                               ELSE [record EXCEPT !.rev = ondisk.rev + 1]

\* Mistaken form of NodePut: a copy as old as the record is normalized, too.
NodePutNever(ondisk, node) == [ondisk EXCEPT !.rev = @ + 1]

\* Every field comes from the record: the status of a stale copy is dropped.
NodePut(ondisk, node) == Stored(ondisk, node, [ondisk EXCEPT !.rev = @ + 1])

\* Mistaken form of UserPut: the revision is not looked at.
UserPutBlind(ondisk, user) == [user EXCEPT !.rev = ondisk.rev + 1]

UserPut(ondisk, user) == Stored(ondisk, user, [ondisk EXCEPT !.rev = @ + 1])

Later(a, b) == IF a > b THEN a ELSE b

\* active is that of the copy, and each counter the larger of the two.
DoorNormalize(ondisk, record) ==
    [record EXCEPT
        !.usage = [u \in Users |->
            [runs |-> Later(ondisk.usage[u].runs, @[u].runs),
             wasted |-> Later(ondisk.usage[u].wasted, @[u].wasted)]],
        !.rev = ondisk.rev + 1]

DoorPut(ondisk, record) == Stored(ondisk, record, DoorNormalize(ondisk, record))

-----------------------------------------------------------------------------
(***************************************************************************)
(* bbs_init and bbs_main_menu.                                             *)
(***************************************************************************)
LoadNode(s, u, n) ==
    /\ sess[s].stage = "out"
    /\ logins < MaxLogins
    /\ logins' = logins + 1
    /\ sess' = [sess EXCEPT ![s] =
           [stage |-> "noded", user |-> u, node |-> n, useron |-> Nil,
            qnode |-> nodes[n], door |-> Nil]]
    /\ fate' = [fate EXCEPT ![n] =
           IF \E t \in Sessions : sess[t].node = n THEN "mixed" ELSE "on"]
    /\ UNCHANGED <<users, nodes, door, day, runs, worked, logoffs, played, twin,
                   stuck, raced>>

\* Mistaken form of Called: today is not reset.
CalledSameDay(user) == [user EXCEPT !.calls = @ + 1, !.lastcall = day]

\* The record as bbs_init has it in memory: one more call, and on a new day
\* the minutes of the last one are added to those online.
Called(user) ==
    LET now == [user EXCEPT !.calls = @ + 1, !.lastcall = day]
    IN  IF user.lastcall = day THEN now
        ELSE [now EXCEPT !.online = @ + user.today, !.today = 0]

\* A user who is over the limit is turned away: that session is Lost below.
LoadUser(s) ==
    LET u == sess[s].user IN
    /\ sess[s].stage = "noded"
    /\ Called(users[u]).today <= TimeLimit
    /\ sess' = [sess EXCEPT ![s].stage = "loaded", ![s].useron = Called(users[u])]
    /\ twin' = IF \E t \in Sessions : Loaded(t) /\ sess[t].user = u
               THEN twin \cup {u} ELSE twin
    /\ UNCHANGED <<users, nodes, door, day, logins, runs, worked, logoffs,
                   played, fate, stuck, raced>>

\* bbs_send_status: the copy is changed and put.
SendStatus(s, action, stage) ==
    LET n == sess[s].node
        shown == [sess[s].qnode EXCEPT !.action = action,
                     !.useron = IF action = "NODE_OFFL" THEN Nobody ELSE sess[s].user]
        stored == NodePut(nodes[n], shown)
    IN  /\ nodes' = [nodes EXCEPT ![n] = stored]
        /\ sess' = [sess EXCEPT ![s].qnode = stored, ![s].stage = stage]

MainMenu(s) ==
    /\ sess[s].stage = "loaded"
    /\ SendStatus(s, "NODE_MAIN", "menu")
    /\ UNCHANGED <<users, door, day, logins, runs, worked, logoffs, played,
                   twin, fate, stuck, raced>>

\* monitor_nodes, the timer of bbs_run: it does not run while a door does.
GetStatus(s) ==
    /\ sess[s].stage = "menu"
    /\ sess' = [sess EXCEPT ![s].qnode = nodes[sess[s].node]]
    /\ UNCHANGED <<users, nodes, door, day, logins, runs, worked, logoffs,
                   played, twin, fate, stuck, raced>>

-----------------------------------------------------------------------------
(***************************************************************************)
(* bbs_doors: read the record and test it, take the door, show the status, *)
(* run the door, give it back and count the run.                           *)
(***************************************************************************)
\* Mistaken form of DoorRead: the door is read, and not tested.
DoorReadUntested(s) ==
    /\ sess[s].stage = "menu"
    /\ runs < MaxRuns
    /\ runs' = runs + 1
    /\ sess' = [sess EXCEPT ![s].stage = "door_read", ![s].door = door]
    /\ UNCHANGED <<users, nodes, door, day, logins, worked, logoffs, played,
                   twin, fate, stuck, raced>>

DoorRead(s) ==
    /\ sess[s].stage = "menu"
    /\ runs < MaxRuns
    /\ door.active => door.multiuser
    /\ runs' = runs + 1
    /\ sess' = [sess EXCEPT ![s].stage = "door_read", ![s].door = door]
    /\ UNCHANGED <<users, nodes, door, day, logins, worked, logoffs, played,
                   twin, fate, stuck, raced>>

PutDoor(s, record, stage, copied) ==
    LET stored == DoorPut(door, record) IN
    /\ door' = stored
    /\ sess' = [sess EXCEPT ![s].stage = stage, ![s].door = IF copied THEN stored ELSE Nil]

DoorTake(s) ==
    /\ sess[s].stage = "door_read"
    /\ PutDoor(s, [sess[s].door EXCEPT !.active = TRUE], "door_taken", TRUE)
    /\ raced' = (raced \/ (door.active /\ ~ sess[s].door.active))
    /\ UNCHANGED <<users, nodes, day, logins, runs, worked, logoffs, played,
                   twin, fate, stuck>>

\* profile_get is given no record to read into: a user with a profile gets no
\* further, and the session is Lost.
DoorShow(s) ==
    /\ sess[s].stage = "door_taken"
    /\ sess[s].user \notin Profiled
    /\ SendStatus(s, "NODE_XTRN", "door_shown")
    /\ UNCHANGED <<users, door, day, logins, runs, worked, logoffs, played,
                   twin, fate, stuck, raced>>

\* One more run of u, of m minutes.
Ran(used, u, m) == [used EXCEPT ![u] = [runs |-> @.runs + 1, wasted |-> @.wasted + m]]

DoorGive(s) ==
    LET u == sess[s].user IN
    /\ sess[s].stage = "door_shown"
    /\ \E m \in Minutes :
          /\ PutDoor(s, [sess[s].door EXCEPT !.active = FALSE, !.usage = Ran(@, u, m)],
                     "menu", FALSE)
          /\ played' = Ran(played, u, m)
    /\ UNCHANGED <<users, nodes, day, logins, runs, worked, logoffs, twin, fate,
                   stuck, raced>>

-----------------------------------------------------------------------------
(***************************************************************************)
(* bbs_logoff stores the user and then the status, and the loop is broken. *)
(***************************************************************************)
StoreUser(s) ==
    LET u == sess[s].user IN
    /\ sess[s].stage = "menu"
    /\ \E m \in Minutes :
          LET stored == UserPut(users[u], [sess[s].useron EXCEPT !.today = @ + m])
          IN  /\ users' = [users EXCEPT ![u] = stored]
              /\ worked' = [worked EXCEPT ![u][sess[s].useron.lastcall] = @ + m]
              /\ sess' = [sess EXCEPT ![s].useron = stored, ![s].stage = "leaving"]
    /\ logoffs' = [logoffs EXCEPT ![u] = @ + 1]
    /\ UNCHANGED <<nodes, door, day, logins, runs, played, twin, fate, stuck,
                   raced>>

LogOff(s) ==
    LET n == sess[s].node
        offline == [sess[s].qnode EXCEPT !.action = "NODE_OFFL", !.useron = Nobody]
    IN  /\ sess[s].stage = "leaving"
        /\ nodes' = [nodes EXCEPT ![n] = NodePut(nodes[n], offline)]
        /\ sess' = [sess EXCEPT ![s] = Out]
        /\ fate' = [fate EXCEPT ![n] = IF @ = "mixed" THEN @ ELSE "off"]
        /\ UNCHANGED <<users, door, day, logins, runs, worked, logoffs, played,
                       twin, stuck, raced>>

\* The process ends where it is: main destroys its objects and stores nothing.
Lost(s) ==
    /\ sess[s].stage # "out"
    /\ sess' = [sess EXCEPT ![s] = Out]
    /\ fate' = [fate EXCEPT ![sess[s].node] = IF @ = "mixed" THEN @ ELSE "lost"]
    /\ stuck' = (stuck \/ Inside(s))
    /\ UNCHANGED <<users, nodes, door, day, logins, runs, worked, logoffs,
                   played, twin, raced>>

NextDay ==
    /\ day < MaxDay
    /\ day' = day + 1
    /\ UNCHANGED <<users, nodes, door, sess, logins, runs, worked, logoffs,
                   played, twin, fate, stuck, raced>>

Next ==
    \/ NextDay
    \/ \E s \in Sessions :
          \/ \E u \in Users, n \in Nodes : LoadNode(s, u, n)
          \/ LoadUser(s) \/ MainMenu(s) \/ GetStatus(s)
          \/ DoorRead(s) \/ DoorTake(s) \/ DoorShow(s) \/ DoorGive(s)
          \/ StoreUser(s) \/ LogOff(s) \/ Lost(s)

Spec == Init /\ [][Next]_vars

-----------------------------------------------------------------------------
(***************************************************************************)
(* Why the copies do no harm.  The copy of a user is no newer than the     *)
(* record and, when it is as new, is one call ahead of it; that of the     *)
(* door is no newer, counts no run that the record does not, and is equal  *)
(* to the record when it is as new.                                        *)
(***************************************************************************)
UserCopy(s) ==
    LET user == users[sess[s].user]
    IN  Loaded(s) => /\ sess[s].useron.rev <= user.rev
                     /\ sess[s].useron.rev = user.rev =>
                           sess[s].useron.calls = user.calls + 1

DoorCopy(s) ==
    LET copy == sess[s].door
    IN  InDoor(s) => /\ copy.rev <= door.rev
                     /\ copy.rev = door.rev => copy.usage = door.usage
                     /\ \A u \in Users : copy.usage[u].runs <= door.usage[u].runs

CopiesSound == \A s \in Sessions : UserCopy(s) /\ DoorCopy(s)

(***************************************************************************)
(* Who may take a door for one: it was free in the copy, and until it is   *)
(* given back the record says that it is taken.                            *)
(***************************************************************************)
DoorTaken ==
    /\ \A s \in Sessions :
          InDoor(s) => /\ sess[s].door.multiuser = door.multiuser
                       /\ sess[s].stage = "door_read" =>
                             (sess[s].door.active => door.multiuser)
    /\ ~ door.multiuser /\ ~ raced => \A s \in Sessions : Inside(s) => door.active

(***************************************************************************)
(* Who knows a node: one that has had one session since it was free shows  *)
(* what the copy of that session says, and one that was left has none.     *)
(***************************************************************************)
On(s, n) == sess[s].stage # "out" /\ sess[s].node = n

NodesKnown ==
    \A n \in Nodes :
        /\ fate[n] \in {"off", "lost"} => \A s \in Sessions : ~ On(s, n)
        /\ fate[n] = "on" => \A s \in Sessions :
              On(s, n) => sess[s].qnode = nodes[n] /\ \A t \in Sessions : On(t, n) => t = s

-----------------------------------------------------------------------------
(***************************************************************************)
(* What the stores promise of the counters, though each put starts from a  *)
(* copy that may be old: the calls of a user and the runs of the door grow *)
(* by one at a time and never go back.                                     *)
(***************************************************************************)
Calls == INSTANCE Tally WITH Counted <- Users,
                             tally <- [u \in Users |-> users[u].calls]
Runs == INSTANCE Tally WITH Counted <- Users,
                            tally <- [u \in Users |-> door.usage[u].runs]

\* The calls that user.c stores and the runs that door.c stores are tallies.
Tallies == Calls!Spec /\ Runs!Spec

(***************************************************************************)
(* Nothing is counted that was not done, and as long as a user has one     *)
(* session at a time all of it is: every log off is a call, the minutes of *)
(* the day of the last call are in today and those of other days online,   *)
(* and every run of the door is counted with its minutes, however the      *)
(* door's records of other users cross it.  A day never holds more than    *)
(* the time limit and one session over it, even for a user with two.       *)
(***************************************************************************)
Total(work) ==
    LET sum[d \in 0 .. MaxDay] == IF d = 0 THEN 0 ELSE sum[d - 1] + work[d]
    IN  sum[MaxDay]

Latest(u, user) == IF user.lastcall = 0 THEN 0 ELSE worked[u][user.lastcall]

AccountOf(u) ==
    LET user == users[u]
        total == Total(worked[u])
    IN  /\ \E m \in Minutes \cup {0} : user.today <= TimeLimit + m
        /\ user.calls <= logoffs[u]
        /\ user.today + user.online <= total
        /\ door.usage[u].runs <= played[u].runs
        /\ door.usage[u].wasted <= played[u].wasted
        /\ u \notin twin => /\ user.calls = logoffs[u]
                            /\ user.today = Latest(u, user)
                            /\ user.online = total - Latest(u, user)
                            /\ door.usage[u] = played[u]

Accounts == \A u \in Users : AccountOf(u)

(***************************************************************************)
(* The store of nodes says who is on: as long as a node has one session at *)
(* a time, it names the user of that session, whether a session before it  *)
(* was lost, and it is offline after a log off.                            *)
(***************************************************************************)
WhoIsOn ==
    /\ \A s \in Sessions :
          /\ sess[s].stage \notin {"out", "noded", "loaded"}
          /\ fate[sess[s].node] = "on"
          => /\ nodes[sess[s].node].useron = sess[s].user
             /\ sess[s].stage = "door_shown" =>
                   nodes[sess[s].node].action = "NODE_XTRN"
    /\ \A n \in Nodes :
          fate[n] = "off" => nodes[n].useron = Nobody /\ nodes[n].action = "NODE_OFFL"

(***************************************************************************)
(* The door says that it is in use only as long as somebody is in it or a  *)
(* session ended there.  One that is not DT_MULTIUSER is used by one       *)
(* session at a time, as bbs_doors says to those that it turns away, unless *)
(* it was taken between the get that found it free and the put that takes  *)
(* it.  Both whatever other sessions have put meanwhile.                   *)
(***************************************************************************)
DoorInUse ==
    /\ door.active => stuck \/ \E s \in Sessions : Inside(s)
    /\ ~ door.multiuser /\ ~ raced =>
          \A s, t \in Sessions : Inside(s) /\ Inside(t) => s = t

(***************************************************************************)
(* Why the accounts are right.  A copy of a user says no more than the log *)
(* offs up to now; it is the only one of a user without a second session,  *)
(* as new as the record and exact, and its day is the last that the user   *)
(* has worked.  A copy of the door has the runs of its own user as the     *)
(* record has them.                                                        *)
(***************************************************************************)
NoneAfter(u, user) == \A d \in 1 .. MaxDay : d > user.lastcall => worked[u][d] = 0

UserBooked(s) ==
    LET u == sess[s].user
        copy == sess[s].useron
    IN  Loaded(s) =>
            /\ copy.lastcall \in 1 .. day
            /\ copy.today <= TimeLimit
            /\ copy.today + copy.online <= Total(worked[u])
            /\ u \notin twin => /\ copy.rev = users[u].rev
                                /\ copy.today = Latest(u, copy)
                                /\ copy.online = Total(worked[u]) - Latest(u, copy)
                                /\ NoneAfter(u, copy)
                                /\ \A t \in Sessions :
                                      Loaded(t) /\ sess[t].user = u => t = s

DoorBooked(s) ==
    LET u == sess[s].user
        copy == sess[s].door
    IN  InDoor(s) => /\ \A v \in Users : copy.usage[v].wasted <= played[v].wasted
                     /\ u \notin twin => copy.usage[u] = door.usage[u]

Booked ==
    /\ \A u \in Users : /\ users[u].lastcall <= day
                        /\ u \notin twin => NoneAfter(u, users[u])
    /\ \A s \in Sessions : UserBooked(s) /\ DoorBooked(s)

\* The inductive invariant: types, the copies, the door, the nodes, and the
\* accounts.
IInv == /\ TypeOK /\ CopiesSound /\ DoorTaken /\ DoorInUse
        /\ NodesKnown /\ WhoIsOn
        /\ Accounts /\ Booked
=============================================================================
