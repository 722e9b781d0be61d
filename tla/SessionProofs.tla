--------------------------- MODULE SessionProofs ---------------------------
(***************************************************************************)
(* Proofs about Session: types, the two tallies, the use of the door, who  *)
(* is on, and the accounts.                                                *)
(***************************************************************************)
EXTENDS Session, WellFoundedInduction, TLAPS

-----------------------------------------------------------------------------
(***************************************************************************)
(* What the puts of the three stores return.                               *)
(***************************************************************************)

\* The put of a node returns a node.
LEMMA NodePutType ==
    ASSUME NEW ondisk \in Node, NEW record \in Node
    PROVE  NodePut(ondisk, record) \in Node
  BY DEF NodePut, Stored, Node

\* The put of a user returns a user.
LEMMA UserPutType ==
    ASSUME NEW ondisk \in User, NEW record \in User
    PROVE  UserPut(ondisk, record) \in User
  BY DEF UserPut, Stored, User

\* The put of a door returns a door.
LEMMA DoorPutType ==
    ASSUME NEW ondisk \in Door, NEW record \in Door
    PROVE  DoorPut(ondisk, record) \in Door
  <1> DEFINE merged == [u \in Users |->
                 [runs |-> Later(ondisk.usage[u].runs, record.usage[u].runs),
                  wasted |-> Later(ondisk.usage[u].wasted, record.usage[u].wasted)]]
  <1>1. merged \in Usage
    BY DEF Door, Usage, Later
  <1>2. DoorNormalize(ondisk, record) \in Door
    <2> HIDE DEF merged
    <2>1. [record EXCEPT !.usage = merged] \in Door
      BY <1>1 DEF Door
    <2>2. \A r \in Door : [r EXCEPT !.rev = ondisk.rev + 1] \in Door
      BY DEF Door
    <2>3. [record EXCEPT !.usage = merged, !.rev = ondisk.rev + 1] \in Door
      BY <2>1, <2>2
    <2> QED
      BY <2>3 DEF DoorNormalize, merged
  <1>3. [record EXCEPT !.rev = ondisk.rev + 1] \in Door
    BY DEF Door
  <1> QED
    BY <1>2, <1>3 DEF DoorPut, Stored

\* A user who calls is a user.
LEMMA CalledType ==
    ASSUME NEW user \in User, day \in 1 .. MaxDay, MaxDay \in Nat
    PROVE  Called(user) \in User /\ Called(user).rev = user.rev
             /\ Called(user).calls = user.calls + 1
  <1> DEFINE now == [user EXCEPT !.calls = @ + 1, !.lastcall = day]
  <1>1. now \in User
    <2>1. [user EXCEPT !.calls = @ + 1] \in User
      BY DEF User
    <2>2. \A r \in User : [r EXCEPT !.lastcall = day] \in User
      BY DEF User
    <2> QED
      BY <2>1, <2>2
  <1>2. now.rev = user.rev /\ now.calls = user.calls + 1
    BY DEF User
  <1> HIDE DEF now
  <1>3. [now EXCEPT !.online = @ + user.today, !.today = 0] \in User
    <2>1. [now EXCEPT !.online = @ + user.today] \in User
      BY <1>1 DEF User
    <2>2. \A r \in User : [r EXCEPT !.today = 0] \in User
      BY DEF User
    <2> QED
      BY <2>1, <2>2
  <1>4. /\ [now EXCEPT !.online = @ + user.today, !.today = 0].rev = now.rev
        /\ [now EXCEPT !.online = @ + user.today, !.today = 0].calls = now.calls
    BY <1>1 DEF User
  <1>5. Called(user) = IF user.lastcall = day THEN now
                       ELSE [now EXCEPT !.online = @ + user.today, !.today = 0]
    BY DEF Called, now
  <1> QED
    BY <1>1, <1>2, <1>3, <1>4, <1>5

-----------------------------------------------------------------------------
(***************************************************************************)
(* How a step changes the process that takes it.                           *)
(***************************************************************************)

WithUser(p, x, y) == [p EXCEPT !.stage = x, !.useron = y]

\* A process that moves to a stage and has a user.
LEMMA StageUseron ==
    ASSUME NEW p \in Process, NEW x \in Stages, NEW y \in User \cup {Nil}
    PROVE  LET q == WithUser(p, x, y) IN
             /\ q \in Process /\ q.stage = x /\ q.useron = y
             /\ q.user = p.user /\ q.node = p.node
             /\ q.qnode = p.qnode /\ q.door = p.door
  <1> DEFINE q == [p EXCEPT !.stage = x, !.useron = y]
  <1>1. q \in Process
    <2>1. [p EXCEPT !.stage = x] \in Process
      BY DEF Process
    <2>2. \A r \in Process : [r EXCEPT !.useron = y] \in Process
      BY DEF Process
    <2> QED
      BY <2>1, <2>2
  <1>2. q.stage = x /\ q.useron = y
    BY DEF Process
  <1>3. /\ q.user = p.user /\ q.node = p.node
        /\ q.qnode = p.qnode /\ q.door = p.door
    BY DEF Process
  <1> QED
    BY <1>1, <1>2, <1>3 DEF WithUser

WithNode(p, x, y) == [p EXCEPT !.stage = x, !.qnode = y]

\* A process that moves to a stage and has a copy of the node.
LEMMA StageQnode ==
    ASSUME NEW p \in Process, NEW x \in Stages, NEW y \in Node \cup {Nil}
    PROVE  LET q == WithNode(p, x, y) IN
             /\ q \in Process /\ q.stage = x /\ q.qnode = y
             /\ q.user = p.user /\ q.node = p.node
             /\ q.useron = p.useron /\ q.door = p.door
  <1> DEFINE q == [p EXCEPT !.stage = x, !.qnode = y]
  <1>1. q \in Process
    <2>1. [p EXCEPT !.stage = x] \in Process
      BY DEF Process
    <2>2. \A r \in Process : [r EXCEPT !.qnode = y] \in Process
      BY DEF Process
    <2> QED
      BY <2>1, <2>2
  <1>2. q.stage = x /\ q.qnode = y
    BY DEF Process
  <1>3. /\ q.user = p.user /\ q.node = p.node
        /\ q.useron = p.useron /\ q.door = p.door
    BY DEF Process
  <1> QED
    BY <1>1, <1>2, <1>3 DEF WithNode

WithDoor(p, x, y) == [p EXCEPT !.stage = x, !.door = y]

\* A process that moves to a stage and has a copy of the door.
LEMMA StageDoor ==
    ASSUME NEW p \in Process, NEW x \in Stages, NEW y \in Door \cup {Nil}
    PROVE  LET q == WithDoor(p, x, y) IN
             /\ q \in Process /\ q.stage = x /\ q.door = y
             /\ q.user = p.user /\ q.node = p.node
             /\ q.useron = p.useron /\ q.qnode = p.qnode
  <1> DEFINE q == [p EXCEPT !.stage = x, !.door = y]
  <1>1. q \in Process
    <2>1. [p EXCEPT !.stage = x] \in Process
      BY DEF Process
    <2>2. \A r \in Process : [r EXCEPT !.door = y] \in Process
      BY DEF Process
    <2> QED
      BY <2>1, <2>2
  <1>2. q.stage = x /\ q.door = y
    BY DEF Process
  <1>3. /\ q.user = p.user /\ q.node = p.node
        /\ q.useron = p.useron /\ q.qnode = p.qnode
    BY DEF Process
  <1> QED
    BY <1>1, <1>2, <1>3 DEF WithDoor

\* One process changes, and it fits its new stage: all do.
LEMMA Moves ==
    ASSUME sess \in [Sessions -> Process], \A t \in Sessions : Fits(sess[t]),
           NEW s \in Sessions, NEW p \in Process, Fits(p), sess' = [sess EXCEPT ![s] = p]
    PROVE  /\ sess' \in [Sessions -> Process] /\ \A t \in Sessions : Fits(sess'[t])
           /\ sess'[s] = p /\ \A t \in Sessions \ {s} : sess'[t] = sess[t]
  OBVIOUS

\* The sessions, apart from the stores.
Typed == sess \in [Sessions -> Process] /\ \A s \in Sessions : Fits(sess[s])

Stores == /\ users \in [Users -> User] /\ nodes \in [Nodes -> Node]
          /\ door \in Door /\ day \in 1 .. MaxDay

\* Only s changes, and it is in that stage.
Takes(s, stage) ==
    /\ Typed'
    /\ \A t \in Sessions \ {s} : sess'[t] = sess[t]
    /\ sess'[s].stage = stage

\* s keeps its user.
Keeps(s) == sess'[s].user = sess[s].user /\ sess'[s].useron = sess[s].useron

LEMMA LoadNodeTakes ==
    ASSUME Typed, Stores, NEW s \in Sessions, NEW u \in Users, NEW n \in Nodes,
           LoadNode(s, u, n)
    PROVE  Takes(s, "noded")
  <1> DEFINE p == [stage |-> "noded", user |-> u, node |-> n, useron |-> Nil,
                   qnode |-> nodes[n], door |-> Nil]
  <1>1. p \in Process /\ p.stage = "noded" /\ p.user = u /\ p.node = n
            /\ p.qnode = nodes[n]
    BY DEF Stores, Process, Stages
  <1>2. sess' = [sess EXCEPT ![s] = p]
    BY DEF LoadNode
  <1> HIDE DEF p
  <1>3. Fits(p)
    BY <1>1 DEF Fits, Stores
  <1> QED
    BY <1>1, <1>2, <1>3, Moves DEF Takes, Typed

LEMMA LoadUserTakes ==
    ASSUME Typed, Stores, NEW s \in Sessions, LoadUser(s)
    PROVE  /\ Takes(s, "loaded")
           /\ sess'[s].user \in Users /\ sess'[s].user = sess[s].user
           /\ sess'[s].useron = Called(users[sess[s].user])
  <1> DEFINE u == Called(users[sess[s].user])
             p == WithUser(sess[s], "loaded", u)
  <1>1. sess[s] \in Process /\ Fits(sess[s]) /\ sess[s].stage = "noded"
    BY DEF Typed, LoadUser
  <1>2. sess[s].user \in Users /\ sess[s].node \in Nodes /\ sess[s].qnode \in Node
    BY <1>1 DEF Fits
  <1>3. u \in User
    BY <1>2, SessionAssumption, CalledType DEF Stores
  <1>4. sess' = [sess EXCEPT ![s] = p]
    BY DEF LoadUser, Typed, WithUser
  <1> HIDE DEF u
  <1>5. /\ p \in Process /\ p.stage = "loaded" /\ p.useron = u
        /\ p.user = sess[s].user /\ p.node = sess[s].node /\ p.qnode = sess[s].qnode
    <2>1. "loaded" \in Stages /\ u \in User \cup {Nil}
      BY <1>3 DEF Stages
    <2> QED
      BY <1>1, <2>1, StageUseron
  <1> HIDE DEF p
  <1>6. Fits(p)
    BY <1>2, <1>3, <1>5 DEF Fits
  <1>7. Takes(s, "loaded") /\ sess'[s] = p
    BY <1>4, <1>5, <1>6, Moves DEF Takes, Typed
  <1> QED
    BY <1>2, <1>5, <1>7 DEF u

\* bbs_send_status, of a process that is on a node.
LEMMA SendStatusTakes ==
    ASSUME Typed, Stores, NEW s \in Sessions, sess[s].stage # "out",
           NEW action \in Action, NEW stage \in Stages, SendStatus(s, action, stage),
           Fits([sess[s] EXCEPT !.stage = stage])
    PROVE  /\ Takes(s, stage) /\ Keeps(s) /\ sess'[s].door = sess[s].door
           /\ nodes' \in [Nodes -> Node]
  <1> DEFINE n == sess[s].node
             shown == [sess[s].qnode EXCEPT !.action = action,
                          !.useron = IF action = "NODE_OFFL" THEN Nobody ELSE sess[s].user]
             stored == NodePut(nodes[n], shown)
             p == WithNode(sess[s], stage, stored)
  <1>1. sess[s] \in Process /\ Fits(sess[s])
    BY DEF Typed
  <1>2. sess[s].user \in Users /\ n \in Nodes /\ sess[s].qnode \in Node
    BY <1>1 DEF Fits
  <1>3. shown \in Node
    <2>1. [sess[s].qnode EXCEPT !.action = action] \in Node
      BY <1>2 DEF Node
    <2>2. \A q \in Node, w \in Users \cup {Nobody} : [q EXCEPT !.useron = w] \in Node
      BY DEF Node
    <2> QED
      BY <1>2, <2>1, <2>2
  <1> HIDE DEF shown
  <1>4. stored \in Node
    BY <1>2, <1>3, NodePutType DEF Stores
  <1>5. sess' = [sess EXCEPT ![s] = p] /\ nodes' = [nodes EXCEPT ![n] = stored]
    BY DEF SendStatus, Typed, WithNode, shown
  <1> HIDE DEF stored
  <1>6. /\ p \in Process /\ p.stage = stage /\ p.qnode = stored
        /\ p.user = sess[s].user /\ p.node = sess[s].node
        /\ p.useron = sess[s].useron /\ p.door = sess[s].door
    BY <1>1, <1>4, StageQnode
  <1> HIDE DEF p
  <1>7. Fits(p)
    <2>1. /\ [sess[s] EXCEPT !.stage = stage].stage = stage
          /\ [sess[s] EXCEPT !.stage = stage].useron = sess[s].useron
          /\ [sess[s] EXCEPT !.stage = stage].door = sess[s].door
      BY <1>1 DEF Process
    <2> QED
      BY <1>2, <1>4, <1>6, <2>1 DEF Fits
  <1>8. Takes(s, stage) /\ sess'[s] = p
    BY <1>5, <1>6, <1>7, Moves DEF Takes, Typed
  <1> QED
    BY <1>2, <1>4, <1>5, <1>6, <1>8 DEF Keeps, Stores

LEMMA MainMenuTakes ==
    ASSUME Typed, Stores, NEW s \in Sessions, MainMenu(s)
    PROVE  Takes(s, "menu") /\ Keeps(s) /\ nodes' \in [Nodes -> Node]
  <1>1. sess[s] \in Process /\ Fits(sess[s]) /\ sess[s].stage = "loaded"
    BY DEF Typed, MainMenu
  <1>2. Fits([sess[s] EXCEPT !.stage = "menu"])
    BY <1>1 DEF Fits, Process
  <1> QED
    BY <1>1, <1>2, SendStatusTakes DEF MainMenu, Action, Stages

LEMMA DoorShowTakes ==
    ASSUME Typed, Stores, NEW s \in Sessions, DoorShow(s)
    PROVE  /\ Takes(s, "door_shown") /\ Keeps(s) /\ sess'[s].door = sess[s].door
           /\ nodes' \in [Nodes -> Node]
  <1>1. sess[s] \in Process /\ Fits(sess[s]) /\ sess[s].stage = "door_taken"
    BY DEF Typed, DoorShow
  <1>2. Fits([sess[s] EXCEPT !.stage = "door_shown"])
    BY <1>1 DEF Fits, Process
  <1> QED
    BY <1>1, <1>2, SendStatusTakes DEF DoorShow, Action, Stages

LEMMA GetStatusTakes ==
    ASSUME Typed, Stores, NEW s \in Sessions, GetStatus(s)
    PROVE  Takes(s, "menu") /\ Keeps(s)
  <1> DEFINE q == nodes[sess[s].node]
             p == WithNode(sess[s], "menu", q)
  <1>1. sess[s] \in Process /\ Fits(sess[s]) /\ sess[s].stage = "menu"
    BY DEF Typed, GetStatus
  <1>2. sess[s].user \in Users /\ sess[s].node \in Nodes /\ sess[s].useron \in User
    BY <1>1 DEF Fits
  <1>3. q \in Node
    BY <1>2 DEF Stores
  <1>4. sess' = [sess EXCEPT ![s] = p]
    <2>1. [sess[s] EXCEPT !.stage = "menu", !.qnode = q] = [sess[s] EXCEPT !.qnode = q]
      BY <1>1 DEF Process
    <2> QED
      BY <2>1 DEF GetStatus, Typed, WithNode
  <1> HIDE DEF q
  <1>5. /\ p \in Process /\ p.stage = "menu" /\ p.qnode = q
        /\ p.user = sess[s].user /\ p.node = sess[s].node
        /\ p.useron = sess[s].useron
    <2>1. "menu" \in Stages /\ q \in Node \cup {Nil}
      BY <1>3 DEF Stages
    <2> QED
      BY <1>1, <2>1, StageQnode
  <1> HIDE DEF p
  <1>6. Fits(p)
    BY <1>2, <1>3, <1>5 DEF Fits
  <1>7. Takes(s, "menu") /\ sess'[s] = p
    BY <1>4, <1>5, <1>6, Moves DEF Takes, Typed
  <1> QED
    BY <1>5, <1>7 DEF Keeps

LEMMA DoorReadTakes ==
    ASSUME Typed, Stores, NEW s \in Sessions, DoorRead(s)
    PROVE  Takes(s, "door_read") /\ Keeps(s) /\ sess'[s].door = door
  <1> DEFINE p == WithDoor(sess[s], "door_read", door)
  <1>1. sess[s] \in Process /\ Fits(sess[s]) /\ sess[s].stage = "menu"
    BY DEF Typed, DoorRead
  <1>2. sess' = [sess EXCEPT ![s] = p]
    BY DEF DoorRead, Typed, WithDoor
  <1>3. /\ p \in Process /\ p.stage = "door_read" /\ p.door = door
        /\ p.user = sess[s].user /\ p.node = sess[s].node
        /\ p.useron = sess[s].useron /\ p.qnode = sess[s].qnode
    <2>1. "door_read" \in Stages /\ door \in Door \cup {Nil}
      BY DEF Stages, Stores
    <2> QED
      BY <1>1, <2>1, StageDoor
  <1> HIDE DEF p
  <1>4. Fits(p)
    BY <1>1, <1>3 DEF Fits, Stores
  <1>5. Takes(s, "door_read") /\ sess'[s] = p
    BY <1>2, <1>3, <1>4, Moves DEF Takes, Typed
  <1> QED
    BY <1>3, <1>5 DEF Keeps

\* door_put, of a process with a copy.
LEMMA PutDoorTakes ==
    ASSUME Typed, Stores, NEW s \in Sessions, InDoor(s), NEW record \in Door,
           NEW stage \in Stages \ {"out", "noded"}, NEW copied \in BOOLEAN,
           PutDoor(s, record, stage, copied),
           ~ copied => stage \notin {"door_read", "door_taken", "door_shown"}
    PROVE  /\ Takes(s, stage) /\ Keeps(s)
           /\ copied => sess'[s].door = door'
           /\ door' = DoorPut(door, record) /\ door' \in Door
  <1> DEFINE stored == DoorPut(door, record)
             kept == IF copied THEN stored ELSE Nil
             p == WithDoor(sess[s], stage, kept)
  <1>1. sess[s] \in Process /\ Fits(sess[s]) /\ sess[s].stage \notin {"out", "noded"}
    BY DEF Typed, InDoor
  <1>2. stored \in Door
    BY DoorPutType DEF Stores
  <1>3. sess' = [sess EXCEPT ![s] = p] /\ door' = stored
    BY DEF PutDoor, Typed, WithDoor
  <1> HIDE DEF stored
  <1>4. kept \in Door \cup {Nil} /\ (copied => kept = stored)
    BY <1>2
  <1> HIDE DEF kept
  <1>5. /\ p \in Process /\ p.stage = stage /\ p.door = kept
        /\ p.user = sess[s].user /\ p.node = sess[s].node
        /\ p.useron = sess[s].useron /\ p.qnode = sess[s].qnode
    BY <1>1, <1>4, StageDoor
  <1> HIDE DEF p
  <1>6. Fits(p)
    BY <1>1, <1>2, <1>4, <1>5 DEF Fits
  <1>7. Takes(s, stage) /\ sess'[s] = p
    BY <1>3, <1>5, <1>6, Moves DEF Takes, Typed
  <1> QED
    BY <1>2, <1>3, <1>4, <1>5, <1>7 DEF Keeps, stored

LEMMA DoorTakeTakes ==
    ASSUME Typed, Stores, NEW s \in Sessions, DoorTake(s)
    PROVE  /\ Takes(s, "door_taken") /\ Keeps(s) /\ sess'[s].door = door'
           /\ sess[s].door \in Door
           /\ [sess[s].door EXCEPT !.active = TRUE] \in Door
           /\ door' = DoorPut(door, [sess[s].door EXCEPT !.active = TRUE])
           /\ door' \in Door
  <1>1. Fits(sess[s]) /\ sess[s].stage = "door_read"
    BY DEF Typed, DoorTake
  <1>2. sess[s].door \in Door /\ InDoor(s)
    BY <1>1 DEF Fits, InDoor
  <1>3. [sess[s].door EXCEPT !.active = TRUE] \in Door
    BY <1>2 DEF Door
  <1>4. PutDoor(s, [sess[s].door EXCEPT !.active = TRUE], "door_taken", TRUE)
    BY DEF DoorTake
  <1>5. "door_taken" \in Stages \ {"out", "noded"}
    BY DEF Stages
  <1> QED
    BY <1>2, <1>3, <1>4, <1>5, PutDoorTakes

LEMMA StoreUserTakes ==
    ASSUME Typed, Stores, NEW s \in Sessions, StoreUser(s)
    PROVE  /\ Takes(s, "leaving")
           /\ sess[s].user \in Users /\ sess[s].useron \in User
           /\ users' \in [Users -> User]
           /\ \E m \in Minutes :
                 users' = [users EXCEPT ![sess[s].user] =
                     UserPut(users[sess[s].user], [sess[s].useron EXCEPT !.today = @ + m])]
  <1>1. sess[s] \in Process /\ Fits(sess[s]) /\ sess[s].stage = "menu"
    BY DEF Typed, StoreUser
  <1>2. /\ sess[s].user \in Users /\ sess[s].node \in Nodes
        /\ sess[s].useron \in User /\ sess[s].qnode \in Node
    BY <1>1 DEF Fits
  <1>3. PICK m \in Minutes :
           LET stored == UserPut(users[sess[s].user], [sess[s].useron EXCEPT !.today = @ + m])
           IN  /\ users' = [users EXCEPT ![sess[s].user] = stored]
               /\ sess' = [sess EXCEPT ![s].useron = stored, ![s].stage = "leaving"]
    BY DEF StoreUser
  <1> DEFINE stored == UserPut(users[sess[s].user], [sess[s].useron EXCEPT !.today = @ + m])
             p == WithUser(sess[s], "leaving", stored)
  <1>4. stored \in User
    <2>1. [sess[s].useron EXCEPT !.today = @ + m] \in User
      BY <1>2, SessionAssumption DEF User
    <2> QED
      BY <1>2, <2>1, UserPutType DEF Stores
  <1>5. sess' = [sess EXCEPT ![s] = p] /\ users' = [users EXCEPT ![sess[s].user] = stored]
    <2>1. p = [sess[s] EXCEPT !.useron = stored, !.stage = "leaving"]
      BY <1>1 DEF WithUser, Process
    <2> QED
      BY <1>3, <2>1 DEF Typed
  <1> HIDE DEF stored
  <1>6. /\ p \in Process /\ p.stage = "leaving" /\ p.useron = stored
        /\ p.user = sess[s].user /\ p.node = sess[s].node /\ p.qnode = sess[s].qnode
    <2>1. "leaving" \in Stages /\ stored \in User \cup {Nil}
      BY <1>4 DEF Stages
    <2> QED
      BY <1>1, <2>1, StageUseron
  <1> HIDE DEF p
  <1>7. Fits(p)
    BY <1>2, <1>4, <1>6 DEF Fits
  <1>8. Takes(s, "leaving") /\ sess'[s] = p
    BY <1>5, <1>6, <1>7, Moves DEF Takes, Typed
  <1>9. users' \in [Users -> User]
    BY <1>4, <1>5 DEF Stores
  <1> QED
    BY <1>2, <1>5, <1>8, <1>9 DEF stored

LEMMA OutTakes ==
    ASSUME Typed, NEW s \in Sessions, sess' = [sess EXCEPT ![s] = Out]
    PROVE  Takes(s, "out")
  <1>1. Out \in Process /\ Out.stage = "out"
    BY DEF Out, Process, Stages
  <1>2. Fits(Out)
    BY <1>1 DEF Fits
  <1> QED
    BY <1>1, <1>2, Moves DEF Takes, Typed

LEMMA LogOffTakes ==
    ASSUME Typed, Stores, NEW s \in Sessions, LogOff(s)
    PROVE  Takes(s, "out") /\ nodes' \in [Nodes -> Node]
  <1> DEFINE n == sess[s].node
             offline == [sess[s].qnode EXCEPT !.action = "NODE_OFFL", !.useron = Nobody]
  <1>1. Fits(sess[s]) /\ sess[s].stage = "leaving"
    BY DEF Typed, LogOff
  <1>2. n \in Nodes /\ sess[s].qnode \in Node
    BY <1>1 DEF Fits
  <1>3. offline \in Node
    <2>1. [sess[s].qnode EXCEPT !.action = "NODE_OFFL"] \in Node
      BY <1>2 DEF Node, Action
    <2>2. \A q \in Node : [q EXCEPT !.useron = Nobody] \in Node
      BY DEF Node
    <2> QED
      BY <2>1, <2>2
  <1>4. /\ sess' = [sess EXCEPT ![s] = Out]
        /\ nodes' = [nodes EXCEPT ![n] = NodePut(nodes[n], offline)]
    BY DEF LogOff
  <1> HIDE DEF offline
  <1>5. nodes' \in [Nodes -> Node]
    BY <1>2, <1>3, <1>4, NodePutType DEF Stores
  <1> QED
    BY <1>4, <1>5, OutTakes

\* One more run of a user, and no other of another.
LEMMA RanType ==
    ASSUME NEW used \in Usage, NEW u \in Users, NEW m \in Nat
    PROVE  /\ Ran(used, u, m) \in Usage
           /\ Ran(used, u, m)[u].runs = used[u].runs + 1
           /\ \A v \in Users \ {u} : Ran(used, u, m)[v] = used[v]
  BY DEF Ran, Usage

\* The record that bbs_doors gives back.
Given(copy, u, m) == [copy EXCEPT !.active = FALSE, !.usage = Ran(@, u, m)]

LEMMA GivenType ==
    ASSUME NEW copy \in Door, NEW u \in Users, NEW m \in Nat
    PROVE  /\ Given(copy, u, m) \in Door
           /\ Given(copy, u, m).rev = copy.rev
           /\ Given(copy, u, m).active = FALSE
           /\ Given(copy, u, m).multiuser = copy.multiuser
           /\ Given(copy, u, m).usage = Ran(copy.usage, u, m)
  <1> DEFINE used == Ran(copy.usage, u, m)
  <1>1. used \in Usage
    BY RanType DEF Door
  <1>2. Given(copy, u, m) = [copy EXCEPT !.active = FALSE, !.usage = used]
    BY DEF Given, Door
  <1> HIDE DEF used
  <1>3. [copy EXCEPT !.active = FALSE, !.usage = used] \in Door
    <2>1. [copy EXCEPT !.active = FALSE] \in Door
      BY DEF Door
    <2>2. \A r \in Door : [r EXCEPT !.usage = used] \in Door
      BY <1>1 DEF Door
    <2> QED
      BY <2>1, <2>2
  <1>4. /\ [copy EXCEPT !.active = FALSE, !.usage = used].rev = copy.rev
        /\ [copy EXCEPT !.active = FALSE, !.usage = used].active = FALSE
        /\ [copy EXCEPT !.active = FALSE, !.usage = used].multiuser = copy.multiuser
        /\ [copy EXCEPT !.active = FALSE, !.usage = used].usage = used
    BY DEF Door
  <1> QED
    BY <1>2, <1>3, <1>4 DEF used

LEMMA DoorGiveTakes ==
    ASSUME Typed, Stores, NEW s \in Sessions, DoorGive(s), played \in Usage
    PROVE  /\ Takes(s, "menu") /\ Keeps(s)
           /\ sess[s].door \in Door /\ sess[s].user \in Users
           /\ door' \in Door /\ played' \in Usage
           /\ \E m \in Minutes :
                 /\ door' = DoorPut(door, Given(sess[s].door, sess[s].user, m))
                 /\ played' = Ran(played, sess[s].user, m)
  <1>1. Fits(sess[s]) /\ sess[s].stage = "door_shown"
    BY DEF Typed, DoorGive
  <1>2. sess[s].door \in Door /\ InDoor(s) /\ sess[s].user \in Users
    BY <1>1 DEF Fits, InDoor
  <1>3. PICK m \in Minutes :
           /\ PutDoor(s, Given(sess[s].door, sess[s].user, m), "menu", FALSE)
           /\ played' = Ran(played, sess[s].user, m)
    BY DEF DoorGive, Given
  <1>4. m \in Nat
    BY SessionAssumption
  <1>5. Given(sess[s].door, sess[s].user, m) \in Door
    BY <1>2, <1>4, GivenType
  <1>6. "menu" \in Stages \ {"out", "noded"}
    BY DEF Stages
  <1>7. played' \in Usage
    BY <1>2, <1>3, <1>4, RanType
  <1>8. /\ Takes(s, "menu") /\ Keeps(s) /\ door' \in Door
        /\ door' = DoorPut(door, Given(sess[s].door, sess[s].user, m))
    BY <1>2, <1>3, <1>5, <1>6, PutDoorTakes
  <1> QED
    BY <1>2, <1>3, <1>7, <1>8

-----------------------------------------------------------------------------
(***************************************************************************)
(* Types.                                                                  *)
(***************************************************************************)

\* The histories and the bounds.
Histories ==
    /\ logins \in 0 .. MaxLogins /\ runs \in 0 .. MaxRuns
    /\ worked \in [Users -> [1 .. MaxDay -> Nat]]
    /\ logoffs \in [Users -> Nat]
    /\ played \in Usage
    /\ twin \subseteq Users
    /\ fate \in [Nodes -> {"off", "on", "lost", "mixed"}]
    /\ stuck \in BOOLEAN /\ raced \in BOOLEAN

LEMMA TypeParts == TypeOK <=> Typed /\ Stores /\ Histories
  BY DEF TypeOK, Typed, Stores, Histories

LEMMA InitType == Init => TypeOK
  <1> SUFFICES ASSUME Init PROVE TypeOK
    OBVIOUS
  <1>1. Unused \in Usage
    BY DEF Unused, Usage
  <1>2. Out \in Process /\ Fits(Out)
    BY DEF Out, Process, Stages, Fits
  <1>3. Typed
    BY <1>2 DEF Init, Typed
  <1>4. users \in [Users -> User]
    BY SessionAssumption DEF Init, User
  <1>5. nodes \in [Nodes -> Node]
    BY DEF Init, Node, Action
  <1>6. door \in Door
    BY <1>1 DEF Init, Door
  <1>7. Stores
    BY <1>4, <1>5, <1>6, SessionAssumption DEF Init, Stores
  <1>8. Histories
    <2>1. worked \in [Users -> [1 .. MaxDay -> Nat]]
      BY DEF Init
    <2>2. logins \in 0 .. MaxLogins /\ runs \in 0 .. MaxRuns
      BY SessionAssumption DEF Init
    <2> QED
      BY <1>1, <2>1, <2>2 DEF Init, Histories
  <1> QED
    BY <1>3, <1>7, <1>8, TypeParts

\* Every step keeps the types.
LEMMA TypeNext == TypeOK /\ [Next]_vars => TypeOK'
  <1> SUFFICES ASSUME Typed, Stores, Histories, [Next]_vars
               PROVE  Typed' /\ Stores' /\ Histories'
    BY TypeParts DEF TypeOK, Typed, Stores, Histories
  <1>1. CASE UNCHANGED vars
    <2>1. Typed'
      BY <1>1 DEF vars, Typed, Fits
    <2>2. Stores' /\ Histories'
      BY <1>1 DEF vars, Stores, Histories
    <2> QED
      BY <2>1, <2>2
  <1>2. CASE NextDay
    <2>1. Typed' 
      BY <1>2 DEF NextDay, Typed, Fits
    <2>2. Stores' /\ Histories'
      BY <1>2, SessionAssumption DEF NextDay, Stores, Histories
    <2> QED
      BY <2>1, <2>2
  <1>3. ASSUME NEW s \in Sessions, NEW u \in Users, NEW n \in Nodes, LoadNode(s, u, n)
        PROVE  Typed' /\ Stores' /\ Histories'
    <2>1. Typed'
      BY <1>3, LoadNodeTakes DEF Takes
    <2>2. Stores' /\ Histories'
      BY <1>3, SessionAssumption DEF LoadNode, Stores, Histories
    <2> QED
      BY <2>1, <2>2
  <1>4. ASSUME NEW s \in Sessions, LoadUser(s)
        PROVE  Typed' /\ Stores' /\ Histories'
    <2>1. Typed' /\ sess'[s].user = sess[s].user /\ sess'[s].user \in Users
      BY <1>4, LoadUserTakes DEF Takes
    <2>2. Stores'
      BY <1>4 DEF LoadUser, Stores
    <2>3. twin' \subseteq Users
      BY <1>4, <2>1 DEF LoadUser, Histories
    <2>4. Histories'
      BY <1>4, <2>3 DEF LoadUser, Histories
    <2> QED
      BY <2>1, <2>2, <2>4
  <1>5. ASSUME NEW s \in Sessions, MainMenu(s)
        PROVE  Typed' /\ Stores' /\ Histories'
    BY <1>5, MainMenuTakes DEF MainMenu, Takes, Stores, Histories
  <1>6. ASSUME NEW s \in Sessions, GetStatus(s)
        PROVE  Typed' /\ Stores' /\ Histories'
    BY <1>6, GetStatusTakes DEF GetStatus, Takes, Stores, Histories
  <1>7. ASSUME NEW s \in Sessions, DoorRead(s)
        PROVE  Typed' /\ Stores' /\ Histories'
    <2>1. Typed'
      BY <1>7, DoorReadTakes DEF Takes
    <2>2. runs' \in 0 .. MaxRuns
      BY <1>7, SessionAssumption DEF DoorRead, Histories
    <2>3. Stores' /\ Histories'
      BY <1>7, <2>2 DEF DoorRead, Stores, Histories
    <2> QED
      BY <2>1, <2>3
  <1>8. ASSUME NEW s \in Sessions, DoorTake(s)
        PROVE  Typed' /\ Stores' /\ Histories'
    BY <1>8, DoorTakeTakes DEF DoorTake, Takes, Stores, Histories
  <1>9. ASSUME NEW s \in Sessions, DoorShow(s)
        PROVE  Typed' /\ Stores' /\ Histories'
    BY <1>9, DoorShowTakes DEF DoorShow, Takes, Stores, Histories
  <1>10. ASSUME NEW s \in Sessions, DoorGive(s)
         PROVE  Typed' /\ Stores' /\ Histories'
    <2>1. Typed' /\ door' \in Door /\ played' \in Usage
      BY <1>10, DoorGiveTakes DEF Takes, Histories
    <2>2. Stores' /\ Histories'
      BY <1>10, <2>1 DEF DoorGive, Stores, Histories
    <2> QED
      BY <2>1, <2>2
  <1>11. ASSUME NEW s \in Sessions, StoreUser(s)
         PROVE  Typed' /\ Stores' /\ Histories'
    <2>1. Typed' /\ users' \in [Users -> User] /\ sess[s].user \in Users
      BY <1>11, StoreUserTakes DEF Takes
    <2>2. Stores'
      BY <1>11, <2>1 DEF StoreUser, Stores
    <2>3. PICK m \in Minutes :
             worked' = [worked EXCEPT ![sess[s].user][sess[s].useron.lastcall] = @ + m]
      BY <1>11 DEF StoreUser
    <2> DEFINE w == worked[sess[s].user]
               d == sess[s].useron.lastcall
    <2>4. [w EXCEPT ![d] = w[d] + m] \in [1 .. MaxDay -> Nat]
      <3>1. m \in Nat /\ MaxDay \in Nat
        BY SessionAssumption
      <3>2. w \in [1 .. MaxDay -> Nat]
        BY <2>1 DEF Histories
      <3>3. d \in 0 .. MaxDay
        BY <1>11, StoreUserTakes DEF User
      <3> HIDE DEF w, d
      <3>4. CASE d = 0
        <4>1. [w EXCEPT ![d] = w[d] + m] = w
          BY <3>1, <3>2, <3>4
        <4> QED
          BY <3>2, <4>1
      <3>5. CASE d \in 1 .. MaxDay
        BY <3>1, <3>2, <3>5
      <3> QED
        BY <3>1, <3>3, <3>4, <3>5
    <2>5. worked' \in [Users -> [1 .. MaxDay -> Nat]]
      BY <2>1, <2>3, <2>4 DEF Histories
    <2>6. logoffs' \in [Users -> Nat]
      BY <1>11, <2>1 DEF StoreUser, Histories
    <2>7. Histories'
      BY <1>11, <2>5, <2>6 DEF StoreUser, Histories
    <2> QED
      BY <2>1, <2>2, <2>7
  <1>12. ASSUME NEW s \in Sessions, LogOff(s)
         PROVE  Typed' /\ Stores' /\ Histories'
    BY <1>12, LogOffTakes DEF LogOff, Takes, Stores, Histories
  <1>13. ASSUME NEW s \in Sessions, Lost(s)
         PROVE  Typed' /\ Stores' /\ Histories'
    <2>1. Typed'
      BY <1>13, OutTakes DEF Lost, Takes
    <2>2. Stores' /\ Histories'
      BY <1>13 DEF Lost, Stores, Histories, Inside
    <2> QED
      BY <2>1, <2>2
  <1> QED
    BY <1>1, <1>2, <1>3, <1>4, <1>5, <1>6, <1>7, <1>8, <1>9, <1>10, <1>11, <1>12,
       <1>13 DEF Next

-----------------------------------------------------------------------------
(***************************************************************************)
(* The copies.                                                             *)
(***************************************************************************)

\* The put of a copy that is no newer than the record, and one call ahead when
\* it is as new, adds one call or none.
LEMMA UserPutCalls ==
    ASSUME NEW ondisk \in User, NEW record \in User, record.rev <= ondisk.rev,
           record.rev = ondisk.rev => record.calls = ondisk.calls + 1
    PROVE  /\ UserPut(ondisk, record).rev = ondisk.rev + 1
           /\ \/ UserPut(ondisk, record).calls = ondisk.calls
              \/ UserPut(ondisk, record).calls = ondisk.calls + 1
  BY DEF UserPut, Stored, User

\* The put of a door takes its state from the copy, and from the copy or from
\* the larger counters its usage.
LEMMA DoorPutFields ==
    ASSUME NEW ondisk \in Door, NEW record \in Door
    PROVE  /\ DoorPut(ondisk, record).rev = ondisk.rev + 1
           /\ DoorPut(ondisk, record).multiuser = record.multiuser
           /\ DoorPut(ondisk, record).active = record.active
           /\ ondisk.rev <= record.rev => DoorPut(ondisk, record).usage = record.usage
           /\ ondisk.rev > record.rev => \A u \in Users :
                 DoorPut(ondisk, record).usage[u].runs =
                     Later(ondisk.usage[u].runs, record.usage[u].runs)
  <1> DEFINE merged == [u \in Users |->
                 [runs |-> Later(ondisk.usage[u].runs, record.usage[u].runs),
                  wasted |-> Later(ondisk.usage[u].wasted, record.usage[u].wasted)]]
             normal == [record EXCEPT !.usage = merged, !.rev = ondisk.rev + 1]
             next == [record EXCEPT !.rev = ondisk.rev + 1]
  <1>1. \A u \in Users : merged[u].runs = Later(ondisk.usage[u].runs, record.usage[u].runs)
    OBVIOUS
  <1>2. DoorPut(ondisk, record) = IF ondisk.rev > record.rev THEN normal ELSE next
    BY DEF DoorPut, Stored, DoorNormalize
  <1> HIDE DEF merged
  <1>3. /\ normal.rev = ondisk.rev + 1 /\ normal.multiuser = record.multiuser
        /\ normal.active = record.active /\ normal.usage = merged
    BY DEF Door
  <1>4. /\ next.rev = ondisk.rev + 1 /\ next.multiuser = record.multiuser
        /\ next.active = record.active /\ next.usage = record.usage
    BY DEF Door
  <1> HIDE DEF normal, next
  <1>5. ondisk.rev \in Nat /\ record.rev \in Nat
    BY DEF Door
  <1> QED
    BY <1>1, <1>2, <1>3, <1>4, <1>5

\* A step that stores no user keeps the copies of users: the process that
\* takes it has the same copy as before, or none.
LEMMA UserCopyKept ==
    ASSUME \A t \in Sessions : UserCopy(t), NEW s \in Sessions, NEW stage,
           Takes(s, stage), users' = users,
           stage \in {"out", "noded", "leaving"} \/ (Loaded(s) /\ Keeps(s))
    PROVE  \A t \in Sessions : UserCopy(t)'
  <1> SUFFICES ASSUME NEW t \in Sessions PROVE UserCopy(t)'
    OBVIOUS
  <1>1. CASE t # s
    BY <1>1 DEF UserCopy, Loaded, Takes
  <1>2. CASE t = s
    BY <1>2 DEF UserCopy, Loaded, Takes, Keeps
  <1> QED
    BY <1>1, <1>2

\* A step that does not change the door keeps the copies of the door.
LEMMA DoorCopyKept ==
    ASSUME \A t \in Sessions : DoorCopy(t), NEW s \in Sessions, NEW stage,
           Takes(s, stage), door' = door,
           \/ stage \notin {"door_read", "door_taken", "door_shown"}
           \/ InDoor(s) /\ sess'[s].door = sess[s].door
    PROVE  \A t \in Sessions : DoorCopy(t)'
  <1> SUFFICES ASSUME NEW t \in Sessions PROVE DoorCopy(t)'
    OBVIOUS
  <1>1. CASE t # s
    BY <1>1 DEF DoorCopy, InDoor, Takes
  <1>2. CASE t = s
    BY <1>2 DEF DoorCopy, InDoor, Takes
  <1> QED
    BY <1>1, <1>2

\* A put of the door leaves the copies of the others older than the record.
LEMMA DoorCopyOlder ==
    ASSUME Typed, Stores, \A t \in Sessions : DoorCopy(t), NEW s \in Sessions, NEW stage,
           Takes(s, stage), door' \in Door, door'.rev = door.rev + 1,
           \A u \in Users : door.usage[u].runs <= door'.usage[u].runs,
           \/ stage \notin {"door_read", "door_taken", "door_shown"}
           \/ sess'[s].door = door'
    PROVE  \A t \in Sessions : DoorCopy(t)'
  <1> SUFFICES ASSUME NEW t \in Sessions PROVE DoorCopy(t)'
    OBVIOUS
  <1> USE DEF Stores
  <1>1. CASE t # s /\ InDoor(t)
    <2>1. sess[t].door \in Door /\ sess'[t] = sess[t]
      BY <1>1 DEF Typed, Fits, InDoor, Takes
    <2>2. \A u \in Users :
             /\ sess[t].door.usage[u].runs \in Nat
             /\ door.usage[u].runs \in Nat
             /\ door'.usage[u].runs \in Nat
      BY <2>1 DEF Door, Usage
    <2>3. sess[t].door.rev \in Nat /\ door.rev \in Nat
      BY <2>1 DEF Door
    <2> QED
      BY <1>1, <2>1, <2>2, <2>3 DEF DoorCopy, InDoor
  <1>2. CASE t # s /\ ~ InDoor(t)
    BY <1>2 DEF DoorCopy, InDoor, Takes
  <1>3. CASE t = s
    <2>1. \A u \in Users : door'.usage[u].runs \in Nat
      BY DEF Door, Usage
    <2>2. door'.rev \in Nat
      BY DEF Door
    <2> QED
      BY <1>3, <2>1, <2>2 DEF DoorCopy, InDoor, Takes
  <1> QED
    BY <1>1, <1>2, <1>3

\* The put that takes the door counts no run.
LEMMA TakeRuns ==
    ASSUME Typed, Stores, NEW s \in Sessions, DoorCopy(s), DoorTake(s)
    PROVE  /\ door'.rev = door.rev + 1
           /\ \A u \in Users : door'.usage[u].runs = door.usage[u].runs
  <1> DEFINE copy == sess[s].door
             record == [copy EXCEPT !.active = TRUE]
  <1>1. copy \in Door /\ record \in Door /\ door' = DoorPut(door, record)
    BY DoorTakeTakes
  <1>2. record.rev = copy.rev /\ record.usage = copy.usage
    BY <1>1 DEF Door
  <1>3. InDoor(s)
    BY DEF DoorTake, InDoor
  <1> HIDE DEF record
  <1>4. door \in Door
    BY DEF Stores
  <1>5. ASSUME NEW u \in Users
        PROVE  door'.usage[u].runs = door.usage[u].runs
    <2>1. door.usage[u].runs \in Nat /\ copy.usage[u].runs \in Nat
      BY <1>1, <1>4 DEF Door, Usage
    <2>2. copy.rev <= door.rev /\ copy.usage[u].runs <= door.usage[u].runs
             /\ (copy.rev = door.rev => copy.usage = door.usage)
      BY <1>3 DEF DoorCopy
    <2>3. copy.rev \in Nat /\ door.rev \in Nat
      BY <1>1, <1>4 DEF Door
    <2>4. CASE door.rev > record.rev
      <3>1. door'.usage[u].runs = Later(door.usage[u].runs, copy.usage[u].runs)
        BY <1>1, <1>2, <1>4, <2>4, DoorPutFields
      <3> QED
        BY <2>1, <2>2, <3>1 DEF Later
    <2>5. CASE door.rev = record.rev
      <3>1. door'.usage = copy.usage
        BY <1>1, <1>2, <1>4, <2>3, <2>5, DoorPutFields
      <3> QED
        BY <1>2, <2>2, <2>5, <3>1
    <2> QED
      BY <1>2, <2>2, <2>3, <2>4, <2>5
  <1> QED
    BY <1>1, <1>4, <1>5, DoorPutFields

\* The put that gives it back counts one run of the user, or none.
LEMMA GiveRuns ==
    ASSUME Typed, Stores, played \in Usage, NEW s \in Sessions, DoorCopy(s), DoorGive(s)
    PROVE  /\ door'.rev = door.rev + 1 /\ sess[s].user \in Users
           /\ \A u \in Users \ {sess[s].user} : door'.usage[u].runs = door.usage[u].runs
           /\ door'.usage[sess[s].user].runs \in
                 {door.usage[sess[s].user].runs, door.usage[sess[s].user].runs + 1}
  <1> DEFINE copy == sess[s].door
             me == sess[s].user
  <1>1. copy \in Door /\ me \in Users
    BY DoorGiveTakes
  <1>2. PICK m \in Minutes : door' = DoorPut(door, Given(copy, me, m))
    BY DoorGiveTakes
  <1> DEFINE record == Given(copy, me, m)
  <1>3. m \in Nat
    BY SessionAssumption
  <1>4. record \in Door /\ record.rev = copy.rev /\ record.usage = Ran(copy.usage, me, m)
    BY <1>1, <1>3, GivenType
  <1>5. copy.usage \in Usage
    BY <1>1 DEF Door
  <1>6. InDoor(s)
    BY DEF DoorGive, InDoor
  <1>7. door \in Door
    BY DEF Stores
  <1> HIDE DEF record
  <1>8. ASSUME NEW u \in Users
        PROVE  door'.usage[u].runs \in
                  {door.usage[u].runs} \cup IF u = me THEN {door.usage[u].runs + 1} ELSE {}
    <2>1. door.usage[u].runs \in Nat /\ copy.usage[u].runs \in Nat
      BY <1>1, <1>7 DEF Door, Usage
    <2>2. copy.rev <= door.rev /\ copy.usage[u].runs <= door.usage[u].runs
             /\ (copy.rev = door.rev => copy.usage = door.usage)
      BY <1>6 DEF DoorCopy
    <2>3. copy.rev \in Nat /\ door.rev \in Nat
      BY <1>1, <1>7 DEF Door
    <2>4. record.usage[u].runs = copy.usage[u].runs + IF u = me THEN 1 ELSE 0
      BY <1>1, <1>3, <1>4, <1>5, <2>1, RanType
    <2>5. CASE door.rev > record.rev
      <3>1. door'.usage[u].runs = Later(door.usage[u].runs, record.usage[u].runs)
        BY <1>2, <1>4, <1>7, <2>5, DoorPutFields DEF record
      <3> QED
        BY <2>1, <2>2, <2>4, <3>1 DEF Later
    <2>6. CASE door.rev = record.rev
      <3>1. door'.usage = record.usage
        BY <1>2, <1>4, <1>7, <2>3, <2>6, DoorPutFields DEF record
      <3>2. copy.usage[u].runs = door.usage[u].runs
        BY <1>4, <2>2, <2>6
      <3> QED
        BY <2>1, <2>4, <3>1, <3>2
    <2> QED
      BY <1>4, <2>2, <2>3, <2>5, <2>6
  <1>9. door'.rev = door.rev + 1
    BY <1>2, <1>4, <1>7, DoorPutFields DEF record
  <1> QED
    BY <1>1, <1>8, <1>9

\* The put of the user at log off counts one call, or none.
LEMMA StoreUserCalls ==
    ASSUME Typed, Stores, NEW s \in Sessions, UserCopy(s), StoreUser(s)
    PROVE  /\ sess[s].user \in Users
           /\ \A u \in Users \ {sess[s].user} : users'[u] = users[u]
           /\ users'[sess[s].user].rev = users[sess[s].user].rev + 1
           /\ users'[sess[s].user].calls \in
                 {users[sess[s].user].calls, users[sess[s].user].calls + 1}
  <1> DEFINE me == sess[s].user
  <1>1. me \in Users /\ sess[s].useron \in User
    BY StoreUserTakes
  <1>2. PICK m \in Minutes :
           users' = [users EXCEPT ![me] =
                        UserPut(users[me], [sess[s].useron EXCEPT !.today = @ + m])]
    BY StoreUserTakes
  <1> DEFINE record == [sess[s].useron EXCEPT !.today = @ + m]
  <1>3. record \in User /\ record.rev = sess[s].useron.rev /\ record.calls = sess[s].useron.calls
    BY <1>1, SessionAssumption DEF User
  <1>4. users[me] \in User /\ users'[me] = UserPut(users[me], record)
    BY <1>1, <1>2 DEF Stores
  <1> HIDE DEF record
  <1>5. /\ record.rev <= users[me].rev
        /\ record.rev = users[me].rev => record.calls = users[me].calls + 1
    BY <1>3 DEF UserCopy, StoreUser, Loaded
  <1>6. \A u \in Users \ {me} : users'[u] = users[u]
    BY <1>1, <1>2 DEF Stores
  <1> QED
    BY <1>1, <1>3, <1>4, <1>5, <1>6, UserPutCalls

\* Every step keeps the copies sound.
LEMMA CopiesNext ==
    ASSUME Typed, Stores, Histories, CopiesSound, [Next]_vars
    PROVE  CopiesSound'
  <1> SUFFICES (\A t \in Sessions : UserCopy(t)') /\ (\A t \in Sessions : DoorCopy(t)')
    BY DEF CopiesSound
  <1>0. (\A t \in Sessions : UserCopy(t)) /\ (\A t \in Sessions : DoorCopy(t))
    BY DEF CopiesSound
  <1>1. CASE UNCHANGED vars
    BY <1>1, <1>0 DEF vars, UserCopy, DoorCopy, Loaded, InDoor
  <1>2. CASE NextDay
    BY <1>2, <1>0 DEF NextDay, UserCopy, DoorCopy, Loaded, InDoor
  <1>3. ASSUME NEW s \in Sessions, NEW u \in Users, NEW n \in Nodes, LoadNode(s, u, n)
        PROVE  (\A t \in Sessions : UserCopy(t)') /\ (\A t \in Sessions : DoorCopy(t)')
    <2>1. Takes(s, "noded") /\ users' = users /\ door' = door
      BY <1>3, LoadNodeTakes DEF LoadNode
    <2> QED
      BY <1>0, <2>1, UserCopyKept, DoorCopyKept
  <1>4. ASSUME NEW s \in Sessions, LoadUser(s)
        PROVE  (\A t \in Sessions : UserCopy(t)') /\ (\A t \in Sessions : DoorCopy(t)')
    <2>1. /\ Takes(s, "loaded") /\ users' = users /\ door' = door
          /\ sess'[s].user \in Users /\ sess'[s].user = sess[s].user
          /\ sess'[s].useron = Called(users[sess[s].user])
      BY <1>4, LoadUserTakes DEF LoadUser
    <2>2. \A t \in Sessions : DoorCopy(t)'
      BY <1>0, <2>1, DoorCopyKept
    <2>3. UserCopy(s)'
      <3> DEFINE user == users[sess[s].user]
      <3>1. user \in User /\ Called(user).rev = user.rev /\ Called(user).calls = user.calls + 1
        BY <2>1, SessionAssumption, CalledType DEF Stores
      <3>2. user.rev \in Nat
        BY <3>1 DEF User
      <3> QED
        BY <2>1, <3>1, <3>2 DEF UserCopy
    <2>4. ASSUME NEW t \in Sessions, t # s PROVE UserCopy(t)'
      BY <1>0, <2>1, <2>4 DEF UserCopy, Loaded, Takes
    <2> QED
      BY <2>2, <2>3, <2>4
  <1>5. ASSUME NEW s \in Sessions, MainMenu(s)
        PROVE  (\A t \in Sessions : UserCopy(t)') /\ (\A t \in Sessions : DoorCopy(t)')
    <2>1. Takes(s, "menu") /\ Keeps(s) /\ Loaded(s) /\ users' = users /\ door' = door
      BY <1>5, MainMenuTakes DEF MainMenu, Loaded
    <2> QED
      BY <1>0, <2>1, UserCopyKept, DoorCopyKept
  <1>6. ASSUME NEW s \in Sessions, GetStatus(s)
        PROVE  (\A t \in Sessions : UserCopy(t)') /\ (\A t \in Sessions : DoorCopy(t)')
    <2>1. Takes(s, "menu") /\ Keeps(s) /\ Loaded(s) /\ users' = users /\ door' = door
      BY <1>6, GetStatusTakes DEF GetStatus, Loaded
    <2> QED
      BY <1>0, <2>1, UserCopyKept, DoorCopyKept
  <1>7. ASSUME NEW s \in Sessions, DoorRead(s)
        PROVE  (\A t \in Sessions : UserCopy(t)') /\ (\A t \in Sessions : DoorCopy(t)')
    <2>1. /\ Takes(s, "door_read") /\ Keeps(s) /\ Loaded(s)
          /\ users' = users /\ door' = door /\ sess'[s].door = door
      BY <1>7, DoorReadTakes DEF DoorRead, Loaded
    <2>2. \A t \in Sessions : UserCopy(t)'
      BY <1>0, <2>1, UserCopyKept
    <2>3. DoorCopy(s)'
      <3>1. door.rev \in Nat /\ \A u \in Users : door.usage[u].runs \in Nat
        BY DEF Stores, Door, Usage
      <3> QED
        BY <2>1, <3>1 DEF DoorCopy
    <2>4. ASSUME NEW t \in Sessions, t # s PROVE DoorCopy(t)'
      BY <1>0, <2>1, <2>4 DEF DoorCopy, InDoor, Takes
    <2> QED
      BY <2>2, <2>3, <2>4
  <1>8. ASSUME NEW s \in Sessions, DoorTake(s)
        PROVE  (\A t \in Sessions : UserCopy(t)') /\ (\A t \in Sessions : DoorCopy(t)')
    <2>1. /\ Takes(s, "door_taken") /\ Keeps(s) /\ sess'[s].door = door' /\ door' \in Door
          /\ Loaded(s) /\ users' = users
      BY <1>8, DoorTakeTakes DEF DoorTake, Loaded
    <2>2. \A t \in Sessions : UserCopy(t)'
      BY <1>0, <2>1, UserCopyKept
    <2>3. door'.rev = door.rev + 1 /\ \A u \in Users : door.usage[u].runs <= door'.usage[u].runs
      <3>1. \A u \in Users : door.usage[u].runs \in Nat
        BY DEF Stores, Door, Usage
      <3> QED
        BY <1>8, <1>0, <3>1, TakeRuns
    <2> QED
      BY <1>0, <2>1, <2>2, <2>3, DoorCopyOlder
  <1>9. ASSUME NEW s \in Sessions, DoorShow(s)
        PROVE  (\A t \in Sessions : UserCopy(t)') /\ (\A t \in Sessions : DoorCopy(t)')
    <2>1. /\ Takes(s, "door_shown") /\ Keeps(s) /\ Loaded(s) /\ InDoor(s)
          /\ sess'[s].door = sess[s].door /\ users' = users /\ door' = door
      BY <1>9, DoorShowTakes DEF DoorShow, Loaded, InDoor
    <2> QED
      BY <1>0, <2>1, UserCopyKept, DoorCopyKept
  <1>10. ASSUME NEW s \in Sessions, DoorGive(s)
         PROVE  (\A t \in Sessions : UserCopy(t)') /\ (\A t \in Sessions : DoorCopy(t)')
    <2>1. Takes(s, "menu") /\ Keeps(s) /\ door' \in Door /\ Loaded(s) /\ users' = users
      BY <1>10, DoorGiveTakes DEF DoorGive, Loaded, Histories
    <2>2. \A t \in Sessions : UserCopy(t)'
      BY <1>0, <2>1, UserCopyKept
    <2>3. door'.rev = door.rev + 1 /\ \A u \in Users : door.usage[u].runs <= door'.usage[u].runs
      <3>1. \A u \in Users : door.usage[u].runs \in Nat
        BY DEF Stores, Door, Usage
      <3> QED
        BY <1>10, <1>0, <3>1, GiveRuns DEF Histories
    <2> QED
      BY <1>0, <2>1, <2>2, <2>3, DoorCopyOlder
  <1>11. ASSUME NEW s \in Sessions, StoreUser(s)
         PROVE  (\A t \in Sessions : UserCopy(t)') /\ (\A t \in Sessions : DoorCopy(t)')
    <2>1. Takes(s, "leaving") /\ door' = door
      BY <1>11, StoreUserTakes DEF StoreUser
    <2>2. \A t \in Sessions : DoorCopy(t)'
      BY <1>0, <2>1, DoorCopyKept
    <2>3. UserCopy(s)'
      BY <2>1 DEF UserCopy, Loaded, Takes
    <2>4. ASSUME NEW t \in Sessions, t # s, Loaded(t) PROVE UserCopy(t)'
      <3>1. /\ sess'[t] = sess[t] /\ sess[t].user \in Users /\ sess[t].useron \in User
            /\ users[sess[t].user] \in User
        BY <2>1, <2>4 DEF Takes, Typed, Fits, Loaded, Stores
      <3>2. sess[t].useron.rev \in Nat /\ users[sess[t].user].rev \in Nat
        BY <3>1 DEF User
      <3>3. CASE sess[t].user = sess[s].user
        <4>1. users'[sess[t].user].rev = users[sess[t].user].rev + 1
          BY <1>11, <1>0, <3>3, StoreUserCalls
        <4> QED
          BY <1>0, <2>4, <3>1, <3>2, <4>1 DEF UserCopy
      <3>4. CASE sess[t].user # sess[s].user
        <4>1. users'[sess[t].user] = users[sess[t].user]
          BY <1>11, <1>0, <3>1, <3>4, StoreUserCalls
        <4> QED
          BY <1>0, <2>4, <3>1, <4>1 DEF UserCopy
      <3> QED
        BY <3>3, <3>4
    <2>5. ASSUME NEW t \in Sessions, t # s, ~ Loaded(t) PROVE UserCopy(t)'
      BY <2>1, <2>5 DEF UserCopy, Loaded, Takes
    <2> QED
      BY <2>2, <2>3, <2>4, <2>5
  <1>12. ASSUME NEW s \in Sessions, LogOff(s)
         PROVE  (\A t \in Sessions : UserCopy(t)') /\ (\A t \in Sessions : DoorCopy(t)')
    <2>1. Takes(s, "out") /\ users' = users /\ door' = door
      BY <1>12, LogOffTakes DEF LogOff
    <2> QED
      BY <1>0, <2>1, UserCopyKept, DoorCopyKept
  <1>13. ASSUME NEW s \in Sessions, Lost(s)
         PROVE  (\A t \in Sessions : UserCopy(t)') /\ (\A t \in Sessions : DoorCopy(t)')
    <2>1. Takes(s, "out") /\ users' = users /\ door' = door
      BY <1>13, OutTakes DEF Lost
    <2> QED
      BY <1>0, <2>1, UserCopyKept, DoorCopyKept
  <1> QED
    BY <1>1, <1>2, <1>3, <1>4, <1>5, <1>6, <1>7, <1>8, <1>9, <1>10, <1>11, <1>12,
       <1>13 DEF Next

-----------------------------------------------------------------------------
(***************************************************************************)
(* The use of the door.                                                    *)
(***************************************************************************)

\* A step that does not change the door: the process that takes it stays in
\* the door or stays out of it, comes in with a copy of the record, or is lost.
LEMMA DoorKept ==
    ASSUME DoorTaken, DoorInUse, NEW s \in Sessions, NEW stage, Takes(s, stage),
           door' = door, raced' = raced, stuck' = (stuck \/ (stage = "out" /\ Inside(s))),
           \/ stage \notin {"door_read", "door_taken", "door_shown"}
              /\ (Inside(s) => stage = "out")
           \/ stage = "door_read" /\ ~ Inside(s) /\ sess'[s].door = door
              /\ (door.active => door.multiuser)
           \/ stage = "door_shown" /\ Inside(s) /\ sess'[s].door = sess[s].door
    PROVE  DoorTaken' /\ DoorInUse'
  <1>1. \A t \in Sessions \ {s} : sess'[t] = sess[t]
    BY DEF Takes
  <1>2. sess'[s].stage = stage
    BY DEF Takes
  <1>3. \A t \in Sessions : Inside(t)' => Inside(t)
    BY <1>1, <1>2 DEF Inside
  <1>4. DoorInUse'
    <2>1. (door.active => stuck \/ \E t \in Sessions : Inside(t))'
      BY <1>1, <1>2 DEF DoorInUse, Inside
    <2>2. (~ door.multiuser /\ ~ raced =>
              \A t, v \in Sessions : Inside(t) /\ Inside(v) => t = v)'
      BY <1>3 DEF DoorInUse
    <2> QED
      BY <2>1, <2>2 DEF DoorInUse
  <1>5. (~ door.multiuser /\ ~ raced => \A t \in Sessions : Inside(t) => door.active)'
    BY <1>3 DEF DoorTaken
  <1>6. ASSUME NEW t \in Sessions, InDoor(t)'
        PROVE  /\ sess'[t].door.multiuser = door'.multiuser
               /\ sess'[t].stage = "door_read" => (sess'[t].door.active => door'.multiuser)
    <2>1. CASE t # s
      BY <1>1, <1>6, <2>1 DEF DoorTaken, InDoor
    <2>2. CASE t = s
      BY <1>2, <1>6, <2>2 DEF DoorTaken, InDoor, Inside
    <2> QED
      BY <2>1, <2>2
  <1> QED
    BY <1>4, <1>5, <1>6 DEF DoorTaken

\* The door that is taken was free, was for many, or was taken meanwhile.
LEMMA DoorTakeKeeps ==
    ASSUME Typed, Stores, DoorTaken, DoorInUse, NEW s \in Sessions, DoorTake(s)
    PROVE  DoorTaken' /\ DoorInUse'
  <1>1. /\ Takes(s, "door_taken") /\ sess'[s].door = door' /\ sess[s].door \in Door
        /\ [sess[s].door EXCEPT !.active = TRUE] \in Door
        /\ door' = DoorPut(door, [sess[s].door EXCEPT !.active = TRUE])
    BY DoorTakeTakes
  <1>2. /\ [sess[s].door EXCEPT !.active = TRUE].multiuser = sess[s].door.multiuser
        /\ [sess[s].door EXCEPT !.active = TRUE].active = TRUE
    BY <1>1 DEF Door
  <1>3. /\ InDoor(s) /\ sess[s].stage = "door_read" /\ stuck' = stuck
        /\ raced' = (raced \/ (door.active /\ ~ sess[s].door.active))
    BY DEF DoorTake, InDoor
  <1>4. door'.multiuser = door.multiuser /\ door'.active = TRUE
    <2> DEFINE record == [sess[s].door EXCEPT !.active = TRUE]
    <2>1. door \in Door /\ record \in Door /\ door' = DoorPut(door, record)
      BY <1>1 DEF Stores
    <2>2. record.multiuser = sess[s].door.multiuser /\ record.active = TRUE
      BY <1>2
    <2> HIDE DEF record
    <2>3. door'.multiuser = record.multiuser /\ door'.active = record.active
      BY <2>1, DoorPutFields
    <2>4. sess[s].door.multiuser = door.multiuser
      BY <1>3 DEF DoorTaken
    <2> QED
      BY <2>2, <2>3, <2>4
  <1>5. \A t \in Sessions \ {s} : sess'[t] = sess[t]
    BY <1>1 DEF Takes
  <1>6. sess'[s].stage = "door_taken"
    BY <1>1 DEF Takes
  <1>7. sess[s].door.active => door.multiuser
    BY <1>3 DEF DoorTaken
  <1>8. ASSUME NEW t \in Sessions, InDoor(t)'
        PROVE  /\ sess'[t].door.multiuser = door'.multiuser
               /\ sess'[t].stage = "door_read" => (sess'[t].door.active => door'.multiuser)
    <2>1. CASE t # s
      BY <1>4, <1>5, <1>8, <2>1 DEF DoorTaken, InDoor
    <2>2. CASE t = s
      BY <1>1, <1>6, <2>2
    <2> QED
      BY <2>1, <2>2
  <1>9. DoorTaken'
    BY <1>4, <1>8 DEF DoorTaken
  <1>10. (door.active => stuck \/ \E t \in Sessions : Inside(t))'
    BY <1>6 DEF Inside
  <1>11. ASSUME ~ door'.multiuser, ~ raced', NEW t \in Sessions, t # s PROVE ~ Inside(t)'
    <2>1. ~ door.multiuser /\ ~ raced /\ ~ door.active
      BY <1>3, <1>4, <1>7, <1>11
    <2> QED
      BY <1>5, <1>11, <2>1 DEF DoorTaken, Inside
  <1>12. DoorInUse'
    BY <1>10, <1>11 DEF DoorInUse
  <1> QED
    BY <1>9, <1>12

\* The one who gives back a door for one was alone in it.
LEMMA DoorGiveKeeps ==
    ASSUME Typed, Stores, Histories, DoorTaken, DoorInUse, NEW s \in Sessions, DoorGive(s)
    PROVE  DoorTaken' /\ DoorInUse'
  <1>1. /\ Takes(s, "menu") /\ sess[s].door \in Door /\ sess[s].user \in Users
    BY DoorGiveTakes DEF Histories
  <1>2. PICK m \in Minutes : door' = DoorPut(door, Given(sess[s].door, sess[s].user, m))
    BY DoorGiveTakes DEF Histories
  <1>3. m \in Nat
    BY SessionAssumption
  <1>4. InDoor(s) /\ Inside(s) /\ raced' = raced /\ stuck' = stuck
    BY DEF DoorGive, InDoor, Inside
  <1>5. door'.multiuser = door.multiuser /\ door'.active = FALSE
    <2> DEFINE record == Given(sess[s].door, sess[s].user, m)
    <2>1. /\ record \in Door /\ record.active = FALSE
          /\ record.multiuser = sess[s].door.multiuser
      BY <1>1, <1>3, GivenType
    <2>2. door \in Door /\ door' = DoorPut(door, record)
      BY <1>2 DEF Stores
    <2> HIDE DEF record
    <2>3. door'.multiuser = record.multiuser /\ door'.active = record.active
      BY <2>1, <2>2, DoorPutFields
    <2>4. sess[s].door.multiuser = door.multiuser
      BY <1>4 DEF DoorTaken
    <2> QED
      BY <2>1, <2>3, <2>4
  <1>6. \A t \in Sessions \ {s} : sess'[t] = sess[t]
    BY <1>1 DEF Takes
  <1>7. sess'[s].stage = "menu"
    BY <1>1 DEF Takes
  <1>8. ASSUME NEW t \in Sessions, InDoor(t)'
        PROVE  /\ sess'[t].door.multiuser = door'.multiuser
               /\ sess'[t].stage = "door_read" => (sess'[t].door.active => door'.multiuser)
    <2>1. t # s
      BY <1>7, <1>8 DEF InDoor
    <2> QED
      BY <1>5, <1>6, <1>8, <2>1 DEF DoorTaken, InDoor
  <1>9. \A t \in Sessions : Inside(t)' => Inside(t) /\ t # s
    BY <1>6, <1>7 DEF Inside
  <1>10. (~ door.multiuser /\ ~ raced)' => \A t \in Sessions : ~ Inside(t)'
    BY <1>4, <1>5, <1>9 DEF DoorInUse
  <1> QED
    BY <1>5, <1>8, <1>10 DEF DoorTaken, DoorInUse

\* Every step keeps the door.
LEMMA DoorNext ==
    ASSUME Typed, Stores, Histories, DoorTaken, DoorInUse, [Next]_vars
    PROVE  DoorTaken' /\ DoorInUse'
  <1>1. CASE UNCHANGED vars
    BY <1>1 DEF vars, DoorTaken, DoorInUse, Inside, InDoor
  <1>2. CASE NextDay
    BY <1>2 DEF NextDay, DoorTaken, DoorInUse, Inside, InDoor
  <1>3. ASSUME NEW s \in Sessions, NEW u \in Users, NEW n \in Nodes, LoadNode(s, u, n)
        PROVE  DoorTaken' /\ DoorInUse'
    <2>1. Takes(s, "noded") /\ ~ Inside(s) /\ door' = door /\ raced' = raced /\ stuck' = stuck
      BY <1>3, LoadNodeTakes DEF LoadNode, Inside
    <2> QED
      BY <2>1, DoorKept DEF Histories
  <1>4. ASSUME NEW s \in Sessions, LoadUser(s)
        PROVE  DoorTaken' /\ DoorInUse'
    <2>1. Takes(s, "loaded") /\ ~ Inside(s) /\ door' = door /\ raced' = raced /\ stuck' = stuck
      BY <1>4, LoadUserTakes DEF LoadUser, Inside
    <2> QED
      BY <2>1, DoorKept DEF Histories
  <1>5. ASSUME NEW s \in Sessions, MainMenu(s) \/ GetStatus(s)
        PROVE  DoorTaken' /\ DoorInUse'
    <2>1. Takes(s, "menu") /\ ~ Inside(s) /\ door' = door /\ raced' = raced /\ stuck' = stuck
      BY <1>5, MainMenuTakes, GetStatusTakes DEF MainMenu, GetStatus, Inside
    <2> QED
      BY <2>1, DoorKept DEF Histories
  <1>6. ASSUME NEW s \in Sessions, DoorRead(s)
        PROVE  DoorTaken' /\ DoorInUse'
    <2>1. /\ Takes(s, "door_read") /\ ~ Inside(s) /\ sess'[s].door = door
          /\ (door.active => door.multiuser)
          /\ door' = door /\ raced' = raced /\ stuck' = stuck
      BY <1>6, DoorReadTakes DEF DoorRead, Inside
    <2> QED
      BY <2>1, DoorKept DEF Histories
  <1>7. ASSUME NEW s \in Sessions, DoorShow(s)
        PROVE  DoorTaken' /\ DoorInUse'
    <2>1. /\ Takes(s, "door_shown") /\ Inside(s) /\ sess'[s].door = sess[s].door
          /\ door' = door /\ raced' = raced /\ stuck' = stuck
      BY <1>7, DoorShowTakes DEF DoorShow, Inside
    <2> QED
      BY <2>1, DoorKept DEF Histories
  <1>8. ASSUME NEW s \in Sessions, StoreUser(s)
        PROVE  DoorTaken' /\ DoorInUse'
    <2>1. Takes(s, "leaving") /\ ~ Inside(s) /\ door' = door /\ raced' = raced /\ stuck' = stuck
      BY <1>8, StoreUserTakes DEF StoreUser, Inside
    <2> QED
      BY <2>1, DoorKept DEF Histories
  <1>9. ASSUME NEW s \in Sessions, LogOff(s)
        PROVE  DoorTaken' /\ DoorInUse'
    <2>1. Takes(s, "out") /\ ~ Inside(s) /\ door' = door /\ raced' = raced /\ stuck' = stuck
      BY <1>9, LogOffTakes DEF LogOff, Inside
    <2> QED
      BY <2>1, DoorKept DEF Histories
  <1>10. ASSUME NEW s \in Sessions, Lost(s)
         PROVE  DoorTaken' /\ DoorInUse'
    <2>1. /\ Takes(s, "out") /\ door' = door /\ raced' = raced
          /\ stuck' = (stuck \/ Inside(s))
      BY <1>10, OutTakes DEF Lost
    <2> QED
      BY <2>1, DoorKept
  <1> QED
    BY <1>1, <1>2, <1>3, <1>4, <1>5, <1>6, <1>7, <1>8, <1>9, <1>10, DoorTakeKeeps,
       DoorGiveKeeps DEF Next

-----------------------------------------------------------------------------
(***************************************************************************)
(* The nodes.                                                              *)
(***************************************************************************)

\* A session that stays on its node: the node stays known.
LEMMA StaysOn ==
    ASSUME Typed, NodesKnown, WhoIsOn, NEW s \in Sessions, NEW stage, Takes(s, stage),
           stage # "out", sess[s].stage # "out",
           sess'[s].node = sess[s].node, sess'[s].user = sess[s].user, fate' = fate,
           \A m \in Nodes : m # sess[s].node => nodes'[m] = nodes[m],
           fate[sess[s].node] = "on" =>
               /\ sess'[s].qnode = nodes'[sess[s].node]
               /\ stage \notin {"noded", "loaded"} =>
                     nodes'[sess[s].node].useron = sess[s].user
               /\ stage = "door_shown" => nodes'[sess[s].node].action = "NODE_XTRN"
    PROVE  NodesKnown' /\ WhoIsOn'
  <1> DEFINE n == sess[s].node
  <1>1. /\ \A t \in Sessions \ {s} : sess'[t] = sess[t]
        /\ sess'[s].stage = stage /\ sess'[s].node = n
    BY DEF Takes
  <1>2. n \in Nodes /\ On(s, n) /\ fate[n] \notin {"off", "lost"}
    BY DEF Typed, Fits, On, NodesKnown
  <1>3. \A t \in Sessions, m \in Nodes : On(t, m)' <=> On(t, m)
    BY <1>1 DEF On
  <1>4. NodesKnown'
    <2>1. ASSUME NEW m \in Nodes, fate[m] \in {"off", "lost"}, NEW t \in Sessions
          PROVE  ~ On(t, m)'
      BY <1>3, <2>1 DEF NodesKnown
    <2>2. ASSUME NEW m \in Nodes, fate[m] = "on", NEW t \in Sessions, On(t, m)
          PROVE  /\ \A r \in Sessions : On(r, m) => r = t
                 /\ sess'[t].qnode = nodes'[m]
      <3>1. /\ \A r \in Sessions : On(r, m) => r = t
            /\ sess[t].qnode = nodes[m]
        BY <2>2 DEF NodesKnown
      <3>2. CASE t = s
        BY <1>1, <2>2, <3>1, <3>2 DEF On
      <3>3. CASE t # s
        <4>1. m # n
          BY <1>2, <3>1, <3>3
        <4> QED
          BY <1>1, <3>1, <3>3, <4>1
      <3> QED
        BY <3>1, <3>2, <3>3
    <2> QED
      BY <1>3, <2>1, <2>2 DEF NodesKnown
  <1>5. WhoIsOn'
    <2>1. ASSUME NEW t \in Sessions,
                 sess'[t].stage \notin {"out", "noded", "loaded"}, fate[sess'[t].node] = "on"
          PROVE  /\ nodes'[sess'[t].node].useron = sess'[t].user
                 /\ sess'[t].stage = "door_shown" =>
                       nodes'[sess'[t].node].action = "NODE_XTRN"
      <3>1. CASE t = s
        BY <1>1, <2>1, <3>1
      <3>2. CASE t # s
        <4>1. sess'[t] = sess[t] /\ sess[t].node \in Nodes
          BY <1>1, <2>1, <3>2 DEF Typed, Fits
        <4>2. sess[t].node # n
          BY <1>2, <2>1, <3>2, <4>1 DEF On, NodesKnown
        <4> QED
          BY <2>1, <4>1, <4>2 DEF WhoIsOn
      <3> QED
        BY <3>1, <3>2
    <2>2. \A m \in Nodes : fate[m] = "off" =>
              nodes'[m].useron = Nobody /\ nodes'[m].action = "NODE_OFFL"
      BY <1>2 DEF WhoIsOn
    <2> QED
      BY <2>1, <2>2 DEF WhoIsOn
  <1> QED
    BY <1>4, <1>5

\* What the status of a node that is known becomes.
LEMMA SendStatusShows ==
    ASSUME Typed, Stores, NodesKnown, NEW s \in Sessions, sess[s].stage # "out",
           NEW action \in Action \ {"NODE_OFFL"}, NEW stage, SendStatus(s, action, stage)
    PROVE  /\ sess'[s].node = sess[s].node /\ sess'[s].user = sess[s].user
           /\ \A m \in Nodes : m # sess[s].node => nodes'[m] = nodes[m]
           /\ sess'[s].qnode = nodes'[sess[s].node]
           /\ fate[sess[s].node] = "on" =>
                 /\ nodes'[sess[s].node].useron = sess[s].user
                 /\ nodes'[sess[s].node].action = action
  <1> DEFINE n == sess[s].node
             shown == [sess[s].qnode EXCEPT !.action = action, !.useron = sess[s].user]
             stored == NodePut(nodes[n], shown)
  <1>1. sess[s] \in Process /\ n \in Nodes /\ sess[s].qnode \in Node
    BY DEF Typed, Fits
  <1>2. /\ nodes' = [nodes EXCEPT ![n] = stored]
        /\ sess' = [sess EXCEPT ![s].qnode = stored, ![s].stage = stage]
    BY DEF SendStatus
  <1>3. shown.rev = sess[s].qnode.rev /\ shown.action = action /\ shown.useron = sess[s].user
    BY <1>1 DEF Node
  <1>4. CASE fate[n] = "on"
    <2>1. sess[s].qnode = nodes[n]
      BY <1>1, <1>4 DEF NodesKnown, On
    <2>2. shown.rev = nodes[n].rev /\ nodes[n].rev \in Nat
      BY <1>1, <1>3, <2>1 DEF Node
    <2>3. stored = [shown EXCEPT !.rev = nodes[n].rev + 1]
      <3> HIDE DEF shown
      <3> QED
        BY <2>2 DEF NodePut, Stored
    <2>4. stored.action = action /\ stored.useron = sess[s].user
      BY <1>1, <2>3 DEF Node
    <2> HIDE DEF stored
    <2> QED
      BY <1>1, <1>2, <2>4 DEF Typed, Stores, Process
  <1>5. CASE fate[n] # "on"
    <2> HIDE DEF stored
    <2> QED
      BY <1>1, <1>2, <1>5 DEF Typed, Stores, Process
  <1> QED
    BY <1>4, <1>5

\* A session leaves its node, with a log off or without.
LEMMA LeavesNode ==
    ASSUME Typed, Stores, Histories, NodesKnown, WhoIsOn, NEW s \in Sessions, Takes(s, "out"),
           sess[s].stage # "out",
           \A m \in Nodes : m # sess[s].node => nodes'[m] = nodes[m],
           NEW left \in {"off", "lost"},
           fate' = [fate EXCEPT ![sess[s].node] = IF @ = "mixed" THEN @ ELSE left],
           fate[sess[s].node] = "on" /\ left = "off" =>
               /\ nodes'[sess[s].node].useron = Nobody
               /\ nodes'[sess[s].node].action = "NODE_OFFL"
    PROVE  NodesKnown' /\ WhoIsOn'
  <1>0. PICK n \in Nodes : n = sess[s].node
    BY DEF Typed, Fits
  <1>1. /\ \A t \in Sessions \ {s} : sess'[t] = sess[t]
        /\ sess'[s].stage = "out"
    BY DEF Takes
  <1>2. n \in Nodes /\ On(s, n) /\ fate[n] \in {"on", "mixed"}
    BY <1>0 DEF On, NodesKnown, Histories
  <1>3. /\ \A m \in Nodes \ {n} : fate'[m] = fate[m]
        /\ fate[n] = "mixed" => fate'[n] = "mixed"
        /\ fate[n] = "on" => fate'[n] = left
    BY <1>0, <1>2 DEF Histories
  <1>4. \A t \in Sessions, m \in Nodes : On(t, m)' <=> On(t, m) /\ t # s
    BY <1>1 DEF On
  <1>5. fate[n] = "on" => \A t \in Sessions : On(t, n) => t = s
    BY <1>2 DEF NodesKnown
  <1>6. NodesKnown'
    <2>1. ASSUME NEW m \in Nodes \ {n}
          PROVE  /\ fate'[m] \in {"off", "lost"} => \A t \in Sessions : ~ On(t, m)'
                 /\ fate'[m] = "on" => \A t \in Sessions : On(t, m)' =>
                       /\ sess'[t].qnode = nodes'[m]
                       /\ \A r \in Sessions : On(r, m)' => r = t
      BY <1>0, <1>1, <1>3, <1>4 DEF NodesKnown
    <2>2. /\ fate'[n] # "on"
          /\ fate'[n] \in {"off", "lost"} => \A t \in Sessions : ~ On(t, n)'
      <3>1. CASE fate[n] = "mixed"
        BY <1>3, <3>1
      <3>2. CASE fate[n] = "on"
        <4>1. ASSUME NEW t \in Sessions PROVE ~ On(t, n)'
          BY <1>2, <1>4, <1>5, <3>2
        <4> QED
          BY <1>3, <3>2, <4>1
      <3> QED
        BY <1>2, <3>1, <3>2
    <2>3. ASSUME NEW m \in Nodes
          PROVE  /\ fate'[m] \in {"off", "lost"} => \A t \in Sessions : ~ On(t, m)'
                 /\ fate'[m] = "on" => \A t \in Sessions : On(t, m)' =>
                       /\ sess'[t].qnode = nodes'[m]
                       /\ \A r \in Sessions : On(r, m)' => r = t
      <3>1. CASE m = n
        BY <2>2, <3>1
      <3>2. CASE m # n
        BY <2>1, <3>2
      <3> QED
        BY <3>1, <3>2
    <2> QED
      BY <2>3 DEF NodesKnown
  <1>7. WhoIsOn'
    <2>1. ASSUME NEW t \in Sessions, sess'[t].stage \notin {"out", "noded", "loaded"},
                 fate'[sess'[t].node] = "on"
          PROVE  /\ nodes'[sess'[t].node].useron = sess'[t].user
                 /\ sess'[t].stage = "door_shown" =>
                       nodes'[sess'[t].node].action = "NODE_XTRN"
      <3>1. t # s /\ sess'[t] = sess[t]
        BY <1>1, <2>1
      <3>2. sess[t].node \in Nodes \ {n}
        BY <1>2, <1>3, <2>1, <3>1 DEF Typed, Fits
      <3> QED
        BY <1>0, <1>3, <2>1, <3>1, <3>2 DEF WhoIsOn
    <2>2. ASSUME NEW m \in Nodes, fate'[m] = "off"
          PROVE  nodes'[m].useron = Nobody /\ nodes'[m].action = "NODE_OFFL"
      <3>1. CASE m = n
        BY <1>0, <1>2, <1>3, <2>2, <3>1
      <3>2. CASE m # n
        BY <1>0, <1>3, <2>2, <3>2 DEF WhoIsOn
      <3> QED
        BY <3>1, <3>2
    <2> QED
      BY <2>1, <2>2 DEF WhoIsOn
  <1> QED
    BY <1>6, <1>7

\* A session takes a node, its first since the last one left, or not.
LEMMA LoadNodeKnown ==
    ASSUME Typed, Stores, Histories, NodesKnown, WhoIsOn, NEW s \in Sessions,
           NEW u \in Users, NEW n \in Nodes, LoadNode(s, u, n)
    PROVE  NodesKnown' /\ WhoIsOn'
  <1>1. /\ \A t \in Sessions \ {s} : sess'[t] = sess[t]
        /\ sess[s].stage = "out"
        /\ sess'[s].stage = "noded" /\ sess'[s].node = n /\ sess'[s].qnode = nodes[n]
        /\ nodes' = nodes
    BY DEF LoadNode, Typed
  <1>2. /\ \A m \in Nodes \ {n} : fate'[m] = fate[m]
        /\ fate'[n] \in {"on", "mixed"}
        /\ fate'[n] = "on" => \A t \in Sessions : sess[t].node # n
    BY DEF LoadNode, Histories
  <1>3. \A t \in Sessions, m \in Nodes : On(t, m)' <=> On(t, m) \/ (t = s /\ m = n)
    BY <1>1 DEF On
  <1>4. NodesKnown'
    <2>1. ASSUME NEW m \in Nodes \ {n}
          PROVE  /\ fate'[m] \in {"off", "lost"} => \A t \in Sessions : ~ On(t, m)'
                 /\ fate'[m] = "on" => \A t \in Sessions : On(t, m)' =>
                       /\ sess'[t].qnode = nodes'[m]
                       /\ \A r \in Sessions : On(r, m)' => r = t
      <3>1. ~ On(s, m)
        BY <1>1 DEF On
      <3> QED
        BY <1>1, <1>2, <1>3, <3>1 DEF NodesKnown
    <2>2. /\ fate'[n] \notin {"off", "lost"}
          /\ fate'[n] = "on" => \A t \in Sessions : On(t, n)' =>
                       /\ sess'[t].qnode = nodes'[n]
                       /\ \A r \in Sessions : On(r, n)' => r = t
      <3>1. fate'[n] = "on" => \A t \in Sessions : On(t, n)' <=> t = s
        BY <1>2, <1>3 DEF On
      <3> QED
        BY <1>1, <1>2, <3>1
    <2> QED
      BY <2>1, <2>2 DEF NodesKnown
  <1>5. WhoIsOn'
    <2>1. ASSUME NEW t \in Sessions, sess'[t].stage \notin {"out", "noded", "loaded"},
                 fate'[sess'[t].node] = "on"
          PROVE  /\ nodes'[sess'[t].node].useron = sess'[t].user
                 /\ sess'[t].stage = "door_shown" =>
                       nodes'[sess'[t].node].action = "NODE_XTRN"
      <3>1. t # s /\ sess'[t] = sess[t]
        BY <1>1, <2>1
      <3>2. sess[t].node \in Nodes \ {n}
        BY <1>2, <2>1, <3>1 DEF Typed, Fits
      <3> QED
        BY <1>1, <1>2, <2>1, <3>1, <3>2 DEF WhoIsOn
    <2>2. ASSUME NEW m \in Nodes, fate'[m] = "off"
          PROVE  nodes'[m].useron = Nobody /\ nodes'[m].action = "NODE_OFFL"
      BY <1>1, <1>2, <2>2 DEF WhoIsOn
    <2> QED
      BY <2>1, <2>2 DEF WhoIsOn
  <1> QED
    BY <1>4, <1>5

\* The fields that a step keeps when it changes neither the node nor the status.
LEMMA KeepsNode ==
    ASSUME Typed, Stores, NodesKnown, WhoIsOn, NEW s \in Sessions, NEW stage, Takes(s, stage),
           stage # "out", sess[s].stage # "out",
           sess'[s].node = sess[s].node, sess'[s].user = sess[s].user,
           sess'[s].qnode \in {sess[s].qnode, nodes[sess[s].node]},
           UNCHANGED <<nodes, fate>>,
           stage \notin {"noded", "loaded"} => sess[s].stage \notin {"noded", "loaded"},
           stage = "door_shown" => sess[s].stage = "door_shown"
    PROVE  NodesKnown' /\ WhoIsOn'
  <1>1. sess[s].node \in Nodes /\ On(s, sess[s].node)
    BY DEF Typed, Fits, On
  <1>2. fate[sess[s].node] = "on" =>
            /\ sess'[s].qnode = nodes[sess[s].node]
            /\ stage \notin {"noded", "loaded"} => nodes[sess[s].node].useron = sess[s].user
            /\ stage = "door_shown" => nodes[sess[s].node].action = "NODE_XTRN"
    BY <1>1 DEF NodesKnown, WhoIsOn
  <1> QED
    BY <1>2, StaysOn

\* Every step keeps the nodes known.
LEMMA NodesNext ==
    ASSUME Typed, Stores, Histories, NodesKnown, WhoIsOn, [Next]_vars
    PROVE  NodesKnown' /\ WhoIsOn'
  <1>1. CASE UNCHANGED vars
    BY <1>1 DEF vars, NodesKnown, WhoIsOn, On
  <1>2. CASE NextDay
    BY <1>2 DEF NextDay, NodesKnown, WhoIsOn, On
  <1>3. ASSUME NEW s \in Sessions, LoadUser(s)
        PROVE  NodesKnown' /\ WhoIsOn'
    <2>1. Takes(s, "loaded") /\ sess[s].stage = "noded" /\ UNCHANGED <<nodes, fate>>
      BY <1>3, LoadUserTakes DEF LoadUser
    <2>2. /\ sess'[s].node = sess[s].node /\ sess'[s].user = sess[s].user
          /\ sess'[s].qnode = sess[s].qnode
      BY <1>3 DEF LoadUser, Typed, Process
    <2> QED
      BY <2>1, <2>2, KeepsNode
  <1>4. ASSUME NEW s \in Sessions, MainMenu(s)
        PROVE  NodesKnown' /\ WhoIsOn'
    <2>1. Takes(s, "menu") /\ sess[s].stage = "loaded" /\ fate' = fate
            /\ SendStatus(s, "NODE_MAIN", "menu")
      BY <1>4, MainMenuTakes DEF MainMenu
    <2>2. "NODE_MAIN" \in Action \ {"NODE_OFFL"}
      BY DEF Action
    <2> QED
      BY <2>1, <2>2, SendStatusShows, StaysOn
  <1>5. ASSUME NEW s \in Sessions, GetStatus(s)
        PROVE  NodesKnown' /\ WhoIsOn'
    <2>1. Takes(s, "menu") /\ sess[s].stage = "menu" /\ UNCHANGED <<nodes, fate>>
      BY <1>5, GetStatusTakes DEF GetStatus
    <2>2. /\ sess'[s].node = sess[s].node /\ sess'[s].user = sess[s].user
          /\ sess'[s].qnode = nodes[sess[s].node]
      BY <1>5 DEF GetStatus, Typed, Process
    <2> QED
      BY <2>1, <2>2, KeepsNode
  <1>6. ASSUME NEW s \in Sessions, DoorRead(s)
        PROVE  NodesKnown' /\ WhoIsOn'
    <2>1. Takes(s, "door_read") /\ sess[s].stage = "menu" /\ UNCHANGED <<nodes, fate>>
      BY <1>6, DoorReadTakes DEF DoorRead
    <2>2. /\ sess'[s].node = sess[s].node /\ sess'[s].user = sess[s].user
          /\ sess'[s].qnode = sess[s].qnode
      BY <1>6 DEF DoorRead, Typed, Process
    <2> QED
      BY <2>1, <2>2, KeepsNode
  <1>7. ASSUME NEW s \in Sessions, DoorTake(s)
        PROVE  NodesKnown' /\ WhoIsOn'
    <2>1. Takes(s, "door_taken") /\ sess[s].stage = "door_read" /\ UNCHANGED <<nodes, fate>>
      BY <1>7, DoorTakeTakes DEF DoorTake
    <2>2. /\ sess'[s].node = sess[s].node /\ sess'[s].user = sess[s].user
          /\ sess'[s].qnode = sess[s].qnode
      BY <1>7 DEF DoorTake, PutDoor, Typed, Process
    <2> QED
      BY <2>1, <2>2, KeepsNode
  <1>8. ASSUME NEW s \in Sessions, DoorShow(s)
        PROVE  NodesKnown' /\ WhoIsOn'
    <2>1. Takes(s, "door_shown") /\ sess[s].stage = "door_taken" /\ fate' = fate
            /\ SendStatus(s, "NODE_XTRN", "door_shown")
      BY <1>8, DoorShowTakes DEF DoorShow
    <2>2. "NODE_XTRN" \in Action \ {"NODE_OFFL"}
      BY DEF Action
    <2> QED
      BY <2>1, <2>2, SendStatusShows, StaysOn
  <1>9. ASSUME NEW s \in Sessions, DoorGive(s)
        PROVE  NodesKnown' /\ WhoIsOn'
    <2>1. Takes(s, "menu") /\ sess[s].stage = "door_shown" /\ UNCHANGED <<nodes, fate>>
      BY <1>9, DoorGiveTakes DEF DoorGive, Histories
    <2>2. /\ sess'[s].node = sess[s].node /\ sess'[s].user = sess[s].user
          /\ sess'[s].qnode = sess[s].qnode
      <3>1. PICK m \in Minutes :
               PutDoor(s, Given(sess[s].door, sess[s].user, m), "menu", FALSE)
        BY <1>9 DEF DoorGive, Given
      <3>2. sess' = [sess EXCEPT ![s].stage = "menu", ![s].door = Nil]
        BY <3>1 DEF PutDoor
      <3> QED
        BY <3>2 DEF Typed, Process
    <2> QED
      BY <2>1, <2>2, KeepsNode
  <1>10. ASSUME NEW s \in Sessions, StoreUser(s)
         PROVE  NodesKnown' /\ WhoIsOn'
    <2>1. Takes(s, "leaving") /\ sess[s].stage = "menu" /\ UNCHANGED <<nodes, fate>>
      BY <1>10, StoreUserTakes DEF StoreUser
    <2>2. /\ sess'[s].node = sess[s].node /\ sess'[s].user = sess[s].user
          /\ sess'[s].qnode = sess[s].qnode
      BY <1>10 DEF StoreUser, Typed, Process
    <2> QED
      BY <2>1, <2>2, KeepsNode
  <1>11. ASSUME NEW s \in Sessions, LogOff(s)
         PROVE  NodesKnown' /\ WhoIsOn'
    <2> DEFINE n == sess[s].node
               offline == [sess[s].qnode EXCEPT !.action = "NODE_OFFL", !.useron = Nobody]
    <2>1. /\ Takes(s, "out") /\ sess[s].stage = "leaving"
          /\ nodes' = [nodes EXCEPT ![n] = NodePut(nodes[n], offline)]
          /\ fate' = [fate EXCEPT ![n] = IF @ = "mixed" THEN @ ELSE "off"]
      BY <1>11, LogOffTakes DEF LogOff
    <2>2. n \in Nodes /\ sess[s].qnode \in Node /\ nodes \in [Nodes -> Node]
      BY <2>1 DEF Typed, Fits, Stores
    <2>3. ASSUME fate[n] = "on"
          PROVE  nodes'[n].useron = Nobody /\ nodes'[n].action = "NODE_OFFL"
      <3>1. sess[s].qnode = nodes[n]
        BY <2>1, <2>2, <2>3 DEF NodesKnown, On
      <3>2. /\ offline.rev = nodes[n].rev /\ nodes[n].rev \in Nat
            /\ offline \in [rev : Nat, action : Action, useron : {Nobody}]
            /\ offline.action = "NODE_OFFL"
        BY <2>2, <3>1 DEF Node, Action
      <3> HIDE DEF offline
      <3>3. NodePut(nodes[n], offline) = [offline EXCEPT !.rev = nodes[n].rev + 1]
        BY <3>2 DEF NodePut, Stored
      <3> QED
        BY <2>1, <2>2, <3>2, <3>3
    <2>4. \A m \in Nodes : m # n => nodes'[m] = nodes[m]
      BY <2>1, <2>2
    <2> QED
      BY <2>1, <2>3, <2>4, LeavesNode
  <1>12. ASSUME NEW s \in Sessions, Lost(s)
         PROVE  NodesKnown' /\ WhoIsOn'
    <2>1. /\ Takes(s, "out") /\ sess[s].stage # "out" /\ nodes' = nodes
          /\ fate' = [fate EXCEPT ![sess[s].node] = IF @ = "mixed" THEN @ ELSE "lost"]
      BY <1>12, OutTakes DEF Lost
    <2> QED
      BY <2>1, LeavesNode
  <1> QED
    BY <1>1, <1>2, <1>3, <1>4, <1>5, <1>6, <1>7, <1>8, <1>9, <1>10, <1>11, <1>12,
       LoadNodeKnown DEF Next

-----------------------------------------------------------------------------
(***************************************************************************)
(* The minutes of all days: what Total sums up.                            *)
(***************************************************************************)

\* A part of the natural numbers with 0 and with the next of each is all of
\* them: the least that were missing has one before it.
LEMMA Induction ==
    ASSUME NEW S, 0 \in S, \A n \in Nat : n \in S => n + 1 \in S
    PROVE  Nat \subseteq S
  <1> DEFINE Below == OpToRel(<, Nat)
  <1>1. SUFFICES ASSUME Nat \ S # {} PROVE FALSE
    OBVIOUS
  <1>2. IsWellFoundedOn(Below, Nat)
    BY NatLessThanWellFounded
  <1>3. \A x, y \in Nat : x < y => <<x, y>> \in Below
    BY DEF OpToRel
  <1> HIDE DEF Below
  <1>4. PICK x \in Nat \ S : \A y \in Nat \ S : ~ (<<y, x>> \in Below)
    BY <1>1, <1>2, WFMin
  <1>5. x - 1 \in Nat /\ (x - 1) + 1 = x /\ x - 1 < x
    <2>1. x # 0
      OBVIOUS
    <2> QED
      BY <2>1
  <1>6. x - 1 \notin S
    BY <1>5
  <1> QED
    BY <1>3, <1>4, <1>5, <1>6

\* The sum up to each day exists, and is a number.
LEMMA Sums ==
    ASSUME NEW work \in [1 .. MaxDay -> Nat]
    PROVE  \E f \in [0 .. MaxDay -> Nat] :
              /\ f[0] = 0 /\ \A d \in 1 .. MaxDay : f[d] = f[d - 1] + work[d]
              /\ Total(work) = f[MaxDay]
  <1> DEFINE Sum(f) == f = [d \in 0 .. MaxDay |-> IF d = 0 THEN 0 ELSE f[d - 1] + work[d]]
             UpTo(n, f) == \A d \in 0 .. n : f[d] = IF d = 0 THEN 0 ELSE f[d - 1] + work[d]
             Partial(n) == \E f \in [0 .. n -> Nat] : UpTo(n, f)
             S == {n \in Nat : n \in 0 .. MaxDay => Partial(n)}
             sum == CHOOSE f : Sum(f)
  <1>1. MaxDay \in Nat
    BY SessionAssumption
  <1>2. 0 \in S
    <2> DEFINE none == [d \in 0 .. 0 |-> 0]
    <2>1. none \in [0 .. 0 -> Nat] /\ UpTo(0, none)
      OBVIOUS
    <2> HIDE DEF none, UpTo
    <2>2. Partial(0)
      BY <2>1
    <2> QED
      BY <2>2
  <1>3. ASSUME NEW n \in Nat, n \in S PROVE n + 1 \in S
    <2> HIDE DEF Partial
    <2> SUFFICES ASSUME n + 1 \in 0 .. MaxDay PROVE Partial(n + 1)
      OBVIOUS
    <2>1. n \in 0 .. MaxDay
      BY <1>1
    <2>2. PICK f \in [0 .. n -> Nat] : UpTo(n, f)
      <3>1. Partial(n)
        BY <1>3, <2>1
      <3> HIDE DEF UpTo
      <3> QED
        BY <3>1 DEF Partial
    <2> DEFINE g == [d \in 0 .. n + 1 |-> IF d <= n THEN f[d] ELSE f[n] + work[n + 1]]
    <2>3. work[n + 1] \in Nat
      BY <1>1
    <2>4. g \in [0 .. n + 1 -> Nat]
      BY <2>3
    <2>5. UpTo(n + 1, g)
      <3> SUFFICES ASSUME NEW d \in 0 .. n + 1
                   PROVE  g[d] = IF d = 0 THEN 0 ELSE g[d - 1] + work[d]
        OBVIOUS
      <3>1. CASE d = 0
        BY <2>2, <3>1
      <3>2. CASE d \in 1 .. n
        <4>1. g[d] = f[d] /\ g[d - 1] = f[d - 1] /\ d \in 0 .. n /\ d # 0
          BY <3>2
        <4> QED
          BY <2>2, <4>1
      <3>3. CASE d = n + 1
        <4>1. g[d] = f[n] + work[n + 1] /\ g[d - 1] = f[n] /\ d # 0
          BY <3>3
        <4> QED
          BY <3>3, <4>1
      <3> QED
        BY <3>1, <3>2, <3>3
    <2> HIDE DEF g, UpTo
    <2> QED
      BY <2>4, <2>5 DEF Partial
  <1>4. Nat \subseteq S
    <2> HIDE DEF S
    <2> QED
      BY <1>2, <1>3, Induction
  <1>5. PICK f \in [0 .. MaxDay -> Nat] : UpTo(MaxDay, f)
    <2> HIDE DEF UpTo, Partial
    <2>1. Partial(MaxDay)
      BY <1>1, <1>4
    <2> QED
      BY <2>1 DEF Partial
  <1>6. Sum(f)
    BY <1>5
  <1>7. Sum(sum)
    BY <1>6
  <1>8. Total(work) = sum[MaxDay]
    BY DEF Total
  <1> HIDE DEF sum
  <1> DEFINE T == {n \in Nat : n \in 0 .. MaxDay => sum[n] \in Nat}
  <1>9. \A d \in 0 .. MaxDay : sum[d] = IF d = 0 THEN 0 ELSE sum[d - 1] + work[d]
    BY <1>7
  <1>10. 0 \in T
    BY <1>1, <1>9
  <1>11. ASSUME NEW n \in Nat, n \in T PROVE n + 1 \in T
    <2> SUFFICES ASSUME n + 1 \in 0 .. MaxDay PROVE sum[n + 1] \in Nat
      OBVIOUS
    <2>1. n \in 0 .. MaxDay /\ n + 1 \in 1 .. MaxDay /\ (n + 1) - 1 = n /\ n + 1 # 0
      BY <1>1
    <2>2. sum[n + 1] = sum[n] + work[n + 1]
      BY <1>9, <2>1
    <2> QED
      BY <1>11, <2>1, <2>2
  <1>12. Nat \subseteq T
    <2> HIDE DEF T
    <2> QED
      BY <1>10, <1>11, Induction
  <1>13. sum \in [0 .. MaxDay -> Nat]
    <2>1. \A d \in 0 .. MaxDay : sum[d] \in Nat
      BY <1>12
    <2>2. sum = [d \in 0 .. MaxDay |-> sum[d]]
      BY <1>7
    <2> QED
      BY <2>1, <2>2
  <1>14. sum[0] = 0 /\ \A d \in 1 .. MaxDay : sum[d] = sum[d - 1] + work[d]
    BY <1>1, <1>9
  <1> QED
    BY <1>8, <1>13, <1>14

\* A total is a number.
LEMMA TotalType ==
    ASSUME NEW work \in [1 .. MaxDay -> Nat]
    PROVE  Total(work) \in Nat
  BY Sums, SessionAssumption

\* Minutes that are added on some day are added to the total.
LEMMA TotalWith ==
    ASSUME NEW work \in [1 .. MaxDay -> Nat], NEW k \in 1 .. MaxDay, NEW m \in Nat,
           NEW more, more = [work EXCEPT ![k] = @ + m]
    PROVE  more \in [1 .. MaxDay -> Nat] /\ Total(more) = Total(work) + m
  <1>1. MaxDay \in Nat
    BY SessionAssumption
  <1>2. /\ more \in [1 .. MaxDay -> Nat]
        /\ \A d \in 1 .. MaxDay : more[d] = work[d] + IF d = k THEN m ELSE 0
    OBVIOUS
  <1>3. PICK f \in [0 .. MaxDay -> Nat] :
           /\ f[0] = 0 /\ \A d \in 1 .. MaxDay : f[d] = f[d - 1] + work[d]
           /\ Total(work) = f[MaxDay]
    BY Sums
  <1>4. PICK g \in [0 .. MaxDay -> Nat] :
           /\ g[0] = 0 /\ \A d \in 1 .. MaxDay : g[d] = g[d - 1] + more[d]
           /\ Total(more) = g[MaxDay]
    BY <1>2, Sums
  <1> DEFINE S == {n \in Nat : n \in 0 .. MaxDay => g[n] = f[n] + IF n >= k THEN m ELSE 0}
  <1>5. 0 \in S
    BY <1>3, <1>4
  <1>6. ASSUME NEW n \in Nat, n \in S PROVE n + 1 \in S
    <2> SUFFICES ASSUME n + 1 \in 0 .. MaxDay
                 PROVE  g[n + 1] = f[n + 1] + IF n + 1 >= k THEN m ELSE 0
      OBVIOUS
    <2>1. n \in 0 .. MaxDay /\ n + 1 \in 1 .. MaxDay /\ (n + 1) - 1 = n
      BY <1>1
    <2>2. f[n + 1] = f[n] + work[n + 1] /\ g[n + 1] = g[n] + more[n + 1]
      BY <1>3, <1>4, <2>1
    <2>3. g[n] = f[n] + IF n >= k THEN m ELSE 0
      BY <1>6, <2>1
    <2>4. more[n + 1] = work[n + 1] + IF n + 1 = k THEN m ELSE 0
      BY <1>2, <2>1
    <2>5. f[n] \in Nat /\ work[n + 1] \in Nat
      BY <2>1
    <2> QED
      BY <2>2, <2>3, <2>4, <2>5
  <1>7. MaxDay \in S
    <2> HIDE DEF S
    <2> QED
      BY <1>1, <1>5, <1>6, Induction
  <1>8. g[MaxDay] = f[MaxDay] + m
    BY <1>1, <1>7
  <1> QED
    BY <1>2, <1>3, <1>4, <1>8

\* Nobody has worked yet.
LEMMA TotalNone ==
    ASSUME NEW work \in [1 .. MaxDay -> Nat], \A d \in 1 .. MaxDay : work[d] = 0
    PROVE  Total(work) = 0
  <1>1. MaxDay \in Nat
    BY SessionAssumption
  <1>2. PICK f \in [0 .. MaxDay -> Nat] :
           /\ f[0] = 0 /\ \A d \in 1 .. MaxDay : f[d] = f[d - 1] + work[d]
           /\ Total(work) = f[MaxDay]
    BY Sums
  <1> DEFINE S == {n \in Nat : n \in 0 .. MaxDay => f[n] = 0}
  <1>3. 0 \in S
    BY <1>2
  <1>4. ASSUME NEW n \in Nat, n \in S PROVE n + 1 \in S
    <2> SUFFICES ASSUME n + 1 \in 0 .. MaxDay PROVE f[n + 1] = 0
      OBVIOUS
    <2>1. n \in 0 .. MaxDay /\ n + 1 \in 1 .. MaxDay /\ (n + 1) - 1 = n
      BY <1>1
    <2> QED
      BY <1>2, <1>4, <2>1
  <1>5. MaxDay \in S
    <2> HIDE DEF S
    <2> QED
      BY <1>1, <1>3, <1>4, Induction
  <1> QED
    BY <1>1, <1>2, <1>5

-----------------------------------------------------------------------------
(***************************************************************************)
(* The accounts: those of the users, and those of the door.                *)
(***************************************************************************)
\* What the stores say of a user.
BookOf(u) ==
    LET user == users[u]
    IN  /\ \E m \in Minutes \cup {0} : user.today <= TimeLimit + m
        /\ user.calls <= logoffs[u]
        /\ user.today + user.online <= Total(worked[u])
        /\ user.lastcall <= day
        /\ u \notin twin => /\ user.calls = logoffs[u]
                            /\ user.today = Latest(u, user)
                            /\ user.online = Total(worked[u]) - Latest(u, user)
                            /\ NoneAfter(u, user)

Books == (\A u \in Users : BookOf(u)) /\ \A s \in Sessions : UserBooked(s)

\* What the record of the door says of a user.
DoorOf(u) ==
    /\ door.usage[u].runs <= played[u].runs
    /\ door.usage[u].wasted <= played[u].wasted
    /\ u \notin twin => door.usage[u] = played[u]

DoorBooks == (\A u \in Users : DoorOf(u)) /\ \A s \in Sessions : DoorBooked(s)

\* The accounts are those of the users and those of the door.
LEMMA AccountsParts == Accounts /\ Booked <=> Books /\ DoorBooks
  <1> DEFINE B(u) == /\ users[u].lastcall <= day
                     /\ u \notin twin => NoneAfter(u, users[u])
  <1>1. ASSUME NEW u \in Users PROVE AccountOf(u) /\ B(u) <=> BookOf(u) /\ DoorOf(u)
    BY DEF AccountOf, BookOf, DoorOf
  <1>2. Booked <=> (\A u \in Users : B(u)) /\ \A s \in Sessions : UserBooked(s) /\ DoorBooked(s)
    BY Zenon DEF Booked
  <1> HIDE DEF B
  <1> QED
    BY <1>1, <1>2 DEF Accounts, Books, DoorBooks

\* Nobody has called, and nothing was played.
LEMMA InitBooks == Init => Books /\ DoorBooks
  <1> SUFFICES ASSUME Init PROVE Books /\ DoorBooks
    OBVIOUS
  <1>1. \A s \in Sessions : sess[s].stage = "out"
    BY DEF Init, Out
  <1>2. \A s \in Sessions : UserBooked(s) /\ DoorBooked(s)
    BY <1>1 DEF UserBooked, DoorBooked, Loaded, InDoor
  <1>3. ASSUME NEW u \in Users PROVE BookOf(u)
    <2>1. worked[u] \in [1 .. MaxDay -> Nat] /\ \A d \in 1 .. MaxDay : worked[u][d] = 0
      BY DEF Init
    <2>2. Total(worked[u]) = 0
      BY <2>1, TotalNone
    <2>3. /\ users[u].today = 0 /\ users[u].online = 0 /\ users[u].calls = 0
          /\ users[u].lastcall = 0 /\ logoffs[u] = 0 /\ day = 1
      BY DEF Init
    <2>4. Latest(u, users[u]) = 0
      BY <2>3 DEF Latest
    <2>5. \E m \in Minutes \cup {0} : users[u].today <= TimeLimit + m
      <3>1. users[u].today <= TimeLimit + 0
        BY <2>3, SessionAssumption
      <3> QED
        BY <3>1
    <2> QED
      BY <2>1, <2>2, <2>3, <2>4, <2>5 DEF BookOf, NoneAfter
  <1>4. ASSUME NEW u \in Users PROVE DoorOf(u)
    BY DEF Init, Unused, DoorOf
  <1> QED
    BY <1>2, <1>3, <1>4 DEF Books, DoorBooks

\* A step that stores no user and no minutes keeps the accounts: who takes it
\* keeps the copy, or has none.
LEMMA BooksKept ==
    ASSUME Books, NEW s \in Sessions, NEW stage, Takes(s, stage),
           users' = users, worked' = worked, logoffs' = logoffs, twin' = twin, day' = day,
           stage \in {"out", "noded", "leaving"} \/ (Loaded(s) /\ Keeps(s))
    PROVE  Books'
  <1>1. \A t \in Sessions : Loaded(t)' => Loaded(t) /\ sess'[t].user = sess[t].user
                                          /\ sess'[t].useron = sess[t].useron
    BY DEF Loaded, Takes, Keeps
  <1>2. ASSUME NEW t \in Sessions PROVE UserBooked(t)'
    <2> SUFFICES ASSUME Loaded(t)' PROVE UserBooked(t)'
      BY DEF UserBooked
    <2>1. Loaded(t) /\ UserBooked(t)
      BY <1>1 DEF Books
    <2> QED
      BY <1>1, <2>1 DEF UserBooked, Latest, NoneAfter
  <1>3. ASSUME NEW u \in Users PROVE BookOf(u)'
    BY DEF Books, BookOf, Latest, NoneAfter
  <1> QED
    BY <1>2, <1>3 DEF Books

\* What bbs_init makes of a record.
LEMMA CalledFields ==
    ASSUME NEW user \in User, NEW now, now = Called(user)
    PROVE  /\ now.lastcall = day /\ now.rev = user.rev
           /\ user.lastcall = day => now.today = user.today /\ now.online = user.online
           /\ user.lastcall # day => now.today = 0 /\ now.online = user.online + user.today
  BY DEF Called, User

\* The copy that bbs_init makes of a record is exact, on a new day too.
LEMMA LoadUserBooks ==
    ASSUME Typed, Stores, Histories, Books, NEW s \in Sessions, LoadUser(s)
    PROVE  Books'
  <1> DEFINE u == sess[s].user
             user == users[u]
             copy == sess'[s].useron
  <1>1. /\ Takes(s, "loaded") /\ u \in Users /\ sess'[s].user = u /\ copy = Called(user)
        /\ users' = users /\ worked' = worked /\ logoffs' = logoffs /\ day' = day
        /\ user \in User /\ day \in 1 .. MaxDay
    BY LoadUserTakes DEF LoadUser, Stores
  <1>2. twin \subseteq twin' /\ \A t \in Sessions : Loaded(t) /\ sess[t].user = u => u \in twin'
    BY DEF LoadUser
  <1>3. Called(user).today <= TimeLimit
    BY DEF LoadUser
  <1>4. ~ Loaded(s)
    BY DEF LoadUser, Loaded
  <1>5. \A t \in Sessions : t # s => sess'[t] = sess[t] /\ (Loaded(t)' <=> Loaded(t))
    BY <1>1 DEF Takes, Loaded
  <1>6. ASSUME NEW v \in Users PROVE BookOf(v)'
    BY <1>1, <1>2 DEF Books, BookOf, Latest, NoneAfter
  <1>7. ASSUME NEW t \in Sessions, t # s PROVE UserBooked(t)'
    <2> SUFFICES ASSUME Loaded(t)' PROVE UserBooked(t)'
      BY DEF UserBooked
    <2>1. Loaded(t) /\ UserBooked(t) /\ sess'[t] = sess[t]
      BY <1>5, <1>7 DEF Books
    <2>2. sess[t].user \notin twin' =>
             /\ sess[t].user \notin twin /\ sess[t].user # u
             /\ \A x \in Sessions : Loaded(x)' /\ sess'[x].user = sess[t].user => x = t
      BY <1>1, <1>2, <1>5, <2>1 DEF UserBooked
    <2> QED
      BY <1>1, <2>1, <2>2 DEF UserBooked, Latest, NoneAfter
  <1>8. UserBooked(s)'
    <2>1. /\ copy.lastcall = day /\ copy.rev = user.rev
          /\ user.lastcall = day => copy.today = user.today /\ copy.online = user.online
          /\ user.lastcall # day => copy.today = 0 /\ copy.online = user.online + user.today
      BY <1>1, CalledFields
    <2>2. /\ user.today \in Nat /\ user.online \in Nat /\ user.lastcall \in Nat
          /\ day \in Nat /\ 1 <= day /\ MaxDay \in Nat /\ day \in 1 .. day
      BY <1>1, SessionAssumption DEF User
    <2>3. Total(worked[u]) \in Nat /\ \A d \in 1 .. MaxDay : worked[u][d] \in Nat
      BY <1>1, TotalType DEF Histories
    <2>4. BookOf(u)
      BY <1>1 DEF Books
    <2> HIDE DEF copy, user, u
    <2>5. copy.today <= TimeLimit /\ copy.today + copy.online <= Total(worked[u])
      BY <1>1, <1>3, <2>1, <2>2, <2>3, <2>4 DEF BookOf, user
    <2>6. ASSUME u \notin twin'
          PROVE  /\ copy.today = Latest(u, copy)
                 /\ copy.online = Total(worked[u]) - Latest(u, copy)
                 /\ NoneAfter(u, copy)
      <3>1. /\ user.today = Latest(u, user) /\ user.online = Total(worked[u]) - Latest(u, user)
            /\ NoneAfter(u, user) /\ user.lastcall <= day
        BY <1>2, <2>4, <2>6 DEF BookOf, user
      <3>2. Latest(u, copy) = worked[u][day]
        BY <2>1, <2>2 DEF Latest
      <3>3. NoneAfter(u, copy)
        BY <2>1, <2>2, <3>1 DEF NoneAfter
      <3>4. CASE user.lastcall = day
        <4>1. Latest(u, user) = worked[u][day]
          BY <2>2, <3>4 DEF Latest
        <4> QED
          BY <2>1, <3>1, <3>2, <3>3, <3>4, <4>1
      <3>5. CASE user.lastcall # day
        <4>1. worked[u][day] = 0
          BY <1>1, <2>2, <3>1, <3>5 DEF NoneAfter
        <4>2. copy.online = Total(worked[u])
          BY <2>1, <2>2, <2>3, <3>1, <3>5
        <4> QED
          BY <2>1, <2>3, <3>2, <3>3, <3>5, <4>1, <4>2
      <3> QED
        BY <3>4, <3>5
    <2>7. u \notin twin' => \A t \in Sessions : Loaded(t)' /\ sess'[t].user = u => t = s
      BY <1>2, <1>5 DEF u
    <2> QED
      BY <1>1, <2>1, <2>2, <2>5, <2>6, <2>7 DEF UserBooked, Latest, NoneAfter, copy, u, user
  <1> QED
    BY <1>6, <1>7, <1>8 DEF Books

\* The put of a copy that is as new as the record stores the copy, that of an
\* older one the record.
LEMMA UserPutFields ==
    ASSUME NEW ondisk \in User, NEW record \in User, record.rev <= ondisk.rev,
           NEW put, put = UserPut(ondisk, record)
    PROVE  /\ record.rev = ondisk.rev =>
                 /\ put.calls = record.calls /\ put.lastcall = record.lastcall
                 /\ put.today = record.today /\ put.online = record.online
           /\ record.rev # ondisk.rev =>
                 /\ put.calls = ondisk.calls /\ put.lastcall = ondisk.lastcall
                 /\ put.today = ondisk.today /\ put.online = ondisk.online
  BY DEF UserPut, Stored, User

\* The put of the user at log off books the call and its minutes.
LEMMA StoreUserBooks ==
    ASSUME Typed, Stores, Histories, CopiesSound, Books, NEW s \in Sessions, StoreUser(s)
    PROVE  Books'
  <1>1. /\ Takes(s, "leaving") /\ sess[s].user \in Users /\ sess[s].useron \in User
        /\ Loaded(s) /\ UserCopy(s) /\ UserBooked(s)
    BY StoreUserTakes DEF StoreUser, Loaded, CopiesSound, Books
  <1>2. PICK u \in Users : u = sess[s].user
    BY <1>1
  <1>3. PICK copy \in User : copy = sess[s].useron
    BY <1>1
  <1>4. PICK user \in User : user = users[u]
    BY DEF Stores
  <1>5. PICK work \in [1 .. MaxDay -> Nat] : work = worked[u]
    BY DEF Histories
  <1>6. PICK k : k = copy.lastcall
    OBVIOUS
  <1>7. PICK m \in Minutes :
           /\ users' = [users EXCEPT ![u] = UserPut(user, [copy EXCEPT !.today = @ + m])]
           /\ worked' = [worked EXCEPT ![u][k] = @ + m]
    BY <1>2, <1>3, <1>4, <1>6 DEF StoreUser
  <1>8. m \in Nat /\ MaxDay \in Nat /\ day \in 1 .. MaxDay /\ TimeLimit \in Nat
    BY SessionAssumption DEF Stores
  <1>9. k \in 1 .. day /\ k \in 1 .. MaxDay
    BY <1>1, <1>3, <1>6, <1>8 DEF UserBooked
  <1>10. PICK more : more = worked'[u]
    OBVIOUS
  <1>11. more = [work EXCEPT ![k] = @ + m]
    BY <1>5, <1>7, <1>10 DEF Histories
  <1>12. more \in [1 .. MaxDay -> Nat] /\ Total(more) = Total(work) + m /\ Total(work) \in Nat
    BY <1>8, <1>9, <1>11, TotalWith, TotalType
  <1>13. more[k] = work[k] + m /\ \A d \in 1 .. MaxDay : d # k => more[d] = work[d]
    BY <1>9, <1>11
  <1>14. PICK put : put = users'[u]
    OBVIOUS
  <1>15. put = UserPut(user, [copy EXCEPT !.today = @ + m])
    BY <1>7, <1>14 DEF Stores
  <1>16. /\ \A v \in Users : v # u => users'[v] = users[v] /\ worked'[v] = worked[v]
                                      /\ logoffs'[v] = logoffs[v]
         /\ logoffs'[u] = logoffs[u] + 1
         /\ twin' = twin /\ day' = day
    BY <1>2, <1>7 DEF StoreUser, Stores, Histories
  <1>17. copy.rev <= user.rev /\ (copy.rev = user.rev => copy.calls = user.calls + 1)
    BY <1>1, <1>2, <1>3, <1>4 DEF UserCopy
  <1>18. /\ copy.rev = user.rev =>
               /\ put.calls = copy.calls /\ put.lastcall = copy.lastcall
               /\ put.today = copy.today + m /\ put.online = copy.online
         /\ copy.rev # user.rev =>
               /\ put.calls = user.calls /\ put.lastcall = user.lastcall
               /\ put.today = user.today /\ put.online = user.online
    <2>1. PICK record : record = [copy EXCEPT !.today = @ + m]
      OBVIOUS
    <2>2. copy.today + m \in Nat
      BY <1>8 DEF User
    <2>3. /\ record \in User /\ record.today = copy.today + m
          /\ record.rev = copy.rev /\ record.calls = copy.calls
          /\ record.lastcall = copy.lastcall /\ record.online = copy.online
      BY <2>1, <2>2 DEF User
    <2>4. record.rev <= user.rev /\ put = UserPut(user, record)
      BY <1>15, <1>17, <2>1, <2>3
    <2>5. /\ record.rev = user.rev =>
                /\ put.calls = record.calls /\ put.lastcall = record.lastcall
                /\ put.today = record.today /\ put.online = record.online
          /\ record.rev # user.rev =>
                /\ put.calls = user.calls /\ put.lastcall = user.lastcall
                /\ put.today = user.today /\ put.online = user.online
      BY <2>3, <2>4, UserPutFields
    <2> QED
      BY <2>3, <2>5
  <1>19. /\ copy.today <= TimeLimit /\ copy.today + copy.online <= Total(work)
         /\ u \notin twin => /\ copy.rev = user.rev
                             /\ copy.today = work[k]
                             /\ copy.online = Total(work) - work[k]
                             /\ \A d \in 1 .. MaxDay : d > k => work[d] = 0
    BY <1>1, <1>2, <1>3, <1>4, <1>5, <1>6, <1>9 DEF UserBooked, Latest, NoneAfter
  <1>20. /\ \E x \in Minutes \cup {0} : user.today <= TimeLimit + x
         /\ user.calls <= logoffs[u] /\ user.today + user.online <= Total(work)
         /\ user.lastcall <= day
         /\ u \notin twin => user.calls = logoffs[u]
    BY <1>4, <1>5 DEF Books, BookOf
  <1>21. /\ user.today \in Nat /\ user.online \in Nat /\ user.calls \in Nat /\ user.rev \in Nat
         /\ copy.today \in Nat /\ copy.online \in Nat /\ copy.calls \in Nat /\ copy.rev \in Nat
         /\ logoffs[u] \in Nat /\ work[k] \in Nat /\ user.lastcall \in Nat /\ day \in Nat
    BY <1>8, <1>9 DEF User, Histories
  <1>22. /\ \E x \in Minutes \cup {0} : put.today <= TimeLimit + x
         /\ put.calls <= logoffs[u] + 1 /\ put.today + put.online <= Total(more)
         /\ put.lastcall <= day
         /\ u \notin twin => /\ put.calls = logoffs[u] + 1
                             /\ put.lastcall = k /\ put.today = more[k]
                             /\ put.online = Total(more) - more[k]
    <2>1. CASE copy.rev = user.rev
      <3>1. put.today <= TimeLimit + m
        BY <1>8, <1>18, <1>19, <1>21, <2>1
      <3>2. put.calls = user.calls + 1 /\ put.lastcall = k /\ k <= day
        BY <1>6, <1>9, <1>17, <1>18, <2>1
      <3>3. put.today + put.online <= Total(more)
        <4>1. put.today = copy.today + m /\ put.online = copy.online
          BY <1>18, <2>1
        <4>2. copy.today + copy.online <= Total(work)
          BY <1>19
        <4> QED
          BY <1>8, <1>12, <1>21, <4>1, <4>2
      <3>4. ASSUME u \notin twin
            PROVE  put.today = more[k] /\ put.online = Total(more) - more[k]
        BY <1>8, <1>12, <1>13, <1>18, <1>19, <1>21, <2>1, <3>4
      <3> QED
        BY <1>20, <1>21, <3>1, <3>2, <3>3, <3>4
    <2>2. CASE copy.rev # user.rev
      <3>1. u \in twin
        BY <1>19, <2>2
      <3>2. put.calls <= logoffs[u] + 1
        BY <1>18, <1>20, <1>21, <2>2
      <3>3. put.today + put.online <= Total(more)
        <4>1. put.today = user.today /\ put.online = user.online
          BY <1>18, <2>2
        <4>2. user.today + user.online <= Total(work)
          BY <1>20
        <4> QED
          BY <1>8, <1>12, <1>21, <4>1, <4>2
      <3> QED
        BY <1>18, <1>20, <2>2, <3>1, <3>2, <3>3
    <2> QED
      BY <2>1, <2>2
  <1>23. u \notin twin => \A d \in 1 .. MaxDay : d > k => more[d] = 0
    BY <1>9, <1>13, <1>19
  <1>24. BookOf(u)'
    <2>1. u \notin twin => Latest(u, put)' = more[k] /\ NoneAfter(u, put)'
      BY <1>9, <1>10, <1>22, <1>23 DEF Latest, NoneAfter
    <2> QED
      BY <1>10, <1>14, <1>16, <1>22, <2>1 DEF BookOf, Latest, NoneAfter
  <1>25. ASSUME NEW v \in Users, v # u PROVE BookOf(v)'
    <2>1. BookOf(v)
      BY DEF Books
    <2> QED
      BY <1>16, <1>25, <2>1 DEF BookOf, Latest, NoneAfter
  <1>26. ASSUME NEW t \in Sessions PROVE UserBooked(t)'
    <2> SUFFICES ASSUME Loaded(t)' PROVE UserBooked(t)'
      BY DEF UserBooked
    <2>1. t # s /\ sess'[t] = sess[t] /\ Loaded(t) /\ UserBooked(t)
      BY <1>1 DEF Takes, Loaded, Books
    <2>2. \A x \in Sessions : Loaded(x)' => Loaded(x) /\ sess'[x].user = sess[x].user
      BY <1>1 DEF Takes, Loaded
    <2>3. CASE sess[t].user # u
      <3>1. sess[t].user \in Users
        BY <2>1 DEF Typed, Fits, Loaded
      <3> QED
        BY <1>16, <2>1, <2>2, <2>3, <3>1 DEF UserBooked, Latest, NoneAfter
    <2>4. CASE sess[t].user = u
      <3>1. u \in twin
        BY <1>1, <1>2, <2>1, <2>4 DEF UserBooked
      <3>2. sess[t].useron \in User
        BY <2>1 DEF Typed, Fits, Loaded
      <3>3. PICK other \in User : other = sess[t].useron
        BY <3>2
      <3>4. other.today \in Nat /\ other.online \in Nat
        BY DEF User
      <3>5. other.today + other.online <= Total(work)
        BY <1>5, <2>1, <2>4, <3>3 DEF UserBooked
      <3>6. other.today + other.online <= Total(more)
        BY <1>8, <1>12, <3>4, <3>5
      <3> QED
        BY <1>10, <1>16, <2>1, <2>4, <3>1, <3>3, <3>6 DEF UserBooked
    <2> QED
      BY <2>3, <2>4
  <1> QED
    BY <1>24, <1>25, <1>26 DEF Books

\* Every step keeps the accounts of the users.
LEMMA BooksNext ==
    ASSUME Typed, Stores, Histories, CopiesSound, Books, [Next]_vars
    PROVE  Books'
  <1>1. CASE UNCHANGED vars
    BY <1>1 DEF vars, Books, BookOf, UserBooked, Latest, NoneAfter, Loaded
  <1>2. CASE NextDay
    <2>1. /\ users' = users /\ worked' = worked /\ logoffs' = logoffs /\ twin' = twin
          /\ sess' = sess /\ day' = day + 1 /\ day \in Nat
      BY <1>2, SessionAssumption DEF NextDay, Stores
    <2>2. \A u \in Users : users[u].lastcall \in Nat
      BY SessionAssumption DEF Stores, User
    <2>3. ASSUME NEW u \in Users PROVE BookOf(u)'
      BY <2>1, <2>2 DEF Books, BookOf, Latest, NoneAfter
    <2>4. ASSUME NEW t \in Sessions PROVE UserBooked(t)'
      <3> SUFFICES ASSUME Loaded(t)' PROVE UserBooked(t)'
        BY DEF UserBooked
      <3>1. Loaded(t) /\ UserBooked(t)
        BY <2>1 DEF Loaded, Books
      <3>2. sess[t].useron.lastcall \in 1 .. day + 1
        BY <2>1, <3>1 DEF UserBooked
      <3>3. \A x \in Sessions : Loaded(x)' <=> Loaded(x)
        BY <2>1 DEF Loaded
      <3> QED
        BY <2>1, <3>1, <3>2, <3>3 DEF UserBooked, Latest, NoneAfter
    <2> QED
      BY <2>3, <2>4 DEF Books
  <1>3. ASSUME NEW s \in Sessions, NEW u \in Users, NEW n \in Nodes, LoadNode(s, u, n)
        PROVE  Books'
    BY <1>3, LoadNodeTakes, BooksKept DEF LoadNode
  <1>4. ASSUME NEW s \in Sessions, LoadUser(s) PROVE Books'
    BY <1>4, LoadUserBooks
  <1>5. ASSUME NEW s \in Sessions, MainMenu(s) PROVE Books'
    <2>1. Loaded(s)
      BY <1>5 DEF MainMenu, Loaded
    <2> QED
      BY <1>5, <2>1, MainMenuTakes, BooksKept DEF MainMenu
  <1>6. ASSUME NEW s \in Sessions, GetStatus(s) PROVE Books'
    <2>1. Loaded(s)
      BY <1>6 DEF GetStatus, Loaded
    <2> QED
      BY <1>6, <2>1, GetStatusTakes, BooksKept DEF GetStatus
  <1>7. ASSUME NEW s \in Sessions, DoorRead(s) PROVE Books'
    <2>1. Loaded(s)
      BY <1>7 DEF DoorRead, Loaded
    <2> QED
      BY <1>7, <2>1, DoorReadTakes, BooksKept DEF DoorRead
  <1>8. ASSUME NEW s \in Sessions, DoorTake(s) PROVE Books'
    <2>1. Loaded(s)
      BY <1>8 DEF DoorTake, Loaded
    <2> QED
      BY <1>8, <2>1, DoorTakeTakes, BooksKept DEF DoorTake
  <1>9. ASSUME NEW s \in Sessions, DoorShow(s) PROVE Books'
    <2>1. Loaded(s)
      BY <1>9 DEF DoorShow, Loaded
    <2> QED
      BY <1>9, <2>1, DoorShowTakes, BooksKept DEF DoorShow
  <1>10. ASSUME NEW s \in Sessions, DoorGive(s) PROVE Books'
    <2>1. Loaded(s) /\ played \in Usage
      BY <1>10 DEF DoorGive, Loaded, Histories
    <2> QED
      BY <1>10, <2>1, DoorGiveTakes, BooksKept DEF DoorGive
  <1>11. ASSUME NEW s \in Sessions, StoreUser(s) PROVE Books'
    BY <1>11, StoreUserBooks
  <1>12. ASSUME NEW s \in Sessions, LogOff(s) PROVE Books'
    BY <1>12, LogOffTakes, BooksKept DEF LogOff
  <1>13. ASSUME NEW s \in Sessions, Lost(s) PROVE Books'
    BY <1>13, OutTakes, BooksKept DEF Lost
  <1> QED
    BY <1>1, <1>2, <1>3, <1>4, <1>5, <1>6, <1>7, <1>8, <1>9, <1>10, <1>11, <1>12,
       <1>13 DEF Next

\* What the put of a copy that is no newer than the record counts of a user.
LEMMA PutUsage ==
    ASSUME NEW ondisk \in Door, NEW record \in Door, record.rev <= ondisk.rev,
           NEW put \in Door, put = DoorPut(ondisk, record), NEW v \in Users
    PROVE  /\ record.rev = ondisk.rev => put.usage[v] = record.usage[v]
           /\ record.rev # ondisk.rev =>
                 /\ put.usage[v].runs = Later(ondisk.usage[v].runs, record.usage[v].runs)
                 /\ put.usage[v].wasted = Later(ondisk.usage[v].wasted, record.usage[v].wasted)
  <1> DEFINE merged == [u \in Users |->
                 [runs |-> Later(ondisk.usage[u].runs, record.usage[u].runs),
                  wasted |-> Later(ondisk.usage[u].wasted, record.usage[u].wasted)]]
             normal == [record EXCEPT !.usage = merged, !.rev = ondisk.rev + 1]
             next == [record EXCEPT !.rev = ondisk.rev + 1]
  <1>1. /\ merged[v].runs = Later(ondisk.usage[v].runs, record.usage[v].runs)
        /\ merged[v].wasted = Later(ondisk.usage[v].wasted, record.usage[v].wasted)
    OBVIOUS
  <1>2. put = IF ondisk.rev > record.rev THEN normal ELSE next
    BY DEF DoorPut, Stored, DoorNormalize
  <1> HIDE DEF merged
  <1>3. normal.usage = merged /\ next.usage = record.usage
    BY DEF Door
  <1> HIDE DEF normal, next
  <1>4. ondisk.rev \in Nat /\ record.rev \in Nat
    BY DEF Door
  <1> QED
    BY <1>1, <1>2, <1>3, <1>4

Used == [runs : Nat, wasted : Nat]

\* Two records of usage are equal when their counters are.
LEMMA SameUsage ==
    ASSUME NEW a \in Used, NEW b \in Used, a.runs = b.runs, a.wasted = b.wasted
    PROVE  a = b
  BY DEF Used

\* The put of a copy that counts nothing more of a user: the runs stay, the
\* minutes are those of the record or of the copy.
LEMMA PutOfOther ==
    ASSUME NEW ondisk \in Door, NEW copy \in Door, NEW record \in Door,
           copy.rev = record.rev, copy.rev <= ondisk.rev,
           copy.rev = ondisk.rev => copy.usage = ondisk.usage,
           NEW put \in Door, put = DoorPut(ondisk, record), NEW v \in Users,
           record.usage[v] = copy.usage[v], copy.usage[v].runs <= ondisk.usage[v].runs,
           NEW done \in Used,
           ondisk.usage[v].wasted <= done.wasted, copy.usage[v].wasted <= done.wasted
    PROVE  /\ put.usage[v].runs = ondisk.usage[v].runs
           /\ put.usage[v].wasted <= done.wasted
           /\ ondisk.usage[v] = done => put.usage[v] = done
  <1>1. put.usage[v] \in Used /\ ondisk.usage[v] \in Used /\ copy.usage[v] \in Used
    BY DEF Door, Usage, Used
  <1>2. /\ put.usage[v].runs \in Nat /\ put.usage[v].wasted \in Nat
        /\ ondisk.usage[v].runs \in Nat /\ ondisk.usage[v].wasted \in Nat
        /\ copy.usage[v].runs \in Nat /\ copy.usage[v].wasted \in Nat
        /\ done.runs \in Nat /\ done.wasted \in Nat
    BY <1>1 DEF Used
  <1>3. CASE copy.rev = ondisk.rev
    <2>1. record.rev <= ondisk.rev /\ record.rev = ondisk.rev
      BY <1>3
    <2>2. put.usage[v] = record.usage[v]
      BY <2>1, PutUsage
    <2>3. put.usage[v] = ondisk.usage[v]
      BY <1>3, <2>2
    <2> QED
      BY <2>3
  <1>4. CASE copy.rev # ondisk.rev
    <2>1. /\ put.usage[v].runs = Later(ondisk.usage[v].runs, copy.usage[v].runs)
          /\ put.usage[v].wasted = Later(ondisk.usage[v].wasted, copy.usage[v].wasted)
      <3>1. record.rev <= ondisk.rev /\ record.rev # ondisk.rev
        BY <1>4
      <3> QED
        BY <3>1, PutUsage
    <2>2. put.usage[v].runs = ondisk.usage[v].runs /\ put.usage[v].wasted <= done.wasted
      BY <1>2, <2>1 DEF Later
    <2>3. ondisk.usage[v] = done => put.usage[v].wasted = done.wasted
      BY <1>2, <2>1 DEF Later
    <2> QED
      BY <1>1, <2>2, <2>3, SameUsage
  <1> QED
    BY <1>3, <1>4

\* The put of a copy that counts one more run of m minutes.
LEMMA PutOfOwn ==
    ASSUME NEW ondisk \in Door, NEW copy \in Door, NEW record \in Door, NEW m \in Nat,
           copy.rev = record.rev, copy.rev <= ondisk.rev,
           copy.rev = ondisk.rev => copy.usage = ondisk.usage,
           NEW put \in Door, put = DoorPut(ondisk, record), NEW v \in Users,
           record.usage[v] = [runs |-> copy.usage[v].runs + 1, wasted |-> copy.usage[v].wasted + m],
           copy.usage[v].runs <= ondisk.usage[v].runs,
           NEW done \in Used,
           ondisk.usage[v].runs <= done.runs,
           ondisk.usage[v].wasted <= done.wasted, copy.usage[v].wasted <= done.wasted
    PROVE  /\ put.usage[v].runs <= done.runs + 1
           /\ put.usage[v].wasted <= done.wasted + m
           /\ ondisk.usage[v] = done /\ copy.usage[v] = done =>
                 put.usage[v] = [runs |-> done.runs + 1, wasted |-> done.wasted + m]
  <1>1. put.usage[v] \in Used /\ ondisk.usage[v] \in Used /\ copy.usage[v] \in Used
    BY DEF Door, Usage, Used
  <1>2. /\ put.usage[v].runs \in Nat /\ put.usage[v].wasted \in Nat
        /\ ondisk.usage[v].runs \in Nat /\ ondisk.usage[v].wasted \in Nat
        /\ copy.usage[v].runs \in Nat /\ copy.usage[v].wasted \in Nat
        /\ done.runs \in Nat /\ done.wasted \in Nat
    BY <1>1 DEF Used
  <1>3. CASE copy.rev = ondisk.rev
    <2>1. put.usage[v] = [runs |-> copy.usage[v].runs + 1, wasted |-> copy.usage[v].wasted + m]
      <3>1. record.rev <= ondisk.rev /\ record.rev = ondisk.rev
        BY <1>3
      <3>2. put.usage[v] = record.usage[v]
        BY <3>1, PutUsage
      <3> QED
        BY <3>2
    <2> QED
      BY <1>2, <2>1
  <1>4. CASE copy.rev # ondisk.rev
    <2>1. record.usage[v].runs = copy.usage[v].runs + 1
             /\ record.usage[v].wasted = copy.usage[v].wasted + m
      OBVIOUS
    <2>2. /\ put.usage[v].runs = Later(ondisk.usage[v].runs, copy.usage[v].runs + 1)
          /\ put.usage[v].wasted = Later(ondisk.usage[v].wasted, copy.usage[v].wasted + m)
      <3>1. record.rev <= ondisk.rev /\ record.rev # ondisk.rev
        BY <1>4
      <3>2. /\ put.usage[v].runs = Later(ondisk.usage[v].runs, record.usage[v].runs)
            /\ put.usage[v].wasted = Later(ondisk.usage[v].wasted, record.usage[v].wasted)
        BY <3>1, PutUsage
      <3> QED
        BY <2>1, <3>2
    <2>3. put.usage[v].runs <= done.runs + 1 /\ put.usage[v].wasted <= done.wasted + m
      BY <1>2, <2>2 DEF Later
    <2>4. ASSUME ondisk.usage[v] = done, copy.usage[v] = done
          PROVE  put.usage[v].runs = done.runs + 1 /\ put.usage[v].wasted = done.wasted + m
      BY <1>2, <2>2, <2>4 DEF Later
    <2>5. [runs |-> done.runs + 1, wasted |-> done.wasted + m] \in Used
      BY <1>2 DEF Used
    <2> QED
      BY <1>1, <2>3, <2>4, <2>5, SameUsage
  <1> QED
    BY <1>3, <1>4

\* A step that does not put the door keeps its accounts.
LEMMA DoorBooksKept ==
    ASSUME DoorBooks, NEW s \in Sessions, NEW stage, Takes(s, stage),
           door' = door, played' = played, twin \subseteq twin',
           \/ stage \notin {"door_read", "door_taken", "door_shown"}
           \/ InDoor(s) /\ sess'[s].door = sess[s].door /\ sess'[s].user = sess[s].user
    PROVE  DoorBooks'
  <1>1. ASSUME NEW u \in Users PROVE DoorOf(u)'
    BY DEF DoorBooks, DoorOf
  <1>2. ASSUME NEW t \in Sessions PROVE DoorBooked(t)'
    <2> SUFFICES ASSUME InDoor(t)' PROVE DoorBooked(t)'
      BY DEF DoorBooked
    <2>1. InDoor(t) /\ sess'[t].door = sess[t].door /\ sess'[t].user = sess[t].user
      BY DEF Takes, InDoor
    <2>2. DoorBooked(t)
      BY DEF DoorBooks
    <2> QED
      BY <2>1, <2>2 DEF DoorBooked
  <1> QED
    BY <1>1, <1>2 DEF DoorBooks

\* A put of the door leaves alone what the copies of others say of their users.
LEMMA DoorBooksPut ==
    ASSUME Histories, DoorBooks, NEW s \in Sessions, NEW stage, Takes(s, stage),
           Typed, played' \in Usage, twin' = twin,
           \A v \in Users : DoorOf(v)' /\ played[v].wasted <= played'[v].wasted,
           \A t \in Sessions \ {s} : InDoor(t) =>
              \/ sess[t].user \in twin
              \/ door'.usage[sess[t].user] = door.usage[sess[t].user],
           \/ stage \notin {"door_read", "door_taken", "door_shown"}
           \/ sess'[s].door = door'
    PROVE  DoorBooks'
  <1>1. ASSUME NEW t \in Sessions PROVE DoorBooked(t)'
    <2> SUFFICES ASSUME InDoor(t)' PROVE DoorBooked(t)'
      BY DEF DoorBooked
    <2>1. CASE t = s
      <3>1. sess'[s].door = door'
        BY <2>1 DEF Takes, InDoor
      <3> QED
        BY <2>1, <3>1 DEF DoorBooked, DoorOf
    <2>2. CASE t # s
      <3>1. InDoor(t) /\ sess'[t] = sess[t] /\ DoorBooked(t)
        BY <2>2 DEF Takes, InDoor, DoorBooks
      <3>2. PICK copy \in Door : copy = sess[t].door
        BY <3>1 DEF InDoor, Typed, Fits
      <3>3. ASSUME NEW v \in Users PROVE copy.usage[v].wasted <= played'[v].wasted
        <4>1. /\ copy.usage[v].wasted \in Nat /\ played[v].wasted \in Nat
              /\ played'[v].wasted \in Nat
          BY DEF Door, Usage, Histories
        <4>2. copy.usage[v].wasted <= played[v].wasted
          BY <3>1, <3>2 DEF DoorBooked
        <4> QED
          BY <4>1, <4>2
      <3>4. sess[t].user \notin twin => copy.usage[sess[t].user] = door'.usage[sess[t].user]
        BY <2>2, <3>1, <3>2 DEF DoorBooked
      <3> QED
        BY <3>1, <3>2, <3>3, <3>4 DEF DoorBooked
    <2> QED
      BY <2>1, <2>2
  <1> QED
    BY <1>1 DEF DoorBooks

\* The put that takes the door books nothing.
LEMMA DoorTakeBooks ==
    ASSUME Typed, Stores, Histories, CopiesSound, DoorBooks, NEW s \in Sessions, DoorTake(s)
    PROVE  DoorBooks'
  <1>1. /\ Takes(s, "door_taken") /\ sess'[s].door = door' /\ sess[s].door \in Door
        /\ [sess[s].door EXCEPT !.active = TRUE] \in Door
        /\ door' = DoorPut(door, [sess[s].door EXCEPT !.active = TRUE])
        /\ door' \in Door /\ door \in Door
    BY DoorTakeTakes DEF Stores
  <1>2. PICK copy \in Door : copy = sess[s].door
    BY <1>1
  <1>3. PICK record \in Door : record = [copy EXCEPT !.active = TRUE]
    BY <1>1, <1>2
  <1>4. record.rev = copy.rev /\ record.usage = copy.usage
    BY <1>3 DEF Door
  <1>5. InDoor(s) /\ DoorCopy(s) /\ DoorBooked(s)
    BY DEF DoorTake, InDoor, CopiesSound, DoorBooks
  <1>6. /\ copy.rev <= door.rev /\ (copy.rev = door.rev => copy.usage = door.usage)
        /\ \A v \in Users : /\ copy.usage[v].runs <= door.usage[v].runs
                            /\ copy.usage[v].wasted <= played[v].wasted
    BY <1>2, <1>5 DEF DoorCopy, DoorBooked
  <1>7. played' = played /\ twin' = twin /\ played \in Usage
    BY DEF DoorTake, Histories
  <1>8. ASSUME NEW v \in Users
        PROVE  /\ DoorOf(v)' /\ played[v].wasted <= played'[v].wasted
               /\ v \notin twin => door'.usage[v] = door.usage[v]
    <2>1. PICK done \in Used : done = played[v]
      BY <1>7 DEF Usage, Used
    <2>2. /\ door.usage[v].runs <= done.runs /\ door.usage[v].wasted <= done.wasted
          /\ v \notin twin => door.usage[v] = done
      BY <2>1 DEF DoorBooks, DoorOf
    <2>3. door' = DoorPut(door, record)
      BY <1>1, <1>2, <1>3
    <2>4. /\ door'.usage[v].runs = door.usage[v].runs
          /\ door'.usage[v].wasted <= done.wasted
          /\ door.usage[v] = done => door'.usage[v] = done
      BY <1>1, <1>4, <1>6, <2>1, <2>2, <2>3, PutOfOther
    <2>5. played[v].wasted <= played'[v].wasted
      BY <1>7, <2>1 DEF Used
    <2> QED
      BY <1>7, <2>1, <2>2, <2>4, <2>5 DEF DoorOf
  <1>9. \A t \in Sessions : InDoor(t) => sess[t].user \in Users
    BY DEF InDoor, Typed, Fits
  <1> QED
    BY <1>1, <1>7, <1>8, <1>9, DoorBooksPut

\* The put that gives it back books one run of the user with its minutes: no
\* other copy is of a user that has one session.
LEMMA DoorGiveBooks ==
    ASSUME Typed, Stores, Histories, CopiesSound, Books, DoorBooks,
           NEW s \in Sessions, DoorGive(s)
    PROVE  DoorBooks'
  <1>1. /\ Takes(s, "menu") /\ sess[s].door \in Door /\ sess[s].user \in Users
        /\ door' \in Door /\ played' \in Usage /\ played \in Usage /\ door \in Door
    BY DoorGiveTakes DEF Histories, Stores
  <1>2. PICK copy \in Door : copy = sess[s].door
    BY <1>1
  <1>3. PICK u \in Users : u = sess[s].user
    BY <1>1
  <1>4. PICK m \in Minutes : /\ door' = DoorPut(door, Given(copy, u, m))
                             /\ played' = Ran(played, u, m)
    BY <1>2, <1>3, DoorGiveTakes DEF Histories
  <1>5. m \in Nat
    BY SessionAssumption
  <1>6. PICK record \in Door : record = Given(copy, u, m)
    BY <1>5, GivenType
  <1>7. record.rev = copy.rev /\ record.usage = Ran(copy.usage, u, m) /\ copy.usage \in Usage
    BY <1>5, <1>6, GivenType DEF Door
  <1>8. InDoor(s) /\ Loaded(s) /\ DoorCopy(s) /\ DoorBooked(s) /\ UserBooked(s)
    BY DEF DoorGive, InDoor, Loaded, CopiesSound, DoorBooks, Books
  <1>9. /\ copy.rev <= door.rev /\ (copy.rev = door.rev => copy.usage = door.usage)
        /\ \A v \in Users : /\ copy.usage[v].runs <= door.usage[v].runs
                            /\ copy.usage[v].wasted <= played[v].wasted
        /\ u \notin twin => copy.usage[u] = door.usage[u]
    BY <1>2, <1>3, <1>8 DEF DoorCopy, DoorBooked
  <1>10. twin' = twin
    BY DEF DoorGive
  <1>11. /\ DoorOf(u)' /\ played[u].wasted <= played'[u].wasted
    <2>1. PICK done \in Used : done = played[u]
      BY <1>1 DEF Usage, Used
    <2>2. /\ door.usage[u].runs <= done.runs /\ door.usage[u].wasted <= done.wasted
          /\ u \notin twin => door.usage[u] = done
      BY <2>1 DEF DoorBooks, DoorOf
    <2>3. played'[u] = [runs |-> done.runs + 1, wasted |-> done.wasted + m]
      BY <1>1, <1>4, <2>1 DEF Ran, Usage
    <2>4. record.usage[u] =
             [runs |-> copy.usage[u].runs + 1, wasted |-> copy.usage[u].wasted + m]
      BY <1>7 DEF Ran, Usage
    <2>5. /\ door'.usage[u].runs <= done.runs + 1
          /\ door'.usage[u].wasted <= done.wasted + m
          /\ door.usage[u] = done /\ copy.usage[u] = done =>
                door'.usage[u] = [runs |-> done.runs + 1, wasted |-> done.wasted + m]
      <3>1. door' = DoorPut(door, record) /\ copy.rev = record.rev
        BY <1>4, <1>6, <1>7
      <3>2. /\ copy.rev <= door.rev /\ (copy.rev = door.rev => copy.usage = door.usage)
            /\ copy.usage[u].runs <= door.usage[u].runs
        BY <1>9
      <3>3. copy.usage[u].wasted <= done.wasted
        BY <1>9, <2>1
      <3>4. door.usage[u].runs <= done.runs /\ door.usage[u].wasted <= done.wasted
        BY <2>2
      <3> QED
        BY <1>1, <1>5, <2>4, <3>1, <3>2, <3>3, <3>4, PutOfOwn
    <2>6. played'[u].runs = done.runs + 1 /\ played'[u].wasted = done.wasted + m
      BY <2>3
    <2>7. played[u].wasted <= played'[u].wasted
      BY <1>5, <2>1, <2>6 DEF Used
    <2> QED
      BY <1>9, <1>10, <2>2, <2>3, <2>5, <2>6, <2>7 DEF DoorOf
  <1>12. ASSUME NEW v \in Users, v # u
         PROVE  /\ DoorOf(v)' /\ played[v].wasted <= played'[v].wasted
                /\ v \notin twin => door'.usage[v] = door.usage[v]
    <2>1. PICK done \in Used : done = played[v]
      BY <1>1 DEF Usage, Used
    <2>2. /\ door.usage[v].runs <= done.runs /\ door.usage[v].wasted <= done.wasted
          /\ v \notin twin => door.usage[v] = done
      BY <2>1 DEF DoorBooks, DoorOf
    <2>3. played'[v] = done /\ record.usage[v] = copy.usage[v]
      <3>1. v \in Users \ {u}
        BY <1>12
      <3>2. Ran(played, u, m)[v] = played[v] /\ Ran(copy.usage, u, m)[v] = copy.usage[v]
        BY <1>1, <1>5, <1>7, <3>1, RanType
      <3> QED
        BY <1>4, <1>7, <2>1, <3>2
    <2>4. /\ door'.usage[v].runs = door.usage[v].runs
          /\ door'.usage[v].wasted <= done.wasted
          /\ door.usage[v] = done => door'.usage[v] = done
      BY <1>1, <1>4, <1>6, <1>7, <1>9, <2>1, <2>2, <2>3, PutOfOther
    <2>5. played[v].wasted <= played'[v].wasted
      BY <2>1, <2>3 DEF Used
    <2> QED
      BY <1>10, <2>2, <2>3, <2>4, <2>5 DEF DoorOf
  <1>13. ASSUME NEW t \in Sessions \ {s}, InDoor(t), sess[t].user \notin twin
         PROVE  door'.usage[sess[t].user] = door.usage[sess[t].user]
    <2>1. sess[t].user \in Users /\ Loaded(t)
      BY <1>13 DEF InDoor, Loaded, Typed, Fits
    <2>2. sess[t].user # u
      BY <1>3, <1>8, <1>13, <2>1 DEF UserBooked
    <2> QED
      BY <1>12, <1>13, <2>1, <2>2
  <1> QED
    BY <1>1, <1>10, <1>11, <1>12, <1>13, DoorBooksPut

\* Every step keeps the accounts of the door.
LEMMA DoorBooksNext ==
    ASSUME Typed, Stores, Histories, CopiesSound, Books, DoorBooks, [Next]_vars
    PROVE  DoorBooks'
  <1>1. CASE UNCHANGED vars \/ NextDay
    <2>1. door' = door /\ played' = played /\ twin' = twin /\ sess' = sess
      BY <1>1 DEF vars, NextDay
    <2>2. ASSUME NEW u \in Users PROVE DoorOf(u)'
      BY <2>1 DEF DoorBooks, DoorOf
    <2>3. ASSUME NEW t \in Sessions PROVE DoorBooked(t)'
      BY <2>1 DEF DoorBooks, DoorBooked, InDoor
    <2> QED
      BY <2>2, <2>3 DEF DoorBooks
  <1>2. ASSUME NEW s \in Sessions, NEW u \in Users, NEW n \in Nodes, LoadNode(s, u, n)
        PROVE  DoorBooks'
    BY <1>2, LoadNodeTakes, DoorBooksKept DEF LoadNode
  <1>3. ASSUME NEW s \in Sessions, LoadUser(s) PROVE DoorBooks'
    <2>1. twin \subseteq twin'
      BY <1>3 DEF LoadUser
    <2> QED
      BY <1>3, <2>1, LoadUserTakes, DoorBooksKept DEF LoadUser
  <1>4. ASSUME NEW s \in Sessions, MainMenu(s) PROVE DoorBooks'
    BY <1>4, MainMenuTakes, DoorBooksKept DEF MainMenu
  <1>5. ASSUME NEW s \in Sessions, GetStatus(s) PROVE DoorBooks'
    BY <1>5, GetStatusTakes, DoorBooksKept DEF GetStatus
  <1>6. ASSUME NEW s \in Sessions, DoorRead(s) PROVE DoorBooks'
    <2>1. Takes(s, "door_read") /\ sess'[s].door = door
      BY <1>6, DoorReadTakes
    <2>2. door' = door /\ played' = played /\ twin' = twin
      BY <1>6 DEF DoorRead
    <2>3. ASSUME NEW u \in Users PROVE DoorOf(u)'
      BY <2>2 DEF DoorBooks, DoorOf
    <2>4. ASSUME NEW t \in Sessions PROVE DoorBooked(t)'
      <3>1. CASE t = s
        BY <2>1, <2>2, <3>1 DEF DoorBooks, DoorOf, DoorBooked
      <3>2. CASE t # s
        BY <2>1, <2>2, <3>2 DEF DoorBooks, DoorBooked, Takes, InDoor
      <3> QED
        BY <3>1, <3>2
    <2> QED
      BY <2>3, <2>4 DEF DoorBooks
  <1>7. ASSUME NEW s \in Sessions, DoorTake(s) PROVE DoorBooks'
    BY <1>7, DoorTakeBooks
  <1>8. ASSUME NEW s \in Sessions, DoorShow(s) PROVE DoorBooks'
    <2>1. InDoor(s)
      BY <1>8 DEF DoorShow, InDoor
    <2>2. Takes(s, "door_shown") /\ sess'[s].door = sess[s].door /\ sess'[s].user = sess[s].user
      BY <1>8, DoorShowTakes DEF Keeps
    <2> QED
      BY <1>8, <2>1, <2>2, DoorBooksKept DEF DoorShow
  <1>9. ASSUME NEW s \in Sessions, DoorGive(s) PROVE DoorBooks'
    BY <1>9, DoorGiveBooks
  <1>10. ASSUME NEW s \in Sessions, StoreUser(s) PROVE DoorBooks'
    BY <1>10, StoreUserTakes, DoorBooksKept DEF StoreUser
  <1>11. ASSUME NEW s \in Sessions, LogOff(s) PROVE DoorBooks'
    BY <1>11, LogOffTakes, DoorBooksKept DEF LogOff
  <1>12. ASSUME NEW s \in Sessions, Lost(s) PROVE DoorBooks'
    BY <1>12, OutTakes, DoorBooksKept DEF Lost
  <1> QED
    BY <1>1, <1>2, <1>3, <1>4, <1>5, <1>6, <1>7, <1>8, <1>9, <1>10, <1>11, <1>12 DEF Next

\* Every step keeps the accounts.
LEMMA AccountsNext ==
    ASSUME Typed, Stores, Histories, CopiesSound, Accounts, Booked, [Next]_vars
    PROVE  Accounts' /\ Booked'
  <1>1. Books /\ DoorBooks
    BY AccountsParts
  <1>2. Books' /\ DoorBooks'
    BY <1>1, BooksNext, DoorBooksNext
  <1>3. (Accounts /\ Booked <=> Books /\ DoorBooks)'
    BY AccountsParts, PTL
  <1> QED
    BY <1>2, <1>3

-----------------------------------------------------------------------------
(***************************************************************************)
(* The theorems.                                                           *)
(***************************************************************************)

LEMMA InitIInv == Init => IInv
  <1> SUFFICES ASSUME Init PROVE IInv
    OBVIOUS
  <1>1. \A s \in Sessions : ~ Loaded(s) /\ ~ InDoor(s) /\ ~ Inside(s)
    BY DEF Init, Out, Loaded, InDoor, Inside
  <1>2. door.active = FALSE
    BY DEF Init
  <1>3. /\ \A s \in Sessions : sess[s].stage = "out"
        /\ \A n \in Nodes : /\ fate[n] = "off"
                            /\ nodes[n].useron = Nobody /\ nodes[n].action = "NODE_OFFL"
    BY DEF Init, Out
  <1>4. NodesKnown /\ WhoIsOn
    BY <1>3 DEF NodesKnown, On, WhoIsOn
  <1>5. Accounts /\ Booked
    BY AccountsParts, InitBooks
  <1> QED
    BY <1>1, <1>2, <1>4, <1>5, InitType
    DEF IInv, CopiesSound, UserCopy, DoorCopy, DoorTaken, DoorInUse

LEMMA NextIInv == IInv /\ [Next]_vars => IInv'
  BY TypeParts, TypeNext, CopiesNext, DoorNext, NodesNext, AccountsNext DEF IInv

\* The inductive invariant of the sessions: the types, that no copy of a user
\* or of the door is ahead of what is stored, who may be in the door and on a
\* node, and what the records and the copies say of what was done.
THEOREM SessionInvariant == Spec => []IInv
  BY InitIInv, NextIInv, PTL DEF Spec

\* The types of the stores and of what the sessions hold.
THEOREM SessionTypes == Spec => []TypeOK
  <1>1. IInv => TypeOK
    BY DEF IInv
  <1> QED
    BY <1>1, SessionInvariant, PTL

\* The door of bbs_doors.c: in use only as long as somebody is in it or was
\* lost there, and one for one user has one at a time unless it was taken
\* between the get and the put.
THEOREM SessionDoor == Spec => []DoorInUse
  <1>1. IInv => DoorInUse
    BY DEF IInv
  <1> QED
    BY <1>1, SessionInvariant, PTL

\* The store of nodes says who is on, whatever sessions were lost before, as
\* long as a node has one session at a time; after a log off it says nobody.
THEOREM SessionNodes == Spec => []WhoIsOn
  <1>1. IInv => WhoIsOn
    BY DEF IInv
  <1> QED
    BY <1>1, SessionInvariant, PTL

\* Every log off, every minute and every run of the door is in the stores of
\* users and doors once, whatever copies the sessions put, as long as a user
\* has one session at a time; and nothing is there that was not done.
THEOREM SessionAccounts == Spec => []Accounts
  <1>1. IInv => Accounts
    BY DEF IInv
  <1> QED
    BY <1>1, SessionInvariant, PTL

-----------------------------------------------------------------------------
(***************************************************************************)
(* The counters are tallies.                                               *)
(***************************************************************************)

CallsOf == [u \in Users |-> users[u].calls]
RunsOf == [u \in Users |-> door.usage[u].runs]

\* A tally in which one counter grew by one or by nothing is added to or kept.
LEMMA Tallied ==
    ASSUME NEW f, NEW g, NEW me \in Users, f = [u \in Users |-> f[u]],
           g = [u \in Users |-> g[u]], \A u \in Users \ {me} : g[u] = f[u],
           g[me] \in {f[me], f[me] + 1}
    PROVE  g = [f EXCEPT ![me] = @ + 1] \/ g = f
  <1>1. CASE g[me] = f[me]
    BY <1>1
  <1>2. CASE g[me] = f[me] + 1
    BY <1>2
  <1> QED
    BY <1>1, <1>2

\* A step adds to the calls of one user, or keeps them.
LEMMA CallsNext ==
    ASSUME Typed, Stores, Histories, CopiesSound, [Next]_vars
    PROVE  (\E u \in Users : CallsOf' = [CallsOf EXCEPT ![u] = @ + 1]) \/ CallsOf' = CallsOf
  <1>1. CASE users' = users
    BY <1>1 DEF CallsOf
  <1>2. ASSUME NEW s \in Sessions, StoreUser(s)
        PROVE  (\E u \in Users : CallsOf' = [CallsOf EXCEPT ![u] = @ + 1]) \/ CallsOf' = CallsOf
    <2> DEFINE me == sess[s].user
    <2>1. /\ me \in Users /\ \A u \in Users \ {me} : users'[u] = users[u]
          /\ users'[me].calls \in {users[me].calls, users[me].calls + 1}
      BY <1>2, StoreUserCalls DEF CopiesSound
    <2>2. /\ CallsOf = [u \in Users |-> CallsOf[u]] /\ CallsOf' = [u \in Users |-> CallsOf'[u]]
          /\ \A u \in Users \ {me} : CallsOf'[u] = CallsOf[u]
          /\ CallsOf'[me] \in {CallsOf[me], CallsOf[me] + 1}
      BY <2>1 DEF CallsOf
    <2> QED
      BY <2>1, <2>2, Tallied
  <1>3. users' = users \/ \E s \in Sessions : StoreUser(s)
    BY DEF Next, vars, NextDay, LoadNode, LoadUser, MainMenu, GetStatus, DoorRead,
       DoorTake, DoorShow, DoorGive, LogOff, Lost
  <1> QED
    BY <1>1, <1>2, <1>3

\* A step adds to the runs of one user, or keeps them.
LEMMA RunsNext ==
    ASSUME Typed, Stores, Histories, CopiesSound, [Next]_vars
    PROVE  (\E u \in Users : RunsOf' = [RunsOf EXCEPT ![u] = @ + 1]) \/ RunsOf' = RunsOf
  <1>1. CASE door' = door
    BY <1>1 DEF RunsOf
  <1>2. ASSUME NEW s \in Sessions, DoorTake(s) PROVE RunsOf' = RunsOf
    BY <1>2, TakeRuns DEF RunsOf, CopiesSound
  <1>3. ASSUME NEW s \in Sessions, DoorGive(s)
        PROVE  (\E u \in Users : RunsOf' = [RunsOf EXCEPT ![u] = @ + 1]) \/ RunsOf' = RunsOf
    <2> DEFINE me == sess[s].user
    <2>1. /\ me \in Users /\ \A u \in Users \ {me} : door'.usage[u].runs = door.usage[u].runs
          /\ door'.usage[me].runs \in {door.usage[me].runs, door.usage[me].runs + 1}
      BY <1>3, GiveRuns DEF CopiesSound, Histories
    <2>2. /\ RunsOf = [u \in Users |-> RunsOf[u]] /\ RunsOf' = [u \in Users |-> RunsOf'[u]]
          /\ \A u \in Users \ {me} : RunsOf'[u] = RunsOf[u]
          /\ RunsOf'[me] \in {RunsOf[me], RunsOf[me] + 1}
      BY <2>1 DEF RunsOf
    <2> QED
      BY <2>1, <2>2, Tallied
  <1>4. door' = door \/ \E s \in Sessions : DoorTake(s) \/ DoorGive(s)
    BY DEF Next, vars, NextDay, LoadNode, LoadUser, MainMenu, GetStatus, DoorRead,
       DoorShow, StoreUser, LogOff, Lost
  <1> QED
    BY <1>1, <1>2, <1>3, <1>4

\* The calls that are stored with the users and the runs that are stored with
\* the door are each a tally, whatever copies the sessions put.
THEOREM SessionTallies == Spec => Tallies
  <1>1. Init => Calls!Init /\ Runs!Init
    BY DEF Init, Unused, Calls!Init, Runs!Init
  <1>2. IInv /\ [Next]_vars => [Calls!Next]_CallsOf
    BY TypeParts, CallsNext DEF IInv, Calls!Next, Calls!Add, CallsOf
  <1>3. IInv /\ [Next]_vars => [Runs!Next]_RunsOf
    BY TypeParts, RunsNext DEF IInv, Runs!Next, Runs!Add, RunsOf
  <1> QED
    BY <1>1, <1>2, <1>3, SessionInvariant, PTL
       DEF Spec, Tallies, Calls!Spec, Runs!Spec, CallsOf, RunsOf

=============================================================================
