---------------------------- MODULE TrackerGroup ----------------------------
(***************************************************************************)
(* The tracker's registry of storage nodes: Message::storageNode,          *)
(* Message::group and the consistent-hash ring, filled and emptied by the  *)
(* StorageNode handlers (tracker/src/message/node), and the redirects that *)
(* HttpResponse::AddContent_ computes from it.                             *)
(*                                                                         *)
(* Handlers run on the workers of the pool, at most one for each node's    *)
(* connection (EPOLLONESHOT).  Message::lock (module RWLock) covers only   *)
(* what is one step here: "CHG self" takes it for writing, synPULGroup for *)
(* reading.  HeaderAddPubAddr_ constructs a nameless ReaderLockRAII, which *)
(* releases the lock before the list is read.  Everything else is          *)
(* unlocked.  Containers are taken to survive concurrent changes.          *)
(***************************************************************************)
EXTENDS Naturals, FiniteSets, Sequences, SequencesExt, ConsistentHash

CONSTANTS
  Nodes,        \* connections of storage nodes, each used once
  Workers,      \* workers of the pool
  MaxRequests   \* bound: requests for a server address

ASSUME TrackerAssumption ==
  /\ IsFiniteSet(Nodes) /\ IsFiniteSet(Workers)
  /\ "public" \notin PrivateGroups
  /\ MaxRequests \in Nat

Groups == PrivateGroups \cup {"public"}
NoNode == "none"

VARIABLES
  conn,         \* per node: new, accepted, member, gone
  groupName,    \* per node: its group, once it said NEW
  storageNode,  \* the keys of Message::storageNode
  group,        \* Message::group
  Status,       \* per node: wait, rcvd, active
  told,         \* per node: the peers its "new" answer named
  ring,         \* ConsistentHash::ring_
  job,          \* per worker: the handler it is in, and the node it is about
  flagRuns,     \* Message::threadIsRun
  flagThreads,  \* threads changeFlagThread was made to hold
  requests,     \* public requests served so far
  crashed,      \* a null StorageNode was used
  serial,       \* so far no two handlers have overlapped
  raced         \* groups that were found empty while a first member joined,
                \* as history

vars == <<conn, groupName, storageNode, group, Status, told, ring, job,
          flagRuns, flagThreads, requests, crashed, serial, raced>>

Idle == [in |-> "idle", node |-> NoNode]

Init ==
  /\ conn = [n \in Nodes |-> "new"] /\ groupName \in [Nodes -> Groups]
  /\ storageNode = {} /\ group = [g \in Groups |-> <<>>]
  /\ Status = [n \in Nodes |-> "wait"] /\ told = [n \in Nodes |-> {}]
  /\ ring = EmptyRing /\ job = [w \in Workers |-> Idle]
  /\ flagRuns = FALSE /\ flagThreads = 0
  /\ requests = 0 /\ crashed = FALSE /\ serial = TRUE /\ raced = {}

Busy(n) == \E w \in Workers : job[w].node = n /\ job[w].in \notin {"idle", "picked", "synced"}

BeginsHandler(w) ==
  /\ ~crashed /\ job[w] = Idle
  /\ serial' = (serial /\ \A v \in Workers : job[v] = Idle)

Starts(w, n) == BeginsHandler(w) /\ ~Busy(n)

Enters(w, place, n) == job' = [job EXCEPT ![w] = [in |-> place, node |-> n]]
Returns(w) == job' = [job EXCEPT ![w] = Idle]

-----------------------------------------------------------------------------
(* ListenTask::ReadProcess.                                                *)
Accept(n) ==
  /\ ~crashed /\ conn[n] = "new"
  /\ conn' = [conn EXCEPT ![n] = "accepted"]
  /\ storageNode' = storageNode \cup {n}
  /\ UNCHANGED <<groupName, group, Status, told, ring, job, flagRuns,
                 flagThreads, requests, crashed, serial, raced>>

(* DealNEW_: the answer lists the group as it is, then the handler looks   *)
(* whether this is its first member, if so puts the group on the ring, and *)
(* lets the node join it, without a lock.                                  *)
PeersButFirst(n) ==
  LET g == group[groupName[n]] IN IF g = <<>> THEN {} ELSE ToSet(Tail(g))
Peers(n) == ToSet(group[groupName[n]])

DealNEW(w, n) ==
  /\ Starts(w, n) /\ conn[n] = "accepted"
  /\ told' = [told EXCEPT ![n] = Peers(n)]
  /\ Status' = [Status EXCEPT ![n] = "wait"]
  /\ Enters(w, "new", n)
  /\ UNCHANGED <<conn, groupName, storageNode, group, ring, flagRuns,
                 flagThreads, requests, crashed, raced>>

IsFirst(g) == group[g] = <<>> /\ g # "public"

Joining(w, g) == job[w].in \in {"ring", "push"} /\ groupName[job[w].node] = g

LooksForMembers(w) ==
  LET n == job[w].node
      g == groupName[n]
  IN  /\ ~crashed /\ job[w].in = "new"
      /\ Enters(w, IF IsFirst(g) THEN "ring" ELSE "push", n)
      /\ raced' = IF IsFirst(g) /\ \E v \in Workers : Joining(v, g)
                  THEN raced \cup {g} ELSE raced
      /\ UNCHANGED <<conn, groupName, storageNode, group, Status, told, ring,
                     flagRuns, flagThreads, requests, crashed, serial>>

PutsOnRing(w) ==
  LET n == job[w].node
  IN  /\ ~crashed /\ job[w].in = "ring"
      /\ ring' = AddNode(ring, groupName[n])
      /\ Enters(w, "push", n)
      /\ UNCHANGED <<conn, groupName, storageNode, group, Status, told, flagRuns,
                     flagThreads, requests, crashed, serial, raced>>

JoinGroup(w) ==
  LET n == job[w].node
  IN  /\ ~crashed /\ job[w].in = "push"
      /\ group' = [group EXCEPT ![groupName[n]] = Append(@, n)]
      /\ conn' = [conn EXCEPT ![n] = "member"]
      /\ Returns(w)
      /\ UNCHANGED <<groupName, storageNode, Status, told, ring, flagRuns,
                     flagThreads, requests, crashed, serial, raced>>

(* DealCHG_ for "self": under the write lock the status and the flag, then *)
(* threadGO looks at threadIsRun and starts the thread.                    *)
StatusActive == "active"

DealCHG(w, n) ==
  /\ Starts(w, n) /\ conn[n] = "member"
  /\ Status' = [Status EXCEPT ![n] = StatusActive]
  /\ IF flagRuns THEN UNCHANGED job ELSE Enters(w, "go", n)
  /\ UNCHANGED <<conn, groupName, storageNode, group, told, ring, flagRuns,
                 flagThreads, requests, crashed, raced>>

FlagForgotten == flagRuns
FlagAfterGO == TRUE

ThreadGO(w) ==
  /\ ~crashed /\ job[w].in = "go"
  /\ flagRuns' = FlagAfterGO /\ flagThreads' = flagThreads + 1
  /\ Returns(w)
  /\ UNCHANGED <<conn, groupName, storageNode, group, Status, told, ring,
                 requests, crashed, serial, raced>>

(* DealClose_: ~StorageNode takes the node out of its group, at the first  *)
(* place that names it, then out of storageNode.  The ring keeps the group.*)
WithoutFirst(g, n) == IF group[g] = <<>> THEN <<>> ELSE Tail(group[g])
Without(g, n) == RemoveFirst(group[g], n)

LeaveGroup(w, n) ==
  LET g == groupName[n]
  IN  /\ Starts(w, n) /\ conn[n] \in {"accepted", "member"}
      /\ group' = [group EXCEPT ![g] = Without(g, n)]
      /\ conn' = [conn EXCEPT ![n] = "gone"]
      /\ Enters(w, "leave", n)
      /\ UNCHANGED <<groupName, storageNode, Status, told, ring, flagRuns,
                     flagThreads, requests, crashed, raced>>

LeaveTable(w) ==
  /\ ~crashed /\ job[w].in = "leave"
  /\ storageNode' = storageNode \ {job[w].node}
  /\ Returns(w)
  /\ UNCHANGED <<conn, groupName, group, Status, told, ring, flagRuns,
                 flagThreads, requests, crashed, serial, raced>>

-----------------------------------------------------------------------------
(* A request for a public server.  HeaderAddPubAddr_ takes the first node  *)
(* of the group that is active, synPULGroup makes all of them "received",  *)
(* and AddContent_ makes the one it took active again.                     *)

ActiveIn(g) == {i \in DOMAIN group[g] : Status[group[g][i]] = "active"}

PublicRequest(w) ==
  /\ BeginsHandler(w) /\ requests < MaxRequests
  /\ requests' = requests + 1
  /\ IF ActiveIn("public") = {} THEN UNCHANGED job
     ELSE Enters(w, "picked", group["public"][Least(ActiveIn("public"))])
  /\ UNCHANGED <<conn, groupName, storageNode, group, Status, told, ring,
                 flagRuns, flagThreads, crashed, raced>>

SyncedButLast(n) ==
  /\ group["public"] # <<>>
  /\ n \in ToSet(Front(group["public"]))
Synced(n) == n \in ToSet(group["public"])

SynPULGroup(w) ==
  /\ ~crashed /\ job[w].in = "picked"
  /\ Status' = [n \in Nodes |-> IF Synced(n) THEN "rcvd" ELSE Status[n]]
  /\ Enters(w, "synced", job[w].node)
  /\ UNCHANGED <<conn, groupName, storageNode, group, told, ring, flagRuns,
                 flagThreads, requests, crashed, serial, raced>>

(* storageNode[respondFD]->Status: operator[] makes a null entry for a     *)
(* node that has gone, and the server dies of using it.                    *)
Respond(w) ==
  LET n == job[w].node
  IN  /\ ~crashed /\ job[w].in = "synced"
      /\ IF n \in storageNode
         THEN Status' = [Status EXCEPT ![n] = "active"] /\ UNCHANGED crashed
         ELSE crashed' = TRUE /\ UNCHANGED Status
      /\ Returns(w)
      /\ UNCHANGED <<conn, groupName, storageNode, group, told, ring, flagRuns,
                     flagThreads, requests, serial, raced>>

-----------------------------------------------------------------------------
Next ==
  \/ \E n \in Nodes : Accept(n)
  \/ \E w \in Workers, n \in Nodes :
       DealNEW(w, n) \/ DealCHG(w, n) \/ LeaveGroup(w, n)
  \/ \E w \in Workers :
       \/ LooksForMembers(w) \/ PutsOnRing(w) \/ JoinGroup(w) \/ ThreadGO(w) \/ LeaveTable(w)
       \/ PublicRequest(w) \/ SynPULGroup(w) \/ Respond(w)

Spec == Init /\ [][Next]_vars

-----------------------------------------------------------------------------
HandlerPlaces == {"idle", "new", "ring", "push", "go", "leave", "picked", "synced"}

(* Types of the registry's fields.                                         *)
TypeOK ==
  /\ conn \in [Nodes -> {"new", "accepted", "member", "gone"}]
  /\ groupName \in [Nodes -> Groups] /\ storageNode \subseteq Nodes
  /\ DOMAIN group = Groups /\ \A g \in DOMAIN group : group[g] \in Seq(Nodes)
  /\ Status \in [Nodes -> {"wait", "rcvd", "active"}]
  /\ told \in [Nodes -> SUBSET Nodes] /\ ring \in [DOMAIN ring -> PrivateGroups]
  /\ job \in [Workers -> [in : HandlerPlaces, node : Nodes \cup {NoNode}]]
  /\ flagRuns \in BOOLEAN
  /\ flagThreads \in Nat /\ requests \in 0..MaxRequests /\ crashed \in BOOLEAN
  /\ raced \subseteq Groups

(* The tables agree, however joins and leaves of different nodes mix: a    *)
(* group lists its members, each once, and whatever a list names can be    *)
(* found in storageNode, where DealNEW_ and HeaderAddPubAddr_ follow it    *)
(* without a test.                                                         *)
TablesAgree ==
  \A g \in Groups :
    /\ ToSet(group[g]) = {n \in Nodes : conn[n] = "member" /\ groupName[n] = g}
    /\ IsInjective(group[g]) /\ ToSet(group[g]) \subseteq storageNode

(* A private group that has members has all its places on the ring, so     *)
(* users can be mapped to it, although two first members may join at once. *)
GroupsOnRing ==
  \A g \in PrivateGroups : group[g] # <<>> => VirtualNodes[g] \subseteq DOMAIN ring

(* The registry's tables are sound, whatever handlers overlap.             *)
TablesSound == TypeOK /\ TablesAgree /\ GroupsOnRing

(* Users stay where their files are: a node that joins moves a user only   *)
(* to its own group, and only while that has no members, even if hashes    *)
(* collide and groups are left and joined again.  Of two members that both *)
(* found the group empty the later one may move a user once more, to a     *)
(* group that has the other for a member.                                  *)
UsersStay ==
  [][\A u \in Users :
       LET g == GetGroup(ring', u)
       IN  g # GetGroup(ring, u) =>
             /\ \E w \in Workers : job[w].in = "ring" /\ Joining(w, g)
             /\ group[g] = <<>> \/ g \in raced]_vars

(* Of two members of a group the one that joined later was told about the  *)
(* other, so that it connects to it: the peers form a complete mesh.  Two  *)
(* nodes that introduce themselves at once may not hear of each other.     *)
MeshComplete ==
  \A n, m \in Nodes :
    /\ serial /\ n # m
    /\ conn[n] = "member" /\ conn[m] = "member" /\ groupName[n] = groupName[m]
    => n \in told[m] \/ m \in told[n]

(* After a public redirect the node the client was sent to is the only     *)
(* active one of the group: nobody else is handed out before it has caught *)
(* up with what the client is about to change.  A node that becomes active *)
(* or a second redirect in the middle of this one spoils it.               *)
RedirectLeavesOne ==
  [][\A w \in Workers :
       serial /\ job[w].in = "synced" /\ job'[w] = Idle =>
         \A n \in Nodes :
           conn[n] = "member" /\ groupName[n] = "public" /\ Status'[n] = "active"
           => n = job[w].node]_vars

(* The tracker survives handlers that come one after the other: a node     *)
(* that was taken for a redirect is still there when its status is written *)
(* (the lock, which is to make the registry thread safe, README:31, is     *)
(* released in between), and changeFlagThread is not given a second thread *)
(* while the first is joinable, which would end the program.  Neither      *)
(* holds for handlers that overlap.                                        *)
NeverCrashes == serial => ~crashed /\ flagThreads <= 1
=============================================================================
