------------------------- MODULE TrackerGroupProofs -------------------------
(***************************************************************************)
(* The registry of storage nodes, for every number of nodes, workers,      *)
(* users and groups and every hash function: users stay where their files  *)
(* are (UsersStay of TrackerGroup), the tables agree whatever handlers     *)
(* overlap (TablesSound), and while no two overlap, the peers form a mesh  *)
(* (MeshComplete), a redirect leaves one active node (RedirectLeavesOne)   *)
(* and the tracker survives (NeverCrashes).                                *)
(***************************************************************************)
EXTENDS TrackerGroup, SequenceTheorems, WellFoundedInduction, TLAPS

(* Every set of hashes that is not empty has a first one.                  *)
LEMMA LeastIsFirst ==
  ASSUME NEW S, S \subseteq Nat, S # {}
  PROVE  Least(S) \in S /\ \A k \in S : Least(S) <= k
PROOF
<1> DEFINE before == {p \in Nat \X Nat : p[1] < p[2]}
<1>1. IsWellFoundedOn(before, Nat)
  BY NatLessThanWellFounded DEF OpToRel
<1>2. PICK h \in S : \A k \in S : <<k, h>> \notin before
  <2> HIDE DEF before
  <2> QED
    BY <1>1, WFMin
<1>3. ASSUME NEW k \in S
      PROVE  h <= k
  <2>1. k \in Nat /\ h \in Nat /\ <<k, h>> \notin before
    BY <1>2
  <2>2. ~ (k < h)
    BY <2>1
  <2> QED
    BY <2>1, <2>2
<1> QED
  BY <1>3 DEF Least

(* Nothing else comes before all the others.                               *)
LEMMA FirstIsLeast ==
  ASSUME NEW S, S \subseteq Nat, NEW h \in S, \A k \in S : h <= k
  PROVE  Least(S) = h
PROOF
<1>1. Least(S) \in S /\ \A k \in S : Least(S) <= k
  BY LeastIsFirst
<1>2. Least(S) <= h /\ h <= Least(S) /\ Least(S) \in Nat /\ h \in Nat
  BY <1>1
<1> QED
  BY <1>2

(* A hash is served from a place of the ring.                              *)
LEMMA PositionOnRing ==
  ASSUME NEW r, DOMAIN r \subseteq Nat, DOMAIN r # {}, NEW hash \in Nat
  PROVE  Position(r, hash) \in DOMAIN r
PROOF
<1> DEFINE from == {h \in DOMAIN r : h >= hash}
<1>1. CASE from # {}
  BY <1>1, LeastIsFirst DEF Position
<1>2. CASE from = {}
  BY <1>2, LeastIsFirst DEF Position
<1> QED
  BY <1>1, <1>2

(* Places that are added leave a hash where it was, unless one of them is  *)
(* now the first from that hash on.                                        *)
LEMMA PositionStays ==
  ASSUME NEW r, NEW s, DOMAIN s \subseteq Nat, DOMAIN r \subseteq DOMAIN s,
         NEW hash \in Nat, Position(s, hash) \in DOMAIN r
  PROVE  Position(r, hash) = Position(s, hash)
PROOF
<1> DEFINE place == Position(s, hash)
           fromS == {h \in DOMAIN s : h >= hash}
           fromR == {h \in DOMAIN r : h >= hash}
<1>1. CASE fromS # {}
  <2>1. place \in fromS /\ \A k \in fromS : place <= k
    BY <1>1, LeastIsFirst DEF Position
  <2>2. place \in fromR /\ (\A k \in fromR : place <= k) /\ fromR \subseteq Nat
    BY <2>1
  <2>3. Least(fromR) = place
    <3> HIDE DEF fromR, place
    <3> QED
      BY <2>2, FirstIsLeast
  <2> QED
    BY <2>2, <2>3 DEF Position
<1>2. CASE fromS = {}
  <2>1. \A k \in DOMAIN s : place <= k
    BY <1>2, LeastIsFirst DEF Position
  <2>2. fromR = {}
    BY <1>2
  <2>3. Least(DOMAIN r) = place
    <3> HIDE DEF place
    <3>1. place \in DOMAIN r /\ (\A k \in DOMAIN r : place <= k) /\ DOMAIN r \subseteq Nat
      BY <2>1 DEF place
    <3> QED
      BY <3>1, FirstIsLeast
  <2> QED
    BY <2>2, <2>3 DEF Position
<1> QED
  BY <1>1, <1>2

(* A group that is put on the ring takes users to itself and nobody to     *)
(* another group, whatever places they share.                              *)
LEMMA JoinerTakesUsers ==
  ASSUME NEW r, DOMAIN r \subseteq Nat, NEW g \in PrivateGroups, NEW u \in Users
  PROVE  GetGroup(AddNode(r, g), u) \in {g, GetGroup(r, u)}
PROOF
<1> DEFINE s == AddNode(r, g)
           place == Position(s, UserHash[u])
<1>1. UserHash[u] \in Nat /\ VirtualNodes[g] \subseteq Nat /\ VirtualNodes[g] # {}
  BY HashAssumption
<1>2. /\ DOMAIN s = DOMAIN r \cup VirtualNodes[g]
      /\ \A h \in DOMAIN s : s[h] = IF h \in VirtualNodes[g] THEN g ELSE r[h]
  BY DEF AddNode
<1>3. DOMAIN s \subseteq Nat /\ DOMAIN s # {} /\ DOMAIN r \subseteq DOMAIN s
  BY <1>1, <1>2
<1> HIDE DEF s
<1>4. place \in DOMAIN s
  BY <1>1, <1>3, PositionOnRing
<1>5. GetGroup(s, u) = s[place]
  BY <1>3 DEF GetGroup
<1>6. CASE place \in VirtualNodes[g]
  BY <1>2, <1>4, <1>5, <1>6 DEF s
<1>7. CASE place \notin VirtualNodes[g]
  <2>1. place \in DOMAIN r /\ s[place] = r[place]
    BY <1>2, <1>4, <1>7
  <2>2. Position(r, UserHash[u]) = place
    BY <1>1, <1>3, <2>1, PositionStays
  <2>3. GetGroup(r, u) = r[place]
    BY <2>1, <2>2 DEF GetGroup
  <2> QED
    BY <1>5, <2>1, <2>3 DEF s
<1> QED
  BY <1>6, <1>7

-----------------------------------------------------------------------------
(* What a join relies on: the ring's places are hashes, every group has a  *)
(* list, and a handler that joins is about a node.  The handler that puts  *)
(* a group on the ring is about a private group; if no other member found  *)
(* the group empty meanwhile, it is the only one to join it, and the group *)
(* is still empty.                                                         *)
Joiners == {"new", "ring", "push"}

FirstIsAlone ==
  \A w \in Workers : \A g :
    job[w].in = "ring" /\ groupName[job[w].node] = g =>
      /\ g \in PrivateGroups
      /\ g \notin raced => group[g] = <<>> /\ \A v \in Workers \ {w} : ~Joining(v, g)

JoinsAreSound ==
  /\ DOMAIN ring \subseteq Nat
  /\ group = [g \in Groups |-> group[g]]
  /\ groupName \in [Nodes -> Groups]
  /\ job = [w \in Workers |-> job[w]]
  /\ \A w \in Workers : job[w].in \in Joiners => job[w].node \in Nodes
  /\ FirstIsAlone

(* Init establishes it.                                                    *)
LEMMA JoinsInit == Init => JoinsAreSound
BY DEF Init, JoinsAreSound, EmptyRing, Idle, Joiners, FirstIsAlone

(* A worker that neither puts a group on the ring nor is about to join one *)
(* disturbs nobody.                                                        *)
LEMMA OthersStayAlone ==
  ASSUME JoinsAreSound, NEW w \in Workers, NEW j,
         j.in \in Joiners => j.node \in Nodes, j.in \notin {"ring", "push"},
         job' = [job EXCEPT ![w] = j], UNCHANGED <<groupName, raced>>,
         \A g \in Groups : group[g] = <<>> => group'[g] = <<>>
  PROVE  /\ job' = [v \in Workers |-> job'[v]]
         /\ \A v \in Workers : job'[v].in \in Joiners => job'[v].node \in Nodes
         /\ FirstIsAlone'
PROOF
<1>1. /\ job' = [v \in Workers |-> job'[v]] /\ job'[w] = j
      /\ \A v \in Workers \ {w} : job'[v] = job[v]
  BY DEF JoinsAreSound
<1>2. \A v \in Workers : job'[v].in \in Joiners => job'[v].node \in Nodes
  BY <1>1 DEF JoinsAreSound
<1>3. \A v \in Workers : \A g : Joining(v, g)' => Joining(v, g)
  BY <1>1 DEF Joining
<1>4. \A v \in Workers : job'[v].in = "ring" => job[v].in = "ring" /\ job'[v] = job[v]
  BY <1>1
<1>5. PrivateGroups \subseteq Groups
  BY DEF Groups
<1>6. FirstIsAlone'
  <2>. SUFFICES ASSUME NEW v \in Workers, NEW g, job'[v].in = "ring", groupName'[job'[v].node] = g
                PROVE  /\ g \in PrivateGroups
                       /\ g \notin raced' =>
                            group'[g] = <<>> /\ \A x \in Workers \ {v} : ~Joining(x, g)'
    BY DEF FirstIsAlone
  <2>1. job[v].in = "ring" /\ job'[v] = job[v]
    BY <1>4
  <2>. QED
    BY <1>3, <1>5, <2>1 DEF JoinsAreSound, FirstIsAlone
<1>. QED
  BY <1>1, <1>2, <1>6

(* Every step preserves it.                                                *)
LEMMA JoinsNext == JoinsAreSound /\ [Next]_vars => JoinsAreSound'
PROOF
<1> SUFFICES ASSUME JoinsAreSound, [Next]_vars
             PROVE  JoinsAreSound'
  OBVIOUS
<1>1. CASE UNCHANGED vars
  BY <1>1 DEF vars, JoinsAreSound, FirstIsAlone, Joining
<1>2. ASSUME NEW n \in Nodes, Accept(n)
      PROVE  JoinsAreSound'
  BY <1>2 DEF Accept, JoinsAreSound, FirstIsAlone, Joining
<1>3. ASSUME NEW w \in Workers, NEW n \in Nodes, DealNEW(w, n)
      PROVE  JoinsAreSound'
  <2>1. /\ job' = [job EXCEPT ![w] = [in |-> "new", node |-> n]]
        /\ UNCHANGED <<groupName, group, ring, raced>>
    BY <1>3 DEF DealNEW, Enters
  <2>. QED
    BY <2>1, OthersStayAlone DEF JoinsAreSound
<1>4. ASSUME NEW w \in Workers, NEW n \in Nodes, DealCHG(w, n)
      PROVE  JoinsAreSound'
  <2>1. /\ job' = job \/ job' = [job EXCEPT ![w] = [in |-> "go", node |-> n]]
        /\ UNCHANGED <<groupName, group, ring, raced>>
    BY <1>4 DEF DealCHG, Enters
  <2>2. CASE job' = job
    BY <2>1, <2>2 DEF JoinsAreSound, FirstIsAlone, Joining
  <2>3. CASE job' = [job EXCEPT ![w] = [in |-> "go", node |-> n]]
    BY <2>1, <2>3, OthersStayAlone DEF JoinsAreSound
  <2>. QED
    BY <2>1, <2>2, <2>3
<1>5. ASSUME NEW w \in Workers, NEW n \in Nodes, LeaveGroup(w, n)
      PROVE  JoinsAreSound'
  <2>1. /\ job' = [job EXCEPT ![w] = [in |-> "leave", node |-> n]]
        /\ group' = [group EXCEPT ![groupName[n]] = RemoveFirst(group[groupName[n]], n)]
        /\ UNCHANGED <<groupName, ring, raced>>
    BY <1>5 DEF LeaveGroup, Enters, Without
  <2>2. RemoveFirst(<<>>, n) = <<>>
    BY EmptySeq DEF RemoveFirst
  <2>3. group' = [g \in Groups |-> group'[g]]
    BY <2>1 DEF JoinsAreSound
  <2>4. \A g \in Groups : group[g] = <<>> => group'[g] = <<>>
    BY <2>1, <2>2 DEF JoinsAreSound
  <2>. QED
    BY <2>1, <2>3, <2>4, OthersStayAlone DEF JoinsAreSound
<1>6. ASSUME NEW w \in Workers, LooksForMembers(w)
      PROVE  JoinsAreSound'
  <2>. DEFINE n == job[w].node
              g == groupName[n]
  <2>1. /\ job[w].in = "new" /\ n \in Nodes /\ g \in Groups
        /\ UNCHANGED <<groupName, group, ring>>
    BY <1>6 DEF LooksForMembers, JoinsAreSound, Joiners
  <2>2. /\ job' = [v \in Workers |-> job'[v]] /\ job'[w].node = n
        /\ job'[w].in = IF IsFirst(g) THEN "ring" ELSE "push"
        /\ \A v \in Workers \ {w} : job'[v] = job[v]
    BY <1>6 DEF LooksForMembers, Enters, JoinsAreSound
  <2>3. raced' = IF IsFirst(g) /\ \E v \in Workers : Joining(v, g) THEN raced \cup {g} ELSE raced
    BY <1>6 DEF LooksForMembers
  <2>. HIDE DEF n, g
  <2>4. \A v \in Workers : job'[v].in \in Joiners => job'[v].node \in Nodes
    BY <2>1, <2>2 DEF JoinsAreSound
  <2>5. \A v \in Workers \ {w} : \A h : Joining(v, h)' <=> Joining(v, h)
    BY <2>1, <2>2 DEF Joining
  <2>6. groupName'[job'[w].node] = g /\ \A h : Joining(w, h)' => h = g
    BY <2>1, <2>2 DEF Joining, g
  <2>7. PrivateGroups = Groups \ {"public"}
    BY TrackerAssumption DEF Groups
  <2>8. FirstIsAlone'
    <3>. SUFFICES ASSUME NEW v \in Workers, NEW h, job'[v].in = "ring", groupName'[job'[v].node] = h
                  PROVE  /\ h \in PrivateGroups
                         /\ h \notin raced' =>
                              group'[h] = <<>> /\ \A x \in Workers \ {v} : ~Joining(x, h)'
      BY DEF FirstIsAlone
    <3>1. CASE v = w
      <4>1. IsFirst(g)
        BY <2>2, <3>1
      <4>2. g \in PrivateGroups /\ group[g] = <<>>
        BY <2>1, <2>7, <4>1 DEF IsFirst
      <4>3. g \notin raced' => \A x \in Workers : ~Joining(x, g)
        BY <2>3, <4>1
      <4>. QED
        BY <2>1, <2>5, <2>6, <3>1, <4>2, <4>3
    <3>2. CASE v # w
      <4>1. job[v].in = "ring" /\ job'[v] = job[v] /\ Joining(v, h)
        BY <2>1, <2>2, <3>2 DEF Joining
      <4>2. /\ h \in PrivateGroups
            /\ h \notin raced => group[h] = <<>> /\ \A x \in Workers \ {v} : ~Joining(x, h)
        BY <4>1 DEF JoinsAreSound, FirstIsAlone, Joining
      <4>4. ASSUME h \notin raced' PROVE ~Joining(w, h)'
        <5>1. CASE h # g
          BY <2>6, <5>1
        <5>2. CASE h = g
          <6>1. h \notin raced /\ group[g] = <<>> /\ g # "public"
            BY <2>3, <2>7, <4>2, <4>4, <5>2
          <6>2. IsFirst(g) /\ g \in raced'
            BY <2>3, <4>1, <5>2, <6>1 DEF IsFirst
          <6>. QED
            BY <4>4, <5>2, <6>2
        <5>. QED
          BY <5>1, <5>2
      <4>5. h \notin raced' => h \notin raced
        BY <2>3
      <4>. QED
        BY <2>1, <2>5, <4>2, <4>4, <4>5
    <3>. QED
      BY <3>1, <3>2
  <2>. QED
    BY <2>1, <2>2, <2>4, <2>8 DEF JoinsAreSound
<1>7. ASSUME NEW w \in Workers, PutsOnRing(w)
      PROVE  JoinsAreSound'
  <2>. DEFINE n == job[w].node
              g == groupName[n]
  <2>1. /\ job[w].in = "ring" /\ n \in Nodes /\ g \in PrivateGroups
        /\ ring' = AddNode(ring, g) /\ UNCHANGED <<groupName, group, raced>>
    BY <1>7 DEF PutsOnRing, JoinsAreSound, Joiners, FirstIsAlone
  <2>2. /\ job' = [v \in Workers |-> job'[v]] /\ job'[w].node = n /\ job'[w].in = "push"
        /\ \A v \in Workers \ {w} : job'[v] = job[v]
    BY <1>7 DEF PutsOnRing, Enters, JoinsAreSound
  <2>. HIDE DEF n
  <2>3. DOMAIN ring' \subseteq Nat
    <3>1. VirtualNodes[g] \subseteq Nat
      BY <2>1, HashAssumption
    <3>. QED
      BY <2>1, <3>1 DEF AddNode, JoinsAreSound
  <2>4. \A v \in Workers : job'[v].in \in Joiners => job'[v].node \in Nodes
    BY <2>1, <2>2 DEF JoinsAreSound
  <2>5. \A v \in Workers : \A h : Joining(v, h)' => Joining(v, h)
    BY <2>1, <2>2 DEF Joining, n
  <2>6. \A v \in Workers : job'[v].in = "ring" => job[v].in = "ring" /\ job'[v] = job[v]
    BY <2>2
  <2>7. FirstIsAlone'
    BY <2>1, <2>5, <2>6 DEF JoinsAreSound, FirstIsAlone
  <2>. QED
    BY <2>1, <2>2, <2>3, <2>4, <2>7 DEF JoinsAreSound
<1>8. ASSUME NEW w \in Workers, JoinGroup(w)
      PROVE  JoinsAreSound'
  <2>. DEFINE n == job[w].node
              g == groupName[n]
  <2>1. /\ job[w].in = "push" /\ n \in Nodes /\ g \in Groups
        /\ group' = [group EXCEPT ![g] = Append(@, n)]
        /\ UNCHANGED <<groupName, ring, raced>>
    BY <1>8 DEF JoinGroup, JoinsAreSound, Joiners
  <2>2. /\ job' = [v \in Workers |-> job'[v]] /\ job'[w].in = "idle"
        /\ \A v \in Workers \ {w} : job'[v] = job[v]
    BY <1>8 DEF JoinGroup, Returns, Idle, JoinsAreSound
  <2>3. Joining(w, g)
    BY <2>1 DEF Joining
  <2>. HIDE DEF n, g
  <2>4. /\ group' = [h \in Groups |-> group'[h]]
        /\ \A h \in Groups : h # g => group'[h] = group[h]
    BY <2>1 DEF JoinsAreSound
  <2>5. \A v \in Workers : job'[v].in \in Joiners => job'[v].node \in Nodes
    BY <2>2 DEF JoinsAreSound, Joiners
  <2>6. \A v \in Workers : \A h : Joining(v, h)' => Joining(v, h)
    BY <2>1, <2>2 DEF Joining
  <2>7. FirstIsAlone'
    <3>. SUFFICES ASSUME NEW v \in Workers, NEW h, job'[v].in = "ring", groupName'[job'[v].node] = h
                  PROVE  /\ h \in PrivateGroups
                         /\ h \notin raced' =>
                              group'[h] = <<>> /\ \A x \in Workers \ {v} : ~Joining(x, h)'
      BY DEF FirstIsAlone
    <3>1. v # w /\ job'[v] = job[v] /\ job[v].in = "ring" /\ groupName[job[v].node] = h
      BY <2>1, <2>2
    <3>2. /\ h \in PrivateGroups /\ h \in Groups
          /\ h \notin raced => group[h] = <<>> /\ \A x \in Workers \ {v} : ~Joining(x, h)
      BY <3>1 DEF JoinsAreSound, FirstIsAlone, Groups
    <3>3. h \notin raced => h # g
      BY <2>3, <3>1, <3>2
    <3>. QED
      BY <2>1, <2>4, <2>6, <3>1, <3>2, <3>3
  <2>. QED
    BY <2>1, <2>2, <2>4, <2>5, <2>7 DEF JoinsAreSound
<1>9. ASSUME NEW w \in Workers, ThreadGO(w) \/ LeaveTable(w) \/ Respond(w)
      PROVE  JoinsAreSound'
  <2>1. /\ job' = [job EXCEPT ![w] = Idle] /\ Idle.in = "idle"
        /\ UNCHANGED <<groupName, group, ring, raced>>
    BY <1>9 DEF ThreadGO, LeaveTable, Respond, Returns, Idle
  <2>. QED
    BY <2>1, OthersStayAlone DEF JoinsAreSound, Joiners
<1>10. ASSUME NEW w \in Workers, PublicRequest(w) \/ SynPULGroup(w)
       PROVE  JoinsAreSound'
  <2>1. UNCHANGED <<groupName, group, ring, raced>>
    BY <1>10 DEF PublicRequest, SynPULGroup
  <2>2. CASE job' = job
    BY <2>1, <2>2 DEF JoinsAreSound, FirstIsAlone, Joining
  <2>3. CASE job' # job
    <3>1. PICK n, place : Enters(w, place, n) /\ place \in {"picked", "synced"}
      BY <1>10, <2>3 DEF PublicRequest, SynPULGroup
    <3> DEFINE j == [in |-> place, node |-> n]
    <3>2. job' = [job EXCEPT ![w] = j] /\ j.in \in {"picked", "synced"}
      BY <3>1 DEF Enters
    <3> HIDE DEF j
    <3>. QED
      BY <2>1, <3>2, OthersStayAlone DEF JoinsAreSound, Joiners
  <2>. QED
    BY <2>2, <2>3
<1> QED
  BY <1>1, <1>2, <1>3, <1>4, <1>5, <1>6, <1>7, <1>8, <1>9, <1>10 DEF Next

(* Only the handler of a first member changes the ring, and it takes users *)
(* to its group, which has no members, unless another first member was     *)
(* faster.                                                                 *)
LEMMA JoinsKeepUsers ==
  ASSUME JoinsAreSound, [Next]_vars, NEW u \in Users,
         GetGroup(ring', u) # GetGroup(ring, u)
  PROVE  LET g == GetGroup(ring', u)
         IN  /\ \E w \in Workers : job[w].in = "ring" /\ Joining(w, g)
             /\ group[g] = <<>> \/ g \in raced
PROOF
<1>1. ring' # ring
  OBVIOUS
<1>2. PICK w \in Workers : PutsOnRing(w)
  BY <1>1 DEF Next, vars, Accept, DealNEW, LooksForMembers, JoinGroup, DealCHG, LeaveGroup,
              ThreadGO, LeaveTable, PublicRequest, SynPULGroup, Respond
<1> DEFINE g == groupName[job[w].node]
<1>3. job[w].in = "ring" /\ Joining(w, g) /\ ring' = AddNode(ring, g)
  BY <1>2 DEF PutsOnRing, Joining
<1>4. g \in PrivateGroups /\ (group[g] = <<>> \/ g \in raced)
  BY <1>3 DEF JoinsAreSound, FirstIsAlone
<1> HIDE DEF g
<1>5. GetGroup(ring', u) = g
  <2>1. DOMAIN ring \subseteq Nat
    BY DEF JoinsAreSound
  <2>2. GetGroup(AddNode(ring, g), u) \in {g, GetGroup(ring, u)}
    BY <1>4, <2>1, JoinerTakesUsers
  <2> QED
    BY <1>3, <2>2
<1> QED
  BY <1>3, <1>4, <1>5

(* No node that comes or goes moves a user to a group other than its own,  *)
(* for any ring, nor to one that has members, unless it was found empty by *)
(* two first members: the ring's places may collide, and groups may be     *)
(* left and joined again.                                                  *)
THEOREM UsersStayPut == Spec => UsersStay
PROOF
<1>1. JoinsAreSound /\ [Next]_vars =>
        [\A u \in Users :
           LET g == GetGroup(ring', u)
           IN  g # GetGroup(ring, u) =>
                 /\ \E w \in Workers : job[w].in = "ring" /\ Joining(w, g)
                 /\ group[g] = <<>> \/ g \in raced]_vars
  BY JoinsKeepUsers
<1> QED
  BY JoinsInit, JoinsNext, <1>1, PTL DEF Spec, UsersStay

-----------------------------------------------------------------------------
(* The tables, whatever handlers overlap.                                  *)

InRegistry == Joiners \cup {"go", "leave"}

(* A handler is about a node; while one is filing a node, taking it out or *)
(* starting the flag's thread for it, the node is where that handler left  *)
(* it, and no other handler is about it.                                   *)
JobsSound ==
  /\ \A w \in Workers :
       /\ job[w].in # "idle" => job[w].node \in Nodes
       /\ job[w].in \in Joiners => conn[job[w].node] = "accepted"
       /\ job[w].in = "leave" => conn[job[w].node] = "gone"
  /\ \A v, w \in Workers :
       /\ job[v].in \in InRegistry /\ job[w].in \in InRegistry
       /\ job[v].node = job[w].node
       => v = w

(* A private group whose node is about to be listed is on the ring.        *)
ListedOnRing ==
  \A w \in Workers :
    LET g == groupName[job[w].node]
    IN  /\ job[w].in = "ring" => g \in PrivateGroups
        /\ job[w].in = "push" /\ g \in PrivateGroups => VirtualNodes[g] \subseteq DOMAIN ring

(* A node that was accepted and has not gone is in storageNode.            *)
AcceptedFound ==
  \A n \in Nodes : conn[n] \in {"accepted", "member"} => n \in storageNode

(* While no two handlers have overlapped, one worker at most is busy, and  *)
(* what its handler has found out still holds.                             *)
OneHandler ==
  serial =>
    /\ ~crashed
    /\ \A v, w \in Workers : job[v] # Idle /\ job[w] # Idle => v = w
    /\ \A w \in Workers :
         LET n == job[w].node
         IN  /\ job[w].in \in Joiners => told[n] = ToSet(group[groupName[n]])
             /\ job[w].in = "go" => ~flagRuns
             /\ job[w].in \in {"picked", "synced"} => n \in storageNode
             /\ job[w].in = "synced" =>
                  \A m \in ToSet(group["public"]) : Status[m] # "active"
    /\ flagThreads = IF flagRuns THEN 1 ELSE 0

IInv ==
  /\ TypeOK /\ TablesAgree /\ GroupsOnRing /\ MeshComplete
  /\ JobsSound /\ ListedOnRing /\ AcceptedFound /\ OneHandler

-----------------------------------------------------------------------------
(* Lists of nodes.                                                         *)

(* An empty list names nobody, and a list that names nobody is empty.      *)
LEMMA EmptyNamesNobody ==
  ASSUME NEW S, NEW s \in Seq(S)
  PROVE  s = <<>> <=> ToSet(s) = {}
<1>1. Len(s) \in Nat /\ DOMAIN s = 1..Len(s)
  BY LenProperties
<1>2. s # <<>> => s[1] \in ToSet(s)
  BY <1>1, EmptySeq DEF ToSet
<1>3. ToSet(<<>>) = {}
  BY EmptySeq DEF ToSet
<1>. QED
  BY <1>2, <1>3

(* A node that is not in a list can be put behind it.                      *)
LEMMA Appended ==
  ASSUME NEW S, NEW s \in Seq(S), NEW e \in S
  PROVE  /\ Append(s, e) \in Seq(S) /\ ToSet(Append(s, e)) = ToSet(s) \cup {e}
         /\ IsInjective(s) /\ e \notin ToSet(s) => IsInjective(Append(s, e))
<1>. DEFINE t == Append(s, e)
           k == Len(s)
<1>1. /\ t \in Seq(S) /\ DOMAIN t = 1..(k + 1) /\ DOMAIN s = 1..k /\ k \in Nat
      /\ \A i \in 1..k : t[i] = s[i]
      /\ t[k + 1] = e
  BY AppendProperties, LenProperties
<1>. HIDE DEF t, k
<1>2. \A i \in 1..(k + 1) : i \in 1..k \/ i = k + 1
  BY <1>1
<1>3. 1..k \subseteq 1..(k + 1) /\ k + 1 \in 1..(k + 1)
  BY <1>1
<1>4. ToSet(t) = ToSet(s) \cup {e}
  <2>1. \A i \in DOMAIN t : t[i] \in ToSet(s) \cup {e}
    BY <1>1, <1>2 DEF ToSet
  <2>2. \A i \in DOMAIN s : s[i] \in ToSet(t)
    BY <1>1, <1>3 DEF ToSet
  <2>3. e \in ToSet(t)
    BY <1>1, <1>3 DEF ToSet
  <2>. QED
    BY <2>1, <2>2, <2>3 DEF ToSet
<1>5. ASSUME IsInjective(s), e \notin ToSet(s) PROVE IsInjective(t)
  <2>. SUFFICES ASSUME NEW i \in DOMAIN t, NEW j \in DOMAIN t, t[i] = t[j] PROVE i = j
    BY DEF IsInjective
  <2>1. (i \in 1..k \/ i = k + 1) /\ (j \in 1..k \/ j = k + 1)
    BY <1>1, <1>2
  <2>2. \A l \in 1..k : t[l] \in ToSet(s)
    BY <1>1 DEF ToSet
  <2>. QED
    BY <1>1, <1>5, <2>1, <2>2 DEF IsInjective
<1>. QED
  BY <1>1, <1>4, <1>5 DEF t

(* The element at a place is taken out of a list: those behind it move up. *)
LEMMA RemovedAt ==
  ASSUME NEW S, NEW s \in Seq(S), NEW p \in 1..Len(s)
  PROVE  /\ RemoveAt(s, p) \in Seq(S)
         /\ DOMAIN RemoveAt(s, p) = 1..(Len(s) - 1)
         /\ \A i \in 1..(Len(s) - 1) :
              RemoveAt(s, p)[i] = IF i < p THEN s[i] ELSE s[i + 1]
<1>. DEFINE k == Len(s)
           front == SubSeq(s, 1, p - 1)
           back == SubSeq(s, p + 1, k)
<1>1. k \in Nat /\ p \in Nat /\ 1 <= p /\ p <= k
  BY LenProperties
<1>2. /\ front \in Seq(S) /\ Len(front) = p - 1
      /\ \A i \in 1..(p - 1) : front[i] = s[i]
  <2>1. 1 \in 1..(k + 1) /\ p - 1 \in (1 - 1)..k
    BY <1>1
  <2>2. \A i \in 1..(p - 1) : 1 + i - 1 = i
    BY <1>1
  <2>3. (p - 1) - 1 + 1 = p - 1
    BY <1>1
  <2>. QED
    BY <2>1, <2>2, <2>3, SubSeqProperties
<1>3. /\ back \in Seq(S) /\ Len(back) = k - p
      /\ \A i \in 1..(k - p) : back[i] = s[p + i]
  <2>1. p + 1 \in 1..(k + 1) /\ k \in ((p + 1) - 1)..k
    BY <1>1
  <2>2. \A i \in 1..(k - p) : p + 1 + i - 1 = p + i
    BY <1>1
  <2>3. k - (p + 1) + 1 = k - p
    BY <1>1
  <2>. QED
    BY <2>1, <2>2, <2>3, SubSeqProperties
<1>. HIDE DEF front, back, k
<1>4. /\ front \o back \in Seq(S) /\ Len(front \o back) = k - 1
      /\ \A i \in 1..(k - 1) :
           (front \o back)[i] = IF i <= p - 1 THEN front[i] ELSE back[i - (p - 1)]
  <2>1. Len(front) + Len(back) = k - 1
    BY <1>1, <1>2, <1>3
  <2>2. /\ front \o back \in Seq(S) /\ Len(front \o back) = Len(front) + Len(back)
        /\ \A i \in 1..(Len(front) + Len(back)) :
             (front \o back)[i] = IF i <= Len(front) THEN front[i] ELSE back[i - Len(front)]
    BY <1>2, <1>3, ConcatProperties
  <2>3. Len(front) = p - 1
    BY <1>2
  <2>. QED
    BY <2>1, <2>2, <2>3, Zenon
<1>5. ASSUME NEW i \in 1..(k - 1)
      PROVE  (front \o back)[i] = IF i < p THEN s[i] ELSE s[i + 1]
  <2>1. CASE i < p
    <3>1. i <= p - 1 /\ i \in 1..(p - 1)
      BY <1>1, <2>1
    <3>. QED
      BY <1>2, <1>4, <2>1, <3>1
  <2>2. CASE ~(i < p)
    <3>1. ~(i <= p - 1) /\ i - (p - 1) \in 1..(k - p) /\ p + (i - (p - 1)) = i + 1
      BY <1>1, <2>2
    <3>. QED
      BY <1>3, <1>4, <2>2, <3>1
  <2>. QED
    BY <2>1, <2>2
<1>6. RemoveAt(s, p) = front \o back
  BY DEF RemoveAt, front, back, k
<1>. QED
  BY <1>4, <1>5, <1>6, LenProperties DEF k

(* A node is in a list at most once: without it the list names the others, *)
(* each once.                                                              *)
LEMMA Removed ==
  ASSUME NEW S, NEW s \in Seq(S), NEW e, IsInjective(s)
  PROVE  /\ RemoveFirst(s, e) \in Seq(S) /\ IsInjective(RemoveFirst(s, e))
         /\ ToSet(RemoveFirst(s, e)) = ToSet(s) \ {e}
<1>. DEFINE places == {i \in 1..Len(s) : s[i] = e}
<1>1. Len(s) \in Nat /\ DOMAIN s = 1..Len(s)
  BY LenProperties
<1>2. CASE places = {}
  <2>1. RemoveFirst(s, e) = s
    BY <1>2 DEF RemoveFirst
  <2>2. e \notin ToSet(s)
    BY <1>1, <1>2 DEF ToSet
  <2>. QED
    BY <2>1, <2>2
<1>3. CASE places # {}
  <2>. DEFINE p == Min(places)
             t == RemoveAt(s, p)
             k == Len(s)
  <2>1. p \in places
    <3>1. Least(places) \in places /\ \A i \in places : Least(places) <= i
      BY <1>1, <1>3, LeastIsFirst
    <3>. HIDE DEF places
    <3>. QED
      BY <3>1 DEF Min
  <2>2. RemoveFirst(s, e) = t
    BY <1>3 DEF RemoveFirst, SelectInSeq
  <2>3. p \in 1..k /\ s[p] = e /\ p \in Nat
    BY <1>1, <2>1
  <2>. HIDE DEF p, places
  <2>4. /\ t \in Seq(S) /\ DOMAIN t = 1..(k - 1)
        /\ \A i \in 1..(k - 1) : t[i] = IF i < p THEN s[i] ELSE s[i + 1]
    BY <2>3, RemovedAt
  <2>. HIDE DEF t, k
  <2>. DEFINE from(i) == IF i < p THEN i ELSE i + 1
  <2>5. \A i \in 1..(k - 1) : from(i) \in 1..k /\ from(i) # p
    BY <1>1, <2>3 DEF k
  <2>6. \A i \in 1..(k - 1) : t[i] = s[from(i)]
    BY <2>4
  <2>7. \A i, j \in 1..(k - 1) : from(i) = from(j) => i = j
    BY <2>3
  <2>8. ASSUME NEW j \in 1..k, j # p PROVE \E i \in 1..(k - 1) : from(i) = j
    <3>1. CASE j < p
      <4>1. j \in 1..(k - 1) /\ from(j) = j
        BY <1>1, <2>3, <3>1 DEF k
      <4>. QED
        BY <4>1
    <3>2. CASE ~(j < p)
      <4>1. j - 1 \in 1..(k - 1) /\ from(j - 1) = j
        BY <1>1, <2>3, <2>8, <3>2 DEF k
      <4>. QED
        BY <4>1
    <3>. QED
      BY <3>1, <3>2
  <2>. HIDE DEF from
  <2>9. IsInjective(t)
    <3>1. \A i, j \in 1..(k - 1) : s[from(i)] = s[from(j)] => from(i) = from(j)
      BY <1>1, <2>5 DEF IsInjective, k
    <3>. QED
      BY <2>4, <2>6, <2>7, <3>1 DEF IsInjective
  <2>10. ToSet(t) = ToSet(s) \ {e}
    <3>1. \A i \in 1..(k - 1) : s[from(i)] \in ToSet(s) /\ s[from(i)] # e
      BY <1>1, <2>3, <2>5 DEF IsInjective, ToSet, k
    <3>2. \A i \in DOMAIN t : t[i] \in ToSet(s) \ {e}
      BY <2>4, <2>6, <3>1
    <3>3. ASSUME NEW x \in ToSet(s) \ {e} PROVE x \in ToSet(t)
      <4>1. PICK j \in 1..k : s[j] = x
        BY <1>1 DEF ToSet, k
      <4>2. PICK i \in 1..(k - 1) : from(i) = j
        BY <2>3, <2>8, <3>3, <4>1
      <4>. QED
        BY <2>4, <2>6, <4>1, <4>2 DEF ToSet
    <3>. QED
      BY <3>2, <3>3 DEF ToSet
  <2>. QED
    BY <2>2, <2>4, <2>9, <2>10
<1>. QED
  BY <1>2, <1>3

-----------------------------------------------------------------------------
(* Handlers that begin and return.                                         *)

Jobs == [in : HandlerPlaces, node : Nodes \cup {NoNode}]

(* A worker enters a handler, the others stay where they are.              *)
LEMMA Entered ==
  ASSUME TypeOK, NEW w \in Workers, NEW n \in Nodes,
         NEW place \in HandlerPlaces \ {"idle"}, Enters(w, place, n)
  PROVE  /\ job' \in [Workers -> Jobs]
         /\ job'[w] # Idle /\ job'[w].in = place /\ job'[w].node = n
         /\ \A v \in Workers \ {w} : job'[v] = job[v]
<1>1. job \in [Workers -> Jobs]
  BY DEF TypeOK, Jobs
<1>2. [in |-> place, node |-> n] \in Jobs /\ [in |-> place, node |-> n] # Idle
  BY DEF Jobs, Idle, HandlerPlaces
<1>. QED
  BY <1>1, <1>2 DEF Enters

(* A worker returns.                                                       *)
LEMMA Returned ==
  ASSUME TypeOK, NEW w \in Workers, Returns(w)
  PROVE  /\ job' \in [Workers -> Jobs]
         /\ job'[w] = Idle /\ job'[w].in = "idle"
         /\ \A v \in Workers \ {w} : job'[v] = job[v]
<1>1. job \in [Workers -> Jobs]
  BY DEF TypeOK, Jobs
<1>2. Idle \in Jobs /\ Idle.in = "idle"
  BY DEF Jobs, Idle, HandlerPlaces
<1>. QED
  BY <1>1, <1>2 DEF Returns

(* A handler that begins alone finds every other worker idle, and is the   *)
(* only one in its handler, if it enters one.                              *)
LEMMA BeginsAlone ==
  ASSUME NEW w \in Workers, BeginsHandler(w), \A v \in Workers \ {w} : job'[v] = job[v]
  PROVE  /\ ~crashed /\ job[w] = Idle /\ job[w].in = "idle"
         /\ serial' => serial /\ \A v \in Workers \ {w} : job'[v] = Idle /\ job'[v].in = "idle"
<1>1. Idle.in = "idle"
  BY DEF Idle
<1>. QED
  BY <1>1 DEF BeginsHandler

(* What a handler's return leaves to be true of the others.                *)
LEMMA ReturnKeepsJobs ==
  ASSUME JobsSound, NEW w \in Workers, job'[w].in = "idle",
         \A v \in Workers \ {w} : job'[v] = job[v],
         \A v \in Workers \ {w} : job[v].in \in InRegistry => conn'[job[v].node] = conn[job[v].node]
  PROVE  JobsSound'
BY DEF JobsSound, InRegistry, Joiners

(* A handler that is elsewhere does not disturb those that join: the ring  *)
(* keeps its places.                                                       *)
LEMMA KeepsListed ==
  ASSUME ListedOnRing, NEW w \in Workers, UNCHANGED groupName,
         \A v \in Workers \ {w} : job'[v] = job[v],
         job'[w].in \notin {"ring", "push"}, DOMAIN ring \subseteq DOMAIN ring'
  PROVE  ListedOnRing'
BY DEF ListedOnRing

(* A node that nobody is busy with gets a handler.                         *)
LEMMA StartKeepsJobs ==
  ASSUME JobsSound, NEW w \in Workers, NEW n \in Nodes, Starts(w, n),
         job'[w].in \in InRegistry, job'[w].node = n,
         job'[w].in \in Joiners => conn'[n] = "accepted",
         job'[w].in = "leave" => conn'[n] = "gone",
         \A v \in Workers \ {w} : job'[v] = job[v],
         \A m \in Nodes \ {n} : conn'[m] = conn[m]
  PROVE  JobsSound'
<1>1. \A v \in Workers : job[v].in \in InRegistry => job[v].node # n
  BY DEF Starts, Busy, InRegistry, Joiners
<1>. QED
  BY <1>1 DEF JobsSound, InRegistry, Joiners

-----------------------------------------------------------------------------
(* Every action preserves the invariant.                                   *)

(* Nobody has come, every list is empty, and so is the ring.               *)
LEMMA InitIInv == Init => IInv
<1>. SUFFICES ASSUME Init PROVE IInv
  OBVIOUS
<1>1. TypeOK
  <2>1. <<>> \in Seq(Nodes)
    BY EmptySeq
  <2>2. ring \in [DOMAIN ring -> PrivateGroups]
    BY DEF Init, EmptyRing
  <2>3. 0 \in 0..MaxRequests
    BY TrackerAssumption
  <2>. QED
    BY <2>1, <2>2, <2>3 DEF Init, TypeOK, Idle, HandlerPlaces
<1>2. TablesAgree
  <2>1. ToSet(<<>>) = {} /\ IsInjective(<<>>)
    BY EmptySeq DEF ToSet, IsInjective
  <2>. QED
    BY <2>1 DEF Init, TablesAgree
<1>3. GroupsOnRing /\ MeshComplete
  BY DEF Init, GroupsOnRing, MeshComplete, Groups
<1>4. JobsSound /\ AcceptedFound /\ OneHandler
  BY DEF Init, JobsSound, AcceptedFound, OneHandler, Idle, InRegistry, Joiners
<1>20. ListedOnRing
  BY DEF Init, ListedOnRing, Idle
<1>. QED
  BY <1>1, <1>2, <1>3, <1>4, <1>20 DEF IInv

(* A node comes: it is in storageNode before anybody can name it.          *)
LEMMA AcceptIInv ==
  ASSUME IInv, NEW n \in Nodes, Accept(n)
  PROVE  IInv'
<1>1. /\ conn[n] = "new" /\ storageNode' = storageNode \cup {n}
      /\ UNCHANGED <<groupName, group, Status, told, ring, job, flagRuns,
                     flagThreads, requests, crashed, serial, raced>>
  BY DEF Accept
<1>2. /\ conn' \in [Nodes -> {"new", "accepted", "member", "gone"}] /\ conn'[n] = "accepted"
      /\ \A m \in Nodes \ {n} : conn'[m] = conn[m]
  BY DEF Accept, IInv, TypeOK
<1>3. TypeOK'
  BY <1>1, <1>2 DEF IInv, TypeOK
<1>4. \A m \in Nodes : conn'[m] = "member" <=> conn[m] = "member"
  BY <1>1, <1>2
<1>5. TablesAgree'
  BY <1>1, <1>4 DEF IInv, TablesAgree
<1>6. GroupsOnRing' /\ MeshComplete'
  BY <1>1, <1>4 DEF IInv, GroupsOnRing, MeshComplete
<1>7. JobsSound'
  BY <1>1, <1>2 DEF IInv, JobsSound, Joiners
<1>8. AcceptedFound'
  BY <1>1, <1>2 DEF IInv, AcceptedFound
<1>9. OneHandler'
  BY <1>1 DEF IInv, OneHandler, Joiners
<1>20. ListedOnRing'
  BY <1>1 DEF IInv, ListedOnRing
<1>. QED
  BY <1>3, <1>5, <1>6, <1>7, <1>8, <1>9, <1>20 DEF IInv

(* A node introduces itself and is told about its group.                   *)
LEMMA DealNEWIInv ==
  ASSUME IInv, NEW w \in Workers, NEW n \in Nodes, DealNEW(w, n)
  PROVE  IInv'
<1>1. /\ Starts(w, n) /\ BeginsHandler(w) /\ conn[n] = "accepted" /\ Enters(w, "new", n)
      /\ told' = [told EXCEPT ![n] = Peers(n)] /\ Status' = [Status EXCEPT ![n] = "wait"]
      /\ UNCHANGED <<conn, groupName, storageNode, group, ring, flagRuns,
                     flagThreads, requests, crashed, raced>>
  BY DEF DealNEW, Starts
<1>2. /\ job' \in [Workers -> Jobs] /\ job'[w].in = "new" /\ job'[w].node = n
      /\ \A v \in Workers \ {w} : job'[v] = job[v]
  BY <1>1, Entered DEF IInv, HandlerPlaces
<1>3. Peers(n) \subseteq Nodes
  BY DEF Peers, IInv, TypeOK, TablesAgree
<1>4. TypeOK'
  BY <1>1, <1>2, <1>3 DEF IInv, TypeOK, Jobs
<1>5. TablesAgree' /\ GroupsOnRing' /\ AcceptedFound'
  BY <1>1 DEF IInv, TablesAgree, GroupsOnRing, AcceptedFound
<1>6. serial' => serial
  BY <1>1, <1>2, BeginsAlone
<1>7. MeshComplete'
  BY <1>1, <1>6 DEF IInv, MeshComplete, TypeOK
<1>8. JobsSound'
  BY <1>1, <1>2, StartKeepsJobs DEF IInv, InRegistry, Joiners
<1>9. OneHandler'
  <2>. SUFFICES ASSUME serial' PROVE OneHandler'
    BY DEF OneHandler
  <2>1. serial /\ ~crashed /\ \A v \in Workers \ {w} : job'[v] = Idle /\ job'[v].in = "idle"
    BY <1>1, <1>2, BeginsAlone
  <2>2. told'[n] = ToSet(group[groupName[n]])
    BY <1>1 DEF IInv, TypeOK, Peers
  <2>. QED
    BY <1>1, <1>2, <2>1, <2>2 DEF IInv, OneHandler, Joiners
<1>20. ListedOnRing'
  BY <1>1, <1>2, KeepsListed DEF IInv
<1>. QED
  BY <1>4, <1>5, <1>7, <1>8, <1>9, <1>20 DEF IInv

(* The handler looks for members.  What it found of a private group: it is *)
(* to be put on the ring, or has members, and then it is there.            *)
LEMMA LooksForMembersIInv ==
  ASSUME IInv, NEW w \in Workers, LooksForMembers(w)
  PROVE  IInv'
<1>. DEFINE n == job[w].node
           g == groupName[n]
           place == IF IsFirst(g) THEN "ring" ELSE "push"
<1>1. /\ ~crashed /\ job[w].in = "new" /\ Enters(w, place, n)
      /\ UNCHANGED <<conn, groupName, storageNode, group, Status, told, ring,
                     flagRuns, flagThreads, requests, crashed, serial>>
  BY DEF LooksForMembers
<1>2. /\ n \in Nodes /\ g \in Groups /\ conn[n] = "accepted"
      /\ place \in HandlerPlaces \ {"idle"} /\ place \in {"ring", "push"}
  BY <1>1 DEF IInv, JobsSound, TypeOK, Joiners, HandlerPlaces
<1>3. raced' \subseteq Groups
  <2>1. raced' \subseteq raced \cup {g}
    BY DEF LooksForMembers
  <2>. QED
    BY <1>2, <2>1 DEF IInv, TypeOK
<1>4. /\ place = "ring" => g \in PrivateGroups
      /\ place = "push" /\ g \in PrivateGroups => VirtualNodes[g] \subseteq DOMAIN ring
  BY <1>2, TrackerAssumption DEF IsFirst, Groups, IInv, GroupsOnRing
<1>. HIDE DEF n, place
<1>5. /\ job' \in [Workers -> Jobs] /\ job'[w].in = place /\ job'[w].node = n
      /\ \A v \in Workers \ {w} : job'[v] = job[v]
  BY <1>1, <1>2, Entered DEF IInv
<1>6. TypeOK'
  BY <1>1, <1>3, <1>5 DEF IInv, TypeOK, Jobs
<1>7. TablesAgree' /\ GroupsOnRing' /\ AcceptedFound' /\ MeshComplete'
  BY <1>1 DEF IInv, TablesAgree, GroupsOnRing, AcceptedFound, MeshComplete
<1>8. JobsSound'
  BY <1>1, <1>2, <1>5 DEF IInv, JobsSound, InRegistry, Joiners, n
<1>9. ListedOnRing'
  BY <1>1, <1>4, <1>5 DEF IInv, ListedOnRing
<1>10. OneHandler'
  <2>. SUFFICES ASSUME serial PROVE OneHandler'
    BY <1>1 DEF OneHandler
  <2>1. job[w] # Idle
    BY <1>1 DEF Idle
  <2>2. \A v \in Workers \ {w} : job'[v] = Idle /\ job'[v].in = "idle"
    BY <1>5, <2>1 DEF IInv, OneHandler, Idle
  <2>3. told[n] = ToSet(group[groupName[n]])
    BY <1>1 DEF IInv, OneHandler, Joiners, n
  <2>. QED
    BY <1>1, <1>2, <1>5, <2>2, <2>3 DEF IInv, OneHandler, Joiners
<1>. QED
  BY <1>6, <1>7, <1>8, <1>9, <1>10 DEF IInv

(* The group is put on the ring.                                           *)
LEMMA PutsOnRingIInv ==
  ASSUME IInv, NEW w \in Workers, PutsOnRing(w)
  PROVE  IInv'
<1>. DEFINE n == job[w].node
           g == groupName[n]
<1>1. /\ ~crashed /\ job[w].in = "ring" /\ Enters(w, "push", n) /\ ring' = AddNode(ring, g)
      /\ UNCHANGED <<conn, groupName, storageNode, group, Status, told, flagRuns,
                     flagThreads, requests, crashed, serial, raced>>
  BY DEF PutsOnRing
<1>2. n \in Nodes /\ g \in PrivateGroups /\ conn[n] = "accepted" /\ "push" \in HandlerPlaces \ {"idle"}
  BY <1>1 DEF IInv, JobsSound, ListedOnRing, Joiners, HandlerPlaces
<1>3. ring' \in [DOMAIN ring' -> PrivateGroups] /\ DOMAIN ring' = DOMAIN ring \cup VirtualNodes[g]
  <2>1. ring \in [DOMAIN ring -> PrivateGroups]
    BY DEF IInv, TypeOK
  <2>2. /\ DOMAIN ring' = DOMAIN ring \cup VirtualNodes[g]
        /\ ring' = [h \in DOMAIN ring' |-> IF h \in VirtualNodes[g] THEN g ELSE ring[h]]
    BY <1>1 DEF AddNode
  <2>3. \A h \in DOMAIN ring' : ring'[h] \in PrivateGroups
    BY <1>2, <2>1, <2>2
  <2>. QED
    BY <2>2, <2>3
<1>. HIDE DEF n
<1>4. /\ job' \in [Workers -> Jobs] /\ job'[w].in = "push" /\ job'[w].node = n
      /\ \A v \in Workers \ {w} : job'[v] = job[v]
  BY <1>1, <1>2, Entered DEF IInv
<1>5. TypeOK'
  BY <1>1, <1>3, <1>4 DEF IInv, TypeOK, Jobs
<1>6. TablesAgree' /\ AcceptedFound' /\ MeshComplete'
  BY <1>1 DEF IInv, TablesAgree, AcceptedFound, MeshComplete
<1>7. GroupsOnRing'
  BY <1>1, <1>3 DEF IInv, GroupsOnRing
<1>8. JobsSound'
  BY <1>1, <1>2, <1>4 DEF IInv, JobsSound, InRegistry, Joiners, n
<1>9. ListedOnRing'
  BY <1>1, <1>3, <1>4 DEF IInv, ListedOnRing
<1>10. OneHandler'
  <2>. SUFFICES ASSUME serial PROVE OneHandler'
    BY <1>1 DEF OneHandler
  <2>1. job[w] # Idle
    BY <1>1 DEF Idle
  <2>2. \A v \in Workers \ {w} : job'[v] = Idle /\ job'[v].in = "idle"
    BY <1>4, <2>1 DEF IInv, OneHandler, Idle
  <2>3. told[n] = ToSet(group[groupName[n]])
    BY <1>1 DEF IInv, OneHandler, Joiners, n
  <2>. QED
    BY <1>1, <1>4, <2>2, <2>3 DEF IInv, OneHandler, Joiners
<1>. QED
  BY <1>5, <1>6, <1>7, <1>8, <1>9, <1>10 DEF IInv

(* The node joins the group it was told about.                             *)
LEMMA JoinGroupIInv ==
  ASSUME IInv, NEW w \in Workers, JoinGroup(w)
  PROVE  IInv'
<1>. DEFINE n == job[w].node
           g == groupName[n]
<1>1. /\ ~crashed /\ job[w].in = "push" /\ Returns(w)
      /\ group' = [group EXCEPT ![g] = Append(@, n)]
      /\ conn' = [conn EXCEPT ![n] = "member"]
      /\ UNCHANGED <<groupName, storageNode, Status, told, ring, flagRuns,
                     flagThreads, requests, crashed, serial, raced>>
  BY DEF JoinGroup
<1>2. n \in Nodes /\ g \in Groups /\ conn[n] = "accepted" /\ n \in storageNode
  BY <1>1 DEF IInv, JobsSound, AcceptedFound, TypeOK, Joiners, InRegistry
<1>. HIDE DEF n, g
<1>3. /\ job' \in [Workers -> Jobs] /\ job'[w].in = "idle" /\ job'[w] = Idle
      /\ \A v \in Workers \ {w} : job'[v] = job[v]
  BY <1>1, Returned DEF IInv
<1>4. /\ conn' \in [Nodes -> {"new", "accepted", "member", "gone"}] /\ conn'[n] = "member"
      /\ \A m \in Nodes \ {n} : conn'[m] = conn[m]
  BY <1>1, <1>2 DEF IInv, TypeOK
<1>5. /\ DOMAIN group' = Groups /\ group'[g] = Append(group[g], n)
      /\ \A h \in Groups \ {g} : group'[h] = group[h]
  BY <1>1, <1>2 DEF IInv, TypeOK
<1>6. /\ group[g] \in Seq(Nodes) /\ IsInjective(group[g])
      /\ ToSet(group[g]) = {m \in Nodes : conn[m] = "member" /\ groupName[m] = g}
      /\ ToSet(group[g]) \subseteq storageNode
  BY <1>2 DEF IInv, TypeOK, TablesAgree
<1>7. n \notin ToSet(group[g])
  BY <1>2, <1>6
<1>8. /\ group'[g] \in Seq(Nodes) /\ IsInjective(group'[g])
      /\ ToSet(group'[g]) = ToSet(group[g]) \cup {n}
  BY <1>2, <1>5, <1>6, <1>7, Appended
<1>9. g \in PrivateGroups => VirtualNodes[g] \subseteq DOMAIN ring
  BY <1>1 DEF IInv, ListedOnRing, n, g
<1>10. TypeOK'
  BY <1>1, <1>3, <1>4, <1>5, <1>8 DEF IInv, TypeOK, Jobs
<1>11. TablesAgree'
  <2>1. ASSUME NEW h \in Groups \ {g}
        PROVE  /\ ToSet(group'[h]) = {m \in Nodes : conn'[m] = "member" /\ groupName[m] = h}
               /\ IsInjective(group'[h]) /\ ToSet(group'[h]) \subseteq storageNode
    <3>1. groupName[n] # h /\ group'[h] = group[h]
      BY <1>5, <2>1 DEF g
    <3>. QED
      BY <1>4, <2>1, <3>1 DEF IInv, TablesAgree
  <2>2. ToSet(group'[g]) = {m \in Nodes : conn'[m] = "member" /\ groupName[m] = g}
    BY <1>2, <1>4, <1>6, <1>8 DEF g
  <2>. QED
    BY <1>1, <1>2, <1>6, <1>8, <2>1, <2>2 DEF TablesAgree
<1>12. GroupsOnRing'
  BY <1>1, <1>5, <1>9 DEF IInv, GroupsOnRing, Groups
<1>13. MeshComplete'
  <2>. SUFFICES ASSUME NEW k \in Nodes, NEW m \in Nodes, serial, k # m, conn'[k] = "member",
                       conn'[m] = "member", groupName[k] = groupName[m]
                PROVE  k \in told[m] \/ m \in told[k]
    BY <1>1 DEF MeshComplete
  <2>1. told[n] = ToSet(group[g])
    BY <1>1 DEF IInv, OneHandler, Joiners, n, g
  <2>2. CASE k # n /\ m # n
    BY <1>4, <2>2 DEF IInv, MeshComplete
  <2>3. CASE k = n
    BY <1>4, <1>6, <2>1, <2>3 DEF g
  <2>4. CASE m = n
    BY <1>4, <1>6, <2>1, <2>4 DEF g
  <2>. QED
    BY <2>2, <2>3, <2>4
<1>14. JobsSound'
  <2>1. \A v \in Workers \ {w} : job[v].in \in InRegistry => job[v].node # n
    BY <1>1 DEF IInv, JobsSound, InRegistry, Joiners, n
  <2>2. \A v \in Workers \ {w} : job[v].in \in InRegistry => conn'[job[v].node] = conn[job[v].node]
    BY <1>4, <2>1 DEF IInv, JobsSound, InRegistry, Joiners
  <2>. QED
    BY <1>3, <2>2, ReturnKeepsJobs DEF IInv
<1>15. AcceptedFound'
  BY <1>1, <1>2, <1>4 DEF IInv, AcceptedFound
<1>16. OneHandler'
  <2>. SUFFICES ASSUME serial PROVE OneHandler'
    BY <1>1 DEF OneHandler
  <2>1. job[w] # Idle
    BY <1>1 DEF Idle
  <2>2. \A v \in Workers : job'[v] = Idle /\ job'[v].in = "idle"
    BY <1>3, <2>1 DEF IInv, OneHandler, Idle
  <2>. QED
    BY <1>1, <2>2 DEF IInv, OneHandler, Joiners
<1>17. ListedOnRing'
  BY <1>1, <1>3, KeepsListed DEF IInv
<1>. QED
  BY <1>10, <1>11, <1>12, <1>13, <1>14, <1>15, <1>16, <1>17 DEF IInv

(* A node has caught up: it is active, and the flag's thread is wanted if  *)
(* it does not run.                                                        *)
LEMMA DealCHGIInv ==
  ASSUME IInv, NEW w \in Workers, NEW n \in Nodes, DealCHG(w, n)
  PROVE  IInv'
<1>1. /\ Starts(w, n) /\ BeginsHandler(w) /\ conn[n] = "member"
      /\ Status' = [Status EXCEPT ![n] = "active"]
      /\ UNCHANGED <<conn, groupName, storageNode, group, told, ring, flagRuns,
                     flagThreads, requests, crashed, raced>>
  BY DEF DealCHG, Starts, StatusActive
<1>2. TablesAgree' /\ GroupsOnRing' /\ AcceptedFound'
  BY <1>1 DEF IInv, TablesAgree, GroupsOnRing, AcceptedFound
<1>3. CASE flagRuns
  <2>1. job' = job
    BY <1>3 DEF DealCHG
  <2>2. TypeOK' /\ JobsSound'
    BY <1>1, <2>1 DEF IInv, TypeOK, JobsSound
  <2>3. serial' => serial /\ ~crashed /\ \A v \in Workers : job'[v] = Idle /\ job'[v].in = "idle"
    BY <1>1, <2>1, BeginsAlone
  <2>4. MeshComplete' /\ OneHandler'
    BY <1>1, <2>3 DEF IInv, MeshComplete, OneHandler, Joiners
  <2>5. ListedOnRing'
    BY <1>1, <2>1 DEF IInv, ListedOnRing
  <2>. QED
    BY <1>2, <2>2, <2>4, <2>5 DEF IInv
<1>4. CASE ~flagRuns
  <2>1. Enters(w, "go", n)
    BY <1>4 DEF DealCHG
  <2>2. /\ job' \in [Workers -> Jobs] /\ job'[w].in = "go" /\ job'[w].node = n
        /\ \A v \in Workers \ {w} : job'[v] = job[v]
    BY <2>1, Entered DEF IInv, HandlerPlaces
  <2>3. TypeOK'
    BY <1>1, <2>2 DEF IInv, TypeOK, Jobs
  <2>4. JobsSound'
    BY <1>1, <2>2, StartKeepsJobs DEF IInv, InRegistry, Joiners
  <2>5. serial' => serial /\ ~crashed /\ \A v \in Workers \ {w} : job'[v] = Idle /\ job'[v].in = "idle"
    BY <1>1, <2>2, BeginsAlone
  <2>6. MeshComplete' /\ OneHandler'
    BY <1>1, <1>4, <2>2, <2>5 DEF IInv, MeshComplete, OneHandler, Joiners
  <2>7. ListedOnRing'
    BY <1>1, <2>2, KeepsListed DEF IInv
  <2>. QED
    BY <1>2, <2>3, <2>4, <2>6, <2>7 DEF IInv
<1>. QED
  BY <1>3, <1>4

(* The flag's thread is started.                                           *)
LEMMA ThreadGOIInv ==
  ASSUME IInv, NEW w \in Workers, ThreadGO(w)
  PROVE  IInv'
<1>1. /\ ~crashed /\ job[w].in = "go" /\ flagRuns' = TRUE /\ flagThreads' = flagThreads + 1
      /\ Returns(w)
      /\ UNCHANGED <<conn, groupName, storageNode, group, Status, told, ring,
                     requests, crashed, serial, raced>>
  BY DEF ThreadGO, FlagAfterGO
<1>2. /\ job' \in [Workers -> Jobs] /\ job'[w].in = "idle" /\ job'[w] = Idle
      /\ \A v \in Workers \ {w} : job'[v] = job[v]
  BY <1>1, Returned DEF IInv
<1>3. TypeOK'
  BY <1>1, <1>2 DEF IInv, TypeOK, Jobs
<1>4. TablesAgree' /\ GroupsOnRing' /\ AcceptedFound' /\ MeshComplete'
  BY <1>1 DEF IInv, TablesAgree, GroupsOnRing, AcceptedFound, MeshComplete
<1>5. JobsSound'
  BY <1>1, <1>2, ReturnKeepsJobs DEF IInv
<1>6. OneHandler'
  <2>. SUFFICES ASSUME serial PROVE OneHandler'
    BY <1>1 DEF OneHandler
  <2>1. job[w] # Idle
    BY <1>1 DEF Idle
  <2>2. \A v \in Workers : job'[v] = Idle /\ job'[v].in = "idle"
    BY <1>2, <2>1 DEF IInv, OneHandler, Idle
  <2>3. flagThreads = 0
    BY <1>1 DEF IInv, OneHandler, Joiners
  <2>. QED
    BY <1>1, <2>2, <2>3 DEF OneHandler, Joiners
<1>20. ListedOnRing'
  BY <1>1, <1>2, KeepsListed DEF IInv
<1>. QED
  BY <1>3, <1>4, <1>5, <1>6, <1>20 DEF IInv

(* A node leaves its group.                                                *)
LEMMA LeaveGroupIInv ==
  ASSUME IInv, NEW w \in Workers, NEW n \in Nodes, LeaveGroup(w, n)
  PROVE  IInv'
<1>. DEFINE g == groupName[n]
<1>1. /\ Starts(w, n) /\ BeginsHandler(w) /\ conn[n] \in {"accepted", "member"}
      /\ group' = [group EXCEPT ![g] = RemoveFirst(group[g], n)]
      /\ conn' = [conn EXCEPT ![n] = "gone"] /\ Enters(w, "leave", n)
      /\ UNCHANGED <<groupName, storageNode, Status, told, ring, flagRuns,
                     flagThreads, requests, crashed, raced>>
  BY DEF LeaveGroup, Starts, Without
<1>2. g \in Groups
  BY DEF IInv, TypeOK
<1>. HIDE DEF g
<1>3. /\ job' \in [Workers -> Jobs] /\ job'[w].in = "leave" /\ job'[w].node = n
      /\ \A v \in Workers \ {w} : job'[v] = job[v]
  BY <1>1, Entered DEF IInv, HandlerPlaces
<1>4. /\ conn' \in [Nodes -> {"new", "accepted", "member", "gone"}] /\ conn'[n] = "gone"
      /\ \A m \in Nodes \ {n} : conn'[m] = conn[m]
  BY <1>1 DEF IInv, TypeOK
<1>5. /\ DOMAIN group' = Groups /\ group'[g] = RemoveFirst(group[g], n)
      /\ \A h \in Groups \ {g} : group'[h] = group[h]
  BY <1>1, <1>2 DEF IInv, TypeOK
<1>6. /\ group[g] \in Seq(Nodes) /\ IsInjective(group[g])
      /\ ToSet(group[g]) = {m \in Nodes : conn[m] = "member" /\ groupName[m] = g}
      /\ ToSet(group[g]) \subseteq storageNode
  BY <1>2 DEF IInv, TypeOK, TablesAgree
<1>7. /\ group'[g] \in Seq(Nodes) /\ IsInjective(group'[g])
      /\ ToSet(group'[g]) = ToSet(group[g]) \ {n}
  BY <1>5, <1>6, Removed
<1>8. TypeOK'
  BY <1>1, <1>3, <1>4, <1>5, <1>7 DEF IInv, TypeOK, Jobs
<1>9. TablesAgree'
  <2>1. ASSUME NEW h \in Groups \ {g}
        PROVE  /\ ToSet(group'[h]) = {m \in Nodes : conn'[m] = "member" /\ groupName[m] = h}
               /\ IsInjective(group'[h]) /\ ToSet(group'[h]) \subseteq storageNode
    <3>1. groupName[n] # h /\ group'[h] = group[h]
      BY <1>5, <2>1 DEF g
    <3>. QED
      BY <1>4, <2>1, <3>1 DEF IInv, TablesAgree
  <2>2. ToSet(group'[g]) = {m \in Nodes : conn'[m] = "member" /\ groupName[m] = g}
    BY <1>4, <1>6, <1>7
  <2>. QED
    BY <1>1, <1>6, <1>7, <2>1, <2>2 DEF TablesAgree
<1>10. GroupsOnRing'
  <2>1. group[g] = <<>> => group'[g] = <<>>
    BY <1>6, <1>7, EmptyNamesNobody
  <2>2. PrivateGroups \subseteq Groups
    BY DEF Groups
  <2>. QED
    BY <1>1, <1>5, <2>1, <2>2 DEF IInv, GroupsOnRing
<1>11. serial' => serial /\ ~crashed /\ \A v \in Workers \ {w} : job'[v] = Idle /\ job'[v].in = "idle"
  BY <1>1, <1>3, BeginsAlone
<1>12. \A m \in Nodes : conn'[m] = "member" => conn[m] = "member"
  BY <1>4
<1>13. MeshComplete'
  BY <1>1, <1>11, <1>12 DEF IInv, MeshComplete
<1>14. JobsSound'
  BY <1>1, <1>3, <1>4, StartKeepsJobs DEF IInv, InRegistry, Joiners
<1>15. AcceptedFound'
  BY <1>1, <1>4 DEF IInv, AcceptedFound
<1>16. OneHandler'
  BY <1>1, <1>3, <1>11 DEF IInv, OneHandler, Joiners
<1>20. ListedOnRing'
  BY <1>1, <1>3, KeepsListed DEF IInv
<1>. QED
  BY <1>8, <1>9, <1>10, <1>13, <1>14, <1>15, <1>16, <1>20 DEF IInv

(* A node that left is taken out of storageNode: no group names it.        *)
LEMMA LeaveTableIInv ==
  ASSUME IInv, NEW w \in Workers, LeaveTable(w)
  PROVE  IInv'
<1>. DEFINE n == job[w].node
<1>1. /\ ~crashed /\ job[w].in = "leave" /\ storageNode' = storageNode \ {n} /\ Returns(w)
      /\ UNCHANGED <<conn, groupName, group, Status, told, ring, flagRuns,
                     flagThreads, requests, crashed, serial, raced>>
  BY DEF LeaveTable
<1>2. conn[n] = "gone"
  BY <1>1 DEF IInv, JobsSound
<1>. HIDE DEF n
<1>3. /\ job' \in [Workers -> Jobs] /\ job'[w].in = "idle" /\ job'[w] = Idle
      /\ \A v \in Workers \ {w} : job'[v] = job[v]
  BY <1>1, Returned DEF IInv
<1>4. TypeOK'
  BY <1>1, <1>3 DEF IInv, TypeOK, Jobs
<1>5. TablesAgree'
  BY <1>1, <1>2 DEF IInv, TablesAgree
<1>6. GroupsOnRing' /\ MeshComplete'
  BY <1>1 DEF IInv, GroupsOnRing, MeshComplete
<1>7. AcceptedFound'
  BY <1>1, <1>2 DEF IInv, AcceptedFound
<1>8. JobsSound'
  BY <1>1, <1>3, ReturnKeepsJobs DEF IInv
<1>9. OneHandler'
  <2>. SUFFICES ASSUME serial PROVE OneHandler'
    BY <1>1 DEF OneHandler
  <2>1. job[w] # Idle
    BY <1>1 DEF Idle
  <2>2. \A v \in Workers : job'[v] = Idle /\ job'[v].in = "idle"
    BY <1>3, <2>1 DEF IInv, OneHandler, Idle
  <2>. QED
    BY <1>1, <2>2 DEF IInv, OneHandler, Joiners
<1>20. ListedOnRing'
  BY <1>1, <1>3, KeepsListed DEF IInv
<1>. QED
  BY <1>4, <1>5, <1>6, <1>7, <1>8, <1>9, <1>20 DEF IInv

(* The node a redirect takes is a member of the public group.              *)
LEMMA FirstActiveIsMember ==
  ASSUME TypeOK, TablesAgree, ActiveIn("public") # {}
  PROVE  group["public"][Least(ActiveIn("public"))] \in ToSet(group["public"])
<1>1. group["public"] \in Seq(Nodes)
  BY DEF TypeOK, Groups
<1>2. ActiveIn("public") \subseteq Nat /\ ActiveIn("public") \subseteq DOMAIN group["public"]
  BY <1>1, LenProperties DEF ActiveIn
<1>3. Least(ActiveIn("public")) \in ActiveIn("public")
  BY <1>2, LeastIsFirst
<1>. QED
  BY <1>2, <1>3 DEF ToSet

(* A request for a server takes a node, if one is active.                  *)
LEMMA PublicRequestIInv ==
  ASSUME IInv, NEW w \in Workers, PublicRequest(w)
  PROVE  IInv'
<1>1. /\ BeginsHandler(w) /\ requests < MaxRequests /\ requests' = requests + 1
      /\ UNCHANGED <<conn, groupName, storageNode, group, Status, told, ring,
                     flagRuns, flagThreads, crashed, raced>>
  BY DEF PublicRequest
<1>2. TablesAgree' /\ GroupsOnRing' /\ AcceptedFound'
  BY <1>1 DEF IInv, TablesAgree, GroupsOnRing, AcceptedFound
<1>3. requests' \in 0..MaxRequests
  BY <1>1, TrackerAssumption DEF IInv, TypeOK
<1>4. CASE ActiveIn("public") = {}
  <2>1. job' = job
    BY <1>4 DEF PublicRequest
  <2>2. TypeOK' /\ JobsSound'
    BY <1>1, <1>3, <2>1 DEF IInv, TypeOK, JobsSound, Joiners
  <2>3. serial' => serial /\ ~crashed /\ \A v \in Workers : job'[v] = Idle /\ job'[v].in = "idle"
    BY <1>1, <2>1, BeginsAlone
  <2>4. MeshComplete' /\ OneHandler'
    BY <1>1, <2>3 DEF IInv, MeshComplete, OneHandler, Joiners
  <2>5. ListedOnRing'
    BY <1>1, <2>1 DEF IInv, ListedOnRing
  <2>. QED
    BY <1>2, <2>2, <2>4, <2>5 DEF IInv
<1>5. CASE ActiveIn("public") # {}
  <2>. DEFINE n == group["public"][Least(ActiveIn("public"))]
  <2>1. n \in ToSet(group["public"])
    BY <1>5, FirstActiveIsMember DEF IInv
  <2>2. Enters(w, "picked", n)
    BY <1>5 DEF PublicRequest
  <2>. HIDE DEF n
  <2>3. n \in Nodes /\ n \in storageNode
    BY <2>1 DEF IInv, TablesAgree, Groups
  <2>4. /\ job' \in [Workers -> Jobs] /\ job'[w].in = "picked" /\ job'[w].node = n
        /\ \A v \in Workers \ {w} : job'[v] = job[v]
    BY <2>2, <2>3, Entered DEF IInv, HandlerPlaces
  <2>5. TypeOK'
    BY <1>1, <1>3, <2>4 DEF IInv, TypeOK, Jobs, HandlerPlaces
  <2>6. JobsSound'
    BY <1>1, <2>3, <2>4 DEF IInv, JobsSound, InRegistry, Joiners
  <2>7. serial' => serial /\ ~crashed /\ \A v \in Workers \ {w} : job'[v] = Idle /\ job'[v].in = "idle"
    BY <1>1, <2>4, BeginsAlone
  <2>8. MeshComplete' /\ OneHandler'
    BY <1>1, <2>3, <2>4, <2>7 DEF IInv, MeshComplete, OneHandler, Joiners
  <2>9. ListedOnRing'
    BY <1>1, <2>4, KeepsListed DEF IInv
  <2>. QED
    BY <1>2, <2>5, <2>6, <2>8, <2>9 DEF IInv
<1>. QED
  BY <1>4, <1>5

(* All members of the public group have received.                          *)
LEMMA SynPULGroupIInv ==
  ASSUME IInv, NEW w \in Workers, SynPULGroup(w)
  PROVE  IInv'
<1>. DEFINE n == job[w].node
<1>1. /\ ~crashed /\ job[w].in = "picked" /\ Enters(w, "synced", n)
      /\ Status' = [m \in Nodes |-> IF m \in ToSet(group["public"]) THEN "rcvd" ELSE Status[m]]
      /\ UNCHANGED <<conn, groupName, storageNode, group, told, ring, flagRuns,
                     flagThreads, requests, crashed, serial, raced>>
  BY DEF SynPULGroup, Synced
<1>2. n \in Nodes
  BY <1>1 DEF IInv, JobsSound
<1>3. /\ job' \in [Workers -> Jobs] /\ job'[w].in = "synced" /\ job'[w].node = n
      /\ \A v \in Workers \ {w} : job'[v] = job[v]
  <2>. HIDE DEF n
  <2>. QED
    BY <1>1, <1>2, Entered DEF IInv, HandlerPlaces
<1>4. TypeOK'
  BY <1>1, <1>3 DEF IInv, TypeOK, Jobs
<1>5. TablesAgree' /\ GroupsOnRing' /\ AcceptedFound' /\ MeshComplete'
  BY <1>1 DEF IInv, TablesAgree, GroupsOnRing, AcceptedFound, MeshComplete
<1>6. JobsSound'
  BY <1>1, <1>2, <1>3 DEF IInv, JobsSound, InRegistry, Joiners
<1>7. OneHandler'
  <2>. SUFFICES ASSUME serial PROVE OneHandler'
    BY <1>1 DEF OneHandler
  <2>1. job[w] # Idle
    BY <1>1 DEF Idle
  <2>2. \A v \in Workers \ {w} : job'[v] = Idle /\ job'[v].in = "idle"
    BY <1>3, <2>1 DEF IInv, OneHandler, Idle
  <2>3. n \in storageNode
    BY <1>1 DEF IInv, OneHandler, Joiners
  <2>4. \A m \in ToSet(group["public"]) : Status'[m] # "active"
    <3>1. ToSet(group["public"]) \subseteq Nodes
      BY DEF IInv, TablesAgree, Groups
    <3>. QED
      BY <1>1, <3>1
  <2>. QED
    BY <1>1, <1>3, <2>2, <2>3, <2>4 DEF IInv, OneHandler, Joiners
<1>20. ListedOnRing'
  BY <1>1, <1>3, KeepsListed DEF IInv
<1>. QED
  BY <1>4, <1>5, <1>6, <1>7, <1>20 DEF IInv

(* The node that was taken is active again, if it is still there.          *)
LEMMA RespondIInv ==
  ASSUME IInv, NEW w \in Workers, Respond(w)
  PROVE  IInv'
<1>. DEFINE n == job[w].node
<1>1. /\ ~crashed /\ job[w].in = "synced" /\ Returns(w)
      /\ IF n \in storageNode
         THEN Status' = [Status EXCEPT ![n] = "active"] /\ crashed' = crashed
         ELSE crashed' = TRUE /\ Status' = Status
      /\ UNCHANGED <<conn, groupName, storageNode, group, told, ring, flagRuns,
                     flagThreads, requests, serial, raced>>
  BY DEF Respond
<1>2. n \in Nodes
  BY <1>1 DEF IInv, JobsSound
<1>. HIDE DEF n
<1>3. /\ job' \in [Workers -> Jobs] /\ job'[w].in = "idle" /\ job'[w] = Idle
      /\ \A v \in Workers \ {w} : job'[v] = job[v]
  BY <1>1, Returned DEF IInv
<1>4. TypeOK'
  <2>1. Status' \in [Nodes -> {"wait", "rcvd", "active"}] /\ crashed' \in BOOLEAN
    BY <1>1, <1>2 DEF IInv, TypeOK
  <2>. QED
    BY <1>1, <1>3, <2>1 DEF IInv, TypeOK, Jobs
<1>5. TablesAgree' /\ GroupsOnRing' /\ AcceptedFound' /\ MeshComplete'
  BY <1>1 DEF IInv, TablesAgree, GroupsOnRing, AcceptedFound, MeshComplete
<1>6. JobsSound'
  BY <1>1, <1>3, ReturnKeepsJobs DEF IInv
<1>7. OneHandler'
  <2>. SUFFICES ASSUME serial PROVE OneHandler'
    BY <1>1 DEF OneHandler
  <2>1. job[w] # Idle
    BY <1>1 DEF Idle
  <2>2. \A v \in Workers : job'[v] = Idle /\ job'[v].in = "idle"
    BY <1>3, <2>1 DEF IInv, OneHandler, Idle
  <2>3. n \in storageNode
    BY <1>1 DEF IInv, OneHandler, n
  <2>. QED
    BY <1>1, <2>2, <2>3 DEF IInv, OneHandler, Joiners
<1>20. ListedOnRing'
  BY <1>1, <1>3, KeepsListed DEF IInv
<1>. QED
  BY <1>4, <1>5, <1>6, <1>7, <1>20 DEF IInv

(* The invariant is inductive.                                             *)
LEMMA NextIInv == IInv /\ [Next]_vars => IInv'
<1>. SUFFICES ASSUME IInv, [Next]_vars PROVE IInv'
  OBVIOUS
<1>1. CASE UNCHANGED vars
  <2>1. TypeOK' /\ TablesAgree' /\ GroupsOnRing' /\ MeshComplete'
    BY <1>1 DEF vars, IInv, TypeOK, TablesAgree, GroupsOnRing, MeshComplete
  <2>2. JobsSound' /\ ListedOnRing' /\ AcceptedFound' /\ OneHandler'
    BY <1>1 DEF vars, IInv, JobsSound, ListedOnRing, AcceptedFound, OneHandler
  <2>. QED
    BY <2>1, <2>2 DEF IInv
<1>2. ASSUME NEW n \in Nodes, Accept(n) PROVE IInv'
  BY <1>2, AcceptIInv
<1>3. ASSUME NEW w \in Workers, NEW n \in Nodes, DealNEW(w, n) PROVE IInv'
  BY <1>3, DealNEWIInv
<1>4. ASSUME NEW w \in Workers, NEW n \in Nodes, DealCHG(w, n) PROVE IInv'
  BY <1>4, DealCHGIInv
<1>5. ASSUME NEW w \in Workers, NEW n \in Nodes, LeaveGroup(w, n) PROVE IInv'
  BY <1>5, LeaveGroupIInv
<1>6. ASSUME NEW w \in Workers, JoinGroup(w) PROVE IInv'
  BY <1>6, JoinGroupIInv
<1>7. ASSUME NEW w \in Workers, ThreadGO(w) PROVE IInv'
  BY <1>7, ThreadGOIInv
<1>8. ASSUME NEW w \in Workers, LeaveTable(w) PROVE IInv'
  BY <1>8, LeaveTableIInv
<1>9. ASSUME NEW w \in Workers, PublicRequest(w) PROVE IInv'
  BY <1>9, PublicRequestIInv
<1>10. ASSUME NEW w \in Workers, SynPULGroup(w) PROVE IInv'
  BY <1>10, SynPULGroupIInv
<1>11. ASSUME NEW w \in Workers, Respond(w) PROVE IInv'
  BY <1>11, RespondIInv
<1>12. ASSUME NEW w \in Workers, LooksForMembers(w) PROVE IInv'
  BY <1>12, LooksForMembersIInv
<1>13. ASSUME NEW w \in Workers, PutsOnRing(w) PROVE IInv'
  BY <1>13, PutsOnRingIInv
<1>. QED
  BY <1>1, <1>2, <1>3, <1>4, <1>5, <1>6, <1>7, <1>8, <1>9, <1>10, <1>11, <1>12, <1>13 DEF Next

-----------------------------------------------------------------------------
(* The results, for all constants that satisfy the assumptions.            *)

(* A group lists its members, each once, they are all in storageNode, and  *)
(* a private group that has members is on the ring, whatever handlers      *)
(* overlap.                                                                *)
THEOREM TablesAreSound == Spec => []TablesSound
<1>1. IInv => TablesSound
  BY DEF IInv, TablesSound
<1>. QED
  BY <1>1, InitIInv, NextIInv, PTL DEF Spec

(* Of two members of a group one was told of the other, if their handlers  *)
(* came one after the other.                                               *)
THEOREM MeshIsComplete == Spec => []MeshComplete
<1>1. IInv => MeshComplete
  BY DEF IInv
<1>. QED
  BY <1>1, InitIInv, NextIInv, PTL DEF Spec

(* The tracker survives handlers that come one after the other.            *)
THEOREM TrackerSurvives == Spec => []NeverCrashes
<1>1. IInv => NeverCrashes
  BY DEF IInv, OneHandler, NeverCrashes
<1>. QED
  BY <1>1, InitIInv, NextIInv, PTL DEF Spec

(* A redirect that nothing overlaps leaves one active member of the public *)
(* group, the one the client was sent to.                                  *)
THEOREM RedirectsLeaveOne == Spec => RedirectLeavesOne
<1>1. ASSUME IInv, [Next]_vars, NEW w \in Workers, serial, job[w].in = "synced", job'[w] = Idle,
             NEW n \in Nodes, conn[n] = "member", groupName[n] = "public", Status'[n] = "active"
      PROVE  n = job[w].node
  <2>1. job'[w] # job[w] /\ job[w] # Idle
    BY <1>1 DEF Idle
  <2>2. \A v \in Workers : Returns(v) \/ (\E p, m : Enters(v, p, m)) => v = w
    BY <1>1, <2>1 DEF Returns, Enters, IInv, TypeOK
  <2>3. Respond(w)
    <3>1. ASSUME NEW v \in Workers, NEW m \in Nodes, DealNEW(v, m) \/ DealCHG(v, m) \/ LeaveGroup(v, m)
          PROVE  FALSE
      <4>1. job[v] = Idle
        BY <3>1 DEF DealNEW, DealCHG, LeaveGroup, Starts, BeginsHandler
      <4>2. job' = job \/ Enters(v, "new", m) \/ Enters(v, "go", m) \/ Enters(v, "leave", m)
        <5>1. DealNEW(v, m) => Enters(v, "new", m)
          BY DEF DealNEW
        <5>2. DealCHG(v, m) => job' = job \/ Enters(v, "go", m)
          BY DEF DealCHG
        <5>3. LeaveGroup(v, m) => Enters(v, "leave", m)
          BY DEF LeaveGroup
        <5>. QED
          BY <3>1, <5>1, <5>2, <5>3
      <4>. QED
        BY <2>1, <2>2, <4>1, <4>2
    <3>2. ASSUME NEW v \in Workers, PublicRequest(v) PROVE FALSE
      BY <2>1, <2>2, <3>2 DEF PublicRequest, BeginsHandler
    <3>3. ASSUME NEW v \in Workers, JoinGroup(v) \/ LooksForMembers(v) \/ PutsOnRing(v) \/ ThreadGO(v) \/ LeaveTable(v) \/ SynPULGroup(v)
          PROVE  FALSE
      BY <1>1, <2>2, <3>3 DEF JoinGroup, LooksForMembers, PutsOnRing, ThreadGO, LeaveTable, SynPULGroup
    <3>4. ASSUME NEW v \in Workers, Respond(v) PROVE Respond(w)
      BY <2>2, <3>4 DEF Respond
    <3>5. ASSUME NEW m \in Nodes, Accept(m) PROVE FALSE
      BY <2>1, <3>5 DEF Accept
    <3>6. ~UNCHANGED vars
      BY <2>1 DEF vars
    <3>. QED
      BY <1>1, <3>1, <3>2, <3>3, <3>4, <3>5, <3>6 DEF Next
  <2>4. n \in ToSet(group["public"])
    BY <1>1 DEF IInv, TablesAgree, Groups
  <2>5. Status[n] # "active"
    BY <1>1, <2>4 DEF IInv, OneHandler, Joiners
  <2>6. Status' = Status \/ Status' = [Status EXCEPT ![job[w].node] = "active"]
    BY <2>3 DEF Respond
  <2>. QED
    BY <1>1, <2>5, <2>6 DEF IInv, TypeOK
<1>2. IInv /\ [Next]_vars
      => \A w \in Workers :
           serial /\ job[w].in = "synced" /\ job'[w] = Idle =>
             \A n \in Nodes :
               conn[n] = "member" /\ groupName[n] = "public" /\ Status'[n] = "active"
               => n = job[w].node
  BY <1>1
<1>. QED
  BY <1>2, InitIInv, NextIInv, PTL DEF Spec, RedirectLeavesOne
=============================================================================
