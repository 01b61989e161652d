--------------------------- MODULE ConsistentHash ---------------------------
(***************************************************************************)
(* The tracker's assignment of users to private groups (tracker/src        *)
(* /message/consistenthash.h): a map from hashes to groups, in which every *)
(* group has some virtual nodes, and a user belongs to the group at the    *)
(* first hash from its own on, round the ring.  Hashes are 32 bits of a    *)
(* larger one, so virtual nodes of different groups may collide: the later *)
(* one replaces the earlier.                                               *)
(***************************************************************************)
EXTENDS Naturals, SequencesExt

CONSTANTS
  PrivateGroups,        \* groups that are put on the ring
  Users,
  VirtualNodes,         \* per group: the hashes of "group---0", "group---1" ...
  UserHash              \* per user: the hash of its name

ASSUME HashAssumption ==
  /\ VirtualNodes \in [PrivateGroups -> SUBSET Nat]
  /\ \A g \in PrivateGroups : VirtualNodes[g] # {}
  /\ UserHash \in [Users -> Nat]

NoGroup == ""

EmptyRing == [h \in {} |-> NoGroup]

AddNode(ring, g) ==
  [h \in DOMAIN ring \cup VirtualNodes[g] |->
    IF h \in VirtualNodes[g] THEN g ELSE ring[h]]

Least(S) == CHOOSE h \in S : \A k \in S : h <= k

PositionByIndex(ring, hash) ==
  SetToSortSeq(DOMAIN ring, <)[1 + (hash % Cardinality(DOMAIN ring))]

(* lower_bound, or begin() if there is nothing from hash on.               *)
Position(ring, hash) ==
  LET from == {h \in DOMAIN ring : h >= hash}
  IN  IF from # {} THEN Least(from) ELSE Least(DOMAIN ring)

GetGroup(ring, u) ==
  IF DOMAIN ring = {} THEN NoGroup ELSE ring[Position(ring, UserHash[u])]
=============================================================================
