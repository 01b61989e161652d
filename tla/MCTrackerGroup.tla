--------------------------- MODULE MCTrackerGroup ---------------------------
(* Three storage nodes in the public group and three private ones, of      *)
(* whose virtual nodes two have the same hash.  One user is mapped to that *)
(* place, one is after the last place.  Nodes and workers are alike.       *)
EXTENDS TrackerGroup

CONSTANTS n1, n2, n3, w1, w2, ann, bob

ThreeNodes == {n1, n2, n3}
TwoWorkers == {w1, w2}
ThreeGroups == {"group1", "group2", "group3"}
TwoUsers == {ann, bob}
Places ==
  [g \in ThreeGroups |->
    CASE g = "group1" -> {2, 6} [] g = "group2" -> {4, 6} [] OTHER -> {1, 5}]
HashOf == [u \in TwoUsers |-> IF u = ann THEN 5 ELSE 7]
Alike == Permutations(ThreeNodes) \cup Permutations(TwoWorkers)
=============================================================================
