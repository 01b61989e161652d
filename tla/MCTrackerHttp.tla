--------------------------- MODULE MCTrackerHttp ---------------------------
(* Two connections and two browsers; two users, one of them registered;    *)
(* three requests, any of which may be sent with a wrong password.         *)
EXTENDS TrackerHttp, TLC

CONSTANTS c1, c2, b1, b2, u1, u2, p1, p2

TwoConns == {c1, c2}
TwoBrowsers == {b1, b2}
TwoUsers == {u1, u2}
TwoPasswords == {p1, p2}
Paths == {"private", "logout"}
AllForms == [Path : {"login", "register"}, name : TwoUsers, password : TwoPasswords]
FirstRegistered == [u \in TwoUsers |-> IF u = u1 THEN p1 ELSE ""]
Alike == Permutations(TwoConns) \cup Permutations(TwoBrowsers)
=============================================================================
