----------------------------- MODULE MCDapSession ------------------------------
(* Instances of DapSession for TLC. *)
EXTENDS DapSession

TwoLists   == {<<"l1">>, <<"l2", "l1">>}
ThreeLists == {<<>>, <<"l1">>, <<"l2", "l1">>}
=============================================================================
