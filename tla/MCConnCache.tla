---------------------------- MODULE MCConnCache ----------------------------
(***************************************************************************)
(* ConnCache on small instances: two user mappings, of one server or of    *)
(* two servers, and two local transactions.                                *)
(***************************************************************************)
EXTENDS ConnCache, TLC

CONSTANTS m1, m2, s1, s2

TwoServers == (m1 :> s1) @@ (m2 :> s2)
OneServer  == [k \in {m1, m2} |-> s1]
=============================================================================
