---------------------------- MODULE MCSubscriptions ----------------------------
(***************************************************************************)
(* Subscriptions for TLC: an update of a form drops one event type and     *)
(* keeps or adds another.                                                  *)
(***************************************************************************)
EXTENDS Subscriptions

MCTypes == {"host", "biz"}
MCValues == {"one", "two"}
MCFormOf == [v \in MCValues |-> IF v = "one" THEN {"host"} ELSE {"biz", "host"}]
=============================================================================
