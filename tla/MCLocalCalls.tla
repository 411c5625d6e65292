---------------------------- MODULE MCLocalCalls ----------------------------
(* Two calls to any one of the three daemons: one of any kind, and one of a few. *)
EXTENDS LocalCalls

CONSTANTS c1, c2

MCCalls == {c1, c2}
MCMade == (c1 :> AllKinds) @@ (c2 :> {"timeout", "publish", "location", "forward"})
=============================================================================
