-------------------------- MODULE MCStateTransitions --------------------------
(***************************************************************************)
(* Values of the constants of StateTransitions: three asset locks of two   *)
(* and three credits, fees of one and two, so that an identity pays for a  *)
(* few transitions, cannot pay for one more and can be topped up.          *)
(***************************************************************************)
EXTENDS StateTransitions, TLC

CONSTANTS o1, o2, o3

MCOutpoints == {o1, o2, o3}
MCCredits == o1 :> 3 @@ o2 :> 2 @@ o3 :> 2

=============================================================================
