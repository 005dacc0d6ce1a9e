-------------------------- MODULE MCTrainingStream --------------------------
(***************************************************************************)
(* Instances of TrainingStream for TLC: two listeners for metrics and      *)
(* disconnects, of which the first raises.                                 *)
(***************************************************************************)
EXTENDS TrainingStream

CONSTANTS bad, good

MCListeners == {bad, good}
MCKindsOf   == [l \in MCListeners |-> {"metrics", "disconnect"}]
MCSetup     == [kind \in Kinds |-> IF kind = "state" THEN <<>> ELSE <<bad>>]
==============================================================================
