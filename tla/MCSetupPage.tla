------------------------------ MODULE MCSetupPage ------------------------------
(***************************************************************************)
(* What may go wrong in the setup that TLC explores.                         *)
(***************************************************************************)
EXTENDS SetupPage

SetupLife == [event \in Events |-> 1]
=============================================================================
