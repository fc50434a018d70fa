----------------------------- MODULE MCFrontend -----------------------------
(***************************************************************************)
(* Agent trees for the runs of Frontend.                                   *)
(***************************************************************************)
EXTENDS Frontend, TLC

\* One analysis agent, the child of the frontend.
OneAA == 1 :> 0

\* A high-level agent with two analysis agents.
TwoAAs == 1 :> 0 @@ 2 :> 1 @@ 3 :> 1

==============================================================================
