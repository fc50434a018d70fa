------------------------------ MODULE MCSearch ------------------------------
(***************************************************************************)
(* A search space for model checking: three parameters, of which the       *)
(* second has two values and the others one.  Keeping two results is more  *)
(* than the first step has, and lets the second one keep both of its       *)
(* values for the third.                                                   *)
(***************************************************************************)
EXTENDS IndividualSearch

MCSpace == <<"a", "b", "c">>

MCRanges == [a |-> [from |-> 0, to |-> 0, step |-> 1],
             b |-> [from |-> 2, to |-> 5, step |-> 2],
             c |-> [from |-> 7, to |-> 9, step |-> 4]]
=============================================================================
