-------------------------------- MODULE MCAge --------------------------------
(***************************************************************************)
(* An instance of AgeOfInformation: ten ticks, a position every other      *)
(* tick, receptions in between.                                            *)
(***************************************************************************)
EXTENDS AgeOfInformation

NearOrFar == {1, 2}

=============================================================================
