------------------------------ MODULE MCCampaign ------------------------------
(***************************************************************************)
(* The detailed campaign, in arrays of one job each: two combinations with *)
(* factors that differ by less than one, the first array submitted twice,  *)
(* the third one beyond the combinations.                                  *)
(***************************************************************************)
EXTENDS ExperimentCampaign

OneRun == <<0>>
TwoFactors == <<1900, 1950>>
OneInterval == <<300>>
ThreeArrays == <<0, 1, 2>>
FirstTwice == <<2, 1, 1>>

=============================================================================
