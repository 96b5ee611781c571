------------------------------ MODULE MCPages ------------------------------
(***************************************************************************)
(* The five sections, with the people, notes and sources of the sample     *)
(* data.                                                                   *)
(***************************************************************************)
EXTENDS Pages

SampleNotes == {RefundNote, OnboardingNote, IncidentNote}
SamplePolicies == {NoPolicy, QueuePolicy[1], QueuePolicy[2], QueuePolicy[3]}
NoChanges == {}
=============================================================================
