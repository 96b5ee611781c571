---------------------------- MODULE MCPublication ----------------------------
(***************************************************************************)
(* Small instances of Publication: one expert, one reviewer who suffices,  *)
(* two targets in the order of main.default_targets.                       *)
(***************************************************************************)
EXTENDS Publication

MCPrincipals == {[name |-> "ann",  role |-> "expert"],
                 [name |-> "rita", role |-> "reviewer"]}
MCNoteAuthor == "ann"

MCPolicies == {[approvals |-> 1, roles |-> {}, allowSelf |-> FALSE, deadline |-> FALSE]}

MCTargets == <<"webhook", "jira">>
=============================================================================
