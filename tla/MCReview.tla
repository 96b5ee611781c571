------------------------------ MODULE MCReview ------------------------------
(***************************************************************************)
(* Small instances of Review: a note by an expert, two people who may      *)
(* review it, one of them holding a reviewer's and an administrator's key  *)
(* (an administrator may also edit).                                       *)
(***************************************************************************)
EXTENDS Review, TLC

CONSTANTS s1, s2

MCPrincipals == {[name |-> "ann",  role |-> "expert"],
                 [name |-> "rita", role |-> "reviewer"],
                 [name |-> "rita", role |-> "admin"],
                 [name |-> "adam", role |-> "admin"]}

\* Submit requests differ in nothing but what they read.
SubmitSymmetry == Permutations({s1, s2})

MCNoteAuthor == "ann"

\* One approval suffices, the author's included, no deadline; two people with
\* a reviewer among them, authors included; or two with an administrator among
\* them and no author.  The last two by a deadline.
Lenient == [approvals |-> 1, roles |-> {}, allowSelf |-> TRUE, deadline |-> FALSE]
TwoEyes == [approvals |-> 2, roles |-> {"reviewer"}, allowSelf |-> TRUE, deadline |-> TRUE]
Strict  == [approvals |-> 2, roles |-> {"admin"}, allowSelf |-> FALSE, deadline |-> TRUE]

AllPolicies == {Lenient, TwoEyes, Strict}
TwoPolicies == {Lenient, Strict}
=============================================================================
