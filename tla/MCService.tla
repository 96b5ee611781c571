----------------------------- MODULE MCService -----------------------------
(***************************************************************************)
(* Small instances of Service: one set through its life with a source that *)
(* changes, and one set with branches.                                     *)
(***************************************************************************)
EXTENDS Service

People == {[name |-> "dana", role |-> "expert"],
           [name |-> "ravi", role |-> "reviewer"],
           [name |-> "ops",  role |-> "admin"]}

HashSymmetry == Permutations(Hashes)

Editors == {[name |-> "dana", role |-> "expert"]}

Step(order, action, cited) ==
  [order |-> order, action |-> action, citations |-> [source \in cited |-> "unlinked"]]

Document(steps) == [title |-> "t", steps |-> steps, entries |-> <<>>]

Put1(id, step) == [kind |-> "put", id |-> id, step |-> step]

\* One step that cites the policy in either wording; a second one can come.
OneStep == Document("s1" :> Step(1, "a", {"policy"}))
OneNote == {[document |-> OneStep, approvals |-> 2]}
Rewordings == {Put1("s1", Step(1, action, {"policy"})) : action \in {"a", "b"}}

StrictWantsB(case, action) == case = "strict" => action = "b"

AdminWithinAnHour == [roles |-> {"admin"}, allowSelf |-> FALSE, hours |-> {1}]
OnePolicy == {AdminWithinAnHour}
TwoPolicies == {AdminWithinAnHour, [roles |-> {}, allowSelf |-> FALSE, hours |-> {}]}

\* Two steps, one of which cites the policy and may cease to; the other may be removed.
TwoSteps == Document(("s1" :> Step(1, "a", {"policy"})) @@ ("s2" :> Step(2, "a", {})))
OtherNote == {[document |-> TwoSteps, approvals |-> 1]}
Rewrites == {Put1("s1", Step(1, "b", {"policy"})), Put1("s1", Step(1, "b", {})),
             Put1("s2", Step(2, "b", {})),
             [kind |-> "remove", id |-> "s2"]}
=============================================================================
