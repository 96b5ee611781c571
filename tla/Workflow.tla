------------------------------ MODULE Workflow ------------------------------
(***************************************************************************)
(* The approval state machine of an instruction set: the states, the       *)
(* transition table and the set of states in which a document may change   *)
(* (expertloop/workflow/state.py, models.py; web/src/sim/state.ts).        *)
(***************************************************************************)

State == {"draft", "in_review", "changes_requested",
          "approved", "published", "retired"}

Transitions ==
  [submit              |-> [from |-> "draft",             to |-> "in_review"],
   resubmit            |-> [from |-> "changes_requested", to |-> "in_review"],
   request_changes     |-> [from |-> "in_review", to |-> "changes_requested"],
   approve             |-> [from |-> "in_review", to |-> "approved"],
   edit_after_approval |-> [from |-> "approved",  to |-> "draft"],
   publish             |-> [from |-> "approved",  to |-> "published"],
   revise              |-> [from |-> "published", to |-> "draft"],
   retire              |-> [from |-> "published", to |-> "retired"]]

\* Variant: a document under review may change too.
LiveStates == State \ {"retired"}

EditableStates == {"draft", "changes_requested", "approved", "published"}

\* Variant: the action is looked up, the current state is not compared.
KnownAction(action, current) == action \in DOMAIN Transitions

\* assert_transition(action, current): allowed from the action's source state
\* only; every other request is an IllegalTransition and changes nothing.
CanTransition(action, current) == Transitions[action].from = current

Target(action) == Transitions[action].to

\* The pairs of states the table connects.
TransitionPairs ==
  {<<Transitions[a].from, Transitions[a].to>> : a \in DOMAIN Transitions}
=============================================================================
