------------------------------ MODULE Release ------------------------------
(***************************************************************************)
(* What an instruction set promises to whoever acts on it, with everything *)
(* about how it comes about left out: a numbered head that grows by one,   *)
(* versions that have been cleared - approved, and passed by a test run -  *)
(* one live version, and the versions the targets hold (the header of      *)
(* service.ts; ARCHITECTURE.md).  Only cleared text is sent anywhere: the  *)
(* head, or a version below the live one.  Service and Publication         *)
(* implement it.                                                           *)
(***************************************************************************)
EXTENDS Naturals

VARIABLES
  head,      \* the current version
  cleared,   \* the versions cleared so far
  live,      \* the live version, 0 for none
  held       \* the versions some target received last

Init == head = 1 /\ cleared = {} /\ live = 0 /\ held = {}

Edit ==
  /\ head' = head + 1
  /\ UNCHANGED <<cleared, live, held>>

Clear ==
  /\ \E v \in 1 .. head : cleared' = cleared \cup {v}
  /\ UNCHANGED <<head, live, held>>

\* A version reaches targets: all of them, some, or none.
Send(v) ==
  /\ v \in cleared
  /\ v = head \/ v < live
  /\ held' \in SUBSET (held \cup {v})

\* A delivery that does not make its version the live one.
Attempt ==
  /\ \E v \in cleared : Send(v)
  /\ UNCHANGED <<head, cleared, live>>

\* The head goes live, or the live version steps back.
GoLive ==
  /\ \E v \in cleared : Send(v) /\ live' = v
  /\ UNCHANGED <<head, cleared>>

Next == Edit \/ Clear \/ Attempt \/ GoLive

Spec == Init /\ [][Next]_<<head, cleared, live, held>>
=============================================================================
