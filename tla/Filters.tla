------------------------------ MODULE Filters ------------------------------
(***************************************************************************)
(* What a filter leaves of a list (Array.prototype.filter of the port).    *)
(***************************************************************************)
EXTENDS Naturals, Sequences

\* The elements of s whose place is in K, in their order.
Picked(s, K) ==
  LET picked[n \in 0 .. Len(s)] ==
        IF n = 0 THEN <<>>
        ELSE IF n \in K THEN Append(picked[n - 1], s[n]) ELSE picked[n - 1]
  IN  picked[Len(s)]
=============================================================================
