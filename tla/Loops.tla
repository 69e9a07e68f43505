-------------------------------- MODULE Loops --------------------------------
(* Loops of the program that several modules have in common.                 *)
EXTENDS Naturals, Sequences

(* A loop over s that keeps the elements at some positions, in their order.  *)
Selected(s, positions) ==
    LET kept[i \in 0 .. Len(s)] ==
          IF i = 0 THEN <<>>
          ELSE IF i \in positions THEN Append(kept[i - 1], s[i]) ELSE kept[i - 1]
    IN  kept[Len(s)]

(* The elements of s that are in S, in their order.                          *)
Filtered(s, S) == Selected(s, {i \in 1 .. Len(s) : s[i] \in S})
=============================================================================
