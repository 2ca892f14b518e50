------------------------------- MODULE Lists -------------------------------
(***************************************************************************)
(* Lodash's filter of an array, as a recursive function: proofs can unfold *)
(* it.                                                                     *)
(***************************************************************************)
EXTENDS Integers, Sequences

(* The elements of s that are in K, in their order. *)
Keep(s, K) ==
  LET kept[n \in 0..Len(s)] ==
        IF n = 0 THEN <<>>
        ELSE IF s[n] \in K THEN Append(kept[n - 1], s[n]) ELSE kept[n - 1]
  IN  kept[Len(s)]

=============================================================================
