----------------------------- MODULE Filtering ------------------------------
(***************************************************************************)
(* The loop that runs through a slice and keeps some of its elements:      *)
(* entries of a rule set, nodes that no subscription owns, the rules of    *)
(* one chain.                                                              *)
(***************************************************************************)
EXTENDS Integers, SequencesExt

\* The sequence s without its elements in X, as a loop that appends the others builds it.
Without(s, X) ==
  LET kept[i \in 0..Len(s)] ==
        IF i = 0 THEN <<>> ELSE IF s[i] \in X THEN kept[i-1] ELSE Append(kept[i-1], s[i])
  IN  kept[Len(s)]
=============================================================================
