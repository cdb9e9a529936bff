---------------------------- MODULE MCHostProxy ---------------------------
(***************************************************************************)
(* Instances of HostProxy for TLC.                                         *)
(***************************************************************************)
EXTENDS HostProxy, TLC

CONSTANTS a, b

Edited(output, base, rest, secret) ==
  [output |-> output, base |-> base, rest |-> rest, secret |-> secret]

\* A document without a secret that routes nothing, and one that routes everything.
EditsMC == {Edited(FALSE, FALSE, a, FALSE), Edited(TRUE, TRUE, b, TRUE)}

Symmetry == Permutations(Procs)

=============================================================================
