---------------------------- MODULE MCRulesRepo ---------------------------
(***************************************************************************)
(* Instances of RulesRepo for TLC.  Two rule sets with the same type and   *)
(* target share an entry; one line is a comment to ReadEntries and a legal *)
(* value to ValidateEntry, as "#x" is for a keyword.                       *)
(***************************************************************************)
EXTENDS RulesRepo

CONSTANTS first, second, d1, d2, hash, bad

ValuesMC == {d1, d2, hash, bad}
OrderMC == <<first, second>>
KindMC == [r \in {first, second} |-> "DOMAIN-KEYWORD,PROXY"]
AcceptedMC == [r \in {first, second} |-> {d1, d2, hash}]
TailsMC == [v \in ValuesMC |-> CASE v = hash -> {d1} [] v = d2 -> {d1, bad} [] OTHER -> {bad}]
ShippedMC == [r \in {first, second} |-> IF r = first THEN <<hash, d1, d2>> ELSE <<d1>>]

Symmetry == Permutations(Procs)

=============================================================================
