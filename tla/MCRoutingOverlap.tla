-------------------------- MODULE MCRoutingOverlap --------------------------
(***************************************************************************)
(* An instance of Routing for TLC in which programs overlap: the processes *)
(* begin MaxCommands programs between them.                                *)
(***************************************************************************)
EXTENDS Routing

CONSTANT MaxCommands  \* bound: programs begun in a behaviour

ASSUME BoundAssumption == MaxCommands \in Nat

VARIABLE begun

OneConfig == {[ingress |-> TRUE, dns |-> FALSE, output |-> TRUE]}

OverlappingInit == Init /\ begun = 0

Start(p) ==
  /\ begun < MaxCommands /\ begun' = begun + 1
  /\ ClearRules(p) \/ \E c \in Configs : ApplyRules(p, c)

Run(p) == (Command(p) \/ Fail(p)) /\ UNCHANGED begun

OverlappingNext == \E p \in Procs : Start(p) \/ Run(p)

OverlappingSpec == OverlappingInit /\ [][OverlappingNext]_<<vars, begun>>
=============================================================================
