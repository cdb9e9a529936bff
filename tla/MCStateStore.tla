---------------------------- MODULE MCStateStore ----------------------------
(***************************************************************************)
(* An instance of StateStore for TLC, in two kinds of behaviours.  In the  *)
(* one, one process runs any number of commands from no document on, with  *)
(* one subscription.  In the other, processes overlap: they begin          *)
(* MaxCommands commands between them, from a document that holds a node    *)
(* with a rule, a subscription and a node of that subscription.            *)
(***************************************************************************)
EXTENDS StateStore

CONSTANTS
  MaxCommands,  \* bound: commands begun when processes overlap
  Solo          \* marks the behaviours of one process

VARIABLE begun  \* commands begun; Solo while one process runs as many as it likes

ASSUME BoundAssumption == MaxCommands \in Nat

Word == CHOOSE w \in Words : w # AutoTarget
Key1 == CHOOSE k \in Keys : TRUE
Key2 == CHOOSE k \in Keys \ {Key1} : TRUE
Sub1 == CHOOSE id \in SubIds : TRUE

SeedDoc ==
  [nodes |-> {[key |-> Key1, name |-> <<Word, 1>>, enabled |-> TRUE, source |-> Manual],
              [key |-> Key2, name |-> <<Word, 2>>, enabled |-> TRUE, source |-> Sub1]},
   rules |-> <<[match |-> CHOOSE m \in Matches : TRUE, target |-> <<Word, 1>>]>>,
   acl   |-> <<>>,
   subs  |-> {[id |-> Sub1, url |-> CHOOSE u \in Urls : TRUE, enabled |-> TRUE]}]

SeededInit ==
  /\ file = "doc" /\ disk = SeedDoc
  /\ cached = {Sub1} /\ issued = {Sub1}
  /\ pc = [p \in Procs |-> "idle"]
  /\ mem = [p \in Procs |-> EmptyDoc]
  /\ source = [p \in Procs |-> Manual]
  /\ rows = [p \in Procs |-> <<>>]
  /\ todo = [p \in Procs |-> {}]
  /\ after = [p \in Procs |-> "idle"]
  /\ begun = 0

SoloInit == Init /\ begun = Solo

MCInit == SeededInit \/ SoloInit

\* One process, and one subscription of one URL.
SoloStep ==
  /\ begun = Solo
  /\ LET p == CHOOSE p \in Procs : TRUE
     IN /\ Load(p) \/ Create(p) \/ Command(p) \/ Continue(p) \/ Crash(p)
        /\ \A s \in mem'[p].subs : s.id = Sub1 /\ s.url = CHOOSE u \in Urls : TRUE
  /\ UNCHANGED begun

Begin(p) ==
  /\ begun # Solo /\ begun < MaxCommands /\ begun' = begun + 1
  /\ Load(p) \/ Create(p)

Proceed(p) ==
  /\ begun # Solo
  /\ Command(p) \/ Continue(p) \/ Crash(p)
  /\ UNCHANGED begun

MCNext == SoloStep \/ \E p \in Procs : Begin(p) \/ Proceed(p)

MCSpec == MCInit /\ [][MCNext]_<<vars, begun>>
=============================================================================
