----------------------------- MODULE MCConsole -----------------------------
(***************************************************************************)
(* An instance of Console for TLC: of all its processes one crew of two is *)
(* at work, two pages from rest, or a page and a shell that has begun.     *)
(***************************************************************************)
EXTENDS Console

CONSTANTS a, b, d  \* nodes: two manual ones and one of the subscription

VARIABLE crew

Shell == CHOOSE s \in Shells : TRUE
Page == CHOOSE p \in Pages : TRUE

\* Two manual nodes, or one before or behind a node of the subscription.
MCStart == {<<[id |-> a, enabled |-> TRUE], [id |-> b, enabled |-> FALSE]>>,
            <<[id |-> a, enabled |-> TRUE], [id |-> d, enabled |-> TRUE]>>,
            <<[id |-> d, enabled |-> TRUE], [id |-> a, enabled |-> TRUE]>>}

\* The shell has read the document to switch the last node, and not saved it yet.
LateInit ==
  /\ stored \in {doc \in [nodes: Start, rules: {{}}] : Known(doc.nodes) \subseteq Manual}
  /\ files = FilesOf(stored)
  /\ mutex = Nobody
  /\ at = [p \in Procs |-> IF p = Shell THEN "edit" ELSE "idle"]
  /\ call = [p \in Procs |-> IF p = Shell THEN "set" ELSE "list"]
  /\ pick = [p \in Procs |-> IF p = Shell THEN 2 ELSE 0]
  /\ mem = [p \in Procs |-> IF p = Shell THEN stored ELSE Empty]
  /\ shown = [p \in Procs |-> IF p = Shell THEN stored.nodes ELSE <<>>]
  /\ left = Commands
  /\ crossed = {} /\ moved = {}

PagesInit == ConsoleInit /\ ~(Known(stored.nodes) \subseteq Manual) /\ crew = Pages
ShellInit == LateInit /\ crew = {Page, Shell}

MCInit == PagesInit \/ ShellInit

MCNext ==
  /\ \/ \E p \in crew : List(p) \/ Command(p) \/ OnNode(p) \/ Progress(p)
     \/ \E p \in Pages : Body(p) \/ Lock(p) \/ RuleBody(p)
     \/ ServerDies
  /\ UNCHANGED crew

MCSpec == MCInit /\ [][MCNext]_<<cvars, crew>> /\ Fairness
=============================================================================
