--------------------------- MODULE ConsoleProofs ---------------------------
(***************************************************************************)
(* Proofs about Console for any pages, shells, nodes and rules: the mutex  *)
(* is held by exactly the request at a locked stage, and from it that a    *)
(* render nobody outside its lock cuts across leaves files of one document.*)
(* Then the node lists: no document lists a node twice, and as long as a   *)
(* list is not overtaken, the document still has its nodes at the same     *)
(* places (Overtaken), so that a command changes the node it was asked to. *)
(***************************************************************************)
EXTENDS Console, FilteringProofs

\* What the steps rely on of the shape of the state.
Shape ==
  /\ at \in [Procs -> Stages]
  /\ DOMAIN mem = Procs /\ mem = [p \in Procs |-> mem[p]]
  /\ files = [manual |-> files.manual, rules |-> files.rules, config |-> files.config]

Exclusive ==
  /\ mutex \in Pages \cup {Nobody}
  /\ \A p \in Pages : mutex = p <=> at[p] \in Locked

\* Half-way through a render that nobody has cut across, the files written so far
\* are of the document it renders.
WholeSoFar ==
  \A p \in Procs \ crossed :
    /\ at[p] \in {"rules", "config"} => files.manual = EnabledNodes(mem[p])
    /\ at[p] = "config" => files.rules = mem[p].rules

IInv == Shape /\ Exclusive /\ WholeSoFar

THEOREM Initially == ConsoleInit => IInv
<1> SUFFICES ASSUME ConsoleInit PROVE IInv
  OBVIOUS
<1>1. Shape
  BY DEF Shape, ConsoleInit, FilesOf, Stages
<1>2. Exclusive
  BY ConsoleAssumption DEF Exclusive, ConsoleInit, Locked, Procs
<1>3. WholeSoFar
  BY DEF WholeSoFar, ConsoleInit
<1> QED
  BY <1>1, <1>2, <1>3 DEF IInv

\* A process that goes anywhere but further into a render, and writes no file.
LEMMA Elsewhere ==
  ASSUME IInv, NEW p \in Procs, NEW stage \in Stages \ {"rules", "config"},
         at' = [at EXCEPT ![p] = stage],
         mem' = mem \/ \E doc : mem' = [mem EXCEPT ![p] = doc],
         files'.manual = files.manual, files'.rules = files.rules,
         crossed \ {p} \subseteq crossed'
  PROVE  WholeSoFar'
<1> SUFFICES ASSUME NEW q \in Procs \ crossed', at[q]' \in {"rules", "config"}
             PROVE  /\ files'.manual = EnabledNodes(mem[q])'
                    /\ at[q]' = "config" => files'.rules = mem[q]'.rules
  BY DEF WholeSoFar
<1>1. q # p /\ q \notin crossed /\ at[q]' = at[q] /\ mem[q]' = mem[q]
  BY DEF IInv, Shape
<1> QED
  BY <1>1 DEF IInv, WholeSoFar, EnabledNodes

\* The mutex follows the stage of the page that moves.
LEMMA Holding ==
  ASSUME IInv, NEW p \in Procs, NEW stage \in Stages,
         at' = [at EXCEPT ![p] = stage],
         \/ mutex' = mutex /\ (p \in Pages => (stage \in Locked <=> at[p] \in Locked))
         \/ mutex' = Nobody /\ mutex \in {p, Nobody} /\ stage \notin Locked
         \/ mutex' = p /\ p \in Pages /\ mutex = Nobody /\ stage \in Locked
  PROVE  Exclusive'
<1>1. at' \in [Procs -> Stages] /\ \A q \in Procs \ {p} : at'[q] = at[q]
  BY DEF IInv, Shape
<1>2. at'[p] = stage /\ Pages \subseteq Procs /\ Nobody \notin Pages
  BY ConsoleAssumption DEF IInv, Shape, Procs
<1>3. Exclusive
  BY DEF IInv
<1>4. CASE mutex' = mutex /\ (p \in Pages => (stage \in Locked <=> at[p] \in Locked))
  BY <1>1, <1>2, <1>3, <1>4 DEF Exclusive
<1>5. CASE mutex' = Nobody /\ mutex \in {p, Nobody} /\ stage \notin Locked
  BY <1>1, <1>2, <1>3, <1>5 DEF Exclusive
<1>6. CASE mutex' = p /\ p \in Pages /\ mutex = Nobody /\ stage \in Locked
  BY <1>1, <1>2, <1>3, <1>6 DEF Exclusive
<1> QED
  BY <1>4, <1>5, <1>6

\* Two processes past their lock at once do not share it.
LEMMA PastLock ==
  ASSUME IInv, NEW p \in Procs, NEW q \in Procs, p # q,
         at[p] \in Locked, at[q] \in Locked
  PROVE  Apart(p, q)
<1>1. SUFFICES ASSUME p \in Pages, q \in Pages PROVE FALSE
  BY DEF Apart
<1> QED
  BY <1>1 DEF IInv, Exclusive

\* A process that moves to a stage outside a render keeps everything.
LEMMA Moves ==
  ASSUME IInv, NEW p \in Procs, NEW stage \in Stages \ {"rules", "config"},
         at' = [at EXCEPT ![p] = stage],
         mem' = mem \/ \E doc : mem' = [mem EXCEPT ![p] = doc],
         files' = files \/ \E c : files' = [files EXCEPT !.config = c],
         crossed \ {p} \subseteq crossed',
         \/ mutex' = mutex /\ (p \in Pages => (stage \in Locked <=> at[p] \in Locked))
         \/ mutex' = Nobody /\ mutex \in {p, Nobody} /\ stage \notin Locked
         \/ mutex' = p /\ p \in Pages /\ mutex = Nobody /\ stage \in Locked
  PROVE  IInv'
<1>1. Shape'
  BY DEF IInv, Shape
<1>2. files'.manual = files.manual /\ files'.rules = files.rules
  BY DEF IInv, Shape
<1>3. Exclusive'
  BY Holding
<1>4. WholeSoFar'
  BY <1>2, Elsewhere
<1> QED
  BY <1>1, <1>3, <1>4 DEF IInv

LEMMA Begins ==
  ASSUME IInv, NEW p \in Procs, List(p) \/ Command(p) \/ OnNode(p)
  PROVE  IInv'
<1>1. PICK c \in Calls : Ask(p, c)
  BY DEF List, Command, OnNode, Calls
<1>2. mutex' = mutex /\ mem' = mem /\ files' = files /\ crossed' = crossed
  BY DEF List, Command, OnNode, docs, history
<1>3. Entry(p, c) \in Stages \ {"rules", "config"}
        /\ (p \in Pages => Entry(p, c) \notin Locked) /\ at[p] \notin Locked
  BY <1>1, ConsoleAssumption DEF Entry, Ask, Stages, Locked
<1>4. at' = [at EXCEPT ![p] = Entry(p, c)]
  BY <1>1 DEF Ask, Goto
<1> QED
  BY <1>2, <1>3, <1>4, Moves

LEMMA Enters ==
  ASSUME IInv, NEW p \in Pages, Body(p) \/ Lock(p) \/ RuleBody(p)
  PROVE  IInv'
<1> p \in Procs
  BY DEF Procs
<1>1. files' = files /\ crossed' = crossed
  BY DEF Body, Lock, RuleBody, docs, history
<1>2. CASE Body(p)
  <2>1. PICK stage \in {"lock", "idle"} : at' = [at EXCEPT ![p] = stage]
    BY <1>2 DEF Body, Goto
  <2>2. stage \in Stages \ {"rules", "config"} /\ stage \notin Locked /\ at[p] \notin Locked
    BY <1>2, <2>1 DEF Body, Stages, Locked
  <2> QED
    BY <1>1, <1>2, <2>1, <2>2, Moves DEF Body
<1>3. CASE Lock(p)
  <2>1. PICK stage \in {"rulebody", "load"} : at' = [at EXCEPT ![p] = stage]
    BY <1>3 DEF Lock, Goto
  <2>2. stage \in Stages \ {"rules", "config"} /\ stage \in Locked
    BY <2>1 DEF Stages, Locked
  <2> QED
    BY <1>1, <1>3, <2>1, <2>2, Moves DEF Lock
<1>4. CASE RuleBody(p)
  <2>1. PICK stage \in {"load", "failed"} : at' = [at EXCEPT ![p] = stage]
    BY <1>4 DEF RuleBody, Goto, Over
  <2>2. stage \in Stages \ {"rules", "config"} /\ stage \in Locked /\ at[p] \in Locked
    BY <1>4, <2>1 DEF RuleBody, Stages, Locked
  <2>3. mem' = mem \/ \E doc : mem' = [mem EXCEPT ![p] = doc]
    BY <1>4 DEF RuleBody, Over
  <2> QED
    BY <1>1, <1>4, <2>1, <2>2, <2>3, Moves DEF RuleBody
<1> QED
  BY <1>2, <1>3, <1>4

\* The steps of a command that write no provider and no rule file.
LEMMA Works ==
  ASSUME IInv, NEW p \in Procs,
         Load(p) \/ Edit(p) \/ Apply(p) \/ WriteConfig(p) \/ Fails(p) \/ Answer(p)
  PROVE  IInv'
<1>1. mem' = mem \/ \E doc : mem' = [mem EXCEPT ![p] = doc]
  BY DEF Load, Edit, Apply, WriteConfig, Fails, Answer, Over
<1>2. files' = files \/ \E c : files' = [files EXCEPT !.config = c]
  BY DEF Load, Edit, Apply, WriteConfig, Fails, Answer, docs
<1>3. crossed \ {p} \subseteq crossed'
  BY DEF Load, Edit, Apply, WriteConfig, Fails, Answer, CutsAcross, history
<1>4. CASE Answer(p)
  <2>1. at' = [at EXCEPT ![p] = "idle"] /\ "idle" \in Stages \ {"rules", "config"}
          /\ "idle" \notin Locked /\ at[p] \in Locked
    BY <1>4 DEF Answer, Goto, Stages, Locked
  <2>2. CASE mutex = p
    BY <1>1, <1>2, <1>3, <1>4, <2>1, <2>2, Moves DEF Answer
  <2>3. CASE mutex # p
    <3>1. p \notin Pages
      BY <2>1, <2>3 DEF IInv, Exclusive
    <3> QED
      BY <1>1, <1>2, <1>3, <1>4, <2>1, <2>3, <3>1, Moves DEF Answer
  <2> QED
    BY <2>2, <2>3
<1>5. CASE ~Answer(p)
  <2>1. mutex' = mutex
    BY <1>5 DEF Load, Edit, Apply, WriteConfig, Fails
  <2>2. PICK stage \in {"answer", "failed", "manual", "edit", "apply"} : at' = [at EXCEPT ![p] = stage]
    BY <1>5 DEF Load, Edit, Apply, WriteConfig, Fails, Over, Goto
  <2>3. stage \in Stages \ {"rules", "config"} /\ stage \in Locked
    BY <2>2 DEF Stages, Locked
  <2>4. at[p] \in Locked
    BY <1>5 DEF Load, Edit, Apply, WriteConfig, Fails, Stages, Locked
  <2> QED
    BY <1>1, <1>2, <1>3, <2>1, <2>2, <2>3, <2>4, Moves
<1> QED
  BY <1>4, <1>5

\* Writing a file: whoever else is half-way through a render is cut across, or would
\* hold the lock as well.
LEMMA Writes ==
  ASSUME IInv, NEW p \in Procs, WriteManual(p) \/ WriteRules(p)
  PROVE  IInv'
<1> DEFINE stage == IF at[p] = "manual" THEN "rules" ELSE "config"
<1>1. at' = [at EXCEPT ![p] = stage] /\ stage \in Stages /\ stage \in Locked /\ at[p] \in Locked
  BY DEF WriteManual, WriteRules, Goto, Stages, Locked
<1>2. mutex' = mutex /\ mem' = mem
  BY DEF WriteManual, WriteRules
<1>3. Shape'
  BY <1>1, <1>2 DEF IInv, Shape, WriteManual, WriteRules
<1>4. Exclusive'
  BY <1>1, <1>2, Holding
<1>5. ASSUME NEW q \in Procs \ crossed', at'[q] \in {"rules", "config"}
      PROVE  q = p
  <2>1. SUFFICES ASSUME q # p PROVE FALSE
    OBVIOUS
  <2>2. at[q] \in {"rules", "config"} /\ at[q] \in Locked
    BY <1>1, <1>5, <2>1 DEF IInv, Shape, Locked, Stages
  <2>3. Apart(p, q)
    BY <1>1, <2>1, <2>2, PastLock
  <2> QED
    BY <1>5, <2>2, <2>3 DEF WriteManual, WriteRules, CutsAcross
<1>6. at'[p] = stage
  BY <1>1 DEF IInv, Shape
<1>7. CASE WriteManual(p)
  <2>1. files'.manual = EnabledNodes(mem[p]) /\ at'[p] = "rules"
    BY <1>3, <1>6, <1>7 DEF IInv, Shape, WriteManual
  <2> QED
    BY <1>2, <1>3, <1>4, <1>5, <1>7, <2>1 DEF IInv, WholeSoFar, EnabledNodes
<1>8. CASE WriteRules(p)
  <2>1. files'.manual = files.manual /\ files'.rules = mem[p].rules /\ at'[p] = "config"
    BY <1>3, <1>6, <1>8 DEF IInv, Shape, WriteRules
  <2>2. p \notin crossed' => files.manual = EnabledNodes(mem[p])
    BY <1>8 DEF IInv, WholeSoFar, WriteRules, CutsAcross
  <2> QED
    BY <1>2, <1>3, <1>4, <1>5, <1>8, <2>1, <2>2 DEF IInv, WholeSoFar, EnabledNodes
<1> QED
  BY <1>7, <1>8

LEMMA Dying == IInv /\ ServerDies => IInv'
<1> SUFFICES ASSUME IInv, ServerDies PROVE IInv'
  OBVIOUS
<1>1. Shape'
  BY DEF IInv, Shape, ServerDies, docs, Stages
<1>2. Exclusive'
  BY ConsoleAssumption DEF IInv, Exclusive, ServerDies, Locked, Procs
<1>3. WholeSoFar'
  <2>1. SUFFICES ASSUME NEW q \in Procs \ crossed', at'[q] \in {"rules", "config"}
                 PROVE  q \notin Pages
    BY DEF IInv, WholeSoFar, ServerDies, EnabledNodes, docs
  <2> QED
    BY <2>1 DEF ServerDies
<1> QED
  BY <1>1, <1>2, <1>3 DEF IInv

THEOREM Preserved == IInv /\ [ConsoleNext]_cvars => IInv'
<1> SUFFICES ASSUME IInv, [ConsoleNext]_cvars PROVE IInv'
  OBVIOUS
<1>1. CASE UNCHANGED cvars
  BY <1>1 DEF cvars, docs, work, history, IInv, Shape, Exclusive, WholeSoFar, EnabledNodes
<1>2. ASSUME NEW p \in Procs, List(p) \/ Command(p) \/ OnNode(p) \/ Progress(p)
      PROVE  IInv'
  BY <1>2, Begins, Works, Writes DEF Progress
<1>3. ASSUME NEW p \in Pages, Body(p) \/ Lock(p) \/ RuleBody(p)
      PROVE  IInv'
  BY <1>3, Enters
<1> QED
  BY <1>1, <1>2, <1>3, Dying DEF ConsoleNext

\* The mutex of the web server is held by exactly the request that is at a locked
\* stage: no two requests run their commands at once (runLocked, handleRules).
THEOREM OneRequestAtATime == ConsoleSpec => []Exclusive
<1>1. IInv => Exclusive
  BY DEF IInv
<1> QED
  BY <1>1, Initially, Preserved, PTL DEF ConsoleSpec

\* For any number of pages and shells, a render that no process outside its lock has
\* cut across leaves runtime files of one document (RenderFiles).
THEOREM WholeRenders == ConsoleSpec => RendersWhole
<1>1. IInv /\ [ConsoleNext]_cvars
        => \A p \in Procs : WriteConfig(p) /\ p \notin crossed => files' = FilesOf(mem[p])
  <2> SUFFICES ASSUME IInv, NEW p \in Procs, WriteConfig(p), p \notin crossed
               PROVE  files' = FilesOf(mem[p])
    OBVIOUS
  <2>1. files.manual = EnabledNodes(mem[p]) /\ files.rules = mem[p].rules
    BY DEF IInv, WholeSoFar, WriteConfig
  <2>2. files' = [manual |-> files.manual, rules |-> files.rules,
                  config |-> [provider |-> EnabledNodes(mem[p]) # {}, rules |-> files.rules]]
    BY DEF IInv, Shape, WriteConfig
  <2> QED
    BY <2>1, <2>2 DEF FilesOf
<1> QED
  BY <1>1, Initially, Preserved, PTL DEF ConsoleSpec, RendersWhole
-----------------------------------------------------------------------------
(* The lists of nodes *)

\* The nodes of a are the first of b, whether enabled or not.
Heads(a, b) == Len(a) <= Len(b) /\ \A i \in DOMAIN a : a[i].id = b[i].id

LEMMA DistinctNodes ==
  ASSUME NEW nodes \in Seq(Node)
  PROVE  Distinct(nodes) <=> /\ IsInjective(nodes)
                             /\ \A m, n \in ToSet(nodes) : m.id = n.id => m = n
BY DEF Distinct, IsInjective, ToSet

LEMMA NoNodes == <<>> \in Seq(Node) /\ Distinct(<<>>) /\ Empty \in Doc
<1>1. <<>> \in Seq(Node)
  BY EmptySeq
<1>2. Distinct(<<>>)
  BY DEF Distinct, IsInjective
<1> QED
  BY <1>1, <1>2 DEF Empty, Doc

LEMMA ImportedOK ==
  ASSUME NEW nodes \in Seq(Node), Distinct(nodes), NEW id \in Manual
  PROVE  /\ Imported(nodes, id) \in Seq(Node) /\ Distinct(Imported(nodes, id))
         /\ Heads(nodes, Imported(nodes, id))
<1>1. CASE id \in Known(nodes)
  BY <1>1 DEF Imported, Heads
<1>2. CASE id \notin Known(nodes)
  <2> DEFINE n == [id |-> id, enabled |-> FALSE]
  <2>1. n \in Node /\ n.id = id
    BY DEF Node
  <2> HIDE DEF n
  <2>2. Imported(nodes, id) = Append(nodes, n)
    BY <1>2 DEF Imported, n
  <2>3. n \notin ToSet(nodes) /\ \A m \in ToSet(nodes) : m.id # id
    BY <1>2, <2>1 DEF Known
  <2>4. /\ Append(nodes, n) \in Seq(Node) /\ ToSet(Append(nodes, n)) = ToSet(nodes) \union {n}
        /\ IsInjective(Append(nodes, n))
    BY <2>1, <2>3, AppendOK, DistinctNodes
  <2>5. Distinct(Append(nodes, n))
    BY <2>1, <2>3, <2>4, DistinctNodes
  <2>6. Heads(nodes, Append(nodes, n))
    BY <2>1 DEF Heads
  <2> QED
    BY <2>2, <2>4, <2>5, <2>6
<1> QED
  BY <1>1, <1>2

LEMMA RefreshedOK ==
  ASSUME NEW nodes \in Seq(Node), Distinct(nodes), NEW fetched \in SUBSET Provided
  PROVE  Refreshed(nodes, fetched) \in Seq(Node) /\ Distinct(Refreshed(nodes, fetched))
<1> DEFINE theirs == [id: Provided, enabled: BOOLEAN]
           new == {[id |-> id, enabled |-> TRUE] : id \in fetched}
           a == Without(nodes, theirs)
           b == SetToSeq(new)
<1>0. \A n \in new : \E id \in fetched : n = [id |-> id, enabled |-> TRUE] /\ n.id = id
  OBVIOUS
<1>1. IsFiniteSet(new)
  <2> DEFINE g == [id \in fetched |-> [id |-> id, enabled |-> TRUE]]
  <2>1. g \in Surjection(fetched, new)
    BY DEF Surjection
  <2>2. IsFiniteSet(fetched)
    BY ConsoleAssumption, FS_Subset
  <2> HIDE DEF new, g
  <2> QED
    BY <2>1, <2>2, FS_Surjection
<1>2. ASSUME NEW n \in new PROVE n \in Node /\ n \in theirs
  <2>1. PICK id \in fetched : n = [id |-> id, enabled |-> TRUE]
    BY <1>0
  <2>2. id \in Provided
    OBVIOUS
  <2> QED
    BY <2>1, <2>2 DEF Node
<1>3. a \in Seq(Node) /\ ToSet(a) = ToSet(nodes) \ theirs /\ IsInjective(a)
  BY WithoutOK, DistinctNodes
<1>4. b \in Seq(new) /\ ToSet(b) = new /\ IsInjective(b)
  BY <1>1, ListedOK
<1>5. b \in Seq(Node)
  <2> HIDE DEF b, new
  <2> QED
    BY <1>2, <1>4
<1>6. \A m, n \in ToSet(a) : m.id = n.id => m = n
  BY <1>3, DistinctNodes
<1>7. \A m, n \in new : m.id = n.id => m = n
  <2> HIDE DEF new
  <2> QED
    BY <1>0
<1>8. \A m \in ToSet(a) : m.id \notin Provided
  <2>1. \A m \in ToSet(nodes) : m \in Node
    BY DEF ToSet
  <2> HIDE DEF a
  <2> QED
    BY <1>3, <2>1 DEF Node
<1>9. \A n \in new : n.id \in Provided
  OBVIOUS
<1> HIDE DEF theirs, new, a, b
<1>10. a \o b \in Seq(Node) /\ ToSet(a \o b) = ToSet(a) \union ToSet(b) /\ IsInjective(a \o b)
  <2>1. ToSet(a) \cap ToSet(b) = {}
    BY <1>4, <1>8, <1>9
  <2> QED
    BY <1>3, <1>4, <1>5, <2>1, ConcatOK
<1>11. Distinct(a \o b)
  <2>1. \A m, n \in ToSet(a \o b) : m.id = n.id => m = n
    BY <1>4, <1>6, <1>7, <1>8, <1>9, <1>10
  <2> QED
    BY <1>10, <2>1, DistinctNodes
<1> QED
  BY <1>10, <1>11 DEF Refreshed, a, b, new, theirs

LEMMA RemovedOK ==
  ASSUME NEW nodes \in Seq(Node), Distinct(nodes), NEW i \in DOMAIN nodes
  PROVE  /\ RemoveAt(nodes, i) \in Seq(Node) /\ Distinct(RemoveAt(nodes, i))
         /\ ToSet(RemoveAt(nodes, i)) = ToSet(nodes) \ {nodes[i]}
<1>1. RemoveAt(nodes, i) = Without(nodes, {nodes[i]})
  BY WithoutAt, DistinctNodes
<1> DEFINE a == Without(nodes, {nodes[i]})
<1>2. a \in Seq(Node) /\ ToSet(a) = ToSet(nodes) \ {nodes[i]} /\ IsInjective(a)
  BY WithoutOK, DistinctNodes
<1> HIDE DEF a
<1>3. Distinct(a)
  BY <1>2, DistinctNodes
<1> QED
  BY <1>1, <1>2, <1>3 DEF a

\* SetNodeEnabled.
Switched(nodes, i, e) == [nodes EXCEPT ![i].enabled = e]

LEMMA SwitchedOK ==
  ASSUME NEW nodes \in Seq(Node), Distinct(nodes), NEW i \in DOMAIN nodes, NEW e \in BOOLEAN
  PROVE  LET b == Switched(nodes, i, e)
         IN  /\ b \in Seq(Node) /\ Distinct(b) /\ Heads(nodes, b) /\ DOMAIN b = DOMAIN nodes
             /\ b[i].id = nodes[i].id /\ \A j \in DOMAIN nodes \ {i} : b[j] = nodes[j]
<1> DEFINE b == Switched(nodes, i, e)
           n == [nodes[i] EXCEPT !.enabled = e]
<1>1. n \in Node /\ n.id = nodes[i].id
  <2>1. nodes[i] \in Node
    OBVIOUS
  <2> QED
    BY <2>1 DEF Node
<1>2. b = [nodes EXCEPT ![i] = n]
  BY DEF Switched
<1> HIDE DEF n, b
<1>3. /\ b \in Seq(Node) /\ DOMAIN b = DOMAIN nodes /\ Len(b) = Len(nodes) /\ b[i] = n
      /\ \A j \in DOMAIN nodes \ {i} : b[j] = nodes[j]
  BY <1>1, <1>2
<1>4. \A j \in DOMAIN nodes : b[j].id = nodes[j].id
  BY <1>1, <1>3
<1>5. Distinct(b)
  <2>1. [j \in DOMAIN b |-> b[j].id] = [j \in DOMAIN nodes |-> nodes[j].id]
    BY <1>3, <1>4
  <2> QED
    BY <2>1 DEF Distinct
<1>6. Heads(nodes, b)
  BY <1>3, <1>4 DEF Heads
<1> QED
  BY <1>3, <1>4, <1>5, <1>6 DEF b

Files == [manual: SUBSET Manual, rules: SUBSET Patterns,
          config: [provider: BOOLEAN, rules: SUBSET Patterns]]

Typed ==
  /\ stored \in Doc /\ Distinct(stored.nodes)
  /\ files \in Files
  /\ call \in [Procs -> Calls] /\ pick \in [Procs -> Nat]
  /\ mem \in [Procs -> Doc] /\ \A p \in Procs : Distinct(mem[p].nodes)
  /\ shown \in [Procs -> Seq(Node)] /\ left \in 0..Commands
  /\ crossed \subseteq Procs /\ moved \subseteq Procs

\* The index of a node command is one of the list on its operator's screen, from the
\* moment it is picked until it is used.
WellPicked(stage, c, i, list) ==
  /\ c \in {"set", "remove"} /\ stage \in {"lock", "load", "edit"} => i \in DOMAIN list
  /\ stage \in {"body", "rulebody"} => c \notin {"set", "remove"}
  /\ stage = "edit" => c \notin {"list", "render"}

Picked == \A p \in Procs : WellPicked(at[p], call[p], pick[p], shown[p])

\* A list that is not overtaken heads the document, and the copy its own command edits;
\* a copy that nobody has cut across is what is stored.
Overtaken ==
  /\ \A p \in Procs \ moved :
       Heads(shown[p], stored.nodes) /\ (at[p] = "edit" => Heads(shown[p], mem[p].nodes))
  /\ \A p \in Procs \ crossed : at[p] = "edit" => mem[p] = stored

ListInv == IInv /\ Typed /\ Picked /\ Overtaken

LEMMA NoneHeads == \A nodes \in Seq(Node) : Heads(<<>>, nodes)
BY DEF Heads

LEMMA EnabledNodesType == \A doc \in Doc : EnabledNodes(doc) \in SUBSET Manual
BY DEF EnabledNodes

LEMMA ListInit == ConsoleInit => ListInv
<1> SUFFICES ASSUME ConsoleInit PROVE ListInv
  OBVIOUS
<1>1. PICK nodes \in Start : stored = [nodes |-> nodes, rules |-> {}]
  BY DEF ConsoleInit
<1>2. stored \in Doc /\ Distinct(stored.nodes) /\ stored.nodes \in Seq(Node)
  BY <1>1, ConsoleAssumption DEF Doc
<1>3. files \in Files
  <2>1. EnabledNodes(stored) \in SUBSET Manual /\ stored.rules \in SUBSET Patterns
    BY <1>2, EnabledNodesType DEF Doc
  <2> QED
    BY <2>1 DEF ConsoleInit, FilesOf, Files
<1>4. Typed
  BY <1>2, <1>3, NoNodes, ConsoleAssumption DEF ConsoleInit, Typed, Calls, Empty
<1>5. Picked
  BY DEF ConsoleInit, Picked, WellPicked
<1>6. Overtaken
  BY <1>2, NoneHeads DEF ConsoleInit, Overtaken
<1> QED
  BY <1>4, <1>5, <1>6, Initially DEF ListInv

\* One copy is replaced by a document.
LEMMA CopiesTyped ==
  ASSUME Typed, NEW p \in Procs, NEW d \in Doc, Distinct(d.nodes),
         mem' = mem \/ mem' = [mem EXCEPT ![p] = d]
  PROVE  mem' \in [Procs -> Doc] /\ \A q \in Procs : Distinct(mem'[q].nodes)
<1>1. mem \in [Procs -> Doc] /\ \A q \in Procs : Distinct(mem[q].nodes)
  BY DEF Typed
<1>2. ASSUME NEW q \in Procs PROVE mem'[q] = mem[q] \/ mem'[q] = d
  BY <1>1
<1>3. mem' \in [Procs -> Doc]
  BY <1>1
<1>4. ASSUME NEW q \in Procs PROVE Distinct(mem'[q].nodes)
  BY <1>1, <1>2
<1> QED
  BY <1>3, <1>4

LEMMA EmptyTyped ==
  ASSUME Typed, NEW p \in Procs, mem' = mem \/ mem' = [mem EXCEPT ![p] = Empty]
  PROVE  mem' \in [Procs -> Doc] /\ \A q \in Procs : Distinct(mem'[q].nodes)
<1>1. Empty \in Doc /\ Distinct(Empty.nodes)
  BY NoNodes DEF Empty
<1> QED
  BY <1>1, CopiesTyped

\* A process that goes anywhere but to its edit, and touches no document and no list.
LEMMA StaysHeading ==
  ASSUME ListInv, NEW p \in Procs, NEW stage \in Stages \ {"edit"},
         at' = [at EXCEPT ![p] = stage],
         mem' = mem \/ \E doc : mem' = [mem EXCEPT ![p] = doc],
         stored' = stored, shown' = shown, moved' = moved, crossed \subseteq crossed'
  PROVE  Overtaken'
<1>1. at'[p] # "edit" /\ \A q \in Procs \ {p} : at'[q] = at[q] /\ mem'[q] = mem[q]
  BY DEF ListInv, IInv, Shape
<1> QED
  BY <1>1 DEF ListInv, Overtaken, Heads

\* One process moves.
LEMMA StaysPicked ==
  ASSUME ListInv, NEW p \in Procs, NEW stage, NEW c, NEW i, NEW list,
         at' = [at EXCEPT ![p] = stage],
         (call' = call /\ c = call[p]) \/ call' = [call EXCEPT ![p] = c],
         (pick' = pick /\ i = pick[p]) \/ pick' = [pick EXCEPT ![p] = i],
         (shown' = shown /\ list = shown[p]) \/ shown' = [shown EXCEPT ![p] = list],
         WellPicked(stage, c, i, list)
  PROVE  Picked'
<1>1. \A q \in Procs \ {p} : /\ at'[q] = at[q] /\ call'[q] = call[q] /\ pick'[q] = pick[q]
                               /\ shown'[q] = shown[q]
  BY DEF ListInv, Typed, IInv, Shape
<1>2. at'[p] = stage /\ call'[p] = c /\ pick'[p] = i /\ shown'[p] = list
  BY DEF ListInv, Typed, IInv, Shape
<1>3. \A q \in Procs : WellPicked(at[q], call[q], pick[q], shown[q])
  BY DEF ListInv, Picked
<1>4. ASSUME NEW q \in Procs PROVE WellPicked(at'[q], call'[q], pick'[q], shown'[q])
  <2>1. CASE q = p
    BY <1>2, <2>1
  <2>2. CASE q # p
    <3>1. WellPicked(at[q], call[q], pick[q], shown[q])
      BY <1>3
    <3> QED
      BY <1>1, <2>2, <3>1
  <2> QED
    BY <2>1, <2>2
<1> QED
  BY <1>4 DEF Picked

LEMMA BeginsList ==
  ASSUME ListInv, NEW p \in Procs, List(p) \/ Command(p) \/ OnNode(p)
  PROVE  ListInv'
<1>1. PICK c \in Calls : Ask(p, c) /\ (c \in {"set", "remove"} => OnNode(p))
  BY DEF List, Command, OnNode, Calls
<1>2. /\ at' = [at EXCEPT ![p] = Entry(p, c)] /\ call' = [call EXCEPT ![p] = c]
      /\ Entry(p, c) \in Stages \ {"edit"} /\ Entry(p, c) \notin {"edit", "rulebody"}
      /\ Entry(p, c) = "body" => c = "import"
  BY <1>1 DEF Ask, Goto, Entry, Stages
<1>3. /\ stored' = stored /\ files' = files /\ mem' = mem /\ shown' = shown
      /\ crossed' = crossed /\ moved' = moved
  BY DEF List, Command, OnNode, docs, history
<1>4. PICK i \in Nat : /\ (pick' = pick /\ i = pick[p]) \/ pick' = [pick EXCEPT ![p] = i]
                       /\ OnNode(p) => i \in DOMAIN shown[p]
  <2>1. pick \in [Procs -> Nat] /\ shown \in [Procs -> Seq(Node)]
    BY DEF ListInv, Typed
  <2>2. CASE OnNode(p)
    <3>1. PICK i \in DOMAIN shown[p] : pick' = [pick EXCEPT ![p] = i]
      BY <2>2 DEF OnNode
    <3>2. i \in Nat
      BY <2>1
    <3> QED
      BY <3>1, <3>2
  <2>3. CASE ~OnNode(p)
    BY <2>1, <2>3 DEF List, Command
  <2> QED
    BY <2>2, <2>3
<1>5. left' \in 0..Commands
  BY ConsoleAssumption DEF ListInv, Typed, List, Command, OnNode
<1>6. Typed'
  BY <1>2, <1>3, <1>4, <1>5 DEF ListInv, Typed
<1>7. Picked'
  <2>1. WellPicked(Entry(p, c), c, i, shown[p])
    BY <1>1, <1>2, <1>4 DEF WellPicked
  <2> QED
    BY <1>2, <1>3, <1>4, <2>1, StaysPicked
<1>8. Overtaken'
  BY <1>2, <1>3, StaysHeading
<1> QED
  BY <1>6, <1>7, <1>8, Begins DEF ListInv

LEMMA EntersList ==
  ASSUME ListInv, NEW p \in Pages, Body(p) \/ Lock(p) \/ RuleBody(p)
  PROVE  ListInv'
<1> p \in Procs
  BY DEF Procs
<1>1. /\ stored' = stored /\ files' = files /\ shown' = shown /\ call' = call /\ left' = left
      /\ crossed' = crossed /\ moved' = moved
  BY DEF Body, Lock, RuleBody, docs, history
<1>2. \/ mem' = mem /\ pick' = pick
      \/ mem' = [mem EXCEPT ![p] = Empty] /\ pick' = [pick EXCEPT ![p] = 0]
  BY DEF Body, Lock, RuleBody, Over
<1>3. Typed'
  <2>1. mem' \in [Procs -> Doc] /\ \A q \in Procs : Distinct(mem'[q].nodes)
    BY <1>2, EmptyTyped DEF ListInv
  <2>2. pick' \in [Procs -> Nat]
    BY <1>2 DEF ListInv, Typed
  <2> QED
    BY <1>1, <2>1, <2>2 DEF ListInv, Typed
<1>4. WellPicked(at[p], call[p], pick[p], shown[p])
  BY DEF ListInv, Picked
<1>5. PICK stage \in {"lock", "idle", "rulebody", "load", "failed"} :
        /\ at' = [at EXCEPT ![p] = stage]
        /\ at[p] \in {"body", "lock", "rulebody"} /\ (stage = "rulebody" => call[p] = "rule")
        /\ stage \in {"lock", "load", "idle", "rulebody"} => mem' = mem /\ pick' = pick
  BY DEF Body, Lock, RuleBody, Over, Goto
<1>6. Picked'
  <2>1. PICK i : /\ (pick' = pick /\ i = pick[p]) \/ pick' = [pick EXCEPT ![p] = i]
                 /\ stage # "failed" => i = pick[p]
    BY <1>2, <1>5
  <2>2. WellPicked(stage, call[p], i, shown[p])
    BY <1>4, <1>5, <2>1 DEF WellPicked
  <2> QED
    BY <1>1, <1>5, <2>1, <2>2, StaysPicked
<1>7. Overtaken'
  <2>1. stage \in Stages \ {"edit"}
    BY DEF Stages
  <2> QED
    BY <1>1, <1>2, <1>5, <2>1, StaysHeading
<1> QED
  BY <1>3, <1>6, <1>7, Enters DEF ListInv

\* The steps of a command that neither read nor save the document.
LEMMA RendersList ==
  ASSUME ListInv, NEW p \in Procs,
         Apply(p) \/ WriteManual(p) \/ WriteRules(p) \/ WriteConfig(p) \/ Fails(p)
  PROVE  ListInv'
<1>1. /\ stored' = stored /\ shown' = shown /\ call' = call /\ left' = left
      /\ moved' = moved /\ crossed \subseteq crossed' /\ crossed' \subseteq Procs
  BY DEF Apply, WriteManual, WriteRules, WriteConfig, Fails, CutsAcross, docs, history,
         ListInv, Typed
<1>2. \/ mem' = mem /\ pick' = pick
      \/ mem' = [mem EXCEPT ![p] = Empty] /\ pick' = [pick EXCEPT ![p] = 0]
  BY DEF Apply, WriteManual, WriteRules, WriteConfig, Fails, Over
<1>3. files' \in Files
  <2>1. EnabledNodes(mem[p]) \in SUBSET Manual /\ mem[p].rules \in SUBSET Patterns
    BY EnabledNodesType DEF ListInv, Typed, Doc
  <2>2. files \in Files
    BY DEF ListInv, Typed
  <2>3. CASE WriteManual(p)
    BY <2>1, <2>2, <2>3 DEF WriteManual, Files
  <2>4. CASE WriteRules(p)
    BY <2>1, <2>2, <2>4 DEF WriteRules, Files
  <2>5. CASE WriteConfig(p)
    BY <2>1, <2>2, <2>5 DEF WriteConfig, Files
  <2>6. CASE Apply(p) \/ Fails(p)
    BY <2>2, <2>6 DEF Apply, Fails, docs
  <2> QED
    BY <2>3, <2>4, <2>5, <2>6
<1>4. Typed'
  <2>1. mem' \in [Procs -> Doc] /\ \A q \in Procs : Distinct(mem'[q].nodes)
    BY <1>2, EmptyTyped DEF ListInv
  <2>2. pick' \in [Procs -> Nat]
    BY <1>2 DEF ListInv, Typed
  <2> QED
    BY <1>1, <1>3, <2>1, <2>2 DEF ListInv, Typed
<1>5. PICK stage \in {"manual", "answer", "rules", "config", "failed"} :
        at' = [at EXCEPT ![p] = stage]
  BY DEF Apply, WriteManual, WriteRules, WriteConfig, Fails, Over, Goto
<1>6. Picked'
  <2>1. PICK i : (pick' = pick /\ i = pick[p]) \/ pick' = [pick EXCEPT ![p] = i]
    BY <1>2
  <2>2. WellPicked(stage, call[p], i, shown[p])
    BY DEF WellPicked
  <2> QED
    BY <1>1, <1>5, <2>1, <2>2, StaysPicked
<1>7. Overtaken'
  <2>1. stage \in Stages \ {"edit"}
    BY DEF Stages
  <2> QED
    BY <1>1, <1>2, <1>5, <2>1, StaysHeading
<1>8. IInv'
  BY Works, Writes DEF ListInv
<1> QED
  BY <1>4, <1>6, <1>7, <1>8 DEF ListInv

LEMMA LoadsList == ASSUME ListInv, NEW p \in Procs, Load(p) PROVE ListInv'
<1>1. /\ stored' = stored /\ files' = files /\ call' = call /\ left' = left
      /\ crossed' = crossed /\ at[p] = "load"
  BY DEF Load, docs
<1>2. stored \in Doc /\ Distinct(stored.nodes) /\ stored.nodes \in Seq(Node)
  BY DEF ListInv, Typed, Doc
<1>3. IInv'
  BY Works DEF ListInv
<1>4. WellPicked(at[p], call[p], pick[p], shown[p])
  BY DEF ListInv, Picked
<1>5. CASE call[p] = "list"
  <2>1. /\ shown' = [shown EXCEPT ![p] = stored.nodes] /\ moved' = moved \ {p}
        /\ at' = [at EXCEPT ![p] = "answer"]
        /\ mem' = [mem EXCEPT ![p] = Empty] /\ pick' = [pick EXCEPT ![p] = 0]
    BY <1>5 DEF Load, Over, Goto
  <2>2. Typed'
    <3>1. mem' \in [Procs -> Doc] /\ \A q \in Procs : Distinct(mem'[q].nodes)
      BY <2>1, EmptyTyped DEF ListInv
    <3> QED
      BY <1>1, <1>2, <2>1, <3>1 DEF ListInv, Typed
  <2>3. Picked'
    <3>1. WellPicked("answer", call[p], 0, stored.nodes)
      BY DEF WellPicked
    <3> QED
      BY <1>1, <2>1, <3>1, StaysPicked
  <2>4. Overtaken'
    <3>1. \A q \in Procs \ {p} : /\ at'[q] = at[q] /\ mem'[q] = mem[q] /\ shown'[q] = shown[q]
      BY <2>1 DEF ListInv, Typed, IInv, Shape
    <3>2. at'[p] = "answer" /\ shown'[p] = stored.nodes
      BY <2>1 DEF ListInv, Typed, IInv, Shape
    <3>3. Heads(stored.nodes, stored.nodes)
      BY <1>2 DEF Heads
    <3>4. ASSUME NEW q \in Procs \ moved'
          PROVE  Heads(shown'[q], stored'.nodes) /\ (at'[q] = "edit" => Heads(shown'[q], mem'[q].nodes))
      <4>1. CASE q = p
        BY <1>1, <3>2, <3>3, <4>1
      <4>2. CASE q # p
        BY <1>1, <2>1, <3>1, <4>2 DEF ListInv, Overtaken
      <4> QED
        BY <4>1, <4>2
    <3>5. ASSUME NEW q \in Procs \ crossed', at'[q] = "edit" PROVE mem'[q] = stored'
      BY <1>1, <3>1, <3>2, <3>5 DEF ListInv, Overtaken
    <3> QED
      BY <3>4, <3>5 DEF Overtaken, Heads
  <2> QED
    BY <1>3, <2>2, <2>3, <2>4 DEF ListInv
<1>6. CASE call[p] # "list"
  <2> DEFINE stage == IF call[p] = "render" THEN "manual" ELSE "edit"
  <2>1. /\ shown' = shown /\ moved' = moved /\ pick' = pick
        /\ mem' = [mem EXCEPT ![p] = stored] /\ at' = [at EXCEPT ![p] = stage]
    BY <1>6 DEF Load, Goto
  <2>2. Typed'
    <3>1. mem' \in [Procs -> Doc] /\ \A q \in Procs : Distinct(mem'[q].nodes)
      BY <1>2, <2>1, CopiesTyped DEF ListInv
    <3> QED
      BY <1>1, <2>1, <3>1 DEF ListInv, Typed
  <2>3. Picked'
    <3>1. WellPicked(stage, call[p], pick[p], shown[p])
      BY <1>1, <1>4, <1>6 DEF WellPicked
    <3> QED
      BY <1>1, <2>1, <3>1, StaysPicked
  <2>4. Overtaken'
    <3>1. \A q \in Procs \ {p} : at'[q] = at[q] /\ mem'[q] = mem[q]
      BY <2>1 DEF ListInv, Typed, IInv, Shape
    <3>2. mem'[p] = stored
      BY <2>1 DEF ListInv, Typed
    <3>3. ASSUME NEW q \in Procs \ moved'
          PROVE  Heads(shown[q], stored.nodes) /\ (at'[q] = "edit" => Heads(shown[q], mem'[q].nodes))
      <4>1. Heads(shown[q], stored.nodes) /\ (at[q] = "edit" => Heads(shown[q], mem[q].nodes))
        BY <2>1 DEF ListInv, Overtaken
      <4>2. CASE q = p
        BY <3>2, <4>1, <4>2
      <4>3. CASE q # p
        BY <3>1, <4>1, <4>3
      <4> QED
        BY <4>2, <4>3
    <3>4. ASSUME NEW q \in Procs \ crossed', at'[q] = "edit" PROVE mem'[q] = stored'
      BY <1>1, <3>1, <3>2, <3>4 DEF ListInv, Overtaken
    <3> QED
      BY <1>1, <2>1, <3>3, <3>4 DEF Overtaken, Heads
  <2> QED
    BY <1>3, <2>2, <2>3, <2>4 DEF ListInv
<1> QED
  BY <1>5, <1>6

LEMMA AnswersList == ASSUME ListInv, NEW p \in Procs, Answer(p) PROVE ListInv'
<1> DEFINE list == shown'[p]
<1>1. /\ stored' = stored /\ files' = files /\ left' = left /\ mem' = mem /\ pick' = pick
      /\ at' = [at EXCEPT ![p] = "idle"] /\ call' = [call EXCEPT ![p] = "list"]
      /\ crossed' = crossed \ {p}
      /\ shown' = shown \/ shown' = [shown EXCEPT ![p] = <<>>]
      /\ moved' = IF shown'[p] = <<>> THEN moved \ {p} ELSE moved
  BY DEF Answer, Goto, docs
<1>2. shown \in [Procs -> Seq(Node)] /\ call \in [Procs -> Calls] /\ stored.nodes \in Seq(Node)
  BY DEF ListInv, Typed, Doc
<1>3. /\ \A q \in Procs \ {p} : shown'[q] = shown[q] /\ at'[q] = at[q]
      /\ shown'[p] = shown[p] \/ shown'[p] = <<>>
      /\ at'[p] = "idle"
  BY <1>1, <1>2 DEF ListInv, IInv, Shape
<1>4. Typed'
  <2>1. shown' \in [Procs -> Seq(Node)] /\ call' \in [Procs -> Calls]
    BY <1>1, <1>2, NoNodes DEF Calls
  <2>2. moved' \subseteq Procs /\ crossed' \subseteq Procs
    BY <1>1 DEF ListInv, Typed
  <2> QED
    BY <1>1, <2>1, <2>2 DEF ListInv, Typed
<1>5. Picked'
  <2>1. PICK l : (shown' = shown /\ l = shown[p]) \/ shown' = [shown EXCEPT ![p] = l]
    BY <1>1
  <2>2. WellPicked("idle", "list", pick[p], l)
    BY DEF WellPicked
  <2> QED
    BY <1>1, <2>1, <2>2, StaysPicked
<1>6. Overtaken'
  <2>1. ASSUME NEW q \in Procs \ moved'
        PROVE  Heads(shown'[q], stored.nodes) /\ (at'[q] = "edit" => Heads(shown'[q], mem[q].nodes))
    <3>1. CASE q # p
      <4>1. q \notin moved
        BY <1>1, <3>1
      <4> QED
        BY <1>3, <3>1, <4>1 DEF ListInv, Overtaken
    <3>2. CASE q = p /\ shown'[p] = <<>>
      BY <1>2, <1>3, <3>2, NoneHeads
    <3>3. CASE q = p /\ shown'[p] # <<>>
      BY <1>1, <1>3, <3>3 DEF ListInv, Overtaken
    <3> QED
      BY <3>1, <3>2, <3>3
  <2>2. ASSUME NEW q \in Procs \ crossed', at'[q] = "edit" PROVE mem[q] = stored
    BY <1>1, <1>3, <2>2 DEF ListInv, Overtaken
  <2> QED
    BY <1>1, <2>1, <2>2 DEF Overtaken, Heads
<1>7. IInv'
  BY Works DEF ListInv
<1> QED
  BY <1>4, <1>5, <1>6, <1>7 DEF ListInv

LEMMA DyingList == ListInv /\ ServerDies => ListInv'
<1> SUFFICES ASSUME ListInv, ServerDies PROVE ListInv'
  OBVIOUS
<1>1. /\ stored' = stored /\ files' = files /\ shown' = shown /\ left' = left /\ moved' = moved
      /\ crossed' = crossed \ Pages
      /\ at' = [p \in Procs |-> IF p \in Pages THEN "idle" ELSE at[p]]
      /\ call' = [p \in Procs |-> IF p \in Pages THEN "list" ELSE call[p]]
      /\ pick' = [p \in Procs |-> IF p \in Pages THEN 0 ELSE pick[p]]
      /\ mem' = [p \in Procs |-> IF p \in Pages THEN Empty ELSE mem[p]]
  BY DEF ServerDies, docs
<1>2. Typed'
  <2>1. call' \in [Procs -> Calls] /\ pick' \in [Procs -> Nat] /\ crossed' \subseteq Procs
    BY <1>1 DEF ListInv, Typed, Calls
  <2>2. Empty \in Doc /\ Distinct(Empty.nodes)
    BY NoNodes DEF Empty
  <2>3. mem' \in [Procs -> Doc] /\ \A q \in Procs : mem'[q] = mem[q] \/ mem'[q] = Empty
    BY <1>1, <2>2 DEF ListInv, Typed
  <2>4. ASSUME NEW q \in Procs PROVE Distinct(mem'[q].nodes)
    BY <2>2, <2>3 DEF ListInv, Typed
  <2> QED
    BY <1>1, <2>1, <2>3, <2>4 DEF ListInv, Typed
<1>3. ASSUME NEW q \in Procs
      PROVE  \/ at'[q] = "idle"
             \/ at'[q] = at[q] /\ call'[q] = call[q] /\ pick'[q] = pick[q] /\ mem'[q] = mem[q]
  BY <1>1
<1>4. Picked'
  <2>1. ASSUME NEW q \in Procs PROVE WellPicked(at'[q], call'[q], pick'[q], shown'[q])
    <3>1. WellPicked(at[q], call[q], pick[q], shown[q])
      BY DEF ListInv, Picked
    <3>2. CASE at'[q] = "idle"
      BY <3>2 DEF WellPicked
    <3>3. CASE at'[q] = at[q] /\ call'[q] = call[q] /\ pick'[q] = pick[q]
      BY <1>1, <3>1, <3>3
    <3> QED
      BY <1>3, <3>2, <3>3
  <2> QED
    BY <2>1 DEF Picked
<1>5. Overtaken'
  <2>1. ASSUME NEW q \in Procs \ crossed', at'[q] = "edit" PROVE mem'[q] = stored
    <3>1. q \notin Pages
      BY <1>1, <2>1
    <3> QED
      BY <1>1, <1>3, <2>1, <3>1 DEF ListInv, Overtaken
  <2>2. ASSUME NEW q \in Procs \ moved
        PROVE  Heads(shown[q], stored.nodes) /\ (at'[q] = "edit" => Heads(shown[q], mem'[q].nodes))
    <3>1. Heads(shown[q], stored.nodes) /\ (at[q] = "edit" => Heads(shown[q], mem[q].nodes))
      BY DEF ListInv, Overtaken
    <3> QED
      BY <1>3, <3>1
  <2> QED
    BY <1>1, <2>1, <2>2 DEF Overtaken, Heads
<1> QED
  BY <1>2, <1>4, <1>5, Dying DEF ListInv

\* Two lists of which one heads the other.
LEMMA HeadsOfHeads ==
  ASSUME NEW a \in Seq(Node), NEW b \in Seq(Node), NEW c \in Seq(Node), Heads(a, b), Heads(b, c)
  PROVE  Heads(a, c)
BY DEF Heads

\* What a command picks in its copy, when it is not refused.
LEMMA PickedInCopy ==
  ASSUME ListInv, NEW p \in Procs, at[p] = "edit", ~Refused(p), call[p] \in {"set", "remove"}
  PROVE  /\ pick[p] \in DOMAIN mem[p].nodes /\ pick[p] \in DOMAIN shown[p]
         /\ shown[p][pick[p]] \in Node
<1>1. WellPicked(at[p], call[p], pick[p], shown[p]) /\ shown[p] \in Seq(Node)
  BY DEF ListInv, Picked, Typed
<1>2. pick[p] \in DOMAIN shown[p]
  BY <1>1 DEF WellPicked
<1> QED
  BY <1>1, <1>2 DEF Refused

LEMMA EditedOK ==
  ASSUME ListInv, NEW p \in Procs, at[p] = "edit", ~Refused(p), NEW doc \in Edited(p)
  PROVE  /\ doc \in Doc /\ Distinct(doc.nodes)
         /\ call[p] \notin {"remove", "refresh"} => Heads(mem[p].nodes, doc.nodes)
<1> DEFINE m == mem[p]
           nodes == m.nodes
           i == pick[p]
<1>1. m \in Doc /\ nodes \in Seq(Node) /\ Distinct(nodes) /\ m.rules \in SUBSET Patterns
  BY DEF ListInv, Typed, Doc
<1>2. \A new \in Seq(Node) : /\ [m EXCEPT !.nodes = new] \in Doc
                             /\ [m EXCEPT !.nodes = new].nodes = new
  BY <1>1 DEF Doc
<1>3. /\ WellPicked(at[p], call[p], pick[p], shown[p]) /\ call[p] \in Calls
  BY DEF ListInv, Picked, Typed
<1>4. call[p] \in {"import", "set", "remove", "rule", "refresh"}
  BY <1>3 DEF WellPicked, Calls
<1> HIDE DEF m
<1>5. CASE call[p] = "import"
  <2>1. PICK id \in Manual : doc = [m EXCEPT !.nodes = Imported(nodes, id)]
    BY <1>5 DEF Edited, m
  <2> QED
    BY <1>1, <1>2, <1>5, <2>1, ImportedOK DEF m
<1>6. CASE call[p] = "refresh"
  <2>1. PICK fetched \in SUBSET Provided : doc = [m EXCEPT !.nodes = Refreshed(nodes, fetched)]
    BY <1>6 DEF Edited, m
  <2> QED
    BY <1>1, <1>2, <1>6, <2>1, RefreshedOK DEF m
<1>7. CASE call[p] = "rule"
  <2>1. PICK r \in Patterns : doc = [m EXCEPT !.rules = @ \cup {r}]
    BY <1>7 DEF Edited, m
  <2>2. doc \in Doc /\ doc.nodes = nodes
    BY <1>1, <2>1 DEF Doc
  <2>3. Heads(nodes, nodes)
    BY <1>1 DEF Heads
  <2> QED
    BY <1>1, <2>2, <2>3 DEF m
<1>8. CASE call[p] = "remove"
  <2>1. doc = [m EXCEPT !.nodes = RemoveAt(nodes, i)]
    BY <1>8 DEF Edited, m
  <2>2. i \in DOMAIN nodes
    BY <1>8, PickedInCopy DEF m
  <2> QED
    BY <1>1, <1>2, <1>8, <2>1, <2>2, RemovedOK DEF m
<1>9. CASE call[p] = "set"
  <2> DEFINE e == ~shown[p][i].enabled
  <2>1. i \in DOMAIN nodes /\ e \in BOOLEAN
    BY <1>9, PickedInCopy DEF m, Node
  <2>2. doc = [m EXCEPT !.nodes[i].enabled = e]
    BY <1>9 DEF Edited, m
  <2> HIDE DEF e
  <2> DEFINE b == Switched(nodes, i, e)
  <2>3. doc = [m EXCEPT !.nodes = b]
    BY <2>2 DEF Switched
  <2>4. b \in Seq(Node) /\ Distinct(b) /\ Heads(nodes, b)
    BY <1>1, <2>1, SwitchedOK
  <2> HIDE DEF b
  <2> QED
    BY <1>2, <2>3, <2>4 DEF m
<1> QED
  BY <1>4, <1>5, <1>6, <1>7, <1>8, <1>9

LEMMA EditsList == ASSUME ListInv, NEW p \in Procs, Edit(p) PROVE ListInv'
<1>1. PICK doc \in Edited(p) :
        /\ stored' = doc
        /\ \/ mem' = [mem EXCEPT ![p] = doc] /\ pick' = pick /\ at' = [at EXCEPT ![p] = "apply"]
           \/ /\ mem' = [mem EXCEPT ![p] = Empty] /\ pick' = [pick EXCEPT ![p] = 0]
              /\ at' = [at EXCEPT ![p] = "answer"]
  BY DEF Edit, Over, Goto
<1>2. /\ files' = files /\ call' = call /\ shown' = shown /\ left' = left
      /\ at[p] = "edit" /\ ~Refused(p)
      /\ crossed' = (crossed \ {p}) \cup {q \in Procs : Apart(p, q) /\ at[q] = "edit"}
      /\ moved \subseteq moved'
      /\ moved' = IF call[p] \in {"remove", "refresh"} \/ p \in crossed
                  THEN moved \cup {q \in Procs : shown[q] # <<>>} ELSE moved
  BY DEF Edit
<1>3. /\ doc \in Doc /\ Distinct(doc.nodes) /\ doc.nodes \in Seq(Node)
      /\ call[p] \notin {"remove", "refresh"} => Heads(mem[p].nodes, doc.nodes)
  BY <1>2, EditedOK DEF Doc
<1>4. IInv'
  BY Works DEF ListInv
<1>5. Typed'
  <2>1. mem' \in [Procs -> Doc] /\ \A q \in Procs : Distinct(mem'[q].nodes)
    <3>1. CASE mem' = [mem EXCEPT ![p] = doc]
      BY <1>3, <3>1, CopiesTyped DEF ListInv
    <3>2. CASE mem' = [mem EXCEPT ![p] = Empty]
      BY <3>2, EmptyTyped DEF ListInv
    <3> QED
      BY <1>1, <3>1, <3>2
  <2>2. pick' \in [Procs -> Nat]
    BY <1>1 DEF ListInv, Typed
  <2>3. crossed' \subseteq Procs /\ moved' \subseteq Procs
    <3>1. crossed \subseteq Procs /\ moved \subseteq Procs
      BY DEF ListInv, Typed
    <3> QED
      BY <1>2, <3>1
  <2> QED
    BY <1>1, <1>2, <1>3, <2>1, <2>2, <2>3 DEF ListInv, Typed
<1>6. PICK stage, i :
        /\ stage \in {"apply", "answer"}
        /\ at' = [at EXCEPT ![p] = stage]
        /\ (pick' = pick /\ i = pick[p]) \/ pick' = [pick EXCEPT ![p] = i]
  BY <1>1
<1>7. Picked'
  <2>1. WellPicked(stage, call[p], i, shown[p])
    BY <1>6 DEF WellPicked
  <2> QED
    BY <1>2, <1>6, <2>1, StaysPicked
<1>8. /\ \A q \in Procs \ {p} : at'[q] = at[q] /\ mem'[q] = mem[q]
      /\ at'[p] # "edit"
  BY <1>1 DEF ListInv, Typed, IInv, Shape
<1>9. Overtaken'
  <2>1. ASSUME NEW q \in Procs \ crossed', at'[q] = "edit" PROVE FALSE
    <3>1. q # p /\ at[q] = "edit"
      BY <1>8, <2>1
    <3>2. Apart(p, q)
      BY <1>2, <3>1, PastLock DEF ListInv, Locked, Stages
    <3> QED
      BY <1>2, <2>1, <3>1, <3>2
  <2>2. ASSUME NEW q \in Procs \ moved' PROVE Heads(shown[q], doc.nodes)
    <3>1. shown[q] \in Seq(Node) /\ stored.nodes \in Seq(Node)
      BY DEF ListInv, Typed, Doc
    <3>2. CASE shown[q] = <<>>
      BY <1>3, <3>2, NoneHeads
    <3>3. CASE shown[q] # <<>>
      <4>1. call[p] \notin {"remove", "refresh"} /\ p \notin crossed /\ q \notin moved
        BY <1>2, <2>2, <3>3
      <4>2. mem[p] = stored /\ Heads(shown[q], stored.nodes)
        BY <1>2, <4>1 DEF ListInv, Overtaken
      <4> QED
        BY <1>3, <3>1, <4>1, <4>2, HeadsOfHeads
    <3> QED
      BY <3>2, <3>3
  <2>3. ASSUME NEW q \in Procs \ moved', at'[q] = "edit" PROVE Heads(shown[q], mem'[q].nodes)
    <3>1. q # p /\ at[q] = "edit" /\ q \notin moved /\ mem'[q] = mem[q]
      BY <1>2, <1>8, <2>3
    <3> QED
      BY <3>1 DEF ListInv, Overtaken
  <2> QED
    BY <1>1, <1>2, <2>1, <2>2, <2>3 DEF Overtaken, Heads
<1> QED
  BY <1>4, <1>5, <1>7, <1>9 DEF ListInv

LEMMA ListPreserved == ListInv /\ [ConsoleNext]_cvars => ListInv'
<1> SUFFICES ASSUME ListInv, [ConsoleNext]_cvars PROVE ListInv'
  OBVIOUS
<1>1. CASE UNCHANGED cvars
  <2>1. /\ UNCHANGED <<stored, files, at, call, pick, mem, shown, left, crossed, moved>>
        /\ IInv'
    BY <1>1, Preserved DEF cvars, docs, work, history, ListInv
  <2>2. Typed'
    BY <2>1 DEF ListInv, Typed
  <2>3. Picked'
    BY <2>1 DEF ListInv, Picked, WellPicked
  <2>4. Overtaken'
    BY <2>1 DEF ListInv, Overtaken, Heads
  <2> QED
    BY <2>1, <2>2, <2>3, <2>4 DEF ListInv
<1>2. ASSUME NEW p \in Procs, List(p) \/ Command(p) \/ OnNode(p) \/ Progress(p)
      PROVE  ListInv'
  BY <1>2, BeginsList, RendersList, LoadsList, AnswersList, EditsList DEF Progress
<1>3. ASSUME NEW p \in Pages, Body(p) \/ Lock(p) \/ RuleBody(p)
      PROVE  ListInv'
  BY <1>3, EntersList
<1> QED
  BY <1>1, <1>2, <1>3, DyingList DEF ConsoleNext

\* Every value stays in its set, no document lists a node twice, and the mutex belongs
\* to the request at a locked stage (the handlers of webui.go and their commands).
THEOREM ConsoleTypeHolds == ConsoleSpec => []ConsoleTypeOK
<1>1. ListInv => ConsoleTypeOK
  BY DEF ListInv, Typed, IInv, Shape, Exclusive, ConsoleTypeOK, Files
<1> QED
  BY <1>1, ListInit, ListPreserved, PTL DEF ConsoleSpec

\* For any pages, shells and lists of nodes: a node command changes the node that its
\* operator was shown at the index, and no other, unless the list has been overtaken by
\* a removal, a refresh or a save over it (SetNodeEnabled, RemoveNode by index).
THEOREM CommandsActOnNodeShown == ConsoleSpec => ActsOnNodeShown
<1>1. ASSUME ListInv, NEW p \in Procs, Edit(p), call[p] \in {"set", "remove"}, p \notin moved
      PROVE  LET id == shown[p][pick[p]].id
                 others == {n \in ToSet(mem[p].nodes) : n.id # id}
             IN  /\ others = {n \in ToSet(stored'.nodes) : n.id # id}
                 /\ call[p] = "remove" => id \notin Known(stored'.nodes)
  <2> DEFINE nodes == mem[p].nodes
             i == pick[p]
             new == stored'.nodes
  <2>1. at[p] = "edit" /\ ~Refused(p) /\ stored' \in Edited(p)
    BY <1>1 DEF Edit
  <2>2. i \in DOMAIN nodes /\ i \in DOMAIN shown[p] /\ shown[p][i] \in Node
    BY <1>1, <2>1, PickedInCopy
  <2>3. /\ nodes \in Seq(Node) /\ Distinct(nodes) /\ mem[p] \in Doc
        /\ Heads(shown[p], nodes)
    BY <1>1, <2>1 DEF ListInv, Typed, Overtaken, Doc
  <2>4. nodes[i].id = shown[p][i].id /\ nodes[i] \in ToSet(nodes)
    BY <2>2, <2>3 DEF Heads, ToSet
  <2>5. \A m, n \in ToSet(nodes) : m.id = n.id => m = n
    BY <2>3, DistinctNodes
  <2>6. CASE call[p] = "remove"
    <3>1. stored' = [mem[p] EXCEPT !.nodes = RemoveAt(nodes, i)]
      BY <2>1, <2>6 DEF Edited
    <3>2. new = RemoveAt(nodes, i)
      BY <2>3, <3>1 DEF Doc
    <3>3. ToSet(new) = ToSet(nodes) \ {nodes[i]}
      BY <2>2, <2>3, <3>2, RemovedOK
    <3> HIDE DEF nodes, new
    <3>4. \A n \in ToSet(new) : n.id # nodes[i].id
      BY <2>4, <2>5, <3>3
    <3> QED
      BY <2>4, <2>5, <3>3, <3>4 DEF Known, nodes, new
  <2>7. CASE call[p] = "set"
    <3> DEFINE e == ~shown[p][i].enabled
               b == Switched(nodes, i, e)
    <3>1. stored' = [mem[p] EXCEPT !.nodes[i].enabled = e]
      BY <2>1, <2>7 DEF Edited
    <3>2. new = b /\ e \in BOOLEAN
      BY <2>2, <2>3, <3>1 DEF Doc, Node, Switched
    <3> HIDE DEF e
    <3>3. /\ b \in Seq(Node) /\ DOMAIN b = DOMAIN nodes /\ b[i].id = nodes[i].id
          /\ \A j \in DOMAIN nodes \ {i} : b[j] = nodes[j]
      BY <2>2, <2>3, <3>2, SwitchedOK
    <3> HIDE DEF b
    <3>4. ToSet(b) = {b[j] : j \in DOMAIN nodes} /\ ToSet(nodes) = {nodes[j] : j \in DOMAIN nodes}
      BY <3>3 DEF ToSet
    <3>5. {n \in ToSet(b) : n.id # nodes[i].id} = {n \in ToSet(nodes) : n.id # nodes[i].id}
      BY <3>3, <3>4
    <3> QED
      BY <2>4, <2>7, <3>2, <3>5
  <2> QED
    BY <1>1, <2>6, <2>7
<1>2. ListInv /\ [ConsoleNext]_cvars =>
        \A p \in Procs :
          Edit(p) /\ call[p] \in {"set", "remove"} /\ p \notin moved
            => LET id == shown[p][pick[p]].id
                   others == {n \in ToSet(mem[p].nodes) : n.id # id}
               IN  /\ others = {n \in ToSet(stored'.nodes) : n.id # id}
                   /\ call[p] = "remove" => id \notin Known(stored'.nodes)
  BY <1>1
<1> QED
  BY <1>2, ListInit, ListPreserved, PTL DEF ConsoleSpec, ActsOnNodeShown
=============================================================================
