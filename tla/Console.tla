------------------------------ MODULE Console ------------------------------
(***************************************************************************)
(* The ways into the program, side by side.  Each browser page has at most *)
(* one request under way at the web server, whose handlers run a command   *)
(* under one mutex; a shell is a CLI command or a menu and takes no lock.  *)
(* All of them show the node list, act on one node by the index it was     *)
(* shown with, save the whole document and render the runtime files one by *)
(* one.                                                                    *)
(*                                                                         *)
(* Abstractions.  state.json is read and saved in one step each, and rules *)
(* name builtin targets (StateStore and StateDoc have the truncation and   *)
(* the targets).  Rules and ACL are one set.  Renaming, which moves no     *)
(* node, and the entries of subscriptions are left out.  Listing (every    *)
(* GET, `nodes list`, the menu's display) is unlimited; "render" stands    *)
(* for render-config, start and restart.                                   *)
(*                                                                         *)
(* Bounds: `left` commands that may change something.                      *)
(***************************************************************************)
EXTENDS Filtering

CONSTANTS
  Pages,     \* browser pages, each with at most one request under way
  Shells,    \* CLI commands and menus
  Manual,    \* the nodes the operator may import
  Provided,  \* the nodes the subscription may provide
  Patterns,  \* the rules that may be added
  Start,     \* the node lists the console may find at first
  Commands,  \* bound: commands and deaths
  Nobody     \* no holder of the mutex

VARIABLES
  stored,   \* the document in state.json
  files,    \* the runtime files
  mutex,    \* which page's request holds webUIServer.mu
  at,       \* where each process is
  call,     \* the command it runs
  pick,     \* the index a node command is called with
  mem,      \* its copy of the document
  shown,    \* the node list its operator has last been shown
  left,     \* commands still to be begun
  crossed,  \* history: processes that a process outside their lock has cut across
  moved     \* history: processes whose list was overtaken by a removal or a crossing

docs == <<stored, files>>
work == <<at, call, pick, mem>>
history == <<crossed, moved>>
cvars == <<docs, mutex, work, shown, left, history>>

Procs == Pages \cup Shells
Node == [id: Manual \cup Provided, enabled: BOOLEAN]
Doc == [nodes: Seq(Node), rules: SUBSET Patterns]
Distinct(nodes) == IsInjective([i \in DOMAIN nodes |-> nodes[i].id])

ASSUME ConsoleAssumption ==
  /\ Pages \cap Shells = {} /\ Nobody \notin Pages
  /\ Manual \cap Provided = {} /\ IsFiniteSet(Provided)
  /\ \A nodes \in Start : nodes \in Seq(Node) /\ Distinct(nodes)
  /\ Commands \in Nat

Stages == {"idle", "body", "lock", "rulebody", "load", "edit", "apply",
           "manual", "rules", "config", "answer", "failed"}
Locked == Stages \ {"idle", "body", "lock"}
Calls == {"list", "import", "set", "remove", "rule", "render", "refresh"}

EnabledNodes(doc) == {n.id : n \in {m \in ToSet(doc.nodes) : m.enabled /\ m.id \in Manual}}

\* What RenderFiles makes of one document when nobody comes between.
FilesOf(doc) ==
  [manual |-> EnabledNodes(doc), rules |-> doc.rules,
   config |-> [provider |-> EnabledNodes(doc) # {}, rules |-> doc.rules]]

\* The request that holds the mutex is the one at a locked stage; no document lists a node twice.
ConsoleTypeOK ==
  /\ stored \in Doc /\ Distinct(stored.nodes)
  /\ files \in [manual: SUBSET Manual, rules: SUBSET Patterns,
                config: [provider: BOOLEAN, rules: SUBSET Patterns]]
  /\ at \in [Procs -> Stages] /\ call \in [Procs -> Calls]
  /\ pick \in [Procs -> Nat] /\ mem \in [Procs -> Doc]
  /\ shown \in [Procs -> Seq(Node)] /\ left \in 0..Commands
  /\ crossed \subseteq Procs /\ moved \subseteq Procs
  /\ \A p \in Pages : mutex = p <=> at[p] \in Locked
  /\ mutex \in Pages \cup {Nobody}

Empty == [nodes |-> <<>>, rules |-> {}]

ConsoleInit ==
  /\ stored \in [nodes: Start, rules: {{}}]
  /\ files = FilesOf(stored)
  /\ mutex = Nobody
  /\ at = [p \in Procs |-> "idle"] /\ call = [p \in Procs |-> "list"]
  /\ pick = [p \in Procs |-> 0] /\ mem = [p \in Procs |-> Empty]
  /\ shown = [p \in Procs |-> <<>>]
  /\ left = Commands
  /\ crossed = {} /\ moved = {}
-----------------------------------------------------------------------------
(* A command is asked for *)

Goto(p, stage) == at' = [at EXCEPT ![p] = stage]

\* The command is over, well ("answer") or not: what is left is to release the mutex.
Over(p, outcome) ==
  /\ Goto(p, outcome)
  /\ mem' = [mem EXCEPT ![p] = Empty] /\ pick' = [pick EXCEPT ![p] = 0]

\* The handlers that take a body decode it before they lock; handleRules locks first.
Entry(p, c) ==
  IF p \in Shells THEN "load" ELSE IF c = "import" THEN "body" ELSE "lock"

Ask(p, c) ==
  /\ at[p] = "idle"
  /\ Goto(p, Entry(p, c))
  /\ call' = [call EXCEPT ![p] = c]

List(p) ==
  /\ Ask(p, "list")
  /\ UNCHANGED <<docs, mutex, pick, mem, shown, left, history>>

Command(p) ==
  /\ left > 0 /\ left' = left - 1
  /\ \E c \in {"import", "rule", "render", "refresh"} : Ask(p, c)
  /\ UNCHANGED <<docs, mutex, pick, mem, shown, history>>

\* The operator picks a row of the list on the screen and confirms it; nodes of a
\* subscription are shown without these choices.
OnNode(p) ==
  /\ left > 0 /\ left' = left - 1
  /\ \E c \in {"set", "remove"} : Ask(p, c)
  /\ \E i \in DOMAIN shown[p] :
       /\ shown[p][i].id \in Manual
       /\ pick' = [pick EXCEPT ![p] = i]
  /\ UNCHANGED <<docs, mutex, mem, shown, history>>

\* The body has arrived, or the connection has broken and the handler answers.
Body(p) ==
  /\ at[p] = "body"
  /\ Goto(p, "lock") \/ Goto(p, "idle")
  /\ UNCHANGED <<docs, mutex, call, pick, mem, shown, left, history>>

\* Mutant: a request does not wait for the one that holds the mutex.
Lock_Unguarded(p) ==
  /\ at[p] = "lock"
  /\ mutex' = p
  /\ Goto(p, IF call[p] = "rule" THEN "rulebody" ELSE "load")
  /\ UNCHANGED <<docs, call, pick, mem, shown, left, history>>

Lock(p) ==
  /\ at[p] = "lock" /\ mutex = Nobody
  /\ mutex' = p
  /\ Goto(p, IF call[p] = "rule" THEN "rulebody" ELSE "load")
  /\ UNCHANGED <<docs, call, pick, mem, shown, left, history>>

\* Mutant: handleRules runs its command with runLocked, as the other handlers do.
RuleBody_LocksAgain(p) ==
  /\ at[p] = "rulebody"
  /\ \/ Goto(p, "lock") /\ UNCHANGED <<mem, pick>>
     \/ Over(p, "failed")
  /\ UNCHANGED <<docs, mutex, call, shown, left, history>>

\* handleRules decodes its body with the mutex held, then calls runUnlocked.
RuleBody(p) ==
  /\ at[p] = "rulebody"
  /\ \/ Goto(p, "load") /\ UNCHANGED <<mem, pick>>
     \/ Over(p, "failed")
  /\ UNCHANGED <<docs, mutex, call, shown, left, history>>
-----------------------------------------------------------------------------
(* The commands *)

\* ensureAll reads the document; a listing is done with it.
Load(p) ==
  /\ at[p] = "load"
  /\ IF call[p] = "list"
     THEN /\ shown' = [shown EXCEPT ![p] = stored.nodes]
          /\ moved' = moved \ {p}
          /\ Over(p, "answer")
     ELSE /\ mem' = [mem EXCEPT ![p] = stored]
          /\ Goto(p, IF call[p] = "render" THEN "manual" ELSE "edit")
          /\ UNCHANGED <<pick, shown, moved>>
  /\ UNCHANGED <<docs, mutex, call, left, crossed>>

Known(nodes) == {n.id : n \in ToSet(nodes)}

\* Mutant: what is imported goes to the head of the list.
Imported_First(nodes, id) ==
  IF id \in Known(nodes) THEN nodes ELSE <<[id |-> id, enabled |-> FALSE]>> \o nodes

\* AppendImportedNodes: a known link is skipped, a new one goes to the end, disabled.
Imported(nodes, id) ==
  IF id \in Known(nodes) THEN nodes ELSE Append(nodes, [id |-> id, enabled |-> FALSE])

\* UpdateSubscriptions: its old nodes are purged, the fetched ones appended.
Refreshed(nodes, fetched) ==
  Without(nodes, [id: Provided, enabled: BOOLEAN])
    \o SetToSeq({[id |-> id, enabled |-> TRUE] : id \in fetched})

\* The node command is refused: index out of range, or a node of the subscription.
Refused(p) ==
  call[p] \in {"set", "remove"}
    /\ (pick[p] \notin DOMAIN mem[p].nodes \/ mem[p].nodes[pick[p]].id \notin Manual)

\* The documents the command may make of its copy.
Edited(p) ==
  LET nodes == mem[p].nodes  i == pick[p] IN
  CASE call[p] = "import" -> {[mem[p] EXCEPT !.nodes = Imported(nodes, id)] : id \in Manual}
    [] call[p] = "refresh" -> {[mem[p] EXCEPT !.nodes = Refreshed(nodes, f)] : f \in SUBSET Provided}
    [] call[p] = "rule" -> {[mem[p] EXCEPT !.rules = @ \cup {r}] : r \in Patterns}
    [] call[p] = "remove" -> {[mem[p] EXCEPT !.nodes = RemoveAt(@, i)]}
    [] call[p] = "set" -> {[mem[p] EXCEPT !.nodes[i].enabled = ~shown[p][i].enabled]}

\* p and q do not exclude each other: at most one of them is a web request.
Apart(p, q) == p # q /\ ~({p, q} \subseteq Pages)

\* The command checks its copy and saves it over whatever is stored by now.
Edit(p) ==
  /\ at[p] = "edit" /\ ~Refused(p)
  /\ \E doc \in Edited(p) :
       /\ stored' = doc
       /\ IF call[p] \in {"set", "remove"}
          THEN Goto(p, "apply") /\ mem' = [mem EXCEPT ![p] = doc] /\ UNCHANGED pick
          ELSE Over(p, "answer")
  /\ crossed' = (crossed \ {p}) \cup {q \in Procs : Apart(p, q) /\ at[q] = "edit"}
  /\ moved' = IF call[p] \in {"remove", "refresh"} \/ p \in crossed
              THEN moved \cup {q \in Procs : shown[q] # <<>>} ELSE moved
  /\ UNCHANGED <<files, mutex, call, shown, left>>

\* Mutant: the mutex is given back once the document is saved.
Apply_Unlocked(p) ==
  /\ at[p] = "apply"
  /\ \/ Goto(p, "manual") /\ UNCHANGED <<mem, pick>>
     \/ Over(p, "answer")
  /\ mutex' = IF mutex = p THEN Nobody ELSE mutex
  /\ UNCHANGED <<docs, call, shown, left, history>>

\* applyNodeRuntimeIfServiceActive: the unit may be active or not.
Apply(p) ==
  /\ at[p] = "apply"
  /\ \/ Goto(p, "manual") /\ UNCHANGED <<mem, pick>>
     \/ Over(p, "answer")
  /\ UNCHANGED <<docs, mutex, call, shown, left, history>>

\* p writes a runtime file while others are between their first and their last.
CutsAcross(p) ==
  crossed' = crossed \cup {q \in Procs : Apart(p, q) /\ at[q] \in {"rules", "config"}}

\* proxy_providers/manual.txt
WriteManual(p) ==
  /\ at[p] = "manual"
  /\ files' = [files EXCEPT !.manual = EnabledNodes(mem[p])]
  /\ CutsAcross(p) /\ Goto(p, "rules")
  /\ UNCHANGED <<stored, mutex, call, pick, mem, shown, left, moved>>

\* custom.rules, acl.rules and builtin.rules
WriteRules(p) ==
  /\ at[p] = "rules"
  /\ files' = [files EXCEPT !.rules = mem[p].rules]
  /\ CutsAcross(p) /\ Goto(p, "config")
  /\ UNCHANGED <<stored, mutex, call, pick, mem, shown, left, moved>>

\* config.yaml: its providers come from the copy, its rules from the rule files as
\* they now are.  Unit restarts follow (module Service).
WriteConfig(p) ==
  /\ at[p] = "config"
  /\ files' = [files EXCEPT !.config = [provider |-> EnabledNodes(mem[p]) # {}, rules |-> files.rules]]
  /\ CutsAcross(p) /\ Over(p, "answer")
  /\ UNCHANGED <<stored, mutex, call, shown, left, moved>>

\* A check, a file or a command fails: the error is the answer.  (A failure that
\* comes later but before the next file is written leaves the same behind.)  A shell
\* that is killed goes the same way.
Fails(p) ==
  /\ at[p] \in {"load", "edit", "apply", "rules", "config"}
  /\ Over(p, "failed")
  /\ UNCHANGED <<docs, mutex, call, shown, left, history>>

\* Mutant: an answer that does not release the mutex.
Answer_KeepsLock(p) ==
  /\ at[p] \in {"answer", "failed"}
  /\ Goto(p, "idle")
  /\ shown' = IF at[p] = "answer" /\ call[p] # "list" THEN [shown EXCEPT ![p] = <<>>] ELSE shown
  /\ call' = [call EXCEPT ![p] = "list"]
  /\ crossed' = crossed \ {p}
  /\ moved' = IF shown'[p] = <<>> THEN moved \ {p} ELSE moved
  /\ UNCHANGED <<docs, mutex, left, mem, pick>>

\* The deferred Unlock, and the answer.  After a success the page reloads its view and
\* the menu shows the list anew; after an error a page keeps the list it has.
Answer(p) ==
  /\ at[p] \in {"answer", "failed"}
  /\ Goto(p, "idle")
  /\ mutex' = IF mutex = p THEN Nobody ELSE mutex
  /\ shown' = IF at[p] = "answer" /\ call[p] # "list" THEN [shown EXCEPT ![p] = <<>>] ELSE shown
  /\ call' = [call EXCEPT ![p] = "list"]
  /\ crossed' = crossed \ {p}
  /\ moved' = IF shown'[p] = <<>> THEN moved \ {p} ELSE moved
  /\ UNCHANGED <<docs, left, mem, pick>>
-----------------------------------------------------------------------------
(* The web server dies with every request it serves; the pages are left as they are *)

ServerDies ==
  /\ \E p \in Pages : at[p] # "idle"
  /\ at' = [p \in Procs |-> IF p \in Pages THEN "idle" ELSE at[p]]
  /\ call' = [p \in Procs |-> IF p \in Pages THEN "list" ELSE call[p]]
  /\ pick' = [p \in Procs |-> IF p \in Pages THEN 0 ELSE pick[p]]
  /\ mem' = [p \in Procs |-> IF p \in Pages THEN Empty ELSE mem[p]]
  /\ mutex' = Nobody
  /\ crossed' = crossed \ Pages
  /\ UNCHANGED <<docs, shown, left, moved>>

\* What a handler does by itself once it holds the mutex, and a shell from the start.
Progress(p) ==
  \/ Load(p) \/ Edit(p) \/ Apply(p)
  \/ WriteManual(p) \/ WriteRules(p) \/ WriteConfig(p) \/ Fails(p) \/ Answer(p)

ConsoleNext ==
  \/ \E p \in Procs : List(p) \/ Command(p) \/ OnNode(p) \/ Progress(p)
  \/ \E p \in Pages : Body(p) \/ Lock(p) \/ RuleBody(p)
  \/ ServerDies

\* A command under the mutex goes on: files, systemctl (killed after 30 seconds) and
\* fetches all end.  sync.Mutex hands itself to a waiter it has kept for over a
\* millisecond, so a waiting request gets it in the end: strong fairness.  Nothing
\* makes a body arrive: the server sets no read timeout.
Fairness == \A p \in Pages : WF_cvars(Progress(p)) /\ SF_cvars(Lock(p))

ConsoleSpec == ConsoleInit /\ [][ConsoleNext]_cvars /\ Fairness
-----------------------------------------------------------------------------
(* Properties *)

\* As long as no rule body is awaited for ever with the mutex held (handleRules),
\* every request that waits for the mutex is answered, or dies with the server: no
\* handler takes the mutex twice or leaves without it, however many come after.
RequestsAnswered ==
  []<>(\A q \in Pages : at[q] # "rulebody")
    => \A p \in Pages : at[p] = "lock" ~> at[p] = "idle"

\* A render that no process outside its lock cut across leaves all the runtime files
\* of one document: config.yaml, whose rules are read back from the rule files,
\* agrees with them and with the provider.  Web requests never mix their renders.
RendersWhole ==
  [][\A p \in Procs : WriteConfig(p) /\ p \notin crossed => files' = FilesOf(mem[p])]_cvars

\* A confirmed command changes the node on the screen with that index and no other,
\* unless since the listing nodes were removed or refreshed (by the operator's own
\* command too, when its apply failed), or a command saved over a document it had
\* not seen for want of a common lock: imports, rules and switches move no node.
ActsOnNodeShown ==
  [][\A p \in Procs :
       Edit(p) /\ call[p] \in {"set", "remove"} /\ p \notin moved
         => LET id == shown[p][pick[p]].id
                others == {n \in ToSet(mem[p].nodes) : n.id # id}
            IN  /\ others = {n \in ToSet(stored'.nodes) : n.id # id}
                /\ call[p] = "remove" => id \notin Known(stored'.nodes)]_cvars
=============================================================================
