----------------------------- MODULE StateStore -----------------------------
(***************************************************************************)
(* The processes that share state.json.  Every CLI command, menu entry,    *)
(* web request and unit hook is a process that reads the whole document,   *)
(* changes its own copy and writes the whole document back: state.Load,    *)
(* an operation of StateDoc, state.Save.  There is no lock, so processes   *)
(* interleave at every file access.  os.WriteFile truncates the file and   *)
(* then writes it, two steps between which a reader finds an empty file, a *)
(* process may die, or another writer may write (its bytes and ours then   *)
(* overlap).  An unreadable document makes every later command fail: no    *)
(* action of a new command is enabled in such a state.                     *)
(*                                                                         *)
(* Bounds: MaxRules rules per list, MaxRows rows per imported text, the    *)
(* finite sets of StateDoc, and one id per SubIds.                         *)
(***************************************************************************)
EXTENDS StateDoc

CONSTANTS
  Procs,     \* processes that may run at once
  Lists,     \* the rule lists the commands of an instance edit: "rules", "acl"
  MaxRules,  \* bound: rules in a list
  MaxRows    \* bound: links in an imported text

ASSUME StoreAssumption ==
  /\ Lists \subseteq {"rules", "acl"}
  /\ MaxRules \in Nat
  /\ MaxRows \in Nat

VARIABLES
  file,    \* what reading state.json finds: "absent", "empty", "garbled" or "doc"
  disk,    \* the document in it when file = "doc"
  cached,  \* subscription ids with a cache file
  issued,  \* ids that newID has drawn
  pc,      \* where each process is
  mem,     \* the copy of the document each process works on
  source,  \* the source of the nodes a process is importing
  rows,    \* the rows it has still to import
  todo,    \* ids of the subscriptions UpdateSubscriptions has still to fetch
  after    \* where the process goes once its save is done

vars == <<file, disk, cached, issued, pc, mem, source, rows, todo, after>>
stored == <<file, disk>>
loop == <<source, rows, todo>>

Stages == {"idle", "ready", "import", "update", "remove", "save", "write", "apply"}
RowSeqs == UNION {[1..n -> Row] : n \in 0..MaxRows}

TypeOK ==
  /\ file \in {"absent", "empty", "garbled", "doc"}
  /\ disk \in Doc
  /\ cached \subseteq SubIds
  /\ issued \subseteq SubIds
  /\ pc \in [Procs -> Stages]
  /\ mem \in [Procs -> Doc]
  /\ source \in [Procs -> SubIds \cup {Manual}]
  /\ rows \in [Procs -> Seq(Row)]
  /\ todo \in [Procs -> SUBSET SubIds]
  /\ after \in [Procs -> {"idle", "ready", "apply"}]

Init ==
  /\ file = "absent" /\ disk = EmptyDoc
  /\ cached = {} /\ issued = {}
  /\ pc = [p \in Procs |-> "idle"]
  /\ mem = [p \in Procs |-> EmptyDoc]
  /\ source = [p \in Procs |-> Manual]
  /\ rows = [p \in Procs |-> <<>>]
  /\ todo = [p \in Procs |-> {}]
  /\ after = [p \in Procs |-> "idle"]
-----------------------------------------------------------------------------
(* Reading and writing the file *)

\* state.Ensure finds a document: the command goes on with a copy of it.
Load(p) ==
  /\ pc[p] = "idle" /\ file = "doc"
  /\ pc' = [pc EXCEPT ![p] = "ready"]
  /\ mem' = [mem EXCEPT ![p] = disk]
  /\ UNCHANGED <<stored, cached, issued, loop, after>>

\* Mutant: a document that cannot be read is taken for a missing one.
Create_AlsoUnreadable(p) ==
  /\ pc[p] = "idle" /\ file # "doc"
  /\ pc' = [pc EXCEPT ![p] = "save"]
  /\ mem' = [mem EXCEPT ![p] = EmptyDoc]
  /\ after' = [after EXCEPT ![p] = "ready"]
  /\ UNCHANGED <<stored, cached, issued, loop>>

\* state.Ensure finds no file: it saves an empty document and goes on with it.
Create(p) ==
  /\ pc[p] = "idle" /\ file = "absent"
  /\ pc' = [pc EXCEPT ![p] = "save"]
  /\ mem' = [mem EXCEPT ![p] = EmptyDoc]
  /\ after' = [after EXCEPT ![p] = "ready"]
  /\ UNCHANGED <<stored, cached, issued, loop>>

\* state.Save, first half: os.WriteFile has truncated the file.
Truncate(p) ==
  /\ pc[p] = "save"
  /\ pc' = [pc EXCEPT ![p] = "write"]
  /\ file' = "empty" /\ disk' = EmptyDoc
  /\ UNCHANGED <<cached, issued, mem, loop, after>>

\* Second half: the bytes go to offset 0.  If another process has written since
\* our truncation, the tail of a longer document of its own remains behind ours.
WriteBody(p) ==
  \/ file' = "doc" /\ disk' = mem[p]
  \/ file # "empty" /\ file' = "garbled" /\ disk' = EmptyDoc

Forget(p) == mem' = [mem EXCEPT ![p] = EmptyDoc]

Write(p) ==
  /\ pc[p] = "write"
  /\ WriteBody(p)
  /\ pc' = [pc EXCEPT ![p] = after[p]]
  /\ after' = [after EXCEPT ![p] = "idle"]
  /\ IF after[p] = "idle" THEN Forget(p) ELSE UNCHANGED mem
  /\ UNCHANGED <<cached, issued, loop>>

\* The command saves the document it has computed, then goes to stage next.
SaveThen(p, doc, next) ==
  /\ pc' = [pc EXCEPT ![p] = "save"]
  /\ mem' = [mem EXCEPT ![p] = doc]
  /\ after' = [after EXCEPT ![p] = next]

\* A command that only reads, or whose checks fail: an error and no change.
Leave(p) ==
  /\ pc[p] = "ready"
  /\ pc' = [pc EXCEPT ![p] = "idle"]
  /\ Forget(p)
  /\ UNCHANGED <<stored, cached, issued, loop, after>>

\* applyNodeRuntimeIfServiceActive, seen from the file: it reads and writes
\* nothing here, and the command ends (module Service has the steps).
Apply(p) ==
  /\ pc[p] = "apply"
  /\ pc' = [pc EXCEPT ![p] = "idle"]
  /\ Forget(p)
  /\ UNCHANGED <<stored, cached, issued, loop, after>>
-----------------------------------------------------------------------------
(* Commands on nodes *)

RenameNode(p) ==
  /\ pc[p] = "ready"
  /\ \E node \in mem[p].nodes, name \in Names :
       /\ CanRename(mem[p], node, name)
       /\ SaveThen(p, Renamed(mem[p], node, name), "apply")
  /\ UNCHANGED <<stored, cached, issued, loop>>

SetNodeEnabled(p) ==
  /\ pc[p] = "ready"
  /\ \E node \in mem[p].nodes, enabled \in BOOLEAN :
       /\ CanSetNodeEnabled(mem[p], node, enabled)
       /\ SaveThen(p, NodeSetTo(mem[p], node, enabled), "apply")
  /\ UNCHANGED <<stored, cached, issued, loop>>

RemoveNode(p) ==
  /\ pc[p] = "ready"
  /\ \E node \in mem[p].nodes :
       /\ CanRemoveNode(mem[p], node)
       /\ SaveThen(p, NodeRemoved(mem[p], node), "apply")
  /\ UNCHANGED <<stored, cached, issued, loop>>

\* import-links: text without a supported link is an error, so there is a row.
ImportLinks(p) ==
  /\ pc[p] = "ready"
  /\ \E text \in RowSeqs :
       /\ text # <<>>
       /\ rows' = [rows EXCEPT ![p] = text]
  /\ source' = [source EXCEPT ![p] = Manual]
  /\ pc' = [pc EXCEPT ![p] = "import"]
  /\ UNCHANGED <<stored, cached, issued, mem, todo, after>>

\* One turn of the loop of AppendImportedNodes: a known key is skipped.
ImportRow(p) ==
  /\ pc[p] = "import" /\ rows[p] # <<>>
  /\ LET row == Head(rows[p])
         enabled == source[p] # Manual
     IN  IF KeyKnown(mem[p], row.key) THEN UNCHANGED mem
         ELSE \E name \in Names :
                /\ IsUniqueName(mem[p], row.word, name)
                /\ mem' = [mem EXCEPT ![p] = NodeImported(mem[p], row, name, source[p], enabled)]
  /\ rows' = [rows EXCEPT ![p] = Tail(@)]
  /\ UNCHANGED <<stored, cached, issued, pc, source, todo, after>>

\* The loop is done: import-links saves, UpdateSubscriptions takes the next one.
ImportDone(p) ==
  /\ pc[p] = "import" /\ rows[p] = <<>>
  /\ IF source[p] = Manual THEN SaveThen(p, mem[p], "idle")
     ELSE pc' = [pc EXCEPT ![p] = "update"] /\ UNCHANGED <<mem, after>>
  /\ source' = [source EXCEPT ![p] = Manual]
  /\ UNCHANGED <<stored, cached, issued, rows, todo>>
-----------------------------------------------------------------------------
(* Commands on rules *)

AddRule(p) ==
  /\ pc[p] = "ready"
  /\ \E list \in Lists, match \in Matches, target \in Names :
       /\ ValidateTargetValue(mem[p], target)
       /\ Len(mem[p][list]) < MaxRules
       /\ SaveThen(p, RuleAdded(mem[p], list, [match |-> match, target |-> target]), "idle")
  /\ UNCHANGED <<stored, cached, issued, loop>>

RemoveRule(p) ==
  /\ pc[p] = "ready"
  /\ \E list \in Lists : \E i \in DOMAIN mem[p][list] :
       SaveThen(p, RuleRemoved(mem[p], list, i), "idle")
  /\ UNCHANGED <<stored, cached, issued, loop>>
-----------------------------------------------------------------------------
(* Commands on subscriptions *)

AddSubscription(p) ==
  /\ pc[p] = "ready"
  /\ \E url \in Urls, enabled \in BOOLEAN :
       IF UrlKnown(mem[p], url)
       THEN SaveThen(p, SubscriptionReset(mem[p], url, enabled), "idle") /\ UNCHANGED issued
       ELSE \E id \in SubIds \ issued :
              /\ SaveThen(p, SubscriptionAdded(mem[p], id, url, enabled), "idle")
              /\ issued' = issued \cup {id}
  /\ UNCHANGED <<stored, cached, loop>>

SetSubscriptionEnabled(p) ==
  /\ pc[p] = "ready"
  /\ \E sub \in mem[p].subs, enabled \in BOOLEAN :
       SaveThen(p, SubscriptionSetTo(mem[p], sub, enabled), "idle")
  /\ UNCHANGED <<stored, cached, issued, loop>>

RemoveSubscription(p) ==
  /\ pc[p] = "ready"
  /\ \E sub \in mem[p].subs :
       /\ mem' = [mem EXCEPT ![p] = SubscriptionRemoved(mem[p], sub)]
       /\ source' = [source EXCEPT ![p] = sub.id]
  /\ pc' = [pc EXCEPT ![p] = "remove"]
  /\ UNCHANGED <<stored, cached, issued, rows, todo, after>>

\* os.Remove of the cache file comes before the save; if it fails, the command
\* ends with an error and the document stays as it was.
RemoveCache(p) ==
  /\ pc[p] = "remove"
  /\ \/ cached' = cached \ {source[p]} /\ SaveThen(p, mem[p], "idle")
     \/ /\ source[p] \in cached /\ UNCHANGED <<cached, after>>
        /\ pc' = [pc EXCEPT ![p] = "idle"] /\ Forget(p)
  /\ source' = [source EXCEPT ![p] = Manual]
  /\ UNCHANGED <<stored, issued, rows, todo>>

\* UpdateSubscriptions takes every enabled subscription of its copy in turn.
UpdateSubscriptions(p) ==
  /\ pc[p] = "ready"
  /\ todo' = [todo EXCEPT ![p] = {s.id : s \in {t \in mem[p].subs : t.enabled}}]
  /\ todo'[p] # {}
  /\ pc' = [pc EXCEPT ![p] = "update"]
  /\ UNCHANGED <<stored, cached, issued, mem, source, rows, after>>

\* A fetch takes up to 30 seconds.  On success the body goes to the cache file,
\* the old nodes of this subscription are purged and its rows are imported.
Fetch(p) ==
  /\ pc[p] = "update"
  /\ \E id \in todo[p], text \in RowSeqs :
       /\ cached' = cached \cup {id}
       /\ mem' = [mem EXCEPT ![p].nodes = PurgeSubscriptionNodes(@, id)]
       /\ source' = [source EXCEPT ![p] = id]
       /\ rows' = [rows EXCEPT ![p] = text]
       /\ todo' = [todo EXCEPT ![p] = @ \ {id}]
  /\ pc' = [pc EXCEPT ![p] = "import"]
  /\ UNCHANGED <<stored, issued, after>>

\* A bug: the old nodes are purged before the fetch is known to have succeeded.
FetchFails_Purges(p) ==
  /\ pc[p] = "update"
  /\ \E id \in todo[p] :
       /\ mem' = [mem EXCEPT ![p].nodes = PurgeSubscriptionNodes(@, id)]
       /\ todo' = [todo EXCEPT ![p] = @ \ {id}]
       /\ cached' \in {cached, cached \cup {id}}
  /\ UNCHANGED <<stored, issued, pc, source, rows, after>>

\* A failed fetch only records the error: the nodes of last time stay.  If it is the
\* write of the cache file that fails, the file may be there all the same.
FetchFails(p) ==
  /\ pc[p] = "update"
  /\ \E id \in todo[p] :
       /\ todo' = [todo EXCEPT ![p] = @ \ {id}]
       /\ cached' \in {cached, cached \cup {id}}
  /\ UNCHANGED <<stored, issued, pc, mem, source, rows, after>>

UpdateDone(p) ==
  /\ pc[p] = "update" /\ todo[p] = {}
  /\ SaveThen(p, mem[p], "idle")
  /\ UNCHANGED <<stored, cached, issued, loop>>
-----------------------------------------------------------------------------
(* A process dies: its copy is gone and the file stays as the last step left it *)

Crash(p) ==
  /\ pc[p] # "idle"
  /\ pc' = [pc EXCEPT ![p] = "idle"]
  /\ Forget(p)
  /\ source' = [source EXCEPT ![p] = Manual]
  /\ rows' = [rows EXCEPT ![p] = <<>>]
  /\ todo' = [todo EXCEPT ![p] = {}]
  /\ after' = [after EXCEPT ![p] = "idle"]
  /\ UNCHANGED <<stored, cached, issued>>

Command(p) ==
  \/ RenameNode(p) \/ SetNodeEnabled(p) \/ RemoveNode(p) \/ ImportLinks(p)
  \/ AddRule(p) \/ RemoveRule(p)
  \/ AddSubscription(p) \/ SetSubscriptionEnabled(p) \/ RemoveSubscription(p)
  \/ UpdateSubscriptions(p) \/ Leave(p)

Continue(p) ==
  \/ ImportRow(p) \/ ImportDone(p) \/ RemoveCache(p)
  \/ Fetch(p) \/ FetchFails(p) \/ UpdateDone(p)
  \/ Truncate(p) \/ Write(p) \/ Apply(p)

Next == \E p \in Procs : Load(p) \/ Create(p) \/ Command(p) \/ Continue(p) \/ Crash(p)

Spec == Init /\ [][Next]_vars
-----------------------------------------------------------------------------
(* Properties *)

\* However the commands interleave and die, a readable document never has two
\* nodes with one base key or one name, or a node named like a reserved target:
\* uniqueName, the key map of AppendImportedNodes and RenameNode see to it, each
\* on a copy that may be out of date.
StoredIdentities ==
  file = "doc" => KeysUnique(disk) /\ NamesUnique(disk) /\ NoReservedNames(disk)

\* A rule or ACL entry that names a node names an enabled manual node of the same
\* document: AddRule, RenameNode, SetNodeEnabled and RemoveNode keep it together.
StoredTargetsLive == file = "doc" => NamedTargetsLive(disk)

\* No list holds one rule twice.  Renaming retargets rules, so this also needs
\* that no rule can already name the new name.
StoredRulesDistinct == file = "doc" => NoDuplicateRules(disk)

\* Ids and URLs of subscriptions are unique and no provider-managed node outlives
\* its subscription (AddSubscription, RemoveSubscription, UpdateSubscriptions).
StoredSubscriptions ==
  file = "doc" => SubscriptionsUnique(disk) /\ SubscriptionNodesOwned(disk)

\* All of the above at once: whatever an interleaving of commands leaves in
\* state.json, a later command that can read it starts from a consistent document.
StoredDocOK == file = "doc" => DocOK(disk)

\* The inductive form of StoredDocOK: the copy of every process is consistent too,
\* ids come from newID, and a refresh only fetches subscriptions of its copy.
Refreshing(p) == pc[p] = "update" \/ (pc[p] = "import" /\ source[p] # Manual)
CopyOK(p) ==
  /\ DocOK(mem[p]) /\ Ids(mem[p]) \subseteq issued
  /\ Refreshing(p) => todo[p] \subseteq Ids(mem[p])
  /\ pc[p] = "import" /\ source[p] # Manual => source[p] \in Ids(mem[p])
StoreInv ==
  /\ DocOK(disk) /\ Ids(disk) \subseteq issued
  /\ \A p \in Procs : CopyOK(p)

\* UpdateSubscriptions, from its first fetch to its save, changes no manual node,
\* no rule and no subscription entry of the copy it holds, and drops a node only where a
\* new body of the node's own subscription has arrived: the nodes of one whose fetch
\* fails stay, whatever the others bring (purgeSubscriptionNodes in updateSubscription).
ManualPart(doc) == [doc EXCEPT !.nodes = {n \in @ : n.source = Manual}]
RefreshKeepsTheRest ==
  [][\A p \in Procs : Refreshing(p) /\ pc'[p] # "idle" =>
       /\ ManualPart(mem'[p]) = ManualPart(mem[p])
       /\ \A n \in mem[p].nodes \ mem'[p].nodes : pc'[p] = "import" /\ n.source = source'[p]]_vars

\* Once state.json is unreadable and no command is under way, no command ever
\* replaces it: a damaged document is reported, never silently started over.
Unreadable == file \in {"empty", "garbled"} /\ \A p \in Procs : pc[p] = "idle"
UnreadableIsPermanent == [](Unreadable => []Unreadable)
=============================================================================
