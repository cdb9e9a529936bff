------------------------------ MODULE StateDoc ------------------------------
(***************************************************************************)
(* The state document (state.json) and the pure part of every operation    *)
(* on it: nodes, rules, the ACL and subscriptions.  For each operation     *)
(* there is a guard (the checks the Go function makes before it saves) and *)
(* the document it saves.  No variable is declared here: StateStore runs   *)
(* these operators as processes over the stored file.                      *)
(*                                                                         *)
(* Nodes and subscriptions are sets: their order in the file only decides  *)
(* which index an operator types, and every index is tried.  Rule lists    *)
(* are sequences, since the first matching rule wins.  A name is a pair    *)
(* <<word, i>>: <<w, 1>> is the word itself and <<w, i>> is "w-i", the     *)
(* candidates uniqueName tries.  A link is its base key (URIBaseKey) and   *)
(* the word it suggests as a name.                                         *)
(***************************************************************************)
EXTENDS Integers, Sequences, FiniteSets

CONSTANTS
  Words,      \* words that links and operators use as names
  Builtin,    \* reserved targets that are always legal: DIRECT, PROXY, REJECT
  AutoTarget, \* the reserved target AUTO
  MaxSuffix,  \* bound: the highest suffix of a name
  Keys,       \* base keys of links
  Matches,    \* what a rule matches: its kind and pattern together
  Urls,       \* subscription URLs
  SubIds,     \* identifiers newID may draw for subscriptions
  Manual      \* the source of an imported (not provider-managed) node

ASSUME DocAssumption ==
  /\ MaxSuffix \in Nat \ {0}
  /\ AutoTarget \notin Builtin
  /\ Manual \notin SubIds

BuiltinNames == Builtin \X {1}
AutoName == <<AutoTarget, 1>>
Reserved == BuiltinNames \cup {AutoName}
Names == (Words \X (1..MaxSuffix)) \cup Reserved

Row == [key: Keys, word: Words]
Node == [key: Keys, name: Names, enabled: BOOLEAN, source: SubIds \cup {Manual}]
Rule == [match: Matches, target: Names]
Subscription == [id: SubIds, url: Urls, enabled: BOOLEAN]
Doc == [nodes: SUBSET Node, rules: Seq(Rule), acl: Seq(Rule), subs: SUBSET Subscription]

EmptyDoc == [nodes |-> {}, rules |-> <<>>, acl |-> <<>>, subs |-> {}]
-----------------------------------------------------------------------------
(* Rule targets *)

RulesOf(doc) == {doc.rules[i] : i \in DOMAIN doc.rules} \cup {doc.acl[i] : i \in DOMAIN doc.acl}

EnabledManual(doc) == {n \in doc.nodes : n.enabled /\ n.source = Manual}
HasEnabledManualNodes(doc) == EnabledManual(doc) # {}

\* What validateRuleTargets accepts: it runs over the whole document.
AllowedTargets(doc) ==
  BuiltinNames
    \cup (IF HasEnabledManualNodes(doc) THEN {AutoName} ELSE {})
    \cup {n.name : n \in EnabledManual(doc)}

ValidateRuleTargets(doc) == \A r \in RulesOf(doc) : r.target \in AllowedTargets(doc)

\* What validateTargetValue accepts: it looks at the one target of a new rule.
ValidateTargetValue(doc, target) ==
  IF target \in Reserved
  THEN target = AutoName => HasEnabledManualNodes(doc)
  ELSE \E n \in doc.nodes : n.name = target /\ n.source = Manual /\ n.enabled

NodeReferencedByRule(doc, name) == \E r \in RulesOf(doc) : r.target = name

RetargetRule(rule, old, new) ==
  IF rule.target = old THEN [match |-> rule.match, target |-> new] ELSE rule

Retarget(rules, old, new) == [i \in DOMAIN rules |-> RetargetRule(rules[i], old, new)]

\* Mutant: the rule is appended without looking for an equal one.
AppendIfMissingRule_Always(rules, rule) == Append(rules, rule)

AppendIfMissingRule(rules, rule) ==
  IF \E i \in DOMAIN rules : rules[i] = rule THEN rules ELSE Append(rules, rule)

\* Mutant: the slot is blanked, not removed.
RemoveIndex_Blank(rules, i) ==
  [rules EXCEPT ![i] = [match |-> Manual, target |-> <<Manual, 0>>]]

RemoveIndex(rules, i) ==
  [j \in 1..(Len(rules) - 1) |-> IF j < i THEN rules[j] ELSE rules[j + 1]]
-----------------------------------------------------------------------------
(* Operations on nodes: RenameNode, SetNodeEnabled, RemoveNode *)

CanRename(doc, node, name) ==
  /\ node.source = Manual
  /\ name \notin Reserved
  /\ \A other \in doc.nodes \ {node} : other.name # name

\* Mutant: the ACL keeps the old name.
Renamed_RulesOnly(doc, node, name) ==
  [doc EXCEPT !.nodes = (@ \ {node}) \cup {[node EXCEPT !.name = name]},
              !.rules = Retarget(@, node.name, name)]

Renamed(doc, node, name) ==
  [doc EXCEPT !.nodes = (@ \ {node}) \cup {[node EXCEPT !.name = name]},
              !.rules = Retarget(@, node.name, name),
              !.acl   = Retarget(@, node.name, name)]

NodeSetTo(doc, node, enabled) ==
  [doc EXCEPT !.nodes = (@ \ {node}) \cup {[node EXCEPT !.enabled = enabled]}]

CanSetNodeEnabled(doc, node, enabled) ==
  /\ node.source = Manual
  /\ ~enabled => ~NodeReferencedByRule(doc, node.name)
  /\ ValidateRuleTargets(NodeSetTo(doc, node, enabled))

CanRemoveNode(doc, node) ==
  /\ node.source = Manual
  /\ node.name \notin Reserved => ~NodeReferencedByRule(doc, node.name)

NodeRemoved(doc, node) == [doc EXCEPT !.nodes = @ \ {node}]
-----------------------------------------------------------------------------
(* Importing links: AppendImportedNodes, one row at a time *)

\* Mutant: a reserved word is as good as any other.
IsUniqueName_AllowReserved(doc, word, name) ==
  LET Taken(candidate) == \E n \in doc.nodes : n.name = candidate
  IN  /\ name[1] = word
      /\ ~Taken(name)
      /\ \A i \in 1..(name[2] - 1) : Taken(<<word, i>>)

\* uniqueName walks preferred, preferred-2, preferred-3, ... and takes the
\* first candidate that is neither taken nor reserved.
IsUniqueName(doc, word, name) ==
  LET Taken(candidate) ==
        candidate \in Reserved \/ \E n \in doc.nodes : n.name = candidate
  IN  /\ name[1] = word
      /\ ~Taken(name)
      /\ \A i \in 1..(name[2] - 1) : Taken(<<word, i>>)

KeyKnown(doc, key) == \E n \in doc.nodes : n.key = key

NodeImported(doc, row, name, source, enabled) ==
  [doc EXCEPT !.nodes = @ \cup
     {[key |-> row.key, name |-> name, enabled |-> enabled, source |-> source]}]
-----------------------------------------------------------------------------
(* Rules: AddRule, RemoveRule; list is "rules" or "acl" *)

RuleAdded(doc, list, rule) ==
  IF list = "acl" THEN [doc EXCEPT !.acl = AppendIfMissingRule(@, rule)]
                  ELSE [doc EXCEPT !.rules = AppendIfMissingRule(@, rule)]

RuleRemoved(doc, list, i) ==
  IF list = "acl" THEN [doc EXCEPT !.acl = RemoveIndex(@, i)]
                  ELSE [doc EXCEPT !.rules = RemoveIndex(@, i)]
-----------------------------------------------------------------------------
(* Subscriptions: AddSubscription, SetSubscriptionEnabled, RemoveSubscription *)

PurgeSubscriptionNodes(nodes, id) == {n \in nodes : n.source # id}

Ids(doc) == {s.id : s \in doc.subs}
UrlKnown(doc, url) == \E s \in doc.subs : s.url = url

\* AddSubscription on a URL already listed: only the entry changes.
SubscriptionReset(doc, url, enabled) ==
  [doc EXCEPT !.subs = {IF s.url = url THEN [s EXCEPT !.enabled = enabled] ELSE s : s \in @}]

SubscriptionAdded(doc, id, url, enabled) ==
  [doc EXCEPT !.subs = @ \cup {[id |-> id, url |-> url, enabled |-> enabled]}]

SubscriptionSetTo(doc, sub, enabled) ==
  [doc EXCEPT !.subs  = (@ \ {sub}) \cup {[sub EXCEPT !.enabled = enabled]},
              !.nodes = IF enabled THEN @ ELSE PurgeSubscriptionNodes(@, sub.id)]

\* Mutant: the nodes of the removed subscription stay.
SubscriptionRemoved_KeepsNodes(doc, sub) == [doc EXCEPT !.subs = @ \ {sub}]

SubscriptionRemoved(doc, sub) ==
  [doc EXCEPT !.subs  = @ \ {sub},
              !.nodes = PurgeSubscriptionNodes(@, sub.id)]
-----------------------------------------------------------------------------
(* What makes a document consistent *)

KeysUnique(doc)  == \A m, n \in doc.nodes : m.key = n.key => m = n
NamesUnique(doc) == \A m, n \in doc.nodes : m.name = n.name => m = n
NoReservedNames(doc) == \A n \in doc.nodes : n.name \notin Reserved

\* A rule that names a node names an enabled manual one.
NamedTargetsLive(doc) ==
  \A r \in RulesOf(doc) :
    r.target \notin Reserved => \E n \in EnabledManual(doc) : n.name = r.target

NoRepeats(rules) == \A i, j \in DOMAIN rules : rules[i] = rules[j] => i = j
NoDuplicateRules(doc) == NoRepeats(doc.rules) /\ NoRepeats(doc.acl)

SubscriptionsUnique(doc) ==
  \A s, t \in doc.subs : s.id = t.id \/ s.url = t.url => s = t

\* Every provider-managed node belongs to a subscription of the same document.
SubscriptionNodesOwned(doc) ==
  \A n \in doc.nodes : n.source # Manual => \E s \in doc.subs : s.id = n.source

DocOK(doc) ==
  /\ KeysUnique(doc)
  /\ NamesUnique(doc)
  /\ NoReservedNames(doc)
  /\ NamedTargetsLive(doc)
  /\ NoDuplicateRules(doc)
  /\ SubscriptionsUnique(doc)
  /\ SubscriptionNodesOwned(doc)
=============================================================================
