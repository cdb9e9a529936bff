-------------------------- MODULE StateStoreProofs --------------------------
(***************************************************************************)
(* Theorems about StateStore for any number of processes and any constants *)
(* that satisfy the named assumptions.  TypeOK /\ StoreInv is inductive:   *)
(* every action changes the copy of one process, and CopyStep reduces the  *)
(* proof that it keeps StoreInv to that copy; the lemmas about StateDoc,   *)
(* which come first, then say that each operation of a document keeps its  *)
(* type and, under its guard, its consistency DocOK.                       *)
(***************************************************************************)
EXTENDS StateStore, SequenceTheorems, TLAPS

LEMMA NamesType ==
  /\ Reserved \subseteq Names
  /\ AutoName \in Names /\ BuiltinNames \subseteq Names
  /\ AutoName \in Reserved /\ BuiltinNames \subseteq Reserved
BY DEF Reserved, Names

LEMMA EmptyDocOK == EmptyDoc \in Doc /\ DocOK(EmptyDoc)
<1>1. EmptyDoc \in Doc
  BY DEF EmptyDoc, Doc
<1>2. RulesOf(EmptyDoc) = {}
  BY DEF EmptyDoc, RulesOf
<1>3. QED
  BY <1>1, <1>2 DEF EmptyDoc, DocOK, KeysUnique, NamesUnique, NoReservedNames, NamedTargetsLive,
     NoDuplicateRules, NoRepeats, SubscriptionsUnique, SubscriptionNodesOwned
-----------------------------------------------------------------------------
(* Rule lists *)

LEMMA RetargetRuleType ==
  ASSUME NEW rule \in Rule, NEW old, NEW new \in Names
  PROVE  /\ RetargetRule(rule, old, new) \in Rule
         /\ RetargetRule(rule, old, new).match = rule.match
         /\ RetargetRule(rule, old, new).target = IF rule.target = old THEN new ELSE rule.target
BY DEF RetargetRule, Rule

LEMMA RetargetType ==
  ASSUME NEW rules \in Seq(Rule), NEW old, NEW new \in Names
  PROVE  /\ Retarget(rules, old, new) \in Seq(Rule)
         /\ DOMAIN Retarget(rules, old, new) = DOMAIN rules
         /\ \A i \in DOMAIN rules :
              Retarget(rules, old, new)[i] = RetargetRule(rules[i], old, new)
<1>1. \A i \in DOMAIN rules : RetargetRule(rules[i], old, new) \in Rule
  BY RetargetRuleType
<1>2. QED
  BY <1>1 DEF Retarget

\* A list without repeats in which nothing targets new stays without repeats
\* when the rules that target old are pointed at new.
LEMMA RetargetNoRepeats ==
  ASSUME NEW rules \in Seq(Rule), NEW old, NEW new \in Names,
         NoRepeats(rules),
         old # new => \A i \in DOMAIN rules : rules[i].target # new
  PROVE  NoRepeats(Retarget(rules, old, new))
<1> SUFFICES ASSUME NEW i \in DOMAIN rules, NEW j \in DOMAIN rules,
                    RetargetRule(rules[i], old, new) = RetargetRule(rules[j], old, new)
             PROVE  rules[i] = rules[j]
  BY RetargetType DEF NoRepeats
<1>1. rules[i] \in Rule /\ rules[j] \in Rule
  OBVIOUS
<1>2. rules[i].match = rules[j].match
  BY <1>1, RetargetRuleType
<1>3. rules[i].target = rules[j].target
  BY <1>1, RetargetRuleType
<1>4. QED
  BY <1>1, <1>2, <1>3 DEF Rule

LEMMA AppendIfMissingRuleType ==
  ASSUME NEW rules \in Seq(Rule), NEW rule \in Rule
  PROVE  /\ AppendIfMissingRule(rules, rule) \in Seq(Rule)
         /\ \A i \in DOMAIN AppendIfMissingRule(rules, rule) :
              \/ AppendIfMissingRule(rules, rule)[i] = rule
              \/ \E j \in DOMAIN rules : AppendIfMissingRule(rules, rule)[i] = rules[j]
         /\ NoRepeats(rules) => NoRepeats(AppendIfMissingRule(rules, rule))
BY DEF AppendIfMissingRule, NoRepeats

LEMMA RemoveIndexType ==
  ASSUME NEW rules \in Seq(Rule), NEW i \in DOMAIN rules
  PROVE  /\ RemoveIndex(rules, i) \in Seq(Rule)
         /\ \A j \in DOMAIN RemoveIndex(rules, i) :
              \E k \in DOMAIN rules : RemoveIndex(rules, i)[j] = rules[k]
         /\ NoRepeats(rules) => NoRepeats(RemoveIndex(rules, i))
BY DEF RemoveIndex, NoRepeats
-----------------------------------------------------------------------------
(* Documents *)

LEMMA RulesOfDoc ==
  ASSUME NEW doc \in Doc
  PROVE  /\ \A i \in DOMAIN doc.rules : doc.rules[i] \in RulesOf(doc)
         /\ \A i \in DOMAIN doc.acl : doc.acl[i] \in RulesOf(doc)
         /\ RulesOf(doc) \subseteq Rule
BY DEF RulesOf, Doc

LEMMA RenamedType ==
  ASSUME NEW doc \in Doc, NEW node \in doc.nodes, NEW name \in Names
  PROVE  /\ Renamed(doc, node, name) \in Doc
         /\ Renamed(doc, node, name).nodes =
              (doc.nodes \ {node}) \cup {[node EXCEPT !.name = name]}
         /\ Renamed(doc, node, name).rules = Retarget(doc.rules, node.name, name)
         /\ Renamed(doc, node, name).acl = Retarget(doc.acl, node.name, name)
         /\ Renamed(doc, node, name).subs = doc.subs
         /\ [node EXCEPT !.name = name] \in Node
<1>1. node \in Node /\ doc.rules \in Seq(Rule) /\ doc.acl \in Seq(Rule)
  BY DEF Doc
<1>2. [node EXCEPT !.name = name] \in Node
  BY <1>1 DEF Node
<1>3. /\ Retarget(doc.rules, node.name, name) \in Seq(Rule)
      /\ Retarget(doc.acl, node.name, name) \in Seq(Rule)
  BY <1>1, RetargetType
<1>4. QED
  BY <1>1, <1>2, <1>3 DEF Renamed, Doc

\* A rename under its guard keeps every part of DocOK: no rule can already name
\* the new name, since a rule names a node and no other node has that name.
LEMMA RenamedOK ==
  ASSUME NEW doc \in Doc, NEW node \in doc.nodes, NEW name \in Names,
         DocOK(doc), CanRename(doc, node, name)
  PROVE  DocOK(Renamed(doc, node, name))
<1> DEFINE new == Renamed(doc, node, name)
           moved == [node EXCEPT !.name = name]
<1>1. /\ new \in Doc /\ moved \in Node /\ node \in Node
      /\ new.nodes = (doc.nodes \ {node}) \cup {moved}
      /\ new.rules = Retarget(doc.rules, node.name, name)
      /\ new.acl = Retarget(doc.acl, node.name, name)
      /\ new.subs = doc.subs
  BY RenamedType DEF Doc
<1>2. /\ moved.key = node.key /\ moved.name = name
      /\ moved.enabled = node.enabled /\ moved.source = node.source
  BY <1>1 DEF Node
<1> HIDE DEF new, moved
<1>3. /\ node.source = Manual /\ name \notin Reserved
      /\ \A other \in doc.nodes \ {node} : other.name # name
  BY DEF CanRename
<1>4. KeysUnique(new)
  BY <1>1, <1>2 DEF DocOK, KeysUnique
<1>5. NamesUnique(new)
  BY <1>1, <1>2, <1>3 DEF DocOK, NamesUnique
<1>6. NoReservedNames(new)
  BY <1>1, <1>2, <1>3 DEF DocOK, NoReservedNames
<1>7. NamedTargetsLive(new)
  <2> SUFFICES ASSUME NEW r \in RulesOf(new), r.target \notin Reserved
               PROVE  \E n \in EnabledManual(new) : n.name = r.target
    BY DEF NamedTargetsLive
  <2>1. PICK q \in RulesOf(doc) : r = RetargetRule(q, node.name, name)
    <3>1. doc.rules \in Seq(Rule) /\ doc.acl \in Seq(Rule)
      BY DEF Doc
    <3>2. CASE \E i \in DOMAIN new.rules : r = new.rules[i]
      BY <3>1, <3>2, <1>1, RetargetType, RulesOfDoc
    <3>3. CASE \E i \in DOMAIN new.acl : r = new.acl[i]
      BY <3>1, <3>3, <1>1, RetargetType, RulesOfDoc
    <3>4. QED
      BY <3>2, <3>3 DEF RulesOf
  <2>2. q \in Rule
    BY RulesOfDoc
  <2>3. CASE q.target = node.name
    <3>1. r.target = name
      BY <2>1, <2>2, <2>3, RetargetRuleType
    <3>2. node.name \notin Reserved
      BY DEF DocOK, NoReservedNames
    <3>3. PICK n \in EnabledManual(doc) : n.name = node.name
      BY <2>3, <3>2 DEF DocOK, NamedTargetsLive
    <3>4. n = node
      BY <3>3 DEF DocOK, NamesUnique, EnabledManual
    <3>5. moved \in EnabledManual(new)
      BY <1>1, <1>2, <3>3, <3>4 DEF EnabledManual
    <3>6. QED
      BY <3>1, <3>5, <1>2
  <2>4. CASE q.target # node.name
    <3>1. r.target = q.target
      BY <2>1, <2>2, <2>4, RetargetRuleType
    <3>2. PICK n \in EnabledManual(doc) : n.name = q.target
      BY <3>1 DEF DocOK, NamedTargetsLive
    <3>3. n \in EnabledManual(new)
      BY <1>1, <3>2, <2>4 DEF EnabledManual
    <3>4. QED
      BY <3>1, <3>2, <3>3
  <2>5. QED
    BY <2>3, <2>4
<1>8. NoDuplicateRules(new)
  <2>1. \A r \in RulesOf(doc) : node.name # name => r.target # name
    BY <1>3 DEF DocOK, NamedTargetsLive, EnabledManual
  <2>2. doc.rules \in Seq(Rule) /\ doc.acl \in Seq(Rule)
    BY DEF Doc
  <2>3. NoRepeats(Retarget(doc.rules, node.name, name))
    <3>1. node.name # name => \A i \in DOMAIN doc.rules : doc.rules[i].target # name
      BY <2>1, RulesOfDoc
    <3>2. QED
      BY <2>2, <3>1, RetargetNoRepeats DEF DocOK, NoDuplicateRules
  <2>4. NoRepeats(Retarget(doc.acl, node.name, name))
    <3>1. node.name # name => \A i \in DOMAIN doc.acl : doc.acl[i].target # name
      BY <2>1, RulesOfDoc
    <3>2. QED
      BY <2>2, <3>1, RetargetNoRepeats DEF DocOK, NoDuplicateRules
  <2>5. QED
    BY <1>1, <2>3, <2>4 DEF NoDuplicateRules
<1>9. SubscriptionsUnique(new)
  BY <1>1 DEF DocOK, SubscriptionsUnique
<1>10. SubscriptionNodesOwned(new)
  BY <1>1, <1>2, <1>3 DEF DocOK, SubscriptionNodesOwned
<1>11. QED
  BY <1>4, <1>5, <1>6, <1>7, <1>8, <1>9, <1>10 DEF new, DocOK
LEMMA NodeSetToType ==
  ASSUME NEW doc \in Doc, NEW node \in doc.nodes, NEW enabled \in BOOLEAN
  PROVE  /\ NodeSetTo(doc, node, enabled) \in Doc
         /\ NodeSetTo(doc, node, enabled).nodes =
              (doc.nodes \ {node}) \cup {[node EXCEPT !.enabled = enabled]}
         /\ NodeSetTo(doc, node, enabled).rules = doc.rules
         /\ NodeSetTo(doc, node, enabled).acl = doc.acl
         /\ NodeSetTo(doc, node, enabled).subs = doc.subs
         /\ [node EXCEPT !.enabled = enabled] \in Node
<1>1. node \in Node
  BY DEF Doc
<1>2. [node EXCEPT !.enabled = enabled] \in Node
  BY <1>1 DEF Node
<1>3. QED
  BY <1>1, <1>2 DEF NodeSetTo, Doc

\* SetNodeEnabled relies on validateRuleTargets of the document it is to save.
LEMMA NodeSetToOK ==
  ASSUME NEW doc \in Doc, NEW node \in doc.nodes, NEW enabled \in BOOLEAN,
         DocOK(doc), CanSetNodeEnabled(doc, node, enabled)
  PROVE  DocOK(NodeSetTo(doc, node, enabled))
<1> DEFINE new == NodeSetTo(doc, node, enabled)
           changed == [node EXCEPT !.enabled = enabled]
<1>1. /\ new \in Doc /\ changed \in Node /\ node \in Node
      /\ new.nodes = (doc.nodes \ {node}) \cup {changed}
      /\ new.rules = doc.rules /\ new.acl = doc.acl /\ new.subs = doc.subs
  BY NodeSetToType DEF Doc
<1>2. /\ changed.key = node.key /\ changed.name = node.name
      /\ changed.enabled = enabled /\ changed.source = node.source
  BY <1>1 DEF Node
<1>3. ValidateRuleTargets(new) /\ node.source = Manual
  BY DEF CanSetNodeEnabled
<1> HIDE DEF new, changed
<1>4. KeysUnique(new) /\ NamesUnique(new) /\ NoReservedNames(new)
  BY <1>1, <1>2 DEF DocOK, KeysUnique, NamesUnique, NoReservedNames
<1>5. NamedTargetsLive(new)
  BY <1>3 DEF ValidateRuleTargets, AllowedTargets, NamedTargetsLive, Reserved
<1>6. NoDuplicateRules(new) /\ SubscriptionsUnique(new)
  BY <1>1 DEF DocOK, NoDuplicateRules, SubscriptionsUnique
<1>7. SubscriptionNodesOwned(new)
  BY <1>1, <1>2, <1>3 DEF DocOK, SubscriptionNodesOwned
<1>8. QED
  BY <1>4, <1>5, <1>6, <1>7 DEF new, DocOK

LEMMA NodeRemovedOK ==
  ASSUME NEW doc \in Doc, NEW node \in doc.nodes,
         DocOK(doc), CanRemoveNode(doc, node)
  PROVE  /\ NodeRemoved(doc, node) \in Doc
         /\ NodeRemoved(doc, node).subs = doc.subs
         /\ DocOK(NodeRemoved(doc, node))
<1> DEFINE new == NodeRemoved(doc, node)
<1>1. /\ new \in Doc
      /\ new.nodes = doc.nodes \ {node}
      /\ new.rules = doc.rules /\ new.acl = doc.acl /\ new.subs = doc.subs
  BY DEF NodeRemoved, Doc
<1> HIDE DEF new
<1>2. ~NodeReferencedByRule(doc, node.name)
  BY DEF CanRemoveNode, DocOK, NoReservedNames
<1>3. NamedTargetsLive(new)
  BY <1>1, <1>2 DEF DocOK, NamedTargetsLive, NodeReferencedByRule, EnabledManual, RulesOf
<1>4. /\ KeysUnique(new) /\ NamesUnique(new) /\ NoReservedNames(new)
      /\ NoDuplicateRules(new) /\ SubscriptionsUnique(new) /\ SubscriptionNodesOwned(new)
  BY <1>1 DEF DocOK, KeysUnique, NamesUnique, NoReservedNames, NoDuplicateRules,
     SubscriptionsUnique, SubscriptionNodesOwned
<1>5. QED
  BY <1>1, <1>3, <1>4 DEF new, DocOK

LEMMA NodeImportedOK ==
  ASSUME NEW doc \in Doc, NEW row \in Row, NEW name \in Names,
         NEW from \in SubIds \cup {Manual}, NEW enabled \in BOOLEAN,
         DocOK(doc), ~KeyKnown(doc, row.key), IsUniqueName(doc, row.word, name),
         from # Manual => from \in Ids(doc)
  PROVE  /\ NodeImported(doc, row, name, from, enabled) \in Doc
         /\ NodeImported(doc, row, name, from, enabled).subs = doc.subs
         /\ DocOK(NodeImported(doc, row, name, from, enabled))
<1> DEFINE node == [key |-> row.key, name |-> name, enabled |-> enabled, source |-> from]
           new == NodeImported(doc, row, name, from, enabled)
<1>1. /\ node \in Node
      /\ node.key = row.key /\ node.name = name
      /\ node.source = from
  BY DEF Node, Row
<1>2. /\ new \in Doc
      /\ new.nodes = doc.nodes \cup {node}
      /\ new.rules = doc.rules /\ new.acl = doc.acl /\ new.subs = doc.subs
  BY <1>1 DEF NodeImported, Doc
<1> HIDE DEF new, node
<1>3. name \notin Reserved /\ \A n \in doc.nodes : n.name # name
  BY DEF IsUniqueName
<1>4. KeysUnique(new) /\ NamesUnique(new) /\ NoReservedNames(new)
  BY <1>1, <1>2, <1>3 DEF DocOK, KeysUnique, KeyKnown, NamesUnique, NoReservedNames
<1>5. NamedTargetsLive(new)
  BY <1>2 DEF DocOK, NamedTargetsLive, EnabledManual, RulesOf
<1>6. NoDuplicateRules(new) /\ SubscriptionsUnique(new)
  BY <1>2 DEF DocOK, NoDuplicateRules, SubscriptionsUnique
<1>7. SubscriptionNodesOwned(new)
  BY <1>1, <1>2 DEF DocOK, SubscriptionNodesOwned, Ids
<1>8. QED
  BY <1>2, <1>4, <1>5, <1>6, <1>7 DEF new, DocOK
LEMMA RuleAddedOK ==
  ASSUME NEW doc \in Doc, NEW list, NEW rule \in Rule,
         DocOK(doc), ValidateTargetValue(doc, rule.target)
  PROVE  /\ RuleAdded(doc, list, rule) \in Doc
         /\ RuleAdded(doc, list, rule).subs = doc.subs
         /\ DocOK(RuleAdded(doc, list, rule))
<1> DEFINE new == RuleAdded(doc, list, rule)
<1>1. doc.rules \in Seq(Rule) /\ doc.acl \in Seq(Rule)
  BY DEF Doc
<1>2. /\ AppendIfMissingRule(doc.rules, rule) \in Seq(Rule)
      /\ AppendIfMissingRule(doc.acl, rule) \in Seq(Rule)
  BY <1>1, AppendIfMissingRuleType
<1>3. /\ new \in Doc /\ new.nodes = doc.nodes /\ new.subs = doc.subs
      /\ new.rules = IF list = "acl" THEN doc.rules ELSE AppendIfMissingRule(doc.rules, rule)
      /\ new.acl = IF list = "acl" THEN AppendIfMissingRule(doc.acl, rule) ELSE doc.acl
  BY <1>2 DEF RuleAdded, Doc
<1> HIDE DEF new
<1>4. \A r \in RulesOf(new) : r = rule \/ r \in RulesOf(doc)
  <2> SUFFICES ASSUME NEW r \in RulesOf(new), r # rule
               PROVE  r \in RulesOf(doc)
    OBVIOUS
  <2>1. CASE \E i \in DOMAIN new.rules : r = new.rules[i]
    BY <1>1, <1>3, <2>1, AppendIfMissingRuleType, RulesOfDoc
  <2>2. CASE \E i \in DOMAIN new.acl : r = new.acl[i]
    BY SMTT(40), <1>1, <1>3, <2>2, AppendIfMissingRuleType, RulesOfDoc
  <2>3. QED
    BY <2>1, <2>2 DEF RulesOf
<1>5. rule.target \notin Reserved => \E n \in EnabledManual(doc) : n.name = rule.target
  BY DEF ValidateTargetValue, EnabledManual
<1>6. NamedTargetsLive(new)
  BY <1>3, <1>4, <1>5 DEF DocOK, NamedTargetsLive, EnabledManual
<1>7. NoDuplicateRules(new)
  BY <1>1, <1>3, AppendIfMissingRuleType DEF DocOK, NoDuplicateRules
<1>8. /\ KeysUnique(new) /\ NamesUnique(new) /\ NoReservedNames(new)
      /\ SubscriptionsUnique(new) /\ SubscriptionNodesOwned(new)
  BY <1>3 DEF DocOK, KeysUnique, NamesUnique, NoReservedNames, SubscriptionsUnique,
     SubscriptionNodesOwned
<1>9. QED
  BY <1>3, <1>6, <1>7, <1>8 DEF new, DocOK

LEMMA RuleRemovedOK ==
  ASSUME NEW doc \in Doc, NEW list \in {"rules", "acl"}, NEW i \in DOMAIN doc[list],
         DocOK(doc)
  PROVE  /\ RuleRemoved(doc, list, i) \in Doc
         /\ RuleRemoved(doc, list, i).subs = doc.subs
         /\ DocOK(RuleRemoved(doc, list, i))
<1> DEFINE new == RuleRemoved(doc, list, i)
<1>1. doc.rules \in Seq(Rule) /\ doc.acl \in Seq(Rule)
  BY DEF Doc
<1>2. /\ list = "acl" => i \in DOMAIN doc.acl
      /\ list # "acl" => i \in DOMAIN doc.rules
  OBVIOUS
<1>3. /\ list = "acl" => RemoveIndex(doc.acl, i) \in Seq(Rule)
      /\ list # "acl" => RemoveIndex(doc.rules, i) \in Seq(Rule)
  BY <1>1, <1>2, RemoveIndexType
<1>4. /\ new \in Doc /\ new.nodes = doc.nodes /\ new.subs = doc.subs
      /\ new.rules = IF list = "acl" THEN doc.rules ELSE RemoveIndex(doc.rules, i)
      /\ new.acl = IF list = "acl" THEN RemoveIndex(doc.acl, i) ELSE doc.acl
  BY <1>3 DEF RuleRemoved, Doc
<1> HIDE DEF new
<1>5. RulesOf(new) \subseteq RulesOf(doc)
  <2> SUFFICES ASSUME NEW r \in RulesOf(new)
               PROVE  r \in RulesOf(doc)
    OBVIOUS
  <2>1. CASE \E j \in DOMAIN new.rules : r = new.rules[j]
    BY <1>1, <1>2, <1>4, <2>1, RemoveIndexType, RulesOfDoc
  <2>2. CASE \E j \in DOMAIN new.acl : r = new.acl[j]
    BY <1>1, <1>2, <1>4, <2>2, RemoveIndexType, RulesOfDoc
  <2>3. QED
    BY <2>1, <2>2 DEF RulesOf
<1>6. NamedTargetsLive(new)
  BY <1>4, <1>5 DEF DocOK, NamedTargetsLive, EnabledManual
<1>7. NoDuplicateRules(new)
  BY <1>1, <1>2, <1>4, RemoveIndexType DEF DocOK, NoDuplicateRules
<1>8. /\ KeysUnique(new) /\ NamesUnique(new) /\ NoReservedNames(new)
      /\ SubscriptionsUnique(new) /\ SubscriptionNodesOwned(new)
  BY <1>4 DEF DocOK, KeysUnique, NamesUnique, NoReservedNames, SubscriptionsUnique,
     SubscriptionNodesOwned
<1>9. QED
  BY <1>4, <1>6, <1>7, <1>8 DEF new, DocOK
-----------------------------------------------------------------------------
(* Subscriptions *)

LEMMA SubscriptionResetOK ==
  ASSUME NEW doc \in Doc, NEW url \in Urls, NEW enabled \in BOOLEAN, DocOK(doc)
  PROVE  /\ SubscriptionReset(doc, url, enabled) \in Doc
         /\ Ids(SubscriptionReset(doc, url, enabled)) = Ids(doc)
         /\ DocOK(SubscriptionReset(doc, url, enabled))
<1> DEFINE set(s) == IF s.url = url THEN [s EXCEPT !.enabled = enabled] ELSE s
           new == SubscriptionReset(doc, url, enabled)
<1>1. \A s \in doc.subs : s \in Subscription
  BY DEF Doc
<1>2. \A s \in Subscription :
        [s EXCEPT !.enabled = enabled] \in Subscription
          /\ [s EXCEPT !.enabled = enabled].id = s.id
          /\ [s EXCEPT !.enabled = enabled].url = s.url
  BY DEF Subscription
<1>3. \A s \in doc.subs : set(s) \in Subscription /\ set(s).id = s.id /\ set(s).url = s.url
  BY <1>1, <1>2
<1>4. new = [doc EXCEPT !.subs = {set(s) : s \in doc.subs}]
  BY DEF SubscriptionReset
<1> HIDE DEF new, set
<1>5. /\ new \in Doc /\ new.nodes = doc.nodes /\ new.rules = doc.rules /\ new.acl = doc.acl
      /\ new.subs = {set(s) : s \in doc.subs}
  BY <1>3, <1>4 DEF Doc
<1>6. Ids(new) = Ids(doc)
  BY <1>3, <1>5 DEF Ids
<1>7. SubscriptionsUnique(new)
  BY <1>3, <1>5 DEF DocOK, SubscriptionsUnique
<1>8. SubscriptionNodesOwned(new)
  BY <1>3, <1>5 DEF DocOK, SubscriptionNodesOwned
<1>9. /\ KeysUnique(new) /\ NamesUnique(new) /\ NoReservedNames(new)
      /\ NamedTargetsLive(new) /\ NoDuplicateRules(new)
  BY <1>5 DEF DocOK, KeysUnique, NamesUnique, NoReservedNames, NamedTargetsLive,
     EnabledManual, RulesOf, NoDuplicateRules
<1>10. QED
  BY <1>5, <1>6, <1>7, <1>8, <1>9 DEF new, DocOK

LEMMA SubscriptionAddedOK ==
  ASSUME NEW doc \in Doc, NEW id \in SubIds, NEW url \in Urls, NEW enabled \in BOOLEAN,
         DocOK(doc), ~UrlKnown(doc, url), id \notin Ids(doc)
  PROVE  /\ SubscriptionAdded(doc, id, url, enabled) \in Doc
         /\ Ids(SubscriptionAdded(doc, id, url, enabled)) = Ids(doc) \cup {id}
         /\ DocOK(SubscriptionAdded(doc, id, url, enabled))
<1> DEFINE sub == [id |-> id, url |-> url, enabled |-> enabled]
           new == SubscriptionAdded(doc, id, url, enabled)
<1>1. sub \in Subscription /\ sub.id = id /\ sub.url = url
  BY DEF Subscription
<1>2. /\ new \in Doc /\ new.nodes = doc.nodes /\ new.rules = doc.rules /\ new.acl = doc.acl
      /\ new.subs = doc.subs \cup {sub}
  BY <1>1 DEF SubscriptionAdded, Doc
<1> HIDE DEF new, sub
<1>3. Ids(new) = Ids(doc) \cup {id}
  BY <1>1, <1>2 DEF Ids
<1>4. SubscriptionsUnique(new)
  BY <1>1, <1>2 DEF DocOK, SubscriptionsUnique, UrlKnown, Ids
<1>5. SubscriptionNodesOwned(new)
  BY <1>2 DEF DocOK, SubscriptionNodesOwned
<1>6. /\ KeysUnique(new) /\ NamesUnique(new) /\ NoReservedNames(new)
      /\ NamedTargetsLive(new) /\ NoDuplicateRules(new)
  BY <1>2 DEF DocOK, KeysUnique, NamesUnique, NoReservedNames, NamedTargetsLive,
     EnabledManual, RulesOf, NoDuplicateRules
<1>7. QED
  BY <1>2, <1>3, <1>4, <1>5, <1>6 DEF new, DocOK

\* Dropping nodes of a subscription touches nothing an operator edits.
LEMMA PurgedOK ==
  ASSUME NEW doc \in Doc, NEW new \in Doc, NEW id \in SubIds, DocOK(doc),
         new.nodes \subseteq doc.nodes,
         \A n \in doc.nodes \ new.nodes : n.source = id,
         new.rules = doc.rules, new.acl = doc.acl
  PROVE  /\ KeysUnique(new) /\ NamesUnique(new) /\ NoReservedNames(new)
         /\ NamedTargetsLive(new) /\ NoDuplicateRules(new)
<1>1. EnabledManual(new) = EnabledManual(doc)
  BY DocAssumption DEF EnabledManual
<1>2. NamedTargetsLive(new)
  BY <1>1 DEF DocOK, NamedTargetsLive, RulesOf
<1>3. QED
  BY <1>2 DEF DocOK, KeysUnique, NamesUnique, NoReservedNames, NoDuplicateRules

LEMMA RefreshedOK ==
  ASSUME NEW doc \in Doc, NEW id \in SubIds, DocOK(doc)
  PROVE  LET new == [doc EXCEPT !.nodes = PurgeSubscriptionNodes(@, id)]
         IN  new \in Doc /\ new.subs = doc.subs /\ DocOK(new)
<1> DEFINE new == [doc EXCEPT !.nodes = PurgeSubscriptionNodes(@, id)]
<1>1. /\ new \in Doc /\ new.nodes = {n \in doc.nodes : n.source # id}
      /\ new.rules = doc.rules /\ new.acl = doc.acl /\ new.subs = doc.subs
  BY DEF PurgeSubscriptionNodes, Doc
<1> HIDE DEF new
<1>2. /\ KeysUnique(new) /\ NamesUnique(new) /\ NoReservedNames(new)
      /\ NamedTargetsLive(new) /\ NoDuplicateRules(new)
  BY <1>1, PurgedOK
<1>3. SubscriptionsUnique(new) /\ SubscriptionNodesOwned(new)
  BY <1>1 DEF DocOK, SubscriptionsUnique, SubscriptionNodesOwned
<1>4. QED
  BY <1>1, <1>2, <1>3 DEF new, DocOK

LEMMA SubscriptionSetToOK ==
  ASSUME NEW doc \in Doc, NEW sub \in doc.subs, NEW enabled \in BOOLEAN, DocOK(doc)
  PROVE  /\ SubscriptionSetTo(doc, sub, enabled) \in Doc
         /\ Ids(SubscriptionSetTo(doc, sub, enabled)) = Ids(doc)
         /\ DocOK(SubscriptionSetTo(doc, sub, enabled))
<1> DEFINE changed == [sub EXCEPT !.enabled = enabled]
           new == SubscriptionSetTo(doc, sub, enabled)
<1>1. sub \in Subscription /\ sub.id \in SubIds
  BY DEF Doc, Subscription
<1>2. changed \in Subscription /\ changed.id = sub.id /\ changed.url = sub.url
  BY <1>1 DEF Subscription
<1>3. /\ new \in Doc /\ new.rules = doc.rules /\ new.acl = doc.acl
      /\ new.nodes = IF enabled THEN doc.nodes ELSE {n \in doc.nodes : n.source # sub.id}
      /\ new.subs = (doc.subs \ {sub}) \cup {changed}
  BY <1>2 DEF SubscriptionSetTo, PurgeSubscriptionNodes, Doc
<1> HIDE DEF new, changed
<1>4. Ids(new) = Ids(doc)
  BY <1>2, <1>3 DEF Ids
<1>5. /\ KeysUnique(new) /\ NamesUnique(new) /\ NoReservedNames(new)
      /\ NamedTargetsLive(new) /\ NoDuplicateRules(new)
  BY <1>1, <1>3, PurgedOK
<1>6. SubscriptionsUnique(new)
  BY <1>2, <1>3 DEF DocOK, SubscriptionsUnique
<1>7. SubscriptionNodesOwned(new)
  BY <1>2, <1>3 DEF DocOK, SubscriptionNodesOwned
<1>8. QED
  BY <1>3, <1>4, <1>5, <1>6, <1>7 DEF new, DocOK

LEMMA SubscriptionRemovedOK ==
  ASSUME NEW doc \in Doc, NEW sub \in doc.subs, DocOK(doc)
  PROVE  /\ SubscriptionRemoved(doc, sub) \in Doc
         /\ Ids(SubscriptionRemoved(doc, sub)) \subseteq Ids(doc)
         /\ DocOK(SubscriptionRemoved(doc, sub))
<1> DEFINE new == SubscriptionRemoved(doc, sub)
<1>1. sub.id \in SubIds
  BY DEF Doc, Subscription
<1>2. /\ new \in Doc /\ new.rules = doc.rules /\ new.acl = doc.acl
      /\ new.nodes = {n \in doc.nodes : n.source # sub.id}
      /\ new.subs = doc.subs \ {sub}
  BY DEF SubscriptionRemoved, PurgeSubscriptionNodes, Doc
<1> HIDE DEF new
<1>3. /\ KeysUnique(new) /\ NamesUnique(new) /\ NoReservedNames(new)
      /\ NamedTargetsLive(new) /\ NoDuplicateRules(new)
  BY <1>1, <1>2, PurgedOK
<1>4. SubscriptionsUnique(new) /\ SubscriptionNodesOwned(new)
  BY <1>2 DEF DocOK, SubscriptionsUnique, SubscriptionNodesOwned
<1>5. Ids(new) \subseteq Ids(doc)
  BY <1>2 DEF Ids
<1>6. QED
  BY <1>2, <1>3, <1>4, <1>5 DEF new, DocOK
-----------------------------------------------------------------------------
(* The store *)

LEMMA CopyStep ==
  ASSUME NEW p \in Procs, StoreInv,
         \A q \in Procs \ {p} : /\ pc'[q] = pc[q] /\ mem'[q] = mem[q]
                                /\ source'[q] = source[q] /\ todo'[q] = todo[q],
         issued \subseteq issued',
         disk' \in {disk, EmptyDoc, mem[p]},
         CopyOK(p)'
  PROVE  StoreInv'
<1>1. DocOK(disk') /\ Ids(disk') \subseteq issued'
  <2>1. DocOK(EmptyDoc) /\ Ids(EmptyDoc) = {}
    BY EmptyDocOK DEF EmptyDoc, Ids
  <2>2. /\ DocOK(disk) /\ Ids(disk) \subseteq issued
        /\ DocOK(mem[p]) /\ Ids(mem[p]) \subseteq issued
    BY DEF StoreInv, CopyOK
  <2>3. QED
    BY <2>1, <2>2
<1>2. ASSUME NEW q \in Procs \ {p}
      PROVE  CopyOK(q)'
  BY <1>2 DEF StoreInv, CopyOK, Refreshing
<1>3. QED
  BY <1>1, <1>2 DEF StoreInv

\* A process that has nothing left in its hands.
LEMMA EmptyCopy ==
  ASSUME NEW p \in Procs, mem'[p] = EmptyDoc, pc'[p] \notin {"update", "import"}
  PROVE  CopyOK(p)'
BY EmptyDocOK DEF CopyOK, Refreshing, EmptyDoc, Ids

LEMMA InitOK == Init => TypeOK /\ StoreInv
<1> SUFFICES ASSUME Init PROVE TypeOK /\ StoreInv
  OBVIOUS
<1>1. TypeOK
  BY EmptyDocOK DEF Init, TypeOK, Stages
<1>2. StoreInv
  BY EmptyDocOK DEF Init, StoreInv, CopyOK, Refreshing, Ids, EmptyDoc
<1>3. QED
  BY <1>1, <1>2

\* A command that passes its checks and goes on to save a consistent document.
LEMMA SaveStep ==
  ASSUME NEW p \in Procs, NEW doc \in Doc, NEW next \in {"idle", "ready", "apply"},
         TypeOK, StoreInv, SaveThen(p, doc, next),
         DocOK(doc), Ids(doc) \subseteq issued',
         issued \subseteq issued', issued' \subseteq SubIds,
         UNCHANGED stored, cached' \subseteq SubIds,
         UNCHANGED <<rows, todo>>,
         source' = source \/ source' = [source EXCEPT ![p] = Manual]
  PROVE  TypeOK' /\ StoreInv'
<1>1. TypeOK'
  BY DEF TypeOK, SaveThen, stored, Stages
<1>2. CopyOK(p)'
  BY DEF TypeOK, SaveThen, CopyOK, Refreshing
<1>3. QED
  BY <1>1, <1>2, CopyStep DEF TypeOK, SaveThen, stored

LEMMA LoadOK ==
  ASSUME NEW p \in Procs, TypeOK, StoreInv, Load(p)
  PROVE  TypeOK' /\ StoreInv'
<1>1. TypeOK'
  BY DEF TypeOK, Load, stored, loop, Stages
<1>2. CopyOK(p)'
  BY DEF TypeOK, Load, stored, StoreInv, CopyOK, Refreshing
<1>3. QED
  BY <1>1, <1>2, CopyStep DEF TypeOK, Load, stored, loop

LEMMA CreateOK ==
  ASSUME NEW p \in Procs, TypeOK, StoreInv, Create(p)
  PROVE  TypeOK' /\ StoreInv'
<1>1. TypeOK'
  BY EmptyDocOK DEF TypeOK, Create, stored, loop, Stages
<1>2. CopyOK(p)'
  BY EmptyCopy DEF TypeOK, Create
<1>3. QED
  BY <1>1, <1>2, CopyStep DEF TypeOK, Create, stored, loop

LEMMA TruncateOK ==
  ASSUME NEW p \in Procs, TypeOK, StoreInv, Truncate(p)
  PROVE  TypeOK' /\ StoreInv'
<1>1. TypeOK'
  BY EmptyDocOK DEF TypeOK, Truncate, loop, Stages
<1>2. CopyOK(p)'
  BY DEF TypeOK, Truncate, loop, StoreInv, CopyOK, Refreshing
<1>3. QED
  BY <1>1, <1>2, CopyStep DEF TypeOK, Truncate, loop

LEMMA WriteOK ==
  ASSUME NEW p \in Procs, TypeOK, StoreInv, Write(p)
  PROVE  TypeOK' /\ StoreInv'
<1>1. TypeOK'
  <2>1. file' \in {"absent", "empty", "garbled", "doc"} /\ disk' \in Doc
    BY EmptyDocOK DEF TypeOK, Write, WriteBody
  <2>2. mem' \in [Procs -> Doc]
    BY EmptyDocOK DEF TypeOK, Write, Forget
  <2>3. QED
    BY <2>1, <2>2 DEF TypeOK, Write, loop, Stages
<1>2. CopyOK(p)'
  <2>1. pc'[p] \in {"idle", "ready", "apply"}
    BY DEF TypeOK, Write
  <2>2. CASE after[p] = "idle"
    BY <2>1, <2>2, EmptyCopy DEF TypeOK, Write, Forget
  <2>3. CASE after[p] # "idle"
    BY <2>1, <2>3 DEF TypeOK, Write, loop, StoreInv, CopyOK, Refreshing
  <2>4. QED
    BY <2>2, <2>3
<1>3. disk' \in {EmptyDoc, mem[p]}
  BY DEF Write, WriteBody
<1>4. QED
  BY <1>1, <1>2, <1>3, CopyStep DEF TypeOK, Write, Forget, loop

\* Leave, Apply and Crash: the process gives its copy up.
LEMMA EndOK ==
  ASSUME NEW p \in Procs, TypeOK, StoreInv, Leave(p) \/ Apply(p) \/ Crash(p)
  PROVE  TypeOK' /\ StoreInv'
<1>1. TypeOK'
  <2>1. CASE Leave(p) \/ Apply(p)
    BY <2>1, EmptyDocOK DEF TypeOK, Leave, Apply, Forget, stored, loop, Stages
  <2>2. CASE Crash(p)
    BY <2>2, EmptyDocOK, EmptySeq DEF TypeOK, Crash, Forget, stored, Stages
  <2>3. QED
    BY <2>1, <2>2
<1>2. CopyOK(p)'
  BY EmptyCopy DEF TypeOK, Leave, Apply, Crash, Forget
<1>3. QED
  BY <1>1, <1>2, CopyStep DEF TypeOK, Leave, Apply, Crash, Forget, stored, loop

LEMMA NodeCommandOK ==
  ASSUME NEW p \in Procs, TypeOK, StoreInv, RenameNode(p) \/ SetNodeEnabled(p) \/ RemoveNode(p)
  PROVE  TypeOK' /\ StoreInv'
<1>1. /\ mem[p] \in Doc /\ DocOK(mem[p])
      /\ Ids(mem[p]) \subseteq issued /\ issued \subseteq SubIds
  BY DEF TypeOK, StoreInv, CopyOK
<1>2. CASE RenameNode(p)
  <2>1. PICK node \in mem[p].nodes, name \in Names :
          CanRename(mem[p], node, name) /\ SaveThen(p, Renamed(mem[p], node, name), "apply")
    BY <1>2 DEF RenameNode
  <2>2. /\ Renamed(mem[p], node, name) \in Doc
        /\ Renamed(mem[p], node, name).subs = mem[p].subs
        /\ DocOK(Renamed(mem[p], node, name))
    BY ZenonT(60), <1>1, <2>1, RenamedType, RenamedOK
  <2>3. QED
    BY <1>1, <1>2, <2>1, <2>2, SaveStep DEF RenameNode, stored, loop, Ids, TypeOK
<1>3. CASE SetNodeEnabled(p)
  <2>1. PICK node \in mem[p].nodes, enabled \in BOOLEAN :
          /\ CanSetNodeEnabled(mem[p], node, enabled)
          /\ SaveThen(p, NodeSetTo(mem[p], node, enabled), "apply")
    BY <1>3 DEF SetNodeEnabled
  <2>2. /\ NodeSetTo(mem[p], node, enabled) \in Doc
        /\ NodeSetTo(mem[p], node, enabled).subs = mem[p].subs
        /\ DocOK(NodeSetTo(mem[p], node, enabled))
    BY <1>1, <2>1, NodeSetToType, NodeSetToOK
  <2>3. QED
    BY <1>1, <1>3, <2>1, <2>2, SaveStep DEF SetNodeEnabled, stored, loop, Ids, TypeOK
<1>4. CASE RemoveNode(p)
  <2>1. PICK node \in mem[p].nodes :
          CanRemoveNode(mem[p], node) /\ SaveThen(p, NodeRemoved(mem[p], node), "apply")
    BY <1>4 DEF RemoveNode
  <2>2. /\ NodeRemoved(mem[p], node) \in Doc
        /\ NodeRemoved(mem[p], node).subs = mem[p].subs
        /\ DocOK(NodeRemoved(mem[p], node))
    BY <1>1, <2>1, NodeRemovedOK
  <2>3. QED
    BY <1>1, <1>4, <2>1, <2>2, SaveStep DEF RemoveNode, stored, loop, Ids, TypeOK
<1>5. QED
  BY <1>2, <1>3, <1>4
LEMMA RuleCommandOK ==
  ASSUME NEW p \in Procs, TypeOK, StoreInv, AddRule(p) \/ RemoveRule(p)
  PROVE  TypeOK' /\ StoreInv'
<1>1. /\ mem[p] \in Doc /\ DocOK(mem[p])
      /\ Ids(mem[p]) \subseteq issued /\ issued \subseteq SubIds
  BY DEF TypeOK, StoreInv, CopyOK
<1>2. CASE AddRule(p)
  <2>1. PICK list \in Lists, match \in Matches, target \in Names :
          /\ ValidateTargetValue(mem[p], target)
          /\ SaveThen(p, RuleAdded(mem[p], list, [match |-> match, target |-> target]), "idle")
    BY <1>2 DEF AddRule
  <2> DEFINE rule == [match |-> match, target |-> target]
  <2>2. rule \in Rule /\ rule.target = target
    BY DEF Rule
  <2> HIDE DEF rule
  <2>3. /\ RuleAdded(mem[p], list, rule) \in Doc
        /\ RuleAdded(mem[p], list, rule).subs = mem[p].subs
        /\ DocOK(RuleAdded(mem[p], list, rule))
    BY <1>1, <2>1, <2>2, RuleAddedOK
  <2>4. SaveThen(p, RuleAdded(mem[p], list, rule), "idle")
    BY <2>1 DEF rule
  <2>5. QED
    BY <1>1, <1>2, <2>3, <2>4, SaveStep DEF AddRule, stored, loop, Ids, TypeOK
<1>3. CASE RemoveRule(p)
  <2>1. PICK list \in Lists : \E i \in DOMAIN mem[p][list] :
          SaveThen(p, RuleRemoved(mem[p], list, i), "idle")
    BY <1>3 DEF RemoveRule
  <2>2. PICK i \in DOMAIN mem[p][list] : SaveThen(p, RuleRemoved(mem[p], list, i), "idle")
    BY <2>1
  <2>3. list \in {"rules", "acl"}
    BY StoreAssumption
  <2>4. /\ RuleRemoved(mem[p], list, i) \in Doc
        /\ RuleRemoved(mem[p], list, i).subs = mem[p].subs
        /\ DocOK(RuleRemoved(mem[p], list, i))
    BY <1>1, <2>3, RuleRemovedOK
  <2>5. QED
    BY <1>1, <1>3, <2>2, <2>4, SaveStep DEF RemoveRule, stored, loop, Ids, TypeOK
<1>4. QED
  BY <1>2, <1>3

LEMMA SubscriptionCommandOK ==
  ASSUME NEW p \in Procs, TypeOK, StoreInv, AddSubscription(p) \/ SetSubscriptionEnabled(p)
  PROVE  TypeOK' /\ StoreInv'
<1>1. /\ mem[p] \in Doc /\ DocOK(mem[p])
      /\ Ids(mem[p]) \subseteq issued /\ issued \subseteq SubIds
  BY DEF TypeOK, StoreInv, CopyOK
<1>2. CASE AddSubscription(p)
  <2>1. PICK url \in Urls, enabled \in BOOLEAN :
          IF UrlKnown(mem[p], url)
          THEN SaveThen(p, SubscriptionReset(mem[p], url, enabled), "idle") /\ UNCHANGED issued
          ELSE \E id \in SubIds \ issued :
                 /\ SaveThen(p, SubscriptionAdded(mem[p], id, url, enabled), "idle")
                 /\ issued' = issued \cup {id}
    BY <1>2 DEF AddSubscription
  <2>2. CASE UrlKnown(mem[p], url)
    <3>1. /\ SubscriptionReset(mem[p], url, enabled) \in Doc
          /\ Ids(SubscriptionReset(mem[p], url, enabled)) = Ids(mem[p])
          /\ DocOK(SubscriptionReset(mem[p], url, enabled))
      BY <1>1, SubscriptionResetOK
    <3>2. QED
      BY <1>1, <1>2, <2>1, <2>2, <3>1, SaveStep DEF AddSubscription, stored, loop, TypeOK
  <2>3. CASE ~UrlKnown(mem[p], url)
    <3>1. PICK id \in SubIds \ issued :
            /\ SaveThen(p, SubscriptionAdded(mem[p], id, url, enabled), "idle")
            /\ issued' = issued \cup {id}
      BY <2>1, <2>3
    <3>2. /\ SubscriptionAdded(mem[p], id, url, enabled) \in Doc
          /\ Ids(SubscriptionAdded(mem[p], id, url, enabled)) = Ids(mem[p]) \cup {id}
          /\ DocOK(SubscriptionAdded(mem[p], id, url, enabled))
      BY <1>1, <2>3, SubscriptionAddedOK
    <3>3. QED
      BY <1>1, <1>2, <3>1, <3>2, SaveStep DEF AddSubscription, stored, loop, TypeOK
  <2>4. QED
    BY <2>2, <2>3
<1>3. CASE SetSubscriptionEnabled(p)
  <2>1. PICK sub \in mem[p].subs, enabled \in BOOLEAN :
          SaveThen(p, SubscriptionSetTo(mem[p], sub, enabled), "idle")
    BY <1>3 DEF SetSubscriptionEnabled
  <2>2. /\ SubscriptionSetTo(mem[p], sub, enabled) \in Doc
        /\ Ids(SubscriptionSetTo(mem[p], sub, enabled)) = Ids(mem[p])
        /\ DocOK(SubscriptionSetTo(mem[p], sub, enabled))
    BY <1>1, SubscriptionSetToOK
  <2>3. QED
    BY <1>1, <1>3, <2>1, <2>2, SaveStep DEF SetSubscriptionEnabled, stored, loop, TypeOK
<1>4. QED
  BY <1>2, <1>3

LEMMA RemoveSubscriptionOK ==
  ASSUME NEW p \in Procs, TypeOK, StoreInv, RemoveSubscription(p) \/ RemoveCache(p)
  PROVE  TypeOK' /\ StoreInv'
<1>1. /\ mem[p] \in Doc /\ DocOK(mem[p])
      /\ Ids(mem[p]) \subseteq issued /\ issued \subseteq SubIds
  BY DEF TypeOK, StoreInv, CopyOK
<1>2. CASE RemoveSubscription(p)
  <2>1. PICK sub \in mem[p].subs :
          /\ mem' = [mem EXCEPT ![p] = SubscriptionRemoved(mem[p], sub)]
          /\ source' = [source EXCEPT ![p] = sub.id]
    BY <1>2 DEF RemoveSubscription
  <2>2. /\ SubscriptionRemoved(mem[p], sub) \in Doc
        /\ Ids(SubscriptionRemoved(mem[p], sub)) \subseteq Ids(mem[p])
        /\ DocOK(SubscriptionRemoved(mem[p], sub))
    BY <1>1, SubscriptionRemovedOK
  <2>3. sub.id \in SubIds
    BY <1>1 DEF Doc, Subscription
  <2>4. TypeOK'
    BY <1>2, <2>1, <2>2, <2>3 DEF TypeOK, RemoveSubscription, stored, Stages
  <2>5. CopyOK(p)'
    BY <1>1, <1>2, <2>1, <2>2 DEF TypeOK, RemoveSubscription, CopyOK, Refreshing
  <2>6. QED
    BY <1>2, <2>1, <2>4, <2>5, CopyStep DEF TypeOK, RemoveSubscription, stored
<1>3. CASE RemoveCache(p)
  <2>1. CASE SaveThen(p, mem[p], "idle")
    BY <1>1, <1>3, <2>1, SaveStep DEF RemoveCache, stored, TypeOK
  <2>2. CASE /\ UNCHANGED <<cached, after>>
             /\ pc' = [pc EXCEPT ![p] = "idle"] /\ Forget(p)
    <3>1. TypeOK'
      BY <1>3, <2>2, EmptyDocOK DEF TypeOK, RemoveCache, Forget, stored, Stages
    <3>2. CopyOK(p)'
      BY <2>2, EmptyCopy DEF TypeOK, Forget
    <3>3. QED
      BY <1>3, <2>2, <3>1, <3>2, CopyStep DEF TypeOK, RemoveCache, Forget, stored
  <2>3. QED
    BY <1>3, <2>1, <2>2 DEF RemoveCache
<1>4. QED
  BY <1>2, <1>3
LEMMA ImportOK ==
  ASSUME NEW p \in Procs, TypeOK, StoreInv,
         ImportLinks(p) \/ ImportRow(p) \/ ImportDone(p)
  PROVE  TypeOK' /\ StoreInv'
<1>1. /\ mem[p] \in Doc /\ DocOK(mem[p])
      /\ Ids(mem[p]) \subseteq issued /\ issued \subseteq SubIds
      /\ source[p] \in SubIds \cup {Manual} /\ rows[p] \in Seq(Row)
  BY DEF TypeOK, StoreInv, CopyOK
<1>2. CASE ImportLinks(p)
  <2>1. RowSeqs \subseteq Seq(Row)
    BY StoreAssumption DEF RowSeqs
  <2>2. TypeOK'
    BY <1>2, <2>1 DEF TypeOK, ImportLinks, stored, Stages
  <2>3. CopyOK(p)'
    BY <1>2 DEF TypeOK, ImportLinks, StoreInv, CopyOK, Refreshing
  <2>4. QED
    BY <1>2, <2>2, <2>3, CopyStep DEF TypeOK, ImportLinks, stored
<1>3. CASE ImportRow(p)
  <2> DEFINE row == Head(rows[p])
             new == mem'[p]
  <2>1. row \in Row /\ Tail(rows[p]) \in Seq(Row)
    BY <1>1, <1>3, HeadTailProperties DEF ImportRow
  <2>2. /\ mem' = [mem EXCEPT ![p] = new] /\ new \in Doc
        /\ Ids(new) = Ids(mem[p]) /\ DocOK(new)
    <3>1. CASE KeyKnown(mem[p], row.key)
      BY <1>1, <1>3, <3>1 DEF ImportRow, TypeOK
    <3>2. CASE ~KeyKnown(mem[p], row.key)
      <4>1. PICK name \in Names :
              /\ IsUniqueName(mem[p], row.word, name)
              /\ mem' = [mem EXCEPT ![p] =
                          NodeImported(mem[p], row, name, source[p], source[p] # Manual)]
        BY <1>3, <3>2 DEF ImportRow
      <4>2. source[p] # Manual => source[p] \in Ids(mem[p])
        BY <1>3 DEF ImportRow, StoreInv, CopyOK
      <4>3. new = NodeImported(mem[p], row, name, source[p], source[p] # Manual)
        BY <4>1 DEF TypeOK
      <4>4. (source[p] # Manual) \in BOOLEAN
        OBVIOUS
      <4>5. new \in Doc /\ new.subs = mem[p].subs /\ DocOK(new)
        <5> DEFINE enabled == source[p] # Manual
        <5>1. enabled \in BOOLEAN /\ new = NodeImported(mem[p], row, name, source[p], enabled)
          BY <4>3
        <5> HIDE DEF enabled, new, row
        <5>2. QED
          BY <1>1, <2>1, <3>2, <4>1, <4>2, <5>1, NodeImportedOK DEF row
      <4>6. QED
        BY <4>1, <4>3, <4>5 DEF Ids
    <3>3. QED
      BY <3>1, <3>2
  <2> HIDE DEF row, new
  <2>3. TypeOK'
    BY <1>3, <2>1, <2>2 DEF TypeOK, ImportRow, stored
  <2>4. CopyOK(p)'
    BY <1>3, <2>2 DEF TypeOK, ImportRow, StoreInv, CopyOK, Refreshing, new
  <2>5. QED
    BY <1>3, <2>2, <2>3, <2>4, CopyStep DEF TypeOK, ImportRow, stored
<1>4. CASE ImportDone(p)
  <2>1. CASE source[p] = Manual
    <3>1. SaveThen(p, mem[p], "idle")
      BY <1>4, <2>1 DEF ImportDone
    <3>2. QED
      BY <1>1, <1>4, <3>1, SaveStep DEF ImportDone, stored, TypeOK
  <2>2. CASE source[p] # Manual
    <3>1. TypeOK'
      BY <1>4, <2>2 DEF TypeOK, ImportDone, stored, Stages
    <3>2. CopyOK(p)'
      BY <1>4, <2>2 DEF TypeOK, ImportDone, StoreInv, CopyOK, Refreshing
    <3>3. QED
      BY <1>4, <2>2, <3>1, <3>2, CopyStep DEF TypeOK, ImportDone, stored
  <2>3. QED
    BY <2>1, <2>2
<1>5. QED
  BY <1>2, <1>3, <1>4

LEMMA UpdateOK ==
  ASSUME NEW p \in Procs, TypeOK, StoreInv,
         UpdateSubscriptions(p) \/ Fetch(p) \/ FetchFails(p) \/ UpdateDone(p)
  PROVE  TypeOK' /\ StoreInv'
<1>1. /\ mem[p] \in Doc /\ DocOK(mem[p])
      /\ Ids(mem[p]) \subseteq issued /\ issued \subseteq SubIds
  BY DEF TypeOK, StoreInv, CopyOK
<1>2. CASE UpdateSubscriptions(p)
  <2>1. todo' = [todo EXCEPT ![p] = {s.id : s \in {t \in mem[p].subs : t.enabled}}]
    BY <1>2 DEF UpdateSubscriptions
  <2>2. {s.id : s \in {t \in mem[p].subs : t.enabled}} \subseteq Ids(mem[p])
    BY DEF Ids
  <2>3. TypeOK'
    BY <1>1, <1>2, <2>1, <2>2 DEF TypeOK, UpdateSubscriptions, stored, Stages
  <2>4. CopyOK(p)'
    BY <1>1, <1>2, <2>1, <2>2 DEF TypeOK, UpdateSubscriptions, CopyOK, Refreshing
  <2>5. QED
    BY <1>2, <2>1, <2>3, <2>4, CopyStep DEF TypeOK, UpdateSubscriptions, stored
<1>3. CASE Fetch(p)
  <2>1. PICK id \in todo[p], text \in RowSeqs :
          /\ cached' = cached \cup {id}
          /\ mem' = [mem EXCEPT ![p].nodes = PurgeSubscriptionNodes(@, id)]
          /\ source' = [source EXCEPT ![p] = id]
          /\ rows' = [rows EXCEPT ![p] = text]
          /\ todo' = [todo EXCEPT ![p] = @ \ {id}]
    BY <1>3 DEF Fetch
  <2> DEFINE new == [mem[p] EXCEPT !.nodes = PurgeSubscriptionNodes(@, id)]
  <2>2. mem' = [mem EXCEPT ![p] = new]
    BY <2>1
  <2>3. id \in SubIds /\ id \in Ids(mem[p]) /\ todo[p] \subseteq Ids(mem[p])
    BY <1>3, <2>1 DEF TypeOK, Fetch, StoreInv, CopyOK, Refreshing
  <2>4. new \in Doc /\ new.subs = mem[p].subs /\ DocOK(new)
    BY <1>1, <2>3, RefreshedOK
  <2> HIDE DEF new
  <2>5. text \in Seq(Row)
    BY StoreAssumption DEF RowSeqs
  <2>6. TypeOK'
    <3>1. mem' \in [Procs -> Doc]
      BY <2>2, <2>4 DEF TypeOK
    <3>2. cached' \subseteq SubIds /\ todo' \in [Procs -> SUBSET SubIds]
      BY <2>1, <2>3 DEF TypeOK
    <3>3. source' \in [Procs -> SubIds \cup {Manual}] /\ rows' \in [Procs -> Seq(Row)]
      BY <2>1, <2>3, <2>5 DEF TypeOK
    <3>4. QED
      BY <1>3, <3>1, <3>2, <3>3 DEF TypeOK, Fetch, stored, Stages
  <2>7. CopyOK(p)'
    BY <1>1, <1>3, <2>1, <2>2, <2>3, <2>4 DEF TypeOK, Fetch, CopyOK, Refreshing, Ids
  <2>8. QED
    BY <1>3, <2>1, <2>2, <2>6, <2>7, CopyStep DEF TypeOK, Fetch, stored
<1>4. CASE FetchFails(p)
  <2>1. PICK id \in todo[p] : todo' = [todo EXCEPT ![p] = @ \ {id}]
    BY <1>4 DEF FetchFails
  <2>2. TypeOK'
    BY <1>4, <2>1 DEF TypeOK, FetchFails, stored
  <2>3. CopyOK(p)'
    BY <1>4, <2>1 DEF TypeOK, FetchFails, StoreInv, CopyOK, Refreshing
  <2>4. QED
    BY <1>4, <2>1, <2>2, <2>3, CopyStep DEF TypeOK, FetchFails, stored
<1>5. CASE UpdateDone(p)
  <2>1. SaveThen(p, mem[p], "idle")
    BY <1>5 DEF UpdateDone
  <2>2. QED
    BY <1>1, <1>5, <2>1, SaveStep DEF UpdateDone, stored, loop, TypeOK
<1>6. QED
  BY <1>2, <1>3, <1>4, <1>5
-----------------------------------------------------------------------------
LEMMA StepOK == TypeOK /\ StoreInv /\ [Next]_vars => TypeOK' /\ StoreInv'
<1> SUFFICES ASSUME TypeOK, StoreInv, [Next]_vars PROVE TypeOK' /\ StoreInv'
  OBVIOUS
<1>1. CASE Next
  <2>1. PICK p \in Procs : Load(p) \/ Create(p) \/ Command(p) \/ Continue(p) \/ Crash(p)
    BY <1>1 DEF Next
  <2>2. CASE Load(p) \/ Create(p)
    BY <2>2, LoadOK, CreateOK
  <2>3. CASE Command(p)
    BY <2>3, NodeCommandOK, ImportOK, RuleCommandOK, SubscriptionCommandOK,
       RemoveSubscriptionOK, UpdateOK, EndOK DEF Command
  <2>4. CASE Continue(p)
    BY <2>4, ImportOK, RemoveSubscriptionOK, UpdateOK, TruncateOK, WriteOK, EndOK DEF Continue
  <2>5. CASE Crash(p)
    BY <2>5, EndOK
  <2>6. QED
    BY <2>1, <2>2, <2>3, <2>4, <2>5
<1>2. CASE UNCHANGED vars
  BY <1>2 DEF vars, stored, loop, TypeOK, StoreInv, CopyOK, Refreshing
<1>3. QED
  BY <1>1, <1>2

\* The types of StateStore are right whatever commands run, overlap and die.
THEOREM TypeCorrect == Spec => []TypeOK
<1>1. Spec => [](TypeOK /\ StoreInv)
  BY InitOK, StepOK, PTL DEF Spec
<1>2. QED
  BY <1>1, PTL

\* Whatever an interleaving of any number of commands leaves in state.json, a
\* command that can read it starts from a consistent document.
THEOREM StoredConsistent == Spec => []StoredDocOK
<1>1. Spec => [](TypeOK /\ StoreInv)
  BY InitOK, StepOK, PTL DEF Spec
<1>2. StoreInv => StoredDocOK
  BY DEF StoreInv, StoredDocOK
<1>3. QED
  BY <1>1, <1>2, PTL

\* The parts of it, one by one.  Node names and base keys stay unique and no node
\* takes a reserved name (AppendImportedNodes, uniqueName, RenameNode).
THEOREM IdentitiesKept == Spec => []StoredIdentities
<1>1. StoredDocOK => StoredIdentities
  BY DEF StoredDocOK, DocOK, StoredIdentities
<1>2. QED
  BY <1>1, StoredConsistent, PTL

\* A rule or ACL entry that names a node names an enabled manual node of the document
\* (AddRule, RenameNode, SetNodeEnabled, RemoveNode).
THEOREM TargetsKept == Spec => []StoredTargetsLive
<1>1. StoredDocOK => StoredTargetsLive
  BY DEF StoredDocOK, DocOK, StoredTargetsLive
<1>2. QED
  BY <1>1, StoredConsistent, PTL

\* No rule is in a list twice (appendIfMissingRule, and the retargeting of RenameNode).
THEOREM RulesKept == Spec => []StoredRulesDistinct
<1>1. StoredDocOK => StoredRulesDistinct
  BY DEF StoredDocOK, DocOK, StoredRulesDistinct
<1>2. QED
  BY <1>1, StoredConsistent, PTL

\* Subscription ids and URLs stay unique and no provider-managed node outlives its
\* subscription (AddSubscription, RemoveSubscription, UpdateSubscriptions).
THEOREM SubscriptionsKept == Spec => []StoredSubscriptions
<1>1. StoredDocOK => StoredSubscriptions
  BY DEF StoredDocOK, DocOK, StoredSubscriptions
<1>2. QED
  BY <1>1, StoredConsistent, PTL

\* Once no command is under way, a document that cannot be read stays: a command
\* only writes after it has read a document or found that there is no file.
THEOREM UnreadableStays == Spec => UnreadableIsPermanent
<1>1. Unreadable /\ [Next]_vars => Unreadable'
  <2> SUFFICES ASSUME Unreadable, [Next]_vars PROVE Unreadable'
    OBVIOUS
  <2>1. ASSUME NEW p \in Procs
        PROVE  ~(Load(p) \/ Create(p) \/ Command(p) \/ Continue(p) \/ Crash(p))
    BY DEF Unreadable, Load, Create, Command, Continue, Crash, RenameNode, SetNodeEnabled,
       RemoveNode, ImportLinks, ImportRow, ImportDone, AddRule, RemoveRule, AddSubscription,
       SetSubscriptionEnabled, RemoveSubscription, RemoveCache, UpdateSubscriptions, Fetch,
       FetchFails, UpdateDone, Truncate, Write, Leave, Apply
  <2>2. UNCHANGED vars
    BY <2>1 DEF Next
  <2>3. QED
    BY <2>2 DEF Unreadable, vars, stored
<1>2. QED
  BY <1>1, PTL DEF Spec, UnreadableIsPermanent
ProcStep(p) == Load(p) \/ Create(p) \/ Command(p) \/ Continue(p) \/ Crash(p)

\* A process only ever works on its own copy.
LEMMA CopiesArePrivate ==
  ASSUME NEW p \in Procs, NEW q \in Procs, p # q, TypeOK, ProcStep(q)
  PROVE  mem'[p] = mem[p]
<1>1. CASE Load(q) \/ Create(q) \/ Crash(q)
  BY <1>1 DEF TypeOK, Load, Create, Crash, Forget
<1>2. CASE Command(q)
  BY <1>2 DEF TypeOK, Command, RenameNode, SetNodeEnabled, RemoveNode, ImportLinks, AddRule,
     RemoveRule, AddSubscription, SetSubscriptionEnabled, RemoveSubscription,
     UpdateSubscriptions, Leave, SaveThen, Forget
<1>3. CASE Continue(q)
  <2>1. CASE Fetch(q)
    BY <2>1 DEF TypeOK, Fetch
  <2>2. CASE ImportRow(q)
    BY <2>2 DEF TypeOK, ImportRow
  <2>3. CASE ImportDone(q) \/ RemoveCache(q) \/ FetchFails(q) \/ UpdateDone(q)
                \/ Truncate(q) \/ Write(q) \/ Apply(q)
    BY <2>3 DEF TypeOK, ImportDone, RemoveCache, FetchFails, UpdateDone, Truncate, Write,
       Apply, SaveThen, Forget
  <2>4. QED
    BY <1>3, <2>1, <2>2, <2>3 DEF Continue
<1>4. QED
  BY <1>1, <1>2, <1>3 DEF ProcStep

\* A refresh of subscriptions changes no manual node, rule or subscription entry, and drops
\* only nodes of a subscription it has just fetched.
THEOREM RefreshKeepsManual == Spec => RefreshKeepsTheRest
<1>1. ASSUME TypeOK, Next, NEW p \in Procs, Refreshing(p), pc'[p] # "idle"
      PROVE  /\ ManualPart(mem'[p]) = ManualPart(mem[p])
             /\ \A n \in mem[p].nodes \ mem'[p].nodes :
                  pc'[p] = "import" /\ n.source = source'[p]
  <2>1. PICK q \in Procs : ProcStep(q)
    BY <1>1 DEF Next, ProcStep
  <2>2. CASE q # p
    BY <1>1, <2>1, <2>2, CopiesArePrivate
  <2>3. CASE q = p
    <3>1. pc[p] \in {"update", "import"} /\ mem[p] \in Doc
      BY <1>1 DEF Refreshing, TypeOK
    <3>2. Fetch(p) \/ FetchFails(p) \/ UpdateDone(p) \/ ImportRow(p) \/ ImportDone(p)
      BY <1>1, <2>1, <2>3, <3>1 DEF ProcStep, Load, Create, Command, Continue, Crash,
         RenameNode, SetNodeEnabled, RemoveNode, ImportLinks, AddRule, RemoveRule,
         AddSubscription, SetSubscriptionEnabled, RemoveSubscription, RemoveCache,
         UpdateSubscriptions, Truncate, Write, Leave, Apply, TypeOK
    <3>3. CASE Fetch(p)
      <4>1. PICK id \in todo[p] :
              /\ mem' = [mem EXCEPT ![p].nodes = PurgeSubscriptionNodes(@, id)]
              /\ source' = [source EXCEPT ![p] = id]
        BY <3>3 DEF Fetch
      <4> DEFINE new == [mem[p] EXCEPT !.nodes = PurgeSubscriptionNodes(@, id)]
      <4>2. mem'[p] = new
        BY <1>1, <4>1 DEF TypeOK
      <4>3. id # Manual
        BY <1>1, DocAssumption DEF TypeOK
      <4>4. {n \in new.nodes : n.source = Manual} = {n \in mem[p].nodes : n.source = Manual}
        BY <3>1, <4>3 DEF PurgeSubscriptionNodes, Doc
      <4>5. new.rules = mem[p].rules /\ new.acl = mem[p].acl /\ new.subs = mem[p].subs
        BY <3>1 DEF Doc
      <4>6. new \in [nodes: SUBSET Node, rules: Seq(Rule), acl: Seq(Rule), subs: SUBSET Subscription]
        BY <3>1 DEF Doc, PurgeSubscriptionNodes
      <4>7. source'[p] = id /\ pc'[p] = "import"
        BY <1>1, <3>3, <4>1 DEF Fetch, TypeOK
      <4>8. \A n \in mem[p].nodes \ new.nodes : n.source = id
        BY <3>1 DEF PurgeSubscriptionNodes, Doc
      <4> HIDE DEF new
      <4>9. ManualPart(mem'[p]) = ManualPart(mem[p])
        BY <3>1, <4>2, <4>4, <4>5, <4>6 DEF ManualPart, Doc
      <4>10. QED
        BY <4>2, <4>7, <4>8, <4>9
    <3>4. CASE ImportRow(p)
      <4>1. source[p] # Manual
        BY <1>1, <3>4 DEF Refreshing, ImportRow
      <4>2. CASE UNCHANGED mem
        BY <4>2
      <4>3. CASE \E name \in Names : mem' = [mem EXCEPT ![p] =
                   NodeImported(mem[p], Head(rows[p]), name, source[p], source[p] # Manual)]
        <5>1. PICK name \in Names : mem'[p] =
                NodeImported(mem[p], Head(rows[p]), name, source[p], source[p] # Manual)
          BY <1>1, <4>3 DEF TypeOK
        <5> DEFINE node == [key |-> Head(rows[p]).key, name |-> name,
                            enabled |-> source[p] # Manual, source |-> source[p]]
        <5>2. mem'[p] = [mem[p] EXCEPT !.nodes = @ \cup {node}]
          BY <5>1 DEF NodeImported
        <5>3. node.source # Manual
          BY <4>1
        <5> HIDE DEF node
        <5>4. /\ mem'[p].nodes = mem[p].nodes \cup {node}
              /\ mem'[p].rules = mem[p].rules /\ mem'[p].acl = mem[p].acl
              /\ mem'[p].subs = mem[p].subs
          BY <3>1, <5>2 DEF Doc
        <5>5. {n \in mem'[p].nodes : n.source = Manual} = {n \in mem[p].nodes : n.source = Manual}
          BY <5>3, <5>4
        <5>6. ManualPart(mem'[p]) = ManualPart(mem[p])
          BY <3>1, <5>2, <5>4, <5>5 DEF ManualPart, Doc
        <5>7. QED
          BY <5>4, <5>6
      <4>4. QED
        BY <3>4, <4>2, <4>3 DEF ImportRow
    <3>5. CASE FetchFails(p) \/ UpdateDone(p) \/ ImportDone(p)
      BY <1>1, <3>5 DEF FetchFails, UpdateDone, ImportDone, SaveThen, TypeOK
    <3>6. QED
      BY <3>2, <3>3, <3>4, <3>5
  <2>4. QED
    BY <2>2, <2>3
<1>2. TypeOK /\ [Next]_vars =>
        [\A p \in Procs : Refreshing(p) /\ pc'[p] # "idle" =>
           /\ ManualPart(mem'[p]) = ManualPart(mem[p])
           /\ \A n \in mem[p].nodes \ mem'[p].nodes : pc'[p] = "import" /\ n.source = source'[p]]_vars
  BY <1>1
<1>3. QED
  BY <1>2, TypeCorrect, PTL DEF Spec, RefreshKeepsTheRest
=============================================================================
