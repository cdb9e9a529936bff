---------------------------- MODULE ServiceProofs ---------------------------
(***************************************************************************)
(* Service implements StateStore: whatever the unit and the renders do, the *)
(* document only changes through the operations of StateStore, so that the *)
(* theorems of StateStoreProofs hold of the composed system too.           *)
(***************************************************************************)
EXTENDS Service, StateStoreProofs

LEMMA FinishIsAStep ==
  ASSUME NEW p \in Procs, NEW outcome, Finish(p, outcome)
  PROVE  Next
BY DEF Finish, Next, Command, Continue

LEMMA ServiceStep == [ServiceNext]_svars => [Next]_vars
<1> SUFFICES ASSUME [ServiceNext]_svars PROVE [Next]_vars
  OBVIOUS
<1>1. CASE UNCHANGED svars
  BY <1>1 DEF svars
<1>2. CASE CoreExits \/ UnitRetries
  BY <1>2 DEF CoreExits, UnitRetries
<1>3. ASSUME NEW p \in Procs, StoreStep(p) \/ Die(p)
      PROVE  Next
  BY <1>3 DEF StoreStep, Die, Next
<1>4. ASSUME NEW p \in Procs,
             Stop(p) \/ BeginStart(p) \/ BeginRender(p) \/ RenderUnread(p) \/ BeginApply(p)
               \/ RenderNodes(p)
      PROVE  UNCHANGED vars
  BY <1>4 DEF Stop, BeginStart, BeginRender, RenderUnread, BeginApply, RenderNodes
<1>5. ASSUME NEW p \in Procs,
             ApplySkipped(p) \/ RenderRefused(p) \/ RenderFails(p) \/ UnitUntouched(p)
               \/ RestartUnit(p) \/ StartUnit(p)
      PROVE  Next
  BY <1>5, FinishIsAStep DEF ApplySkipped, RenderRefused, RenderFails, UnitUntouched,
     RestartUnit, StartUnit
<1>6. ASSUME NEW p \in Procs, RenderRules(p)
      PROVE  [Next]_vars
  BY <1>6, FinishIsAStep DEF RenderRules
<1>7. QED
  BY <1>1, <1>2, <1>3, <1>4, <1>5, <1>6 DEF ServiceNext

\* Every behaviour of the service is one of the state store.
THEOREM ServiceImplementsStore == ServiceSpec => StoreSpec
<1>1. ServiceInit => Init
  BY DEF ServiceInit
<1>2. QED
  BY <1>1, ServiceStep, PTL DEF ServiceSpec, StoreSpec, Spec

\* The stored document is consistent in the composed system.
THEOREM ServiceStored == ServiceSpec => []StoredDocOK
BY ServiceImplementsStore, StoredConsistent, PTL DEF StoreSpec
-----------------------------------------------------------------------------
(* The service side's own type, which also says where a render can be under way *)

LEMMA RenderTypes ==
  ASSUME NEW doc \in Doc
  PROVE  ProviderOf(doc) \in SUBSET ProviderNode /\ TargetsOf(doc) \in SUBSET Names
<1>1. \A n \in EnabledManual(doc) : n.key \in Keys /\ n.name \in Names
  BY DEF EnabledManual, Doc, Node
<1>2. \A r \in RulesOf(doc) : r.target \in Names
  BY RulesOfDoc DEF Rule
<1> QED
  BY <1>1, <1>2 DEF ProviderOf, ProviderNode, TargetsOf

\* Where a render is under way, the process is between its load or save and its end.
Placed == \A p \in Procs : phase[p] # "none" => job[p] # "none" /\ pc[p] \in {"ready", "apply"}

Flags ==
  /\ job \in [Procs -> {"none", "render", "start", "restart"}]
  /\ phase \in [Procs -> {"none", "nodes", "whole"}]
  /\ result \in {"none", "ok", "error"}

UnitOK ==
  /\ unit \in {"inactive", "active", "waiting"}
  /\ rendered \in [nodes: SUBSET ProviderNode, targets: SUBSET Names, whole: BOOLEAN]
  /\ loaded \subseteq ProviderNode
  /\ unit # "active" => loaded = {}

LEMMA TypeParts == ServiceTypeOK <=> TypeOK /\ Flags /\ Placed /\ UnitOK
BY DEF ServiceTypeOK, Flags, Placed, UnitOK

LEMMA FinishPlaced ==
  ASSUME TypeOK, Flags, Placed, NEW p \in Procs, NEW outcome \in {"ok", "error"},
         Finish(p, outcome)
  PROVE  Flags' /\ Placed'
<1>1. /\ pc' = [pc EXCEPT ![p] = "idle"] /\ job' = [job EXCEPT ![p] = "none"]
      /\ phase' = [phase EXCEPT ![p] = "none"] /\ result' = outcome
  BY DEF Finish, Leave, Apply
<1> QED
  BY <1>1 DEF TypeOK, Flags, Placed

LEMMA StoreStepPlaced ==
  ASSUME TypeOK, Flags, Placed, NEW p \in Procs, StoreStep(p)
  PROVE  Flags' /\ Placed' /\ UNCHANGED <<job, phase>> /\ phase[p] = "none"
<1>1. Flags' /\ UNCHANGED <<job, phase>>
  BY DEF StoreStep, Flags
<1>2. phase[p] = "none"
  <2>1. SUFFICES ASSUME phase[p] # "none" PROVE FALSE
    OBVIOUS
  <2>2. job[p] # "none" /\ pc[p] \in {"ready", "apply"}
    BY <2>1 DEF Placed
  <2>3. Load(p) \/ Create(p) => pc[p] = "idle"
    BY DEF Load, Create
  <2>4. Continue(p) => pc[p] \in {"import", "update", "remove", "save", "write", "apply"}
    BY DEF Continue, ImportRow, ImportDone, RemoveCache, Fetch, FetchFails, UpdateDone,
       Truncate, Write, Apply
  <2> QED
    BY <2>2, <2>3, <2>4 DEF StoreStep
<1>3. \A q \in Procs \ {p} : pc'[q] = pc[q]
  BY DEF StoreStep, Load, Create, Command, Continue, RenameNode, SetNodeEnabled, RemoveNode,
     ImportLinks, AddRule, RemoveRule, AddSubscription, SetSubscriptionEnabled,
     RemoveSubscription, UpdateSubscriptions, Leave, ImportRow, ImportDone, RemoveCache,
     Fetch, FetchFails, UpdateDone, Truncate, Write, Apply, SaveThen, TypeOK
<1> QED
  BY <1>1, <1>2, <1>3 DEF Placed

LEMMA RenderPlaced ==
  ASSUME TypeOK, Flags, Placed, NEW p \in Procs,
         BeginStart(p) \/ BeginRender(p) \/ RenderUnread(p) \/ BeginApply(p)
           \/ RenderNodes(p) \/ Stop(p)
  PROVE  Flags' /\ Placed'
<1>1. pc' = pc
  BY DEF BeginStart, BeginRender, RenderUnread, BeginApply, RenderNodes, Stop, vars
<1>2. CASE Stop(p)
  BY <1>1, <1>2 DEF Stop, Flags, Placed
<1>3. CASE RenderNodes(p)
  BY <1>1, <1>3 DEF RenderNodes, AtRender, Flags, Placed
<1>4. CASE BeginStart(p) \/ BeginRender(p) \/ RenderUnread(p) \/ BeginApply(p)
  <2>1. phase' = phase /\ phase[p] = "none"
    BY <1>4 DEF BeginStart, BeginRender, RenderUnread, BeginApply, Placed
  <2>2. \E next \in {"none", "render", "start", "restart"} : job' = [job EXCEPT ![p] = next]
    BY <1>4 DEF BeginStart, BeginRender, RenderUnread, BeginApply
  <2>3. result' \in {"none", "error"}
    BY <1>4 DEF BeginStart, BeginRender, RenderUnread, BeginApply
  <2> QED
    BY <1>1, <2>1, <2>2, <2>3 DEF Flags, Placed
<1> QED
  BY <1>2, <1>3, <1>4

LEMMA FinishesPlaced ==
  ASSUME TypeOK, Flags, Placed, NEW p \in Procs,
         ApplySkipped(p) \/ RenderRefused(p) \/ RenderRules(p) \/ RenderFails(p)
           \/ UnitUntouched(p) \/ RestartUnit(p) \/ StartUnit(p) \/ Die(p)
  PROVE  Flags' /\ Placed'
<1>1. CASE Die(p)
  <2>1. /\ pc' = [pc EXCEPT ![p] = "idle"] /\ job' = [job EXCEPT ![p] = "none"]
        /\ phase' = [phase EXCEPT ![p] = "none"] /\ result' = "error"
    BY <1>1 DEF Die, Crash
  <2> QED
    BY <2>1 DEF TypeOK, Flags, Placed
<1>2. CASE RenderRules(p) /\ phase' = [phase EXCEPT ![p] = "whole"] /\ UNCHANGED <<vars, job>>
             /\ result' = "none"
  BY <1>2 DEF RenderRules, vars, Flags, Placed
<1>3. CASE \E outcome \in {"ok", "error"} : Finish(p, outcome)
  BY <1>3, FinishPlaced
<1> QED
  BY <1>1, <1>2, <1>3 DEF ApplySkipped, RenderRefused, RenderRules, RenderFails,
     UnitUntouched, RestartUnit, StartUnit

LEMMA AttemptOK ==
  ASSUME UnitOK, StartAttempt, rendered' = rendered
  PROVE  UnitOK'
BY DEF UnitOK, StartAttempt

LEMMA UnitStep ==
  ASSUME TypeOK, UnitOK, [ServiceNext]_svars
  PROVE  UnitOK'
<1>1. CASE UNCHANGED service
  BY <1>1 DEF UnitOK, service
<1>2. ASSUME NEW p \in Procs, RenderNodes(p) \/ RenderRules(p)
      PROVE  UnitOK'
  <2>1. /\ ProviderOf(mem[p]) \in SUBSET ProviderNode
        /\ TargetsOf(mem[p]) \in SUBSET Names
    BY RenderTypes DEF TypeOK
  <2> QED
    BY <1>2, <2>1 DEF RenderNodes, RenderRules, UnitOK
<1>3. ASSUME NEW p \in Procs, RestartUnit(p) \/ StartUnit(p)
      PROVE  UnitOK'
  <2>1. CASE StartAttempt
    BY <1>3, <2>1, AttemptOK DEF RestartUnit, StartUnit
  <2>2. CASE ~StartAttempt
    BY <1>3, <2>2 DEF RestartUnit, StartUnit, UnitOK
  <2> QED
    BY <2>1, <2>2
<1>4. ASSUME NEW p \in Procs, Stop(p)
      PROVE  UnitOK'
  BY <1>4 DEF Stop, UnitOK
<1>5. CASE CoreExits
  BY <1>5 DEF CoreExits, UnitOK
<1>6. CASE UnitRetries
  BY <1>6, AttemptOK DEF UnitRetries
<1>7. ASSUME NEW p \in Procs,
             StoreStep(p) \/ Die(p) \/ BeginStart(p) \/ BeginRender(p) \/ RenderUnread(p)
               \/ ApplySkipped(p) \/ BeginApply(p) \/ RenderRefused(p) \/ RenderFails(p)
               \/ UnitUntouched(p)
      PROVE  UNCHANGED service
  BY <1>7 DEF StoreStep, Die, BeginStart, BeginRender, RenderUnread, ApplySkipped,
     BeginApply, RenderRefused, RenderFails, UnitUntouched
<1>8. CASE UNCHANGED svars
  BY <1>1, <1>8 DEF svars, service
<1> QED
  BY <1>1, <1>2, <1>3, <1>4, <1>5, <1>6, <1>7, <1>8 DEF ServiceNext

LEMMA ServiceTypeInit == ServiceInit => ServiceTypeOK /\ StoreInv
<1> SUFFICES ASSUME ServiceInit PROVE ServiceTypeOK /\ StoreInv
  OBVIOUS
<1>1. TypeOK /\ StoreInv
  BY InitOK DEF ServiceInit
<1>2. Flags /\ Placed /\ UnitOK
  BY DEF ServiceInit, Flags, Placed, UnitOK
<1> QED
  BY <1>1, <1>2, TypeParts

LEMMA ServiceTypeStep ==
  ServiceTypeOK /\ StoreInv /\ [ServiceNext]_svars => ServiceTypeOK' /\ StoreInv'
<1> SUFFICES ASSUME ServiceTypeOK, StoreInv, [ServiceNext]_svars
             PROVE  ServiceTypeOK' /\ StoreInv'
  OBVIOUS
<1>1. TypeOK /\ Flags /\ Placed /\ UnitOK
  BY TypeParts
<1>2. TypeOK' /\ StoreInv'
  BY <1>1, ServiceStep, StepOK
<1>3. UnitOK'
  BY <1>1, UnitStep
<1>4. Flags' /\ Placed'
  <2>1. CASE UNCHANGED svars
    BY <1>1, <2>1 DEF svars, vars, Flags, Placed
  <2>2. CASE CoreExits \/ UnitRetries
    BY <1>1, <2>2 DEF CoreExits, UnitRetries, vars, Flags, Placed
  <2> QED
    BY <1>1, <2>1, <2>2, StoreStepPlaced, RenderPlaced, FinishesPlaced DEF ServiceNext
<1> QED
  BY <1>2, <1>3, <1>4 DEF ServiceTypeOK, Flags, Placed, UnitOK

\* Type correctness of the composed service, for any processes: in particular a render
\* is only ever under way in a command that has its document loaded or saved.
THEOREM ServiceTypeCorrect == ServiceSpec => []ServiceTypeOK
BY ServiceTypeInit, ServiceTypeStep, PTL DEF ServiceSpec
-----------------------------------------------------------------------------
(* One process at a time: what is rendered resolves *)

OneProcess == \A p, q \in Procs : p = q

\* Between the provider and the rule files, the provider is of the validated document.
HalfRendered ==
  \A p \in Procs :
    phase[p] = "nodes" =>
      rendered.nodes = ProviderOf(mem[p]) /\ ValidateRuleTargets(mem[p])

LEMMA ValidTargets ==
  ASSUME NEW doc, ValidateRuleTargets(doc)
  PROVE  \A t \in TargetsOf(doc) :
           IF t = AutoName THEN ProviderOf(doc) # {}
           ELSE t \in BuiltinNames \/ \E n \in ProviderOf(doc) : n.name = t
<1> SUFFICES ASSUME NEW t \in TargetsOf(doc)
             PROVE  IF t = AutoName THEN ProviderOf(doc) # {}
                    ELSE t \in BuiltinNames \/ \E n \in ProviderOf(doc) : n.name = t
  OBVIOUS
<1>1. t \in AllowedTargets(doc)
  <2>1. PICK r \in RulesOf(doc) : t = r.target
    BY DEF TargetsOf
  <2> QED
    BY <2>1 DEF ValidateRuleTargets
<1>2. AutoName \notin BuiltinNames
  BY DocAssumption DEF AutoName, BuiltinNames
<1>3. CASE t \in BuiltinNames
  BY <1>2, <1>3
<1>4. CASE t = AutoName /\ HasEnabledManualNodes(doc)
  BY <1>4 DEF HasEnabledManualNodes, ProviderOf
<1>5. CASE \E n \in EnabledManual(doc) : t = n.name
  <2>1. PICK n \in EnabledManual(doc) : t = n.name
    BY <1>5
  <2>2. [key |-> n.key, name |-> n.name] \in ProviderOf(doc)
    BY DEF ProviderOf
  <2> QED
    BY <2>1, <2>2
<1>6. \/ t \in BuiltinNames
      \/ t = AutoName /\ HasEnabledManualNodes(doc)
      \/ \E n \in EnabledManual(doc) : t = n.name
  <2>1. CASE HasEnabledManualNodes(doc)
    BY <1>1, <2>1 DEF AllowedTargets
  <2>2. CASE ~HasEnabledManualNodes(doc)
    BY <1>1, <2>2 DEF AllowedTargets
  <2> QED
    BY <2>1, <2>2
<1> QED
  BY <1>3, <1>4, <1>5, <1>6

LEMMA RenderedInit == ServiceInit => HalfRendered /\ RenderedTargetsResolve
BY DEF ServiceInit, HalfRendered, RenderedTargetsResolve

LEMMA FinishedRender ==
  ASSUME NEW p \in Procs, NEW outcome, Finish(p, outcome), Flags
  PROVE  phase'[p] = "none"
BY DEF Finish, Flags

LEMMA RenderedStep ==
  ASSUME OneProcess, ServiceTypeOK, StoreInv, HalfRendered, RenderedTargetsResolve,
         [ServiceNext]_svars
  PROVE  HalfRendered' /\ RenderedTargetsResolve'
<1>1. TypeOK /\ Flags /\ Placed /\ UnitOK
  BY TypeParts
<1>2. CASE UNCHANGED <<rendered, phase, mem>>
  BY <1>2 DEF HalfRendered, RenderedTargetsResolve, ProviderOf, ValidateRuleTargets,
     EnabledManual, RulesOf, AllowedTargets, HasEnabledManualNodes
<1>3. ASSUME NEW p \in Procs, rendered' = rendered, phase'[p] # "nodes"
      PROVE  HalfRendered' /\ RenderedTargetsResolve'
  BY <1>3 DEF OneProcess, HalfRendered, RenderedTargetsResolve
<1>4. ASSUME NEW p \in Procs, StoreStep(p)
      PROVE  HalfRendered' /\ RenderedTargetsResolve'
  <2>1. phase' = phase /\ phase[p] = "none" /\ rendered' = rendered
    BY <1>1, <1>4, StoreStepPlaced DEF StoreStep, service
  <2> QED
    BY <1>3, <2>1
<1>5. ASSUME NEW p \in Procs,
             ApplySkipped(p) \/ RenderRefused(p) \/ RenderFails(p) \/ UnitUntouched(p)
               \/ RestartUnit(p) \/ StartUnit(p)
      PROVE  HalfRendered' /\ RenderedTargetsResolve'
  <2>1. rendered' = rendered /\ \E outcome : Finish(p, outcome)
    BY <1>5 DEF ApplySkipped, RenderRefused, RenderFails, UnitUntouched, RestartUnit,
       StartUnit, service
  <2>2. phase'[p] = "none"
    BY <1>1, <2>1, FinishedRender
  <2> QED
    BY <1>3, <2>1, <2>2
<1>6. ASSUME NEW p \in Procs, Die(p)
      PROVE  HalfRendered' /\ RenderedTargetsResolve'
  <2>1. rendered' = rendered /\ phase'[p] = "none"
    BY <1>1, <1>6 DEF Die, service, Flags
  <2> QED
    BY <1>3, <2>1
<1>7. ASSUME NEW p \in Procs,
             BeginStart(p) \/ BeginRender(p) \/ RenderUnread(p) \/ BeginApply(p) \/ Stop(p)
      PROVE  UNCHANGED <<rendered, phase, mem>>
  BY <1>7 DEF BeginStart, BeginRender, RenderUnread, BeginApply, Stop, service, vars
<1>8. CASE CoreExits \/ UnitRetries \/ UNCHANGED svars
  BY <1>2, <1>8 DEF CoreExits, UnitRetries, svars, service, vars
<1>9. ASSUME NEW p \in Procs, RenderNodes(p)
      PROVE  HalfRendered' /\ RenderedTargetsResolve'
  <2>1. /\ rendered' = [rendered EXCEPT !.nodes = ProviderOf(mem[p]), !.whole = FALSE]
        /\ ValidateRuleTargets(mem[p]) /\ mem' = mem
    BY <1>9 DEF RenderNodes, vars
  <2>2. rendered'.nodes = ProviderOf(mem[p]) /\ rendered'.whole = FALSE
    BY <1>1, <2>1 DEF UnitOK
  <2>3. RenderedTargetsResolve'
    BY <2>2 DEF RenderedTargetsResolve
  <2>4. rendered'.nodes = ProviderOf(mem'[p]) /\ ValidateRuleTargets(mem'[p])
    BY <2>1, <2>2
  <2>5. HalfRendered'
    <3> SUFFICES ASSUME NEW q \in Procs
                 PROVE  rendered'.nodes = ProviderOf(mem'[q]) /\ ValidateRuleTargets(mem'[q])
      BY DEF HalfRendered, ProviderOf, ValidateRuleTargets, EnabledManual, RulesOf,
         AllowedTargets, HasEnabledManualNodes
    <3> QED
      BY <2>4 DEF OneProcess
  <2> QED
    BY <2>3, <2>5
<1>10. ASSUME NEW p \in Procs, RenderRules(p)
       PROVE  HalfRendered' /\ RenderedTargetsResolve'
  <2>1. /\ rendered' = [rendered EXCEPT !.targets = TargetsOf(mem[p]), !.whole = TRUE]
        /\ phase[p] = "nodes"
    BY <1>10 DEF RenderRules
  <2>2. rendered.nodes = ProviderOf(mem[p]) /\ ValidateRuleTargets(mem[p])
    BY <2>1 DEF HalfRendered
  <2>3. rendered'.nodes = ProviderOf(mem[p]) /\ rendered'.targets = TargetsOf(mem[p])
    BY <1>1, <2>1, <2>2 DEF UnitOK
  <2>4. RenderedTargetsResolve'
    BY <2>2, <2>3, ValidTargets DEF RenderedTargetsResolve
  <2>5. phase'[p] # "nodes"
    BY <1>1, <1>10, FinishedRender DEF RenderRules, Flags
  <2>6. HalfRendered'
    BY <2>5 DEF HalfRendered, OneProcess
  <2> QED
    BY <2>4, <2>6
<1> QED
  BY <1>2, <1>4, <1>5, <1>6, <1>7, <1>8, <1>9, <1>10 DEF ServiceNext

\* With one command at a time, runtime files written to their end hold no rule whose
\* target the provider lacks: validateRuleTargets and RenderFiles work on one document.
THEOREM RenderedResolves ==
  ASSUME OneProcess
  PROVE  ServiceSpec => []RenderedTargetsResolve
<1> DEFINE I == ServiceTypeOK /\ StoreInv /\ HalfRendered /\ RenderedTargetsResolve
<1>1. ServiceInit => I
  BY ServiceTypeInit, RenderedInit
<1>2. I /\ [ServiceNext]_svars => I'
  BY ServiceTypeStep, RenderedStep
<1>3. I => RenderedTargetsResolve
  OBVIOUS
<1> QED
  BY <1>1, <1>2, <1>3, PTL DEF ServiceSpec
-----------------------------------------------------------------------------
(* One process at a time: a command that reports success has applied what is stored *)

\* A command that is past its load or save works on the document that is stored, and a
\* file between its two halves is empty.
Fresh ==
  \A p \in Procs :
    /\ pc[p] \in {"ready", "apply"} => mem[p] = disk
    /\ pc[p] = "write" => file = "empty"

\* The provider that has been written is of the command's own document.
WholeRendered == \A p \in Procs : phase[p] # "none" => rendered.nodes = ProviderOf(mem[p])

LEMMA FreshStep ==
  ASSUME OneProcess, TypeOK, Fresh, [Next]_vars
  PROVE  Fresh'
<1>1. CASE UNCHANGED vars
  BY <1>1 DEF vars, stored, Fresh
<1>2. ASSUME NEW p \in Procs, pc'[p] \notin {"ready", "apply", "write"}
      PROVE  Fresh'
  BY <1>2 DEF OneProcess, Fresh
<1>3. ASSUME NEW p \in Procs, Load(p)
      PROVE  Fresh'
  BY <1>3 DEF Load, stored, Fresh, OneProcess, TypeOK
<1>4. ASSUME NEW p \in Procs, Create(p) \/ Crash(p) \/ Leave(p) \/ Apply(p)
      PROVE  Fresh'
  <2>1. pc'[p] \in {"save", "idle"}
    BY <1>4 DEF Create, Crash, Leave, Apply, TypeOK
  <2> QED
    BY <1>2, <2>1
<1>5. ASSUME NEW p \in Procs, Command(p)
      PROVE  Fresh'
  <2>1. pc'[p] \in {"save", "idle", "import", "remove", "update"}
    BY <1>5 DEF Command, RenameNode, SetNodeEnabled, RemoveNode, ImportLinks, AddRule,
       RemoveRule, AddSubscription, SetSubscriptionEnabled, RemoveSubscription,
       UpdateSubscriptions, Leave, SaveThen, TypeOK
  <2> QED
    BY <1>2, <2>1
<1>6. ASSUME NEW p \in Procs,
             ImportRow(p) \/ ImportDone(p) \/ RemoveCache(p) \/ Fetch(p) \/ FetchFails(p)
               \/ UpdateDone(p)
      PROVE  Fresh'
  <2>1. pc'[p] \in {"save", "idle", "import", "update"}
    BY <1>6 DEF ImportRow, ImportDone, RemoveCache, Fetch, FetchFails, UpdateDone, SaveThen,
       TypeOK
  <2> QED
    BY <1>2, <2>1
<1>7. ASSUME NEW p \in Procs, Truncate(p)
      PROVE  Fresh'
  BY <1>7 DEF Truncate, Fresh, OneProcess, TypeOK
<1>8. ASSUME NEW p \in Procs, Write(p)
      PROVE  Fresh'
  <2>1. file = "empty"
    BY <1>8 DEF Write, Fresh
  <2>2. disk' = mem[p] /\ pc'[p] = after[p] /\ (after[p] # "idle" => mem' = mem)
    BY <1>8, <2>1 DEF Write, WriteBody, TypeOK
  <2>3. after[p] \in {"ready", "apply", "idle"}
    BY DEF TypeOK
  <2> QED
    BY <2>2, <2>3 DEF Fresh, OneProcess
<1> QED
  BY <1>1, <1>3, <1>4, <1>5, <1>6, <1>7, <1>8 DEF Next, Continue

LEMMA WholeStep ==
  ASSUME OneProcess, ServiceTypeOK, WholeRendered, [ServiceNext]_svars
  PROVE  WholeRendered'
<1>1. TypeOK /\ Flags /\ Placed /\ UnitOK
  BY TypeParts
<1>2. CASE UNCHANGED <<rendered, phase, mem>>
  BY <1>2 DEF WholeRendered, ProviderOf, EnabledManual
<1>3. ASSUME NEW p \in Procs, phase'[p] = "none"
      PROVE  WholeRendered'
  BY <1>3 DEF OneProcess, WholeRendered
<1>4. ASSUME NEW p \in Procs, StoreStep(p)
      PROVE  WholeRendered'
  <2>1. phase' = phase /\ phase[p] = "none"
    BY <1>1, <1>4, StoreStepPlaced
  <2> QED
    BY <1>3, <2>1
<1>5. ASSUME NEW p \in Procs, NEW outcome, Finish(p, outcome)
      PROVE  WholeRendered'
  <2>1. phase'[p] = "none"
    BY <1>1, <1>5, FinishedRender
  <2> QED
    BY <1>3, <2>1
<1>6. ASSUME NEW p \in Procs, Die(p)
      PROVE  WholeRendered'
  <2>1. phase'[p] = "none"
    BY <1>1, <1>6 DEF Die, Flags
  <2> QED
    BY <1>3, <2>1
<1>7. ASSUME NEW p \in Procs,
             BeginStart(p) \/ BeginRender(p) \/ RenderUnread(p) \/ BeginApply(p) \/ Stop(p)
      PROVE  WholeRendered'
  <2>1. UNCHANGED <<rendered, phase, mem>>
    BY <1>7 DEF BeginStart, BeginRender, RenderUnread, BeginApply, Stop, service, vars
  <2> QED
    BY <1>2, <2>1
<1>8. CASE CoreExits \/ UnitRetries \/ UNCHANGED svars
  <2>1. UNCHANGED <<rendered, phase, mem>>
    BY <1>8 DEF CoreExits, UnitRetries, svars, service, vars
  <2> QED
    BY <1>2, <2>1
<1>9. ASSUME NEW p \in Procs, RenderNodes(p)
      PROVE  WholeRendered'
  <2>1. rendered'.nodes = ProviderOf(mem'[p])
    BY <1>1, <1>9 DEF RenderNodes, UnitOK, vars
  <2> SUFFICES ASSUME NEW q \in Procs PROVE rendered'.nodes = ProviderOf(mem'[q])
    BY DEF WholeRendered, ProviderOf, EnabledManual
  <2> QED
    BY <2>1 DEF OneProcess
<1>10. ASSUME NEW p \in Procs, RenderRules(p), UNCHANGED vars
       PROVE  WholeRendered'
  <2>1. rendered.nodes = ProviderOf(mem[p])
    BY <1>10 DEF RenderRules, WholeRendered
  <2>2. rendered'.nodes = rendered.nodes /\ mem' = mem
    BY <1>1, <1>10 DEF RenderRules, UnitOK, vars
  <2> SUFFICES ASSUME NEW q \in Procs PROVE rendered'.nodes = ProviderOf(mem'[q])
    BY DEF WholeRendered, ProviderOf, EnabledManual
  <2> QED
    BY <2>1, <2>2 DEF OneProcess
<1>11. ASSUME NEW p \in Procs,
              ApplySkipped(p) \/ RenderRefused(p) \/ RenderFails(p) \/ UnitUntouched(p)
                \/ RestartUnit(p) \/ StartUnit(p)
       PROVE  \E outcome : Finish(p, outcome)
  BY <1>11 DEF ApplySkipped, RenderRefused, RenderFails, UnitUntouched, RestartUnit, StartUnit
<1>12. ASSUME NEW p \in Procs, RenderRules(p)
       PROVE  UNCHANGED vars \/ \E outcome : Finish(p, outcome)
  BY <1>12 DEF RenderRules
<1> QED
  BY <1>4, <1>5, <1>6, <1>7, <1>8, <1>9, <1>10, <1>11, <1>12 DEF ServiceNext

\* Only a restart of the unit lets such a command report success.
LEMMA RestartsLoad ==
  ASSUME OneProcess, ServiceTypeOK, Fresh, WholeRendered, ServiceNext, NEW p \in Procs,
         job[p] = "restart", pc'[p] = "idle", pc[p] # "idle", job'[p] = "none",
         result' = "ok", unit' = "active"
  PROVE  loaded' = ProviderOf(disk')
<1>1. TypeOK /\ Flags /\ Placed /\ UnitOK
  BY TypeParts
<1>2. ~(CoreExits \/ UnitRetries)
  BY DEF CoreExits, UnitRetries
<1>3. ASSUME NEW q \in Procs,
             StoreStep(q) \/ Die(q) \/ Stop(q) \/ BeginStart(q) \/ BeginRender(q)
               \/ RenderUnread(q) \/ ApplySkipped(q) \/ BeginApply(q) \/ RenderRefused(q)
               \/ RenderNodes(q) \/ RenderRules(q) \/ RenderFails(q) \/ UnitUntouched(q)
               \/ StartUnit(q)
      PROVE  FALSE
  <2>1. p = q
    BY DEF OneProcess
  <2>2. ~(RenderRules(q) \/ StartUnit(q) \/ ApplySkipped(q) \/ BeginApply(q))
    BY <2>1 DEF RenderRules, StartUnit, ApplySkipped, BeginApply, vars
  <2>3. ~(RenderRefused(q) \/ RenderFails(q) \/ UnitUntouched(q) \/ Die(q) \/ RenderUnread(q))
    BY DEF RenderRefused, RenderFails, UnitUntouched, Die, RenderUnread, Finish
  <2>4. ~(StoreStep(q) \/ Stop(q) \/ BeginStart(q) \/ BeginRender(q) \/ RenderNodes(q))
    BY DEF StoreStep, Stop, BeginStart, BeginRender, RenderNodes
  <2> QED
    BY <1>3, <2>2, <2>3, <2>4
<1>4. RestartUnit(p)
  BY <1>2, <1>3 DEF ServiceNext, OneProcess
<1>5. loaded' = rendered.nodes /\ phase[p] = "whole" /\ \E outcome : Finish(p, outcome)
  BY <1>4 DEF RestartUnit, StartAttempt
<1>6. disk' = disk
  BY <1>5 DEF Finish, Leave, Apply, stored
<1>7. rendered.nodes = ProviderOf(mem[p]) /\ mem[p] = disk
  BY <1>1, <1>5 DEF WholeRendered, Fresh, Placed
<1> QED
  BY <1>5, <1>6, <1>7

\* With one command at a time, a node command or a restart that reports success on an
\* active unit has left a core that runs with the nodes state.json now holds: the copy
\* applyNodeRuntimeIfServiceActive renders is the one just saved.
THEOREM AppliedIsLoaded ==
  ASSUME OneProcess
  PROVE  ServiceSpec => AppliedMeansLoaded
<1> DEFINE I == ServiceTypeOK /\ StoreInv /\ Fresh /\ WholeRendered
           Step == \A p \in Procs :
                     job[p] = "restart" /\ pc'[p] = "idle" /\ pc[p] # "idle" /\ job'[p] = "none"
                       /\ result' = "ok" /\ unit' = "active"
                     => loaded' = ProviderOf(disk')
<1>1. ServiceInit => I
  <2>1. ServiceInit => Fresh /\ WholeRendered
    BY DEF ServiceInit, Init, Fresh, WholeRendered
  <2> QED
    BY <2>1, ServiceTypeInit
<1>2. I /\ [ServiceNext]_svars => I'
  <2> SUFFICES ASSUME I, [ServiceNext]_svars PROVE I'
    OBVIOUS
  <2>1. TypeOK
    BY TypeParts
  <2>2. Fresh'
    BY <2>1, ServiceStep, FreshStep
  <2> QED
    BY <2>2, ServiceTypeStep, WholeStep
<1>3. I /\ [ServiceNext]_svars => [Step]_svars
  BY RestartsLoad
<1> QED
  BY <1>1, <1>2, <1>3, PTL DEF ServiceSpec, AppliedMeansLoaded
=============================================================================
