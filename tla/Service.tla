------------------------------ MODULE Service -------------------------------
(***************************************************************************)
(* The state document composed with what is built from it: the runtime     *)
(* files (RenderFiles), the unit minimalist.service and the node list the  *)
(* running core has loaded.  Rename, enable, disable and remove save the   *)
(* document and then, if the unit is active, render the runtime files and  *)
(* restart the unit; render-config, start and restart do it on demand;     *)
(* systemd starts the core again by itself 5 seconds after a failed start  *)
(* or exit, without rendering anything.                                    *)
(*                                                                         *)
(* External, modelled from how the code uses it: systemctl (is-active,     *)
(* enable --now, restart, stop) and the unit file BuildServiceUnit writes. *)
(* An attempt to start the unit is one step: verify-runtime-assets, the    *)
(* node check of apply-rules on the stored document, then the core reads   *)
(* the runtime files.  No legacy mihomo.service is installed here, so      *)
(* ensureCutoverReady passes.                                              *)
(***************************************************************************)
EXTENDS StateStore

CONSTANTS
  Transparent,  \* the configuration asks for routing rules, so apply-rules needs a node
  Faults        \* files and systemctl may fail, runtime assets may be missing, commands may die

ASSUME ServiceAssumption == Transparent \in BOOLEAN /\ Faults \in BOOLEAN

VARIABLES
  unit,      \* "inactive", "active", or "waiting" for systemd's next attempt
  rendered,  \* the runtime files: provider nodes, rule targets, written to the end
  loaded,    \* the provider nodes the running core has read
  job,       \* what a command does after the render: "none", "render", "start", "restart"
  phase,     \* how far the render of a command is: "none", "nodes", "whole"
  result     \* how a command that ended with the last step reports: "ok", "error", or "none"

service == <<unit, rendered, loaded>>
svars == <<vars, service, job, phase, result>>

ProviderNode == [key: Keys, name: Names]
ProviderOf(doc) == {[key |-> n.key, name |-> n.name] : n \in EnabledManual(doc)}
TargetsOf(doc) == {r.target : r \in RulesOf(doc)}

ServiceTypeOK ==
  /\ TypeOK
  /\ unit \in {"inactive", "active", "waiting"}
  /\ rendered \in [nodes: SUBSET ProviderNode, targets: SUBSET Names, whole: BOOLEAN]
  /\ loaded \subseteq ProviderNode
  /\ job \in [Procs -> {"none", "render", "start", "restart"}]
  /\ phase \in [Procs -> {"none", "nodes", "whole"}]
  /\ result \in {"none", "ok", "error"}
  /\ \A p \in Procs : phase[p] # "none" => job[p] # "none" /\ pc[p] \in {"ready", "apply"}
  /\ unit # "active" => loaded = {}

ServiceInit ==
  /\ Init
  /\ unit = "inactive"
  /\ rendered = [nodes |-> {}, targets |-> {}, whole |-> TRUE]
  /\ loaded = {}
  /\ job = [p \in Procs |-> "none"]
  /\ phase = [p \in Procs |-> "none"]
  /\ result = "none"

\* Mutant: the next command of the process starts where this one stopped.
Finish_KeepsPhase(p, outcome) ==
  /\ Leave(p) \/ Apply(p)
  /\ job' = [job EXCEPT ![p] = "none"]
  /\ result' = outcome
  /\ UNCHANGED phase

Finish(p, outcome) ==
  /\ Leave(p) \/ Apply(p)
  /\ job' = [job EXCEPT ![p] = "none"]
  /\ phase' = [phase EXCEPT ![p] = "none"]
  /\ result' = outcome
-----------------------------------------------------------------------------
(* Which render a command is about to do *)

\* start looks at the stored document before RenderConfig reads it again.
BeginStart(p) ==
  /\ pc[p] = "idle" /\ job[p] = "none"
  /\ file = "doc" /\ HasEnabledManualNodes(disk)
  /\ job' = [job EXCEPT ![p] = "start"]
  /\ result' = "none" /\ UNCHANGED <<vars, service, phase>>

BeginRender(p) ==
  /\ pc[p] = "idle" /\ job[p] = "none"
  /\ job' \in {[job EXCEPT ![p] = "render"], [job EXCEPT ![p] = "restart"]}
  /\ result' = "none" /\ UNCHANGED <<vars, service, phase>>

\* state.json cannot be read: nothing is rendered.
RenderUnread(p) ==
  /\ pc[p] = "idle" /\ job[p] # "none"
  /\ file \in {"empty", "garbled"}
  /\ job' = [job EXCEPT ![p] = "none"]
  /\ result' = "error"
  /\ UNCHANGED <<vars, service, phase>>

\* systemctl is-active --quiet, after a node command has saved: whatever goes
\* wrong with it counts as "not active".
ApplySkipped(p) ==
  /\ pc[p] = "apply" /\ job[p] = "none"
  /\ unit # "active" \/ Faults
  /\ Finish(p, "ok")
  /\ UNCHANGED service

BeginApply(p) ==
  /\ pc[p] = "apply" /\ job[p] = "none"
  /\ unit = "active"
  /\ job' = [job EXCEPT ![p] = "restart"]
  /\ result' = "none" /\ UNCHANGED <<vars, service, phase>>
-----------------------------------------------------------------------------
(* validateRuleTargets, then RenderFiles file by file *)

AtRender(p) == pc[p] \in {"ready", "apply"} /\ job[p] # "none"

\* Mutant: rules whose target is gone are dropped from state.json, not refused.
RenderRefused_Prunes(p) ==
  /\ AtRender(p) /\ phase[p] = "none"
  /\ ~ValidateRuleTargets(mem[p])
  /\ disk' = [mem[p] EXCEPT !.rules = <<>>, !.acl = <<>>]
  /\ pc' = [pc EXCEPT ![p] = "idle"]
  /\ job' = [job EXCEPT ![p] = "none"]
  /\ result' = "error"
  /\ UNCHANGED <<file, cached, issued, mem, loop, after, service, phase>>

RenderRefused(p) ==
  /\ AtRender(p) /\ phase[p] = "none"
  /\ ~ValidateRuleTargets(mem[p])
  /\ Finish(p, "error")
  /\ UNCHANGED service

\* Mutant: the targets of the rules are not looked at before rendering.
RenderNodes_Unchecked(p) ==
  /\ AtRender(p) /\ phase[p] = "none"
  /\ rendered' = [rendered EXCEPT !.nodes = ProviderOf(mem[p]), !.whole = FALSE]
  /\ phase' = [phase EXCEPT ![p] = "nodes"]
  /\ result' = "none" /\ UNCHANGED <<vars, unit, loaded, job>>

\* proxy_providers/manual.txt is written first.
RenderNodes(p) ==
  /\ AtRender(p) /\ phase[p] = "none"
  /\ ValidateRuleTargets(mem[p])
  /\ rendered' = [rendered EXCEPT !.nodes = ProviderOf(mem[p]), !.whole = FALSE]
  /\ phase' = [phase EXCEPT ![p] = "nodes"]
  /\ result' = "none" /\ UNCHANGED <<vars, unit, loaded, job>>

\* The rule files and config.yaml follow.
RenderRules(p) ==
  /\ phase[p] = "nodes"
  /\ rendered' = [rendered EXCEPT !.targets = TargetsOf(mem[p]), !.whole = TRUE]
  /\ IF job[p] = "render" THEN Finish(p, "ok")
     ELSE phase' = [phase EXCEPT ![p] = "whole"] /\ result' = "none" /\ UNCHANGED <<vars, job>>
  /\ UNCHANGED <<unit, loaded>>

\* A link of the provider, a rule or the rules repository does not render, or a file
\* cannot be written.
RenderFails(p) ==
  /\ Faults /\ AtRender(p) /\ phase[p] # "whole"
  /\ Finish(p, "error")
  /\ UNCHANGED service
-----------------------------------------------------------------------------
(* The unit *)

\* What verify-runtime-assets and apply-rules of ExecStartPre ask for.
CanStart == file = "doc" /\ (Transparent => HasEnabledManualNodes(disk))

StartAttempt ==
  \/ /\ CanStart
     /\ unit' = "active" /\ loaded' = rendered.nodes
  \/ /\ ~CanStart \/ Faults
     /\ unit' = "waiting" /\ loaded' = {}

\* ensureRuntimeAssetsReady fails, or systemctl cannot be run: the unit is left alone.
UnitUntouched(p) ==
  /\ Faults /\ phase[p] = "whole"
  /\ Finish(p, "error")
  /\ UNCHANGED service

\* Mutant: the node command reloads the unit, and the core keeps its node list.
RestartUnit_Reload(p) ==
  /\ phase[p] = "whole" /\ job[p] = "restart"
  /\ UNCHANGED service
  /\ Finish(p, "ok")

\* systemctl restart
RestartUnit(p) ==
  /\ phase[p] = "whole" /\ job[p] = "restart"
  /\ StartAttempt
  /\ Finish(p, IF unit' = "active" THEN "ok" ELSE "error")
  /\ UNCHANGED rendered

\* systemctl enable --now does nothing more to a unit that runs.
StartUnit(p) ==
  /\ phase[p] = "whole" /\ job[p] = "start"
  /\ IF unit = "active" THEN UNCHANGED <<unit, loaded>> ELSE StartAttempt
  /\ Finish(p, IF unit' = "active" THEN "ok" ELSE "error")
  /\ UNCHANGED rendered

Stop(p) ==
  /\ pc[p] = "idle" /\ job[p] = "none"
  /\ unit' = "inactive" /\ loaded' = {}
  /\ result' = "none" /\ UNCHANGED <<vars, rendered, job, phase>>

CoreExits ==
  /\ unit = "active"
  /\ unit' = "waiting" /\ loaded' = {}
  /\ result' = "none" /\ UNCHANGED <<vars, rendered, job, phase>>

\* Restart=on-failure, RestartSec=5
UnitRetries ==
  /\ unit = "waiting"
  /\ StartAttempt
  /\ result' = "none" /\ UNCHANGED <<vars, rendered, job, phase>>
-----------------------------------------------------------------------------
\* A command of the document, none of whose steps touches the service side.
StoreStep(p) ==
  /\ \/ Load(p) \/ Create(p)
     \/ job[p] = "none" /\ Command(p)
     \/ pc[p] # "apply" /\ Continue(p)
  /\ result' = "none" /\ UNCHANGED <<service, job, phase>>

Die(p) ==
  /\ Faults
  /\ Crash(p)
  /\ job' = [job EXCEPT ![p] = "none"]
  /\ phase' = [phase EXCEPT ![p] = "none"]
  /\ result' = "error"
  /\ UNCHANGED service

ServiceNext ==
  \/ \E p \in Procs :
       \/ StoreStep(p) \/ Die(p) \/ Stop(p)
       \/ BeginStart(p) \/ BeginRender(p) \/ RenderUnread(p) \/ ApplySkipped(p) \/ BeginApply(p)
       \/ RenderRefused(p) \/ RenderNodes(p) \/ RenderRules(p) \/ RenderFails(p)
       \/ UnitUntouched(p) \/ RestartUnit(p) \/ StartUnit(p)
  \/ CoreExits \/ UnitRetries

ServiceSpec == ServiceInit /\ [][ServiceNext]_svars
-----------------------------------------------------------------------------
(* Properties *)

\* A node command (or restart) that reports success after it found the unit active
\* has left a running core whose node list is the one state.json now holds.
AppliedMeansLoaded ==
  [][\A p \in Procs :
       job[p] = "restart" /\ pc'[p] = "idle" /\ pc[p] # "idle" /\ job'[p] = "none"
         /\ result' = "ok" /\ unit' = "active"
       => loaded' = ProviderOf(disk')]_svars

\* Runtime files written to their end never hold a rule whose target is a node that
\* their provider lacks, nor AUTO with an empty provider: validateRuleTargets runs
\* on the very document that RenderFiles then writes.
RenderedTargetsResolve ==
  rendered.whole =>
    \A t \in rendered.targets :
      IF t = AutoName THEN rendered.nodes # {}
      ELSE t \in BuiltinNames \/ \E n \in rendered.nodes : n.name = t

\* The service side only reads the document: every step is one of StateStore, or
\* changes nothing there.
StoreSpec == Spec

\* docs/STATUS.md:15 of a running service: after a node command it is rendered and
\* restarted, so that the document is never new while the core's nodes are old.
RunningServiceFollows ==
  [][\A p \in Procs :
       pc[p] = "apply" /\ job[p] = "restart" /\ pc'[p] = "idle" /\ unit' = "active"
       => loaded' = ProviderOf(disk')]_svars
=============================================================================
