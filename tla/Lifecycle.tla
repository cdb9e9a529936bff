------------------------------- MODULE Lifecycle -------------------------------
(***************************************************************************)
(* The unit around the core: setup, start, stop, restart, apply-rules and  *)
(* clear-rules as commands, the hooks of the unit file that call the       *)
(* program back, and the cutover guard that keeps them off a host where    *)
(* the legacy mihomo.service is live.  core-upgrade-alpha runs beside them *)
(* as in CoreUpgrade: it has no guard of its own, only its restart's hooks *)
(* do.  Every step is a step of CoreUpgrade or leaves its variables alone. *)
(*                                                                         *)
(* External, modelled from how the code uses it: systemctl and the unit    *)
(* file BuildServiceUnit writes.  A start attempt runs verify-runtime-     *)
(* assets and apply-rules and then the core; ExecStopPost runs clear-rules *)
(* after a stop, an exit and a failed start.  While hooks run the unit is  *)
(* activating or deactivating, so is-active says no.  The legacy service   *)
(* programs chains of the same names, which clear-rules does not tell      *)
(* apart.  Whatever else a hook may stumble over is part of startable.     *)
(***************************************************************************)
EXTENDS CoreUpgrade

VARIABLES
  legacy,     \* mihomo.service: "off", "enabled" and not running, or "active"
  unit,       \* minimalist.service: "absent", "inactive", "active", or "waiting" for a retry
  enabled,    \* it is started at boot
  startable,  \* runtime assets are in place and a manual node is enabled
  rules,      \* whose chains and jumps there are: "none", "ours", "legacy"
  task        \* what a command will do, now that it has passed the guard

host == <<legacy, unit, enabled, startable, rules, task>>
lvars == <<vars, host>>

LifecycleTypeOK ==
  /\ legacy \in {"off", "enabled", "active"}
  /\ unit \in {"absent", "inactive", "active", "waiting"}
  /\ enabled \in BOOLEAN /\ startable \in BOOLEAN
  /\ rules \in {"none", "ours", "legacy"}
  /\ task \in [Procs -> {"none", "setup", "start", "up", "restart",
                         "apply", "program", "clear"}]
  /\ unit = "active" <=> running # None
  /\ unit = "absent" => ~enabled
  /\ \A p \in Procs : task[p] # "none" => pc[p] = "idle"

\* The program is installed, the legacy service may be there.
LifecycleInit ==
  /\ core = Installed /\ bak = None /\ failed = None /\ running = None
  /\ pc = [p \in Procs |-> "idle"]
  /\ seen = [p \in Procs |-> None]
  /\ candidate = [p \in Procs |-> None] /\ old = [p \in Procs |-> None]
  /\ result = [p \in Procs |-> "none"]
  /\ kept = None
  /\ legacy \in {"off", "active"}
  /\ rules = IF legacy = "active" THEN "legacy" ELSE "none"
  /\ unit = "absent" /\ enabled = FALSE
  /\ startable \in BOOLEAN
  /\ task = [p \in Procs |-> "none"]

LegacyLive == legacy # "off"

\* cutoverPreflightStatus.Ready, asked from a command and from a hook of the unit.
Ready == ~LegacyLive \/ enabled \/ unit = "active"

\* Mutant: an installed unit file is taken for a service that is live.
HookReady_Installed == ~LegacyLive \/ unit # "absent"

HookReady == ~LegacyLive \/ enabled
-----------------------------------------------------------------------------
(* The unit *)

\* ExecStopPost: clear-rules, unless the guard stops it.
StopHook == rules' = IF HookReady THEN "none" ELSE rules

\* Mutant: the guard of a hook asks whether the unit is active, not whether it is enabled.
HooksPass_Active ==
  unit # "absent" /\ (~LegacyLive \/ unit = "active") /\ startable /\ core # None

HooksPass == unit # "absent" /\ HookReady /\ startable /\ core # None

Up == HooksPass /\ unit' = "active" /\ running' = core /\ rules' = "ours"

Down ==
  /\ ~HooksPass
  /\ running' = None
  /\ IF unit = "absent" THEN UNCHANGED <<unit, rules>> ELSE unit' = "waiting" /\ StopHook

StartAttempt == Up \/ Down

\* The core exits, and the unit waits for its next attempt.
Exits == unit = "active" /\ running' = None /\ unit' = "waiting" /\ StopHook

UnitExits == CoreExits /\ Exits /\ UNCHANGED <<legacy, enabled, startable, task>>

RetryUp ==
  /\ unit = "waiting"
  /\ Up /\ UnitRetries
  /\ UNCHANGED <<legacy, enabled, startable, task>>

RetryDown ==
  /\ unit = "waiting"
  /\ Down
  /\ UNCHANGED <<vars, legacy, enabled, startable, task>>
-----------------------------------------------------------------------------
(* The commands *)

Begins(p) == pc[p] = "idle" /\ task[p] = "none"

Goal(p, goal) == task' = [task EXCEPT ![p] = goal]

\* ensureCutoverReady; start also looks for an enabled node.
Pass(p) ==
  /\ Begins(p) /\ Ready
  /\ \E goal \in {"setup", "start", "restart", "apply", "clear"} :
       /\ goal = "start" => startable
       /\ Goal(p, goal)
  /\ UNCHANGED <<vars, legacy, unit, enabled, startable, rules>>

\* setup writes the unit file; without an enabled node it leaves it at that.
WriteUnit(p) ==
  /\ task[p] = "setup"
  /\ unit' = IF unit = "absent" THEN "inactive" ELSE unit
  /\ Goal(p, IF startable THEN "start" ELSE "none")
  /\ UNCHANGED <<vars, legacy, enabled, startable, rules>>

\* Mutant: the unit is taken for enabled although there is no unit file.
Enable_Absent(p) ==
  /\ task[p] = "start"
  /\ Goal(p, "up") /\ enabled' = TRUE
  /\ UNCHANGED <<vars, legacy, unit, startable, rules>>

\* systemctl enable --now: enable, then start, if it is not running.
Enable(p) ==
  /\ task[p] = "start"
  /\ IF unit = "absent" THEN Goal(p, "none") /\ UNCHANGED enabled
     ELSE Goal(p, "up") /\ enabled' = TRUE
  /\ UNCHANGED <<vars, legacy, unit, startable, rules>>

StartUnit(p) ==
  /\ task[p] = "up"
  /\ \/ unit = "active" /\ UNCHANGED <<vars, unit, rules>>
     \/ unit # "active" /\ Up /\ UnitRetries
     \/ unit # "active" /\ Down /\ UNCHANGED vars
  /\ Goal(p, "none")
  /\ UNCHANGED <<legacy, enabled, startable>>

\* systemctl restart stops a unit that runs and then starts it.
StopToRestart(p) ==
  /\ task[p] = "restart"
  /\ \/ CoreExits /\ Exits
     \/ unit # "active" /\ UNCHANGED <<vars, unit, rules>>
  /\ Goal(p, "up")
  /\ UNCHANGED <<legacy, enabled, startable>>

\* stop has no guard.
Stop(p) ==
  /\ Begins(p) /\ unit \in {"active", "waiting"}
  /\ \/ CoreExits /\ StopHook
     \/ unit = "waiting" /\ UNCHANGED <<vars, rules>>
  /\ unit' = "inactive"
  /\ UNCHANGED <<legacy, enabled, startable, task>>

\* apply-rules asks for a node, and clears first, which asks the guard again.
Apply(p) ==
  /\ task[p] = "apply"
  /\ Goal(p, IF startable /\ Ready THEN "program" ELSE "none")
  /\ UNCHANGED <<vars, legacy, unit, enabled, startable, rules>>

Program(p) ==
  /\ task[p] \in {"program", "clear"}
  /\ rules' = IF task[p] = "program" THEN "ours" ELSE "none"
  /\ Goal(p, "none")
  /\ UNCHANGED <<vars, legacy, unit, enabled, startable>>
-----------------------------------------------------------------------------
(* core-upgrade-alpha *)

\* Its restart starts a unit that does not run, too.
RestartsUnit(p) ==
  /\ RestartNew(p) \/ RestartOld(p)
  /\ \/ Up
     \/ HooksPass /\ core \notin Works /\ running' = None /\ unit' = "waiting" /\ StopHook
     \/ Down
     \/ Faults /\ running' = running /\ UNCHANGED <<unit, rules>>
  /\ UNCHANGED <<legacy, enabled, startable, task>>

UpgradeStep(p) ==
  /\ task[p] = "none"
  /\ \/ pc[p] \notin {"restart", "again"} /\ Upgrade(p)
     \/ Die(p)
  /\ UNCHANGED host
-----------------------------------------------------------------------------
(* The operator: systemctl on the legacy unit, systemctl disable, nodes and assets *)

LegacyChanges ==
  /\ legacy' \in {"off", "enabled", "active"} \ {legacy}
  /\ rules' = IF legacy' = "active" THEN "legacy"
              ELSE IF legacy = "active" /\ rules = "legacy" THEN "none" ELSE rules
  /\ UNCHANGED <<vars, unit, enabled, startable, task>>

Disable ==
  /\ enabled /\ enabled' = FALSE
  /\ UNCHANGED <<vars, legacy, unit, startable, rules, task>>

InputsChange ==
  /\ startable' = ~startable
  /\ UNCHANGED <<vars, legacy, unit, enabled, rules, task>>

LifecycleNext ==
  \/ \E p \in Procs :
       \/ Pass(p) \/ WriteUnit(p) \/ Enable(p) \/ StartUnit(p) \/ StopToRestart(p) \/ Stop(p)
       \/ Apply(p) \/ Program(p) \/ RestartsUnit(p) \/ UpgradeStep(p)
  \/ UnitExits \/ RetryUp \/ RetryDown \/ LegacyChanges \/ Disable \/ InputsChange

\* systemd tries again every 5 seconds: if the core is there again and again, one of
\* its attempts finds it.
LifecycleSpec == LifecycleInit /\ [][LifecycleNext]_lvars /\ SF_lvars(RetryUp)
-----------------------------------------------------------------------------
(* Properties *)

\* While the legacy service is live and minimalist.service is neither active nor
\* enabled, and no command had passed the guard before that, nothing of the program
\* touches the rules, starts or enables the unit: neither a command, nor a hook, nor
\* the restart of an upgrade, nor a retry of systemd.
StandsAside ==
  [][/\ LegacyLive /\ ~enabled /\ unit # "active"
     /\ \A p \in Procs : task[p] = "none"
     => /\ unit' # "active" /\ ~enabled'
        /\ rules' = rules \/ legacy' # legacy]_lvars

\* Once the hooks have what they ask for, a unit that waits does not wait for ever,
\* whatever upgrades do to the core meanwhile, unless one ends with no core in place.
WaitingComesBack ==
  <>[](HookReady /\ startable) => []<>(unit # "waiting") \/ <>[](core = None)
=============================================================================
