---------------------------- MODULE HostProxy -----------------------------
(***************************************************************************)
(* config.yaml and the commands that change it: host-proxy enable and      *)
(* disable (setHostProxy), the web form (updateConfig), the web editor     *)
(* (saveRawConfig), the router wizard, and every other command, which      *)
(* reads the file through ensureAll and may write it back.  The host proxy *)
(* switch is saved, rendered and applied to the kernel as a transaction    *)
(* that rolls back when a step fails.                                      *)
(*                                                                         *)
(* No lock covers config.yaml: the web requests of one server share a      *)
(* mutex, the other commands are processes of their own.  A save cuts the  *)
(* file to nothing and then writes it (os.WriteFile); an empty file parses *)
(* as the defaults, and two saves that overlap may leave a file that does  *)
(* not parse, which only the web editor repairs.                           *)
(*                                                                         *)
(* One step of this module stands for a whole RenderFiles and for a whole  *)
(* ApplyRules after its ensureAll; their own steps are in Service and      *)
(* Routing.                                                                *)
(***************************************************************************)
EXTENDS Integers

CONSTANTS
  Procs,      \* commands and web requests that may run at the same time
  Rests,      \* values of the settings other than the switches
  Edits,      \* the documents a person writes in the editor or answers to the wizard
  MaxCalls,   \* how many commands and requests a behaviour starts
  MaxFaults,  \* how many of their steps may fail or be cut short
  Blank,      \* a file cut to nothing
  Absent,     \* a file that does not exist
  Garbled,    \* a file that does not parse, a mix of two saves
  Cleared,    \* no rule or chain of the tool in the kernel
  Partial,    \* rules or runtime files built half way
  Nobody      \* nobody holds the mutex

ASSUME HostProxyAssumption ==
  /\ MaxCalls \in Nat
  /\ MaxFaults \in Nat
  /\ Nobody \notin Procs
  /\ Rests # {}

VARIABLES
  file,      \* config.yaml: a document, Blank (cut to nothing), Absent or Garbled
  rendered,  \* the settings the runtime files were built from
  kernel,    \* the settings the routing rules were built from, Cleared or Partial
  hasNodes,  \* the stored state has an enabled manual node
  mutex,     \* the web request that holds the server's mutex, or nobody
  run,       \* run[p]: where the command or request p is
  calls,     \* commands and requests started so far
  faults     \* steps that failed so far

vars == <<file, rendered, kernel, hasNodes, mutex, run, calls, faults>>

(***************************************************************************)
(* Documents.  output is proxy_host_output, base says that some ingress    *)
(* interface is listed or DNS hijacking is on, secret that the document    *)
(* stores a controller secret.  In memory a secret is always set.          *)
(***************************************************************************)
Doc == [output: BOOLEAN, base: BOOLEAN, rest: Rests, secret: BOOLEAN]
Cfg == {d \in Doc : d.secret}

NoDocument == {Blank, Absent, Garbled}

ASSUME DocumentsAssumption ==
  /\ Edits \subseteq Doc
  /\ Doc \cap NoDocument = {}
  /\ Garbled \notin {Blank, Absent}

\* Default(): what an empty file parses as, and what a missing one becomes.
Default == [output |-> FALSE, base |-> TRUE, rest |-> CHOOSE r \in Rests : TRUE,
            secret |-> TRUE]

\* What Load returns for a file: omitted settings take their default.  (Of a Garbled file
\* it returns an error; Default stands for what a call finds that begins with one.)
Loaded(f) == IF f \in NoDocument THEN Default ELSE [f EXCEPT !.secret = TRUE]

\* Ensure writes the document back when the file holds no secret.
Unsealed(f) == IF f \in NoDocument THEN TRUE ELSE ~f.secret

\* Documents with each setting of one of two.
Mixes(d, f) == {m \in Doc : \A setting \in DOMAIN m : m[setting] \in {d[setting], f[setting]}}

\* What a save of d leaves of a file that holds f: os.WriteFile writes at the start, so the
\* end of a longer document that another save wrote since the cut stays behind it.  Save
\* names every setting, and a second one of the same name is an error; the text of the web
\* editor may leave settings out, which the rest then supplies.
WrittenOver(f, d, isText) ==
  IF f \in {Blank, d} THEN {d}
  ELSE {d, Garbled} \union (IF isText /\ f \in Doc THEN Mixes(d, f) ELSE {})

Settings(d) == [base |-> d.base, rest |-> d.rest]

\* What ApplyRules makes of the kernel: a configuration that routes nothing clears it.
ExplicitOnly(d) == ~d.base /\ ~d.output
Programmed(d) == IF ExplicitOnly(d) THEN Cleared
                 ELSE [output |-> d.output, base |-> d.base, rest |-> d.rest]

(***************************************************************************)
(* Commands.  "switch" is setHostProxy, "form" updateConfig, "raw"         *)
(* saveRawConfig, "wizard" routerWizardWithReader, "look" and "page" a     *)
(* command and a web page that only read.  phase: "form" while             *)
(* updateConfig reads, "ask" until the switch or the edit is decided,      *)
(* "edit" while settings are saved without being applied, "persist" and    *)
(* "rollback" for the two halves of the transaction.                       *)
(***************************************************************************)
Ops == {"switch", "form", "raw", "wizard", "look", "page"}
Web == {"form", "raw", "page"}

Runs == [op: Ops, want: BOOLEAN, edit: Doc,
         pc: {"idle", "wait", "load", "probe", "decide", "prompt", "cut", "write",
              "render", "apply", "done"},
         at: {"decide", "render", "apply"},   \* where ensureAll returns to
         phase: {"form", "ask", "edit", "persist", "rollback"},
         filling: BOOLEAN,                    \* the save in progress is Ensure's
         cfg: Cfg, previous: Cfg, began: Cfg,
         end: {"none", "shown", "refused", "already", "cancelled", "saved", "failed",
               "changed", "restored", "stuck"},
         disturbed: SUBSET {"web", "other"}]  \* who wrote what it works on meanwhile

Idle == [op |-> "look", want |-> FALSE, edit |-> Default, pc |-> "idle", at |-> "decide",
         phase |-> "ask", filling |-> FALSE, cfg |-> Default, previous |-> Default,
         began |-> Default, end |-> "none", disturbed |-> {}]

TypeOK ==
  /\ file \in Doc \union NoDocument
  /\ rendered \in [base: BOOLEAN, rest: Rests] \union {Absent, Partial}
  /\ kernel \in [output: BOOLEAN, base: BOOLEAN, rest: Rests] \union {Cleared, Partial}
  /\ hasNodes \in BOOLEAN
  /\ mutex \in Procs \union {Nobody}
  /\ run \in [Procs -> Runs]
  /\ calls \in 0..MaxCalls
  /\ faults \in 0..MaxFaults
  /\ \A p \in Procs : run[p].phase \in {"persist", "rollback"} => run[p].op \in {"switch", "form"}

\* An installation whose last apply-rules used the stored settings, or a fresh machine.
Init ==
  /\ \/ file \in {Loaded(d) : d \in Edits} /\ rendered = Settings(file) /\ kernel = Programmed(file)
     \/ file = Absent /\ rendered = Absent /\ kernel = Cleared
  /\ hasNodes \in BOOLEAN
  /\ mutex = Nobody
  /\ run = [p \in Procs |-> Idle]
  /\ calls = 0
  /\ faults = 0

Running(p) == run[p].pc \notin {"idle", "done"}

\* A call that ends gives the server's mutex back.
Release(p, r) == mutex' = IF r.pc \in {"done", "idle"} /\ mutex = p THEN Nobody ELSE mutex

\* p goes on as r.
Becomes(p, r) ==
  /\ run' = [run EXCEPT ![p] = r]
  /\ Release(p, r)

\* A call somebody else's write meets: what it found no longer matters, and the record of
\* one that has returned is dropped.
Disturbed(r, op) ==
  IF r.pc = "done" THEN Idle
  ELSE [r EXCEPT !.began = Default,
                 !.disturbed = @ \union {IF op \in Web THEN "web" ELSE "other"}]

\* p goes on as r, having written something the other calls work on.
Writes(p, r) ==
  /\ run' = [q \in Procs |-> IF q = p THEN r
                             ELSE Disturbed(run[q], run[p].op)]
  /\ Release(p, r)

\* A call returns.  The properties look at what it leaves until somebody else writes, but
\* not at an edit, which saves one whole document.
Ended(r, how) ==
  IF r.disturbed = {} /\ r.op \notin {"raw", "wizard"}
    THEN [r EXCEPT !.pc = "done", !.end = how, !.cfg = Default, !.at = "decide"]
    ELSE Idle

Fault == faults < MaxFaults /\ faults' = faults + 1

(* ------------------------------------------------- beginning and locking *)

Begin(p, op, want, edit) ==
  /\ ~Running(p)
  /\ calls < MaxCalls
  /\ calls' = calls + 1
  /\ Becomes(p, [Idle EXCEPT !.op = op, !.want = want, !.edit = edit,
                             !.pc = IF op \in Web THEN "wait" ELSE "load",
                             !.phase = IF op = "form" THEN "form" ELSE "ask",
                             !.began = IF op \in Web THEN Default ELSE Loaded(file)])
  /\ UNCHANGED <<file, rendered, kernel, hasNodes, faults>>

\* A bug: a web request does not wait for the mutex.
Lock_Unguarded(p) ==
  /\ run[p].pc = "wait"
  /\ mutex' = p
  /\ run' = [run EXCEPT ![p].pc = IF run[p].op = "raw" THEN "decide" ELSE "load",
                        ![p].began = Loaded(file), ![p].disturbed = {}]
  /\ UNCHANGED <<file, rendered, kernel, hasNodes, calls, faults>>

\* A web request gets the mutex; the editor's request reads no configuration.
Lock(p) ==
  /\ run[p].pc = "wait"
  /\ mutex = Nobody
  /\ mutex' = p
  /\ run' = [run EXCEPT ![p] = [@ EXCEPT !.pc = IF run[p].op = "raw" THEN "decide" ELSE "load",
                                         !.began = Loaded(file), !.disturbed = {}]]
  /\ UNCHANGED <<file, rendered, kernel, hasNodes, calls, faults>>

\* Not root, legacy service live, unreadable state or rules, or content that does not parse.
Refuse(p) ==
  /\ run[p].phase \in {"form", "ask"}
  /\ \/ run[p].pc = "load"
     \/ run[p].pc = "decide" /\ run[p].op = "raw"
  /\ Becomes(p, Ended(run[p], "refused"))
  /\ UNCHANGED <<file, rendered, kernel, hasNodes, calls, faults>>

\* A bug: a failed edit is rolled back to a copy that was never taken.
Failed_EditToo(r) ==
  CASE r.phase \in {"form", "ask"}     -> Ended(r, "refused")
    [] r.phase \in {"edit", "persist"} -> [r EXCEPT !.phase = "rollback", !.pc = "cut",
                                                    !.at = "render", !.filling = FALSE,
                                                    !.cfg = r.previous]
    [] r.phase = "rollback"            -> Ended(r, "stuck")

\* Where a failed step of r leads; a failed transaction saves what it read first.
Failed(r) ==
  CASE r.phase \in {"form", "ask"} -> Ended(r, "refused")
    [] r.phase = "edit"            -> Ended(r, "failed")
    [] r.phase = "persist"         -> [r EXCEPT !.phase = "rollback", !.pc = "cut",
                                                !.at = "render", !.filling = FALSE,
                                                !.cfg = r.previous]
    [] r.phase = "rollback"        -> Ended(r, "stuck")

(* -------------------------------------------- ensureAll and config.Save *)

Load(p) ==
  /\ run[p].pc = "load"
  /\ LET missing == file = Absent
     IN \/ file = Garbled /\ Becomes(p, Failed(run[p]))
        \/ file # Garbled /\ Becomes(p, [run[p] EXCEPT !.cfg = Loaded(file), !.filling = missing,
                                                       !.pc = IF missing THEN "cut" ELSE "probe"])
  /\ UNCHANGED <<file, rendered, kernel, hasNodes, calls, faults>>

\* Ensure reads the file a second time to see whether a secret is stored; in one that
\* does not parse by now it looks for the word.
Probe(p) ==
  /\ run[p].pc = "probe"
  /\ \E unsealed \in BOOLEAN :
       /\ file # Garbled => unsealed = Unsealed(file)
       /\ Becomes(p, [run[p] EXCEPT !.filling = unsealed,
                                    !.pc = IF unsealed THEN "cut" ELSE run[p].at])
  /\ UNCHANGED <<file, rendered, kernel, hasNodes, calls, faults>>

\* os.WriteFile opens the file with O_TRUNC ...
Cut(p) ==
  /\ run[p].pc = "cut"
  /\ file' = Blank
  /\ Writes(p, [run[p] EXCEPT !.pc = "write"])
  /\ UNCHANGED <<rendered, kernel, hasNodes, calls, faults>>

\* The form's settings are stored; a switch that differs goes to setHostProxyFromWeb.
AfterEdit(r) ==
  IF r.op = "form" /\ r.cfg.output # r.want
    THEN [r EXCEPT !.pc = "load", !.phase = "ask"]
    ELSE Ended(r, "saved")

\* A bug: the rules are applied without rendering the runtime files first.
AfterSave_SkipsRender(r) ==
  IF r.filling THEN [r EXCEPT !.pc = r.at, !.filling = FALSE]
  ELSE IF r.phase = "edit" THEN AfterEdit(r)
  ELSE [r EXCEPT !.pc = "load", !.at = "apply"]

AfterSave(r) ==
  IF r.filling THEN [r EXCEPT !.pc = r.at, !.filling = FALSE]
  ELSE IF r.phase = "edit" THEN AfterEdit(r)
  ELSE [r EXCEPT !.pc = "load", !.at = "render"]

\* ... and then writes the document.
Write(p) ==
  /\ run[p].pc = "write"
  /\ LET isText == run[p].op = "raw"
     IN file' \in WrittenOver(file, IF isText THEN run[p].edit ELSE run[p].cfg, isText)
  /\ Writes(p, AfterSave(run[p]))
  /\ UNCHANGED <<rendered, kernel, hasNodes, calls, faults>>

(* ------------------------------------------------ decisions and prompts *)

\* A bug: previous is taken after the switch has been changed.
Persist_PreviousChanged(r) ==
  [r EXCEPT !.phase = "persist", !.pc = "cut", !.previous = [r.cfg EXCEPT !.output = r.want],
            !.cfg.output = r.want]

\* The copy read before the prompt is kept as previous and saved with the switch changed.
Persist(r) == [r EXCEPT !.phase = "persist", !.pc = "cut", !.previous = r.cfg,
                        !.cfg.output = r.want]

\* A bug: a form replaces the settings it does not carry by their defaults.
SaveForm_All(r) == [r EXCEPT !.phase = "edit", !.pc = "cut", !.cfg.rest = r.edit.rest,
                             !.cfg.base = r.edit.base]

\* The fields of a form leave the ingress interfaces and the DNS switch alone.
SaveForm(r) == [r EXCEPT !.phase = "edit", !.pc = "cut", !.cfg.rest = r.edit.rest]

DecideSwitch(r) ==
  IF r.want /\ ~hasNodes THEN Ended(r, "refused")
  ELSE IF r.cfg.output = r.want THEN Ended(r, "already")
  ELSE IF r.op = "form" THEN Persist(r)
  ELSE [r EXCEPT !.pc = "prompt"]

Decide(p) ==
  /\ run[p].pc = "decide"
  /\ LET r == run[p]
     IN Becomes(p, CASE r.phase = "form"                -> SaveForm(r)
                     [] r.op = "raw"                    -> [r EXCEPT !.phase = "edit", !.pc = "cut"]
                     [] r.op = "wizard"                 -> [r EXCEPT !.pc = "prompt"]
                     [] r.op \in {"look", "page"}       -> Ended(r, "shown")
                     [] r.op \in {"switch", "form"} /\ r.phase = "ask" -> DecideSwitch(r))
  /\ UNCHANGED <<file, rendered, kernel, hasNodes, calls, faults>>

Answer(p) ==
  /\ run[p].pc = "prompt"
  /\ IF run[p].op = "wizard"
       THEN Becomes(p, [run[p] EXCEPT !.phase = "edit", !.pc = "cut", !.cfg = run[p].edit])
       ELSE Becomes(p, Ended(run[p], "cancelled")) \/ Becomes(p, Persist(run[p]))
  /\ UNCHANGED <<file, rendered, kernel, hasNodes, calls, faults>>

(* -------------------------------------------- render, apply and failures *)

\* RenderConfig after its ensureAll.
Render(p) ==
  /\ run[p].pc = "render"
  /\ rendered' = Settings(run[p].cfg)
  /\ Writes(p, [run[p] EXCEPT !.pc = "load", !.at = "apply"])
  /\ UNCHANGED <<file, kernel, hasNodes, calls, faults>>

\* ApplyRules after its ensureAll: nodes are asked for only if something is routed.
ApplyRules(p) ==
  /\ run[p].pc = "apply"
  /\ LET r == run[p]
     IN IF ExplicitOnly(r.cfg) \/ hasNodes
          THEN /\ kernel' = Programmed(r.cfg)
               /\ Writes(p, Ended(r, IF r.phase = "persist" THEN "changed" ELSE "restored"))
          ELSE /\ Becomes(p, Failed(r))
               /\ UNCHANGED kernel
  /\ UNCHANGED <<file, rendered, hasNodes, calls, faults>>

\* A step cannot start (nothing written) or is cut short half way.
StepFails(p) ==
  /\ Fault
  /\ \/ /\ \/ run[p].pc \in {"cut", "write", "render", "apply"}
           \/ run[p].pc = "load" /\ run[p].phase \in {"persist", "rollback"}
        /\ Becomes(p, Failed(run[p]))
        /\ UNCHANGED <<rendered, kernel>>
     \/ /\ run[p].pc = "render"
        /\ rendered' = Partial
        /\ Writes(p, Failed(run[p]))
        /\ UNCHANGED kernel
     \/ /\ run[p].pc = "apply"
        /\ kernel' = Partial
        /\ Writes(p, Failed(run[p]))
        /\ UNCHANGED rendered
  /\ UNCHANGED <<file, hasNodes, calls>>

\* A command dies; with the web server all its requests die.
Crash(p) ==
  /\ Running(p)
  /\ Fault
  /\ LET dies(q) == \/ q = p
                    \/ Running(q) /\ {run[p].op, run[q].op} \subseteq Web
     IN /\ run' = [q \in Procs |-> IF dies(q) THEN Idle ELSE run[q]]
        /\ mutex' = IF mutex # Nobody /\ dies(mutex) THEN Nobody ELSE mutex
  /\ UNCHANGED <<file, rendered, kernel, hasNodes, calls>>

\* Other commands enable the first manual node or disable the last one.
NodesChange ==
  /\ calls < MaxCalls
  /\ calls' = calls + 1
  /\ hasNodes' = ~hasNodes
  /\ UNCHANGED <<file, rendered, kernel, mutex, run, faults>>

\* The answers a command or a request starts with; an edit that is not asked for is Default.
Inputs(op) ==
  CASE op = "raw"    -> {FALSE} \X Edits
    [] op = "wizard" -> {FALSE} \X {Loaded(d) : d \in Edits}
    [] op = "form"   -> BOOLEAN \X {[Default EXCEPT !.rest = r] : r \in Rests}
    [] op = "switch" -> BOOLEAN \X {Default}
    [] op \in {"look", "page"} -> {FALSE} \X {Default}

Next ==
  \/ \E p \in Procs :
       \/ \E op \in Ops : \E in \in Inputs(op) : Begin(p, op, in[1], in[2])
       \/ Lock(p) \/ Refuse(p) \/ Load(p) \/ Probe(p) \/ Cut(p) \/ Write(p)
       \/ Decide(p) \/ Answer(p) \/ Render(p) \/ ApplyRules(p)
       \/ StepFails(p) \/ Crash(p)
  \/ NodesChange

Spec == Init /\ [][Next]_vars

(* ------------------------------------------------------------ properties *)

\* A call has returned, and nobody else wrote the files or the rules since it began.
Alone(p) == run[p].pc = "done"
Stored == file \notin NoDocument

\* A change of the switch that is reported done has reached all three places: the
\* stored document asks for it, the runtime files are built from that document and
\* the kernel is programmed for it (setHostProxy and setHostProxyFromWeb returning nil
\* after persistHostProxyConfig).
ChangedMeansProgrammed ==
  \A p \in Procs : Alone(p) /\ run[p].end = "changed" =>
    /\ Stored
    /\ file.output = run[p].want
    /\ rendered = Settings(file)
    /\ kernel = Programmed(file)

\* A change that is reported undone has put back all three, whichever of its steps
\* failed: the document found before the change, its runtime files and its rules
\* (rollbackHostProxy returning nil).  The other fields of a form stay stored.
RestoredMeansPrevious ==
  \A p \in Procs : Alone(p) /\ run[p].end = "restored" =>
    LET r == run[p]
    IN /\ file = IF r.op = "form" THEN [r.began EXCEPT !.rest = r.edit.rest] ELSE r.began
       /\ rendered = Settings(file)
       /\ kernel = Programmed(file)

\* Whatever fails and however a call ends, a document it leaves behind has the settings
\* it found, except for those the call was asked to store; a switch that was not
\* changed, and not stuck in a failed rollback, is as it was.
SettingsKept ==
  \A p \in Procs : Alone(p) /\ Stored =>
    LET r == run[p]
    IN /\ r.op \in {"switch", "look", "page"} => Settings(file) = Settings(r.began)
       /\ r.op = "form" => file.base = r.began.base /\ file.rest \in {r.began.rest, r.edit.rest}
       /\ r.end \notin {"changed", "stuck"} => file.output = r.began.output

\* While a web request works, no other web request writes what it works on, and a crash
\* of the server frees the mutex (webUIServer.mu in updateConfig and saveRawConfig).
WebRequestsSerialized ==
  /\ mutex # Nobody => Running(mutex)
  /\ \A p \in Procs : Running(p) /\ run[p].pc # "wait" /\ run[p].op \in Web =>
       mutex = p /\ "web" \notin run[p].disturbed

\* Host proxy is turned off after confirmation: with nobody else writing and no step
\* failing, a confirmed disable ends with the switch off.
DisableTurnsOff ==
  \A p \in Procs :
    /\ Alone(p)
    /\ run[p].op = "switch"
    /\ ~run[p].want
    /\ run[p].phase \in {"persist", "rollback"}
    /\ faults = 0
    => run[p].end = "changed"

=============================================================================
