------------------------------- MODULE Routing -------------------------------
(***************************************************************************)
(* The transparent-proxy rules in the kernel, and the two programs that    *)
(* write them: ApplyRules and ClearRules (apply-rules and clear-rules of   *)
(* the CLI, ExecStartPre and ExecStopPost of the unit, the last step of    *)
(* host-proxy).  Each is a fixed sequence of iptables and ip commands, run *)
(* one at a time as child processes; a command that fails ends the program *)
(* there, except where the code drops the error.  No lock keeps two        *)
(* programs from interleaving.                                             *)
(*                                                                         *)
(* A program is a sequence of steps, each the name of an operation and its *)
(* operands; an action runs the first step.  A loop that appends one line  *)
(* per interface, network or user is one step and one entry of its chain.  *)
(*                                                                         *)
(* External, modelled from how the code uses it: iptables (-C -D -A -N -F  *)
(* -X) and ip rule / ip route.  A chain that is referenced or not empty    *)
(* cannot be deleted; a rule cannot name a chain that does not exist.      *)
(* Bound: MaxJumps copies of one jump and of the ip rule.                  *)
(***************************************************************************)
EXTENDS Filtering

CONSTANTS
  Procs,     \* programs that may run at once
  Configs,   \* the network configurations an ApplyRules may find in config.yaml
  Faults,    \* any command may fail or be killed
  Misread,   \* a check (-C) may fail although the rule is there
  MaxJumps

Config == [ingress: BOOLEAN, dns: BOOLEAN, output: BOOLEAN]

ASSUME RoutingAssumption ==
  /\ Configs \subseteq Config
  /\ Faults \in BOOLEAN /\ Misread \in BOOLEAN
  /\ MaxJumps \in Nat \ {0}

VARIABLES
  chains,  \* the MIHOMO_* chains that exist, with their entries in order
  jumps,   \* how many rules of the built-in chains jump to each chain
  iprule,  \* how many rules send mark 9011 to table 233
  route,   \* table 233 has its local default route
  prog,    \* the steps each process has still to run
  goal,    \* the configuration each process programs; for ClearRules, Nothing
  alone,   \* no other program has run since this one began
  intact,  \* since the last program that succeeded alone, none has overlapped
  result   \* how the last program of each process ended

kernel == <<chains, jumps, iprule, route>>
vars == <<kernel, prog, goal, alone, intact, result>>

\* A chain is named without its prefix MIHOMO_.
Owned == <<"PRE", "PRE_HANDLE", "OUT", "DNS", "DNS_HANDLE">>
Legacy == "DNS_OUT"
Cleared == Owned \o <<Legacy>>
Unjumped == <<"PRE", "OUT", "DNS", Legacy>>
JumpTargets == {Unjumped[i] : i \in DOMAIN Unjumped}
Chains == {Cleared[i] : i \in DOMAIN Cleared}

\* What an entry of a chain does with a packet.
Lines == {"handle", "return", "dns", "destinations", "sources", "tproxy",
          "exempt", "mark", "dns_handle", "redirect"}
\* The entries that jump to another chain.
JumpOf == [line \in {"handle", "dns_handle"} |->
             IF line = "handle" THEN "PRE_HANDLE" ELSE "DNS_HANDLE"]
-----------------------------------------------------------------------------
(* The programs *)

Each(op, names) == [i \in DOMAIN names |-> <<op, names[i]>>]
When(condition, steps) == IF condition THEN steps ELSE <<>>

\* ClearRules: jumps first, then the chains, with errors dropped.
DropChain(c) == <<<<"flush", c>>, <<"destroy", c>>>>
DropChains(names) ==
  [i \in 1..(2 * Len(names)) |-> DropChain(names[(i + 1) \div 2])[2 - (i % 2)]]

ClearProgram ==
  Each("unjump", Unjumped) \o DropChains(Cleared) \o <<<<"unrule">>, <<"unroute">>>>

Nothing == [ingress |-> FALSE, dns |-> FALSE, output |-> FALSE]
Explicit(c) == ~c.ingress /\ ~c.dns /\ ~c.output

\* The bodies of the chains, in the order the code appends them.
BodySteps(c) ==
  When(c.ingress, <<<<"append", "PRE", "handle">>>>)
  \o <<<<"append", "PRE", "return">>>>
  \o When(c.dns, <<<<"append", "PRE_HANDLE", "dns">>>>)
  \o <<<<"append", "PRE_HANDLE", "destinations">>, <<"append", "OUT", "destinations">>,
       <<"append", "PRE_HANDLE", "sources">>, <<"append", "DNS_HANDLE", "sources">>,
       <<"append", "PRE_HANDLE", "tproxy">>,
       <<"append", "OUT", "exempt">>, <<"append", "OUT", "mark">>>>
  \o When(c.dns, <<<<"append", "DNS", "dns_handle">>, <<"append", "DNS", "return">>,
                   <<"append", "DNS_HANDLE", "redirect">>>>)

\* The jumps of the built-in chains, once the chains are filled.
JumpSteps(c) ==
  When(c.dns, <<<<"jump", "DNS">>>>) \o <<<<"jump", "PRE">>>>
  \o When(c.output, <<<<"jump", "OUT">>>>)

RouteSteps == <<<<"unrule">>, <<"route">>, <<"rule">>>>

\* Mutant: the jumps go in before the chains are filled.
ApplyProgram_JumpsFirst(c) ==
  IF Explicit(c) THEN ClearProgram
  ELSE ClearProgram \o Each("ensure", Owned) \o JumpSteps(c) \o BodySteps(c) \o RouteSteps

\* ApplyRules, after its checks.
ApplyProgram(c) ==
  IF Explicit(c) THEN ClearProgram
  ELSE ClearProgram \o Each("ensure", Owned) \o BodySteps(c) \o JumpSteps(c) \o RouteSteps

\* The entries that a part of the body leaves in a chain.
Appends(chain) == {"append"} \X {chain} \X Lines
Entries(steps, chain) ==
  LET appended == Without(steps, UNION {Appends(other) : other \in Chains \ {chain}})
  IN  [i \in DOMAIN appended |-> appended[i][3]]

\* The entries a finished program leaves in a chain.
Body(c, chain) == Entries(BodySteps(c), chain)
-----------------------------------------------------------------------------
TypeOK ==
  /\ DOMAIN chains \subseteq Chains
  /\ \A c \in DOMAIN chains : chains[c] \in Seq(Lines)
  /\ jumps \in [JumpTargets -> 0..MaxJumps]
  /\ iprule \in 0..MaxJumps /\ route \in BOOLEAN
  /\ goal \in [Procs -> Config]
  /\ alone \in [Procs -> BOOLEAN] /\ intact \in BOOLEAN
  /\ result \in [Procs -> {"none", "ok", "error"}]
  /\ \A t \in JumpTargets : jumps[t] > 0 => t \in DOMAIN chains

NoChains == [c \in {} |-> <<>>]

\* A clean kernel, or one where an earlier version left its own DNS chain behind.
Init ==
  /\ \/ /\ chains = NoChains
        /\ jumps = [t \in JumpTargets |-> 0]
     \/ /\ chains = [c \in {Legacy} |-> <<"redirect">>]
        /\ jumps = [t \in JumpTargets |-> IF t = Legacy THEN 1 ELSE 0]
  /\ iprule = 0 /\ route = FALSE
  /\ prog = [p \in Procs |-> <<>>]
  /\ goal = [p \in Procs |-> Nothing]
  /\ alone = [p \in Procs |-> FALSE]
  /\ intact = TRUE
  /\ result = [p \in Procs |-> "none"]
-----------------------------------------------------------------------------
(* Beginning and ending a program *)

Active(p) == prog[p] # <<>>

Begin(p, steps, what) ==
  LET free == \A q \in Procs : ~Active(q)
  IN  /\ prog' = [prog EXCEPT ![p] = steps]
      /\ goal' = [goal EXCEPT ![p] = what]
      /\ alone' = [q \in Procs |-> q = p /\ free]
      /\ intact' = (intact /\ free)
      /\ result' = [result EXCEPT ![p] = "none"]
      /\ UNCHANGED kernel

\* ApplyRules for the configuration c it has read.  Without an enabled manual node
\* it returns before its first command unless c is a purely explicit proxy.
ApplyRules(p, c) ==
  /\ ~Active(p)
  /\ Begin(p, ApplyProgram(c), c)

ClearRules(p) ==
  /\ ~Active(p)
  /\ Begin(p, ClearProgram, Nothing)

\* The first step of p is done; more steps may have to come before the rest.
Step(p, op) == Active(p) /\ Head(prog[p])[1] = op
Operand(p) == Head(prog[p])[2]

Continue(p, more) ==
  LET rest == more \o Tail(prog[p])
      done == rest = <<>>
  IN  /\ prog' = [prog EXCEPT ![p] = rest]
      /\ result' = IF done THEN [result EXCEPT ![p] = "ok"] ELSE result
      /\ intact' = (intact \/ (done /\ alone[p]))
      /\ UNCHANGED <<goal, alone>>

Abort(p) ==
  /\ prog' = [prog EXCEPT ![p] = <<>>]
  /\ result' = [result EXCEPT ![p] = "error"]
  /\ UNCHANGED <<kernel, goal, alone, intact>>

\* A command fails whose error is returned, or the process is killed.  The -N or -F
\* of ensureChain also fails if another program comes between it and the -S.
Fail(p) ==
  /\ Active(p)
  /\ Faults \/ (~alone[p] /\ Step(p, "ensure"))
  /\ Abort(p)
-----------------------------------------------------------------------------
(* iptables *)

\* Mutant: one copy is deleted, and no other is looked for.
CheckJump_Once(p) ==
  /\ Step(p, "unjump")
  /\ \/ jumps[Operand(p)] > 0 /\ Continue(p, <<<<"delete", Operand(p)>>>>)
     \/ (jumps[Operand(p)] = 0 \/ Misread) /\ Continue(p, <<>>)
  /\ UNCHANGED kernel

\* deleteJump: as long as the check finds the rule, delete one copy of it.  Whatever
\* goes wrong with the check counts as "not there".
CheckJump(p) ==
  /\ Step(p, "unjump")
  /\ \/ jumps[Operand(p)] > 0 /\ Continue(p, <<<<"delete", Operand(p)>>, Head(prog[p])>>)
     \/ (jumps[Operand(p)] = 0 \/ Misread) /\ Continue(p, <<>>)
  /\ UNCHANGED kernel

\* Mutant: the error of -D is dropped, and the loop goes on.
DeleteJump_IgnoresError(p) ==
  /\ Step(p, "delete")
  /\ \/ jumps[Operand(p)] > 0 /\ jumps' = [jumps EXCEPT ![Operand(p)] = @ - 1]
     \/ (jumps[Operand(p)] = 0 \/ Faults) /\ UNCHANGED jumps
  /\ Continue(p, <<>>)
  /\ UNCHANGED <<chains, iprule, route>>

DeleteJump(p) ==
  /\ Step(p, "delete")
  /\ IF jumps[Operand(p)] > 0
     THEN /\ jumps' = [jumps EXCEPT ![Operand(p)] = @ - 1]
          /\ Continue(p, <<>>)
          /\ UNCHANGED <<chains, iprule, route>>
     ELSE Abort(p)

\* -F and -X of ClearRules: errors are dropped.
Flush(p) ==
  /\ Step(p, "flush")
  /\ \/ /\ Operand(p) \in DOMAIN chains
        /\ chains' = [chains EXCEPT ![Operand(p)] = <<>>]
     \/ (Operand(p) \notin DOMAIN chains \/ Faults) /\ UNCHANGED chains
  /\ Continue(p, <<>>)
  /\ UNCHANGED <<jumps, iprule, route>>

JumpsTo(line, chain) == line \in DOMAIN JumpOf /\ JumpOf[line] = chain
Referenced(chain) ==
  \/ chain \in JumpTargets /\ jumps[chain] > 0
  \/ \E c \in DOMAIN chains : \E i \in DOMAIN chains[c] : JumpsTo(chains[c][i], chain)
Deletable(chain) ==
  chain \in DOMAIN chains /\ chains[chain] = <<>> /\ ~Referenced(chain)

Destroy(p) ==
  /\ Step(p, "destroy")
  /\ \/ /\ Deletable(Operand(p))
        /\ chains' = [c \in DOMAIN chains \ {Operand(p)} |-> chains[c]]
     \/ (~Deletable(Operand(p)) \/ Faults) /\ UNCHANGED chains
  /\ Continue(p, <<>>)
  /\ UNCHANGED <<jumps, iprule, route>>

\* Mutant: an existing chain is taken as it is.
EnsureChain_KeepsEntries(p) ==
  /\ Step(p, "ensure")
  /\ chains' = [c \in DOMAIN chains \cup {Operand(p)} |->
                  IF c \in DOMAIN chains THEN chains[c] ELSE <<>>]
  /\ Continue(p, <<>>)
  /\ UNCHANGED <<jumps, iprule, route>>

\* ensureChain: -S and then -F or -N, one step, since nothing else can come of it
\* but an empty chain or an error.
EnsureChain(p) ==
  /\ Step(p, "ensure")
  /\ chains' = [c \in DOMAIN chains \cup {Operand(p)} |->
                  IF c = Operand(p) THEN <<>> ELSE chains[c]]
  /\ Continue(p, <<>>)
  /\ UNCHANGED <<jumps, iprule, route>>

\* ipt -A: the chain, and the chain the entry jumps to, have to exist.
AppendLine(p) ==
  /\ Step(p, "append")
  /\ LET chain == Operand(p)
         line == Head(prog[p])[3]
     IN  IF /\ chain \in DOMAIN chains
            /\ line \in DOMAIN JumpOf => JumpOf[line] \in DOMAIN chains
         THEN /\ chains' = [chains EXCEPT ![chain] = Append(@, line)]
              /\ Continue(p, <<>>)
              /\ UNCHANGED <<jumps, iprule, route>>
         ELSE Abort(p)

\* The jump of a built-in chain: checked, and appended if the check fails.
CheckNewJump(p) ==
  /\ Step(p, "jump")
  /\ \/ jumps[Operand(p)] > 0 /\ Continue(p, <<>>)
     \/ (jumps[Operand(p)] = 0 \/ Misread) /\ Continue(p, <<<<"addjump", Operand(p)>>>>)
  /\ UNCHANGED kernel

AddJump(p) ==
  /\ Step(p, "addjump")
  /\ IF Operand(p) \in DOMAIN chains
     THEN /\ jumps[Operand(p)] < MaxJumps
          /\ jumps' = [jumps EXCEPT ![Operand(p)] = @ + 1]
          /\ Continue(p, <<>>)
          /\ UNCHANGED <<chains, iprule, route>>
     ELSE Abort(p)
-----------------------------------------------------------------------------
(* ip rule and ip route *)

\* Mutant: one deletion is taken to be enough.
DeleteIPRule_Once(p) ==
  /\ Step(p, "unrule")
  /\ iprule' = IF iprule > 0 THEN iprule - 1 ELSE 0
  /\ Continue(p, <<>>)
  /\ UNCHANGED <<chains, jumps, route>>

\* Mutant: the rule is deleted without looking for it.
DeleteIPRule_Blind(p) ==
  /\ Step(p, "unrule")
  /\ iprule' = iprule - 1
  /\ Continue(p, <<>>)
  /\ UNCHANGED <<chains, jumps, route>>

\* deleteIPRule: as long as "ip rule show" lists the rule, delete one copy of it.
DeleteIPRule(p) ==
  /\ Step(p, "unrule")
  /\ IF iprule > 0
     THEN iprule' = iprule - 1 /\ Continue(p, <<<<"unrule">>>>)
     ELSE UNCHANGED iprule /\ Continue(p, <<>>)
  /\ UNCHANGED <<chains, jumps, route>>

\* The error of the flush is dropped.
FlushRoute(p) ==
  /\ Step(p, "unroute")
  /\ route' = FALSE \/ (Faults /\ UNCHANGED route)
  /\ Continue(p, <<>>)
  /\ UNCHANGED <<chains, jumps, iprule>>

ReplaceRoute(p) ==
  /\ Step(p, "route")
  /\ route' = TRUE
  /\ Continue(p, <<>>)
  /\ UNCHANGED <<chains, jumps, iprule>>

AddIPRule(p) ==
  /\ Step(p, "rule")
  /\ iprule < MaxJumps
  /\ iprule' = iprule + 1
  /\ Continue(p, <<>>)
  /\ UNCHANGED <<chains, jumps, route>>

Command(p) ==
  \/ CheckJump(p) \/ DeleteJump(p) \/ Flush(p) \/ Destroy(p)
  \/ EnsureChain(p) \/ AppendLine(p) \/ CheckNewJump(p) \/ AddJump(p)
  \/ DeleteIPRule(p) \/ FlushRoute(p) \/ ReplaceRoute(p) \/ AddIPRule(p)

Next == \E p \in Procs :
  \/ \E c \in Configs : ApplyRules(p, c)
  \/ ClearRules(p) \/ Command(p) \/ Fail(p)

Spec == Init /\ [][Next]_vars /\ \A p \in Procs : WF_vars(Command(p))
-----------------------------------------------------------------------------
(* Properties *)

\* Packets never run through a half-built chain: as long as no two programs have
\* overlapped, a jump of a built-in chain is only there while the chains behind
\* it hold a complete body, even right after a program that failed part-way.
WholeBehind(target, behind) ==
  jumps[target] > 0 =>
    \E c \in Config : \A chain \in behind :
      chain \in DOMAIN chains /\ chains[chain] = Body(c, chain)
LiveChainsWhole ==
  intact => /\ WholeBehind("PRE", {"PRE", "PRE_HANDLE"})
            /\ WholeBehind("OUT", {"OUT"})
            /\ WholeBehind("DNS", {"DNS", "DNS_HANDLE"})

Programmed(c) ==
  /\ jumps = [t \in JumpTargets |->
       CASE t = "PRE" -> 1
         [] t = "OUT" -> IF c.output THEN 1 ELSE 0
         [] t = "DNS" -> IF c.dns THEN 1 ELSE 0
         [] OTHER     -> 0]
  /\ \A i \in DOMAIN Owned : Owned[i] \in DOMAIN chains /\ chains[Owned[i]] = Body(c, Owned[i])
  /\ iprule = 1 /\ route

Unprogrammed == iprule = 0 /\ \A t \in JumpTargets : jumps[t] = 0

\* Whatever earlier programs, failed, killed or interleaved, have left behind, one
\* that runs alone and reports success leaves exactly what its configuration asks
\* for: every jump and ip rule once, no line twice, none of an older setup.
SuccessIsExact ==
  [][\A p \in Procs :
       Active(p) /\ ~Active(p)' /\ result'[p] = "ok" /\ alone[p]
       => IF Explicit(goal[p]) THEN Unprogrammed' ELSE Programmed(goal[p])']_vars

\* Every program ends: each loop that deletes while it finds something runs out.
ProgramsEnd == \A p \in Procs : Active(p) ~> ~Active(p)
=============================================================================
