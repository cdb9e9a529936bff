----------------------------- MODULE RulesRepo ----------------------------
(***************************************************************************)
(* The repository of built-in rule sets: a manifest and one entry file per *)
(* rule set.  Every command first makes sure the repository exists         *)
(* (InitDefaultRepo through ensureAll), then adds an entry, removes one by *)
(* value or by its number, or reads all the files to render them.  Nothing *)
(* locks the files, and each is rewritten in place: cut, then written from *)
(* its start, over whatever somebody else has written there meanwhile.     *)
(*                                                                         *)
(* A file is a sequence of lines.  A line that starts with '#' is a        *)
(* comment.  The manifest names the same rule sets throughout: no command  *)
(* edits it.                                                               *)
(***************************************************************************)
EXTENDS Filtering

CONSTANTS
  Procs,      \* commands that may run at the same time
  Values,     \* trimmed lines
  Comments,   \* the lines that start with '#'
  Order,      \* the rule sets, in the order of the manifest
  Kind,       \* Kind[r]: the type and the target of rule set r
  Accepted,   \* Accepted[r]: the values ValidateEntry lets pass for r's type
  Shipped,    \* Shipped[r]: the file of r in the binary
  Tails,      \* Tails[v]: what the rest of line v may read as once its start is gone
  Missing,    \* a file that does not exist
  MaxCalls,   \* how many commands a behaviour starts
  MaxFaults   \* how many of their steps may fail or be cut short

Rulesets == ToSet(Order)

\* ReadEntries: the lines that count.
EntriesOf(lines) == Without(lines, Comments)

\* What ReadEntries and the ValidateEntry after it accept.
Readable(r, lines) ==
  /\ lines # Missing
  /\ IsInjective(EntriesOf(lines))
  /\ ToSet(EntriesOf(lines)) \subseteq Accepted[r]

ASSUME RepoAssumption ==
  /\ Comments \subseteq Values /\ Values # {}
  /\ Order \in Seq(Rulesets) /\ Order # <<>> /\ IsInjective(Order)
  /\ DOMAIN Kind = Rulesets
  /\ \A v \in Values : Tails[v] \subseteq Values
  /\ Missing \notin Seq(Values)
  /\ \A r \in Rulesets : Shipped[r] \in Seq(Values) /\ Readable(r, Shipped[r])
  /\ MaxCalls \in Nat /\ MaxFaults \in Nat

VARIABLES
  manifest,  \* manifest.yaml: "absent", "cut" or "whole"
  source,    \* source[r]: the lines of r's file, or Missing
  run,       \* run[p]: where command p is
  calls,     \* commands started so far
  faults,    \* steps that failed so far
  torn       \* the rule sets with a file that two writers have mixed, ever

vars == <<manifest, source, run, calls, faults, torn>>

Edits == {"add", "remove", "removeIndex"}

\* at: the file copied or read, by its place in Order, 0 for the manifest.
Runs == [op: Edits \union {"render"},
         pc: {"idle", "stat", "copyCut", "copyWrite", "read", "cut", "write", "done"},
         at: 0..Len(Order), r: Rulesets, value: Values, index: Nat,
         entries: Seq(Values),                  \* the entries in memory
         lines: Seq(Range(Kind) \X Values),     \* the rendered lines
         before: Seq(Values), alone: BOOLEAN,   \* what was there, and whether it was left so
         end: {"none", "ok", "error"}]

Idle == [op |-> "render", pc |-> "idle", at |-> 0, r |-> Order[1],
         value |-> CHOOSE v \in Values : TRUE, index |-> 0, entries |-> <<>>, lines |-> <<>>,
         before |-> <<>>, alone |-> TRUE, end |-> "none"]

TypeOK ==
  /\ manifest \in {"absent", "cut", "whole"}
  /\ \A r \in Rulesets : source[r] = Missing \/ source[r] \in Seq(Values)
  /\ run \in [Procs -> Runs]
  /\ calls \in 0..MaxCalls
  /\ faults \in 0..MaxFaults
  /\ torn \subseteq Rulesets
  /\ \A p \in Procs : run[p].end # "none" <=> run[p].pc = "done"

\* A machine without the repository, or one that already has it.
Init ==
  /\ \/ manifest = "absent" /\ source = [r \in Rulesets |-> Missing]
     \/ manifest = "whole" /\ source = [r \in Rulesets |-> Shipped[r]]
  /\ run = [p \in Procs |-> Idle]
  /\ calls = 0
  /\ faults = 0
  /\ torn = {}

Running(p) == run[p].pc \notin {"idle", "done"}

Becomes(p, r) == run' = [run EXCEPT ![p] = r]

\* A command that somebody else's write meets; what it found is compared no more.
Disturbed(r) == IF r.pc = "done" THEN Idle ELSE [r EXCEPT !.alone = FALSE, !.before = <<>>]

\* p goes on as r, having written a file others may work on.
Writes(p, r) == run' = [q \in Procs |-> IF q = p THEN r ELSE Disturbed(run[q])]

\* A bug: a command returns without saying how it ended.
Ended_Silent(r, how) == [r EXCEPT !.pc = "done"]

\* A command returns.  The properties look at one that nobody has disturbed.
Ended(r, how) ==
  IF r.alone THEN [r EXCEPT !.pc = "done", !.end = how, !.entries = <<>>] ELSE Idle

Fault == faults < MaxFaults /\ faults' = faults + 1

Lines(r) == IF source[r] = Missing THEN <<>> ELSE source[r]

\* What writing body from the start of a file with these lines may leave: a longer file
\* keeps its end, from the start of a line or from inside one.  How long each line is
\* decides where, and is left open.
WrittenOver(body, lines) ==
  LET whole == {SubSeq(lines, k, Len(lines)) : k \in 2..Len(lines) + 1}
      rest(k) == {<<t>> \o SubSeq(lines, k + 1, Len(lines)) : t \in Tails[lines[k]]}
  IN IF IsPrefix(lines, body) THEN {body}
     ELSE IF IsPrefix(body, lines) THEN {lines}
     ELSE {body \o end : end \in whole \union UNION {rest(k) : k \in DOMAIN lines}}

\* os.WriteFile after it has cut the file: others may have written it since.
WritesBody(f, body) ==
  \E after \in WrittenOver(body, Lines(f)) :
    /\ source' = [source EXCEPT ![f] = after]
    /\ torn' = IF after \in {body, Lines(f)} THEN torn ELSE torn \union {f}

Begin(p, op, r, v, i) ==
  /\ ~Running(p)
  /\ calls < MaxCalls
  /\ calls' = calls + 1
  /\ Becomes(p, [Idle EXCEPT !.op = op, !.pc = "stat", !.r = r, !.value = v, !.index = i,
                             !.before = EntriesOf(Lines(r))])
  /\ UNCHANGED <<manifest, source, faults, torn>>

(* ------------------------------------------------------- InitDefaultRepo *)

\* The manifest decides whether there is a repository.
Stat(p) ==
  /\ run[p].pc = "stat"
  /\ Becomes(p, IF manifest = "absent" THEN [run[p] EXCEPT !.pc = "copyCut", !.at = 0]
                ELSE [run[p] EXCEPT !.pc = "read", !.at = 1])
  /\ UNCHANGED <<manifest, source, calls, faults, torn>>

CopyCut(p) ==
  /\ run[p].pc = "copyCut"
  /\ Writes(p, [run[p] EXCEPT !.pc = "copyWrite"])
  /\ IF run[p].at = 0 THEN manifest' = "cut" /\ UNCHANGED source
     ELSE source' = [source EXCEPT ![Order[run[p].at]] = <<>>] /\ UNCHANGED manifest
  /\ UNCHANGED <<calls, faults, torn>>

\* The tree is copied in the order of the names: the manifest is its first file.
CopyWrite(p) ==
  /\ run[p].pc = "copyWrite"
  /\ LET i == run[p].at
         last == i = Len(Order)
     IN /\ Writes(p, [run[p] EXCEPT !.pc = IF last THEN "read" ELSE "copyCut",
                                    !.at = IF last THEN 1 ELSE i + 1,
                                    !.before = IF last THEN EntriesOf(Shipped[run[p].r]) ELSE @])
        /\ IF i = 0 THEN manifest' = "whole" /\ UNCHANGED <<source, torn>>
           ELSE WritesBody(Order[i], Shipped[Order[i]]) /\ UNCHANGED manifest
  /\ UNCHANGED <<calls, faults>>

(* ----------------------------------------------------------- the commands *)

\* A bug: an entry is added whether or not it is there.
Added_Again(r) ==
  IF r.value \notin Accepted[r.r] THEN Ended(r, "error")
  ELSE [r EXCEPT !.pc = "cut", !.entries = Append(@, r.value)]

\* AppendEntry: the value is checked first; an entry that is there is not added again.
Added(r) ==
  IF r.value \notin Accepted[r.r] THEN Ended(r, "error")
  ELSE IF Contains(r.entries, r.value) THEN Ended(r, "ok")
  ELSE [r EXCEPT !.pc = "cut", !.entries = Append(@, r.value)]

\* RemoveEntry: every entry equal to the value goes, even if there is none.
Removed(r) == [r EXCEPT !.pc = "cut", !.entries = Without(@, {r.value})]

\* A bug: the first number is 0.
RemovedIndex_FromZero(r) ==
  IF r.index + 1 \notin DOMAIN r.entries THEN Ended(r, "error")
  ELSE [r EXCEPT !.pc = "cut", !.entries = RemoveAt(@, r.index + 1)]

\* RemoveEntryIndex: the number is the entry's place in the file.
RemovedIndex(r) ==
  IF r.index \notin DOMAIN r.entries THEN Ended(r, "error")
  ELSE [r EXCEPT !.pc = "cut", !.entries = RemoveAt(@, r.index)]

\* A bug: a line is rendered once for each rule set that has it.
Rendered_Repeats(r, f) ==
  LET entries == EntriesOf(source[f])
      more == [r EXCEPT !.at = @ + 1,
                        !.lines = @ \o [i \in DOMAIN entries |-> <<Kind[f], entries[i]>>]]
  IN IF r.at < Len(Order) THEN more ELSE Ended([more EXCEPT !.at = r.at], "ok")

\* One more file for the render: a line that an earlier rule set gave is left out.
Rendered(r, f) ==
  LET entries == EntriesOf(source[f])
      found == [i \in DOMAIN entries |-> <<Kind[f], entries[i]>>]
      more == [r EXCEPT !.at = @ + 1, !.lines = @ \o Without(found, ToSet(@))]
  IN IF r.at < Len(Order) THEN more ELSE Ended([more EXCEPT !.at = r.at], "ok")

\* A bug: a line that is there twice is taken once, and the file written back without it.
Unreadable_Tolerant(r, f) ==
  \/ r.at = 1 /\ manifest # "whole"
  \/ source[f] = Missing

\* LoadManifest, FindRuleset or ReadEntries fails, or an entry to be rendered is not valid.
Unreadable(r, f) ==
  \/ r.at = 1 /\ manifest # "whole"
  \/ source[f] = Missing
  \/ ~IsInjective(EntriesOf(source[f]))
  \/ r.op = "render" /\ ~Readable(f, source[f])

Read(p) ==
  /\ run[p].pc = "read"
  /\ LET r == run[p]
         f == IF r.op = "render" THEN Order[r.at] ELSE r.r
         got == [r EXCEPT !.entries = EntriesOf(source[f])]
     IN Becomes(p, IF Unreadable(r, f) THEN Ended(r, "error")
                   ELSE CASE r.op = "render"      -> Rendered(r, f)
                          [] r.op = "add"         -> Added(got)
                          [] r.op = "remove"      -> Removed(got)
                          [] r.op = "removeIndex" -> RemovedIndex(got))
  /\ UNCHANGED <<manifest, source, calls, faults, torn>>

\* writeEntries cuts the file ...
Cut(p) ==
  /\ run[p].pc = "cut"
  /\ source' = [source EXCEPT ![run[p].r] = <<>>]
  /\ Writes(p, [run[p] EXCEPT !.pc = "write"])
  /\ UNCHANGED <<manifest, calls, faults, torn>>

\* ... and writes the entries, and none of the comments that were there.
Write(p) ==
  /\ run[p].pc = "write"
  /\ WritesBody(run[p].r, run[p].entries)
  /\ Writes(p, Ended(run[p], "ok"))
  /\ UNCHANGED <<manifest, calls, faults>>

\* A file cannot be opened, or cannot be written after it was cut.
StepFails(p) ==
  /\ run[p].pc \in {"copyCut", "copyWrite", "cut", "write"}
  /\ Fault
  /\ Becomes(p, Ended(run[p], "error"))
  /\ UNCHANGED <<manifest, source, calls, torn>>

Crash(p) ==
  /\ Running(p)
  /\ Fault
  /\ Becomes(p, Idle)
  /\ UNCHANGED <<manifest, source, calls, torn>>

Next ==
  \E p \in Procs :
    \/ \E r \in Rulesets, v \in Values, op \in {"add", "remove"} : Begin(p, op, r, v, 0)
    \/ \E r \in Rulesets, i \in 0..Cardinality(Values) :
         Begin(p, "removeIndex", r, Idle.value, i)
    \/ Begin(p, "render", Idle.r, Idle.value, 0)
    \/ Stat(p) \/ CopyCut(p) \/ CopyWrite(p) \/ Read(p) \/ Cut(p) \/ Write(p)
    \/ StepFails(p) \/ Crash(p)

Spec == Init /\ [][Next]_vars

(* ------------------------------------------------------------ properties *)

\* Commands that edit copies gone stale, fail or die leave files the next render accepts:
\* no entry twice, and none of the wrong form (Render returns an error for the whole
\* repository otherwise, and with it every RenderFiles).  The exception is a file that two
\* writers have mixed, one writing a body over the longer body of another.
RepoRenders ==
  \A r \in Rulesets \ torn : source[r] # Missing => Readable(r, source[r])

\* A rule set every command that reads it refuses, and no command about to write anything.
Damaged(r) ==
  \/ manifest = "cut"
  \/ source[r] = Missing
  \/ ~IsInjective(EntriesOf(source[r]))

Settled(r) ==
  /\ manifest # "absent"
  /\ \A p \in Procs :
       /\ run[p].pc \notin {"copyCut", "copyWrite"}
       /\ run[p].r = r => run[p].pc \notin {"cut", "write"}

\* A repository copied half way, or a file that overlapping writes have left with an entry
\* twice, is never repaired by a later command, nor taken for good: no command writes the
\* rule set again, and none completes the repository, because the manifest that says that
\* it is there is the first file copied (InitDefaultRepo, ReadEntries).
DamageStays ==
  [][\A r \in Rulesets : Settled(r) /\ Damaged(r) => Settled(r)' /\ Damaged(r)']_vars

\* A command has returned and nobody else wrote the repository since it began.
Alone(p) == run[p].pc = "done"

\* A render that nobody disturbs returns each entry of each rule set under its type and
\* target, and no line twice, though rule sets may share entries (Render).
RenderIsExact ==
  \A p \in Procs : Alone(p) /\ run[p].op = "render" /\ run[p].end = "ok" =>
    /\ IsInjective(run[p].lines)
    /\ ToSet(run[p].lines) =
         UNION {{<<Kind[r], e>> : e \in ToSet(EntriesOf(Lines(r)))} : r \in Rulesets}

\* An edit that nobody disturbs changes one entry and keeps the others in their order;
\* one that is refused changes none.  A value that starts with '#' is no entry: adding
\* it succeeds and adds nothing (AppendEntry, RemoveEntry, RemoveEntryIndex).
EditIsExact ==
  \A p \in Procs : Alone(p) /\ run[p].op \in Edits =>
    LET r == run[p]
        now == EntriesOf(Lines(r.r))
        added == ToSet(now) \ ToSet(r.before)
        gone == ToSet(r.before) \ ToSet(now)
        touched == CASE r.op = "removeIndex" /\ r.end = "ok" -> r.before[r.index]
                     [] OTHER -> r.value
    IN /\ r.end = "ok" =>
            /\ r.op = "removeIndex" => r.index \in DOMAIN r.before
            /\ Without(now, added) = Without(r.before, gone)
            /\ ToSet(now) = IF r.op = "add" THEN ToSet(r.before) \union ({touched} \ Comments)
                            ELSE ToSet(r.before) \ {touched}
       /\ r.end = "error" /\ faults = 0 => now = r.before

=============================================================================
