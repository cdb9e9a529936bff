-------------------------- MODULE RulesRepoProofs --------------------------
(***************************************************************************)
(* Proofs about RulesRepo for any number of commands, rule sets, entries   *)
(* and files.  The inductive invariant: every file that no two writers     *)
(* have mixed is one a render accepts (Sources), what a command is about   *)
(* to write to such a file is too (Sound), and what an undisturbed command *)
(* has read and computed so far is what the files call for (Tracks).       *)
(* FilteringProofs has what the loops compute.                             *)
(***************************************************************************)
EXTENDS RulesRepo, FilteringProofs
-----------------------------------------------------------------------------
(* The inductive invariant *)

LinesOf(S, x) == IF S[x] = Missing THEN <<>> ELSE S[x]

\* Every file that was never mixed is one the next render accepts, or is missing.
Sources(S, T) ==
  /\ S = [x \in Rulesets |-> S[x]]
  /\ \A x \in Rulesets : S[x] = Missing \/ S[x] \in Seq(Values)
  /\ \A x \in Rulesets \ T : S[x] # Missing => Readable(x, S[x])

\* Where a command can be.
Placed(r) ==
  /\ r.end # "none" <=> r.pc = "done"
  /\ r.pc = "done" => r.alone
  /\ r.pc = "read" => r.at # 0 /\ (r.op \in Edits => r.at = 1)
  /\ r.pc \in {"cut", "write"} => r.op \in Edits /\ IsInjective(r.entries)

\* The entries a command is about to write have the form of their rule set, unless they
\* come from a file that was mixed.
Sound(r, T) ==
  r.pc \in {"cut", "write"} /\ r.r \notin T => ToSet(r.entries) \subseteq Accepted[r.r]

\* The lines of the files of the rule sets before place n.
Before(S, n) ==
  UNION {{<<Kind[Order[j]], e>> : e \in ToSet(EntriesOf(LinesOf(S, Order[j])))} : j \in 1..n-1}

\* What an edit makes of the entries it has found.
Wanted(r) ==
  /\ IsInjective(r.before) /\ ToSet(r.before) \cap Comments = {}
  /\ CASE r.op = "add"         -> r.value \notin ToSet(r.before) /\ r.entries = Append(r.before, r.value)
       [] r.op = "remove"      -> r.entries = Without(r.before, {r.value})
       [] r.op = "removeIndex" -> /\ r.index \in DOMAIN r.before
                                  /\ r.entries = Without(r.before, {r.before[r.index]})

\* RenderIsExact and EditIsExact of one command.
RenderExact(r, S) ==
  r.op = "render" /\ r.end = "ok" =>
    IsInjective(r.lines) /\ ToSet(r.lines) = Before(S, Len(Order) + 1)

EditExact(r, now, fl) ==
  LET touched == CASE r.op = "removeIndex" /\ r.end = "ok" -> r.before[r.index]
                   [] OTHER -> r.value
  IN /\ r.end = "ok" =>
          /\ r.op = "removeIndex" => r.index \in DOMAIN r.before
          /\ Without(now, ToSet(now) \ ToSet(r.before)) = Without(r.before, ToSet(r.before) \ ToSet(now))
          /\ ToSet(now) = IF r.op = "add" THEN ToSet(r.before) \union ({touched} \ Comments)
                          ELSE ToSet(r.before) \ {touched}
     /\ r.end = "error" /\ fl = 0 => now = r.before

\* How far a command nobody disturbs has come: what it has copied, read or computed so far.
Tracks(r, S, fl) ==
  /\ r.op \in Edits /\ r.pc \in {"stat", "read", "cut"} => r.before = EntriesOf(LinesOf(S, r.r))
  /\ r.pc = "write" => S[r.r] = <<>>
  /\ r.pc = "copyWrite" /\ r.at # 0 => S[Order[r.at]] = <<>>
  /\ r.pc \in {"copyCut", "copyWrite"} => \A j \in 1..r.at-1 : S[Order[j]] = Shipped[Order[j]]
  /\ r.pc \in {"stat", "copyCut", "copyWrite"} => r.lines = <<>>
  /\ r.op = "render" /\ r.pc = "read" => IsInjective(r.lines) /\ ToSet(r.lines) = Before(S, r.at)
  /\ r.pc \in {"cut", "write"} => Wanted(r)
  /\ r.pc = "done" => /\ RenderExact(r, S)
                      /\ r.op \in Edits => EditExact(r, EntriesOf(LinesOf(S, r.r)), fl)

Good(r, S, fl, T) ==
  r \in Runs /\ Placed(r) /\ Sound(r, T) /\ (r.alone => Tracks(r, S, fl))

Counts ==
  /\ manifest \in {"absent", "cut", "whole"}
  /\ calls \in 0..MaxCalls /\ faults \in 0..MaxFaults
  /\ torn \subseteq Rulesets

AllGood ==
  /\ run = [p \in Procs |-> run[p]]
  /\ \A p \in Procs : Good(run[p], source, faults, torn)

RepoInv == Counts /\ Sources(source, torn) /\ AllGood
-----------------------------------------------------------------------------
(* The files *)

LEMMA EntriesOK ==
  ASSUME NEW lines \in Seq(Values)
  PROVE  /\ EntriesOf(lines) \in Seq(Values)
         /\ ToSet(EntriesOf(lines)) = ToSet(lines) \ Comments
         /\ IsInjective(lines) => IsInjective(EntriesOf(lines))
BY WithoutOK DEF EntriesOf

LEMMA EmptyOK ==
  /\ <<>> \in Seq(Values) /\ <<>> # Missing /\ EntriesOf(<<>>) = <<>>
  /\ \A x \in Rulesets : Readable(x, <<>>)
<1>1. <<>> \in Seq(Values)
  BY EmptySeq
<1>. <<>> # Missing
  BY <1>1, RepoAssumption
<1>2. EntriesOf(<<>>) = <<>>
  <2>1. ToSet(<<>>) \cap Comments = {}
    BY DEF ToSet
  <2> QED
    BY <1>1, <2>1, WithoutNone DEF EntriesOf
<1> QED
  BY <1>1, <1>2 DEF Readable, IsInjective, ToSet

\* The order names every rule set, each once.
LEMMA OrderOK ==
  /\ Len(Order) \in Nat \ {0} /\ DOMAIN Order = 1..Len(Order)
  /\ \A i \in 1..Len(Order) : Order[i] \in Rulesets
  /\ \A i, j \in 1..Len(Order) : Order[i] = Order[j] => i = j
  /\ \A x \in Rulesets : \E i \in 1..Len(Order) : x = Order[i]
BY RepoAssumption DEF Rulesets, ToSet, IsInjective

LEMMA FilesOK ==
  ASSUME NEW S, NEW T, Sources(S, T), NEW x \in Rulesets
  PROVE  /\ LinesOf(S, x) \in Seq(Values) /\ EntriesOf(LinesOf(S, x)) \in Seq(Values)
         /\ ToSet(EntriesOf(LinesOf(S, x))) \cap Comments = {}
         /\ x \notin T => ToSet(EntriesOf(LinesOf(S, x))) \subseteq Accepted[x]
<1>1. /\ LinesOf(S, x) \in Seq(Values)
      /\ x \notin T => Readable(x, LinesOf(S, x))
  BY EmptyOK DEF Sources, LinesOf
<1> QED
  BY <1>1, EntriesOK DEF Readable

\* A file is cut.
LEMMA SourcesCut ==
  ASSUME Sources(source, torn), NEW x \in Rulesets, source' = [source EXCEPT ![x] = <<>>],
         torn' = torn
  PROVE  /\ Sources(source', torn') /\ source'[x] = <<>>
         /\ \A y \in Rulesets \ {x} : source'[y] = source[y]
BY EmptyOK DEF Sources

\* A body written over lines is a file again, and a file that was cut takes it as it is.
LEMMA WrittenOverOK ==
  ASSUME NEW body \in Seq(Values), NEW lines \in Seq(Values), NEW after \in WrittenOver(body, lines)
  PROVE  after \in Seq(Values) /\ (lines = <<>> => after = body)
<1>1. CASE IsPrefix(lines, body)
  BY <1>1 DEF WrittenOver
<1>2. ~IsPrefix(lines, body) => lines # <<>>
  BY DEF IsPrefix
<1>3. CASE ~IsPrefix(lines, body) /\ IsPrefix(body, lines)
  BY <1>2, <1>3 DEF WrittenOver
<1>4. CASE ~IsPrefix(lines, body) /\ ~IsPrefix(body, lines)
  <2> DEFINE whole == {SubSeq(lines, k, Len(lines)) : k \in 2..Len(lines) + 1}
             rest(k) == {<<t>> \o SubSeq(lines, k + 1, Len(lines)) : t \in Tails[lines[k]]}
  <2>1. DOMAIN lines = 1..Len(lines) /\ \A k \in 1..Len(lines) : lines[k] \in Values
    OBVIOUS
  <2>2. \A k \in 1..Len(lines) + 1 : SubSeq(lines, k, Len(lines)) \in Seq(Values)
    OBVIOUS
  <2>3. ASSUME NEW k \in DOMAIN lines, NEW t \in Tails[lines[k]]
        PROVE  <<t>> \o SubSeq(lines, k + 1, Len(lines)) \in Seq(Values)
    <3>1. t \in Values /\ k + 1 \in 1..Len(lines) + 1
      BY <2>1, <2>3, RepoAssumption
    <3>2. <<t>> \in Seq(Values) /\ SubSeq(lines, k + 1, Len(lines)) \in Seq(Values)
      BY <2>2, <3>1
    <3> QED
      BY <3>2
  <2>4. whole \subseteq Seq(Values) /\ \A k \in DOMAIN lines : rest(k) \subseteq Seq(Values)
    <3>1. 2..Len(lines) + 1 \subseteq 1..Len(lines) + 1
      OBVIOUS
    <3>2. whole \subseteq Seq(Values)
      BY <2>2, <3>1
    <3>3. ASSUME NEW k \in DOMAIN lines PROVE rest(k) \subseteq Seq(Values)
      BY <2>3, <3>3
    <3> QED
      BY <3>2, <3>3
  <2>5. WrittenOver(body, lines) =
          {body \o end : end \in whole \union UNION {rest(k) : k \in DOMAIN lines}}
    BY <1>4 DEF WrittenOver
  <2> HIDE DEF whole, rest
  <2>6. PICK end \in Seq(Values) : after = body \o end
    BY <2>4, <2>5
  <2> QED
    BY <1>2, <1>4, <2>6
<1> QED
  BY <1>1, <1>3, <1>4

\* A body that a render accepts is written; where it meets another body the file is one
\* of the two, or one that is known to be mixed.
LEMMA SourcesWritten ==
  ASSUME Sources(source, torn), torn \subseteq Rulesets, NEW x \in Rulesets,
         NEW body \in Seq(Values), x \notin torn => Readable(x, body), WritesBody(x, body)
  PROVE  /\ Sources(source', torn') /\ torn \subseteq torn' /\ torn' \subseteq Rulesets
         /\ source[x] = <<>> => source'[x] = body /\ LinesOf(source', x) = body
         /\ \A y \in Rulesets \ {x} : source'[y] = source[y]
<1>1. Lines(x) \in Seq(Values) /\ (source[x] # Missing => Lines(x) = source[x])
  BY EmptyOK DEF Sources, Lines
<1>2. PICK after \in WrittenOver(body, Lines(x)) :
        /\ source' = [source EXCEPT ![x] = after]
        /\ torn' = IF after \in {body, Lines(x)} THEN torn ELSE torn \union {x}
  BY DEF WritesBody
<1>3. after \in Seq(Values) /\ (Lines(x) = <<>> => after = body) /\ after # Missing
  BY <1>1, <1>2, WrittenOverOK, RepoAssumption
<1>4. x \notin torn' => Readable(x, after)
  <2>1. x \notin torn => Readable(x, Lines(x))
    BY EmptyOK DEF Sources, Lines
  <2> QED
    BY <1>2, <2>1
<1>5. /\ source'[x] = after /\ \A y \in Rulesets \ {x} : source'[y] = source[y]
      /\ source' = [y \in Rulesets |-> source'[y]]
      /\ torn \subseteq torn' /\ torn' \subseteq Rulesets
  BY <1>2 DEF Sources
<1>6. Sources(source', torn')
  BY <1>3, <1>4, <1>5 DEF Sources
<1>7. source[x] = <<>> => Lines(x) = <<>>
  BY <1>1, EmptyOK
<1> QED
  BY <1>3, <1>5, <1>6, <1>7 DEF LinesOf
-----------------------------------------------------------------------------
(* One command at a time *)

LEMMA IdleOK ==
  /\ Idle \in Runs /\ Placed(Idle)
  /\ \A S, fl, T : Sound(Idle, T) /\ Tracks(Idle, S, fl) /\ Good(Idle, S, fl, T)
<1>1. (CHOOSE v \in Values : TRUE) \in Values
  BY RepoAssumption
<1>2. Order[1] \in Rulesets /\ 0 \in 0..Len(Order)
  BY OrderOK
<1> QED
  BY <1>1, <1>2 DEF Idle, Runs, Placed, Tracks, Sound, Good

\* A command whose files somebody else has written is followed no further.
LEMMA OthersOK ==
  ASSUME NEW r \in Runs, Placed(r), NEW S, NEW T, Sound(r, T), NEW fl, NEW T2, T \subseteq T2
  PROVE  Good(Disturbed(r), S, fl, T2)
<1> DEFINE s == [r EXCEPT !.alone = FALSE, !.before = <<>>]
<1>1. /\ s \in Runs /\ s.alone = FALSE /\ s.end = r.end /\ s.pc = r.pc /\ s.at = r.at
      /\ s.op = r.op /\ s.entries = r.entries /\ s.r = r.r
  BY EmptyOK DEF Runs
<1>2. r.pc # "done" => Good(s, S, fl, T2)
  BY <1>1 DEF Good, Placed, Sound
<1>3. Good(Idle, S, fl, T2)
  BY IdleOK
<1> QED
  BY <1>2, <1>3 DEF Disturbed

LEMMA EndedOK ==
  ASSUME NEW r \in Runs, NEW how \in {"ok", "error"}, NEW S, NEW T, NEW fl,
         LET e == Ended(r, how)
         IN  r.alone => RenderExact(e, S) /\ (r.op \in Edits => EditExact(e, EntriesOf(LinesOf(S, r.r)), fl))
  PROVE  Good(Ended(r, how), S, fl, T)
<1> DEFINE e == Ended(r, how)
<1>1. CASE ~r.alone
  BY <1>1, IdleOK DEF Ended
<1>2. CASE r.alone
  <2>1. /\ e \in Runs /\ e.pc = "done" /\ e.end = how /\ e.alone /\ e.op = r.op
        /\ e.r = r.r
    BY <1>2, EmptyOK DEF Ended, Runs
  <2>2. Placed(e) /\ Sound(e, T)
    BY <2>1 DEF Placed, Sound
  <2>3. Tracks(e, S, fl)
    <3> HIDE DEF e
    <3> QED
      BY <1>2, <2>1 DEF Tracks, e
  <2> QED
    BY <2>1, <2>2, <2>3 DEF Good
<1> QED
  BY <1>1, <1>2

\* An edit or a render that ends with an error has changed nothing, unless a step failed.
LEMMA ErrorOK ==
  ASSUME NEW r, NEW S, NEW T, NEW fl, Good(r, S, fl, T), NEW fl2,
         fl2 = 0 => fl2 = fl /\ r.pc = "read"
  PROVE  Good(Ended(r, "error"), S, fl2, T)
<1> DEFINE e == Ended(r, "error")
<1>1. r \in Runs
  BY DEF Good
<1>2. r.alone => e.end = "error" /\ e.op = r.op /\ e.before = r.before /\ e.r = r.r
  BY <1>1 DEF Ended, Runs
<1>3. r.alone => RenderExact(e, S)
  BY <1>2 DEF RenderExact
<1>4. r.alone /\ r.op \in Edits => EditExact(e, EntriesOf(LinesOf(S, r.r)), fl2)
  BY <1>2 DEF EditExact, Good, Tracks
<1> QED
  BY <1>1, <1>3, <1>4, EndedOK

LEMMA StatOK ==
  ASSUME NEW r, NEW S, NEW T, NEW fl, Good(r, S, fl, T), r.pc = "stat",
         NEW s, s \in {[r EXCEPT !.pc = "copyCut", !.at = 0], [r EXCEPT !.pc = "read", !.at = 1]}
  PROVE  Good(s, S, fl, T)
<1>1. r \in Runs /\ Placed(r) /\ 0 \in 0..Len(Order) /\ 1 \in 0..Len(Order)
  BY OrderOK DEF Good
<1>2. /\ s \in Runs /\ s.end = r.end /\ s.op = r.op /\ s.alone = r.alone /\ s.r = r.r
      /\ s.before = r.before /\ s.lines = r.lines
      /\ (s.pc = "copyCut" /\ s.at = 0) \/ (s.pc = "read" /\ s.at = 1)
  <2>1. CASE s = [r EXCEPT !.pc = "copyCut", !.at = 0]
    BY <1>1, <2>1 DEF Runs
  <2>2. CASE s = [r EXCEPT !.pc = "read", !.at = 1]
    BY <1>1, <2>2 DEF Runs
  <2> QED
    BY <2>1, <2>2
<1>3. Placed(s) /\ Sound(s, T)
  BY <1>1, <1>2 DEF Placed, Sound
<1>4. ASSUME r.alone PROVE Tracks(s, S, fl)
  <2>1. Tracks(r, S, fl)
    BY <1>4 DEF Good
  <2>2. Before(S, 1) = {}
    BY DEF Before
  <2>3. IsInjective(<<>>) /\ ToSet(<<>>) = {}
    BY DEF IsInjective, ToSet
  <2>4. s.pc \notin {"cut", "write", "done", "copyWrite"} /\ s.lines = <<>>
    BY <1>2, <2>1 DEF Tracks
  <2>5. s.op \in Edits => s.before = EntriesOf(LinesOf(S, s.r))
    BY <1>2, <2>1 DEF Tracks
  <2>6. s.pc = "copyCut" => \A j \in 1..s.at-1 : S[Order[j]] = Shipped[Order[j]]
    BY <1>2
  <2>7. s.op = "render" /\ s.pc = "read" => IsInjective(s.lines) /\ ToSet(s.lines) = Before(S, s.at)
    BY <1>2, <2>2, <2>3, <2>4
  <2> QED
    BY <1>2, <2>4, <2>5, <2>6, <2>7 DEF Tracks
<1> QED
  BY <1>2, <1>3, <1>4 DEF Good

LEMMA CopyCutOK ==
  ASSUME NEW r, NEW S, NEW T, NEW fl, Good(r, S, fl, T), r.pc = "copyCut",
         NEW U, \A j \in 1..r.at-1 : U[Order[j]] = S[Order[j]],
         r.at # 0 => U[Order[r.at]] = <<>>
  PROVE  Good([r EXCEPT !.pc = "copyWrite"], U, fl, T)
<1> DEFINE s == [r EXCEPT !.pc = "copyWrite"]
<1>1. r \in Runs /\ Placed(r)
  BY DEF Good
<1>2. /\ s \in Runs /\ s.pc = "copyWrite" /\ s.end = r.end /\ s.op = r.op /\ s.alone = r.alone
      /\ s.at = r.at /\ s.lines = r.lines
  BY <1>1 DEF Runs
<1> HIDE DEF s
<1>3. Placed(s) /\ Sound(s, T)
  BY <1>1, <1>2 DEF Placed, Sound
<1>4. r.alone => Tracks(s, U, fl)
  BY <1>2 DEF Good, Tracks
<1> QED
  BY <1>2, <1>3, <1>4 DEF Good, s

\* After the last file the command reads what it has just copied.
LEMMA CopyWriteOK ==
  ASSUME NEW r, NEW S, NEW T, NEW fl, Good(r, S, fl, T), r.pc = "copyWrite",
         NEW U, \A j \in 1..r.at-1 : U[Order[j]] = S[Order[j]],
         r.alone /\ r.at # 0 => U[Order[r.at]] = Shipped[Order[r.at]], NEW T2
  PROVE  LET last == r.at = Len(Order)
         IN  Good([r EXCEPT !.pc = IF last THEN "read" ELSE "copyCut",
                            !.at = IF last THEN 1 ELSE r.at + 1,
                            !.before = IF last THEN EntriesOf(Shipped[r.r]) ELSE @], U, fl, T2)
<1> DEFINE last == r.at = Len(Order)
           s == [r EXCEPT !.pc = IF last THEN "read" ELSE "copyCut",
                          !.at = IF last THEN 1 ELSE r.at + 1,
                          !.before = IF last THEN EntriesOf(Shipped[r.r]) ELSE @]
<1>1. r \in Runs /\ Placed(r) /\ r.at \in 0..Len(Order) /\ r.r \in Rulesets
  BY DEF Good, Runs
<1>2. Shipped[r.r] \in Seq(Values) /\ EntriesOf(Shipped[r.r]) \in Seq(Values)
  BY <1>1, RepoAssumption, EntriesOK
<1>3. /\ s \in Runs /\ s.pc = (IF last THEN "read" ELSE "copyCut")
      /\ s.at = (IF last THEN 1 ELSE r.at + 1)
      /\ s.before = (IF last THEN EntriesOf(Shipped[r.r]) ELSE r.before)
      /\ s.end = r.end /\ s.op = r.op /\ s.alone = r.alone /\ s.r = r.r /\ s.lines = r.lines
  <2>1. 1 \in 0..Len(Order) /\ (~last => r.at + 1 \in 0..Len(Order))
    BY <1>1, OrderOK
  <2>2. (IF last THEN 1 ELSE r.at + 1) \in 0..Len(Order)
    BY <2>1
  <2>3. (IF last THEN EntriesOf(Shipped[r.r]) ELSE r.before) \in Seq(Values)
    BY <1>1, <1>2 DEF Runs
  <2>4. (IF last THEN "read" ELSE "copyCut") \in {"read", "copyCut"}
    OBVIOUS
  <2> HIDE DEF last
  <2> QED
    BY <1>1, <2>2, <2>3, <2>4 DEF Runs
<1> HIDE DEF s
<1>4. Placed(s) /\ Sound(s, T2)
  BY <1>1, <1>3 DEF Placed, Sound
<1>5. ASSUME r.alone PROVE Tracks(s, U, fl)
  <2>1. \A j \in 1..r.at : U[Order[j]] = Shipped[Order[j]]
    BY <1>1, <1>5 DEF Good, Tracks
  <2>2. s.lines = <<>> /\ IsInjective(<<>>) /\ ToSet(<<>>) = {} /\ Before(U, 1) = {}
    BY <1>3, <1>5 DEF Good, Tracks, IsInjective, ToSet, Before
  <2>3. last => U[s.r] = Shipped[s.r]
    BY <1>1, <1>3, <2>1, OrderOK
  <2>4. last => s.before = EntriesOf(LinesOf(U, s.r))
    BY <1>1, <1>2, <1>3, <2>3, RepoAssumption DEF LinesOf
  <2>5. ~last => \A j \in 1..s.at-1 : U[Order[j]] = Shipped[Order[j]]
    BY <1>1, <1>3, <2>1
  <2> HIDE DEF last
  <2> QED
    BY <1>3, <2>2, <2>4, <2>5 DEF Tracks
<1> QED
  BY <1>3, <1>4, <1>5 DEF Good, s

\* One more file: what the render has so far is what the files read so far have.
LEMMA RenderedOK ==
  ASSUME Sources(source, torn), NEW fl, NEW r, Good(r, source, fl, torn), r.pc = "read", r.op = "render",
         source[Order[r.at]] # Missing, IsInjective(EntriesOf(source[Order[r.at]]))
  PROVE  Good(Rendered(r, Order[r.at]), source, fl, torn)
<1> DEFINE f == Order[r.at]
           T == Range(Kind) \X Values
           entries == EntriesOf(source[f])
           found == [i \in DOMAIN entries |-> <<Kind[f], entries[i]>>]
           new == Without(found, ToSet(r.lines))
           more == [r EXCEPT !.at = @ + 1, !.lines = @ \o new]
           last == [more EXCEPT !.at = r.at]
<1>1. /\ r \in Runs /\ Placed(r) /\ r.at \in 1..Len(Order) /\ f \in Rulesets
      /\ r.lines \in Seq(T)
  BY OrderOK DEF Good, Runs, Placed
<1>2. /\ entries \in Seq(Values) /\ IsInjective(entries) /\ DOMAIN entries = 1..Len(entries)
      /\ entries = EntriesOf(LinesOf(source, f))
  BY <1>1, FilesOK DEF LinesOf
<1>3. Kind[f] \in Range(Kind)
  BY <1>1, RepoAssumption DEF Range
<1> HIDE DEF entries, f
<1>4. /\ found \in Seq(T) /\ IsInjective(found)
      /\ ToSet(found) = {<<Kind[f], e>> : e \in ToSet(entries)}
  BY <1>2, <1>3 DEF IsInjective, ToSet
<1> HIDE DEF found, T
<1>5. /\ new \in Seq(T) /\ ToSet(new) = ToSet(found) \ ToSet(r.lines) /\ IsInjective(new)
  BY <1>4, WithoutOK
<1> HIDE DEF new
<1>6. /\ r.lines \o new \in Seq(T) /\ ToSet(r.lines \o new) = ToSet(r.lines) \union ToSet(found)
      /\ IsInjective(r.lines) => IsInjective(r.lines \o new)
  BY <1>1, <1>5, ConcatOK
<1>7. Before(source, r.at + 1) = Before(source, r.at) \union ToSet(found)
  <2> DEFINE from(j) == {<<Kind[Order[j]], e>> : e \in ToSet(EntriesOf(LinesOf(source, Order[j])))}
  <2>1. 1..(r.at + 1) - 1 = (1..r.at - 1) \union {r.at}
    BY <1>1
  <2>2. from(r.at) = ToSet(found)
    BY <1>2, <1>4 DEF f
  <2>3. /\ Before(source, r.at + 1) = UNION {from(j) : j \in 1..(r.at + 1) - 1}
        /\ Before(source, r.at) = UNION {from(j) : j \in 1..r.at - 1}
    BY DEF Before
  <2> HIDE DEF from
  <2> QED
    BY <2>1, <2>2, <2>3
<1>8. r.alone => /\ IsInjective(r.lines \o new) /\ ToSet(r.lines \o new) = Before(source, r.at + 1)
  BY <1>6, <1>7 DEF Good, Tracks
<1>9. CASE r.at < Len(Order)
  <2>1. /\ more \in Runs /\ more.at = r.at + 1 /\ more.lines = r.lines \o new /\ more.pc = "read"
        /\ more.op = "render" /\ more.alone = r.alone /\ more.end = r.end
    <3>1. r.at + 1 \in 0..Len(Order)
      BY <1>1, <1>9, OrderOK
    <3>2. r.lines \o new \in Seq(Range(Kind) \X Values)
      BY <1>6 DEF T
    <3> DEFINE m == r.at + 1
               more2 == r.lines \o new
    <3>3. more = [r EXCEPT !.at = m, !.lines = more2]
      BY <1>1 DEF Runs
    <3>4. m \in 0..Len(Order) /\ more2 \in Seq(Range(Kind) \X Values)
      BY <3>1, <3>2
    <3>5. m = r.at + 1 /\ more2 = r.lines \o new
      OBVIOUS
    <3> HIDE DEF m, more2, more
    <3> QED
      BY <1>1, <3>3, <3>4, <3>5 DEF Runs
  <2> HIDE DEF more
  <2>2. Placed(more) /\ Sound(more, torn)
    BY <1>1, <2>1 DEF Placed, Sound, Edits
  <2>3. r.alone => Tracks(more, source, fl)
    BY <1>8, <2>1 DEF Tracks, Edits
  <2>4. Rendered(r, Order[r.at]) = more
    BY <1>9 DEF Rendered, more, new, found, entries, f
  <2> QED
    BY <2>1, <2>2, <2>3, <2>4 DEF Good
<1>10. CASE r.at = Len(Order)
  <2>1. /\ last \in Runs /\ last.lines = r.lines \o new /\ last.op = "render"
        /\ last.alone = r.alone
    BY <1>1, <1>6 DEF Runs, T
  <2>2. last.alone => Ended(last, "ok").lines = last.lines
    BY <2>1 DEF Ended, Runs
  <2>3. Rendered(r, Order[r.at]) = Ended(last, "ok")
    BY <1>10, <1>1 DEF Rendered, last, more, new, found, entries, f
  <2> HIDE DEF last
  <2>4. last.alone => RenderExact(Ended(last, "ok"), source)
    BY <1>8, <1>10, <2>1, <2>2 DEF RenderExact
  <2> QED
    BY <2>1, <2>3, <2>4, EndedOK DEF Edits
<1> QED
  BY <1>1, <1>9, <1>10

\* The entries an edit is about to write, once it has read r.before.
LEMMA EditOK ==
  ASSUME NEW r, NEW S, NEW T, NEW fl, Good(r, S, fl, T), r.pc = "read", r.op \in Edits,
         NEW e \in Seq(Values), IsInjective(e),
         r.r \notin T => ToSet(e) \subseteq Accepted[r.r],
         r.alone => Wanted([r EXCEPT !.pc = "cut", !.entries = e])
  PROVE  Good([r EXCEPT !.pc = "cut", !.entries = e], S, fl, T)
<1> DEFINE s == [r EXCEPT !.pc = "cut", !.entries = e]
<1>1. r \in Runs /\ Placed(r)
  BY DEF Good
<1>2. /\ s \in Runs /\ s.pc = "cut" /\ s.entries = e /\ s.op = r.op /\ s.r = r.r
      /\ s.alone = r.alone /\ s.end = r.end /\ s.before = r.before
  BY <1>1 DEF Runs
<1>3. r.alone => Wanted(s)
  OBVIOUS
<1> HIDE DEF s
<1>4. Placed(s) /\ Sound(s, T)
  BY <1>1, <1>2 DEF Placed, Sound
<1>5. r.alone => Tracks(s, S, fl)
  BY <1>2, <1>3 DEF Good, Tracks, Edits
<1> QED
  BY <1>2, <1>4, <1>5 DEF Good, s

\* Whatever the edit, what it has read is what was there when it began.
LEMMA ReadEditOK ==
  ASSUME Sources(source, torn), NEW fl, NEW r, Good(r, source, fl, torn), r.pc = "read", r.op \in Edits,
         source[r.r] # Missing, IsInjective(EntriesOf(source[r.r]))
  PROVE  LET got == [r EXCEPT !.entries = EntriesOf(source[r.r])]
         IN  /\ got \in Runs /\ Good(got, source, fl, torn) /\ got.pc = "read"
             /\ got.op = r.op /\ got.r = r.r /\ got.value = r.value /\ got.index = r.index
             /\ got.before = r.before /\ got.alone = r.alone
             /\ got.value \in Values /\ got.before \in Seq(Values) /\ got.entries \in Seq(Values)
             /\ IsInjective(got.entries)
             /\ got.r \notin torn => ToSet(got.entries) \subseteq Accepted[got.r]
             /\ ToSet(got.entries) \cap Comments = {}
             /\ got.entries = EntriesOf(LinesOf(source, got.r))
             /\ r.alone => got.before = got.entries
<1> DEFINE e == EntriesOf(source[r.r])
           s == [r EXCEPT !.entries = e]
<1>1. r \in Runs /\ Placed(r) /\ r.r \in Rulesets
  BY DEF Good, Runs
<1>2. /\ e \in Seq(Values) /\ IsInjective(e)
      /\ r.r \notin torn => ToSet(e) \subseteq Accepted[r.r]
      /\ ToSet(e) \cap Comments = {} /\ e = EntriesOf(LinesOf(source, r.r))
  BY <1>1, FilesOK DEF LinesOf
<1> HIDE DEF e
<1>3. /\ s \in Runs /\ s.pc = "read" /\ s.entries = e /\ s.op = r.op /\ s.r = r.r
      /\ s.value = r.value /\ s.index = r.index /\ s.before = r.before /\ s.alone = r.alone
      /\ s.end = r.end /\ s.at = r.at
      /\ s.value \in Values /\ s.before \in Seq(Values)
  BY <1>1, <1>2 DEF Runs
<1> HIDE DEF s
<1>4. Placed(s) /\ Sound(s, torn)
  BY <1>1, <1>3 DEF Placed, Sound
<1>5. r.alone => Tracks(s, source, fl)
  BY <1>3 DEF Good, Tracks, Edits
<1>6. r.alone => s.before = s.entries
  BY <1>2, <1>3 DEF Good, Tracks
<1>7. Good(s, source, fl, torn)
  BY <1>3, <1>4, <1>5 DEF Good
<1> USE <1>2, <1>3, <1>6, <1>7
<1> QED
  BY DEF s, e

\* AppendEntry.
LEMMA AddedOK ==
  ASSUME Sources(source, torn), NEW fl, NEW r, Good(r, source, fl, torn), r.pc = "read", r.op = "add",
         source[r.r] # Missing, IsInjective(EntriesOf(source[r.r]))
  PROVE  Good(Added([r EXCEPT !.entries = EntriesOf(source[r.r])]), source, fl, torn)
<1> DEFINE got == [r EXCEPT !.entries = EntriesOf(source[r.r])]
           e == Append(got.entries, got.value)
           s == [got EXCEPT !.pc = "cut", !.entries = e]
<1>1. /\ got \in Runs /\ Good(got, source, fl, torn) /\ got.pc = "read" /\ got.op = "add"
      /\ got.value \in Values /\ got.before \in Seq(Values) /\ got.entries \in Seq(Values)
      /\ IsInjective(got.entries)
      /\ got.r \notin torn => ToSet(got.entries) \subseteq Accepted[got.r]
      /\ ToSet(got.entries) \cap Comments = {}
      /\ got.entries = EntriesOf(LinesOf(source, got.r))
      /\ got.alone => got.before = got.entries
  BY ReadEditOK DEF Edits
<1> HIDE DEF got
<1>2. CASE got.value \notin Accepted[got.r]
  <2>1. Added(got) = Ended(got, "error")
    BY <1>2 DEF Added
  <2>2. Good(Ended(got, "error"), source, fl, torn)
    BY <1>1, ErrorOK
  <2> QED
    BY <2>1, <2>2 DEF got
<1>3. Contains(got.entries, got.value) <=> got.value \in ToSet(got.entries)
  BY <1>1 DEF Contains, ToSet
<1>4. CASE got.value \in Accepted[got.r] /\ got.value \in ToSet(got.entries)
  <2>1. Added(got) = Ended(got, "ok")
    BY <1>3, <1>4 DEF Added
  <2> DEFINE d == Ended(got, "ok")
  <2>2. got.alone => /\ d.op = "add" /\ d.before = got.before /\ d.value = got.value
                     /\ d.end = "ok"
    BY <1>1 DEF Ended, Runs
  <2> HIDE DEF d
  <2>3. got.alone => EditExact(d, got.entries, fl)
    BY <1>1, <1>4, <2>2 DEF EditExact
  <2>4. got.alone => RenderExact(d, source)
    BY <2>2 DEF RenderExact
  <2> QED
    BY <1>1, <2>1, <2>3, <2>4, EndedOK DEF got, d
<1>5. CASE got.value \in Accepted[got.r] /\ got.value \notin ToSet(got.entries)
  <2>1. Added(got) = s
    BY <1>3, <1>5 DEF Added
  <2>2. /\ e \in Seq(Values) /\ ToSet(e) = ToSet(got.entries) \union {got.value}
        /\ IsInjective(e)
    BY <1>1, <1>5, AppendOK
  <2>3. got.r \notin torn => ToSet(e) \subseteq Accepted[got.r]
    BY <1>1, <1>5, <2>2
  <2> HIDE DEF e
  <2>4. s.op = "add" /\ s.before = got.before /\ s.value = got.value /\ s.entries = e
    BY <1>1 DEF Runs
  <2> HIDE DEF s
  <2>5. got.alone => Wanted(s)
    BY <1>1, <1>5, <2>4 DEF Wanted, e
  <2>6. Good(s, source, fl, torn)
    BY <1>1, <2>2, <2>3, <2>5, EditOK DEF s, Edits
  <2> QED
    BY <2>1, <2>6 DEF got
<1> QED
  BY <1>2, <1>4, <1>5 DEF got

\* RemoveEntry.
LEMMA RemovedOK ==
  ASSUME Sources(source, torn), NEW fl, NEW r, Good(r, source, fl, torn), r.pc = "read", r.op = "remove",
         source[r.r] # Missing, IsInjective(EntriesOf(source[r.r]))
  PROVE  Good(Removed([r EXCEPT !.entries = EntriesOf(source[r.r])]), source, fl, torn)
<1> DEFINE got == [r EXCEPT !.entries = EntriesOf(source[r.r])]
           e == Without(got.entries, {got.value})
           s == [got EXCEPT !.pc = "cut", !.entries = e]
<1>1. /\ got \in Runs /\ Good(got, source, fl, torn) /\ got.pc = "read" /\ got.op = "remove"
      /\ got.entries \in Seq(Values)
      /\ IsInjective(got.entries)
      /\ got.r \notin torn => ToSet(got.entries) \subseteq Accepted[got.r]
      /\ ToSet(got.entries) \cap Comments = {}
      /\ got.alone => got.before = got.entries
  BY ReadEditOK DEF Edits
<1> HIDE DEF got
<1>2. Removed(got) = s
  BY DEF Removed
<1>3. /\ e \in Seq(Values) /\ IsInjective(e)
      /\ got.r \notin torn => ToSet(e) \subseteq Accepted[got.r]
  BY <1>1, WithoutOK
<1> HIDE DEF e
<1>4. s.op = "remove" /\ s.before = got.before /\ s.value = got.value /\ s.entries = e
  BY <1>1 DEF Runs
<1> HIDE DEF s
<1>5. got.alone => Wanted(s)
  BY <1>1, <1>4 DEF Wanted, e
<1>6. Good(s, source, fl, torn)
  BY <1>1, <1>3, <1>5, EditOK DEF s, Edits
<1> QED
  BY <1>2, <1>6 DEF got

\* RemoveEntryIndex.
LEMMA RemovedIndexOK ==
  ASSUME Sources(source, torn), NEW fl, NEW r, Good(r, source, fl, torn), r.pc = "read",
         r.op = "removeIndex", source[r.r] # Missing, IsInjective(EntriesOf(source[r.r]))
  PROVE  Good(RemovedIndex([r EXCEPT !.entries = EntriesOf(source[r.r])]), source, fl, torn)
<1> DEFINE got == [r EXCEPT !.entries = EntriesOf(source[r.r])]
           e == RemoveAt(got.entries, got.index)
           s == [got EXCEPT !.pc = "cut", !.entries = e]
<1>1. /\ got \in Runs /\ Good(got, source, fl, torn) /\ got.pc = "read" /\ got.op = "removeIndex"
      /\ got.entries \in Seq(Values)
      /\ IsInjective(got.entries)
      /\ got.r \notin torn => ToSet(got.entries) \subseteq Accepted[got.r]
      /\ ToSet(got.entries) \cap Comments = {}
      /\ got.alone => got.before = got.entries
  BY ReadEditOK DEF Edits
<1> HIDE DEF got
<1>2. CASE got.index \notin DOMAIN got.entries
  <2>1. RemovedIndex(got) = Ended(got, "error")
    BY <1>2 DEF RemovedIndex
  <2>2. Good(Ended(got, "error"), source, fl, torn)
    BY <1>1, ErrorOK
  <2> QED
    BY <2>1, <2>2 DEF got
<1>3. CASE got.index \in DOMAIN got.entries
  <2>1. RemovedIndex(got) = s
    BY <1>3 DEF RemovedIndex
  <2>2. e = Without(got.entries, {got.entries[got.index]})
    BY <1>1, <1>3, WithoutAt
  <2> HIDE DEF e
  <2>3. /\ e \in Seq(Values) /\ IsInjective(e)
        /\ got.r \notin torn => ToSet(e) \subseteq Accepted[got.r]
    BY <1>1, <2>2, WithoutOK
  <2>4. s.op = "removeIndex" /\ s.before = got.before /\ s.index = got.index /\ s.entries = e
    BY <1>1 DEF Runs
  <2> HIDE DEF s
  <2>5. got.alone => Wanted(s)
    BY <1>1, <1>3, <2>2, <2>4 DEF Wanted
  <2>6. Good(s, source, fl, torn)
    BY <1>1, <2>3, <2>5, EditOK DEF s, Edits
  <2> QED
    BY <2>1, <2>6 DEF got
<1> QED
  BY <1>2, <1>3 DEF got

LEMMA CutOK ==
  ASSUME NEW r, NEW S, NEW T, NEW fl, Good(r, S, fl, T), r.pc = "cut",
         NEW U, U[r.r] = <<>>
  PROVE  Good([r EXCEPT !.pc = "write"], U, fl, T)
<1> DEFINE s == [r EXCEPT !.pc = "write"]
<1>1. r \in Runs /\ Placed(r) /\ Sound(r, T) /\ (r.alone => Wanted(r))
  BY DEF Good, Tracks
<1>2. /\ s \in Runs /\ s.pc = "write" /\ s.end = r.end /\ s.op = r.op /\ s.alone = r.alone
      /\ s.entries = r.entries /\ s.r = r.r /\ s.before = r.before /\ s.value = r.value
      /\ s.index = r.index
  BY <1>1 DEF Runs
<1> HIDE DEF s
<1>3. Placed(s) /\ Sound(s, T)
  BY <1>1, <1>2 DEF Placed, Sound
<1>4. r.alone => Tracks(s, U, fl)
  BY <1>1, <1>2 DEF Tracks, Wanted
<1> QED
  BY <1>2, <1>3, <1>4 DEF Good, s

\* Once its entries are written, an edit has done what it promises.
LEMMA WantedIsExact ==
  ASSUME NEW r \in Runs, r.op \in Edits, r.alone, Wanted(r), NEW fl
  PROVE  EditExact(Ended(r, "ok"), EntriesOf(r.entries), fl)
<1> DEFINE d == Ended(r, "ok")
           b == r.before
           now == EntriesOf(r.entries)
<1>1. /\ d.op = r.op /\ d.before = b /\ d.value = r.value /\ d.index = r.index /\ d.end = "ok"
  BY DEF Ended, Runs
<1>2. /\ b \in Seq(Values) /\ r.value \in Values /\ r.entries \in Seq(Values)
      /\ IsInjective(b) /\ ToSet(b) \cap Comments = {}
  BY DEF Wanted, Runs
<1>3. Without(b, Comments) = b /\ Without(b, {}) = b
  BY <1>2, WithoutNone
<1> HIDE DEF d
<1>4. CASE r.op = "add" /\ r.value \in Comments
  <2>0. r.entries = Append(b, r.value)
    BY <1>4 DEF Wanted
  <2>1. now = b
    BY <1>2, <1>3, <1>4, <2>0, WithoutAppend DEF EntriesOf
  <2> HIDE DEF now
  <2> QED
    BY <1>1, <1>4, <2>1 DEF EditExact, d, now
<1>5. CASE r.op = "add" /\ r.value \notin Comments
  <2>0. r.value \notin ToSet(b) /\ r.entries = Append(b, r.value)
    BY <1>5 DEF Wanted
  <2>1. now = Append(b, r.value)
    BY <1>2, <1>3, <1>5, <2>0, WithoutAppend DEF EntriesOf
  <2>2. ToSet(now) = ToSet(b) \union {r.value}
    BY <1>2, <2>1, AppendOK
  <2>3. Without(now, {r.value}) = Without(b, {r.value})
    BY <1>2, <2>1, WithoutAppend
  <2>4. Without(b, {r.value}) = b
    BY <1>2, <2>0, WithoutNone
  <2> HIDE DEF now
  <2>5. ToSet(now) \ ToSet(b) = {r.value} /\ ToSet(b) \ ToSet(now) = {}
    BY <2>0, <2>2
  <2>6. Without(now, ToSet(now) \ ToSet(b)) = Without(b, ToSet(b) \ ToSet(now))
    BY <1>3, <2>3, <2>4, <2>5
  <2>7. ToSet(now) = ToSet(b) \union ({r.value} \ Comments)
    BY <1>5, <2>2
  <2> QED
    BY <1>1, <1>5, <2>6, <2>7 DEF EditExact, d, now
<1>6. ASSUME NEW v, r.entries = Without(b, {v})
      PROVE  /\ ToSet(now) = ToSet(b) \ {v}
             /\ Without(now, ToSet(now) \ ToSet(b)) = Without(b, ToSet(b) \ ToSet(now))
  <2>1. ToSet(r.entries) = ToSet(b) \ {v}
    BY <1>2, <1>6, WithoutOK
  <2>2. now = r.entries /\ Without(r.entries, {}) = r.entries
    BY <1>2, <2>1, WithoutNone DEF EntriesOf
  <2> HIDE DEF now
  <2>3. ToSet(now) \ ToSet(b) = {} /\ ToSet(b) \ ToSet(now) = ToSet(b) \cap {v}
    BY <2>1, <2>2
  <2>4. Without(b, ToSet(b) \cap {v}) = Without(b, {v})
    BY <1>2, WithoutSame
  <2> QED
    BY <1>6, <2>1, <2>2, <2>3, <2>4
<1>7. CASE r.op = "remove"
  <2>1. r.entries = Without(b, {r.value})
    BY <1>7 DEF Wanted
  <2> HIDE DEF now
  <2> QED
    BY <1>1, <1>6, <1>7, <2>1 DEF EditExact, d, now
<1>8. CASE r.op = "removeIndex"
  <2>1. r.index \in DOMAIN b /\ r.entries = Without(b, {b[r.index]})
    BY <1>8 DEF Wanted
  <2> HIDE DEF now
  <2> QED
    BY <1>1, <1>6, <1>8, <2>1 DEF EditExact, d, now
<1> QED
  BY <1>4, <1>5, <1>7, <1>8 DEF Edits

LEMMA WriteOK ==
  ASSUME NEW r, NEW S, NEW T, NEW fl, Good(r, S, fl, T), r.pc = "write",
         NEW U, r.alone => LinesOf(U, r.r) = r.entries, NEW T2
  PROVE  Good(Ended(r, "ok"), U, fl, T2)
<1>1. r \in Runs /\ r.op \in Edits /\ (r.alone => Wanted(r))
  BY DEF Good, Placed, Tracks
<1>2. r.alone => EditExact(Ended(r, "ok"), EntriesOf(LinesOf(U, r.r)), fl)
  BY <1>1, WantedIsExact
<1>3. r.alone => Ended(r, "ok").op = r.op
  BY <1>1 DEF Ended, Runs
<1>4. r.alone => RenderExact(Ended(r, "ok"), U)
  BY <1>1, <1>3 DEF RenderExact, Edits
<1> QED
  BY <1>1, <1>2, <1>4, EndedOK
-----------------------------------------------------------------------------
(* The commands together *)

\* A failed step elsewhere takes nothing from a command but its promise about errors.
LEMMA FaultOK ==
  ASSUME NEW r, NEW S, NEW T, NEW fl \in Nat, Good(r, S, fl, T), NEW fl2 \in {fl, fl + 1}
  PROVE  Good(r, S, fl2, T)
<1>1. fl2 = 0 => fl = 0
  OBVIOUS
<1>2. ASSUME NEW now, EditExact(r, now, fl) PROVE EditExact(r, now, fl2)
  BY <1>1, <1>2 DEF EditExact
<1>3. Tracks(r, S, fl) => Tracks(r, S, fl2)
  BY <1>2 DEF Tracks
<1> QED
  BY <1>3 DEF Good

LEMMA GoesOn ==
  ASSUME RepoInv, NEW p \in Procs, NEW s, Becomes(p, s), UNCHANGED <<source, torn>>,
         faults' \in {faults, faults + 1}, Counts', Good(s, source, faults', torn)
  PROVE  RepoInv'
<1>1. /\ run = [q \in Procs |-> run[q]] /\ faults \in Nat
      /\ run' = [run EXCEPT ![p] = s]
  BY RepoAssumption DEF RepoInv, AllGood, Counts, Becomes
<1>2. run' = [q \in Procs |-> run'[q]] /\ run'[p] = s
  BY <1>1
<1>3. ASSUME NEW q \in Procs, q # p PROVE run'[q] = run[q]
  BY <1>1, <1>3
<1>4. ASSUME NEW q \in Procs PROVE Good(run'[q], source', faults', torn')
  <2>1. CASE q = p
    BY <1>2, <2>1
  <2>2. CASE q # p
    <3>1. Good(run[q], source, faults, torn)
      BY DEF RepoInv, AllGood
    <3>2. Good(run[q], source, faults', torn')
      BY <1>1, <3>1, FaultOK
    <3> QED
      BY <1>3, <2>2, <3>2
  <2> QED
    BY <2>1, <2>2
<1>5. Sources(source', torn')
  BY DEF RepoInv
<1> QED
  BY <1>2, <1>4, <1>5 DEF RepoInv, AllGood

LEMMA GoesOnWriting ==
  ASSUME RepoInv, NEW p \in Procs, NEW s, Writes(p, s), Sources(source', torn'), Counts',
         faults' = faults, torn \subseteq torn', Good(s, source', faults, torn')
  PROVE  RepoInv'
<1>1. run' = [q \in Procs |-> IF q = p THEN s ELSE Disturbed(run[q])]
  BY DEF Writes
<1>2. run' = [q \in Procs |-> run'[q]]
  BY <1>1
<1>3. ASSUME NEW q \in Procs PROVE Good(run'[q], source', faults', torn')
  <2>1. CASE q = p
    BY <1>1, <2>1
  <2>2. CASE q # p
    <3>1. run[q] \in Runs /\ Placed(run[q]) /\ Sound(run[q], torn)
      BY DEF RepoInv, AllGood, Good
    <3>2. Good(Disturbed(run[q]), source', faults', torn')
      BY <3>1, OthersOK
    <3> QED
      BY <1>1, <2>2, <3>2
  <2> QED
    BY <2>1, <2>2
<1> QED
  BY <1>2, <1>3 DEF RepoInv, AllGood

LEMMA RepoInit == Init => RepoInv
<1> SUFFICES ASSUME Init PROVE RepoInv
  OBVIOUS
<1>1. Counts
  BY RepoAssumption DEF Init, Counts
<1>2. Sources(source, torn)
  BY RepoAssumption DEF Init, Sources
<1>3. AllGood
  <2>1. run = [p \in Procs |-> Idle]
    BY DEF Init
  <2>2. Good(Idle, source, faults, torn)
    BY IdleOK DEF Good
  <2> QED
    BY <2>1, <2>2 DEF AllGood
<1> QED
  BY <1>1, <1>2, <1>3 DEF RepoInv

LEMMA BeginStep ==
  ASSUME RepoInv, NEW p \in Procs, NEW op \in Edits \union {"render"}, NEW r \in Rulesets,
         NEW v \in Values, NEW i \in Nat, Begin(p, op, r, v, i)
  PROVE  RepoInv'
<1> DEFINE b == EntriesOf(LinesOf(source, r))
           s == [Idle EXCEPT !.op = op, !.pc = "stat", !.r = r, !.value = v, !.index = i,
                             !.before = b]
<1>1. b \in Seq(Values) /\ b = EntriesOf(Lines(r))
  BY FilesOK DEF RepoInv, LinesOf, Lines
<1> HIDE DEF b
<1>2. /\ s \in Runs /\ s.op = op /\ s.pc = "stat" /\ s.r = r /\ s.before = b
      /\ s.lines = <<>> /\ s.end = "none"
  <2>1. /\ Idle.lines = <<>> /\ Idle.end = "none" /\ Idle \in Runs
    BY IdleOK DEF Idle
  <2> HIDE DEF Idle
  <2> QED
    BY <1>1, <2>1 DEF Runs
<1>3. Becomes(p, s)
  BY <1>1 DEF Begin
<1> HIDE DEF s
<1>4. Good(s, source, faults, torn)
  <2>1. Placed(s) /\ Sound(s, torn)
    BY <1>2 DEF Placed, Sound
  <2>2. Tracks(s, source, faults)
    BY <1>2 DEF Tracks, b
  <2> QED
    BY <1>2, <2>1, <2>2 DEF Good
<1>5. Counts' /\ UNCHANGED <<source, faults, torn>>
  BY RepoAssumption DEF Begin, RepoInv, Counts
<1> QED
  BY <1>3, <1>4, <1>5, GoesOn

LEMMA StatStep == ASSUME RepoInv, NEW p \in Procs, Stat(p) PROVE RepoInv'
<1> DEFINE s == IF manifest = "absent" THEN [run[p] EXCEPT !.pc = "copyCut", !.at = 0]
                ELSE [run[p] EXCEPT !.pc = "read", !.at = 1]
<1>1. Good(run[p], source, faults, torn) /\ run[p].pc = "stat"
  BY DEF RepoInv, AllGood, Stat
<1>2. Good(s, source, faults, torn)
  BY <1>1, StatOK
<1>3. Becomes(p, s) /\ Counts' /\ UNCHANGED <<source, faults, torn>>
  BY DEF Stat, RepoInv, Counts
<1> QED
  BY <1>2, <1>3, GoesOn

LEMMA CopyCutStep == ASSUME RepoInv, NEW p \in Procs, CopyCut(p) PROVE RepoInv'
<1> DEFINE r == run[p]
<1>1. /\ Good(r, source, faults, torn) /\ r.pc = "copyCut" /\ r.at \in 0..Len(Order)
      /\ Sources(source, torn)
  BY DEF RepoInv, AllGood, CopyCut, Good, Runs
<1>2. /\ Sources(source', torn') /\ \A j \in 1..r.at-1 : source'[Order[j]] = source[Order[j]]
      /\ r.at # 0 => source'[Order[r.at]] = <<>>
  <2>1. CASE r.at = 0
    BY <1>1, <2>1 DEF CopyCut
  <2>2. CASE r.at # 0
    <3>1. source' = [source EXCEPT ![Order[r.at]] = <<>>] /\ Order[r.at] \in Rulesets
      BY <1>1, <2>2, OrderOK DEF CopyCut
    <3>2. \A j \in 1..r.at-1 : Order[j] \in Rulesets \ {Order[r.at]}
      BY <1>1, <2>2, OrderOK
    <3>3. /\ Sources(source', torn') /\ source'[Order[r.at]] = <<>>
          /\ \A y \in Rulesets \ {Order[r.at]} : source'[y] = source[y]
      BY <1>1, <3>1, SourcesCut DEF CopyCut
    <3> QED
      BY <3>2, <3>3
  <2> QED
    BY <2>1, <2>2
<1>3. Good([r EXCEPT !.pc = "copyWrite"], source', faults, torn')
  BY <1>1, <1>2, CopyCutOK DEF CopyCut
<1>4. Counts' /\ faults' = faults /\ torn' = torn /\ Writes(p, [r EXCEPT !.pc = "copyWrite"])
  BY DEF CopyCut, RepoInv, Counts
<1> QED
  BY <1>2, <1>3, <1>4, GoesOnWriting

LEMMA CopyWriteStep == ASSUME RepoInv, NEW p \in Procs, CopyWrite(p) PROVE RepoInv'
<1> DEFINE r == run[p]
           last == r.at = Len(Order)
           s == [r EXCEPT !.pc = IF last THEN "read" ELSE "copyCut",
                          !.at = IF last THEN 1 ELSE r.at + 1,
                          !.before = IF last THEN EntriesOf(Shipped[r.r]) ELSE @]
<1>1. /\ Good(r, source, faults, torn) /\ r.pc = "copyWrite" /\ r.at \in 0..Len(Order)
      /\ Sources(source, torn)
  BY DEF RepoInv, AllGood, CopyWrite, Good, Runs
<1>2. /\ Sources(source', torn') /\ \A j \in 1..r.at-1 : source'[Order[j]] = source[Order[j]]
      /\ r.alone /\ r.at # 0 => source'[Order[r.at]] = Shipped[Order[r.at]]
      /\ torn \subseteq torn' /\ torn' \subseteq Rulesets
  <2>1. CASE r.at = 0
    BY <1>1, <2>1 DEF CopyWrite, RepoInv, Counts
  <2>2. CASE r.at # 0
    <3>1. /\ WritesBody(Order[r.at], Shipped[Order[r.at]]) /\ torn \subseteq Rulesets
          /\ Order[r.at] \in Rulesets
      BY <1>1, <2>2, OrderOK DEF CopyWrite, RepoInv, Counts
    <3>2. \A j \in 1..r.at-1 : Order[j] \in Rulesets \ {Order[r.at]}
      BY <1>1, <2>2, OrderOK
    <3>3. Shipped[Order[r.at]] \in Seq(Values) /\ Readable(Order[r.at], Shipped[Order[r.at]])
      BY <3>1, RepoAssumption
    <3>4. /\ Sources(source', torn') /\ torn \subseteq torn' /\ torn' \subseteq Rulesets
          /\ source[Order[r.at]] = <<>> => source'[Order[r.at]] = Shipped[Order[r.at]]
          /\ \A y \in Rulesets \ {Order[r.at]} : source'[y] = source[y]
      BY <1>1, <3>1, <3>3, SourcesWritten
    <3>5. r.alone => source[Order[r.at]] = <<>>
      BY <1>1, <2>2 DEF Good, Tracks
    <3> QED
      BY <3>2, <3>4, <3>5
  <2> QED
    BY <2>1, <2>2
<1>3. Good(s, source', faults, torn')
  BY <1>1, <1>2, CopyWriteOK
<1>4. Counts' /\ faults' = faults /\ Writes(p, s)
  BY <1>2 DEF CopyWrite, RepoInv, Counts
<1> QED
  BY <1>2, <1>3, <1>4, GoesOnWriting

LEMMA ReadStep == ASSUME RepoInv, NEW p \in Procs, Read(p) PROVE RepoInv'
<1> DEFINE r == run[p]
           f == IF r.op = "render" THEN Order[r.at] ELSE r.r
           got == [r EXCEPT !.entries = EntriesOf(source[f])]
           s == IF Unreadable(r, f) THEN Ended(r, "error")
                ELSE CASE r.op = "render"      -> Rendered(r, f)
                       [] r.op = "add"         -> Added(got)
                       [] r.op = "remove"      -> Removed(got)
                       [] r.op = "removeIndex" -> RemovedIndex(got)
<1>1. Good(r, source, faults, torn) /\ r.pc = "read" /\ Sources(source, torn)
  BY DEF RepoInv, AllGood, Read
<1>2. Good(s, source, faults, torn)
  <2>1. CASE Unreadable(r, f)
    BY <1>1, <2>1, ErrorOK
  <2>2. ASSUME ~Unreadable(r, f) PROVE source[f] # Missing /\ IsInjective(EntriesOf(source[f]))
    BY <2>2 DEF Unreadable
  <2>3. CASE ~Unreadable(r, f) /\ r.op = "render"
    <3>1. /\ s = Rendered(r, Order[r.at]) /\ source[Order[r.at]] # Missing
          /\ IsInjective(EntriesOf(source[Order[r.at]]))
      BY <2>2, <2>3
    <3> QED
      BY <1>1, <2>3, <3>1, RenderedOK
  <2> DEFINE mine == [r EXCEPT !.entries = EntriesOf(source[r.r])]
  <2>4. CASE ~Unreadable(r, f) /\ r.op = "add"
    <3>1. /\ s = Added(mine) /\ source[r.r] # Missing
          /\ IsInjective(EntriesOf(source[r.r]))
      BY <2>2, <2>4
    <3> QED
      BY <1>1, <2>4, <3>1, AddedOK
  <2>5. CASE ~Unreadable(r, f) /\ r.op = "remove"
    <3>1. /\ s = Removed(mine) /\ source[r.r] # Missing
          /\ IsInjective(EntriesOf(source[r.r]))
      BY <2>2, <2>5
    <3> QED
      BY <1>1, <2>5, <3>1, RemovedOK
  <2>6. CASE ~Unreadable(r, f) /\ r.op = "removeIndex"
    <3>1. /\ s = RemovedIndex(mine) /\ source[r.r] # Missing
          /\ IsInjective(EntriesOf(source[r.r]))
      BY <2>2, <2>6
    <3> QED
      BY <1>1, <2>6, <3>1, RemovedIndexOK
  <2> HIDE DEF s
  <2> QED
    BY <1>1, <2>1, <2>3, <2>4, <2>5, <2>6 DEF Good, Runs, Edits
<1>3. Becomes(p, s) /\ Counts' /\ UNCHANGED <<source, faults, torn>>
  BY DEF Read, RepoInv, Counts
<1> QED
  BY <1>2, <1>3, GoesOn

LEMMA CutStep == ASSUME RepoInv, NEW p \in Procs, Cut(p) PROVE RepoInv'
<1> DEFINE r == run[p]
<1>1. Good(r, source, faults, torn) /\ r.pc = "cut" /\ r.r \in Rulesets /\ Sources(source, torn)
  BY DEF RepoInv, AllGood, Cut, Good, Runs
<1>2. Sources(source', torn') /\ source'[r.r] = <<>>
  BY <1>1, SourcesCut DEF Cut
<1>3. Good([r EXCEPT !.pc = "write"], source', faults, torn')
  BY <1>1, <1>2, CutOK DEF Cut
<1>4. Counts' /\ faults' = faults /\ torn' = torn /\ Writes(p, [r EXCEPT !.pc = "write"])
  BY DEF Cut, RepoInv, Counts
<1> QED
  BY <1>2, <1>3, <1>4, GoesOnWriting

LEMMA WriteStep == ASSUME RepoInv, NEW p \in Procs, Write(p) PROVE RepoInv'
<1> DEFINE r == run[p]
<1>1. /\ Good(r, source, faults, torn) /\ r.pc = "write" /\ r.r \in Rulesets /\ Sources(source, torn)
      /\ r.entries \in Seq(Values) /\ IsInjective(r.entries)
      /\ r.r \notin torn => ToSet(r.entries) \subseteq Accepted[r.r]
      /\ torn \subseteq Rulesets
      /\ r.alone => source[r.r] = <<>>
  BY DEF RepoInv, Counts, AllGood, Write, Good, Runs, Placed, Sound, Tracks
<1>2. r.r \notin torn => Readable(r.r, r.entries)
  <2>1. r.entries # Missing
    BY <1>1, RepoAssumption
  <2> QED
    BY <1>1, <2>1, EntriesOK DEF Readable
<1>3. WritesBody(r.r, r.entries)
  BY DEF Write
<1>4. /\ Sources(source', torn') /\ torn \subseteq torn' /\ torn' \subseteq Rulesets
      /\ source[r.r] = <<>> => LinesOf(source', r.r) = r.entries
  BY <1>1, <1>2, <1>3, SourcesWritten
<1>5. Good(Ended(r, "ok"), source', faults, torn')
  BY <1>1, <1>4, WriteOK
<1>6. Counts' /\ faults' = faults /\ Writes(p, Ended(r, "ok"))
  BY <1>4 DEF Write, RepoInv, Counts
<1> QED
  BY <1>4, <1>5, <1>6, GoesOnWriting

LEMMA FailStep == ASSUME RepoInv, NEW p \in Procs, StepFails(p) \/ Crash(p) PROVE RepoInv'
<1>1. /\ Counts' /\ UNCHANGED <<source, torn>> /\ faults' \in {faults, faults + 1} /\ faults' # 0
  BY RepoAssumption DEF StepFails, Crash, Fault, RepoInv, Counts
<1>2. CASE StepFails(p)
  <2>1. Good(run[p], source, faults, torn)
    BY DEF RepoInv, AllGood
  <2>2. Good(Ended(run[p], "error"), source, faults', torn')
    BY <1>1, <2>1, ErrorOK
  <2>3. Becomes(p, Ended(run[p], "error"))
    BY <1>2 DEF StepFails
  <2> QED
    BY <1>1, <2>2, <2>3, GoesOn
<1>3. CASE Crash(p)
  <2>1. Good(Idle, source, faults', torn')
    BY IdleOK DEF Good
  <2>2. Becomes(p, Idle)
    BY <1>3 DEF Crash
  <2> QED
    BY <1>1, <2>1, <2>2, GoesOn
<1> QED
  BY <1>2, <1>3

LEMMA RepoNext == RepoInv /\ [Next]_vars => RepoInv'
<1> SUFFICES ASSUME RepoInv, [Next]_vars PROVE RepoInv'
  OBVIOUS
<1>1. CASE UNCHANGED vars
  BY <1>1 DEF vars, RepoInv, Counts, AllGood
<1>2. ASSUME NEW p \in Procs, NEW r \in Rulesets, NEW v \in Values, NEW op \in {"add", "remove"},
             Begin(p, op, r, v, 0)
      PROVE  RepoInv'
  BY <1>2, BeginStep DEF Edits
<1>3. Idle.value \in Values /\ Idle.r \in Rulesets
  BY IdleOK DEF Runs
<1>4. ASSUME NEW p \in Procs, NEW r \in Rulesets, NEW i \in 0..Cardinality(Values),
             Begin(p, "removeIndex", r, Idle.value, i)
      PROVE  RepoInv'
  BY <1>3, <1>4, BeginStep DEF Edits
<1>5. ASSUME NEW p \in Procs, Begin(p, "render", Idle.r, Idle.value, 0) PROVE RepoInv'
  BY <1>3, <1>5, BeginStep
<1>6. ASSUME NEW p \in Procs,
             \/ Stat(p) \/ CopyCut(p) \/ CopyWrite(p) \/ Read(p) \/ Cut(p) \/ Write(p)
             \/ StepFails(p) \/ Crash(p)
      PROVE  RepoInv'
  BY <1>6, StatStep, CopyCutStep, CopyWriteStep, ReadStep, CutStep, WriteStep, FailStep
<1> QED
  BY <1>1, <1>2, <1>4, <1>5, <1>6 DEF Next

\* Whatever the commands do, together or alone, the invariant above holds.
THEOREM InvHolds == Spec => []RepoInv
BY RepoInit, RepoNext, PTL DEF Spec
-----------------------------------------------------------------------------
(* What follows *)

\* Every value stays in its set, and a command has an outcome if and only if it is done.
THEOREM TypeHolds == Spec => []TypeOK
<1>1. RepoInv => TypeOK
  <2> SUFFICES ASSUME RepoInv PROVE TypeOK
    OBVIOUS
  <2>1. ASSUME NEW p \in Procs
        PROVE  run[p] \in Runs /\ (run[p].end # "none" <=> run[p].pc = "done")
    BY DEF RepoInv, AllGood, Good, Placed
  <2>2. run \in [Procs -> Runs]
    BY <2>1 DEF RepoInv, AllGood
  <2> QED
    BY <2>1, <2>2 DEF RepoInv, Counts, Sources, TypeOK
<1> QED
  BY <1>1, InvHolds, PTL

\* Commands that edit stale copies, fail or die leave only files that the next render
\* accepts, but for a file in which two overlapping writes have been mixed
\* (InitDefaultRepo, writeEntries, Render).
THEOREM FilesStayRenderable == Spec => []RepoRenders
<1>1. RepoInv => RepoRenders
  BY DEF RepoInv, Sources, RepoRenders
<1> QED
  BY <1>1, InvHolds, PTL

\* A render nobody disturbs returns the entries of every rule set, no line twice (Render).
THEOREM RendersExactly == Spec => []RenderIsExact
<1>1. RepoInv => RenderIsExact
  <2> SUFFICES ASSUME RepoInv, NEW p \in Procs, Alone(p), run[p].op = "render",
                      run[p].end = "ok"
               PROVE  /\ IsInjective(run[p].lines)
                      /\ ToSet(run[p].lines) =
                           UNION {{<<Kind[r], e>> : e \in ToSet(EntriesOf(Lines(r)))} : r \in Rulesets}
    BY DEF RenderIsExact
  <2>1. IsInjective(run[p].lines) /\ ToSet(run[p].lines) = Before(source, Len(Order) + 1)
    BY DEF RepoInv, AllGood, Good, Placed, Tracks, RenderExact, Alone
  <2>2. Before(source, Len(Order) + 1) =
          UNION {{<<Kind[r], e>> : e \in ToSet(EntriesOf(LinesOf(source, r)))} : r \in Rulesets}
    <3>1. 1..(Len(Order) + 1) - 1 = 1..Len(Order)
      BY OrderOK
    <3>2. Rulesets = {Order[j] : j \in 1..Len(Order)}
      BY OrderOK
    <3> QED
      BY <3>1, <3>2 DEF Before
  <2> QED
    BY <2>1, <2>2 DEF Lines, LinesOf
<1> QED
  BY <1>1, InvHolds, PTL

\* An edit nobody disturbs changes the one entry it names and keeps the others in order;
\* one that is refused changes none (AppendEntry, RemoveEntry, RemoveEntryIndex).
THEOREM EditsExactly == Spec => []EditIsExact
<1>1. RepoInv => EditIsExact
  <2> SUFFICES ASSUME RepoInv, NEW p \in Procs, Alone(p), run[p].op \in Edits
               PROVE  EditExact(run[p], EntriesOf(LinesOf(source, run[p].r)), faults)
    BY DEF EditIsExact, EditExact, Lines, LinesOf
  <2> QED
    BY DEF RepoInv, AllGood, Good, Placed, Tracks, Alone
<1> QED
  BY <1>1, InvHolds, PTL

\* A command that is not about to write the rule set x.
Away(r, x) ==
  r.pc \notin {"copyCut", "copyWrite"} /\ (r.r = x => r.pc \notin {"cut", "write"})

LEMMA AwayOK ==
  ASSUME NEW r \in Runs, NEW x
  PROVE  /\ \A how : Away(Ended(r, how), x)
         /\ Away(Idle, x)
         /\ Away(r, x) => Away(Disturbed(r), x)
<1>1. Idle.pc = "idle"
  BY DEF Idle
<1>2. \A how : Ended(r, how).pc \in {"idle", "done"}
  BY <1>1 DEF Ended, Runs
<1>3. /\ [r EXCEPT !.alone = FALSE, !.before = <<>>].pc = r.pc
      /\ [r EXCEPT !.alone = FALSE, !.before = <<>>].r = r.r
  BY DEF Runs
<1> QED
  BY <1>1, <1>2, <1>3 DEF Away, Disturbed

\* No command that reads a damaged rule set goes on to write it.
LEMMA ReadAway ==
  ASSUME RepoInv, NEW p \in Procs, Read(p), NEW x \in Rulesets, Damaged(x)
  PROVE  run' = [run EXCEPT ![p] = run'[p]] /\ Away(run'[p], x)
<1> DEFINE r == run[p]
           f == IF r.op = "render" THEN Order[r.at] ELSE r.r
           got == [r EXCEPT !.entries = EntriesOf(source[f])]
           s == IF Unreadable(r, f) THEN Ended(r, "error")
                ELSE CASE r.op = "render"      -> Rendered(r, f)
                       [] r.op = "add"         -> Added(got)
                       [] r.op = "remove"      -> Removed(got)
                       [] r.op = "removeIndex" -> RemovedIndex(got)
<1>1. /\ r \in Runs /\ r.pc = "read" /\ r.at \in 0..Len(Order) /\ r.at # 0
      /\ r.op \in Edits => r.at = 1
  BY DEF RepoInv, AllGood, Good, Placed, Read, Runs
<1>2. run'[p] = s /\ run' = [run EXCEPT ![p] = run'[p]]
  <2>1. run' = [run EXCEPT ![p] = s]
    BY DEF Read, Becomes
  <2>2. run = [q \in Procs |-> run[q]]
    BY DEF RepoInv, AllGood
  <2> HIDE DEF s
  <2> QED
    BY <2>1, <2>2
<1>3. CASE Unreadable(r, f)
  <2>1. s = Ended(r, "error")
    BY <1>3
  <2> HIDE DEF s
  <2> QED
    BY <1>1, <1>2, <2>1, AwayOK
<1>4. CASE ~Unreadable(r, f) /\ r.op = "render"
  <2>1. s = Rendered(r, f)
    BY <1>4
  <2> DEFINE more == [r EXCEPT !.at = @ + 1,
                               !.lines = @ \o Without([i \in DOMAIN EntriesOf(source[f]) |->
                                               <<Kind[f], EntriesOf(source[f])[i]>>], ToSet(@))]
             last == [more EXCEPT !.at = r.at]
  <2>2. Rendered(r, f) = IF r.at < Len(Order) THEN more ELSE Ended(last, "ok")
    BY DEF Rendered
  <2>3. more.pc = "read" /\ last.pc = "read"
    BY <1>1 DEF Runs
  <2> HIDE DEF more, last, s
  <2>4. Ended(last, "ok").pc \in {"idle", "done"}
    BY DEF Ended, Idle
  <2> QED
    BY <1>2, <2>1, <2>2, <2>3, <2>4 DEF Away
<1>5. CASE ~Unreadable(r, f) /\ r.op \in Edits
  <2>1. r.r # x
    BY <1>1, <1>5 DEF Unreadable, Damaged, Edits
  <2>2. s \in {Added(got), Removed(got), RemovedIndex(got)}
    BY <1>5 DEF Edits
  <2>3. /\ \A e : [got EXCEPT !.pc = "cut", !.entries = e].r = r.r
        /\ \A e : [got EXCEPT !.pc = "cut", !.entries = e].pc = "cut"
        /\ \A how : Ended(got, how).pc \in {"idle", "done"}
    BY <1>1 DEF Runs, Ended, Idle
  <2> HIDE DEF got, s
  <2>4. s.pc \in {"idle", "done"} \/ (s.pc = "cut" /\ s.r = r.r)
    BY <2>2, <2>3 DEF Added, Removed, RemovedIndex
  <2> QED
    BY <1>2, <2>1, <2>4 DEF Away
<1> QED
  BY <1>1, <1>3, <1>4, <1>5 DEF Runs

\* A file that is missing, that lists an entry twice, or whose manifest was cut stays so once
\* no command is about to write it: every later command that reads it is refused, and
\* none completes the repository (InitDefaultRepo, FindRuleset, ReadEntries).
THEOREM DamageIsPermanent == Spec => DamageStays
<1> DEFINE Stays == \A r \in Rulesets : Settled(r) /\ Damaged(r) => Settled(r)' /\ Damaged(r)'
<1>1. RepoInv /\ [Next]_vars => [Stays]_vars
  <2> SUFFICES ASSUME RepoInv, Next, NEW r \in Rulesets, Settled(r), Damaged(r)
               PROVE  Settled(r)' /\ Damaged(r)'
    OBVIOUS
  <2>1. /\ manifest # "absent" /\ \A q \in Procs : run[q] \in Runs /\ Away(run[q], r)
        /\ run = [q \in Procs |-> run[q]] /\ source = [y \in Rulesets |-> source[y]]
    BY DEF Settled, Away, RepoInv, AllGood, Good, Sources
  <2>2. PICK p \in Procs :
          \/ \E x \in Rulesets, v \in Values, op \in Edits \union {"render"}, i \in Nat : Begin(p, op, x, v, i)
          \/ Stat(p) \/ Read(p) \/ Cut(p) \/ Write(p) \/ StepFails(p) \/ Crash(p)
    <3>1. \A p \in Procs : ~CopyCut(p) /\ ~CopyWrite(p)
      BY <2>1 DEF CopyCut, CopyWrite, Away
    <3>2. Idle.value \in Values /\ Idle.r \in Rulesets
      BY IdleOK DEF Runs
    <3>3. PICK p \in Procs :
            \/ \E x \in Rulesets, v \in Values, op \in {"add", "remove"} : Begin(p, op, x, v, 0)
            \/ \E x \in Rulesets, i \in 0..Cardinality(Values) : Begin(p, "removeIndex", x, Idle.value, i)
            \/ Begin(p, "render", Idle.r, Idle.value, 0)
            \/ Stat(p) \/ Read(p) \/ Cut(p) \/ Write(p) \/ StepFails(p) \/ Crash(p)
      BY <3>1 DEF Next
    <3> DEFINE Begins == \E x \in Rulesets, v \in Values, op \in Edits \union {"render"}, i \in Nat :
                           Begin(p, op, x, v, i)
    <3>4. \A x \in Rulesets, v \in Values, op \in {"add", "remove"} : Begin(p, op, x, v, 0) => Begins
      BY DEF Edits
    <3>5. \A x \in Rulesets, i \in Nat : Begin(p, "removeIndex", x, Idle.value, i) => Begins
      BY <3>2 DEF Edits
    <3>6. Begin(p, "render", Idle.r, Idle.value, 0) => Begins
      BY <3>2 DEF Edits
    <3> HIDE DEF Begins
    <3>7. Begins \/ Stat(p) \/ Read(p) \/ Cut(p) \/ Write(p) \/ StepFails(p) \/ Crash(p)
      BY <3>3, <3>4, <3>5, <3>6
    <3> QED
      BY <3>7 DEF Begins
  <2> SUFFICES /\ manifest' = manifest /\ source'[r] = source[r]
               /\ \A q \in Procs : Away(run'[q], r)
    BY <2>1 DEF Settled, Damaged, Away
  <2>3. ASSUME NEW s, Becomes(p, s), Away(s, r), UNCHANGED <<manifest, source>>
        PROVE  /\ manifest' = manifest /\ source'[r] = source[r]
               /\ \A q \in Procs : Away(run'[q], r)
    <3>1. \A q \in Procs : run'[q] = IF q = p THEN s ELSE run[q]
      BY <2>1, <2>3 DEF Becomes
    <3> QED
      BY <2>1, <2>3, <3>1
  <2>4. ASSUME NEW x \in Rulesets, NEW v \in Values, NEW op \in Edits \union {"render"}, NEW i \in Nat,
               Begin(p, op, x, v, i)
        PROVE  /\ manifest' = manifest /\ source'[r] = source[r]
               /\ \A q \in Procs : Away(run'[q], r)
    <3> DEFINE s == [Idle EXCEPT !.op = op, !.pc = "stat", !.r = x, !.value = v, !.index = i,
                                 !.before = EntriesOf(Lines(x))]
    <3>1. s.pc = "stat"
      BY DEF Idle
    <3>2. Becomes(p, s) /\ UNCHANGED <<manifest, source>>
      BY <2>4 DEF Begin
    <3> HIDE DEF s
    <3> QED
      BY <2>3, <3>1, <3>2 DEF Away
  <2>5. CASE Stat(p)
    <3>1. /\ Becomes(p, [run[p] EXCEPT !.pc = "read", !.at = 1])
          /\ UNCHANGED <<manifest, source>>
      BY <2>1, <2>5 DEF Stat
    <3>2. Away([run[p] EXCEPT !.pc = "read", !.at = 1], r)
      BY <2>1 DEF Away, Runs
    <3> QED
      BY <2>3, <3>1, <3>2
  <2>6. CASE Read(p)
    <3>1. Becomes(p, run'[p]) /\ Away(run'[p], r) /\ UNCHANGED <<manifest, source>>
      BY <2>6, ReadAway DEF Becomes, Read
    <3> QED
      BY <2>3, <3>1
  <2>7. ASSUME NEW s, Writes(p, s), Away(s, r), manifest' = manifest, source'[r] = source[r]
        PROVE  /\ manifest' = manifest /\ source'[r] = source[r]
               /\ \A q \in Procs : Away(run'[q], r)
    BY <2>1, <2>7, AwayOK DEF Writes
  <2>8. CASE Cut(p)
    <3>1. run[p].r # r /\ [run[p] EXCEPT !.pc = "write"].r = run[p].r
          /\ [run[p] EXCEPT !.pc = "write"].pc = "write"
      BY <2>1, <2>8 DEF Cut, Away, Runs
    <3>2. Writes(p, [run[p] EXCEPT !.pc = "write"]) /\ manifest' = manifest
          /\ source'[r] = source[r]
      BY <2>1, <2>8, <3>1 DEF Cut
    <3> QED
      BY <2>7, <3>1, <3>2 DEF Away
  <2>9. CASE Write(p)
    <3>1. run[p].r # r
      BY <2>1, <2>9 DEF Write, Away
    <3>2. Writes(p, Ended(run[p], "ok")) /\ manifest' = manifest /\ source'[r] = source[r]
      BY <2>1, <2>9, <3>1 DEF Write, WritesBody
    <3> QED
      BY <2>1, <2>7, <3>2, AwayOK
  <2>10. CASE StepFails(p) \/ Crash(p)
    <3>1. PICK s \in {Ended(run[p], "error"), Idle} : Becomes(p, s) /\ UNCHANGED <<manifest, source>>
      BY <2>10 DEF StepFails, Crash
    <3> QED
      BY <2>1, <2>3, <3>1, AwayOK
  <2> QED
    BY <2>2, <2>4, <2>5, <2>6, <2>8, <2>9, <2>10
<1> QED
  BY <1>1, InvHolds, PTL DEF Spec, DamageStays

=============================================================================
