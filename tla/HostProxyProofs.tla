-------------------------- MODULE HostProxyProofs --------------------------
(***************************************************************************)
(* Proofs about HostProxy for any number of commands, requests, settings   *)
(* and documents.  The inductive invariant says of each call where in its  *)
(* transaction it is (Placed), which request the mutex belongs to          *)
(* (Exclusive), and, of a call nobody has disturbed, how its copy, the     *)
(* file, the runtime files and the kernel relate at each point (Tracks).   *)
(***************************************************************************)
EXTENDS HostProxy, TLAPS

Files == Doc \union NoDocument

\* The document a call found, as far as its own form has not changed it.
Found(r) == IF r.op = "form" /\ r.phase \notin {"form", "edit"}
              THEN [r.began EXCEPT !.rest = r.edit.rest] ELSE r.began

\* The document it wants stored in its present phase.
Aim(r) == CASE r.phase \in {"form", "ask", "rollback"} -> Found(r)
            [] r.phase = "edit"    -> [r.began EXCEPT !.rest = r.edit.rest]
            [] r.phase = "persist" -> [Found(r) EXCEPT !.output = r.want]

\* Which calls reach a phase, which steps belong to it, and where ensureAll returns to.
Placed(r) ==
  /\ r.phase = "form" => r.op = "form"
  /\ r.phase = "edit" => /\ r.op \in {"form", "raw", "wizard"}
                         /\ r.pc \in {"cut", "write", "done"} /\ ~r.filling
  /\ r.phase \in {"persist", "rollback"} => r.op \in {"switch", "form"}
  /\ r.filling => r.pc \in {"cut", "write", "done"}
  /\ r.pc \in {"cut", "write"} /\ r.phase \in {"form", "ask"} => r.filling
  /\ r.pc = "wait" => r.op \in Web /\ r.phase = IF r.op = "form" THEN "form" ELSE "ask"
  /\ r.pc = "decide" => r.phase \in {"form", "ask"}
  /\ r.pc = "prompt" => r.phase = "ask" /\ r.op \in {"switch", "wizard"}
  /\ r.pc \in {"render", "apply"} => r.phase \in {"persist", "rollback"} /\ r.at = r.pc
  /\ r.phase \in {"form", "ask", "edit"} => r.at = "decide"
  /\ r.phase = "rollback" /\ r.pc # "done" => r.at \in {"render", "apply"}
  /\ r.phase = "persist" /\ r.at = "decide" /\ r.pc # "done" =>
       r.pc \in {"cut", "write"} /\ ~r.filling
  /\ r.op = "wizard" => r.edit.secret
  /\ r.op = "raw" => r.pc \notin {"load", "probe"}
  /\ r.pc = "done" => /\ r.disturbed = {} /\ r.op \notin {"raw", "wizard"}
                      /\ r.end = "changed" <=> r.phase = "persist"
                      /\ r.end \in {"stuck", "restored"} <=> r.phase = "rollback"

\* Every setting the call was not asked for is in the file as the call found it.
Kept(r, f) ==
  f \notin NoDocument =>
    /\ r.op \in {"switch", "look", "page"} => Settings(f) = Settings(r.began)
    /\ r.op = "form" => f.base = r.began.base /\ f.rest \in {r.began.rest, r.edit.rest}
    /\ r.phase \notin {"persist", "rollback"} => f.output = r.began.output

Tracks(r, f, rd, k) ==
  /\ Kept(r, f)
  /\ r.phase \in {"persist", "rollback"} => r.previous = Found(r)
  /\ r.pc \in {"load", "probe"} => Loaded(f) = Aim(r)
  /\ r.pc = "probe" => f # Garbled
  /\ r.pc \in {"probe", "cut", "write", "decide", "prompt", "render", "apply"} => r.cfg = Aim(r)
  /\ r.pc \in {"decide", "prompt", "render", "apply"} => f = Aim(r)
  /\ r.pc = "write" => f = Blank
  /\ r.at = "apply" => rd = Settings(Aim(r))
  /\ r.pc = "done" /\ r.end \in {"changed", "restored"} =>
       f = Aim(r) /\ rd = Settings(f) /\ k = Programmed(f)

\* Nobody has written beside it, and it is not one that only saves an edit.
Untouched(r) == r.disturbed = {} /\ r.op \notin {"raw", "wizard"}
Tracking(r, f, rd, k) ==
  Untouched(r) /\ r.pc \notin {"idle", "wait"} => Tracks(r, f, rd, k)

\* The mutex belongs to the web request that works.
Exclusive ==
  /\ mutex # Nobody => run[mutex].op \in Web /\ Running(mutex) /\ run[mutex].pc # "wait"
  /\ \A p \in Procs : Running(p) /\ run[p].pc # "wait" /\ run[p].op \in Web =>
       mutex = p /\ "web" \notin run[p].disturbed

Values ==
  /\ file \in Files
  /\ rendered \in [base: BOOLEAN, rest: Rests] \union {Absent, Partial}
  /\ kernel \in [output: BOOLEAN, base: BOOLEAN, rest: Rests] \union {Cleared, Partial}
  /\ hasNodes \in BOOLEAN
  /\ mutex \in Procs \union {Nobody}
  /\ calls \in 0..MaxCalls
  /\ faults \in 0..MaxFaults

Good(r, f, rd, k) == r \in Runs /\ Placed(r) /\ Tracking(r, f, rd, k)

AllGood == /\ DOMAIN run = Procs /\ run = [p \in Procs |-> run[p]]
           /\ \A p \in Procs : Good(run[p], file, rendered, kernel)

HostInv == Values /\ AllGood /\ Exclusive
-----------------------------------------------------------------------------
(* Documents *)

LEMMA DefaultOK == Default \in Cfg /\ Cfg \subseteq Doc
<1>1. (CHOOSE r \in Rests : TRUE) \in Rests
  BY HostProxyAssumption
<1> QED
  BY <1>1 DEF Default, Cfg, Doc

\* What a file parses as is a configuration, equal to the file where a secret is stored.
LEMMA LoadedOK ==
  ASSUME NEW f \in Files
  PROVE  /\ Loaded(f) \in Cfg
         /\ ~Unsealed(f) => f \in Cfg /\ Loaded(f) = f
         /\ f \notin NoDocument => /\ f \in Doc /\ Settings(f) = Settings(Loaded(f))
                                        /\ f.output = Loaded(f).output
<1>1. CASE f \in NoDocument
  BY <1>1, DefaultOK DEF Loaded, Unsealed
<1>2. CASE f \notin NoDocument
  <2>1. f \in Doc /\ Loaded(f) = [f EXCEPT !.secret = TRUE] /\ Unsealed(f) = ~f.secret
    BY <1>2 DEF Loaded, Unsealed, Files
  <2>2. Loaded(f) \in Cfg
    BY <2>1 DEF Doc, Cfg
  <2>3. f.secret => f = Loaded(f)
    BY <2>1 DEF Doc
  <2>4. Settings(f) = Settings(Loaded(f)) /\ f.output = Loaded(f).output
    BY <2>1 DEF Doc, Settings
  <2> QED
    BY <1>2, <2>1, <2>2, <2>3, <2>4
<1> QED
  BY <1>1, <1>2

LEMMA CfgOK ==
  ASSUME NEW d \in Cfg
  PROVE  /\ d \in Doc /\ d \in Files /\ d \notin NoDocument /\ d.secret
         /\ Loaded(d) = d /\ ~Unsealed(d)
BY DocumentsAssumption DEF Cfg, Doc, Files, Loaded, Unsealed

LEMMA AimOK ==
  ASSUME NEW r \in Runs
  PROVE  /\ Found(r) \in Cfg /\ Aim(r) \in Cfg
         /\ Found(r).base = r.began.base /\ Aim(r).base = r.began.base
         /\ r.op # "form" => Settings(Found(r)) = Settings(r.began)
         /\ r.op # "form" /\ r.phase # "edit" => Settings(Aim(r)) = Settings(r.began)
         /\ Found(r).rest \in {r.began.rest, r.edit.rest}
         /\ Aim(r).rest \in {r.began.rest, r.edit.rest}
         /\ Found(r).output = r.began.output
         /\ r.phase # "persist" => Aim(r).output = r.began.output
         /\ r.phase = "persist" => Aim(r).output = r.want
<1>1. r.began \in Cfg /\ r.edit \in Doc /\ r.want \in BOOLEAN
      /\ r.phase \in {"form", "ask", "edit", "persist", "rollback"}
  BY DEF Runs
<1>2. /\ Found(r) \in Cfg /\ Found(r).base = r.began.base
      /\ Found(r).rest \in {r.began.rest, r.edit.rest} /\ Found(r).output = r.began.output
      /\ r.op # "form" => Settings(Found(r)) = Settings(r.began)
  BY <1>1 DEF Found, Cfg, Doc, Settings
<1>3. CASE r.phase \in {"form", "ask", "rollback"}
  BY <1>2, <1>3 DEF Aim
<1>4. CASE r.phase = "edit"
  <2>1. Aim(r) = [r.began EXCEPT !.rest = r.edit.rest]
    BY <1>4 DEF Aim
  <2> QED
    BY <1>1, <1>2, <1>4, <2>1 DEF Cfg, Doc
<1>5. CASE r.phase = "persist"
  <2>1. Aim(r) = [Found(r) EXCEPT !.output = r.want]
    BY <1>5 DEF Aim
  <2> QED
    BY <1>1, <1>2, <1>5, <2>1 DEF Cfg, Doc, Settings
<1> QED
  BY <1>1, <1>3, <1>4, <1>5
-----------------------------------------------------------------------------
(* One call at a time: what each step makes of its record *)

Ends == {"none", "shown", "refused", "already", "cancelled", "saved", "failed",
         "changed", "restored", "stuck"}

LEMMA IdleOK == Idle \in Runs /\ Placed(Idle) /\ \A f, rd, k : Tracking(Idle, f, rd, k)
BY DefaultOK DEF Idle, Runs, Ops, Placed, Tracking

\* Steps that change where a call is, and its copy.
LEMMA MovedOK ==
  ASSUME NEW r \in Runs, NEW s \in Runs,
         s.op = r.op, s.want = r.want, s.edit = r.edit, s.began = r.began,
         s.phase = r.phase, s.previous = r.previous
  PROVE  Found(s) = Found(r) /\ Aim(s) = Aim(r) /\ \A f : Kept(s, f) <=> Kept(r, f)
BY DEF Found, Aim, Kept

\* A call that returns, with an outcome that fits its phase.
LEMMA EndedOK ==
  ASSUME NEW r \in Runs, Placed(r), NEW how \in Ends,
         how = "changed" <=> r.phase = "persist",
         how \in {"stuck", "restored"} <=> r.phase = "rollback",
         NEW f, NEW rd, NEW k,
         Untouched(r) => /\ Kept(r, f)
                         /\ r.phase \in {"persist", "rollback"} => r.previous = Found(r)
                         /\ how \in {"changed", "restored"} =>
                              f = Aim(r) /\ rd = Settings(f) /\ k = Programmed(f)
  PROVE  LET e == Ended(r, how)
         IN  e \in Runs /\ e.pc \in {"idle", "done"} /\ Placed(e) /\ Tracking(e, f, rd, k)
<1> DEFINE e == [r EXCEPT !.pc = "done", !.end = how, !.cfg = Default, !.at = "decide"]
<1>1. CASE ~Untouched(r)
  BY <1>1, IdleOK DEF Ended, Untouched, Idle
<1>2. CASE Untouched(r)
  <2>1. Ended(r, how) = e
    BY <1>2 DEF Ended, Untouched
  <2>2. e \in Runs
    BY ZenonT(60), DefaultOK DEF Runs, Ends
  <2>3. Placed(e)
    BY <1>2 DEF Runs, Placed, Untouched
  <2>4. /\ e.op = r.op /\ e.phase = r.phase /\ e.began = r.began /\ e.edit = r.edit
        /\ e.want = r.want /\ e.previous = r.previous /\ e.pc = "done" /\ e.end = how
    BY DEF Runs
  <2>5. Found(e) = Found(r) /\ Aim(e) = Aim(r) /\ (Kept(e, f) <=> Kept(r, f))
    BY <2>2, <2>4, MovedOK
  <2>6. Tracks(e, f, rd, k)
    BY <1>2, <2>4, <2>5 DEF Tracks
  <2> QED
    BY <2>1, <2>2, <2>3, <2>4, <2>6 DEF Tracking
<1> QED
  BY <1>1, <1>2

\* s may follow r under the same lock.
Follows(r, s) ==
  s.pc \in {"idle", "done"} \/ (s.op = r.op /\ s.disturbed = r.disturbed /\ s.pc # "wait")

LEMMA LoadOK ==
  ASSUME NEW r, NEW f \in Files, NEW rd, NEW k, Good(r, f, rd, k), r.pc = "load", f # Garbled
  PROVE  LET s == [r EXCEPT !.cfg = Loaded(f), !.filling = (f = Absent),
                            !.pc = IF f = Absent THEN "cut" ELSE "probe"]
         IN  Good(s, f, rd, k) /\ Follows(r, s)
<1> DEFINE s == [r EXCEPT !.cfg = Loaded(f), !.filling = (f = Absent),
                          !.pc = IF f = Absent THEN "cut" ELSE "probe"]
<1>1. r \in Runs /\ Placed(r) /\ Loaded(f) \in Cfg
  BY LoadedOK DEF Good
<1>2. s \in Runs /\ Follows(r, s)
  BY <1>1 DEF Runs, Follows
<1>3. Placed(s)
  BY ZenonT(60), <1>1 DEF Runs, Placed
<1>4. Found(s) = Found(r) /\ Aim(s) = Aim(r) /\ (Kept(s, f) <=> Kept(r, f))
  <2>1. /\ s.op = r.op /\ s.want = r.want /\ s.edit = r.edit /\ s.began = r.began
        /\ s.phase = r.phase /\ s.previous = r.previous
    BY <1>1 DEF Runs
  <2> QED
    BY <1>1, <1>2, <2>1, MovedOK
<1>5. ASSUME Untouched(s) PROVE Tracks(s, f, rd, k)
  <2>1. Tracks(r, f, rd, k)
    BY <1>1, <1>5 DEF Good, Tracking, Untouched, Runs
  <2> QED
    BY <1>1, <1>4, <2>1 DEF Tracks, Runs
<1> QED
  BY <1>2, <1>3, <1>5 DEF Good, Tracking

LEMMA ProbeOK ==
  ASSUME NEW r, NEW f \in Files, NEW rd, NEW k, Good(r, f, rd, k), r.pc = "probe",
         NEW unsealed \in BOOLEAN, f # Garbled => unsealed = Unsealed(f)
  PROVE  LET s == [r EXCEPT !.filling = unsealed,
                            !.pc = IF unsealed THEN "cut" ELSE r.at]
         IN  Good(s, f, rd, k) /\ Follows(r, s)
<1> DEFINE s == [r EXCEPT !.filling = unsealed, !.pc = IF unsealed THEN "cut" ELSE r.at]
<1>1. r \in Runs /\ Placed(r)
  BY DEF Good
<1>2. s \in Runs /\ Follows(r, s)
  BY <1>1 DEF Runs, Follows
<1>3. Placed(s)
  BY <1>1 DEF Runs, Placed
<1>4. Found(s) = Found(r) /\ Aim(s) = Aim(r) /\ (Kept(s, f) <=> Kept(r, f))
  <2>1. /\ s.op = r.op /\ s.want = r.want /\ s.edit = r.edit /\ s.began = r.began
        /\ s.phase = r.phase /\ s.previous = r.previous
    BY <1>1 DEF Runs
  <2> QED
    BY <1>1, <1>2, <2>1, MovedOK
<1>5. ASSUME Untouched(s) PROVE Tracks(s, f, rd, k)
  <2>1. Tracks(r, f, rd, k)
    BY <1>1, <1>5 DEF Good, Tracking, Untouched, Runs
  <2>2. ~unsealed => f = Loaded(f)
    BY <1>1, <2>1, LoadedOK DEF Tracks
  <2> QED
    BY <1>1, <1>4, <2>1, <2>2 DEF Tracks, Runs
<1> QED
  BY <1>2, <1>3, <1>5 DEF Good, Tracking

\* The file is empty now.
LEMMA CutOK ==
  ASSUME NEW r, NEW f \in Files, NEW rd, NEW k, Good(r, f, rd, k), r.pc = "cut"
  PROVE  LET s == [r EXCEPT !.pc = "write"] IN Good(s, Blank, rd, k) /\ Follows(r, s)
<1> DEFINE s == [r EXCEPT !.pc = "write"]
<1>1. r \in Runs /\ Placed(r)
  BY DEF Good
<1>2. s \in Runs /\ Follows(r, s)
  BY <1>1 DEF Runs, Follows
<1>3. Placed(s)
  BY <1>1 DEF Runs, Placed
<1>4. Found(s) = Found(r) /\ Aim(s) = Aim(r)
  <2>1. /\ s.op = r.op /\ s.want = r.want /\ s.edit = r.edit /\ s.began = r.began
        /\ s.phase = r.phase /\ s.previous = r.previous
    BY <1>1 DEF Runs
  <2> QED
    BY <1>1, <1>2, <2>1, MovedOK
<1>5. ASSUME Untouched(s) PROVE Tracks(s, Blank, rd, k)
  <2>1. Tracks(r, f, rd, k)
    BY <1>1, <1>5 DEF Good, Tracking, Untouched, Runs
  <2>2. Kept(s, Blank)
    BY DEF Kept, NoDocument
  <2> QED
    BY <1>1, <1>4, <2>1, <2>2 DEF Tracks, Runs
<1> QED
  BY <1>2, <1>3, <1>5 DEF Good, Tracking

LEMMA KeptAim ==
  ASSUME NEW r \in Runs, r.phase = "edit" => r.op = "form"
  PROVE  Kept(r, Aim(r))
<1>1. r.op \in {"switch", "look", "page"} => r.op # "form"
  OBVIOUS
<1> QED
  BY <1>1, AimOK DEF Kept

\* What a save makes of the file: its document, where nobody has written since the cut.
LEMMA WrittenOverOK ==
  ASSUME NEW f \in Files, NEW d \in Doc, NEW isText \in BOOLEAN, NEW g \in WrittenOver(f, d, isText)
  PROVE  g \in Files /\ (f = Blank => g = d)
BY DEF WrittenOver, Mixes, Files, NoDocument

\* The document is written; what follows depends on why it was.
LEMMA WriteOK ==
  ASSUME NEW r, NEW f0 \in Files, NEW rd, NEW k, Good(r, f0, rd, k), r.pc = "write",
         NEW f \in Files, f0 = Blank /\ r.op # "raw" => f = r.cfg
  PROVE  Good(AfterSave(r), f, rd, k) /\ Follows(r, AfterSave(r))
<1>1. r \in Runs /\ Placed(r)
  BY DEF Good
<1>2. Untouched(r) => /\ f = r.cfg /\ r.cfg = Aim(r) /\ f \in Cfg /\ Loaded(f) = f
                      /\ r.phase \in {"persist", "rollback"} => r.previous = Found(r)
                      /\ r.at = "apply" => rd = Settings(Aim(r))
  <2>1. Untouched(r) => Tracks(r, f0, rd, k) /\ r.op # "raw"
    BY DEF Good, Tracking, Untouched
  <2> QED
    BY <1>1, <2>1, CfgOK DEF Tracks, Runs
<1>3. Untouched(r) => Kept(r, f)
  BY <1>1, <1>2, KeptAim DEF Placed, Untouched
<1>4. CASE r.filling
  <2> DEFINE s == [r EXCEPT !.pc = r.at, !.filling = FALSE]
  <2>1. s \in Runs
    BY <1>1, <1>4 DEF Runs
  <2>2. /\ s.op = r.op /\ s.want = r.want /\ s.edit = r.edit /\ s.began = r.began
        /\ s.phase = r.phase /\ s.previous = r.previous /\ s.disturbed = r.disturbed
        /\ s.cfg = r.cfg /\ s.at = r.at /\ s.pc = r.at /\ s.filling = FALSE
        /\ r.at \in {"decide", "render", "apply"}
        /\ r.phase \in {"form", "ask", "edit", "persist", "rollback"}
    BY <1>1 DEF Runs
  <2>6. Follows(r, s) /\ Placed(s)
    BY <1>1, <1>4, <2>2 DEF Follows, Placed
  <2>3. Found(s) = Found(r) /\ Aim(s) = Aim(r) /\ (Kept(s, f) <=> Kept(r, f))
    BY <1>1, <2>1, <2>2, MovedOK
  <2>4. Untouched(s) => Tracks(s, f, rd, k)
    BY <1>1, <1>2, <1>3, <2>2, <2>3 DEF Tracks, Untouched, Runs
  <2>5. AfterSave(r) = s
    BY <1>4 DEF AfterSave
  <2> QED
    BY <1>1, <2>1, <2>4, <2>5, <2>6 DEF Good, Tracking
<1>5. CASE ~r.filling /\ r.phase = "edit"
  <2>1. CASE r.op = "form" /\ r.cfg.output # r.want
    <3> DEFINE s == [r EXCEPT !.pc = "load", !.phase = "ask"]
    <3>1. s \in Runs /\ Follows(r, s) /\ Placed(s)
      BY <1>1, <1>5, <2>1 DEF Runs, Follows, Placed
    <3>2. /\ s.op = r.op /\ s.want = r.want /\ s.edit = r.edit /\ s.began = r.began
          /\ s.phase = "ask" /\ s.disturbed = r.disturbed /\ s.at = r.at /\ s.pc = "load"
      BY <1>1 DEF Runs
    <3>3. Aim(s) = Aim(r)
      BY <1>5, <2>1, <3>2 DEF Aim, Found
    <3>4. Untouched(s) => Kept(s, f)
      BY <1>3, <1>5, <3>2 DEF Kept, Untouched
    <3>5. Untouched(s) => Tracks(s, f, rd, k)
      BY <1>1, <1>2, <1>5, <3>2, <3>3, <3>4 DEF Tracks, Untouched, Placed
    <3>6. AfterSave(r) = s
      BY <1>5, <2>1 DEF AfterSave, AfterEdit
    <3> QED
      BY <1>1, <3>1, <3>5, <3>6 DEF Good, Tracking
  <2>2. CASE ~(r.op = "form" /\ r.cfg.output # r.want)
    <3>1. AfterSave(r) = Ended(r, "saved")
      BY <1>5, <2>2 DEF AfterSave, AfterEdit
    <3> QED
      BY <1>1, <1>3, <1>5, <3>1, EndedOK DEF Ends, Good, Follows
  <2> QED
    BY <2>1, <2>2
<1>6. CASE ~r.filling /\ r.phase # "edit"
  <2> DEFINE s == [r EXCEPT !.pc = "load", !.at = "render"]
  <2>1. s \in Runs /\ Follows(r, s) /\ Placed(s)
    BY ZenonT(60), <1>1, <1>6 DEF Runs, Follows, Placed, Good
  <2>2. /\ s.op = r.op /\ s.want = r.want /\ s.edit = r.edit /\ s.began = r.began
        /\ s.phase = r.phase /\ s.previous = r.previous /\ s.disturbed = r.disturbed
        /\ s.at = "render" /\ s.pc = "load"
    BY <1>1 DEF Runs
  <2>3. Found(s) = Found(r) /\ Aim(s) = Aim(r) /\ (Kept(s, f) <=> Kept(r, f))
    BY <1>1, <2>1, <2>2, MovedOK
  <2>4. Untouched(s) => Tracks(s, f, rd, k)
    BY <1>2, <1>3, <2>2, <2>3 DEF Tracks, Untouched
  <2>5. AfterSave(r) = s
    BY <1>6 DEF AfterSave
  <2> QED
    BY <1>1, <2>1, <2>4, <2>5 DEF Good, Tracking
<1> QED
  BY <1>4, <1>5, <1>6

\* The transaction begins: previous is the document found, the copy asks for the switch.
LEMMA PersistOK ==
  ASSUME NEW r, NEW f \in Files, NEW rd, NEW k, Good(r, f, rd, k),
         r.op \in {"switch", "form"}, r.phase = "ask", r.pc \in {"decide", "prompt"}
  PROVE  Good(Persist(r), f, rd, k) /\ Follows(r, Persist(r))
<1> DEFINE s == [r EXCEPT !.phase = "persist", !.pc = "cut", !.previous = r.cfg,
                          !.cfg.output = r.want]
<1>1. r \in Runs /\ Placed(r) /\ s = Persist(r)
  BY DEF Good, Persist
<1>2. [r.cfg EXCEPT !.output = r.want] \in Cfg
  BY <1>1 DEF Runs, Cfg, Doc
<1>3. /\ s.op = r.op /\ s.want = r.want /\ s.edit = r.edit /\ s.began = r.began
      /\ s.phase = "persist" /\ s.previous = r.cfg /\ s.disturbed = r.disturbed
      /\ s.cfg = [r.cfg EXCEPT !.output = r.want] /\ s.at = r.at /\ s.pc = "cut"
      /\ s.filling = r.filling
  BY <1>1 DEF Runs
<1>4. s \in Runs /\ Follows(r, s)
  BY <1>1, <1>2 DEF Runs, Follows
<1>5. Placed(s)
  BY <1>1, <1>3 DEF Placed
<1>6. Found(s) = Found(r) /\ Aim(r) = Found(r) /\ Aim(s) = [Found(r) EXCEPT !.output = r.want]
  BY <1>3 DEF Found, Aim
<1>7. ASSUME Untouched(s) PROVE Tracks(s, f, rd, k)
  <2>1. Tracks(r, f, rd, k)
    BY <1>1, <1>3, <1>7 DEF Good, Tracking, Untouched
  <2>2. r.cfg = Found(r) /\ r.at # "apply"
    BY <1>1, <1>6, <2>1 DEF Tracks, Placed
  <2>3. Kept(s, f)
    BY <1>3, <2>1 DEF Tracks, Kept
  <2> QED
    BY <1>3, <1>6, <2>2, <2>3 DEF Tracks
<1> QED
  BY <1>1, <1>4, <1>5, <1>7 DEF Good, Tracking

LEMMA DecideSwitchOK ==
  ASSUME NEW r, NEW f \in Files, NEW rd, NEW k, Good(r, f, rd, k),
         r.op \in {"switch", "form"}, r.phase = "ask", r.pc = "decide"
  PROVE  Good(DecideSwitch(r), f, rd, k) /\ Follows(r, DecideSwitch(r))
<1>1. r \in Runs /\ Placed(r) /\ (Untouched(r) => Kept(r, f))
  BY DEF Good, Tracking, Tracks
<1>2. \A how \in {"refused", "already"} : Good(Ended(r, how), f, rd, k) /\ Follows(r, Ended(r, how))
  BY <1>1, EndedOK DEF Good, Follows, Ends
<1>3. CASE r.op = "switch"
  <2> DEFINE s == [r EXCEPT !.pc = "prompt"]
  <2>1. s \in Runs /\ Follows(r, s)
    BY <1>1 DEF Runs, Follows
  <2>2. /\ s.op = r.op /\ s.want = r.want /\ s.edit = r.edit /\ s.began = r.began
        /\ s.phase = r.phase /\ s.previous = r.previous /\ s.disturbed = r.disturbed
        /\ s.at = r.at /\ s.cfg = r.cfg /\ s.pc = "prompt" /\ s.filling = r.filling
    BY <1>1 DEF Runs
  <2>3. Placed(s)
    BY <1>1, <1>3, <2>2 DEF Placed
  <2>4. Found(s) = Found(r) /\ Aim(s) = Aim(r) /\ (Kept(s, f) <=> Kept(r, f))
    BY <1>1, <2>1, <2>2, MovedOK
  <2>5. Untouched(s) => Tracks(s, f, rd, k)
    BY <1>1, <2>2, <2>4 DEF Good, Tracking, Tracks, Untouched
  <2>6. Good(s, f, rd, k)
    BY <2>1, <2>3, <2>5 DEF Good, Tracking
  <2> QED
    BY <1>2, <1>3, <2>1, <2>6 DEF DecideSwitch
<1>4. CASE r.op = "form"
  BY <1>2, <1>4, PersistOK DEF DecideSwitch
<1> QED
  BY <1>3, <1>4

\* The fields of the form are put into the copy that is about to be saved.
LEMMA SaveFormOK ==
  ASSUME NEW r, NEW f \in Files, NEW rd, NEW k, Good(r, f, rd, k),
         r.phase = "form", r.pc = "decide"
  PROVE  Good(SaveForm(r), f, rd, k) /\ Follows(r, SaveForm(r))
<1> DEFINE s == [r EXCEPT !.phase = "edit", !.pc = "cut", !.cfg.rest = r.edit.rest]
<1>1. r \in Runs /\ Placed(r) /\ s = SaveForm(r)
  BY DEF Good, SaveForm
<1>2. [r.cfg EXCEPT !.rest = r.edit.rest] \in Cfg
  BY <1>1 DEF Runs, Cfg, Doc
<1>3. /\ s.op = r.op /\ s.want = r.want /\ s.edit = r.edit /\ s.began = r.began
      /\ s.phase = "edit" /\ s.previous = r.previous /\ s.disturbed = r.disturbed
      /\ s.cfg = [r.cfg EXCEPT !.rest = r.edit.rest] /\ s.at = r.at /\ s.pc = "cut"
      /\ s.filling = r.filling
  BY <1>1 DEF Runs
<1>4. s \in Runs /\ Follows(r, s)
  BY <1>1, <1>2 DEF Runs, Follows
<1>5. Placed(s)
  BY <1>1, <1>3 DEF Placed
<1>6. Aim(r) = r.began /\ Aim(s) = [r.began EXCEPT !.rest = r.edit.rest]
  BY <1>3 DEF Found, Aim
<1>7. ASSUME Untouched(s) PROVE Tracks(s, f, rd, k)
  <2>1. Tracks(r, f, rd, k)
    BY <1>1, <1>3, <1>7 DEF Good, Tracking, Untouched
  <2>2. r.cfg = r.began /\ r.at # "apply"
    BY <1>1, <1>6, <2>1 DEF Tracks, Placed
  <2>3. Kept(s, f)
    BY <1>3, <2>1 DEF Tracks, Kept
  <2> QED
    BY <1>3, <1>6, <2>2, <2>3 DEF Tracks
<1> QED
  BY <1>1, <1>4, <1>5, <1>7 DEF Good, Tracking

\* An edit or an answer of the wizard, which only ever saves one document.
LEMMA SaveEditOK ==
  ASSUME NEW r, NEW f, NEW rd, NEW k, Good(r, f, rd, k),
         r.op \in {"raw", "wizard"}, r.pc \in {"decide", "prompt"},
         NEW s, s \in {[r EXCEPT !.phase = "edit", !.pc = "cut"],
                       [r EXCEPT !.phase = "edit", !.pc = "cut", !.cfg = r.edit],
                       [r EXCEPT !.pc = "prompt"]},
         r.op = "raw" => s = [r EXCEPT !.phase = "edit", !.pc = "cut"],
         s = [r EXCEPT !.pc = "prompt"] => r.pc = "decide"
  PROVE  Good(s, f, rd, k) /\ Follows(r, s)
<1>1. r \in Runs /\ Placed(r)
  BY DEF Good
<1>2. r.op = "wizard" => r.edit \in Cfg
  BY <1>1 DEF Placed, Runs, Cfg
<1>3. s \in Runs /\ Follows(r, s)
  BY ZenonT(60), <1>1, <1>2 DEF Runs, Follows
<1>4. /\ s.op = r.op /\ s.edit = r.edit /\ s.disturbed = r.disturbed /\ s.at = r.at
      /\ s.filling = r.filling
      /\ \/ s.phase = "edit" /\ s.pc = "cut"
         \/ r.op # "raw" /\ s.phase = r.phase /\ s.pc = "prompt" /\ r.pc = "decide"
  <2>1. CASE s = [r EXCEPT !.phase = "edit", !.pc = "cut"]
    BY <1>1, <2>1 DEF Runs
  <2>2. CASE r.op # "raw" /\ s = [r EXCEPT !.phase = "edit", !.pc = "cut", !.cfg = r.edit]
    BY <1>1, <2>2 DEF Runs
  <2>3. CASE r.op # "raw" /\ s = [r EXCEPT !.pc = "prompt"]
    BY <1>1, <2>3 DEF Runs
  <2> QED
    BY <2>1, <2>2, <2>3
<1>5. Placed(s)
  BY <1>1, <1>4 DEF Placed
<1>6. Tracking(s, f, rd, k)
  BY <1>4 DEF Tracking, Untouched
<1> QED
  BY <1>3, <1>5, <1>6 DEF Good

\* RenderConfig has built the runtime files from the copy.
LEMMA RenderOK ==
  ASSUME NEW r, NEW f \in Files, NEW rd, NEW k, Good(r, f, rd, k), r.pc = "render"
  PROVE  LET s == [r EXCEPT !.pc = "load", !.at = "apply"]
         IN  Good(s, f, Settings(r.cfg), k) /\ Follows(r, s)
<1> DEFINE s == [r EXCEPT !.pc = "load", !.at = "apply"]
<1>1. r \in Runs /\ Placed(r)
  BY DEF Good
<1>2. s \in Runs /\ Follows(r, s)
  BY <1>1 DEF Runs, Follows
<1>3. /\ s.op = r.op /\ s.want = r.want /\ s.edit = r.edit /\ s.began = r.began
      /\ s.phase = r.phase /\ s.previous = r.previous /\ s.disturbed = r.disturbed
      /\ s.at = "apply" /\ s.cfg = r.cfg /\ s.pc = "load" /\ s.filling = r.filling
  BY <1>1 DEF Runs
<1>4. Placed(s)
  BY <1>1, <1>3 DEF Placed
<1>5. Found(s) = Found(r) /\ Aim(s) = Aim(r) /\ (Kept(s, f) <=> Kept(r, f))
  BY <1>1, <1>2, <1>3, MovedOK
<1>6. Aim(r) \in Cfg /\ Loaded(Aim(r)) = Aim(r)
  BY <1>1, AimOK, CfgOK
<1>7. Untouched(s) => Tracks(s, f, Settings(r.cfg), k)
  BY <1>1, <1>3, <1>5, <1>6 DEF Good, Tracking, Tracks, Untouched
<1> QED
  BY <1>2, <1>4, <1>7 DEF Good, Tracking

\* ApplyRules has programmed the kernel for the copy: the call returns.
LEMMA AppliedOK ==
  ASSUME NEW r, NEW f \in Files, NEW rd, NEW k, Good(r, f, rd, k), r.pc = "apply"
  PROVE  LET s == Ended(r, IF r.phase = "persist" THEN "changed" ELSE "restored")
         IN  Good(s, f, rd, Programmed(r.cfg)) /\ Follows(r, s)
<1>1. r \in Runs /\ Placed(r) /\ r.at = "apply" /\ r.phase \in {"persist", "rollback"}
  BY DEF Good, Placed
<1>2. Untouched(r) => /\ Kept(r, f) /\ r.previous = Found(r)
                      /\ f = Aim(r) /\ rd = Settings(f) /\ Programmed(r.cfg) = Programmed(f)
  BY <1>1 DEF Good, Tracking, Tracks
<1> QED
  BY <1>1, <1>2, EndedOK DEF Good, Follows, Ends

\* A step has failed, whatever it has done to the runtime files and the kernel.
LEMMA FailedOK ==
  ASSUME NEW r, NEW f \in Files, NEW rd, NEW k, Good(r, f, rd, k), NEW rd2, NEW k2,
         r.pc \notin {"idle", "wait", "done"}
  PROVE  Good(Failed(r), f, rd2, k2) /\ Follows(r, Failed(r))
<1>1. r \in Runs /\ Placed(r) /\ r.phase \in {"form", "ask", "edit", "persist", "rollback"}
  BY DEF Good, Runs
<1>2. Untouched(r) => /\ Kept(r, f)
                      /\ r.phase \in {"persist", "rollback"} => r.previous = Found(r)
  BY DEF Good, Tracking, Tracks
<1>3. CASE r.phase \in {"form", "ask"}
  <2>1. Failed(r) = Ended(r, "refused")
    BY <1>3 DEF Failed
  <2> QED
    BY <1>1, <1>2, <1>3, <2>1, EndedOK DEF Good, Follows, Ends
<1>4. CASE r.phase = "edit"
  <2>1. Failed(r) = Ended(r, "failed")
    BY <1>4 DEF Failed
  <2> QED
    BY <1>1, <1>2, <1>4, <2>1, EndedOK DEF Good, Follows, Ends
<1>5. CASE r.phase = "rollback"
  <2>1. Failed(r) = Ended(r, "stuck")
    BY <1>5 DEF Failed
  <2> QED
    BY <1>1, <1>2, <1>5, <2>1, EndedOK DEF Good, Follows, Ends
<1>6. CASE r.phase = "persist"
  <2> DEFINE s == [r EXCEPT !.phase = "rollback", !.pc = "cut", !.at = "render",
                            !.filling = FALSE, !.cfg = r.previous]
  <2>1. s = Failed(r)
    BY <1>6 DEF Failed
  <2>2. s \in Runs /\ Follows(r, s)
    BY ZenonT(60), <1>1 DEF Runs, Follows
  <2>3. /\ s.op = r.op /\ s.want = r.want /\ s.edit = r.edit /\ s.began = r.began
        /\ s.phase = "rollback" /\ s.previous = r.previous /\ s.disturbed = r.disturbed
        /\ s.at = "render" /\ s.cfg = r.previous /\ s.pc = "cut" /\ s.filling = FALSE
    BY <1>1 DEF Runs
  <2>4. Placed(s)
    BY <1>1, <1>6, <2>3 DEF Placed
  <2>5. Found(s) = Found(r) /\ Aim(s) = Found(s) /\ (Kept(s, f) <=> Kept(r, f))
    BY <1>6, <2>3 DEF Found, Aim, Kept
  <2>6. Untouched(s) => Tracks(s, f, rd2, k2)
    BY <1>2, <1>6, <2>3, <2>5 DEF Tracks, Untouched
  <2> QED
    BY <2>1, <2>2, <2>4, <2>6 DEF Good, Tracking
<1> QED
  BY <1>1, <1>3, <1>4, <1>5, <1>6

LEMMA RefusedOK ==
  ASSUME NEW r, NEW f \in Files, NEW rd, NEW k, Good(r, f, rd, k),
         r.phase \in {"form", "ask"}, r.pc \notin {"idle", "wait", "done"},
         NEW how \in {"refused", "cancelled", "shown"}
  PROVE  Good(Ended(r, how), f, rd, k) /\ Follows(r, Ended(r, how))
<1>1. r \in Runs /\ Placed(r) /\ (Untouched(r) => Kept(r, f))
  BY DEF Good, Tracking, Tracks
<1> QED
  BY <1>1, EndedOK DEF Good, Follows, Ends
-----------------------------------------------------------------------------
(* All calls together *)

LEMMA InvTypeOK == HostInv => TypeOK
<1>1. ASSUME NEW p \in Procs, Placed(run[p])
      PROVE  run[p].phase \in {"persist", "rollback"} => run[p].op \in {"switch", "form"}
  BY <1>1 DEF Placed
<1> QED
  BY <1>1 DEF HostInv, TypeOK, Values, AllGood, Good, Files

\* A call somebody else's write meets is no longer followed.
LEMMA DisturbedSame ==
  ASSUME NEW r \in Runs, NEW op \in Ops
  PROVE  /\ r.pc = "done" => Disturbed(r, op).pc = "idle"
         /\ r.pc # "done" => /\ Disturbed(r, op).op = r.op
                             /\ Disturbed(r, op).pc = r.pc
                             /\ op \notin Web /\ "web" \notin r.disturbed =>
                                  "web" \notin Disturbed(r, op).disturbed
BY DEF Disturbed, Runs, Idle

LEMMA DisturbedOK ==
  ASSUME NEW r \in Runs, Placed(r), NEW op \in Ops, NEW f, NEW rd, NEW k
  PROVE  Good(Disturbed(r, op), f, rd, k)
<1>1. CASE r.pc = "done"
  BY <1>1, IdleOK DEF Disturbed, Good
<1>2. CASE r.pc # "done"
  <2> DEFINE s == [r EXCEPT !.began = Default,
                            !.disturbed = @ \union {IF op \in Web THEN "web" ELSE "other"}]
  <2>1. s = Disturbed(r, op) /\ s \in Runs
    BY <1>2, DefaultOK DEF Disturbed, Runs
  <2>2. /\ s.op = r.op /\ s.want = r.want /\ s.edit = r.edit
        /\ s.phase = r.phase /\ s.previous = r.previous /\ s.at = r.at /\ s.cfg = r.cfg
        /\ s.pc = r.pc /\ s.filling = r.filling
        /\ s.disturbed = r.disturbed \union {IF op \in Web THEN "web" ELSE "other"}
    BY DEF Runs
  <2>3. Placed(s)
    BY <1>2, <2>2 DEF Placed
  <2>4. Tracking(s, f, rd, k)
    BY <2>2 DEF Tracking, Untouched
  <2> QED
    BY <2>1, <2>3, <2>4 DEF Good
<1> QED
  BY <1>1, <1>2

\* A call at work goes on as a record that follows, and tells the others if it has written.
LEMMA Goes ==
  ASSUME HostInv, NEW p \in Procs, Running(p), run[p].pc # "wait",
         NEW s, Good(s, file', rendered', kernel'), Follows(run[p], s), Values',
         \/ Becomes(p, s) /\ UNCHANGED <<file, rendered, kernel>>
         \/ Writes(p, s)
  PROVE  HostInv'
<1>1. Values /\ AllGood /\ Exclusive
  BY DEF HostInv
<1>2. run[p].op \in Ops /\ \A q \in Procs : run[q] \in Runs /\ Placed(run[q])
  BY <1>1 DEF AllGood, Good, Runs
<1>3. mutex' = IF s.pc \in {"done", "idle"} /\ mutex = p THEN Nobody ELSE mutex
  BY DEF Becomes, Writes, Release
<1>4. /\ run'[p] = s
      /\ \A q \in Procs \ {p} : \/ run'[q] = run[q] /\ UNCHANGED <<file, rendered, kernel>>
                                \/ run'[q] = Disturbed(run[q], run[p].op)
      /\ DOMAIN run' = Procs /\ run' = [q \in Procs |-> run'[q]]
  BY <1>1 DEF Becomes, Writes, AllGood
<1>5. AllGood'
  <2>1. ASSUME NEW q \in Procs PROVE Good(run'[q], file', rendered', kernel')
    BY <1>1, <1>2, <1>4, DisturbedOK DEF AllGood
  <2> QED
    BY <1>4, <2>1 DEF AllGood, Good, Tracking, Tracks, Placed, Kept, Found, Aim, Loaded, Untouched
<1>6. ASSUME NEW q \in Procs \ {p}
      PROVE  \/ run[q].pc \in {"idle", "done"} /\ run'[q].pc \in {"idle", "done"}
             \/ /\ run[q].pc # "done" /\ run'[q].op = run[q].op /\ run'[q].pc = run[q].pc
                /\ run[p].op \notin Web /\ "web" \notin run[q].disturbed => "web" \notin run'[q].disturbed
  <2>1. CASE run'[q] = run[q]
    BY <2>1
  <2>2. CASE run'[q] = Disturbed(run[q], run[p].op)
    BY <1>2, <2>2, DisturbedSame
  <2> QED
    BY <1>4, <2>1, <2>2
<1>7. Exclusive'
  <2>1. Nobody \notin Procs /\ mutex \in Procs \union {Nobody}
    BY <1>1, HostProxyAssumption DEF Values
  <2>2. CASE run[p].op \in Web
    <3>1. mutex = p
      BY <1>1, <2>2 DEF Exclusive
    <3>2. ASSUME NEW q \in Procs \ {p}
          PROVE  ~(run'[q].pc \notin {"idle", "done", "wait"} /\ run'[q].op \in Web)
      BY <1>1, <1>6, <3>1 DEF Exclusive, Running
    <3>3. "web" \notin run[p].disturbed
      BY <1>1, <2>2 DEF Exclusive
    <3>4. CASE s.pc \in {"idle", "done"}
      <4>1. mutex' = Nobody /\ run'[p].pc \in {"idle", "done"}
        BY <1>3, <1>4, <3>1, <3>4
      <4> QED
        BY <3>2, <4>1 DEF Exclusive, Running
    <3>5. CASE s.pc \notin {"idle", "done"}
      <4>1. mutex' = p /\ s.op = run[p].op /\ s.disturbed = run[p].disturbed /\ s.pc # "wait"
        BY <1>3, <3>1, <3>5 DEF Follows
      <4> QED
        BY <1>4, <2>2, <3>2, <3>3, <3>5, <4>1 DEF Exclusive, Running
    <3> QED
      BY <3>4, <3>5
  <2>3. CASE run[p].op \notin Web
    <3>1. mutex # p
      BY <1>1, <2>1, <2>3 DEF Exclusive
    <3>2. mutex' = mutex
      BY <1>3, <3>1
    <3>3. run'[p].pc \in {"idle", "done"} \/ run'[p].op \notin Web
      BY <1>4, <2>3 DEF Follows
    <3>4. mutex # Nobody =>
            mutex \in Procs \ {p} /\ run[mutex].op \in Web /\ run[mutex].pc \notin {"idle", "done", "wait"}
      BY <1>1, <2>1, <3>1 DEF Exclusive, Running
    <3>5. mutex' # Nobody => run'[mutex'].op \in Web /\ run'[mutex'].pc \notin {"idle", "done", "wait"}
      BY <1>6, <3>2, <3>4
    <3>6. ASSUME NEW q \in Procs, run'[q].pc \notin {"idle", "done", "wait"}, run'[q].op \in Web
          PROVE  mutex' = q /\ "web" \notin run'[q].disturbed
      <4>1. q # p
        BY <3>3, <3>6
      <4>2. run[q].op \in Web /\ run[q].pc \notin {"idle", "done", "wait"}
        BY <1>6, <3>6, <4>1
      <4>3. mutex = q /\ "web" \notin run[q].disturbed
        BY <1>1, <4>2 DEF Exclusive, Running
      <4> QED
        BY <1>6, <2>3, <3>2, <3>6, <4>1, <4>3
    <3> QED
      BY <3>5, <3>6 DEF Exclusive, Running
  <2> QED
    BY <2>2, <2>3
<1> QED
  BY <1>5, <1>7 DEF HostInv

LEMMA BeginOK ==
  ASSUME HostInv, NEW p \in Procs, NEW op \in Ops, NEW in \in Inputs(op), Begin(p, op, in[1], in[2])
  PROVE  HostInv'
<1> DEFINE s == [Idle EXCEPT !.op = op, !.want = in[1], !.edit = in[2],
                             !.pc = IF op \in Web THEN "wait" ELSE "load",
                             !.phase = IF op = "form" THEN "form" ELSE "ask",
                             !.began = IF op \in Web THEN Default ELSE Loaded(file)]
<1>1. Values /\ AllGood /\ Exclusive
  BY DEF HostInv
<1>2. in[1] \in BOOLEAN /\ in[2] \in Doc /\ (op = "wizard" => in[2].secret)
  <2>1. CASE op = "raw"
    BY <2>1, DocumentsAssumption DEF Inputs
  <2>2. CASE op = "wizard"
    <3>1. \A d \in Edits : Loaded(d) \in Cfg
      BY DocumentsAssumption, LoadedOK DEF Files
    <3>2. in[1] = FALSE /\ \E d \in Edits : in[2] = Loaded(d)
      BY <2>2 DEF Inputs
    <3> QED
      BY <3>1, <3>2, CfgOK
  <2>3. CASE op = "form"
    <3>1. \A x \in Rests : [Default EXCEPT !.rest = x] \in Doc
      BY DefaultOK DEF Doc, Cfg
    <3>2. in[1] \in BOOLEAN /\ \E x \in Rests : in[2] = [Default EXCEPT !.rest = x]
      BY <2>3 DEF Inputs
    <3> QED
      BY <2>3, <3>1, <3>2
  <2>4. CASE op \in {"switch", "look", "page"}
    BY <2>4, DefaultOK DEF Inputs
  <2> QED
    BY <2>1, <2>2, <2>3, <2>4 DEF Ops
<1>3. Loaded(file) \in Cfg /\ (file \notin NoDocument =>
         file \in Doc /\ Settings(file) = Settings(Loaded(file)) /\ file.output = Loaded(file).output)
  BY <1>1, LoadedOK DEF Values
<1>4. /\ s.op = op /\ s.want = in[1] /\ s.edit = in[2] /\ s.at = "decide" /\ s.filling = FALSE
      /\ s.pc = (IF op \in Web THEN "wait" ELSE "load")
      /\ s.phase = (IF op = "form" THEN "form" ELSE "ask")
      /\ s.began = (IF op \in Web THEN Default ELSE Loaded(file))
      /\ s.disturbed = {} /\ s.end = "none" /\ s.cfg = Default /\ s.previous = Default
  BY DEF Idle
<1>5. s \in Runs
  BY ZenonT(60), <1>2, <1>3, DefaultOK DEF Idle, Runs
<1>6. Placed(s)
  BY <1>2, <1>4 DEF Placed, Web
<1>7. ASSUME Untouched(s), s.pc # "wait" PROVE Tracks(s, file, rendered, kernel)
  <2>1. s.pc = "load" /\ s.began = Loaded(file) /\ op \in {"switch", "look"} /\ s.phase = "ask"
    BY <1>4, <1>7 DEF Untouched, Ops, Web
  <2>2. Aim(s) = s.began
    BY <1>4, <2>1 DEF Aim, Found
  <2>3. Kept(s, file)
    BY <1>3, <1>4, <2>1 DEF Kept
  <2> QED
    BY <1>4, <2>1, <2>2, <2>3 DEF Tracks
<1>8. Good(s, file, rendered, kernel)
  BY <1>5, <1>6, <1>7 DEF Good, Tracking
<1>9. /\ run' = [run EXCEPT ![p] = s] /\ run[p].pc \in {"idle", "done"}
      /\ mutex' = IF s.pc \in {"done", "idle"} /\ mutex = p THEN Nobody ELSE mutex
      /\ UNCHANGED <<file, rendered, kernel, hasNodes, faults>> /\ calls < MaxCalls /\ calls' = calls + 1
  BY DEF Begin, Becomes, Release, Running
<1>10. mutex' = mutex /\ mutex # p
  BY <1>1, <1>4, <1>9, HostProxyAssumption DEF Exclusive, Running
<1>11. Values'
  BY <1>1, <1>9, <1>10, HostProxyAssumption DEF Values
<1>12. AllGood'
  BY <1>1, <1>8, <1>9 DEF AllGood
<1>13. Exclusive'
  <2>1. s.pc = "wait" \/ s.op \notin Web
    BY <1>4
  <2>2. \A q \in Procs \ {p} : run'[q] = run[q]
    BY <1>1, <1>9 DEF AllGood
  <2>3. run'[p] = s
    BY <1>1, <1>9 DEF AllGood
  <2> QED
    BY <1>1, <1>10, <2>1, <2>2, <2>3 DEF Exclusive, Running, Values
<1> QED
  BY <1>11, <1>12, <1>13 DEF HostInv

\* The request that gets the mutex starts from the file as it is now.
LEMMA LockOK ==
  ASSUME HostInv, NEW p \in Procs, Lock(p)
  PROVE  HostInv'
<1> DEFINE r == run[p]
           s == [r EXCEPT !.pc = IF r.op = "raw" THEN "decide" ELSE "load",
                          !.began = Loaded(file), !.disturbed = {}]
<1>1. Values /\ AllGood /\ Exclusive
  BY DEF HostInv
<1>2. r \in Runs /\ Placed(r) /\ r.pc = "wait" /\ mutex = Nobody
  BY <1>1 DEF AllGood, Good, Lock
<1>3. Loaded(file) \in Cfg /\ (file \notin NoDocument =>
         file \in Doc /\ Settings(file) = Settings(Loaded(file)) /\ file.output = Loaded(file).output)
  BY <1>1, LoadedOK DEF Values
<1>4. s \in Runs
  BY <1>2, <1>3 DEF Runs
<1>5. /\ s.op = r.op /\ s.want = r.want /\ s.edit = r.edit /\ s.at = r.at /\ s.filling = r.filling
      /\ s.pc = (IF r.op = "raw" THEN "decide" ELSE "load") /\ s.phase = r.phase
      /\ s.began = Loaded(file) /\ s.disturbed = {}
  BY <1>2 DEF Runs
<1>6. Placed(s)
  BY <1>2, <1>5 DEF Placed
<1>7. ASSUME Untouched(s) PROVE Tracks(s, file, rendered, kernel)
  <2>1. /\ s.pc = "load" /\ s.op \in {"form", "page"} /\ s.at = "decide"
        /\ s.phase = IF s.op = "form" THEN "form" ELSE "ask"
    BY <1>2, <1>5, <1>7 DEF Untouched, Placed, Web
  <2>2. Aim(s) = s.began
    BY <2>1 DEF Aim, Found
  <2>3. Kept(s, file)
    BY <1>3, <1>5, <2>1 DEF Kept, Settings
  <2> HIDE DEF s, r
  <2> QED
    BY <1>5, <2>1, <2>2, <2>3 DEF Tracks
<1>8. Good(s, file, rendered, kernel)
  BY <1>4, <1>6, <1>7 DEF Good, Tracking
<1>9. /\ run' = [run EXCEPT ![p] = s] /\ mutex' = p
      /\ UNCHANGED <<file, rendered, kernel, hasNodes, calls, faults>>
  <2>1. run' = [run EXCEPT ![p] = s]
    BY DEF Lock
  <2> QED
    BY <2>1 DEF Lock
<1>10. Values' /\ AllGood'
  BY <1>1, <1>8, <1>9 DEF Values, AllGood
<1>11. Exclusive'
  <2>1. run'[p] = s /\ \A q \in Procs \ {p} : run'[q] = run[q]
    BY <1>1, <1>9 DEF AllGood
  <2>2. \A q \in Procs : ~(Running(q) /\ run[q].pc # "wait" /\ run[q].op \in Web)
    BY <1>1, <1>2, HostProxyAssumption DEF Exclusive
  <2>3. s.op \in Web /\ s.pc \notin {"idle", "done", "wait"} /\ "web" \notin s.disturbed
    BY <1>2, <1>5 DEF Placed
  <2> QED
    BY <1>9, <2>1, <2>2, <2>3 DEF Exclusive, Running
<1> QED
  BY <1>10, <1>11 DEF HostInv

LEMMA CrashOK ==
  ASSUME HostInv, NEW p \in Procs, Crash(p)
  PROVE  HostInv'
<1> DEFINE dies(q) == q = p \/ (Running(q) /\ {run[p].op, run[q].op} \subseteq Web)
<1>1. Values /\ AllGood /\ Exclusive
  BY DEF HostInv
<1>2. /\ run' = [q \in Procs |-> IF dies(q) THEN Idle ELSE run[q]]
      /\ mutex' = IF mutex # Nobody /\ dies(mutex) THEN Nobody ELSE mutex
      /\ UNCHANGED <<file, rendered, kernel, hasNodes, calls>>
      /\ faults < MaxFaults /\ faults' = faults + 1 /\ Running(p)
  BY DEF Crash, Fault
<1>3. Values'
  BY <1>1, <1>2, HostProxyAssumption DEF Values
<1>4. AllGood'
  BY <1>1, <1>2, IdleOK DEF AllGood, Good
<1>5. Exclusive'
  <2>1. Idle.pc = "idle"
    BY DEF Idle
  <2>2. \A q \in Procs : IF dies(q) THEN run'[q].pc = "idle" ELSE run'[q] = run[q]
    BY <1>2, <2>1
  <2>3. mutex # Nobody => mutex \in Procs /\ Running(mutex)
    BY <1>1 DEF Exclusive, Values
  <2>4. mutex' # Nobody => mutex' = mutex /\ mutex \in Procs /\ ~dies(mutex)
    BY <1>2, <2>3
  <2>5. ASSUME NEW q \in Procs, run'[q].pc \notin {"idle", "done", "wait"}, run'[q].op \in Web
        PROVE  mutex' = q /\ "web" \notin run'[q].disturbed
    <3>1. ~dies(q) /\ run'[q] = run[q]
      BY <2>2, <2>5
    <3>2. mutex = q /\ "web" \notin run[q].disturbed
      BY <1>1, <2>5, <3>1 DEF Exclusive, Running
    <3> QED
      BY <1>2, <3>1, <3>2
  <2> HIDE DEF dies
  <2> QED
    BY <1>1, <2>2, <2>4, <2>5 DEF Exclusive, Running
<1> QED
  BY <1>3, <1>4, <1>5 DEF HostInv
-----------------------------------------------------------------------------
(* Every step keeps the invariant *)

LEMMA SettingsOK ==
  ASSUME NEW d \in Doc
  PROVE  /\ Settings(d) \in [base: BOOLEAN, rest: Rests]
         /\ Programmed(d) \in [output: BOOLEAN, base: BOOLEAN, rest: Rests] \union {Cleared}
BY DEF Doc, Settings, Programmed

LEMMA InitOK == Init => HostInv
<1> SUFFICES ASSUME Init PROVE HostInv
  OBVIOUS
<1>1. file \in Files /\ rendered \in [base: BOOLEAN, rest: Rests] \union {Absent, Partial}
      /\ kernel \in [output: BOOLEAN, base: BOOLEAN, rest: Rests] \union {Cleared, Partial}
  <2>1. CASE file \in {Loaded(d) : d \in Edits} /\ rendered = Settings(file)
             /\ kernel = Programmed(file)
    <3>1. PICK d \in Edits : file = Loaded(d)
      BY <2>1
    <3>2. d \in Files /\ file \in Doc
      BY <3>1, DocumentsAssumption, LoadedOK, DefaultOK DEF Files
    <3> QED
      BY <2>1, <3>2, SettingsOK DEF Files
  <2>2. CASE file = Absent /\ rendered = Absent /\ kernel = Cleared
    BY <2>2 DEF Files, NoDocument
  <2> QED
    BY <2>1, <2>2 DEF Init
<1>2. Values
  BY <1>1, HostProxyAssumption DEF Values, Init
<1>3. /\ mutex = Nobody /\ run = [p \in Procs |-> Idle] /\ Idle.pc = "idle"
  BY DEF Init, Idle
<1>4. AllGood
  BY <1>3, IdleOK DEF AllGood, Good
<1>5. Exclusive
  BY <1>3 DEF Exclusive, Running
<1> QED
  BY <1>2, <1>4, <1>5 DEF HostInv

\* What the invariant says of a call that works.
LEMMA AtWork ==
  ASSUME HostInv, NEW p \in Procs
  PROVE  /\ Good(run[p], file, rendered, kernel) /\ Values
         /\ run[p].cfg \in Cfg /\ run[p].cfg \in Doc /\ run[p].op \in Ops
         /\ run[p].phase \in {"form", "ask", "edit", "persist", "rollback"}
BY CfgOK DEF HostInv, AllGood, Good, Runs

LEMMA RefuseStep ==
  ASSUME HostInv, NEW p \in Procs, Refuse(p)
  PROVE  HostInv'
<1>1. Good(Ended(run[p], "refused"), file, rendered, kernel) /\ Follows(run[p], Ended(run[p], "refused"))
  BY AtWork, RefusedOK DEF Refuse, Values
<1>2. /\ Becomes(p, Ended(run[p], "refused")) /\ run[p].pc \in {"load", "decide"}
      /\ UNCHANGED <<file, rendered, kernel, hasNodes, calls, faults>>
  BY DEF Refuse
<1>3. Values'
  BY <1>2, AtWork DEF Values, Becomes, Release
<1> QED
  BY <1>1, <1>2, <1>3, Goes DEF Running

LEMMA LoadStep ==
  ASSUME HostInv, NEW p \in Procs, Load(p)
  PROVE  HostInv'
<1> DEFINE s == [run[p] EXCEPT !.cfg = Loaded(file), !.filling = (file = Absent),
                               !.pc = IF file = Absent THEN "cut" ELSE "probe"]
<1>1. /\ run[p].pc = "load" /\ UNCHANGED <<file, rendered, kernel, hasNodes, calls, faults>>
      /\ Good(run[p], file, rendered, kernel) /\ file \in Files
  BY AtWork DEF Load, Values
<1>2. CASE file = Garbled /\ Becomes(p, Failed(run[p]))
  <2>1. Good(Failed(run[p]), file, rendered, kernel) /\ Follows(run[p], Failed(run[p]))
    BY <1>1, FailedOK
  <2>2. Values'
    BY <1>1, <1>2, AtWork DEF Values, Becomes, Release
  <2> QED
    BY <1>1, <1>2, <2>1, <2>2, Goes DEF Running
<1>3. CASE file # Garbled /\ Becomes(p, s)
  <2>1. Good(s, file, rendered, kernel) /\ Follows(run[p], s)
    BY <1>1, <1>3, LoadOK
  <2>2. Values'
    BY <1>1, <1>3, AtWork DEF Values, Becomes, Release
  <2> QED
    BY <1>1, <1>3, <2>1, <2>2, Goes DEF Running
<1> QED
  BY <1>2, <1>3 DEF Load

LEMMA ProbeStep ==
  ASSUME HostInv, NEW p \in Procs, Probe(p)
  PROVE  HostInv'
<1> PICK unsealed \in BOOLEAN :
      /\ file # Garbled => unsealed = Unsealed(file)
      /\ Becomes(p, [run[p] EXCEPT !.filling = unsealed,
                                   !.pc = IF unsealed THEN "cut" ELSE run[p].at])
  BY DEF Probe
<1> DEFINE s == [run[p] EXCEPT !.filling = unsealed,
                               !.pc = IF unsealed THEN "cut" ELSE run[p].at]
<1>1. /\ Becomes(p, s) /\ run[p].pc = "probe"
      /\ UNCHANGED <<file, rendered, kernel, hasNodes, calls, faults>>
  BY DEF Probe
<1>2. Good(s, file, rendered, kernel) /\ Follows(run[p], s)
  BY <1>1, AtWork, ProbeOK DEF Values
<1>3. Values'
  BY <1>1, AtWork DEF Values, Becomes, Release
<1> QED
  BY <1>1, <1>2, <1>3, Goes DEF Running

LEMMA CutStep ==
  ASSUME HostInv, NEW p \in Procs, Cut(p)
  PROVE  HostInv'
<1> DEFINE s == [run[p] EXCEPT !.pc = "write"]
<1>1. /\ Writes(p, s) /\ run[p].pc = "cut" /\ file' = Blank
      /\ UNCHANGED <<rendered, kernel, hasNodes, calls, faults>>
  BY DEF Cut
<1>2. Good(s, Blank, rendered, kernel) /\ Follows(run[p], s)
  BY <1>1, AtWork, CutOK DEF Values
<1>3. Values'
  BY <1>1, AtWork DEF Values, Writes, Release, Files, NoDocument
<1> QED
  BY <1>1, <1>2, <1>3, Goes DEF Running

LEMMA DecideStep ==
  ASSUME HostInv, NEW p \in Procs, Decide(p)
  PROVE  HostInv'
<1> DEFINE r == run[p]
<1>1. /\ r.pc = "decide" /\ UNCHANGED <<file, rendered, kernel, hasNodes, calls, faults>>
      /\ Good(r, file, rendered, kernel) /\ file \in Files /\ r.op \in Ops
  BY AtWork DEF Decide, Values
<1>2. PICK s : Becomes(p, s) /\ Good(s, file, rendered, kernel) /\ Follows(r, s)
  <2>1. Placed(r) /\ r.phase \in {"form", "ask"}
    BY <1>1 DEF Good, Placed
  <2>2. CASE r.phase = "form"
    <3>1. Becomes(p, SaveForm(r))
      BY <2>1, <2>2 DEF Decide, Placed
    <3> QED
      BY <1>1, <2>2, <3>1, SaveFormOK
  <2>3. CASE r.phase = "ask" /\ r.op = "raw"
    <3>1. Becomes(p, [r EXCEPT !.phase = "edit", !.pc = "cut"])
      BY <2>3 DEF Decide
    <3> QED
      BY <1>1, <2>3, <3>1, SaveEditOK
  <2>4. CASE r.phase = "ask" /\ r.op = "wizard"
    <3>1. Becomes(p, [r EXCEPT !.pc = "prompt"])
      BY <2>4 DEF Decide
    <3> QED
      BY <1>1, <2>4, <3>1, SaveEditOK
  <2>5. CASE r.phase = "ask" /\ r.op \in {"look", "page"}
    <3>1. Becomes(p, Ended(r, "shown"))
      BY <2>5 DEF Decide
    <3> QED
      BY <1>1, <2>5, <3>1, RefusedOK
  <2>6. CASE r.phase = "ask" /\ r.op \in {"switch", "form"}
    <3>1. Becomes(p, DecideSwitch(r))
      BY <2>6 DEF Decide
    <3> QED
      BY <1>1, <2>6, <3>1, DecideSwitchOK
  <2> QED
    BY <1>1, <2>1, <2>2, <2>3, <2>4, <2>5, <2>6 DEF Ops
<1>3. Values'
  BY <1>1, <1>2, AtWork DEF Values, Becomes, Release
<1> QED
  BY <1>1, <1>2, <1>3, Goes DEF Running

LEMMA AnswerStep ==
  ASSUME HostInv, NEW p \in Procs, Answer(p)
  PROVE  HostInv'
<1> DEFINE r == run[p]
<1>1. /\ r.pc = "prompt" /\ UNCHANGED <<file, rendered, kernel, hasNodes, calls, faults>>
      /\ Good(r, file, rendered, kernel) /\ file \in Files
  BY AtWork DEF Answer, Values
<1>2. r.phase = "ask" /\ r.op \in {"switch", "wizard"}
  BY <1>1 DEF Good, Placed
<1>3. PICK s : Becomes(p, s) /\ Good(s, file, rendered, kernel) /\ Follows(r, s)
  <2>1. CASE r.op = "wizard"
    <3>1. Becomes(p, [r EXCEPT !.phase = "edit", !.pc = "cut", !.cfg = r.edit])
      BY <2>1 DEF Answer
    <3>2. [r EXCEPT !.phase = "edit", !.pc = "cut", !.cfg = r.edit] # [r EXCEPT !.pc = "prompt"]
      BY <1>1, <1>2 DEF Good, Runs
    <3> QED
      BY <1>1, <2>1, <3>1, <3>2, SaveEditOK
  <2>2. CASE r.op = "switch" /\ Becomes(p, Ended(r, "cancelled"))
    BY <1>1, <1>2, <2>2, RefusedOK
  <2>3. CASE r.op = "switch" /\ Becomes(p, Persist(r))
    BY <1>1, <1>2, <2>3, PersistOK
  <2> QED
    BY <1>2, <2>1, <2>2, <2>3 DEF Answer
<1>4. Values'
  BY <1>1, <1>3, AtWork DEF Values, Becomes, Release
<1> QED
  BY <1>1, <1>3, <1>4, Goes DEF Running

LEMMA WriteStep ==
  ASSUME HostInv, NEW p \in Procs, Write(p)
  PROVE  HostInv'
<1>1. /\ run[p].pc = "write" /\ Writes(p, AfterSave(run[p]))
      /\ file' \in WrittenOver(file, IF run[p].op = "raw" THEN run[p].edit ELSE run[p].cfg,
                               run[p].op = "raw")
      /\ UNCHANGED <<rendered, kernel, hasNodes, calls, faults>>
  BY DEF Write
<1>2. file' \in Files /\ Good(AfterSave(run[p]), file', rendered, kernel)
      /\ Follows(run[p], AfterSave(run[p]))
  <2>1. Good(run[p], file, rendered, kernel) /\ file \in Files
    BY AtWork DEF Values
  <2>2. run[p].edit \in Doc /\ run[p].cfg \in Doc
    BY <2>1, CfgOK DEF Good, Runs
  <2>3. file' \in Files /\ (file = Blank /\ run[p].op # "raw" => file' = run[p].cfg)
    <3>1. CASE run[p].op = "raw"
      <4>1. file' \in WrittenOver(file, run[p].edit, TRUE)
        BY <1>1, <3>1
      <4> QED
        BY <2>1, <2>2, <3>1, <4>1, WrittenOverOK
    <3>2. CASE run[p].op # "raw"
      <4>1. file' \in WrittenOver(file, run[p].cfg, FALSE)
        BY <1>1, <3>2
      <4> QED
        BY <2>1, <2>2, <3>2, <4>1, WrittenOverOK
    <3> QED
      BY <3>1, <3>2
  <2> QED
    BY <1>1, <2>1, <2>3, WriteOK
<1>3. Values'
  BY <1>1, <1>2, AtWork DEF Values, Writes, Release
<1> QED
  BY <1>1, <1>2, <1>3, Goes DEF Running

LEMMA RenderStep ==
  ASSUME HostInv, NEW p \in Procs, Render(p)
  PROVE  HostInv'
<1> DEFINE s == [run[p] EXCEPT !.pc = "load", !.at = "apply"]
<1>1. /\ Writes(p, s) /\ run[p].pc = "render" /\ rendered' = Settings(run[p].cfg)
      /\ UNCHANGED <<file, kernel, hasNodes, calls, faults>>
  BY DEF Render
<1>2. Good(s, file, rendered', kernel) /\ Follows(run[p], s)
  BY <1>1, AtWork, RenderOK DEF Values
<1>3. Values'
  BY <1>1, AtWork, SettingsOK DEF Values, Writes, Release
<1> QED
  BY <1>1, <1>2, <1>3, Goes DEF Running

LEMMA ApplyRulesStep ==
  ASSUME HostInv, NEW p \in Procs, ApplyRules(p)
  PROVE  HostInv'
<1> DEFINE r == run[p]
<1>1. /\ r.pc = "apply" /\ UNCHANGED <<file, rendered, hasNodes, calls, faults>>
      /\ Good(r, file, rendered, kernel) /\ file \in Files
  BY AtWork DEF ApplyRules, Values
<1>2. CASE /\ kernel' = Programmed(r.cfg)
           /\ Writes(p, Ended(r, IF r.phase = "persist" THEN "changed" ELSE "restored"))
  <2>1. Values'
    BY <1>1, <1>2, AtWork, SettingsOK DEF Values, Writes, Release
  <2> QED
    BY <1>1, <1>2, <2>1, AppliedOK, Goes DEF Running
<1>3. CASE Becomes(p, Failed(r)) /\ UNCHANGED kernel
  <2>1. Values'
    BY <1>1, <1>3, AtWork DEF Values, Becomes, Release
  <2> QED
    BY <1>1, <1>3, <2>1, FailedOK, Goes DEF Running
<1> QED
  BY <1>2, <1>3 DEF ApplyRules

LEMMA StepFailsStep ==
  ASSUME HostInv, NEW p \in Procs, StepFails(p)
  PROVE  HostInv'
<1> DEFINE r == run[p]
<1>1. /\ r.pc \in {"cut", "write", "render", "apply", "load"}
      /\ UNCHANGED <<file, hasNodes, calls>> /\ faults < MaxFaults /\ faults' = faults + 1
      /\ Good(r, file, rendered, kernel) /\ file \in Files
  BY AtWork DEF StepFails, Fault, Values
<1>2. \/ Becomes(p, Failed(r)) /\ UNCHANGED <<rendered, kernel>>
      \/ Writes(p, Failed(r)) /\ rendered' \in {rendered, Partial} /\ kernel' \in {kernel, Partial}
  BY DEF StepFails
<1>3. Good(Failed(r), file, rendered', kernel') /\ Follows(r, Failed(r))
  BY <1>1, FailedOK
<1>4. mutex' \in {mutex, Nobody}
  BY <1>2 DEF Becomes, Writes, Release
<1>5. faults' \in 0..MaxFaults
  BY <1>1, AtWork, HostProxyAssumption DEF Values
<1>6. Values'
  BY <1>1, <1>2, <1>4, <1>5, AtWork DEF Values
<1> QED
  BY <1>1, <1>2, <1>3, <1>6, Goes DEF Running

LEMMA NextOK == HostInv /\ [Next]_vars => HostInv'
<1> SUFFICES ASSUME HostInv, [Next]_vars PROVE HostInv'
  OBVIOUS
<1>1. ASSUME NEW p \in Procs, NEW op \in Ops, NEW in \in Inputs(op), Begin(p, op, in[1], in[2])
      PROVE  HostInv'
  BY <1>1, BeginOK
<1>2. ASSUME NEW p \in Procs,
             \/ Lock(p) \/ Refuse(p) \/ Load(p) \/ Probe(p) \/ Cut(p) \/ Write(p)
             \/ Decide(p) \/ Answer(p) \/ Render(p) \/ ApplyRules(p)
             \/ StepFails(p) \/ Crash(p)
      PROVE  HostInv'
  BY <1>2, LockOK, RefuseStep, LoadStep, ProbeStep, CutStep, WriteStep, DecideStep,
     AnswerStep, RenderStep, ApplyRulesStep, StepFailsStep, CrashOK
<1>3. CASE NodesChange
  <2>1. UNCHANGED <<file, rendered, kernel, mutex, run, faults>> /\ hasNodes' \in BOOLEAN
        /\ calls' = calls + 1 /\ calls < MaxCalls
    BY <1>3 DEF NodesChange, HostInv, Values
  <2>2. Values'
    BY <2>1, HostProxyAssumption DEF HostInv, Values
  <2> QED
    BY <2>1, <2>2 DEF HostInv, AllGood, Exclusive, Running
<1>4. CASE UNCHANGED vars
  <2>1. Values'
    BY <1>4 DEF vars, HostInv, Values
  <2> QED
    BY <1>4, <2>1 DEF vars, HostInv, AllGood, Exclusive, Running
<1> QED
  BY <1>1, <1>2, <1>3, <1>4 DEF Next
-----------------------------------------------------------------------------
(* The theorems *)

\* The inductive invariant holds in every state (all commands of host_proxy.go, the
\* configuration handlers of webui.go and ensureAll together).
THEOREM InvHolds == Spec => []HostInv
BY InitOK, NextOK, PTL DEF Spec

\* Every value stays of its type; only the switch and the form reach the transaction.
THEOREM TypeHolds == Spec => []TypeOK
BY InvHolds, InvTypeOK, PTL

\* A returned call that the properties look at was disturbed by nobody.
LEMMA AtReturn ==
  ASSUME HostInv, NEW p \in Procs, Alone(p)
  PROVE  /\ run[p] \in Runs /\ Placed(run[p]) /\ run[p].op \in Ops \ {"raw", "wizard"}
         /\ Tracks(run[p], file, rendered, kernel)
<1>1. Good(run[p], file, rendered, kernel) /\ run[p].pc = "done"
  BY AtWork DEF Alone
<1> QED
  BY <1>1, AtWork DEF Good, Placed, Tracking, Untouched

\* A change of the switch that setHostProxy or the web form reports as done has reached
\* the stored document, the runtime files and the kernel, if nobody wrote beside it.
THEOREM ChangeReachesAll == Spec => []ChangedMeansProgrammed
<1>1. HostInv => ChangedMeansProgrammed
  <2> SUFFICES ASSUME HostInv, NEW p \in Procs, Alone(p), run[p].end = "changed"
               PROVE  /\ Stored /\ file.output = run[p].want
                      /\ rendered = Settings(file) /\ kernel = Programmed(file)
    BY DEF ChangedMeansProgrammed
  <2>1. /\ run[p] \in Runs /\ run[p].phase = "persist" /\ file = Aim(run[p])
        /\ rendered = Settings(file) /\ kernel = Programmed(file)
    BY AtReturn DEF Alone, Placed, Tracks
  <2>2. file \in Cfg /\ file.output = run[p].want
    BY <2>1, AimOK
  <2> QED
    BY <2>1, <2>2, CfgOK DEF Stored
<1> QED
  BY <1>1, InvHolds, PTL

\* A change that rollbackHostProxy reports as undone has put back the document found, its
\* runtime files and its rules, whichever of the steps of the transaction failed.
THEOREM RollbackRestoresAll == Spec => []RestoredMeansPrevious
<1>1. HostInv => RestoredMeansPrevious
  <2> SUFFICES ASSUME HostInv, NEW p \in Procs, Alone(p), run[p].end = "restored"
               PROVE  LET r == run[p]
                      IN /\ file = IF r.op = "form" THEN [r.began EXCEPT !.rest = r.edit.rest] ELSE r.began
                         /\ rendered = Settings(file) /\ kernel = Programmed(file)
    BY DEF RestoredMeansPrevious
  <2>1. /\ run[p].phase = "rollback" /\ file = Aim(run[p])
        /\ rendered = Settings(file) /\ kernel = Programmed(file)
    BY AtReturn DEF Alone, Placed, Tracks
  <2> QED
    BY <2>1 DEF Aim, Found
<1> QED
  BY <1>1, InvHolds, PTL

\* However a command or a request ends, and whatever failed on its way, it has changed no
\* setting it was not asked to change, and left the switch alone unless it changed it or
\* its rollback failed.
THEOREM SettingsAreKept == Spec => []SettingsKept
<1>1. HostInv => SettingsKept
  <2> SUFFICES ASSUME HostInv, NEW p \in Procs, Alone(p), Stored
               PROVE  LET r == run[p]
                      IN /\ r.op \in {"switch", "look", "page"} => Settings(file) = Settings(r.began)
                         /\ r.op = "form" => file.base = r.began.base /\ file.rest \in {r.began.rest, r.edit.rest}
                         /\ r.end \notin {"changed", "stuck"} => file.output = r.began.output
    BY DEF SettingsKept
  <2>1. Kept(run[p], file) /\ file \notin NoDocument /\ Placed(run[p])
        /\ Tracks(run[p], file, rendered, kernel) /\ run[p] \in Runs
    BY AtReturn DEF Tracks, Stored
  <2>2. run[p].end = "restored" => file.output = run[p].began.output
    BY <2>1, AimOK DEF Alone, Placed, Tracks
  <2>3. run[p].end \notin {"changed", "stuck", "restored"} => run[p].phase \notin {"persist", "rollback"}
    BY <2>1 DEF Alone, Placed
  <2> QED
    BY <2>1, <2>2, <2>3 DEF Kept
<1> QED
  BY <1>1, InvHolds, PTL

\* One web request works at a time and is disturbed by no other one; the mutex belongs to
\* a request that works, so a request that ends or dies with the server has freed it.
THEOREM WebIsSerial == Spec => []WebRequestsSerialized
<1>1. HostInv => WebRequestsSerialized
  BY DEF HostInv, Exclusive, WebRequestsSerialized
<1> QED
  BY <1>1, InvHolds, PTL

=============================================================================
