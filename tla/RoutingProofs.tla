---------------------------- MODULE RoutingProofs ----------------------------
(***************************************************************************)
(* Proofs about Routing for any programs, configurations and faults.       *)
(*                                                                         *)
(* That types are kept, and that no built-in chain jumps to a chain that   *)
(* is gone, holds even if a check misses a rule.  The other two results    *)
(* need checks that tell the truth (~Misread): RoutingMisread shows what   *)
(* happens without.                                                        *)
(*                                                                         *)
(* A program that runs alone is at a place of its sequence of steps: the   *)
(* first k are done, and it may be about to delete a jump it has found or  *)
(* to add one it has not (Place).  What the first k steps make of the      *)
(* kernel, whatever they have found there, is SoFar(c, k).  RoutingInv is  *)
(* that this holds of every program that is alone, that a program is alone *)
(* only while no other runs (Solo), that programs which have not           *)
(* overlapped are alone (Serial), and the property itself, which a program *)
(* keeps by clearing the jumps before it touches a chain.  Once it has     *)
(* done all its steps, SoFar is what SuccessIsExact asks for.              *)
(***************************************************************************)
EXTENDS Routing, FilteringProofs
-----------------------------------------------------------------------------
(* The steps of the programs *)

LineSteps == {"append"} \X Chains \X Lines
JumpStep == {"jump"} \X JumpTargets
Steps ==
  ({"unjump", "delete", "addjump"} \X JumpTargets) \union JumpStep
  \union ({"flush", "destroy", "ensure"} \X Chains) \union LineSteps
  \union {<<"unrule">>, <<"unroute">>, <<"route">>, <<"rule">>}

\* Two programs, one after the other.
LEMMA InTurn ==
  ASSUME NEW T, NEW a \in Seq(T), NEW b \in Seq(T), NEW s, s = a \o b
  PROVE  /\ s \in Seq(T) /\ Len(s) = Len(a) + Len(b)
         /\ Len(a) \in Nat /\ Len(b) \in Nat
         /\ \A i \in 1..Len(a) : s[i] = a[i]
         /\ \A i \in 1..Len(b) : s[Len(a) + i] = b[i]
OBVIOUS

\* The elements of a sequence of a given length.
LEMMA Elements ==
  ASSUME NEW T, NEW n \in Nat, NEW s \in Seq(T), Len(s) = n
  PROVE  \A i \in 1..n : s[i] \in T
OBVIOUS

\* The names of the chains, written out.
LEMMA Named ==
  /\ Chains = {"PRE", "PRE_HANDLE", "OUT", "DNS", "DNS_HANDLE", "DNS_OUT"}
  /\ JumpTargets = {"PRE", "OUT", "DNS", "DNS_OUT"}
  /\ Len(Owned) = 5 /\ DOMAIN Owned = 1..5 /\ Len(Unjumped) = 4 /\ DOMAIN Unjumped = 1..4
  /\ Len(Cleared) = 6 /\ \A i \in 1..6 : Cleared[i] \in Chains
  /\ \A i \in 1..5 : Owned[i] \in Chains
  /\ \A i \in 1..4 : Unjumped[i] \in JumpTargets
<1> DEFINE Every == {"PRE", "PRE_HANDLE", "OUT", "DNS", "DNS_HANDLE", "DNS_OUT"}
<1>1. /\ Cleared \in Seq(Every) /\ Len(Cleared) = 6
      /\ \A i \in 1..5 : Cleared[i] = Owned[i]
      /\ Cleared[6] = "DNS_OUT"
  <2>1. Owned \in Seq(Every) /\ Len(Owned) = 5
    BY DEF Owned
  <2>2. <<Legacy>> \in Seq(Every) /\ Len(<<Legacy>>) = 1 /\ <<Legacy>>[1] = "DNS_OUT"
    BY DEF Legacy
  <2>3. Cleared = Owned \o <<Legacy>>
    BY DEF Cleared
  <2> DEFINE last == <<Legacy>>
  <2> HIDE DEF Every, last
  <2>4. /\ Cleared \in Seq(Every) /\ Len(Cleared) = Len(Owned) + Len(last)
        /\ \A i \in 1..Len(Owned) : Cleared[i] = Owned[i]
        /\ \A i \in 1..Len(last) : Cleared[Len(Owned) + i] = last[i]
    <3>1. Owned \in Seq(Every) /\ last \in Seq(Every) /\ Cleared = Owned \o last
      BY <2>1, <2>2, <2>3 DEF last
    <3> QED
      BY <3>1, InTurn
  <2>5. Len(last) = 1 /\ last[1] = "DNS_OUT"
    BY <2>2 DEF last
  <2>6. 1 \in 1..Len(last) /\ Len(Owned) + 1 = 6
    BY <2>1, <2>5
  <2> QED
    BY <2>1, <2>4, <2>5, <2>6
<1>2. /\ DOMAIN Cleared = 1..6
      /\ Cleared[1] = "PRE" /\ Cleared[2] = "PRE_HANDLE" /\ Cleared[3] = "OUT"
      /\ Cleared[4] = "DNS" /\ Cleared[5] = "DNS_HANDLE" /\ Cleared[6] = "DNS_OUT"
  BY <1>1 DEF Owned
<1>3. Chains = {"PRE", "PRE_HANDLE", "OUT", "DNS", "DNS_HANDLE", "DNS_OUT"}
  BY <1>2 DEF Chains
<1>4. /\ DOMAIN Unjumped = 1..4 /\ Len(Unjumped) = 4
      /\ Unjumped[1] = "PRE" /\ Unjumped[2] = "OUT" /\ Unjumped[3] = "DNS" /\ Unjumped[4] = "DNS_OUT"
  BY DEF Unjumped, Legacy
<1>5. JumpTargets = {"PRE", "OUT", "DNS", "DNS_OUT"}
  BY <1>4 DEF JumpTargets
<1>6. /\ Len(Owned) = 5 /\ DOMAIN Owned = 1..5
      /\ \A i \in 1..5 : Owned[i] \in Chains
  BY <1>3 DEF Owned
<1>7. \A i \in 1..4 : Unjumped[i] \in JumpTargets
  BY <1>4, <1>5
<1>8. \A i \in 1..6 : Cleared[i] \in Chains
  BY <1>2 DEF Chains
<1> QED
  BY <1>1, <1>3, <1>4, <1>5, <1>6, <1>7, <1>8

\* The operands of a step are those of its operation.
LEMMA StepForm ==
  ASSUME NEW s \in Steps
  PROVE  /\ s[1] \in {"unjump", "delete", "jump", "addjump"} =>
              s[2] \in JumpTargets /\ s = <<s[1], s[2]>>
         /\ s[1] \in {"flush", "destroy", "ensure"} => s[2] \in Chains
         /\ s[1] = "append" => s[2] \in Chains /\ s[3] \in Lines /\ s \in LineSteps
         /\ s[1] \in {"unrule", "unroute", "route", "rule"} => s = <<s[1]>>
BY DEF Steps, JumpStep, LineSteps

\* The body of the chains is a sequence of appends.
LEMMA BodyShape ==
  ASSUME NEW c \in Config
  PROVE  BodySteps(c) \in Seq(LineSteps)
<1> DEFINE a == <<<<"append", "PRE", "handle">>>>
           b == <<<<"append", "PRE", "return">>>>
           d == <<<<"append", "PRE_HANDLE", "dns">>>>
           e == <<<<"append", "PRE_HANDLE", "destinations">>, <<"append", "OUT", "destinations">>,
                  <<"append", "PRE_HANDLE", "sources">>, <<"append", "DNS_HANDLE", "sources">>,
                  <<"append", "PRE_HANDLE", "tproxy">>,
                  <<"append", "OUT", "exempt">>, <<"append", "OUT", "mark">>>>
           f == <<<<"append", "DNS", "dns_handle">>, <<"append", "DNS", "return">>,
                  <<"append", "DNS_HANDLE", "redirect">>>>
<1>1. /\ a \in Seq(LineSteps) /\ b \in Seq(LineSteps) /\ d \in Seq(LineSteps)
      /\ e \in Seq(LineSteps) /\ f \in Seq(LineSteps)
  <2>1. \A chain \in Chains, line \in Lines : <<"append", chain, line>> \in LineSteps
    BY DEF LineSteps
  <2> QED
    BY <2>1, Named DEF Lines
<1>2. /\ When(c.ingress, a) \in Seq(LineSteps) /\ When(c.dns, d) \in Seq(LineSteps)
      /\ When(c.dns, f) \in Seq(LineSteps)
  BY <1>1 DEF When
<1>3. BodySteps(c) = When(c.ingress, a) \o b \o When(c.dns, d) \o e \o When(c.dns, f)
  BY DEF BodySteps
<1> HIDE DEF a, b, d, e, f
<1> QED
  BY <1>1, <1>2, <1>3, InTurn

\* The chains that a configuration makes the kernel jump to.
LiveChains(c) ==
  {"PRE"} \union (IF c.dns THEN {"DNS"} ELSE {}) \union (IF c.output THEN {"OUT"} ELSE {})

\* The chains that the steps of a program name.
Targets(steps) == {steps[i][2] : i \in DOMAIN steps}

\* The targets of two sequences of jumps, one after the other.
LEMMA TargetsInTurn ==
  ASSUME NEW a \in Seq(JumpStep), NEW b \in Seq(JumpStep), NEW s, s = a \o b
  PROVE  Targets(s) = Targets(a) \union Targets(b)
<1>1. /\ s \in Seq(JumpStep) /\ Len(s) = Len(a) + Len(b) /\ Len(a) \in Nat /\ Len(b) \in Nat
      /\ \A i \in 1..Len(a) : s[i] = a[i]
      /\ \A i \in 1..Len(b) : s[Len(a) + i] = b[i]
  BY InTurn
<1>2. DOMAIN s = 1..Len(s) /\ DOMAIN a = 1..Len(a) /\ DOMAIN b = 1..Len(b)
  BY <1>1
<1>3. \A i \in 1..Len(s) : i \in 1..Len(a) \/ (i - Len(a) \in 1..Len(b) /\ i = Len(a) + (i - Len(a)))
  BY <1>1
<1>4. ASSUME NEW i \in 1..Len(s) PROVE s[i][2] \in Targets(a) \union Targets(b)
  <2>1. CASE i \in 1..Len(a)
    BY <1>1, <1>2, <2>1 DEF Targets
  <2>2. CASE i - Len(a) \in 1..Len(b)
    <3>1. s[i] = b[i - Len(a)]
      BY <1>1, <1>3, <2>2
    <3> QED
      BY <1>2, <2>2, <3>1 DEF Targets
  <2> QED
    BY <1>3, <2>1, <2>2
<1>5. \A i \in 1..Len(a) : i \in 1..Len(s)
  BY <1>1
<1>6. \A i \in 1..Len(b) : Len(a) + i \in 1..Len(s)
  BY <1>1
<1>7. \A i \in 1..Len(a) : a[i][2] \in Targets(s)
  <2>1. \A i \in 1..Len(a) : i \in DOMAIN s /\ a[i][2] = s[i][2]
    BY <1>1, <1>2, <1>5
  <2> QED
    BY <2>1 DEF Targets
<1>8. \A i \in 1..Len(b) : b[i][2] \in Targets(s)
  <2>1. \A i \in 1..Len(b) : Len(a) + i \in DOMAIN s /\ b[i][2] = s[Len(a) + i][2]
    BY <1>1, <1>2, <1>6
  <2> QED
    BY <2>1 DEF Targets
<1>9. Targets(s) \subseteq Targets(a) \union Targets(b)
  BY <1>2, <1>4 DEF Targets
<1>10. Targets(a) \union Targets(b) \subseteq Targets(s)
  BY <1>2, <1>7, <1>8 DEF Targets
<1> QED
  BY <1>9, <1>10

\* The jumps go to the chains that the configuration asks for.
LEMMA JumpShape ==
  ASSUME NEW c \in Config
  PROVE  /\ JumpSteps(c) \in Seq(JumpStep)
         /\ Targets(JumpSteps(c)) = LiveChains(c)
<1>1. ASSUME NEW t \in JumpTargets, NEW on \in BOOLEAN
      PROVE  /\ When(on, <<<<"jump", t>>>>) \in Seq(JumpStep)
             /\ Targets(When(on, <<<<"jump", t>>>>)) = IF on THEN {t} ELSE {}
             /\ <<<<"jump", t>>>> \in Seq(JumpStep)
             /\ Targets(<<<<"jump", t>>>>) = {t}
  <2> DEFINE one == <<<<"jump", t>>>>
  <2>1. one \in Seq(JumpStep) /\ <<>> \in Seq(JumpStep)
    BY DEF JumpStep
  <2>2. Targets(one) = {t}
    <3>1. DOMAIN one = {1} /\ one[1][2] = t
      OBVIOUS
    <3> QED
      BY <3>1 DEF Targets
  <2>3. Targets(<<>>) = {}
    BY DEF Targets
  <2> HIDE DEF one
  <2>4. /\ When(on, one) \in Seq(JumpStep)
        /\ Targets(When(on, one)) = IF on THEN {t} ELSE {}
    BY <2>1, <2>2, <2>3 DEF When
  <2> QED
    BY <2>1, <2>2, <2>4 DEF one
<1>2. c.dns \in BOOLEAN /\ c.output \in BOOLEAN
  BY DEF Config
<1> DEFINE a == When(c.dns, <<<<"jump", "DNS">>>>)
           b == <<<<"jump", "PRE">>>>
           d == When(c.output, <<<<"jump", "OUT">>>>)
<1>3. /\ a \in Seq(JumpStep) /\ Targets(a) = IF c.dns THEN {"DNS"} ELSE {}
      /\ b \in Seq(JumpStep) /\ Targets(b) = {"PRE"}
      /\ d \in Seq(JumpStep) /\ Targets(d) = IF c.output THEN {"OUT"} ELSE {}
  BY <1>1, <1>2, Named
<1>4. JumpSteps(c) = a \o b \o d
  BY DEF JumpSteps
<1> HIDE DEF a, b, d
<1>5. PICK ab : ab = a \o b
  OBVIOUS
<1>6. ab \in Seq(JumpStep) /\ Targets(ab) = Targets(a) \union Targets(b)
  <2>1. a \in Seq(JumpStep) /\ b \in Seq(JumpStep)
    BY <1>3
  <2>2. ab \in Seq(JumpStep)
    BY <1>5, <2>1, InTurn
  <2>3. Targets(ab) = Targets(a) \union Targets(b)
    BY <1>5, <2>1, TargetsInTurn
  <2> QED
    BY <2>2, <2>3
<1>7. JumpSteps(c) \in Seq(JumpStep) /\ Targets(JumpSteps(c)) = Targets(ab) \union Targets(d)
  <2>1. ab \in Seq(JumpStep) /\ d \in Seq(JumpStep) /\ JumpSteps(c) = ab \o d
    BY <1>3, <1>4, <1>5, <1>6
  <2>2. JumpSteps(c) \in Seq(JumpStep)
    BY <2>1, InTurn
  <2>3. Targets(JumpSteps(c)) = Targets(ab) \union Targets(d)
    BY <2>1, TargetsInTurn
  <2> QED
    BY <2>2, <2>3
<1> QED
  BY <1>3, <1>6, <1>7 DEF LiveChains

\* The steps of ClearRules, one by one.
LEMMA ClearShape ==
  /\ ClearProgram \in Seq(Steps) /\ Len(ClearProgram) = 18
  /\ \A i \in 1..4 : ClearProgram[i] = <<"unjump", Unjumped[i]>>
  /\ \A i \in 5..16 : ClearProgram[i] \in {"flush", "destroy"} \X Chains
  /\ ClearProgram[17] = <<"unrule">> /\ ClearProgram[18] = <<"unroute">>
<1> DEFINE a == Each("unjump", Unjumped)
           b == DropChains(Cleared)
           d == <<<<"unrule">>, <<"unroute">>>>
<1>1. /\ a \in Seq(Steps) /\ Len(a) = 4 /\ \A i \in 1..4 : a[i] = <<"unjump", Unjumped[i]>>
  BY Named DEF Each, Steps
<1>2. /\ b \in Seq({"flush", "destroy"} \X Chains) /\ Len(b) = 12
  <2>1. Len(Cleared) = 6 /\ \A i \in 1..6 : Cleared[i] \in Chains
    BY Named
  <2>2. \A i \in 1..12 : (i + 1) \div 2 \in 1..6 /\ 2 - (i % 2) \in 1..2
    OBVIOUS
  <2>3. \A chain \in Chains : \A n \in 1..2 : DropChain(chain)[n] \in {"flush", "destroy"} \X Chains
    BY DEF DropChain
  <2>4. b = [i \in 1..12 |-> DropChain(Cleared[(i + 1) \div 2])[2 - (i % 2)]]
    BY <2>1 DEF DropChains
  <2> HIDE DEF b
  <2> QED
    BY <2>1, <2>2, <2>3, <2>4
<1>3. b \in Seq(Steps) /\ \A i \in 1..12 : b[i] \in {"flush", "destroy"} \X Chains
  <2> HIDE DEF b
  <2>1. {"flush", "destroy"} \X Chains \subseteq Steps
    BY DEF Steps
  <2> DEFINE T == {"flush", "destroy"} \X Chains
  <2>2. b \in Seq(T) /\ Len(b) = 12 /\ T \subseteq Steps
    BY <1>2, <2>1
  <2> HIDE DEF T
  <2>3. b \in Seq(T) /\ T \subseteq Steps
    BY <2>2
  <2>4. b \in Seq(Steps)
    BY <2>3
  <2>5. \A i \in 1..12 : b[i] \in T
    BY <2>2, Elements
  <2> QED
    BY <2>4, <2>5 DEF T
<1>4. d \in Seq(Steps) /\ Len(d) = 2 /\ d[1] = <<"unrule">> /\ d[2] = <<"unroute">>
  BY DEF Steps
<1> DEFINE ab == a \o b
<1>5. ClearProgram = ab \o d
  BY DEF ClearProgram
<1> HIDE DEF a, b, d
<1>6. /\ ab \in Seq(Steps) /\ Len(ab) = 16
      /\ \A i \in 1..4 : ab[i] = a[i]
      /\ \A i \in 1..12 : ab[4 + i] = b[i]
  <2>1. a \in Seq(Steps) /\ b \in Seq(Steps) /\ ab = a \o b
    BY <1>1, <1>3
  <2> HIDE DEF ab
  <2>2. /\ ab \in Seq(Steps) /\ Len(ab) = Len(a) + Len(b)
        /\ \A i \in 1..Len(a) : ab[i] = a[i]
        /\ \A i \in 1..Len(b) : ab[Len(a) + i] = b[i]
    BY <2>1, InTurn
  <2> QED
    BY <1>1, <1>2, <2>2
<1> HIDE DEF ab
<1>7. /\ ClearProgram \in Seq(Steps) /\ Len(ClearProgram) = 18
      /\ \A i \in 1..16 : ClearProgram[i] = ab[i]
      /\ \A i \in 1..2 : ClearProgram[16 + i] = d[i]
  <2>1. ab \in Seq(Steps) /\ d \in Seq(Steps)
    BY <1>4, <1>6
  <2>2. /\ ClearProgram \in Seq(Steps) /\ Len(ClearProgram) = Len(ab) + Len(d)
        /\ \A i \in 1..Len(ab) : ClearProgram[i] = ab[i]
        /\ \A i \in 1..Len(d) : ClearProgram[Len(ab) + i] = d[i]
    BY <1>5, <2>1, InTurn
  <2> QED
    BY <1>4, <1>6, <2>2
<1>8. \A i \in 1..4 : ClearProgram[i] = <<"unjump", Unjumped[i]>>
  <2>1. \A i \in 1..4 : i \in 1..16
    OBVIOUS
  <2> QED
    BY <1>1, <1>6, <1>7, <2>1
<1>9. \A i \in 5..16 : ClearProgram[i] \in {"flush", "destroy"} \X Chains
  <2> SUFFICES ASSUME NEW i \in 5..16 PROVE ClearProgram[i] \in {"flush", "destroy"} \X Chains
    OBVIOUS
  <2>1. i - 4 \in 1..12 /\ 4 + (i - 4) = i /\ i \in 1..16
    OBVIOUS
  <2>2. ClearProgram[i] = b[i - 4]
    <3>1. PICK j \in 1..12 : j = i - 4 /\ 4 + j = i
      BY <2>1
    <3>2. ab[4 + j] = b[j]
      BY <1>6
    <3>3. ClearProgram[i] = ab[i]
      BY <1>7, <2>1
    <3> QED
      BY <3>1, <3>2, <3>3
  <2> QED
    BY <1>3, <2>1, <2>2
<1>10. ClearProgram[17] = <<"unrule">> /\ ClearProgram[18] = <<"unroute">>
  <2>1. 17 = 16 + 1 /\ 18 = 16 + 2 /\ 1 \in 1..2 /\ 2 \in 1..2
    OBVIOUS
  <2> QED
    BY <1>4, <1>7, <2>1
<1> QED
  BY <1>7, <1>8, <1>9, <1>10

BodyEnd(c) == 23 + Len(BodySteps(c))
JumpEnd(c) == BodyEnd(c) + Len(JumpSteps(c))

\* The steps of ApplyRules, part by part.
LEMMA ApplyShape ==
  ASSUME NEW c \in Config, ~Explicit(c)
  PROVE  /\ ApplyProgram(c) \in Seq(Steps) /\ Len(ApplyProgram(c)) = JumpEnd(c) + 3
         /\ BodyEnd(c) \in Nat /\ JumpEnd(c) \in Nat
         /\ \A i \in 1..18 : ApplyProgram(c)[i] = ClearProgram[i]
         /\ \A i \in 1..5 : ApplyProgram(c)[18 + i] = <<"ensure", Owned[i]>>
         /\ \A i \in 1..Len(BodySteps(c)) : ApplyProgram(c)[23 + i] = BodySteps(c)[i]
         /\ \A i \in 1..Len(JumpSteps(c)) : ApplyProgram(c)[BodyEnd(c) + i] = JumpSteps(c)[i]
         /\ \A i \in 1..3 : ApplyProgram(c)[JumpEnd(c) + i] = RouteSteps[i]
<1> DEFINE P == ApplyProgram(c)
           e == Each("ensure", Owned)
           b == BodySteps(c)
           j == JumpSteps(c)
           s1 == ClearProgram \o e
           s2 == s1 \o b
           s3 == s2 \o j
<1>1. P = s3 \o RouteSteps
  BY DEF ApplyProgram
<1>2. /\ e \in Seq(Steps) /\ Len(e) = 5 /\ \A i \in 1..5 : e[i] = <<"ensure", Owned[i]>>
  BY Named DEF Each, Steps
<1>3. b \in Seq(Steps) /\ j \in Seq(Steps)
  <2>1. LineSteps \subseteq Steps /\ JumpStep \subseteq Steps
    BY DEF Steps
  <2>2. b \in Seq(LineSteps) /\ j \in Seq(JumpStep)
    BY BodyShape, JumpShape
  <2> HIDE DEF b, j
  <2> QED
    BY <2>1, <2>2
<1>4. RouteSteps \in Seq(Steps) /\ Len(RouteSteps) = 3
  BY DEF RouteSteps, Steps
<1>5. BodyEnd(c) = 23 + Len(b) /\ JumpEnd(c) = 23 + Len(b) + Len(j)
  BY DEF BodyEnd, JumpEnd
<1> HIDE DEF e, b, j
<1>6. /\ s1 \in Seq(Steps) /\ Len(s1) = 23
      /\ \A i \in 1..18 : s1[i] = ClearProgram[i]
      /\ \A i \in 1..5 : s1[18 + i] = e[i]
  <2>1. ClearProgram \in Seq(Steps) /\ Len(ClearProgram) = 18
    BY ClearShape
  <2>2. s1 = ClearProgram \o e
    OBVIOUS
  <2> HIDE DEF s1
  <2>3. /\ s1 \in Seq(Steps) /\ Len(s1) = Len(ClearProgram) + Len(e)
        /\ \A i \in 1..Len(ClearProgram) : s1[i] = ClearProgram[i]
        /\ \A i \in 1..Len(e) : s1[Len(ClearProgram) + i] = e[i]
    <3>1. ClearProgram \in Seq(Steps) /\ e \in Seq(Steps)
      BY <1>2, <2>1
    <3> QED
      BY <2>2, <3>1, InTurn
  <2> QED
    BY <1>2, <2>1, <2>3
<1>7. /\ s2 \in Seq(Steps) /\ Len(s2) = Len(s1) + Len(b) /\ Len(b) \in Nat
      /\ \A i \in 1..Len(s1) : s2[i] = s1[i]
      /\ \A i \in 1..Len(b) : s2[Len(s1) + i] = b[i]
  <2>1. s1 \in Seq(Steps) /\ b \in Seq(Steps) /\ s2 = s1 \o b
    BY <1>3, <1>6
  <2> HIDE DEF s1, s2
  <2> QED
    BY <2>1, InTurn
<1>8. /\ s3 \in Seq(Steps) /\ Len(s3) = Len(s2) + Len(j) /\ Len(j) \in Nat
      /\ \A i \in 1..Len(s2) : s3[i] = s2[i]
      /\ \A i \in 1..Len(j) : s3[Len(s2) + i] = j[i]
  <2>1. s2 \in Seq(Steps) /\ j \in Seq(Steps) /\ s3 = s2 \o j
    BY <1>3, <1>7
  <2> HIDE DEF s2, s3
  <2> QED
    BY <2>1, InTurn
<1> HIDE DEF s1, s2, s3, P
<1>9. /\ P \in Seq(Steps) /\ Len(P) = Len(s3) + Len(RouteSteps)
      /\ \A i \in 1..Len(s3) : P[i] = s3[i]
      /\ \A i \in 1..Len(RouteSteps) : P[Len(s3) + i] = RouteSteps[i]
  <2>1. s3 \in Seq(Steps) /\ RouteSteps \in Seq(Steps)
    BY <1>4, <1>8
  <2> QED
    BY <1>1, <2>1, InTurn
<1>10. /\ Len(s1) = 23 /\ Len(s2) = BodyEnd(c) /\ Len(s3) = JumpEnd(c)
       /\ Len(b) \in Nat /\ Len(j) \in Nat /\ BodyEnd(c) \in Nat /\ JumpEnd(c) \in Nat
       /\ BodyEnd(c) = 23 + Len(b) /\ JumpEnd(c) = 23 + Len(b) + Len(j)
  BY <1>5, <1>6, <1>7, <1>8
<1>11. Len(P) = JumpEnd(c) + 3
  BY <1>4, <1>9, <1>10
<1>12. ASSUME NEW i \in 1..23 PROVE P[i] = s1[i]
  <2>1. i \in 1..Len(s1) /\ i \in 1..Len(s2) /\ i \in 1..Len(s3)
    BY <1>10
  <2> QED
    BY <1>7, <1>8, <1>9, <2>1
<1>13. ASSUME NEW i \in 1..Len(b) PROVE P[23 + i] = b[i]
  <2>1. Len(s1) + i \in 1..Len(s2) /\ Len(s1) + i \in 1..Len(s3) /\ Len(s1) + i = 23 + i
    BY <1>10
  <2> QED
    BY <1>7, <1>8, <1>9, <2>1
<1>14. ASSUME NEW i \in 1..Len(j) PROVE P[BodyEnd(c) + i] = j[i]
  <2>1. Len(s2) + i \in 1..Len(s3) /\ Len(s2) + i = BodyEnd(c) + i
    BY <1>10
  <2> QED
    BY <1>8, <1>9, <2>1
<1>15. \A i \in 1..3 : P[JumpEnd(c) + i] = RouteSteps[i]
  BY <1>4, <1>9, <1>10
<1>16. \A i \in 1..18 : P[i] = ClearProgram[i]
  <2>1. \A i \in 1..18 : i \in 1..23
    OBVIOUS
  <2> QED
    BY <1>6, <1>12, <2>1
<1>17. ASSUME NEW i \in 1..5 PROVE P[18 + i] = <<"ensure", Owned[i]>>
  <2>1. 18 + i \in 1..23
    OBVIOUS
  <2>2. P[18 + i] = s1[18 + i]
    BY <1>12, <2>1
  <2>3. s1[18 + i] = e[i] /\ e[i] = <<"ensure", Owned[i]>>
    BY <1>2, <1>6
  <2> QED
    BY <2>2, <2>3
<1> QED
  BY <1>9, <1>10, <1>11, <1>13, <1>14, <1>15, <1>16, <1>17 DEF P, b, j

\* Where the parts of a program end.
LEMMA Ends ==
  ASSUME NEW c \in Config
  PROVE  /\ Explicit(c) => ApplyProgram(c) = ClearProgram
         /\ ApplyProgram(c) \in Seq(Steps)
         /\ Len(ApplyProgram(c)) = IF Explicit(c) THEN 18 ELSE JumpEnd(c) + 3
         /\ \A i \in 1..18 : ApplyProgram(c)[i] = ClearProgram[i]
         /\ BodyEnd(c) \in Nat /\ JumpEnd(c) \in Nat
         /\ BodyEnd(c) >= 23 /\ JumpEnd(c) >= BodyEnd(c)
         /\ BodyEnd(c) = 23 + Len(BodySteps(c)) /\ JumpEnd(c) = BodyEnd(c) + Len(JumpSteps(c))
         /\ Len(BodySteps(c)) \in Nat /\ Len(JumpSteps(c)) \in Nat
<1> DEFINE P == ApplyProgram(c)
           m == Len(BodySteps(c))
           n == Len(JumpSteps(c))
<1>1. m \in Nat /\ n \in Nat
  <2>1. BodySteps(c) \in Seq(LineSteps) /\ JumpSteps(c) \in Seq(JumpStep)
    BY BodyShape, JumpShape
  <2> QED
    BY <2>1
<1>2. BodyEnd(c) = 23 + m /\ JumpEnd(c) = BodyEnd(c) + n
  BY DEF BodyEnd, JumpEnd
<1>3. Explicit(c) => P = ClearProgram
  BY DEF ApplyProgram
<1>4. P \in Seq(Steps) /\ \A i \in 1..18 : P[i] = ClearProgram[i]
  <2>1. ~Explicit(c) => P \in Seq(Steps) /\ \A i \in 1..18 : P[i] = ClearProgram[i]
    BY ApplyShape
  <2> HIDE DEF P
  <2> QED
    BY <1>3, <2>1, ClearShape
<1>5. Len(P) = IF Explicit(c) THEN 18 ELSE JumpEnd(c) + 3
  <2>1. ~Explicit(c) => Len(P) = JumpEnd(c) + 3
    BY ApplyShape
  <2>2. Len(ClearProgram) = 18
    BY ClearShape
  <2> HIDE DEF P
  <2> QED
    BY <1>3, <2>1, <2>2
<1> HIDE DEF m, n
<1>6. /\ BodyEnd(c) \in Nat /\ JumpEnd(c) \in Nat
      /\ BodyEnd(c) >= 23 /\ JumpEnd(c) >= BodyEnd(c)
  BY <1>1, <1>2
<1> QED
  BY <1>1, <1>2, <1>3, <1>4, <1>5, <1>6 DEF P, m, n

\* What step comes next, by how many are done.
LEMMA Regions ==
  ASSUME NEW c \in Config, NEW k \in Nat, k < Len(ApplyProgram(c))
  PROVE  LET next == ApplyProgram(c)[k+1] IN
         \/ k \in 0..3 /\ next = <<"unjump", Unjumped[k+1]>>
         \/ k \in 4..15 /\ next \in {"flush", "destroy"} \X Chains
         \/ k = 16 /\ next = <<"unrule">>
         \/ k = 17 /\ next = <<"unroute">>
         \/ /\ ~Explicit(c)
            /\ \/ k \in 18..22 /\ next = <<"ensure", Owned[k-17]>>
               \/ k \in 23..BodyEnd(c)-1 /\ next = BodySteps(c)[k-22]
               \/ k \in BodyEnd(c)..JumpEnd(c)-1 /\ next = JumpSteps(c)[k+1-BodyEnd(c)]
               \/ k = JumpEnd(c) /\ next = <<"unrule">>
               \/ k = JumpEnd(c) + 1 /\ next = <<"route">>
               \/ k = JumpEnd(c) + 2 /\ next = <<"rule">>
<1> DEFINE P == ApplyProgram(c)
<1>1. /\ P \in Seq(Steps)
      /\ Len(P) = IF Explicit(c) THEN 18 ELSE JumpEnd(c) + 3
      /\ \A i \in 1..18 : P[i] = ClearProgram[i]
      /\ BodyEnd(c) \in Nat /\ JumpEnd(c) \in Nat
      /\ BodyEnd(c) = 23 + Len(BodySteps(c)) /\ JumpEnd(c) = BodyEnd(c) + Len(JumpSteps(c))
      /\ Len(BodySteps(c)) \in Nat /\ Len(JumpSteps(c)) \in Nat
  BY Ends
<1>2. k < Len(P)
  OBVIOUS
<1>3. CASE k \in 0..17
  <2>1. k + 1 \in 1..18
    BY <1>3
  <2>2. P[k+1] = ClearProgram[k+1]
    BY <1>1, <2>1
  <2>3. CASE k \in 0..3
    <3>1. k + 1 \in 1..4
      BY <2>3
    <3> QED
      BY <2>2, <2>3, <3>1, ClearShape
  <2>4. CASE k \in 4..15
    <3>1. k + 1 \in 5..16
      BY <2>4
    <3> QED
      BY <2>2, <2>4, <3>1, ClearShape
  <2>5. CASE k = 16
    BY <2>2, <2>5, ClearShape
  <2>6. CASE k = 17
    BY <2>2, <2>6, ClearShape
  <2> QED
    BY <1>3, <2>3, <2>4, <2>5, <2>6
<1>4. CASE k > 17
  <2>1. ~Explicit(c)
    BY <1>1, <1>2, <1>4
  <2>2. /\ \A i \in 1..5 : P[18 + i] = <<"ensure", Owned[i]>>
        /\ \A i \in 1..Len(BodySteps(c)) : P[23 + i] = BodySteps(c)[i]
        /\ \A i \in 1..Len(JumpSteps(c)) : P[BodyEnd(c) + i] = JumpSteps(c)[i]
        /\ \A i \in 1..3 : P[JumpEnd(c) + i] = RouteSteps[i]
    BY <2>1, ApplyShape
  <2> HIDE DEF P
  <2>3. CASE k \in 18..22
    <3>1. k - 17 \in 1..5 /\ 18 + (k - 17) = k + 1
      BY <2>3
    <3>2. P[k+1] = <<"ensure", Owned[k-17]>>
      BY <2>2, <3>1
    <3> QED
      BY <2>1, <2>3, <3>2 DEF P
  <2>4. CASE k \in 23..BodyEnd(c)-1
    <3>1. k - 22 \in 1..Len(BodySteps(c)) /\ 23 + (k - 22) = k + 1
      BY <1>1, <2>4
    <3>2. P[k+1] = BodySteps(c)[k-22]
      BY <2>2, <3>1
    <3> QED
      BY <2>1, <2>4, <3>2 DEF P
  <2>5. CASE k \in BodyEnd(c)..JumpEnd(c)-1
    <3>1. k + 1 - BodyEnd(c) \in 1..Len(JumpSteps(c)) /\ BodyEnd(c) + (k + 1 - BodyEnd(c)) = k + 1
      BY <1>1, <2>5
    <3>2. P[k+1] = JumpSteps(c)[k+1-BodyEnd(c)]
      BY <2>2, <3>1
    <3> QED
      BY <2>1, <2>5, <3>2 DEF P
  <2>6. RouteSteps[1] = <<"unrule">> /\ RouteSteps[2] = <<"route">> /\ RouteSteps[3] = <<"rule">>
    BY DEF RouteSteps
  <2>7. CASE k = JumpEnd(c)
    <3>1. P[k+1] = <<"unrule">>
      BY <2>2, <2>6, <2>7
    <3> QED
      BY <2>1, <2>7, <3>1 DEF P
  <2>8. CASE k = JumpEnd(c) + 1
    <3>1. P[k+1] = <<"route">>
      <4>1. k + 1 = JumpEnd(c) + 2 /\ 2 \in 1..3
        BY <1>1, <2>8
      <4> QED
        BY <2>2, <2>6, <4>1
    <3> QED
      BY <2>1, <2>8, <3>1 DEF P
  <2>9. CASE k = JumpEnd(c) + 2
    <3>1. P[k+1] = <<"rule">>
      <4>1. k + 1 = JumpEnd(c) + 3 /\ 3 \in 1..3
        BY <1>1, <2>9
      <4> QED
        BY <2>2, <2>6, <4>1
    <3> QED
      BY <2>1, <2>9, <3>1 DEF P
  <2>10. \/ k \in 18..22 \/ k \in 23..BodyEnd(c)-1 \/ k \in BodyEnd(c)..JumpEnd(c)-1
         \/ k = JumpEnd(c) \/ k = JumpEnd(c) + 1 \/ k = JumpEnd(c) + 2
    <3>1. Len(P) = JumpEnd(c) + 3 /\ BodyEnd(c) \in Nat /\ JumpEnd(c) \in Nat
      BY <1>1, <2>1
    <3>2. BodyEnd(c) >= 23 /\ JumpEnd(c) >= BodyEnd(c)
      BY Ends
    <3>3. k < JumpEnd(c) + 3
      BY <1>2, <3>1
    <3> QED
      BY <1>4, <3>1, <3>2, <3>3
  <2> QED
    BY <2>3, <2>4, <2>5, <2>7, <2>8, <2>9, <2>10
<1>5. k \in 0..17 \/ k > 17
  OBVIOUS
<1> QED
  BY <1>3, <1>4, <1>5
-----------------------------------------------------------------------------
(* Types *)

Typed ==
  /\ TypeOK
  /\ prog \in [Procs -> Seq(Steps)]

\* Both programs are sequences of steps.
LEMMA ProgramsTyped ==
  ASSUME NEW c \in Config
  PROVE  ApplyProgram(c) \in Seq(Steps) /\ ClearProgram \in Seq(Steps)
<1>1. ClearProgram \in Seq(Steps)
  BY ClearShape
<1>2. ~Explicit(c) => ApplyProgram(c) \in Seq(Steps)
  BY ApplyShape
<1> QED
  BY <1>1, <1>2 DEF ApplyProgram

\* A program that begins keeps the types.
LEMMA BeginTyped ==
  ASSUME Typed, NEW p \in Procs, NEW steps \in Seq(Steps), NEW what \in Config,
         Begin(p, steps, what)
  PROVE  Typed'
BY DEF Typed, TypeOK, Begin, kernel

\* The first step of a program, and the rest of it.
LEMMA FirstStep ==
  ASSUME Typed, NEW p \in Procs, Active(p)
  PROVE  /\ Head(prog[p]) \in Steps /\ Tail(prog[p]) \in Seq(Steps)
         /\ <<Head(prog[p])>> \o Tail(prog[p]) = prog[p]
<1>1. prog[p] \in Seq(Steps) /\ prog[p] # <<>>
  BY DEF Typed, Active
<1> QED
  BY <1>1

\* So does one that goes on, but for the kernel.
LEMMA ContinueTyped ==
  ASSUME Typed, NEW p \in Procs, Active(p), NEW more \in Seq(Steps), Continue(p, more)
  PROVE  /\ prog' \in [Procs -> Seq(Steps)] /\ goal' \in [Procs -> Config]
         /\ alone' \in [Procs -> BOOLEAN] /\ intact' \in BOOLEAN
         /\ result' \in [Procs -> {"none", "ok", "error"}]
<1>1. more \o Tail(prog[p]) \in Seq(Steps)
  <2>1. Tail(prog[p]) \in Seq(Steps)
    BY FirstStep
  <2> QED
    BY <2>1
<1>2. prog' = [prog EXCEPT ![p] = more \o Tail(prog[p])]
  BY DEF Continue
<1>3. prog' \in [Procs -> Seq(Steps)]
  BY <1>1, <1>2 DEF Typed
<1> QED
  BY <1>3 DEF Typed, TypeOK, Continue

\* And one that gives up.
LEMMA AbortTyped ==
  ASSUME Typed, NEW p \in Procs, Abort(p)
  PROVE  Typed'
<1>1. <<>> \in Seq(Steps)
  OBVIOUS
<1> QED
  BY <1>1 DEF Typed, TypeOK, Abort, kernel

\* The step a process runs, its operand and its line.
LEMMA RunsStep ==
  ASSUME Typed, NEW p \in Procs, NEW op, Step(p, op)
  PROVE  /\ Active(p)
         /\ op \in {"unjump", "delete", "jump", "addjump"} =>
              Operand(p) \in JumpTargets /\ Head(prog[p]) = <<op, Operand(p)>>
         /\ op \in {"flush", "destroy", "ensure"} => Operand(p) \in Chains
         /\ op = "append" => Operand(p) \in Chains /\ Head(prog[p])[3] \in Lines
         /\ op \in {"unrule", "unroute", "route", "rule"} => Head(prog[p]) = <<op>>
<1>1. Active(p) /\ Head(prog[p]) \in Steps /\ Head(prog[p])[1] = op
  BY FirstStep DEF Step
<1> QED
  BY <1>1, StepForm DEF Operand

Kerneled ==
  /\ DOMAIN chains \subseteq Chains
  /\ \A c \in DOMAIN chains : chains[c] \in Seq(Lines)
  /\ jumps \in [JumpTargets -> 0..MaxJumps]
  /\ iprule \in 0..MaxJumps /\ route \in BOOLEAN
  /\ \A t \in JumpTargets : jumps[t] > 0 => t \in DOMAIN chains

\* Every command keeps the types and the jumps' chains.
LEMMA CommandTyped ==
  ASSUME Typed, NEW p \in Procs, Command(p)
  PROVE  Typed'
<1> USE RoutingAssumption
<1>0. Kerneled /\ MaxJumps \in Nat \ {0} /\ JumpTargets \subseteq Chains
  BY Named DEF Typed, TypeOK, Kerneled
<1>1. ASSUME NEW more \in Seq(Steps), Active(p), Continue(p, more), Kerneled'
      PROVE  Typed'
  BY <1>1, ContinueTyped DEF Typed, TypeOK, Kerneled
<1>2. <<>> \in Seq(Steps)
  OBVIOUS
<1>3. ASSUME UNCHANGED kernel PROVE Kerneled'
  BY <1>0, <1>3 DEF Kerneled, kernel
<1>4. CASE CheckJump(p)
  <2>1. Active(p) /\ Operand(p) \in JumpTargets /\ Head(prog[p]) \in Steps
    BY <1>4, RunsStep, FirstStep DEF CheckJump
  <2>2. <<<<"delete", Operand(p)>>, Head(prog[p])>> \in Seq(Steps)
    <3>1. <<"delete", Operand(p)>> \in Steps
      BY <2>1 DEF Steps
    <3> QED
      BY <2>1, <3>1
  <2>3. PICK more \in Seq(Steps) : Continue(p, more)
    BY <1>2, <1>4, <2>2 DEF CheckJump
  <2>4. UNCHANGED kernel
    BY <1>4 DEF CheckJump
  <2> QED
    BY <1>1, <1>3, <2>1, <2>3, <2>4
<1>5. CASE DeleteJump(p)
  <2>1. Active(p) /\ Operand(p) \in JumpTargets
    BY <1>5, RunsStep DEF DeleteJump
  <2>2. CASE jumps[Operand(p)] > 0
    <3>1. /\ jumps' = [jumps EXCEPT ![Operand(p)] = @ - 1]
          /\ Continue(p, <<>>) /\ UNCHANGED <<chains, iprule, route>>
      BY <1>5, <2>2 DEF DeleteJump
    <3>2. Kerneled'
      BY <1>0, <2>1, <2>2, <3>1 DEF Kerneled
    <3> QED
      BY <1>1, <1>2, <2>1, <3>1, <3>2
  <2>3. CASE ~(jumps[Operand(p)] > 0)
    BY <1>5, <2>3, AbortTyped DEF DeleteJump
  <2> QED
    BY <2>2, <2>3
<1>6. CASE Flush(p)
  <2>1. Active(p) /\ Operand(p) \in Chains
    BY <1>6, RunsStep DEF Flush
  <2>2. Kerneled'
    <3>1. CASE chains' = [chains EXCEPT ![Operand(p)] = <<>>]
      BY <1>0, <1>6, <3>1 DEF Flush, Kerneled
    <3>2. CASE UNCHANGED chains
      BY <1>3, <1>6, <3>2 DEF Flush, kernel
    <3> QED
      BY <1>6, <3>1, <3>2 DEF Flush
  <2> QED
    BY <1>1, <1>2, <1>6, <2>1, <2>2 DEF Flush
<1>7. CASE Destroy(p)
  <2>1. Active(p) /\ Operand(p) \in Chains
    BY <1>7, RunsStep DEF Destroy
  <2>2. Kerneled'
    <3>1. CASE /\ Deletable(Operand(p))
               /\ chains' = [c \in DOMAIN chains \ {Operand(p)} |-> chains[c]]
      <4>1. Operand(p) \in JumpTargets => ~(jumps[Operand(p)] > 0)
        BY <3>1 DEF Deletable, Referenced
      <4> QED
        BY <1>0, <1>7, <3>1, <4>1 DEF Destroy, Kerneled
    <3>2. CASE UNCHANGED chains
      BY <1>3, <1>7, <3>2 DEF Destroy, kernel
    <3> QED
      BY <1>7, <3>1, <3>2 DEF Destroy
  <2> QED
    BY <1>1, <1>2, <1>7, <2>1, <2>2 DEF Destroy
<1>8. CASE EnsureChain(p)
  <2>1. Active(p) /\ Operand(p) \in Chains
    BY <1>8, RunsStep DEF EnsureChain
  <2>2. Kerneled'
    <3>1. /\ chains' = [c \in DOMAIN chains \cup {Operand(p)} |->
                          IF c = Operand(p) THEN <<>> ELSE chains[c]]
          /\ UNCHANGED <<jumps, iprule, route>>
      BY <1>8 DEF EnsureChain
    <3> QED
      BY <1>0, <2>1, <3>1 DEF Kerneled
  <2> QED
    BY <1>1, <1>2, <1>8, <2>1, <2>2 DEF EnsureChain
<1>9. CASE AppendLine(p)
  <2>1. Active(p) /\ Operand(p) \in Chains /\ Head(prog[p])[3] \in Lines
    BY <1>9, RunsStep DEF AppendLine
  <2>2. CASE Abort(p)
    BY <2>2, AbortTyped
  <2>3. CASE /\ Operand(p) \in DOMAIN chains
             /\ chains' = [chains EXCEPT ![Operand(p)] = Append(@, Head(prog[p])[3])]
             /\ Continue(p, <<>>) /\ UNCHANGED <<jumps, iprule, route>>
    <3>1. Append(chains[Operand(p)], Head(prog[p])[3]) \in Seq(Lines)
      BY <1>0, <2>1, <2>3 DEF Kerneled
    <3>2. Kerneled'
      BY <1>0, <2>3, <3>1 DEF Kerneled
    <3> QED
      BY <1>1, <1>2, <2>1, <2>3, <3>2
  <2> QED
    BY <1>9, <2>2, <2>3 DEF AppendLine
<1>10. CASE CheckNewJump(p)
  <2>1. Active(p) /\ Operand(p) \in JumpTargets
    BY <1>10, RunsStep DEF CheckNewJump
  <2>2. <<<<"addjump", Operand(p)>>>> \in Seq(Steps)
    <3>1. <<"addjump", Operand(p)>> \in Steps
      BY <2>1 DEF Steps
    <3> QED
      BY <3>1
  <2>3. PICK more \in Seq(Steps) : Continue(p, more)
    BY <1>2, <1>10, <2>2 DEF CheckNewJump
  <2>4. UNCHANGED kernel
    BY <1>10 DEF CheckNewJump
  <2> QED
    BY <1>1, <1>3, <2>1, <2>3, <2>4
<1>11. CASE AddJump(p)
  <2>1. Active(p) /\ Operand(p) \in JumpTargets
    BY <1>11, RunsStep DEF AddJump
  <2>2. CASE Operand(p) \in DOMAIN chains
    <3>1. /\ jumps[Operand(p)] < MaxJumps /\ jumps' = [jumps EXCEPT ![Operand(p)] = @ + 1]
          /\ Continue(p, <<>>) /\ UNCHANGED <<chains, iprule, route>>
      BY <1>11, <2>2 DEF AddJump
    <3>2. Kerneled'
      BY <1>0, <2>1, <2>2, <3>1 DEF Kerneled
    <3> QED
      BY <1>1, <1>2, <2>1, <3>1, <3>2
  <2>3. CASE Operand(p) \notin DOMAIN chains
    BY <1>11, <2>3, AbortTyped DEF AddJump
  <2> QED
    BY <2>2, <2>3
<1>12. CASE DeleteIPRule(p)
  <2>1. Active(p)
    BY <1>12 DEF DeleteIPRule, Step
  <2>2. <<<<"unrule">>>> \in Seq(Steps)
    BY DEF Steps
  <2>3. PICK more \in Seq(Steps) : Continue(p, more)
    BY <1>2, <1>12, <2>2 DEF DeleteIPRule
  <2>4. Kerneled'
    BY <1>0, <1>12 DEF DeleteIPRule, Kerneled
  <2> QED
    BY <1>1, <2>1, <2>3, <2>4
<1>13. CASE FlushRoute(p)
  <2>1. Active(p) /\ Continue(p, <<>>)
    BY <1>13 DEF FlushRoute, Step
  <2>2. Kerneled'
    BY <1>0, <1>13 DEF FlushRoute, Kerneled
  <2> QED
    BY <1>1, <1>2, <2>1, <2>2
<1>14. CASE ReplaceRoute(p)
  <2>1. Active(p) /\ Continue(p, <<>>)
    BY <1>14 DEF ReplaceRoute, Step
  <2>2. Kerneled'
    BY <1>0, <1>14 DEF ReplaceRoute, Kerneled
  <2> QED
    BY <1>1, <1>2, <2>1, <2>2
<1>15. CASE AddIPRule(p)
  <2>1. Active(p) /\ Continue(p, <<>>)
    BY <1>15 DEF AddIPRule, Step
  <2>2. Kerneled'
    BY <1>0, <1>15 DEF AddIPRule, Kerneled
  <2> QED
    BY <1>1, <1>2, <2>1, <2>2
<1> QED
  BY <1>4, <1>5, <1>6, <1>7, <1>8, <1>9, <1>10, <1>11, <1>12, <1>13, <1>14, <1>15 DEF Command

\* The types hold at the start, in both kernels.
LEMMA InitTyped == Init => Typed
<1> SUFFICES ASSUME Init PROVE Typed
  OBVIOUS
<1>1. Nothing \in Config /\ <<>> \in Seq(Steps)
  BY DEF Nothing, Config
<1>2. Legacy \in Chains /\ "redirect" \in Lines
  BY Named DEF Legacy, Lines
<1>3. MaxJumps \in Nat \ {0} /\ 0 \in 0..MaxJumps /\ 1 \in 0..MaxJumps
  BY RoutingAssumption
<1>4. /\ iprule \in 0..MaxJumps /\ route \in BOOLEAN
      /\ prog \in [Procs -> Seq(Steps)] /\ goal \in [Procs -> Config]
      /\ alone \in [Procs -> BOOLEAN] /\ intact \in BOOLEAN
      /\ result \in [Procs -> {"none", "ok", "error"}]
  <2>1. iprule \in 0..MaxJumps /\ route \in BOOLEAN /\ intact \in BOOLEAN
    BY <1>3 DEF Init
  <2>2. prog \in [Procs -> Seq(Steps)] /\ goal \in [Procs -> Config]
    BY <1>1 DEF Init
  <2>3. alone \in [Procs -> BOOLEAN] /\ result \in [Procs -> {"none", "ok", "error"}]
    BY DEF Init
  <2> QED
    BY <2>1, <2>2, <2>3
<1>5. CASE chains = NoChains /\ jumps = [t \in JumpTargets |-> 0]
  <2>1. DOMAIN chains = {} /\ jumps \in [JumpTargets -> 0..MaxJumps]
    BY <1>3, <1>5 DEF NoChains
  <2>2. \A t \in JumpTargets : ~(jumps[t] > 0)
    BY <1>5
  <2> QED
    BY <1>4, <2>1, <2>2 DEF Typed, TypeOK
<1>6. CASE /\ chains = [c \in {Legacy} |-> <<"redirect">>]
           /\ jumps = [t \in JumpTargets |-> IF t = Legacy THEN 1 ELSE 0]
  <2>1. <<"redirect">> \in Seq(Lines)
    BY <1>2
  <2>2. DOMAIN chains = {Legacy} /\ chains[Legacy] = <<"redirect">>
    BY <1>6
  <2>3. jumps \in [JumpTargets -> 0..MaxJumps]
    BY <1>3, <1>6
  <2>4. \A t \in JumpTargets : jumps[t] > 0 => t = Legacy
    BY <1>6
  <2> QED
    BY <1>2, <1>4, <2>1, <2>2, <2>3, <2>4 DEF Typed, TypeOK
<1> QED
  BY <1>5, <1>6 DEF Init

\* Every step keeps them.
LEMMA StepTyped == Typed /\ [Next]_vars => Typed'
<1> SUFFICES ASSUME Typed, [Next]_vars PROVE Typed'
  OBVIOUS
<1>1. ASSUME NEW p \in Procs, NEW c \in Configs, ApplyRules(p, c) PROVE Typed'
  <2>1. c \in Config
    BY RoutingAssumption
  <2> QED
    BY <1>1, <2>1, ProgramsTyped, BeginTyped DEF ApplyRules
<1>2. ASSUME NEW p \in Procs, ClearRules(p) PROVE Typed'
  <2>1. Nothing \in Config
    BY DEF Nothing, Config
  <2> QED
    BY <1>2, <2>1, ProgramsTyped, BeginTyped DEF ClearRules
<1>3. ASSUME NEW p \in Procs, Fail(p) PROVE Typed'
  BY <1>3, AbortTyped DEF Fail
<1>4. CASE UNCHANGED vars
  BY <1>4 DEF Typed, TypeOK, vars, kernel
<1> QED
  BY <1>1, <1>2, <1>3, <1>4, CommandTyped DEF Next

\* The types of the kernel's rules and of the programs' own state; a rule never
\* jumps to a chain that is not there.
THEOREM TypeHolds == Spec => []TypeOK
<1>1. Typed => TypeOK
  BY DEF Typed
<1> QED
  BY <1>1, InitTyped, StepTyped, PTL DEF Spec
-----------------------------------------------------------------------------
(* A program that runs alone *)

\* The steps after the first k.
Rest(steps, k) == SubSeq(steps, k + 1, Len(steps))

\* The program for c has done k steps: it is at the next one, about to delete a jump
\* it has found, or about to add one it has not.
Place(c, k, todo) ==
  \/ todo = Rest(ApplyProgram(c), k)
  \/ /\ k \in 0..3
     /\ todo = <<<<"delete", Unjumped[k+1]>>>> \o Rest(ApplyProgram(c), k)
  \/ /\ ~Explicit(c) /\ k \in BodyEnd(c)..JumpEnd(c)-1
     /\ \E t \in JumpTargets :
          /\ JumpSteps(c)[k+1-BodyEnd(c)] = <<"jump", t>> /\ jumps[t] = 0
          /\ todo = <<<<"addjump", t>>>> \o Rest(ApplyProgram(c), k + 1)

\* The targets of the jumps the first k steps for c have put in.
Jumped(c, k) == {t \in JumpTargets :
  \E i \in DOMAIN JumpSteps(c) : i <= k - BodyEnd(c) /\ JumpSteps(c)[i] = <<"jump", t>>}

\* What the first k steps for c have made of the kernel.
JumpsSoFar(c, k) ==
  /\ k <= BodyEnd(c) => \A i \in 1..4 : i <= k => jumps[Unjumped[i]] = 0
  /\ k >= BodyEnd(c) =>
       \A t \in JumpTargets : jumps[t] = IF t \in Jumped(c, k) THEN 1 ELSE 0
Holds(chain, entries) == chain \in DOMAIN chains /\ chains[chain] = entries
ChainsSoFar(c, k) ==
  /\ k \in 18..23 => \A i \in 1..5 : i <= k - 18 => Holds(Owned[i], <<>>)
  /\ k \in 23..BodyEnd(c) =>
       \A i \in 1..5 : Holds(Owned[i], Entries(SubSeq(BodySteps(c), 1, k - 23), Owned[i]))
  /\ k >= BodyEnd(c) => \A i \in 1..5 : Holds(Owned[i], Body(c, Owned[i]))
RouteSoFar(c, k) ==
  /\ k \in 17..JumpEnd(c)+2 => iprule = 0
  /\ k >= JumpEnd(c)+2 => route
  /\ k = JumpEnd(c)+3 => iprule = 1
SoFar(c, k) == JumpsSoFar(c, k) /\ ChainsSoFar(c, k) /\ RouteSoFar(c, k)

OnItsWay(p) ==
  \E k \in 0..Len(ApplyProgram(goal[p])) : Place(goal[p], k, prog[p]) /\ SoFar(goal[p], k)

Solo == \A p \in Procs : alone[p] /\ Active(p) =>
          OnItsWay(p) /\ \A q \in Procs \ {p} : ~Active(q)
Serial == intact => \A p \in Procs : Active(p) => alone[p]

\* The inductive invariant.
RoutingInv == Typed /\ Solo /\ Serial /\ LiveChainsWhole

\* Two sequences that agree everywhere.
LEMMA SameElements ==
  ASSUME NEW T, NEW a \in Seq(T), NEW b \in Seq(T), Len(a) = Len(b),
         \A i \in 1..Len(a) : a[i] = b[i]
  PROVE  a = b
OBVIOUS

\* What is left of a program after its first k steps.
LEMMA RestOf ==
  ASSUME NEW T, NEW s \in Seq(T), NEW k \in Nat, k <= Len(s)
  PROVE  /\ Rest(s, k) \in Seq(T)
         /\ k = 0 => Rest(s, k) = s
         /\ Rest(s, k) = <<>> <=> k = Len(s)
         /\ k < Len(s) => Head(Rest(s, k)) = s[k+1] /\ Tail(Rest(s, k)) = Rest(s, k + 1)
<1> DEFINE n == Len(s)
           r == Rest(s, k)
<1>1. n \in Nat /\ \A i \in 1..n : s[i] \in T
  OBVIOUS
<1>2. /\ r \in Seq(T) /\ Len(r) = n - k /\ \A i \in 1..n-k : r[i] = s[k+i]
  BY <1>1, SubSeqProperties DEF Rest
<1>3. k = 0 => r = s
  BY <1>1, <1>2
<1>4. r = <<>> <=> k = n
  BY <1>1, <1>2
<1>5. ASSUME k < n PROVE Head(r) = s[k+1] /\ Tail(r) = Rest(s, k + 1)
  <2>1. r # <<>> /\ 1 \in 1..n-k
    BY <1>1, <1>4, <1>5
  <2>2. Head(r) = s[k+1]
    BY <1>2, <2>1
  <2>3. /\ Tail(r) \in Seq(T) /\ Len(Tail(r)) = n - k - 1
        /\ \A i \in 1..n-k-1 : Tail(r)[i] = r[i+1]
    BY <1>1, <1>2, <2>1
  <2>4. /\ Rest(s, k + 1) \in Seq(T) /\ Len(Rest(s, k + 1)) = n - (k + 1)
        /\ \A i \in 1..n-(k+1) : Rest(s, k + 1)[i] = s[k+1+i]
    BY <1>1, <1>5, SubSeqProperties DEF Rest
  <2>5. \A i \in 1..n-k-1 : Tail(r)[i] = Rest(s, k + 1)[i]
    BY <1>1, <1>2, <2>3, <2>4
  <2>6. n - (k + 1) = n - k - 1
    BY <1>1
  <2>7. Tail(r) = Rest(s, k + 1)
    <3> DEFINE u == Tail(r)
               v == Rest(s, k + 1)
    <3>1. u \in Seq(T) /\ v \in Seq(T) /\ Len(u) = Len(v)
      BY <2>3, <2>4, <2>6
    <3>2. \A i \in 1..Len(u) : u[i] = v[i]
      BY <2>3, <2>5
    <3> HIDE DEF u, v
    <3>3. u = v
      BY <3>1, <3>2, SameElements
    <3> QED
      BY <3>3 DEF u, v
  <2> QED
    BY <2>2, <2>7
<1> QED
  BY <1>2, <1>3, <1>4, <1>5

\* The first n elements of a sequence, and one more.
LEMMA FirstOf ==
  ASSUME NEW T, NEW s \in Seq(T), NEW n \in Nat, n <= Len(s)
  PROVE  /\ SubSeq(s, 1, n) \in Seq(T)
         /\ n = 0 => SubSeq(s, 1, n) = <<>>
         /\ n = Len(s) => SubSeq(s, 1, n) = s
         /\ n < Len(s) => SubSeq(s, 1, n + 1) = Append(SubSeq(s, 1, n), s[n+1])
<1>1. /\ SubSeq(s, 1, n) \in Seq(T) /\ Len(SubSeq(s, 1, n)) = n
      /\ \A i \in 1..n : SubSeq(s, 1, n)[i] = s[i]
  BY SubSeqProperties
<1>2. ASSUME n < Len(s)
      PROVE  SubSeq(s, 1, n + 1) = Append(SubSeq(s, 1, n), s[n+1])
  <2>1. /\ SubSeq(s, 1, n + 1) \in Seq(T) /\ Len(SubSeq(s, 1, n + 1)) = n + 1
        /\ \A i \in 1..n+1 : SubSeq(s, 1, n + 1)[i] = s[i]
    BY <1>2, SubSeqProperties
  <2>2. s[n+1] \in T
    BY <1>2
  <2> QED
    BY <1>1, <2>1, <2>2
<1> QED
  BY <1>1, <1>2

\* An entry appended to a chain adds to that chain alone.
LEMMA EntriesAppend ==
  ASSUME NEW s \in Seq(LineSteps), NEW step \in LineSteps, NEW chain \in Chains
  PROVE  Entries(Append(s, step), chain) =
           IF step[2] = chain THEN Append(Entries(s, chain), step[3]) ELSE Entries(s, chain)
<1> DEFINE X == UNION {Appends(other) : other \in Chains \ {chain}}
           t == Append(s, step)
           kept == Without(s, X)
<1>1. step \in X <=> step[2] # chain
  BY DEF LineSteps, Appends
<1>2. Without(t, X) = IF step \in X THEN kept ELSE Append(kept, step)
  BY WithoutAppend
<1>3. kept \in Seq(LineSteps)
  BY WithoutOK
<1>4. /\ Entries(t, chain) = [i \in DOMAIN Without(t, X) |-> Without(t, X)[i][3]]
      /\ Entries(s, chain) = [i \in DOMAIN kept |-> kept[i][3]]
  BY DEF Entries
<1> HIDE DEF X, t, kept
<1>5. CASE step[2] # chain
  BY <1>1, <1>2, <1>4, <1>5 DEF t
<1>6. CASE step[2] = chain
  <2>1. Without(t, X) = Append(kept, step)
    BY <1>1, <1>2, <1>6
  <2>2. Entries(t, chain) = [i \in 1..Len(kept)+1 |-> Append(kept, step)[i][3]]
    <3>1. DOMAIN Append(kept, step) = 1..Len(kept)+1
      BY <1>3
    <3> QED
      BY <1>4, <2>1, <3>1
  <2>3. Entries(s, chain) = [i \in 1..Len(kept) |-> kept[i][3]]
    BY <1>3, <1>4
  <2>4. Entries(s, chain) \in Seq({kept[i][3] : i \in 1..Len(kept)}) /\ Len(Entries(s, chain)) = Len(kept)
    BY <1>3, <2>3
  <2>5. Append(Entries(s, chain), step[3]) =
          [i \in 1..Len(kept)+1 |-> IF i = Len(kept)+1 THEN step[3] ELSE kept[i][3]]
    BY <1>3, <2>3, <2>4
  <2>6. \A i \in 1..Len(kept)+1 :
          Append(kept, step)[i] = IF i = Len(kept)+1 THEN step ELSE kept[i]
    BY <1>3
  <2>7. Entries(t, chain) = Append(Entries(s, chain), step[3])
    BY <2>2, <2>5, <2>6
  <2> QED
    BY <1>6, <2>7 DEF t
<1> QED
  BY <1>5, <1>6

\* An empty part of the body leaves no entries.
LEMMA NoEntries ==
  ASSUME NEW chain \in Chains
  PROVE  Entries(<<>>, chain) = <<>>
<1> DEFINE X == UNION {Appends(other) : other \in Chains \ {chain}}
<1>1. <<>> \in Seq(LineSteps) /\ ToSet(<<>>) \cap X = {}
  BY DEF ToSet
<1>2. Without(<<>>, X) = <<>>
  BY <1>1, WithoutNone
<1> DEFINE kept == Without(<<>>, X)
<1>3. Entries(<<>>, chain) = [i \in DOMAIN kept |-> kept[i][3]]
  BY DEF Entries
<1>4. kept = <<>>
  BY <1>2
<1> HIDE DEF kept
<1>5. kept \in Seq(LineSteps)
  BY <1>1, <1>4
<1> DEFINE e == Entries(<<>>, chain)
<1>6. e \in Seq({kept[i][3] : i \in 1..Len(kept)}) /\ Len(e) = Len(kept)
  BY <1>3, <1>5
<1>7. Len(kept) = 0
  BY <1>4
<1> HIDE DEF e
<1>8. e = <<>>
  BY <1>6, <1>7
<1> QED
  BY <1>8 DEF e
-----------------------------------------------------------------------------
(* What each step of a program that runs alone makes of the kernel *)

\* The jumps that are cleared are all there are, each once.
LEMMA UnjumpedNames ==
  /\ JumpTargets = {Unjumped[i] : i \in 1..4}
  /\ \A i, j \in 1..4 : Unjumped[i] = Unjumped[j] => i = j
BY Named DEF JumpTargets, Unjumped, Legacy

\* The chains a program fills are all but the legacy one.
LEMMA OwnedNames ==
  /\ \A i, j \in 1..5 : Owned[i] = Owned[j] => i = j
  /\ Chains = {Owned[i] : i \in 1..5} \union {Legacy}
BY Named DEF Owned, Legacy

\* Past its deletions and before its own, a program has no jump in the kernel.
LEMMA NoJumps ==
  ASSUME NEW c \in Config, NEW k \in 4..BodyEnd(c), JumpsSoFar(c, k)
  PROVE  \A t \in JumpTargets : jumps[t] = 0
<1>1. \A i \in 1..4 : jumps[Unjumped[i]] = 0
  <2>1. k <= BodyEnd(c) /\ \A i \in 1..4 : i <= k
    BY Ends
  <2> QED
    BY <2>1 DEF JumpsSoFar
<1> QED
  BY <1>1, UnjumpedNames

\* Membership of Jumped, written out.
LEMMA InJumped ==
  ASSUME NEW c, NEW k, NEW n, n = k - BodyEnd(c)
  PROVE  \A u : u \in Jumped(c, k) <=>
           u \in JumpTargets /\ \E i \in DOMAIN JumpSteps(c) : i <= n /\ JumpSteps(c)[i] = <<"jump", u>>
BY Zenon DEF Jumped

\* No jump goes in before the chains are filled.
LEMMA NoneJumped ==
  ASSUME NEW c \in Config, NEW k \in Nat, k <= BodyEnd(c)
  PROVE  Jumped(c, k) = {}
<1>1. \A i \in DOMAIN JumpSteps(c) : i \in Nat /\ i >= 1
  <2>1. JumpSteps(c) \in Seq(JumpStep)
    BY JumpShape
  <2> QED
    BY <2>1
<1>2. BodyEnd(c) \in Nat
  BY Ends
<1>3. \A i \in DOMAIN JumpSteps(c) : ~(i <= k - BodyEnd(c))
  BY <1>1, <1>2
<1> QED
  BY <1>3 DEF Jumped

\* A step that leaves the jumps alone leaves them gone.
LEMMA StillNoJumps ==
  ASSUME NEW c \in Config, NEW k \in 4..BodyEnd(c)-1, JumpsSoFar(c, k), jumps' = jumps
  PROVE  JumpsSoFar(c, k+1)'
<1>1. BodyEnd(c) \in Nat /\ k \in 4..BodyEnd(c) /\ k + 1 \in Nat /\ k + 1 <= BodyEnd(c)
  <2>1. BodyEnd(c) \in Nat
    BY Ends
  <2> QED
    BY <2>1
<1>2. \A t \in JumpTargets : jumps'[t] = 0
  BY <1>1, NoJumps
<1>3. Jumped(c, k+1) = {} /\ Jumped(c, k+1)' = Jumped(c, k+1)
  BY <1>1, NoneJumped DEF Jumped
<1>4. \A i \in 1..4 : Unjumped[i] \in JumpTargets
  BY Named
<1> QED
  BY <1>2, <1>3, <1>4 DEF JumpsSoFar

\* The check of deleteJump that finds no rule: the next step.
LEMMA JumpGone ==
  ASSUME NEW c \in Config, NEW k \in 0..3, SoFar(c, k),
         jumps[Unjumped[k+1]] = 0, UNCHANGED kernel
  PROVE  SoFar(c, k+1)'
<1>1. BodyEnd(c) \in Nat /\ BodyEnd(c) >= 23 /\ JumpEnd(c) \in Nat /\ JumpEnd(c) >= BodyEnd(c)
  BY Ends
<1>2. \A i \in 1..4 : i <= k+1 => jumps[Unjumped[i]] = 0
  <2>1. \A i \in 1..4 : i <= k => jumps[Unjumped[i]] = 0
    BY <1>1 DEF SoFar, JumpsSoFar
  <2>2. \A i \in 1..4 : i <= k+1 => i <= k \/ i = k+1
    OBVIOUS
  <2> QED
    BY <2>1, <2>2
<1> QED
  BY <1>1, <1>2 DEF SoFar, JumpsSoFar, ChainsSoFar, RouteSoFar, kernel

\* One deletion does not undo the earlier ones.
LEMMA OneJumpLess ==
  ASSUME NEW c \in Config, NEW k \in 0..3, SoFar(c, k), Kerneled,
         jumps' = [jumps EXCEPT ![Unjumped[k+1]] = @ - 1]
  PROVE  SoFar(c, k)'
<1>1. BodyEnd(c) \in Nat /\ BodyEnd(c) >= 23 /\ JumpEnd(c) \in Nat /\ JumpEnd(c) >= BodyEnd(c)
  BY Ends
<1>2. \A i \in 1..4 : i <= k => jumps'[Unjumped[i]] = 0
  <2>1. \A i \in 1..4 : i <= k => jumps[Unjumped[i]] = 0
    BY <1>1 DEF SoFar, JumpsSoFar
  <2>2. k + 1 \in 1..4 /\ \A i \in 1..4 : i <= k => i # k + 1
    OBVIOUS
  <2>3. \A i \in 1..4 : i <= k => jumps'[Unjumped[i]] = jumps[Unjumped[i]]
    BY <2>2, UnjumpedNames DEF Kerneled
  <2> QED
    BY <2>1, <2>3
<1> QED
  BY <1>1, <1>2 DEF SoFar, JumpsSoFar, ChainsSoFar, RouteSoFar

\* Flushing and deleting a chain touches nothing SoFar asks about.
LEMMA ChainDropped ==
  ASSUME NEW c \in Config, NEW k \in 4..15, SoFar(c, k), UNCHANGED <<jumps, iprule, route>>
  PROVE  SoFar(c, k+1)'
<1>1. BodyEnd(c) \in Nat /\ BodyEnd(c) >= 23 /\ JumpEnd(c) \in Nat /\ JumpEnd(c) >= BodyEnd(c)
  BY Ends
<1>3. JumpsSoFar(c, k+1)'
  <2>1. k \in 4..BodyEnd(c)-1
    BY <1>1
  <2> QED
    BY <2>1, StillNoJumps DEF SoFar
<1>4. ChainsSoFar(c, k+1)' /\ RouteSoFar(c, k+1)'
  <2>1. ~(k + 1 \in 18..23) /\ ~(k + 1 \in 23..BodyEnd(c)) /\ ~(k + 1 >= BodyEnd(c))
        /\ ~(k + 1 \in 17..JumpEnd(c)+2) /\ ~(k + 1 >= JumpEnd(c)+2) /\ k + 1 # JumpEnd(c)+3
    BY <1>1
  <2> QED
    BY <2>1 DEF ChainsSoFar, RouteSoFar
<1> QED
  BY <1>3, <1>4 DEF SoFar

\* deleteIPRule: the next step once no ip rule is left.
LEMMA OneRuleLess ==
  ASSUME NEW c \in Config, SoFar(c, 16), UNCHANGED <<chains, jumps, route>>
  PROVE  SoFar(c, 16)' /\ (iprule' = 0 => SoFar(c, 17)')
<1>1. BodyEnd(c) \in Nat /\ BodyEnd(c) >= 23 /\ JumpEnd(c) \in Nat /\ JumpEnd(c) >= BodyEnd(c)
  BY Ends
<1>2. \A i \in 1..4 : jumps[Unjumped[i]] = 0
  BY <1>1 DEF SoFar, JumpsSoFar
<1> QED
  BY <1>1, <1>2 DEF SoFar, JumpsSoFar, ChainsSoFar, RouteSoFar

\* The end of the clearing part.
LEMMA RouteFlushed ==
  ASSUME NEW c \in Config, SoFar(c, 17), UNCHANGED <<chains, jumps, iprule>>
  PROVE  SoFar(c, 18)'
<1>1. BodyEnd(c) \in Nat /\ BodyEnd(c) >= 23 /\ JumpEnd(c) \in Nat /\ JumpEnd(c) >= BodyEnd(c)
  BY Ends
<1>2. \A i \in 1..4 : jumps[Unjumped[i]] = 0
  BY <1>1 DEF SoFar, JumpsSoFar
<1>3. iprule = 0
  BY <1>1 DEF SoFar, RouteSoFar
<1> QED
  BY <1>1, <1>2, <1>3 DEF SoFar, JumpsSoFar, ChainsSoFar, RouteSoFar

\* ensureChain leaves an empty chain and the others as they were.
LEMMA ChainEnsured ==
  ASSUME NEW c \in Config, NEW k \in 18..22, SoFar(c, k),
         chains' = [chain \in DOMAIN chains \cup {Owned[k-17]} |->
                      IF chain = Owned[k-17] THEN <<>> ELSE chains[chain]],
         UNCHANGED <<jumps, iprule, route>>
  PROVE  SoFar(c, k+1)'
<1>1. BodyEnd(c) \in Nat /\ BodyEnd(c) >= 23 /\ JumpEnd(c) \in Nat /\ JumpEnd(c) >= BodyEnd(c)
  BY Ends
<1>3. JumpsSoFar(c, k+1)'
  <2>1. k \in 4..BodyEnd(c)-1
    BY <1>1
  <2> QED
    BY <2>1, StillNoJumps DEF SoFar
<1>4. ASSUME NEW i \in 1..5, i <= k + 1 - 18 PROVE Holds(Owned[i], <<>>)'
  <2>1. CASE i = k - 17
    BY <2>1 DEF Holds
  <2>2. CASE i # k - 17
    <3>1. i <= k - 18
      BY <1>4, <2>2
    <3>2. Holds(Owned[i], <<>>)
      BY <3>1 DEF SoFar, ChainsSoFar
    <3>3. k - 17 \in 1..5
      OBVIOUS
    <3>4. Owned[i] # Owned[k-17]
      BY <2>2, <3>3, OwnedNames
    <3> QED
      BY <3>2, <3>4 DEF Holds
  <2> QED
    BY <2>1, <2>2
<1>5. ASSUME k + 1 = 23, NEW i \in 1..5
      PROVE  /\ Holds(Owned[i], Entries(SubSeq(BodySteps(c), 1, 0), Owned[i]))'
             /\ BodyEnd(c) = 23 => Holds(Owned[i], Body(c, Owned[i]))'
  <2>1. i <= k + 1 - 18
    BY <1>5
  <2>2. Holds(Owned[i], <<>>)'
    BY <1>4, <2>1
  <2>3. Owned[i] \in Chains
    BY Named
  <2>4. BodySteps(c) \in Seq(LineSteps)
    BY BodyShape
  <2>5. SubSeq(BodySteps(c), 1, 0) = <<>>
    BY <2>4, FirstOf, Ends
  <2>6. BodyEnd(c) = 23 => BodySteps(c) = <<>>
    BY <2>4, Ends
  <2> QED
    BY <2>2, <2>3, <2>5, <2>6, NoEntries DEF Body
<1>6. ChainsSoFar(c, k+1)'
  <2>1. k + 1 \in 18..23 /\ (k + 1 \in 23..BodyEnd(c) => k + 1 = 23)
        /\ (k + 1 >= BodyEnd(c) => k + 1 = 23 /\ BodyEnd(c) = 23)
    BY <1>1
  <2>2. k + 1 = 23 => k + 1 - 23 = 0
    OBVIOUS
  <2> QED
    BY <1>4, <1>5, <2>1, <2>2 DEF ChainsSoFar
<1>7. RouteSoFar(c, k+1)'
  BY <1>1 DEF SoFar, RouteSoFar
<1> QED
  BY <1>3, <1>6, <1>7 DEF SoFar

\* An append adds the next entry of the body.
LEMMA LineAppended ==
  ASSUME NEW c \in Config, NEW k \in 23..BodyEnd(c)-1, SoFar(c, k),
         NEW chain, NEW line,
         BodySteps(c)[k-22] = <<"append", chain, line>>,
         chains' = [chains EXCEPT ![chain] = Append(@, line)],
         UNCHANGED <<jumps, iprule, route>>
  PROVE  SoFar(c, k+1)'
<1>1. BodyEnd(c) \in Nat /\ BodyEnd(c) >= 23 /\ JumpEnd(c) \in Nat /\ JumpEnd(c) >= BodyEnd(c)
  BY Ends
<1>3. JumpsSoFar(c, k+1)'
  <2>1. k \in 4..BodyEnd(c)-1
    BY <1>1
  <2> QED
    BY <2>1, StillNoJumps DEF SoFar
<1> DEFINE b == BodySteps(c)
           n == k - 23
           done == SubSeq(b, 1, n)
           step == b[n+1]
<1>4. /\ b \in Seq(LineSteps) /\ n \in Nat /\ n < Len(b) /\ n + 1 = k - 22
      /\ BodyEnd(c) = 23 + Len(b) /\ Len(b) \in Nat
  <2> DEFINE m == Len(b)
  <2>1. b \in Seq(LineSteps) /\ BodyEnd(c) = 23 + m /\ m \in Nat
    BY BodyShape, Ends
  <2> HIDE DEF m
  <2>2. n \in Nat /\ n < m /\ n + 1 = k - 22
    BY <1>1, <2>1
  <2> QED
    BY <2>1, <2>2 DEF m
<1>5. done \in Seq(LineSteps) /\ SubSeq(b, 1, n + 1) = Append(done, step)
  BY <1>4, FirstOf
<1>6. step \in LineSteps /\ step[2] = chain /\ step[3] = line
  BY <1>4
<1>7. ASSUME NEW i \in 1..5
      PROVE  Holds(Owned[i], Entries(SubSeq(b, 1, n + 1), Owned[i]))'
  <2>1. Owned[i] \in DOMAIN chains /\ chains[Owned[i]] = Entries(done, Owned[i])
    BY <1>1 DEF SoFar, ChainsSoFar, Holds
  <2>2. Owned[i] \in Chains
    BY Named
  <2>3. Entries(Append(done, step), Owned[i]) =
          IF chain = Owned[i] THEN Append(Entries(done, Owned[i]), line) ELSE Entries(done, Owned[i])
    BY <1>5, <1>6, <2>2, EntriesAppend
  <2> HIDE DEF done, step, b, n
  <2>4. /\ Owned[i] \in DOMAIN chains'
        /\ chains'[Owned[i]] = Entries(Append(done, step), Owned[i])
    BY <2>1, <2>3
  <2> QED
    BY <1>5, <2>4 DEF Holds
<1>8. ASSUME k + 1 >= BodyEnd(c) PROVE SubSeq(b, 1, n + 1) = b
  <2>1. n + 1 = Len(b)
    BY <1>1, <1>4, <1>8
  <2> QED
    BY <1>4, <2>1, FirstOf
<1>9. ChainsSoFar(c, k+1)'
  <2>1. ~(k + 1 \in 18..23) /\ k + 1 - 23 = n + 1
    BY <1>1
  <2>2. ASSUME k + 1 >= BodyEnd(c), NEW i \in 1..5 PROVE Holds(Owned[i], Body(c, Owned[i]))'
    BY <1>7, <1>8, <2>2 DEF Body
  <2> HIDE DEF n
  <2> QED
    BY <1>7, <2>1, <2>2 DEF ChainsSoFar
<1>10. RouteSoFar(c, k+1)'
  BY <1>1 DEF SoFar, RouteSoFar
<1> QED
  BY <1>3, <1>9, <1>10 DEF SoFar

\* A jump that was there or is appended is there once.
LEMMA JumpIn ==
  ASSUME NEW c \in Config, NEW k \in BodyEnd(c)..JumpEnd(c)-1, SoFar(c, k), Kerneled,
         NEW t \in JumpTargets, JumpSteps(c)[k+1-BodyEnd(c)] = <<"jump", t>>,
         UNCHANGED <<chains, iprule, route>>,
         \/ jumps[t] > 0 /\ jumps' = jumps
         \/ jumps[t] = 0 /\ jumps' = [jumps EXCEPT ![t] = @ + 1]
  PROVE  SoFar(c, k+1)'
<1>1. BodyEnd(c) \in Nat /\ BodyEnd(c) >= 23 /\ JumpEnd(c) \in Nat /\ JumpEnd(c) >= BodyEnd(c)
  BY Ends
<1>2. /\ JumpSteps(c) \in Seq(JumpStep)
      /\ DOMAIN JumpSteps(c) \subseteq Nat /\ k + 1 - BodyEnd(c) \in DOMAIN JumpSteps(c)
  <2>1. JumpSteps(c) \in Seq(JumpStep) /\ JumpEnd(c) = BodyEnd(c) + Len(JumpSteps(c))
        /\ Len(JumpSteps(c)) \in Nat
    BY JumpShape, Ends
  <2> QED
    BY <1>1, <2>1
<1>3. Jumped(c, k+1) = Jumped(c, k) \union {t}
  <2>1. \A i \in DOMAIN JumpSteps(c) :
          i <= k + 1 - BodyEnd(c) <=> i <= k - BodyEnd(c) \/ i = k + 1 - BodyEnd(c)
    BY <1>1, <1>2
  <2> DEFINE n == k - BodyEnd(c)
             m == k + 1 - BodyEnd(c)
             js == JumpSteps(c)
  <2>2. \A u : u \in Jumped(c, k) <=>
                 u \in JumpTargets /\ \E i \in DOMAIN js : i <= n /\ js[i] = <<"jump", u>>
    BY InJumped
  <2>3. \A u : u \in Jumped(c, k+1) <=>
                 u \in JumpTargets /\ \E i \in DOMAIN js : i <= m /\ js[i] = <<"jump", u>>
    <3> DEFINE j == k + 1
    <3>1. m = j - BodyEnd(c)
      BY <1>1
    <3> HIDE DEF j, m
    <3>2. \A u : u \in Jumped(c, j) <=>
            u \in JumpTargets /\ \E i \in DOMAIN JumpSteps(c) : i <= m /\ JumpSteps(c)[i] = <<"jump", u>>
      BY <3>1, InJumped
    <3> QED
      BY <3>2 DEF j
  <2>4. /\ m \in DOMAIN js /\ js[m] = <<"jump", t>> /\ m <= m
        /\ \A i \in DOMAIN js : i <= m <=> i <= n \/ i = m
    BY <1>1, <1>2, <2>1
  <2> HIDE DEF n, m, js
  <2>5. \A u : <<"jump", u>> = <<"jump", t>> => u = t
    OBVIOUS
  <2>6. \A u : u \in Jumped(c, k+1) <=> u \in Jumped(c, k) \/ u = t
    BY <2>2, <2>3, <2>4, <2>5
  <2> QED
    BY <2>6
<1>4. \A u \in JumpTargets : jumps[u] = IF u \in Jumped(c, k) THEN 1 ELSE 0
  BY <1>1 DEF SoFar, JumpsSoFar
<1>5. \A u \in JumpTargets : jumps'[u] = IF u \in Jumped(c, k+1) THEN 1 ELSE 0
  BY <1>3, <1>4 DEF Kerneled
<1>6. JumpsSoFar(c, k+1)'
  <2>1. ~(k + 1 <= BodyEnd(c)) /\ Jumped(c, k+1)' = Jumped(c, k+1)
    BY <1>1 DEF Jumped
  <2> QED
    BY <1>5, <2>1 DEF JumpsSoFar
<1>7. ChainsSoFar(c, k+1)'
  <2>1. ~(k + 1 \in 18..23) /\ ~(k + 1 \in 23..BodyEnd(c))
    BY <1>1
  <2>2. \A i \in 1..5 : Holds(Owned[i], Body(c, Owned[i]))
    BY <1>1 DEF SoFar, ChainsSoFar
  <2> QED
    BY <2>1, <2>2 DEF ChainsSoFar, Holds
<1>8. RouteSoFar(c, k+1)'
  BY <1>1 DEF SoFar, RouteSoFar
<1> QED
  BY <1>6, <1>7, <1>8 DEF SoFar

\* The jumps stay as they are while the route and the ip rule go in.
LEMMA RouteSet ==
  ASSUME NEW c \in Config, NEW k \in JumpEnd(c)..JumpEnd(c)+2, SoFar(c, k),
         UNCHANGED <<chains, jumps>>,
         k = JumpEnd(c) => UNCHANGED <<iprule, route>>,
         k = JumpEnd(c) + 1 => route' /\ UNCHANGED iprule,
         k = JumpEnd(c) + 2 => iprule' = iprule + 1 /\ UNCHANGED route
  PROVE  SoFar(c, k+1)'
<1>1. BodyEnd(c) \in Nat /\ BodyEnd(c) >= 23 /\ JumpEnd(c) \in Nat /\ JumpEnd(c) >= BodyEnd(c)
  BY Ends
<1>2. k >= BodyEnd(c) /\ k \in 17..JumpEnd(c)+2 /\ k \in Nat
  BY <1>1
<1>3. Jumped(c, k+1) = Jumped(c, k)
  <2>1. JumpSteps(c) \in Seq(JumpStep) /\ JumpEnd(c) = BodyEnd(c) + Len(JumpSteps(c))
        /\ Len(JumpSteps(c)) \in Nat
    BY JumpShape, Ends
  <2>2. \A i \in DOMAIN JumpSteps(c) : i <= k + 1 - BodyEnd(c) /\ i <= k - BodyEnd(c)
    BY <1>1, <1>2, <2>1
  <2> DEFINE n == k - BodyEnd(c)
             m == k + 1 - BodyEnd(c)
  <2>3. \A i \in DOMAIN JumpSteps(c) : i <= m /\ i <= n
    BY <2>2
  <2>4. \A u : u \in Jumped(c, k) <=>
          u \in JumpTargets /\ \E i \in DOMAIN JumpSteps(c) : i <= n /\ JumpSteps(c)[i] = <<"jump", u>>
    BY InJumped
  <2>5. \A u : u \in Jumped(c, k+1) <=>
          u \in JumpTargets /\ \E i \in DOMAIN JumpSteps(c) : i <= m /\ JumpSteps(c)[i] = <<"jump", u>>
    <3> DEFINE j == k + 1
    <3>1. m = j - BodyEnd(c)
      BY <1>1
    <3> HIDE DEF j, m
    <3>2. \A u : u \in Jumped(c, j) <=>
            u \in JumpTargets /\ \E i \in DOMAIN JumpSteps(c) : i <= m /\ JumpSteps(c)[i] = <<"jump", u>>
      BY <3>1, InJumped
    <3> QED
      BY <3>2 DEF j
  <2> HIDE DEF n, m
  <2>6. \A u : u \in Jumped(c, k+1) <=> u \in Jumped(c, k)
    BY <2>3, <2>4, <2>5
  <2> QED
    BY <2>6
<1>4. JumpsSoFar(c, k+1)'
  <2>1. \A u \in JumpTargets : jumps[u] = IF u \in Jumped(c, k) THEN 1 ELSE 0
    BY <1>2 DEF SoFar, JumpsSoFar
  <2>2. ~(k + 1 <= BodyEnd(c)) /\ Jumped(c, k+1)' = Jumped(c, k+1)
    BY <1>1, <1>2 DEF Jumped
  <2> QED
    BY <1>3, <2>1, <2>2 DEF JumpsSoFar
<1>5. ChainsSoFar(c, k+1)'
  <2>1. ~(k + 1 \in 18..23) /\ ~(k + 1 \in 23..BodyEnd(c))
    BY <1>1, <1>2
  <2>2. \A i \in 1..5 : Holds(Owned[i], Body(c, Owned[i]))
    BY <1>2 DEF SoFar, ChainsSoFar
  <2> QED
    BY <2>1, <2>2 DEF ChainsSoFar, Holds
<1>6. iprule = 0
  BY <1>2 DEF SoFar, RouteSoFar
<1>7. RouteSoFar(c, k+1)'
  <2>1. k = JumpEnd(c) + 2 => route
    BY <1>1, <1>2 DEF SoFar, RouteSoFar
  <2> QED
    BY <1>1, <1>2, <1>6, <2>1 DEF RouteSoFar
<1> QED
  BY <1>4, <1>5, <1>7 DEF SoFar
-----------------------------------------------------------------------------
(* One step of a program that runs alone *)

\* One or two steps put before the rest of a program.
LEMMA Before ==
  ASSUME NEW T, NEW s \in Seq(T), NEW x \in T, NEW y \in T
  PROVE  /\ <<x>> \o s # <<>> /\ Head(<<x>> \o s) = x /\ Tail(<<x>> \o s) = s
         /\ <<>> \o s = s /\ <<x, y>> \o s = <<x>> \o (<<y>> \o s)
<1>1. <<x>> \in Seq(T) /\ <<y>> \in Seq(T) /\ <<x, y>> \in Seq(T)
  OBVIOUS
<1>2. <<x>> \o s # <<>> /\ Head(<<x>> \o s) = x
  OBVIOUS
<1>3. Tail(<<x>> \o s) = s
  OBVIOUS
<1>4. <<>> \o s = s
  OBVIOUS
<1>5. <<x, y>> \o s = <<x>> \o (<<y>> \o s)
  <2> DEFINE n == Len(s)
             m == Len(s) + 1
             r == <<y>> \o s
             u == <<x>> \o r
             v == <<x, y>> \o s
  <2>1. n \in Nat
    OBVIOUS
  <2>2. r \in Seq(T) /\ Len(r) = m /\ r[1] = y /\ \A i \in 1..n : r[i+1] = s[i]
    BY <1>1
  <2>3. v \in Seq(T) /\ Len(v) = n + 2 /\ v[1] = x /\ v[2] = y /\ \A i \in 1..n : v[i+2] = s[i]
    BY <1>1
  <2>4. m = n + 1
    OBVIOUS
  <2> HIDE DEF n, m, r
  <2>5. u \in Seq(T) /\ Len(u) = m + 1 /\ u[1] = x /\ \A i \in 1..m : u[i+1] = r[i]
    BY <1>1, <2>2
  <2> HIDE DEF u, v
  <2>6. \A i \in 1..n+2 : i = 1 \/ i = 2 \/ (i - 2 \in 1..n /\ (i - 2) + 2 = i /\ (i - 2) + 1 = i - 1)
    BY <2>1
  <2>7. ASSUME NEW i \in 1..n+2 PROVE u[i] = v[i]
    <3>1. CASE i = 1
      BY <2>3, <2>5, <3>1
    <3>2. CASE i # 1
      <4>1. i - 1 \in 1..m /\ (i - 1) + 1 = i
        BY <2>1, <2>4, <3>2
      <4>2. u[i] = r[i-1]
        BY <2>5, <4>1
      <4>3. i = 2 => r[i-1] = y /\ v[i] = y
        BY <2>2, <2>3
      <4>4. i # 2 => r[i-1] = s[i-2] /\ v[i] = s[i-2]
        BY <2>2, <2>3, <2>6, <3>2
      <4> QED
        BY <4>2, <4>3, <4>4
    <3> QED
      BY <3>1, <3>2
  <2>8. Len(u) = Len(v) /\ Len(u) = n + 2
    BY <2>1, <2>3, <2>4, <2>5
  <2>9. u = v
    BY <2>3, <2>5, <2>7, <2>8
  <2> QED
    BY <2>9 DEF u, v, r
<1> QED
  BY <1>2, <1>3, <1>4, <1>5

\* The step that follows the first k.
NextStep(c, k, step) ==
  \/ k \in 0..3 /\ step = <<"unjump", Unjumped[k+1]>>
  \/ k \in 4..15 /\ step[1] \in {"flush", "destroy"}
  \/ k = 16 /\ step = <<"unrule">>
  \/ k = 17 /\ step = <<"unroute">>
  \/ k \in 18..22 /\ step = <<"ensure", Owned[k-17]>>
  \/ k \in 23..BodyEnd(c)-1 /\ step = BodySteps(c)[k-22] /\ step[1] = "append"
  \/ /\ ~Explicit(c)
     /\ k \in BodyEnd(c)..JumpEnd(c)-1
     /\ step = JumpSteps(c)[k+1-BodyEnd(c)] /\ step[1] = "jump"
  \/ k = JumpEnd(c) /\ step = <<"unrule">>
  \/ k = JumpEnd(c) + 1 /\ step = <<"route">>
  \/ k = JumpEnd(c) + 2 /\ step = <<"rule">>

\* The next step of a program by its place.
LEMMA NextStepIs ==
  ASSUME NEW c \in Config, NEW k \in Nat, k < Len(ApplyProgram(c))
  PROVE  NextStep(c, k, ApplyProgram(c)[k+1])
<1> DEFINE next == ApplyProgram(c)[k+1]
<1>1. \A step \in {"flush", "destroy"} \X Chains : step[1] \in {"flush", "destroy"}
  OBVIOUS
<1>2. ASSUME k \in 23..BodyEnd(c)-1 PROVE BodySteps(c)[k-22][1] = "append"
  <2> DEFINE b == BodySteps(c)
  <2>1. b \in Seq(LineSteps) /\ BodyEnd(c) = 23 + Len(b) /\ Len(b) \in Nat
    BY BodyShape, Ends
  <2>2. k - 22 \in 1..Len(b)
    BY <1>2, <2>1
  <2> HIDE DEF b
  <2>3. b[k-22] \in LineSteps
    BY <2>1, <2>2
  <2> QED
    BY <2>3 DEF LineSteps, b
<1>3. ASSUME k \in BodyEnd(c)..JumpEnd(c)-1 PROVE JumpSteps(c)[k+1-BodyEnd(c)][1] = "jump"
  <2> DEFINE j == JumpSteps(c)
  <2>1. j \in Seq(JumpStep) /\ BodyEnd(c) \in Nat /\ JumpEnd(c) = BodyEnd(c) + Len(j) /\ Len(j) \in Nat
    BY JumpShape, Ends
  <2>2. k + 1 - BodyEnd(c) \in 1..Len(j)
    BY <1>3, <2>1
  <2> HIDE DEF j
  <2>3. j[k+1-BodyEnd(c)] \in JumpStep
    BY <2>1, <2>2
  <2> QED
    BY <2>3 DEF JumpStep, j
<1> HIDE DEF next
<1> QED
  BY <1>1, <1>2, <1>3, Regions DEF NextStep, next

\* The step a process runs next, by the place it is at.
LEMMA WhereIs ==
  ASSUME Typed, NEW p \in Procs, Active(p), NEW c \in Config,
         NEW k \in 0..Len(ApplyProgram(c)), Place(c, k, prog[p])
  PROVE  LET P == ApplyProgram(c)
             step == Head(prog[p])
             rest == Tail(prog[p])
         IN  \/ /\ k < Len(P) /\ prog[p] = Rest(P, k) /\ rest = Rest(P, k + 1)
                /\ NextStep(c, k, step)
             \/ k \in 0..3 /\ step = <<"delete", Unjumped[k+1]>> /\ rest = Rest(P, k)
             \/ /\ ~Explicit(c) /\ k \in BodyEnd(c)..JumpEnd(c)-1 /\ rest = Rest(P, k + 1)
                /\ \E t \in JumpTargets :
                     /\ JumpSteps(c)[k+1-BodyEnd(c)] = <<"jump", t>> /\ jumps[t] = 0
                     /\ step = <<"addjump", t>>
<1> DEFINE P == ApplyProgram(c)
<1>1. /\ P \in Seq(Steps) /\ Len(P) \in Nat /\ k \in Nat /\ k <= Len(P)
      /\ Len(P) = IF Explicit(c) THEN 18 ELSE JumpEnd(c) + 3
      /\ BodyEnd(c) \in Nat /\ JumpEnd(c) \in Nat
  <2>1. P \in Seq(Steps)
    BY Ends
  <2>2. Len(P) \in Nat
    BY <2>1
  <2> QED
    BY <2>1, <2>2, Ends
<1>2. prog[p] # <<>>
  BY DEF Active
<1>3. CASE prog[p] = Rest(P, k)
  <2> HIDE DEF P
  <2>1. k < Len(P)
    <3>1. k # Len(P)
      BY <1>1, <1>2, <1>3, RestOf
    <3> QED
      BY <1>1, <3>1
  <2>2. Head(prog[p]) = P[k+1] /\ Tail(prog[p]) = Rest(P, k + 1)
    <3> DEFINE r == Rest(P, k)
    <3>1. Head(r) = P[k+1] /\ Tail(r) = Rest(P, k + 1)
      <4>1. P \in Seq(Steps) /\ k \in Nat /\ k <= Len(P) /\ k < Len(P)
        BY <1>1, <2>1
      <4> QED
        BY <4>1, RestOf
    <3> QED
      BY <1>3, <3>1
  <2>3. NextStep(c, k, P[k+1])
    BY <1>1, <2>1, NextStepIs DEF P
  <2> QED
    BY <1>3, <2>1, <2>2, <2>3 DEF P
<1>4. CASE /\ k \in 0..3
           /\ prog[p] = <<<<"delete", Unjumped[k+1]>>>> \o Rest(P, k)
  <2> HIDE DEF P
  <2>1. k + 1 \in 1..4
    BY <1>4
  <2>2. <<"delete", Unjumped[k+1]>> \in Steps
    BY <2>1, Named DEF Steps
  <2>3. Rest(P, k) \in Seq(Steps)
    BY <1>1, RestOf
  <2>4. Head(prog[p]) = <<"delete", Unjumped[k+1]>> /\ Tail(prog[p]) = Rest(P, k)
    BY <1>4, <2>2, <2>3, Before
  <2> QED
    BY <1>4, <2>4 DEF P
<1>5. ASSUME ~Explicit(c), k \in BodyEnd(c)..JumpEnd(c)-1, NEW t \in JumpTargets,
             prog[p] = <<<<"addjump", t>>>> \o Rest(P, k + 1)
      PROVE  Head(prog[p]) = <<"addjump", t>> /\ Tail(prog[p]) = Rest(P, k + 1)
  <2> HIDE DEF P
  <2>1. k + 1 \in Nat /\ k + 1 <= Len(P)
    BY <1>1, <1>5
  <2>2. <<"addjump", t>> \in Steps
    BY DEF Steps
  <2>3. Rest(P, k + 1) \in Seq(Steps)
    BY <1>1, <2>1, RestOf
  <2> QED
    BY <1>5, <2>2, <2>3, Before
<1> HIDE DEF P
<1> QED
  BY <1>3, <1>4, <1>5 DEF Place, P

\* A command gives up, or goes on with its program.
LEMMA CommandFrame ==
  ASSUME NEW p \in Procs, Command(p)
  PROVE  Active(p) /\ (Abort(p) \/ \E more : Continue(p, more))
<1>1. CASE CheckJump(p)
  BY <1>1 DEF CheckJump, Step
<1>2. CASE DeleteJump(p)
  BY <1>2 DEF DeleteJump, Step
<1>3. CASE Flush(p)
  BY <1>3 DEF Flush, Step
<1>4. CASE Destroy(p)
  BY <1>4 DEF Destroy, Step
<1>5. CASE EnsureChain(p)
  BY <1>5 DEF EnsureChain, Step
<1>6. CASE AppendLine(p)
  BY <1>6 DEF AppendLine, Step
<1>7. CASE CheckNewJump(p)
  BY <1>7 DEF CheckNewJump, Step
<1>8. CASE AddJump(p)
  BY <1>8 DEF AddJump, Step
<1>9. CASE DeleteIPRule(p)
  BY <1>9 DEF DeleteIPRule, Step
<1>10. CASE FlushRoute(p)
  BY <1>10 DEF FlushRoute, Step
<1>11. CASE ReplaceRoute(p)
  BY <1>11 DEF ReplaceRoute, Step
<1>12. CASE AddIPRule(p)
  BY <1>12 DEF AddIPRule, Step
<1> QED
  BY <1>1, <1>2, <1>3, <1>4, <1>5, <1>6, <1>7, <1>8, <1>9, <1>10, <1>11, <1>12 DEF Command

\* The program has got to some place, without a new jump until its own are gone.
Advanced(p) ==
  \E n \in 0..Len(ApplyProgram(goal[p])) :
    /\ Place(goal[p], n, prog[p])' /\ SoFar(goal[p], n)'
    /\ n >= 4 \/ (chains' = chains /\ \A t \in JumpTargets : jumps'[t] <= jumps[t])

\* SoFar is about the kernel.
LEMMA SoFarKept ==
  ASSUME NEW c, NEW k, SoFar(c, k), UNCHANGED kernel
  PROVE  SoFar(c, k)'
BY DEF SoFar, JumpsSoFar, ChainsSoFar, RouteSoFar, Holds, Jumped, kernel

\* A command of a program that is alone gives up or gets one place on.
LEMMA SoloStep ==
  ASSUME ~Misread, Typed, NEW p \in Procs, OnItsWay(p), Command(p)
  PROVE  Abort(p) \/ Advanced(p)
<1>1. PICK c \in Config : c = goal[p]
  BY DEF Typed, TypeOK
<1> DEFINE P == ApplyProgram(c)
           step == Head(prog[p])
           rest == Tail(prog[p])
<1>0. Active(p) /\ Kerneled
  BY CommandFrame DEF Typed, TypeOK, Kerneled
<1>2. PICK k \in 0..Len(P) : Place(c, k, prog[p]) /\ SoFar(c, k)
  BY <1>1 DEF OnItsWay
<1>3. /\ P \in Seq(Steps) /\ Len(P) \in Nat /\ k \in Nat
      /\ Len(P) = IF Explicit(c) THEN 18 ELSE JumpEnd(c) + 3
      /\ BodyEnd(c) \in Nat /\ JumpEnd(c) \in Nat /\ BodyEnd(c) >= 23 /\ JumpEnd(c) >= BodyEnd(c)
  <2>1. P \in Seq(Steps)
    BY <1>1, Ends
  <2>2. Len(P) \in Nat
    BY <2>1
  <2>3. /\ Len(P) = IF Explicit(c) THEN 18 ELSE JumpEnd(c) + 3
        /\ BodyEnd(c) \in Nat /\ JumpEnd(c) \in Nat /\ BodyEnd(c) >= 23 /\ JumpEnd(c) >= BodyEnd(c)
    BY <1>1, Ends
  <2>4. k \in Nat
    BY <1>2, <2>2
  <2> QED
    BY <2>1, <2>2, <2>3, <2>4
<1>4. \/ /\ k < Len(P) /\ prog[p] = Rest(P, k) /\ rest = Rest(P, k + 1)
         /\ NextStep(c, k, step)
      \/ k \in 0..3 /\ step = <<"delete", Unjumped[k+1]>> /\ rest = Rest(P, k)
      \/ /\ ~Explicit(c) /\ k \in BodyEnd(c)..JumpEnd(c)-1 /\ rest = Rest(P, k + 1)
         /\ \E t \in JumpTargets :
              /\ JumpSteps(c)[k+1-BodyEnd(c)] = <<"jump", t>> /\ jumps[t] = 0
              /\ step = <<"addjump", t>>
  BY <1>0, <1>1, <1>2, WhereIs
<1>5. step \in Steps /\ rest \in Seq(Steps) /\ <<step>> \o rest = prog[p]
  BY <1>0, FirstStep
<1>6. ASSUME NEW more, Continue(p, more)
      PROVE  goal'[p] = c /\ prog'[p] = more \o rest
  BY <1>1, <1>6 DEF Continue, Typed, TypeOK
<1>7. ASSUME Continue(p, <<>>)
      PROVE  goal'[p] = c /\ prog'[p] = rest
  BY <1>5, <1>6, <1>7, Before
<1> HIDE DEF P, step, rest
<1>8. ASSUME goal'[p] = c, NEW n \in 0..Len(P), prog'[p] = Rest(P, n), SoFar(c, n)',
             n >= 4 \/ (chains' = chains /\ \A t \in JumpTargets : jumps'[t] <= jumps[t])
      PROVE  Advanced(p)
  <2>1. Place(c, n, prog[p])'
    BY <1>8 DEF Place, P
  <2> QED
    BY <1>1, <1>8, <2>1 DEF Advanced, P
<1>9. ASSUME k < Len(P), rest = Rest(P, k + 1), Continue(p, <<>>), SoFar(c, k + 1)',
             k >= 3 \/ UNCHANGED kernel
      PROVE  Advanced(p)
  <2>1. k + 1 \in 0..Len(P) /\ (k >= 3 => k + 1 >= 4)
    BY <1>3, <1>9
  <2>2. UNCHANGED kernel => chains' = chains /\ \A t \in JumpTargets : jumps'[t] <= jumps[t]
    BY <1>0 DEF kernel, Kerneled
  <2> QED
    BY <1>7, <1>8, <1>9, <2>1, <2>2
<1>10. CASE CheckJump(p)
  <2>1. step[1] = "unjump"
    BY <1>10 DEF CheckJump, Step, step
  <2>2. /\ k \in 0..3 /\ step = <<"unjump", Unjumped[k+1]>>
        /\ k < Len(P) /\ prog[p] = Rest(P, k) /\ rest = Rest(P, k + 1)
    BY <1>3, <1>4, <2>1 DEF NextStep
  <2>3. Operand(p) = Unjumped[k+1] /\ UNCHANGED kernel /\ k + 1 \in 1..4
    BY <1>10, <2>2 DEF CheckJump, Operand, step
  <2>4. CASE Continue(p, <<<<"delete", Operand(p)>>, Head(prog[p])>>)
    <3>1. <<"delete", Operand(p)>> \in Steps
      BY <2>3, Named DEF Steps
    <3>2. prog'[p] = <<<<"delete", Unjumped[k+1]>>, step>> \o rest /\ goal'[p] = c
      BY <1>6, <2>3, <2>4 DEF step
    <3>3. prog'[p] = <<<<"delete", Unjumped[k+1]>>>> \o Rest(P, k)
      <4>1. <<<<"delete", Unjumped[k+1]>>, step>> \o rest
              = <<<<"delete", Unjumped[k+1]>>>> \o (<<step>> \o rest)
        <5>1. PICK delete \in Steps : delete = <<"delete", Unjumped[k+1]>>
          BY <2>3, <3>1
        <5>2. step \in Steps /\ rest \in Seq(Steps)
          BY <1>5
        <5> HIDE DEF step, rest
        <5>3. <<delete, step>> \o rest = <<delete>> \o (<<step>> \o rest)
          BY <5>2, Before
        <5> QED
          BY <5>1, <5>3
      <4> QED
        BY <1>5, <2>2, <3>2, <4>1
    <3>4. Place(c, k, prog[p])'
      BY <2>2, <3>3 DEF Place, P
    <3>5. SoFar(c, k)'
      BY <1>2, <2>3, SoFarKept
    <3>6. chains' = chains /\ \A t \in JumpTargets : jumps'[t] <= jumps[t]
      BY <1>0, <2>3 DEF kernel, Kerneled
    <3> QED
      BY <1>1, <3>2, <3>4, <3>5, <3>6 DEF Advanced, P
  <2>5. CASE jumps[Operand(p)] = 0 /\ Continue(p, <<>>)
    <3>1. SoFar(c, k + 1)'
      BY <1>2, <2>2, <2>3, <2>5, JumpGone
    <3> QED
      BY <1>9, <2>2, <2>3, <2>5, <3>1
  <2> QED
    BY <1>10, <2>4, <2>5 DEF CheckJump
<1>11. CASE DeleteJump(p)
  <2>1. step[1] = "delete"
    BY <1>11 DEF DeleteJump, Step, step
  <2>2. k \in 0..3 /\ step = <<"delete", Unjumped[k+1]>> /\ rest = Rest(P, k)
    BY <1>3, <1>4, <2>1 DEF NextStep
  <2>3. Operand(p) = Unjumped[k+1] /\ k + 1 \in 1..4
    BY <2>2 DEF Operand, step
  <2>4. CASE jumps[Operand(p)] > 0
    <3>1. /\ jumps' = [jumps EXCEPT ![Unjumped[k+1]] = @ - 1]
          /\ Continue(p, <<>>) /\ UNCHANGED <<chains, iprule, route>>
      BY <1>11, <2>3, <2>4 DEF DeleteJump
    <3>2. SoFar(c, k)'
      BY <1>0, <1>2, <2>2, <3>1, OneJumpLess
    <3>3. \A t \in JumpTargets : jumps'[t] <= jumps[t]
      BY <1>0, <3>1 DEF Kerneled
    <3> QED
      BY <1>7, <1>8, <2>2, <3>1, <3>2, <3>3
  <2> QED
    BY <1>11, <2>4 DEF DeleteJump
<1>12. CASE Flush(p) \/ Destroy(p)
  <2>1. step[1] \in {"flush", "destroy"} /\ Continue(p, <<>>) /\ UNCHANGED <<jumps, iprule, route>>
    BY <1>12 DEF Flush, Destroy, Step, step
  <2>2. k \in 4..15 /\ k < Len(P) /\ rest = Rest(P, k + 1)
    BY <1>3, <1>4, <2>1 DEF NextStep
  <2>3. SoFar(c, k + 1)'
    BY <1>2, <2>1, <2>2, ChainDropped
  <2> QED
    BY <1>9, <2>1, <2>2, <2>3
<1>13. CASE EnsureChain(p)
  <2>1. step[1] = "ensure" /\ Continue(p, <<>>)
    BY <1>13 DEF EnsureChain, Step, step
  <2>2. k \in 18..22 /\ step = <<"ensure", Owned[k-17]>> /\ k < Len(P) /\ rest = Rest(P, k + 1)
    BY <1>3, <1>4, <2>1 DEF NextStep
  <2>3. Operand(p) = Owned[k-17]
    BY <2>2 DEF Operand, step
  <2>4. SoFar(c, k + 1)'
    BY <1>2, <1>13, <2>2, <2>3, ChainEnsured DEF EnsureChain
  <2> QED
    BY <1>9, <2>1, <2>2, <2>4
<1>14. CASE AppendLine(p)
  <2>1. step[1] = "append"
    BY <1>14 DEF AppendLine, Step, step
  <2>2. k \in 23..BodyEnd(c)-1 /\ step = BodySteps(c)[k-22] /\ k < Len(P) /\ rest = Rest(P, k + 1)
    BY <1>3, <1>4, <2>1 DEF NextStep
  <2>3. step = <<"append", Operand(p), Head(prog[p])[3]>>
    BY <1>5, <2>1, StepForm DEF LineSteps, Operand, step
  <2>4. CASE /\ chains' = [chains EXCEPT ![Operand(p)] = Append(@, Head(prog[p])[3])]
             /\ Continue(p, <<>>) /\ UNCHANGED <<jumps, iprule, route>>
    <3>1. SoFar(c, k + 1)'
      BY <1>2, <2>2, <2>3, <2>4, LineAppended
    <3>2. k >= 3
      BY <1>3, <2>2
    <3> QED
      BY <1>9, <2>2, <2>4, <3>1, <3>2
  <2> QED
    BY <1>14, <2>4 DEF AppendLine
<1>15. CASE CheckNewJump(p)
  <2>1. step[1] = "jump" /\ UNCHANGED kernel
    BY <1>15 DEF CheckNewJump, Step, step
  <2>2. /\ ~Explicit(c) /\ k \in BodyEnd(c)..JumpEnd(c)-1
        /\ step = JumpSteps(c)[k+1-BodyEnd(c)] /\ k < Len(P) /\ rest = Rest(P, k + 1)
    BY <1>3, <1>4, <2>1 DEF NextStep
  <2>3. Operand(p) \in JumpTargets /\ JumpSteps(c)[k+1-BodyEnd(c)] = <<"jump", Operand(p)>>
    BY <1>5, <2>1, <2>2, StepForm DEF Operand, step
  <2>4. k >= 4
    BY <1>3, <2>2
  <2>5. CASE jumps[Operand(p)] > 0 /\ Continue(p, <<>>)
    <3>1. SoFar(c, k + 1)'
      BY <1>0, <1>2, <2>1, <2>2, <2>3, <2>5, JumpIn DEF kernel
    <3> QED
      BY <1>9, <2>2, <2>4, <2>5, <3>1
  <2>6. CASE jumps[Operand(p)] = 0 /\ Continue(p, <<<<"addjump", Operand(p)>>>>)
    <3>1. prog'[p] = <<<<"addjump", Operand(p)>>>> \o Rest(P, k + 1) /\ goal'[p] = c
      BY <1>6, <2>2, <2>6
    <3>2. PICK t \in JumpTargets : t = Operand(p)
      BY <2>3
    <3>3. Place(c, k, prog[p])'
      <4>1. jumps'[t] = 0
        BY <2>1, <2>6, <3>2 DEF kernel
      <4> QED
        BY <2>2, <2>3, <3>1, <3>2, <4>1 DEF Place, P
    <3>4. SoFar(c, k)'
      BY <1>2, <2>1, SoFarKept
    <3> QED
      BY <1>1, <2>4, <3>1, <3>3, <3>4 DEF Advanced, P
  <2> QED
    BY <1>15, <2>5, <2>6 DEF CheckNewJump
<1>16. CASE AddJump(p)
  <2>1. step[1] = "addjump"
    BY <1>16 DEF AddJump, Step, step
  <2>2. PICK t \in JumpTargets :
          /\ k \in BodyEnd(c)..JumpEnd(c)-1 /\ rest = Rest(P, k + 1) /\ ~Explicit(c)
          /\ JumpSteps(c)[k+1-BodyEnd(c)] = <<"jump", t>> /\ jumps[t] = 0 /\ step = <<"addjump", t>>
    BY <1>3, <1>4, <2>1 DEF NextStep
  <2>3. Operand(p) = t /\ k < Len(P) /\ k >= 4
    BY <1>3, <2>2 DEF Operand, step
  <2>4. CASE t \in DOMAIN chains
    <3>1. /\ jumps' = [jumps EXCEPT ![t] = @ + 1]
          /\ Continue(p, <<>>) /\ UNCHANGED <<chains, iprule, route>>
      BY <1>16, <2>3, <2>4 DEF AddJump
    <3>2. SoFar(c, k + 1)'
      BY <1>0, <1>2, <2>2, <3>1, JumpIn
    <3> QED
      BY <1>9, <2>2, <2>3, <3>1, <3>2
  <2> QED
    BY <1>16, <2>3, <2>4 DEF AddJump
<1>17. CASE DeleteIPRule(p)
  <2>1. step[1] = "unrule" /\ UNCHANGED <<chains, jumps, route>>
    BY <1>17 DEF DeleteIPRule, Step, step
  <2>2. /\ k = 16 \/ k = JumpEnd(c)
        /\ step = <<"unrule">> /\ k < Len(P) /\ prog[p] = Rest(P, k) /\ rest = Rest(P, k + 1)
    BY <1>3, <1>4, <2>1 DEF NextStep
  <2>3. k >= 4
    BY <1>3, <2>2
  <2>4. k = JumpEnd(c) => iprule = 0
    <3>1. k = JumpEnd(c) => k \in 17..JumpEnd(c)+2
      BY <1>3
    <3> QED
      BY <1>2, <3>1 DEF SoFar, RouteSoFar
  <2>5. CASE iprule > 0 /\ Continue(p, <<<<"unrule">>>>)
    <3>1. k = 16
      BY <2>2, <2>4, <2>5
    <3>2. prog'[p] = Rest(P, k) /\ goal'[p] = c
      BY <1>5, <1>6, <2>2, <2>5
    <3>3. SoFar(c, k)'
      BY <1>2, <2>1, <3>1, OneRuleLess
    <3> QED
      BY <1>8, <2>3, <3>2, <3>3
  <2>6. CASE iprule = 0 /\ UNCHANGED iprule /\ Continue(p, <<>>)
    <3>1. CASE k = 16
      <4>1. SoFar(c, k + 1)'
        BY <1>2, <2>1, <2>6, <3>1, OneRuleLess
      <4> QED
        BY <1>9, <2>2, <2>3, <2>6, <4>1
    <3>2. CASE k = JumpEnd(c)
      <4>1. k \in JumpEnd(c)..JumpEnd(c)+2 /\ k # JumpEnd(c) + 1 /\ k # JumpEnd(c) + 2
        BY <1>3, <3>2
      <4>2. SoFar(c, k + 1)'
        BY <1>2, <2>1, <2>6, <4>1, RouteSet
      <4> QED
        BY <1>9, <2>2, <2>3, <2>6, <4>2
    <3> QED
      BY <2>2, <3>1, <3>2
  <2>7. iprule \in Nat
    BY <1>0, RoutingAssumption DEF Kerneled
  <2> QED
    BY <1>17, <2>5, <2>6, <2>7 DEF DeleteIPRule
<1>18. CASE FlushRoute(p)
  <2>1. step[1] = "unroute" /\ Continue(p, <<>>) /\ UNCHANGED <<chains, jumps, iprule>>
    BY <1>18 DEF FlushRoute, Step, step
  <2>2. k = 17 /\ k < Len(P) /\ rest = Rest(P, k + 1)
    BY <1>3, <1>4, <2>1 DEF NextStep
  <2>3. SoFar(c, k + 1)'
    BY <1>2, <2>1, <2>2, RouteFlushed
  <2> QED
    BY <1>9, <2>1, <2>2, <2>3
<1>19. CASE ReplaceRoute(p)
  <2>1. step[1] = "route" /\ Continue(p, <<>>) /\ UNCHANGED <<chains, jumps, iprule>> /\ route'
    BY <1>19 DEF ReplaceRoute, Step, step
  <2>2. k = JumpEnd(c) + 1 /\ k < Len(P) /\ rest = Rest(P, k + 1)
    BY <1>3, <1>4, <2>1 DEF NextStep
  <2>3. k \in JumpEnd(c)..JumpEnd(c)+2 /\ k # JumpEnd(c) /\ k # JumpEnd(c) + 2 /\ k >= 3
    BY <1>3, <2>2
  <2>4. SoFar(c, k + 1)'
    BY <1>2, <2>1, <2>2, <2>3, RouteSet
  <2> QED
    BY <1>9, <2>1, <2>2, <2>3, <2>4
<1>20. CASE AddIPRule(p)
  <2>1. /\ step[1] = "rule" /\ Continue(p, <<>>)
        /\ UNCHANGED <<chains, jumps, route>> /\ iprule' = iprule + 1
    BY <1>20 DEF AddIPRule, Step, step
  <2>2. k = JumpEnd(c) + 2 /\ k < Len(P) /\ rest = Rest(P, k + 1)
    BY <1>3, <1>4, <2>1 DEF NextStep
  <2>3. k \in JumpEnd(c)..JumpEnd(c)+2 /\ k # JumpEnd(c) /\ k # JumpEnd(c) + 1 /\ k >= 3
    BY <1>3, <2>2
  <2>4. SoFar(c, k + 1)'
    BY <1>2, <2>1, <2>2, <2>3, RouteSet
  <2> QED
    BY <1>9, <2>1, <2>2, <2>3, <2>4
<1> QED
  BY <1>10, <1>11, <1>12, <1>13, <1>14, <1>15, <1>16, <1>17, <1>18, <1>19, <1>20 DEF Command
-----------------------------------------------------------------------------
(* The invariant *)

\* A program has run to its end only after its last step.
LEMMA AtTheEnd ==
  ASSUME NEW c \in Config, NEW n \in 0..Len(ApplyProgram(c)), Place(c, n, <<>>)'
  PROVE  n = Len(ApplyProgram(c))
<1> DEFINE P == ApplyProgram(c)
<1>1. /\ P \in Seq(Steps) /\ Len(P) \in Nat /\ n \in Nat /\ n <= Len(P)
      /\ Len(P) = IF Explicit(c) THEN 18 ELSE JumpEnd(c) + 3
      /\ BodyEnd(c) \in Nat /\ JumpEnd(c) \in Nat
  <2>1. P \in Seq(Steps)
    BY Ends
  <2>2. Len(P) \in Nat
    BY <2>1
  <2> QED
    BY <2>1, <2>2, Ends
<1> HIDE DEF P
<1>2. Rest(P, n) \in Seq(Steps) /\ (Rest(P, n) = <<>> <=> n = Len(P))
  BY <1>1, RestOf
<1>3. ASSUME NEW step \in Steps, NEW k \in Nat, k <= Len(P) PROVE <<step>> \o Rest(P, k) # <<>>
  <2>1. Rest(P, k) \in Seq(Steps)
    BY <1>1, <1>3, RestOf
  <2> QED
    BY <2>1, Before
<1>4. n \in 0..3 => <<"delete", Unjumped[n+1]>> \in Steps
  BY Named DEF Steps
<1>5. ~Explicit(c) /\ n \in BodyEnd(c)..JumpEnd(c)-1 => n + 1 \in Nat /\ n + 1 <= Len(P)
  BY <1>1
<1>6. \A t \in JumpTargets : <<"addjump", t>> \in Steps
  BY DEF Steps
<1> QED
  BY <1>1, <1>2, <1>3, <1>4, <1>5, <1>6 DEF Place, P

\* Past the deletions, the jumps that are in have complete chains behind them.
LEMMA SoFarWhole ==
  ASSUME NEW c \in Config, NEW n \in Nat, n >= 4, SoFar(c, n)', Kerneled'
  PROVE  LiveChainsWhole'
<1>1. BodyEnd(c) \in Nat /\ BodyEnd(c) >= 23
  BY Ends
<1>2. CASE n <= BodyEnd(c)
  <2>1. \A i \in 1..4 : i <= n
    OBVIOUS
  <2>2. \A i \in 1..4 : jumps'[Unjumped[i]] = 0
    BY <1>2, <2>1 DEF SoFar, JumpsSoFar
  <2>3. \A t \in JumpTargets : jumps'[t] = 0
    BY <2>2, UnjumpedNames
  <2> QED
    BY <2>3, Named DEF LiveChainsWhole, WholeBehind
<1>3. CASE n >= BodyEnd(c)
  <2>1. \A i \in 1..5 : Holds(Owned[i], Body(c, Owned[i]))'
    BY <1>3 DEF SoFar, ChainsSoFar
  <2>2. /\ Owned[1] = "PRE" /\ Owned[2] = "PRE_HANDLE" /\ Owned[3] = "OUT"
        /\ Owned[4] = "DNS" /\ Owned[5] = "DNS_HANDLE"
    BY DEF Owned
  <2>3. \A chain \in {"PRE", "PRE_HANDLE", "OUT", "DNS", "DNS_HANDLE"} :
          chain \in DOMAIN chains' /\ chains'[chain] = Body(c, chain)
    BY <2>1, <2>2 DEF Holds
  <2>4. ASSUME NEW target, NEW behind \in SUBSET {"PRE", "PRE_HANDLE", "OUT", "DNS", "DNS_HANDLE"}
        PROVE  WholeBehind(target, behind)'
    <3>1. \A chain \in behind : chain \in DOMAIN chains' /\ chains'[chain] = Body(c, chain)
      BY <2>3
    <3> QED
      BY <3>1 DEF WholeBehind
  <2> QED
    BY <2>4 DEF LiveChainsWhole
<1> QED
  BY <1>1, <1>2, <1>3

\* The chains stay as they are and no jump goes in.
LEMMA WholeKept ==
  ASSUME LiveChainsWhole, Kerneled, chains' = chains,
         \A t \in JumpTargets : jumps'[t] <= jumps[t] /\ jumps'[t] \in Nat, intact' => intact
  PROVE  LiveChainsWhole'
<1>1. \A t \in JumpTargets : jumps'[t] > 0 => jumps[t] > 0
  BY RoutingAssumption DEF Kerneled
<1>2. \A target \in JumpTargets : \A behind : WholeBehind(target, behind) => WholeBehind(target, behind)'
  BY <1>1 DEF WholeBehind
<1> QED
  BY <1>2, Named DEF LiveChainsWhole

\* All steps done, the kernel is what the configuration asks for.
LEMMA SoFarExact ==
  ASSUME NEW c \in Config, SoFar(c, Len(ApplyProgram(c)))', Kerneled'
  PROVE  IF Explicit(c) THEN Unprogrammed' ELSE Programmed(c)'
<1> DEFINE n == Len(ApplyProgram(c))
<1>1. /\ BodyEnd(c) \in Nat /\ BodyEnd(c) >= 23 /\ JumpEnd(c) \in Nat /\ JumpEnd(c) >= BodyEnd(c)
      /\ n = IF Explicit(c) THEN 18 ELSE JumpEnd(c) + 3
  BY Ends
<1> HIDE DEF n
<1>2. SoFar(c, n)'
  BY DEF n
<1>3. CASE Explicit(c)
  <2>1. n <= BodyEnd(c) /\ n \in 17..JumpEnd(c)+2 /\ \A i \in 1..4 : i <= n
    BY <1>1, <1>3
  <2>2. \A i \in 1..4 : jumps'[Unjumped[i]] = 0
    BY <1>2, <2>1 DEF SoFar, JumpsSoFar
  <2>3. iprule' = 0
    BY <1>2, <2>1 DEF SoFar, RouteSoFar
  <2> QED
    BY <1>3, <2>2, <2>3, UnjumpedNames DEF Unprogrammed
<1>4. CASE ~Explicit(c)
  <2>1. n >= BodyEnd(c) /\ n >= JumpEnd(c)+2 /\ n = JumpEnd(c)+3
    BY <1>1, <1>4
  <2>2. Jumped(c, n) = LiveChains(c)
    <3> DEFINE js == JumpSteps(c)
               m == n - BodyEnd(c)
    <3>1. /\ js \in Seq(JumpStep) /\ Targets(js) = LiveChains(c)
          /\ JumpEnd(c) = BodyEnd(c) + Len(js) /\ Len(js) \in Nat
      BY JumpShape, Ends
    <3>2. \A i \in DOMAIN js : i <= m /\ js[i] \in JumpStep
      BY <1>1, <2>1, <3>1
    <3>3. \A u : u \in Jumped(c, n) <=>
            u \in JumpTargets /\ \E i \in DOMAIN js : i <= m /\ js[i] = <<"jump", u>>
      BY InJumped
    <3> HIDE DEF js, m
    <3>4. \A u : u \in Targets(js) <=> \E i \in DOMAIN js : js[i][2] = u
      BY DEF Targets
    <3>5. \A i \in DOMAIN js : js[i] = <<"jump", js[i][2]>> /\ js[i][2] \in JumpTargets
      BY <3>2 DEF JumpStep
    <3>6. \A u : u \in Jumped(c, n) <=> u \in Targets(js)
      BY <3>2, <3>3, <3>4, <3>5
    <3> QED
      BY <3>1, <3>6
  <2>3. \A t \in JumpTargets : jumps'[t] = IF t \in LiveChains(c) THEN 1 ELSE 0
    <3>1. Jumped(c, n)' = Jumped(c, n)
      BY DEF Jumped
    <3> QED
      BY <1>2, <2>1, <2>2, <3>1 DEF SoFar, JumpsSoFar
  <2>4. jumps' = [t \in JumpTargets |->
          CASE t = "PRE" -> 1
            [] t = "OUT" -> IF c.output THEN 1 ELSE 0
            [] t = "DNS" -> IF c.dns THEN 1 ELSE 0
            [] OTHER     -> 0]
    <3>1. \A t \in JumpTargets : jumps'[t] =
            CASE t = "PRE" -> 1
              [] t = "OUT" -> IF c.output THEN 1 ELSE 0
              [] t = "DNS" -> IF c.dns THEN 1 ELSE 0
              [] OTHER     -> 0
      BY <2>3, Named DEF LiveChains
    <3> QED
      BY <3>1 DEF Kerneled
  <2>5. \A i \in 1..5 : Holds(Owned[i], Body(c, Owned[i]))'
    BY <1>2, <2>1 DEF SoFar, ChainsSoFar
  <2>6. iprule' = 1 /\ route'
    BY <1>2, <2>1 DEF SoFar, RouteSoFar
  <2> QED
    BY <1>4, <2>4, <2>5, <2>6, Named DEF Programmed, Holds
<1> QED
  BY <1>3, <1>4

\* The invariant holds at the start.
LEMMA InitInv == Init => RoutingInv
<1> SUFFICES ASSUME Init PROVE RoutingInv
  OBVIOUS
<1>1. Typed
  BY InitTyped
<1>2. Solo /\ Serial
  BY DEF Init, Solo, Serial, Active
<1>3. LiveChainsWhole
  <2>1. jumps["PRE"] = 0 /\ jumps["OUT"] = 0 /\ jumps["DNS"] = 0
    BY Named DEF Init, Legacy
  <2> QED
    BY <2>1 DEF LiveChainsWhole, WholeBehind
<1> QED
  BY <1>1, <1>2, <1>3 DEF RoutingInv

\* A program that begins is alone, at its first step, or spoils intact.
LEMMA BeginInv ==
  ASSUME RoutingInv, NEW p \in Procs, NEW c \in Config, Begin(p, ApplyProgram(c), c)
  PROVE  Solo' /\ Serial' /\ LiveChainsWhole'
<1>1. Typed /\ Kerneled
  BY DEF RoutingInv, Typed, TypeOK, Kerneled
<1>2. /\ goal'[p] = c /\ prog'[p] = ApplyProgram(c) /\ UNCHANGED kernel
      /\ \A q \in Procs \ {p} : prog'[q] = prog[q]
      /\ \A q \in Procs : alone'[q] <=> q = p /\ \A r \in Procs : ~Active(r)
      /\ intact' <=> intact /\ \A r \in Procs : ~Active(r)
  BY <1>1 DEF Begin, Typed, TypeOK
<1>3. LiveChainsWhole'
  <2>1. chains' = chains /\ jumps' = jumps
    BY <1>2 DEF kernel
  <2>2. LiveChainsWhole
    BY DEF RoutingInv
  <2> QED
    BY <1>2, <2>1, <2>2 DEF LiveChainsWhole, WholeBehind
<1>4. CASE \A r \in Procs : ~Active(r)
  <2>1. \A q \in Procs \ {p} : ~Active(q)'
    BY <1>2, <1>4 DEF Active
  <2>2. OnItsWay(p)'
    <3>1. /\ ApplyProgram(c) \in Seq(Steps) /\ 0 \in 0..Len(ApplyProgram(c))
          /\ BodyEnd(c) >= 23 /\ JumpEnd(c) >= BodyEnd(c) /\ BodyEnd(c) \in Nat /\ JumpEnd(c) \in Nat
      <4>1. ApplyProgram(c) \in Seq(Steps)
        BY Ends
      <4>2. Len(ApplyProgram(c)) \in Nat
        BY <4>1
      <4> QED
        BY <4>1, <4>2, Ends
    <3>2. Place(c, 0, prog[p])'
      <4>1. Rest(ApplyProgram(c), 0) = ApplyProgram(c)
        BY <3>1, RestOf
      <4> QED
        BY <1>2, <4>1 DEF Place
    <3>3. SoFar(c, 0)'
      <4>1. ~(0 >= BodyEnd(c)) /\ ~(0 \in 18..23) /\ ~(0 \in 23..BodyEnd(c)) /\ ~(0 \in 17..JumpEnd(c)+2)
            /\ ~(0 >= JumpEnd(c)+2) /\ 0 # JumpEnd(c)+3 /\ \A i \in 1..4 : ~(i <= 0)
        BY <3>1
      <4> QED
        BY <4>1 DEF SoFar, JumpsSoFar, ChainsSoFar, RouteSoFar
    <3> QED
      BY <1>2, <3>1, <3>2, <3>3 DEF OnItsWay
  <2> QED
    BY <1>2, <1>3, <1>4, <2>1, <2>2 DEF Solo, Serial
<1>5. CASE ~\A r \in Procs : ~Active(r)
  BY <1>2, <1>3, <1>5 DEF Solo, Serial
<1> QED
  BY <1>4, <1>5

\* A program that gives up leaves the kernel as it is.
LEMMA AbortInv ==
  ASSUME RoutingInv, NEW p \in Procs, Abort(p)
  PROVE  Solo' /\ Serial' /\ LiveChainsWhole'
<1>1. /\ UNCHANGED <<kernel, goal, alone, intact>> /\ prog'[p] = <<>>
      /\ \A q \in Procs \ {p} : prog'[q] = prog[q]
  BY DEF Abort, RoutingInv, Typed
<1>2. LiveChainsWhole'
  BY <1>1 DEF RoutingInv, LiveChainsWhole, WholeBehind, kernel
<1>3. ASSUME NEW q \in Procs, Active(q)' PROVE q # p /\ Active(q) /\ (OnItsWay(q) => OnItsWay(q)')
  <2>1. q # p /\ prog'[q] = prog[q] /\ goal'[q] = goal[q] /\ UNCHANGED kernel
    BY <1>1, <1>3 DEF Active
  <2>2. \A k : SoFar(goal[q], k) => SoFar(goal[q], k)'
    BY <1>1 DEF SoFar, JumpsSoFar, ChainsSoFar, RouteSoFar, Holds, Jumped, kernel
  <2>3. \A k : Place(goal[q], k, prog[q]) => Place(goal[q], k, prog[q])'
    BY <2>1 DEF Place, kernel
  <2> QED
    BY <1>3, <2>1, <2>2, <2>3 DEF OnItsWay, Active
<1> QED
  BY <1>1, <1>2, <1>3 DEF RoutingInv, Solo, Serial

\* A command that goes on keeps the invariant.
LEMMA ContinueInv ==
  ASSUME ~Misread, RoutingInv, NEW p \in Procs, Command(p), ~Abort(p), Kerneled'
  PROVE  Solo' /\ Serial' /\ LiveChainsWhole'
<1>1. PICK more : Continue(p, more)
  BY CommandFrame
<1>2. Active(p) /\ Kerneled /\ goal[p] \in Config
  BY CommandFrame DEF RoutingInv, Typed, TypeOK, Kerneled
<1>3. /\ goal' = goal /\ alone' = alone
      /\ \A q \in Procs \ {p} : prog'[q] = prog[q]
      /\ intact' <=> intact \/ (prog'[p] = <<>> /\ alone[p])
  BY <1>1 DEF Continue, RoutingInv, Typed, TypeOK
<1>4. CASE alone[p]
  <2>1. OnItsWay(p) /\ \A q \in Procs \ {p} : ~Active(q)
    BY <1>2, <1>4 DEF RoutingInv, Solo
  <2>2. \A q \in Procs \ {p} : ~Active(q)'
    BY <1>3, <2>1 DEF Active
  <2>3. PICK c \in Config : c = goal[p]
    BY <1>2
  <2>4. PICK n \in 0..Len(ApplyProgram(c)) :
          /\ Place(c, n, prog[p])' /\ SoFar(c, n)'
          /\ n >= 4 \/ (chains' = chains /\ \A t \in JumpTargets : jumps'[t] <= jumps[t])
    <3>1. Advanced(p)
      BY <2>1, SoloStep DEF RoutingInv
    <3> QED
      BY <1>3, <2>3, <3>1 DEF Advanced
  <2>5. OnItsWay(p)'
    BY <1>3, <2>3, <2>4 DEF OnItsWay
  <2>6. Solo' /\ Serial'
    BY <1>3, <1>4, <2>2, <2>5 DEF Solo, Serial
  <2>7. n \in Nat
    <3>1. ApplyProgram(c) \in Seq(Steps)
      BY Ends
    <3> QED
      BY <2>4, <3>1
  <2>8. CASE n >= 4
    BY <2>4, <2>6, <2>7, <2>8, SoFarWhole
  <2>9. CASE ~(n >= 4)
    <3>1. prog'[p] # <<>>
      <4> SUFFICES ASSUME prog'[p] = <<>> PROVE FALSE
        OBVIOUS
      <4>1. Place(c, n, <<>>)'
        BY <2>4
      <4>2. n = Len(ApplyProgram(c))
        BY <4>1, AtTheEnd
      <4> DEFINE l == Len(ApplyProgram(c))
      <4>3. /\ BodyEnd(c) \in Nat /\ BodyEnd(c) >= 23 /\ JumpEnd(c) \in Nat /\ JumpEnd(c) >= BodyEnd(c)
            /\ l = IF Explicit(c) THEN 18 ELSE JumpEnd(c) + 3
        BY Ends
      <4>4. n = l
        BY <4>2
      <4> HIDE DEF l
      <4> QED
        BY <2>7, <2>9, <4>3, <4>4
    <3>2. \A t \in JumpTargets : jumps'[t] <= jumps[t] /\ jumps'[t] \in Nat
      BY <2>4, <2>9, RoutingAssumption DEF Kerneled
    <3>3. LiveChainsWhole /\ chains' = chains /\ (intact' => intact)
      BY <1>3, <2>4, <2>9, <3>1 DEF RoutingInv
    <3> QED
      BY <1>2, <2>6, <3>2, <3>3, WholeKept
  <2> QED
    BY <2>8, <2>9
<1>5. CASE ~alone[p]
  <2>1. ~intact /\ ~intact'
    BY <1>2, <1>3, <1>5 DEF RoutingInv, Serial
  <2>2. \A q \in Procs : ~(alone'[q] /\ Active(q)')
    <3> SUFFICES ASSUME NEW q \in Procs, alone'[q], Active(q)' PROVE FALSE
      OBVIOUS
    <3>1. q # p /\ alone[q] /\ Active(q)
      BY <1>3, <1>5 DEF Active
    <3> QED
      BY <1>2, <3>1 DEF RoutingInv, Solo
  <2> QED
    BY <2>1, <2>2 DEF Solo, Serial, LiveChainsWhole
<1> QED
  BY <1>4, <1>5

\* ClearRules runs the program of a configuration with all switches off.
LEMMA NothingIsExplicit == Nothing \in Config /\ ApplyProgram(Nothing) = ClearProgram
BY DEF Nothing, Config, ApplyProgram, Explicit

\* Every step keeps the invariant.
LEMMA StepInv ==
  ASSUME ~Misread, RoutingInv, [Next]_vars
  PROVE  RoutingInv'
<1>1. Typed' /\ Kerneled'
  <2>1. Typed'
    BY StepTyped DEF RoutingInv
  <2> QED
    BY <2>1 DEF Typed, TypeOK, Kerneled
<1>2. ASSUME NEW p \in Procs, NEW c \in Configs, ApplyRules(p, c) PROVE RoutingInv'
  <2>1. c \in Config
    BY RoutingAssumption
  <2> QED
    BY <1>1, <1>2, <2>1, BeginInv DEF ApplyRules, RoutingInv
<1>3. ASSUME NEW p \in Procs, ClearRules(p) PROVE RoutingInv'
  <2>1. Begin(p, ApplyProgram(Nothing), Nothing)
    BY <1>3, NothingIsExplicit DEF ClearRules
  <2> QED
    BY <1>1, <2>1, NothingIsExplicit, BeginInv DEF RoutingInv
<1>4. ASSUME NEW p \in Procs, Abort(p) PROVE RoutingInv'
  BY <1>1, <1>4, AbortInv DEF RoutingInv
<1>5. ASSUME NEW p \in Procs, Command(p) PROVE RoutingInv'
  BY <1>1, <1>4, <1>5, ContinueInv DEF RoutingInv
<1>6. CASE UNCHANGED vars
  <2>1. UNCHANGED kernel /\ prog' = prog /\ goal' = goal /\ alone' = alone /\ intact' = intact
    BY <1>6 DEF vars
  <2>2. \A c, k : SoFar(c, k) => SoFar(c, k)'
    BY <2>1 DEF SoFar, JumpsSoFar, ChainsSoFar, RouteSoFar, Holds, Jumped, kernel
  <2>3. ASSUME NEW p \in Procs PROVE OnItsWay(p) => OnItsWay(p)'
    <3>1. prog'[p] = prog[p] /\ goal'[p] = goal[p] /\ UNCHANGED kernel
      BY <2>1
    <3>2. \A k : Place(goal[p], k, prog[p]) => Place(goal[p], k, prog[p])'
      BY <3>1 DEF Place, kernel
    <3> QED
      BY <2>2, <3>1, <3>2 DEF OnItsWay
  <2>4. Solo' /\ Serial'
    BY <2>1, <2>3 DEF RoutingInv, Solo, Serial, Active
  <2>5. LiveChainsWhole'
    BY <2>1 DEF RoutingInv, LiveChainsWhole, WholeBehind, kernel
  <2> QED
    BY <1>1, <2>4, <2>5 DEF RoutingInv
<1> QED
  BY <1>2, <1>3, <1>4, <1>5, <1>6 DEF Next, Fail

\* The inductive invariant of the rules and the programs, where a check tells the truth.
THEOREM InvHolds ==
  ASSUME ~Misread
  PROVE  Spec => []RoutingInv
<1>1. RoutingInv /\ [Next]_vars => RoutingInv'
  BY StepInv
<1> QED
  BY <1>1, InitInv, PTL DEF Spec

\* Where a check tells the truth: as long as no two programs have overlapped, packets
\* that a built-in chain sends to mihomo's chains find a complete body there, at every
\* step of a program and after any failure.
THEOREM LiveChainsAreWhole ==
  ASSUME ~Misread
  PROVE  Spec => []LiveChainsWhole
<1>1. RoutingInv => LiveChainsWhole
  BY DEF RoutingInv
<1> QED
  BY <1>1, InvHolds, PTL

\* Where a check tells the truth: a program that runs alone and reports success
\* leaves exactly what its configuration asks for, whatever it has found.
THEOREM SuccessLeavesExactly ==
  ASSUME ~Misread
  PROVE  Spec => SuccessIsExact
<1> DEFINE Exact(p) ==
      Active(p) /\ ~Active(p)' /\ result'[p] = "ok" /\ alone[p]
      => IF Explicit(goal[p]) THEN Unprogrammed' ELSE Programmed(goal[p])'
<1>1. ASSUME RoutingInv, [Next]_vars, NEW q \in Procs PROVE Exact(q)
  <2> SUFFICES ASSUME Active(q), ~Active(q)', result'[q] = "ok", alone[q]
               PROVE  IF Explicit(goal[q]) THEN Unprogrammed' ELSE Programmed(goal[q])'
    OBVIOUS
  <2>1. Typed /\ Solo /\ Typed'
    BY <1>1, StepTyped DEF RoutingInv
  <2>2. ~Abort(q)
    BY <2>1 DEF Abort, Typed, TypeOK
  <2>3. Command(q)
    <3>1. prog' # prog
      BY DEF Active
    <3>2. PICK p \in Procs :
            \/ \E c \in Configs : ApplyRules(p, c)
            \/ ClearRules(p) \/ Command(p) \/ Fail(p)
      BY <1>1, <3>1 DEF Next, vars
    <3>3. p = q
      <4>1. \/ \E steps, what : Begin(p, steps, what)
            \/ Abort(p) \/ \E more : Continue(p, more)
        BY <3>2, CommandFrame DEF ApplyRules, ClearRules, Fail
      <4>2. \A r \in Procs \ {p} : prog'[r] = prog[r]
        BY <2>1, <4>1 DEF Begin, Abort, Continue, Typed
      <4> QED
        BY <4>2 DEF Active
    <3> QED
      BY <2>2, <3>2, <3>3 DEF ApplyRules, ClearRules, Fail
  <2>4. OnItsWay(q)
    BY <2>1 DEF Solo
  <2>5. Advanced(q)
    BY <2>1, <2>2, <2>3, <2>4, SoloStep
  <2>6. goal'[q] = goal[q] /\ prog'[q] = <<>>
    BY <2>2, <2>3, CommandFrame DEF Continue, Active
  <2>7. PICK c \in Config : c = goal[q]
    BY <2>1 DEF Typed, TypeOK
  <2>8. PICK n \in 0..Len(ApplyProgram(c)) : Place(c, n, prog[q])' /\ SoFar(c, n)'
    BY <2>5, <2>6, <2>7 DEF Advanced
  <2>9. n = Len(ApplyProgram(c))
    <3>1. Place(c, n, <<>>)'
      BY <2>6, <2>8
    <3> QED
      BY <3>1, AtTheEnd
  <2>10. Kerneled'
    BY <2>1 DEF Typed, TypeOK, Kerneled
  <2>11. IF Explicit(c) THEN Unprogrammed' ELSE Programmed(c)'
    BY <2>8, <2>9, <2>10, SoFarExact
  <2> QED
    BY <2>6, <2>7, <2>11
<1>2. RoutingInv /\ [Next]_vars => [\A p \in Procs : Exact(p)]_vars
  BY <1>1
<1> QED
  BY <1>2, InvHolds, PTL DEF Spec, SuccessIsExact
=============================================================================
