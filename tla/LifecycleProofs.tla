--------------------------- MODULE LifecycleProofs ----------------------------
(***************************************************************************)
(* Theorems about CoreUpgrade and Lifecycle for any binaries and processes.*)
(* First CoreUpgrade, when upgrades do not overlap: TypeOK /\ UpgradeInv is *)
(* inductive, and each lemma proves one group of actions to keep it.  Then *)
(* Lifecycle: its types, the refinement of CoreUpgrade, whose theorems it  *)
(* inherits, and that the program stands aside on a host of the legacy     *)
(* service.                                                                *)
(***************************************************************************)
EXTENDS Lifecycle, TLAPS
-----------------------------------------------------------------------------
(* CoreUpgrade *)

OneAtATime == \A p, q \in Procs : p = q

LEMMA InitOK == Init => TypeOK /\ UpgradeInv
BY UpgradeAssumption DEF Init, TypeOK, File, UpgradeInv, CoreRecoverable, StageOK

LEMMA EndType ==
  ASSUME NEW p \in Procs, NEW outcome \in {"upgraded", "error", "restored", "preserved"},
         TypeOK, End(p, outcome)
  PROVE  /\ pc' = [pc EXCEPT ![p] = "idle"]
         /\ pc' \in [Procs -> {"idle", "select", "versions", "unback", "backup", "install", "restart",
                               "unfail", "setaside", "restore", "again"}]
         /\ seen' \in [Procs -> (Listings \X Settings) \cup {None}]
         /\ candidate' \in [Procs -> File] /\ old' \in [Procs -> File]
         /\ result' \in [Procs -> {"none", "upgraded", "error", "restored", "preserved"}]
         /\ kept' \in File
         /\ \A q \in Procs : /\ (candidate'[q] = None) = (pc'[q] \in {"idle", "select"})
                            /\ (seen'[q] = None) = (pc'[q] # "select")
<1>1. None \in File
  BY DEF File
<1>2. kept' \in File
  BY <1>1 DEF End, TypeOK
<1>3. QED
  BY <1>1, <1>2 DEF End, TypeOK

LEMMA DownloadType ==
  ASSUME NEW p \in Procs, TypeOK, Download(p)
  PROVE  TypeOK'
<1> USE UpgradeAssumption DEF File
<1>1. CASE End(p, "error")
  BY <1>1, EndType DEF TypeOK, Download, files
<1>2. ASSUME NEW asset \in selectLatestAlphaAsset(seen[p][1], Goarch, seen[p][2]),
             candidate' = [candidate EXCEPT ![p] = asset.core],
             seen' = [seen EXCEPT ![p] = None],
             pc' = [pc EXCEPT ![p] = "versions"],
             UNCHANGED <<old, result, kept>>
      PROVE  TypeOK'
  <2>1. seen[p] \in Listings \X Settings
    BY DEF TypeOK, Download
  <2>2. seen[p][1] \in Listings /\ seen[p][2] \in Settings
    BY <2>1
  <2>3. asset.core \in Binaries
    BY <1>2, <2>2
  <2>4. QED
    BY <1>2, <2>3 DEF TypeOK, Download, files
<1>3. QED
  BY <1>1, <1>2 DEF Download

LEMMA TypeStep == TypeOK /\ [Next]_vars => TypeOK'
<1> SUFFICES ASSUME TypeOK, [Next]_vars PROVE TypeOK'
  OBVIOUS
<1> USE UpgradeAssumption DEF File
<1>0. ASSUME NEW p \in Procs, FetchReleases(p)
      PROVE  TypeOK'
  BY <1>0 DEF TypeOK, FetchReleases, files
<1>1. ASSUME NEW p \in Procs, Download(p)
      PROVE  TypeOK'
  BY <1>1, DownloadType
<1>2. ASSUME NEW p \in Procs, ReadVersions(p)
      PROVE  TypeOK'
  BY <1>2, EndType DEF TypeOK, ReadVersions, Goto, files
<1>3. ASSUME NEW p \in Procs, RemoveBackup(p)
      PROVE  TypeOK'
  BY <1>3, EndType DEF TypeOK, RemoveBackup, Goto
<1>4. ASSUME NEW p \in Procs, BackupCore(p)
      PROVE  TypeOK'
  BY <1>4, EndType DEF TypeOK, BackupCore
<1>5. ASSUME NEW p \in Procs, InstallCandidate(p)
      PROVE  TypeOK'
  BY <1>5, EndType DEF TypeOK, InstallCandidate, Goto
<1>6. ASSUME NEW p \in Procs, RestartNew(p)
      PROVE  TypeOK'
  BY <1>6, EndType DEF TypeOK, RestartNew, ComesUp, StaysDown, Goto
<1>7. ASSUME NEW p \in Procs, RemoveFailed(p)
      PROVE  TypeOK'
  BY <1>7, EndType DEF TypeOK, RemoveFailed, Goto
<1>8. ASSUME NEW p \in Procs, SetAside(p)
      PROVE  TypeOK'
  BY <1>8, EndType DEF TypeOK, SetAside, Goto
<1>9. ASSUME NEW p \in Procs, RestoreBackup(p)
      PROVE  TypeOK'
  BY <1>9, EndType DEF TypeOK, RestoreBackup, Goto
<1>10. ASSUME NEW p \in Procs, RestartOld(p)
       PROVE  TypeOK'
  BY <1>10, EndType DEF TypeOK, RestartOld, ComesUp, StaysDown, files
<1>11. ASSUME NEW p \in Procs, Die(p)
       PROVE  TypeOK'
  BY <1>11, EndType DEF TypeOK, Die, files
<1>12. CASE CoreExits \/ UnitRetries
  BY <1>12 DEF TypeOK, CoreExits, UnitRetries, files
<1>13. CASE UNCHANGED vars
  BY <1>13 DEF TypeOK, vars, files
<1>14. QED
  BY <1>0, <1>1, <1>2, <1>3, <1>4, <1>5, <1>6, <1>7, <1>8, <1>9, <1>10, <1>11, <1>12, <1>13
     DEF Next, Upgrade

\* With one upgrade at a time, a step that ends one leaves nothing to show but that
\* a core can be recovered.
LEMMA EndStep ==
  ASSUME OneAtATime, TypeOK, NEW p \in Procs, NEW outcome, End(p, outcome),
         CoreRecoverable'
  PROVE  UpgradeInv'
BY DEF OneAtATime, TypeOK, End, UpgradeInv, StageOK

LEMMA InvStep ==
  ASSUME OneAtATime, TypeOK, UpgradeInv, [Next]_vars
  PROVE  UpgradeInv'
<1> USE UpgradeAssumption
<1>0. \A p \in Procs : StageOK(p) /\ CoreRecoverable
  BY DEF UpgradeInv
<1>13. ASSUME NEW p \in Procs, FetchReleases(p)
       PROVE  UpgradeInv'
  BY <1>0, <1>13 DEF OneAtATime, TypeOK, FetchReleases, files, UpgradeInv, CoreRecoverable, StageOK
<1>1. ASSUME NEW p \in Procs, Download(p)
      PROVE  UpgradeInv'
  <2>1. CASE End(p, "error")
    BY <1>0, <1>1, <2>1, EndStep DEF Download, files, CoreRecoverable
  <2>2. CASE pc' = [pc EXCEPT ![p] = "versions"] /\ UNCHANGED <<old, result, kept>>
    BY <1>0, <1>1, <2>2 DEF OneAtATime, TypeOK, Download, files, UpgradeInv, CoreRecoverable,
       StageOK
  <2>3. QED
    BY <1>1, <2>1, <2>2 DEF Download
<1>2. ASSUME NEW p \in Procs, ReadVersions(p)
      PROVE  UpgradeInv'
  <2>1. CASE End(p, "error")
    BY <1>0, <1>2, <2>1, EndStep DEF ReadVersions, files, CoreRecoverable
  <2>2. CASE core \in Answers /\ candidate[p] \in Answers /\ Goto(p, "unback")
    BY <1>0, <1>2, <2>2 DEF OneAtATime, TypeOK, ReadVersions, Goto, files, UpgradeInv,
       CoreRecoverable, StageOK
  <2>3. QED
    BY <1>2, <2>1, <2>2 DEF ReadVersions
<1>3. ASSUME NEW p \in Procs, RemoveBackup(p)
      PROVE  UpgradeInv'
  <2>1. core \in Answers /\ core # None
    BY <1>0, <1>3 DEF RemoveBackup, StageOK
  <2>2. CASE End(p, "error")
    BY <1>3, <2>1, <2>2, EndStep DEF RemoveBackup, CoreRecoverable
  <2>3. CASE Goto(p, "backup")
    BY <1>0, <1>3, <2>1, <2>3 DEF OneAtATime, TypeOK, RemoveBackup, Goto, UpgradeInv,
       CoreRecoverable, StageOK
  <2>4. QED
    BY <1>3, <2>2, <2>3 DEF RemoveBackup
<1>4. ASSUME NEW p \in Procs, BackupCore(p)
      PROVE  UpgradeInv'
  <2>1. core \in Answers /\ core # None /\ candidate[p] \in Answers
    BY <1>0, <1>4 DEF BackupCore, StageOK
  <2>2. CASE UNCHANGED <<core, bak>> /\ End(p, "error")
    BY <2>1, <2>2, EndStep DEF CoreRecoverable
  <2>3. CASE /\ bak' = core /\ core' = None
             /\ old' = [old EXCEPT ![p] = core]
             /\ pc' = [pc EXCEPT ![p] = "install"]
             /\ UNCHANGED <<seen, candidate, result, kept>>
    BY <1>0, <2>1, <2>3 DEF OneAtATime, TypeOK, UpgradeInv, CoreRecoverable, StageOK
  <2>4. QED
    BY <1>4, <2>2, <2>3 DEF BackupCore
<1>5. ASSUME NEW p \in Procs, InstallCandidate(p)
      PROVE  UpgradeInv'
  <2>1. bak = old[p] /\ old[p] \in Answers /\ candidate[p] \in Answers
    BY <1>0, <1>5 DEF InstallCandidate, StageOK
  <2>2. CASE End(p, "error") /\ bak # None /\ core' = bak /\ bak' = None
    BY <2>1, <2>2, EndStep DEF CoreRecoverable
  <2>3. CASE End(p, "error") /\ UNCHANGED <<core, bak>>
    BY <1>0, <2>1, <2>3, EndStep DEF CoreRecoverable
  <2>4. CASE core' = candidate[p] /\ UNCHANGED bak /\ Goto(p, "restart")
    BY <1>0, <2>1, <2>4 DEF OneAtATime, TypeOK, Goto, UpgradeInv, CoreRecoverable, StageOK
  <2>5. QED
    BY <1>5, <2>2, <2>3, <2>4 DEF InstallCandidate
<1>6. ASSUME NEW p \in Procs, RestartNew(p)
      PROVE  UpgradeInv'
  <2>1. bak = old[p] /\ old[p] \in Answers /\ core \in Answers /\ core # None
    BY <1>0, <1>6 DEF RestartNew, StageOK
  <2>2. CASE End(p, "upgraded")
    BY <1>6, <2>1, <2>2, EndStep DEF RestartNew, CoreRecoverable
  <2>3. CASE Goto(p, "unfail") /\ UNCHANGED bak
    BY <1>0, <1>6, <2>1, <2>3 DEF OneAtATime, TypeOK, RestartNew, Goto, UpgradeInv,
       CoreRecoverable, StageOK
  <2>4. QED
    BY <1>6, <2>2, <2>3 DEF RestartNew
<1>7. ASSUME NEW p \in Procs, RemoveFailed(p)
      PROVE  UpgradeInv'
  <2>1. /\ bak = old[p] /\ old[p] \in Answers /\ result[p] = "none"
        /\ core = candidate[p] /\ candidate[p] \in Answers
    BY <1>0, <1>7 DEF RemoveFailed, StageOK
  <2>2. CASE End(p, "preserved")
    BY <1>7, <2>1, <2>2, EndStep DEF RemoveFailed, CoreRecoverable
  <2>3. CASE failed' = None /\ Goto(p, "setaside")
    BY <1>0, <1>7, <2>1, <2>3 DEF OneAtATime, TypeOK, RemoveFailed, Goto, UpgradeInv,
       CoreRecoverable, StageOK
  <2>4. QED
    BY <1>7, <2>2, <2>3 DEF RemoveFailed
<1>8. ASSUME NEW p \in Procs, SetAside(p)
      PROVE  UpgradeInv'
  <2>1. bak = old[p] /\ old[p] \in Answers
    BY <1>0, <1>8 DEF SetAside, StageOK
  <2>2. CASE End(p, "preserved")
    BY <1>8, <2>1, <2>2, EndStep DEF SetAside, CoreRecoverable
  <2>3. CASE Goto(p, "restore")
    BY <1>0, <1>8, <2>1, <2>3 DEF OneAtATime, TypeOK, SetAside, Goto, UpgradeInv,
       CoreRecoverable, StageOK
  <2>4. QED
    BY <1>8, <2>2, <2>3 DEF SetAside
<1>9. ASSUME NEW p \in Procs, RestoreBackup(p)
      PROVE  UpgradeInv'
  <2>1. bak = old[p] /\ old[p] \in Answers /\ pc[p] = "restore"
    BY <1>0, <1>9 DEF RestoreBackup, StageOK
  <2>2. CASE End(p, "preserved") /\ UNCHANGED bak
    BY <2>1, <2>2, EndStep DEF CoreRecoverable
  <2>3. CASE Goto(p, "again") /\ core' = bak /\ bak' = None
    BY <1>0, <1>9, <2>1, <2>3 DEF OneAtATime, TypeOK, Goto, UpgradeInv, CoreRecoverable, StageOK
  <2>4. QED
    BY <1>9, <2>2, <2>3 DEF RestoreBackup
<1>10. ASSUME NEW p \in Procs, RestartOld(p) \/ Die(p)
       PROVE  UpgradeInv'
  BY <1>0, <1>10, EndStep DEF RestartOld, Die, files, CoreRecoverable
<1>11. CASE CoreExits \/ UnitRetries \/ UNCHANGED vars
  BY <1>0, <1>11 DEF CoreExits, UnitRetries, vars, files, UpgradeInv, CoreRecoverable, StageOK
<1>12. QED
  BY <1>1, <1>13, <1>2, <1>3, <1>4, <1>5, <1>6, <1>7, <1>8, <1>9, <1>10, <1>11
     DEF Next, Upgrade

\* The types of CoreUpgrade are right.
THEOREM TypeCorrect == Spec => []TypeOK
<1>1. QED
  BY InitOK, TypeStep, PTL DEF Spec

\* However upgrades fail, are killed and are tried again, one after the other: if
\* the core is gone, core.bak holds one that answers.
THEOREM NeverWithoutCore == ASSUME OneAtATime PROVE Spec => []CoreRecoverable
<1>1. Init => TypeOK /\ UpgradeInv
  BY InitOK
<1>2. TypeOK /\ UpgradeInv /\ [Next]_vars => TypeOK' /\ UpgradeInv'
  BY TypeStep, InvStep
<1>3. UpgradeInv => CoreRecoverable
  BY DEF UpgradeInv
<1>4. QED
  BY <1>1, <1>2, <1>3, PTL DEF Spec

\* A failed upgrade leaves the old core in place, or reports that core.bak has it.
THEOREM OldCoreKept == ASSUME OneAtATime PROVE Spec => FailureKeepsOld
<1>1. Init => TypeOK /\ UpgradeInv
  BY InitOK
<1>2. TypeOK /\ UpgradeInv /\ [Next]_vars => TypeOK' /\ UpgradeInv'
  BY TypeStep, InvStep
<1>3. ASSUME TypeOK, UpgradeInv, Next, NEW p \in Procs
      PROVE  /\ pc[p] = "again" /\ result'[p] = "restored" => core' = old[p]
             /\ pc[p] # "idle" /\ result'[p] = "preserved" => bak' = old[p]
  <2> SUFFICES ASSUME pc[p] # "idle"
               PROVE  /\ pc[p] = "again" /\ result'[p] = "restored" => core' = old[p]
                      /\ result'[p] = "preserved" => bak' = old[p]
    OBVIOUS
  <2>1. StageOK(p) /\ result[p] = "none"
    BY <1>3 DEF UpgradeInv, StageOK
  <2>2. CASE CoreExits \/ UnitRetries
    BY <2>1, <2>2 DEF CoreExits, UnitRetries
  <2>3. CASE \E q \in Procs : Upgrade(q) \/ Die(q)
    <3>1. Upgrade(p) \/ Die(p)
      BY <2>3 DEF OneAtATime
    <3>2. CASE FetchReleases(p) \/ Download(p) \/ ReadVersions(p) \/ RemoveBackup(p) \/ BackupCore(p)
                 \/ InstallCandidate(p) \/ RestartNew(p) \/ Die(p)
      BY <1>3, <2>1, <3>2 DEF FetchReleases, Download, ReadVersions, RemoveBackup, BackupCore,
         InstallCandidate, RestartNew, Die, Goto, End, TypeOK
    <3>3. CASE RemoveFailed(p) \/ SetAside(p)
      BY <1>3, <2>1, <3>3 DEF RemoveFailed, SetAside, Goto, StageOK
    <3>4. CASE RestoreBackup(p)
      BY <1>3, <2>1, <3>4 DEF RestoreBackup, Goto, StageOK
    <3>5. CASE RestartOld(p)
      BY <1>3, <2>1, <3>5 DEF RestartOld, End, files, StageOK, TypeOK
    <3>6. QED
      BY <3>1, <3>2, <3>3, <3>4, <3>5 DEF Upgrade
  <2>4. QED
    BY <1>3, <2>2, <2>3 DEF Next
<1>4. TypeOK /\ UpgradeInv /\ [Next]_vars =>
        [\A p \in Procs :
           /\ pc[p] = "again" /\ result'[p] = "restored" => core' = old[p]
           /\ pc[p] # "idle" /\ result'[p] = "preserved" => bak' = old[p]]_vars
  BY <1>3
<1>5. QED
  BY <1>1, <1>2, <1>4, PTL DEF Spec, FailureKeepsOld

\* What a step does to the one place of the core binary, when upgrades do not overlap.
LEMMA CoreStep ==
  ASSUME OneAtATime, TypeOK, UpgradeInv, [Next]_vars
  PROVE  [Core!Next]_<<IF core # None THEN core ELSE bak, old[CHOOSE p \in Procs : TRUE]>>
<1> DEFINE slot == IF core # None THEN core ELSE bak
           q == CHOOSE p \in Procs : TRUE
           previous == old[q]
<1> USE UpgradeAssumption
<1>1. q \in Procs /\ \A p \in Procs : p = q
  BY DEF OneAtATime
<1>2. StageOK(q) /\ None \notin Answers
  BY <1>1 DEF UpgradeInv
<1>3. slot' = IF core' # None THEN core' ELSE bak'
  OBVIOUS
<1>4. ASSUME NEW outcome, End(q, outcome)
      PROVE  previous' = None
  BY <1>1, <1>4 DEF End, TypeOK
<1>5. ASSUME UNCHANGED slot, previous' \in {previous, None}
      PROVE  [Core!Next]_<<slot, previous>>
  BY <1>5 DEF Core!Next, Core!End
<1>6. CASE \/ FetchReleases(q) \/ Download(q) \/ ReadVersions(q) \/ RestartNew(q)
           \/ RemoveFailed(q) \/ RestartOld(q) \/ Die(q)
  <2>1. core' = core /\ previous' \in {previous, None}
    BY <1>1, <1>4, <1>6 DEF FetchReleases, Download, ReadVersions, RestartNew, RemoveFailed,
       RestartOld, Die, Goto, files
  <2>2. slot' = slot
    BY <1>1, <1>2, <1>6, <2>1 DEF FetchReleases, Download, ReadVersions, RestartNew,
       RemoveFailed, RestartOld, Die, files, StageOK
  <2>3. QED
    BY <2>1, <2>2, <1>5
<1>7. CASE RemoveBackup(q)
  <2>1. core' = core /\ core # None /\ previous' \in {previous, None}
    BY <1>2, <1>4, <1>7 DEF RemoveBackup, Goto, StageOK
  <2>2. QED
    BY <2>1, <1>5
<1>8. CASE BackupCore(q)
  <2>1. CASE End(q, "error") /\ UNCHANGED <<core, bak>>
    BY <1>4, <1>5, <2>1
  <2>2. CASE core # None /\ bak' = core /\ core' = None /\ old' = [old EXCEPT ![q] = core]
    <3>1. previous = None /\ previous' = slot /\ slot' = slot
      BY <1>1, <1>2, <1>8, <2>2 DEF BackupCore, StageOK, TypeOK
    <3>2. QED
      BY <3>1 DEF Core!Next, Core!Begin
  <2>3. QED
    BY <1>8, <2>1, <2>2 DEF BackupCore
<1>9. CASE InstallCandidate(q)
  <2>1. bak = previous /\ previous # None /\ candidate[q] \in Answers
    BY <1>2, <1>9 DEF InstallCandidate, StageOK
  <2>2. CASE core' = candidate[q] /\ UNCHANGED bak /\ Goto(q, "restart")
    <3>1. slot' \in Answers /\ previous' = previous
      BY <1>2, <2>1, <2>2 DEF Goto
    <3>2. QED
      BY <2>1, <3>1 DEF Core!Next, Core!Switch
  <2>3. CASE core' = bak /\ bak' = None /\ End(q, "error")
    <3>1. slot' = previous /\ previous' = None
      BY <1>4, <2>1, <2>3
    <3>2. QED
      BY <2>1, <3>1 DEF Core!Next, Core!TakeBack
  <2>4. CASE UNCHANGED <<core, bak>> /\ End(q, "error")
    BY <1>4, <1>5, <2>4
  <2>5. QED
    BY <1>9, <2>2, <2>3, <2>4 DEF InstallCandidate
<1>10. CASE SetAside(q)
  <2>1. bak = previous /\ previous # None
    BY <1>2, <1>10 DEF SetAside, StageOK
  <2>2. CASE UNCHANGED <<core, failed>>
    BY <1>4, <1>5, <1>10, <2>2 DEF SetAside, Goto
  <2>3. CASE core' = None /\ Goto(q, "restore")
    <3>1. slot' = previous /\ previous' = previous
      BY <1>10, <2>1, <2>3 DEF SetAside, Goto
    <3>2. QED
      BY <2>1, <3>1 DEF Core!Next, Core!TakeBack
  <2>4. QED
    BY <1>10, <2>2, <2>3 DEF SetAside
<1>11. CASE RestoreBackup(q)
  <2>1. bak = previous /\ previous # None /\ failed \in Answers \cup {None}
    BY <1>2, <1>11 DEF RestoreBackup, StageOK
  <2>2. CASE core' = bak /\ Goto(q, "again")
    <3>1. slot' = previous /\ previous' = previous
      BY <2>1, <2>2 DEF Goto
    <3>2. QED
      BY <2>1, <3>1 DEF Core!Next, Core!TakeBack
  <2>3. CASE failed # None /\ core' = failed /\ End(q, "preserved")
    <3>1. slot' \in Answers /\ previous' = None
      BY <1>2, <1>4, <2>1, <2>3
    <3>2. QED
      BY <2>1, <3>1 DEF Core!Next, Core!Switch
  <2>4. CASE UNCHANGED <<core, bak>> /\ End(q, "preserved")
    BY <1>4, <1>5, <2>4
  <2>5. QED
    BY <1>11, <2>2, <2>3, <2>4 DEF RestoreBackup
<1>12. CASE CoreExits \/ UnitRetries \/ UNCHANGED vars
  BY <1>12 DEF CoreExits, UnitRetries, vars, files
<1>13. QED
  BY <1>1, <1>6, <1>7, <1>8, <1>9, <1>10, <1>11, <1>12 DEF Next, Upgrade

\* Upgrades that do not overlap implement AtomicCore, however they fail or are killed:
\* the place of the core always holds a binary that answers, and changes only while
\* the one before is set aside.
THEOREM ImplementsAtomicCore == ASSUME OneAtATime PROVE Spec => CoreSpec
<1>1. Init => TypeOK /\ UpgradeInv
  BY InitOK
<1>2. TypeOK /\ UpgradeInv /\ [Next]_vars => TypeOK' /\ UpgradeInv'
  BY TypeStep, InvStep
<1>3. Init => Core!Init
  BY UpgradeAssumption DEF Init, Core!Init
<1>4. TypeOK /\ UpgradeInv /\ [Next]_vars =>
        [Core!Next]_<<IF core # None THEN core ELSE bak, old[CHOOSE p \in Procs : TRUE]>>
  BY CoreStep
<1>5. QED
  BY <1>1, <1>2, <1>3, <1>4, PTL DEF Spec, CoreSpec, Core!Spec
-----------------------------------------------------------------------------
(* Lifecycle *)


LEMMA LifecycleInitOK == LifecycleInit => LifecycleTypeOK /\ Init
BY UpgradeAssumption DEF LifecycleInit, LifecycleTypeOK, Init

\* Each step is a step of CoreUpgrade or leaves its variables alone.
LEMMA LifecycleStep == [LifecycleNext]_lvars => [Next]_vars
<1> SUFFICES ASSUME [LifecycleNext]_lvars PROVE [Next]_vars
  OBVIOUS
<1>1. ASSUME NEW p \in Procs, RestartsUnit(p) \/ UpgradeStep(p)
      PROVE  Next
  BY <1>1 DEF RestartsUnit, UpgradeStep, Next, Upgrade
<1>2. ASSUME NEW p \in Procs, Pass(p) \/ WriteUnit(p) \/ Enable(p) \/ Apply(p) \/ Program(p)
      PROVE  UNCHANGED vars
  BY <1>2 DEF Pass, WriteUnit, Enable, Apply, Program
<1>3. ASSUME NEW p \in Procs, StartUnit(p) \/ StopToRestart(p) \/ Stop(p)
      PROVE  [Next]_vars
  BY <1>3 DEF StartUnit, StopToRestart, Stop, Next
<1>4. CASE UnitExits \/ RetryUp \/ RetryDown
  BY <1>4 DEF UnitExits, RetryUp, RetryDown, Next
<1>5. CASE LegacyChanges \/ Disable \/ InputsChange \/ UNCHANGED lvars
  BY <1>5 DEF LegacyChanges, Disable, InputsChange, lvars
<1>6. QED
  BY <1>1, <1>2, <1>3, <1>4, <1>5 DEF LifecycleNext

\* The stages of an upgrade other than its restarts leave the running core alone.
LEMMA UpgradeLeavesRunning ==
  ASSUME NEW p \in Procs, UpgradeStep(p)
  PROVE  UNCHANGED <<running, host>>
BY DEF UpgradeStep, Upgrade, Die, FetchReleases, Download, ReadVersions, RemoveBackup, BackupCore,
   InstallCandidate, RestartNew, RemoveFailed, SetAside, RestoreBackup, RestartOld

\* An attempt to start the unit, its core running or not yet.
LEMMA AttemptType ==
  ASSUME LifecycleTypeOK, StartAttempt
  PROVE  /\ unit' \in {"absent", "inactive", "active", "waiting"}
         /\ rules' \in {"none", "ours", "legacy"}
         /\ unit' = "active" <=> running' # None
         /\ unit' = "absent" => ~enabled
<1>1. CASE Up
  BY <1>1 DEF Up, HooksPass, LifecycleTypeOK
<1>2. CASE Down
  BY <1>2 DEF Down, StopHook, LifecycleTypeOK
<1>3. QED
  BY <1>1, <1>2 DEF StartAttempt

LEMMA LifecycleTypeStep ==
  TypeOK /\ LifecycleTypeOK /\ [LifecycleNext]_lvars => LifecycleTypeOK'
<1> SUFFICES ASSUME TypeOK, LifecycleTypeOK, [LifecycleNext]_lvars PROVE LifecycleTypeOK'
  OBVIOUS
<1> DEFINE Tasks == {"none", "setup", "start", "up", "restart", "apply", "program", "clear"}
<1>1. ASSUME NEW p \in Procs, Pass(p) \/ WriteUnit(p) \/ Enable(p) \/ Apply(p) \/ Program(p)
      PROVE  LifecycleTypeOK'
  <2>1. UNCHANGED vars /\ UNCHANGED legacy /\ task' \in [Procs -> Tasks]
    BY <1>1 DEF Pass, WriteUnit, Enable, Apply, Program, Goal, LifecycleTypeOK
  <2>2. \A r \in Procs : task'[r] # "none" => pc'[r] = "idle"
    BY <1>1, <2>1 DEF Pass, WriteUnit, Enable, Apply, Program, Goal, Begins, LifecycleTypeOK, vars
  <2>3. /\ unit' \in {"absent", "inactive", "active", "waiting"}
        /\ unit' = "active" <=> running' # None
        /\ unit' = "absent" => unit = "absent" /\ ~enabled'
        /\ rules' \in {"none", "ours", "legacy"}
    BY <1>1, <2>1 DEF Pass, WriteUnit, Enable, Apply, Program, LifecycleTypeOK, vars
  <2>4. enabled' \in BOOLEAN /\ startable' \in BOOLEAN
    BY <1>1 DEF Pass, WriteUnit, Enable, Apply, Program, LifecycleTypeOK
  <2>5. QED
    BY <2>1, <2>2, <2>3, <2>4 DEF LifecycleTypeOK
<1>2. ASSUME NEW p \in Procs, StartUnit(p) \/ StopToRestart(p) \/ Stop(p)
      PROVE  LifecycleTypeOK'
  <2>1. task' \in [Procs -> Tasks] /\ UNCHANGED <<pc, legacy, enabled, startable>>
    BY <1>2 DEF StartUnit, StopToRestart, Stop, Goal, LifecycleTypeOK, UnitRetries, CoreExits, vars
  <2>2. \A r \in Procs : task'[r] # "none" => pc'[r] = "idle"
    BY <1>2, <2>1 DEF StartUnit, StopToRestart, Stop, Goal, LifecycleTypeOK
  <2>3. CASE StartUnit(p)
    <3>1. CASE UNCHANGED <<vars, unit, rules>>
      BY <2>1, <2>2, <3>1 DEF LifecycleTypeOK, vars
    <3>2. CASE StartAttempt
      BY <2>1, <2>2, <3>2, AttemptType DEF LifecycleTypeOK
    <3>3. QED
      BY <2>3, <3>1, <3>2 DEF StartUnit, StartAttempt
  <2>4. CASE StopToRestart(p) \/ Stop(p)
    BY <2>1, <2>2, <2>4 DEF StopToRestart, Stop, Exits, CoreExits, StopHook, LifecycleTypeOK, vars
  <2>5. QED
    BY <1>2, <2>3, <2>4
<1>3. ASSUME NEW p \in Procs, RestartsUnit(p)
      PROVE  LifecycleTypeOK'
  <2>1. pc[p] # "idle" /\ \A r \in Procs : r # p => pc'[r] = pc[r]
    BY <1>3 DEF RestartsUnit, RestartNew, RestartOld, End, Goto, TypeOK
  <2>2. QED
    BY <1>3, <2>1 DEF RestartsUnit, Up, Down, StopHook, HooksPass, LifecycleTypeOK
<1>4. ASSUME NEW p \in Procs, UpgradeStep(p)
      PROVE  LifecycleTypeOK'
  <2>1. UNCHANGED <<running, legacy, unit, enabled, startable, rules, task>>
    BY <1>4, UpgradeLeavesRunning DEF host
  <2>2. \A r \in Procs : r # p => pc'[r] = pc[r]
    BY <1>4 DEF UpgradeStep, Upgrade, Die, FetchReleases, Download, ReadVersions, RemoveBackup,
       BackupCore, InstallCandidate, RestartNew, RemoveFailed, SetAside, RestoreBackup,
       RestartOld, End, Goto, TypeOK
  <2>3. QED
    BY <1>4, <2>1, <2>2 DEF UpgradeStep, LifecycleTypeOK
<1>5. CASE UnitExits \/ RetryUp \/ RetryDown
  <2>1. UNCHANGED <<pc, legacy, enabled, startable, task>>
    BY <1>5 DEF UnitExits, CoreExits, RetryUp, RetryDown, UnitRetries, vars
  <2>2. CASE UnitExits
    BY <2>1, <2>2 DEF UnitExits, Exits, StopHook, LifecycleTypeOK
  <2>3. CASE RetryUp \/ RetryDown
    <3>1. StartAttempt
      BY <2>3 DEF RetryUp, RetryDown, StartAttempt
    <3>2. QED
      BY <2>1, <3>1, AttemptType DEF LifecycleTypeOK
  <2>4. QED
    BY <1>5, <2>2, <2>3
<1>6. CASE LegacyChanges \/ Disable \/ InputsChange \/ UNCHANGED lvars
  <2>1. UNCHANGED <<running, pc, unit, task>>
    BY <1>6 DEF LegacyChanges, Disable, InputsChange, lvars, host, vars
  <2>2. startable' \in BOOLEAN
    BY <1>6, Zenon DEF LegacyChanges, Disable, InputsChange, LifecycleTypeOK, lvars, host
  <2>3. enabled' \in BOOLEAN /\ (unit' = "absent" => ~enabled')
    <3>1. CASE Disable
      BY <3>1 DEF Disable
    <3>2. CASE LegacyChanges \/ InputsChange \/ UNCHANGED lvars
      <4>1. enabled' = enabled /\ unit' = unit
        BY <3>2 DEF LegacyChanges, InputsChange, lvars, host
      <4>2. QED
        BY <4>1 DEF LifecycleTypeOK
    <3>3. QED
      BY <1>6, <3>1, <3>2
  <2>4. legacy' \in {"off", "enabled", "active"} /\ rules' \in {"none", "ours", "legacy"}
    BY <1>6 DEF LegacyChanges, Disable, InputsChange, LifecycleTypeOK, lvars, host
  <2>5. QED
    BY <2>1, <2>2, <2>3, <2>4 DEF LifecycleTypeOK
<1>7. QED
  BY <1>1, <1>2, <1>3, <1>4, <1>5, <1>6 DEF LifecycleNext

\* Whatever the commands, the unit and the operator do, the core's files change as
\* CoreUpgrade says.
THEOREM LifecycleImplementsUpgrade == LifecycleSpec => Spec
<1>1. QED
  BY LifecycleInitOK, LifecycleStep, PTL DEF LifecycleSpec, Spec

\* The types of Lifecycle are right; the unit is active exactly while a core runs.
THEOREM LifecycleTypeCorrect == LifecycleSpec => []LifecycleTypeOK
<1>1. LifecycleSpec => []TypeOK
  BY LifecycleImplementsUpgrade, TypeCorrect
<1>2. QED
  BY <1>1, LifecycleInitOK, LifecycleTypeStep, PTL DEF LifecycleSpec

\* With upgrades that do not overlap, the whole host never loses its core.
THEOREM LifecycleKeepsCore ==
  ASSUME OneAtATime PROVE LifecycleSpec => []CoreRecoverable /\ CoreSpec
<1>1. QED
  BY LifecycleImplementsUpgrade, NeverWithoutCore, ImplementsAtomicCore

\* On a host of the legacy service the program stands aside.
THEOREM StandsAsideAlways == LifecycleSpec => StandsAside
<1>1. ASSUME LifecycleNext, LegacyLive, ~enabled, unit # "active",
             \A p \in Procs : task[p] = "none"
      PROVE  unit' # "active" /\ ~enabled' /\ (rules' = rules \/ legacy' # legacy)
  <2>1. ~HookReady /\ ~Ready /\ ~HooksPass
    BY <1>1 DEF HookReady, Ready, HooksPass
  <2>2. ASSUME NEW p \in Procs, RestartsUnit(p) \/ UpgradeStep(p) \/ Stop(p)
        PROVE  unit' # "active" /\ ~enabled' /\ rules' = rules
    BY <1>1, <2>1, <2>2 DEF RestartsUnit, UpgradeStep, Stop, Up, Down, StopHook, host
  <2>3. ASSUME NEW p \in Procs
        PROVE  ~(\/ Pass(p) \/ WriteUnit(p) \/ Enable(p) \/ StartUnit(p) \/ StopToRestart(p)
                 \/ Apply(p) \/ Program(p))
    BY <1>1, <2>1 DEF Pass, WriteUnit, Enable, StartUnit, StopToRestart, Apply, Program
  <2>4. CASE UnitExits \/ RetryUp \/ RetryDown
    BY <1>1, <2>1, <2>4 DEF UnitExits, Exits, RetryUp, RetryDown, Up, Down, StopHook
  <2>5. CASE LegacyChanges \/ Disable \/ InputsChange
    BY <1>1, <2>5 DEF LegacyChanges, Disable, InputsChange
  <2>6. QED
    BY <1>1, <2>2, <2>3, <2>4, <2>5 DEF LifecycleNext
<1>2. QED
  BY <1>1, PTL DEF LifecycleSpec, StandsAside
=============================================================================
