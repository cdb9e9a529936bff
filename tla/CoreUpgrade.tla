----------------------------- MODULE CoreUpgrade -----------------------------
(***************************************************************************)
(* core-upgrade-alpha: the core binary of the service is replaced by the   *)
(* newest alpha release through renames next to it, core -> core.bak and   *)
(* candidate -> core, and put back if the service does not come up with    *)
(* the new one.  The state is the three files and what the unit runs; a    *)
(* command may be killed between any two steps and any file operation may  *)
(* fail.  The release and its asset are chosen by ReleaseSelection, from   *)
(* what the release API answers and the CPU level in config.yaml.          *)
(*                                                                         *)
(* External, modelled from how the code uses it: the release API and the   *)
(* server of the assets; rename and remove, each                           *)
(* atomic; systemctl restart and is-active.  The unit is Type=simple, so a *)
(* core that will exit may still be found active by the check; systemd     *)
(* starts the core at the core path again by itself.                       *)
(***************************************************************************)
EXTENDS ReleaseSelection

CONSTANTS
  Procs,
  Binaries,   \* distinct core binaries
  Installed,  \* the one that is installed at first
  Answers,    \* those that answer -v
  Works,      \* those that keep the service up
  None,       \* no file
  Listings,   \* what the release API may answer with, see ReleaseSelection
  Settings,   \* what install.core_amd64_cpu_level may be
  Goarch,     \* the architecture of the host
  Faults      \* file operations and systemctl may fail, commands may be killed

ASSUME UpgradeAssumption ==
  /\ Procs # {}
  /\ Works \subseteq Answers /\ Answers \subseteq Binaries
  /\ Installed \in Works /\ None \notin Binaries
  /\ \A releases \in Listings, setting \in Settings :
       \A asset \in selectLatestAlphaAsset(releases, Goarch, setting) : asset.core \in Binaries
  /\ None \notin Listings \X Settings
  /\ Faults \in BOOLEAN

VARIABLES
  core, bak, failed,  \* the files core, core.bak and core.failed
  running,            \* the binary the unit runs
  pc,                 \* where each command is
  seen,               \* the listing and the CPU level it chooses from
  candidate,          \* the binary it has downloaded
  old,                \* the binary it has moved to core.bak
  result,             \* how it ended
  kept                \* the binary that core.bak was last reported to preserve

files == <<core, bak, failed>>
vars == <<files, running, pc, seen, candidate, old, result, kept>>
File == Binaries \cup {None}

TypeOK ==
  /\ core \in File /\ bak \in File /\ failed \in File /\ running \in File
  /\ pc \in [Procs -> {"idle", "select", "versions", "unback", "backup", "install", "restart",
                       "unfail", "setaside", "restore", "again"}]
  /\ seen \in [Procs -> (Listings \X Settings) \cup {None}]
  /\ candidate \in [Procs -> File] /\ old \in [Procs -> File]
  /\ result \in [Procs -> {"none", "upgraded", "error", "restored", "preserved"}]
  /\ kept \in File
  /\ \A p \in Procs : /\ (candidate[p] = None) = (pc[p] \in {"idle", "select"})
                     /\ (seen[p] = None) = (pc[p] # "select")

Init ==
  /\ core = Installed /\ bak = None /\ failed = None /\ running \in {None, Installed}
  /\ pc = [p \in Procs |-> "idle"]
  /\ seen = [p \in Procs |-> None]
  /\ candidate = [p \in Procs |-> None] /\ old = [p \in Procs |-> None]
  /\ result = [p \in Procs |-> "none"]
  /\ kept = None

Goto(p, stage) ==
  /\ pc' = [pc EXCEPT ![p] = stage]
  /\ UNCHANGED <<seen, candidate, old, result, kept>>

\* Mutant: the download is left behind.
End_KeepsCandidate(p, outcome) ==
  /\ pc' = [pc EXCEPT ![p] = "idle"]
  /\ old' = [old EXCEPT ![p] = None]
  /\ result' = [result EXCEPT ![p] = outcome]
  /\ seen' = [seen EXCEPT ![p] = None]
  /\ UNCHANGED <<candidate, kept>>

\* The deferred RemoveAll drops what is left of the download.
End(p, outcome) ==
  /\ pc' = [pc EXCEPT ![p] = "idle"]
  /\ seen' = [seen EXCEPT ![p] = None]
  /\ candidate' = [candidate EXCEPT ![p] = None]
  /\ old' = [old EXCEPT ![p] = None]
  /\ result' = [result EXCEPT ![p] = outcome]
  /\ kept' = CASE outcome = "preserved" -> bak
               [] outcome \in {"upgraded", "restored"} -> None
               [] OTHER -> kept
-----------------------------------------------------------------------------
FetchReleases(p) ==
  /\ pc[p] = "idle"
  /\ seen' \in {[seen EXCEPT ![p] = choice] : choice \in Listings \X Settings}
  /\ pc' = [pc EXCEPT ![p] = "select"]
  /\ result' = [result EXCEPT ![p] = "none"]
  /\ UNCHANGED <<files, running, candidate, old, kept>>

\* The asset is downloaded and unpacked into a directory next to the core; none is
\* chosen, or an error on the way, ends the command.
Download(p) ==
  /\ pc[p] = "select"
  /\ LET chosen == selectLatestAlphaAsset(seen[p][1], Goarch, seen[p][2])
     IN \/ \E asset \in chosen :
             /\ candidate' = [candidate EXCEPT ![p] = asset.core]
             /\ seen' = [seen EXCEPT ![p] = None]
             /\ pc' = [pc EXCEPT ![p] = "versions"]
             /\ UNCHANGED <<old, result, kept>>
        \/ (chosen = {} \/ Faults) /\ End(p, "error")
  /\ UNCHANGED <<files, running>>

\* Mutant: only the candidate is asked for its version.
ReadVersions_CandidateOnly(p) ==
  /\ pc[p] = "versions"
  /\ IF candidate[p] \in Answers THEN Goto(p, "unback") ELSE End(p, "error")
  /\ UNCHANGED <<files, running>>

\* Mutant: only the installed core is asked for its version.
ReadVersions_InstalledOnly(p) ==
  /\ pc[p] = "versions"
  /\ IF core \in Answers THEN Goto(p, "unback") ELSE End(p, "error")
  /\ UNCHANGED <<files, running>>

\* Both the installed core and the candidate have to answer -v.
ReadVersions(p) ==
  /\ pc[p] = "versions"
  /\ IF core \in Answers /\ candidate[p] \in Answers
     THEN Goto(p, "unback") ELSE End(p, "error")
  /\ UNCHANGED <<files, running>>

\* replaceCoreBinaryAtomically: an earlier backup goes first.
RemoveBackup(p) ==
  /\ pc[p] = "unback"
  /\ \/ bak' = None /\ Goto(p, "backup")
     \/ Faults /\ UNCHANGED bak /\ End(p, "error")
  /\ UNCHANGED <<core, failed, running>>

BackupCore(p) ==
  /\ pc[p] = "backup"
  /\ \/ /\ core # None
        /\ bak' = core /\ core' = None
        /\ old' = [old EXCEPT ![p] = core]
        /\ pc' = [pc EXCEPT ![p] = "install"]
        /\ UNCHANGED <<seen, candidate, result, kept>>
     \/ /\ core = None \/ Faults
        /\ UNCHANGED <<core, bak>>
        /\ End(p, "error")
  /\ UNCHANGED <<failed, running>>

\* If the candidate cannot be moved in, the backup is moved back, if that works.
InstallCandidate(p) ==
  /\ pc[p] = "install"
  /\ \/ core' = candidate[p] /\ UNCHANGED bak /\ Goto(p, "restart")
     \/ Faults /\ bak # None /\ core' = bak /\ bak' = None /\ End(p, "error")
     \/ Faults /\ UNCHANGED <<core, bak>> /\ End(p, "error")
  /\ UNCHANGED <<failed, running>>

\* restartMinimalistServiceAfterCoreUpgrade: systemctl restart, then is-active.
ComesUp == core # None /\ running' = core
StaysDown ==
  \/ core \notin Works /\ running' \in {None, core}
  \/ Faults /\ running' \in {None, core, running}

\* Mutant: the backup is dropped as soon as the new core is in place.
RestartNew_DropsBackup(p) ==
  /\ pc[p] = "restart"
  /\ bak' = None
  /\ \/ ComesUp /\ End(p, "upgraded")
     \/ StaysDown /\ Goto(p, "unfail")
  /\ UNCHANGED <<core, failed>>

RestartNew(p) ==
  /\ pc[p] = "restart"
  /\ \/ /\ ComesUp
        /\ bak' = None \/ (Faults /\ UNCHANGED bak)
        /\ End(p, "upgraded")
     \/ /\ StaysDown
        /\ Goto(p, "unfail")
        /\ UNCHANGED bak
  /\ UNCHANGED <<core, failed>>
-----------------------------------------------------------------------------
(* restoreCoreBinaryBackup *)

RemoveFailed(p) ==
  /\ pc[p] = "unfail"
  /\ \/ failed' = None /\ Goto(p, "setaside")
     \/ Faults /\ UNCHANGED failed /\ End(p, "preserved")
  /\ UNCHANGED <<core, bak, running>>

SetAside(p) ==
  /\ pc[p] = "setaside"
  /\ \/ /\ IF core = None THEN UNCHANGED <<core, failed>> ELSE failed' = core /\ core' = None
        /\ Goto(p, "restore")
     \/ Faults /\ UNCHANGED <<core, failed>> /\ End(p, "preserved")
  /\ UNCHANGED <<bak, running>>

\* The failed core is dropped once the backup is back, or moved back itself; an
\* error of either is ignored.
RestoreBackup(p) ==
  /\ pc[p] = "restore"
  /\ \/ /\ bak # None
        /\ core' = bak /\ bak' = None
        /\ failed' = None \/ (Faults /\ UNCHANGED failed)
        /\ Goto(p, "again")
     \/ /\ bak = None \/ Faults
        /\ \/ failed # None /\ core' = failed /\ failed' = None
           \/ (failed = None \/ Faults) /\ UNCHANGED <<core, failed>>
        /\ UNCHANGED bak
        /\ End(p, "preserved")
  /\ UNCHANGED running

RestartOld(p) ==
  /\ pc[p] = "again"
  /\ ComesUp \/ StaysDown
  /\ End(p, "restored")
  /\ UNCHANGED files
-----------------------------------------------------------------------------
\* systemd: a core that does not work exits, and the unit starts the core at the
\* path again (Restart=on-failure).
CoreExits ==
  /\ running # None /\ (running \notin Works \/ Faults)
  /\ running' = None
  /\ UNCHANGED <<files, pc, seen, candidate, old, result, kept>>

UnitRetries ==
  /\ running = None /\ core # None
  /\ running' = core
  /\ UNCHANGED <<files, pc, seen, candidate, old, result, kept>>

Die(p) ==
  /\ Faults /\ pc[p] # "idle"
  /\ End(p, "error")
  /\ UNCHANGED <<files, running>>

Upgrade(p) ==
  \/ FetchReleases(p) \/ Download(p) \/ ReadVersions(p) \/ RemoveBackup(p) \/ BackupCore(p)
  \/ InstallCandidate(p) \/ RestartNew(p) \/ RemoveFailed(p) \/ SetAside(p) \/ RestoreBackup(p) \/ RestartOld(p)

Next == (\E p \in Procs : Upgrade(p) \/ Die(p)) \/ CoreExits \/ UnitRetries

Spec == Init /\ [][Next]_vars
-----------------------------------------------------------------------------
(* Properties *)

\* Whatever fails and wherever an upgrade is killed, and however often it is tried
\* again: if there is no core binary, core.bak is one that answers -v.
CoreRecoverable == core = None => bak \in Answers

\* When the service does not come up with the new core, the command ends with the
\* old one back in place, or, if it reports that this failed, in core.bak.
FailureKeepsOld ==
  [][\A p \in Procs :
       /\ pc[p] = "again" /\ result'[p] = "restored" => core' = old[p]
       /\ pc[p] # "idle" /\ result'[p] = "preserved" => bak' = old[p]]_vars

\* What is downloaded comes from an asset made for the host's architecture and CPU
\* level, of a release that no alpha prerelease with such an asset supersedes, in
\* whatever order the API lists them.  (Names whose prefix is not in lower case are
\* misread by amd64CPULevelForAsset, so listings with one are left out.)
DownloadsNewestFit ==
  [][\A p \in Procs :
       LET releases == ToSet(seen[p][1])
           fits(r) == \E a \in r.assets : Runs(a, Goarch, seen[p][2])
       IN /\ pc[p] = "select" /\ pc'[p] = "versions"
          /\ \A r \in releases : \A a \in r.assets : a.exact
          => \E r \in releases : \E a \in r.assets :
               /\ a.core = candidate'[p] /\ Runs(a, Goarch, seen[p][2])
               /\ isAlphaPrerelease(r)
               /\ ~\E s \in releases : isAlphaPrerelease(s) /\ fits(s) /\ Supersedes(s, r)]_vars

\* For upgrades that do not overlap, the files core and core.bak implement one place
\* for the core binary: it always has one that answers, and another is only tried
\* there while the one before it is set aside.
Core == INSTANCE AtomicCore WITH
  slot <- IF core # None THEN core ELSE bak,
  previous <- old[CHOOSE p \in Procs : TRUE]
CoreSpec == Core!Spec

\* The inductive form of these, for upgrades that do not overlap.
StageOK(p) ==
  /\ pc[p] \in {"unback", "backup"} => core \in Answers /\ candidate[p] \in Answers
  /\ pc[p] = "install" => candidate[p] \in Answers
  /\ pc[p] \in {"restart", "unfail", "setaside"} =>
       core = candidate[p] /\ candidate[p] \in Answers
  /\ pc[p] = "setaside" => failed = None
  /\ pc[p] = "restore" => failed \in Answers \cup {None}
  /\ pc[p] \in {"idle", "select", "versions", "unback", "backup"} => old[p] = None
  /\ pc[p] \in {"install", "restart", "unfail", "setaside", "restore"} =>
       bak = old[p] /\ old[p] \in Answers
  /\ pc[p] = "again" => core = old[p] /\ old[p] \in Answers
  /\ pc[p] # "idle" => result[p] = "none"
UpgradeInv == CoreRecoverable /\ \A p \in Procs : StageOK(p)

\* docs/STATUS.md:86: if the old core cannot be put back, .bak is preserved and its
\* path reported.  As long as no upgrade or rollback has succeeded since, and none
\* is under way, it is then still there.
KeptBackup ==
  kept # None /\ (\A p \in Procs : pc[p] = "idle") => kept \in {core, bak, failed}
=============================================================================
