------------------------------ MODULE AtomicCore -------------------------------
(***************************************************************************)
(* What core-upgrade-alpha promises about the core binary, without its     *)
(* files: there is always one that answers -v, and another one takes its   *)
(* place only while the one before it is set aside, from where it can be   *)
(* taken back.                                                             *)
(***************************************************************************)
CONSTANTS Answers, Installed, None

VARIABLES
  slot,      \* the binary that would be started, now or after a manual rename
  previous   \* the one an upgrade has set aside, if it is at that

Init == slot = Installed /\ previous = None

Begin == previous = None /\ previous' = slot /\ UNCHANGED slot

Switch ==
  /\ previous # None
  /\ slot' \in Answers
  /\ previous' \in {previous, None}

TakeBack ==
  /\ previous # None
  /\ slot' = previous
  /\ previous' \in {previous, None}

End == previous # None /\ previous' = None /\ UNCHANGED slot

Next == Begin \/ Switch \/ TakeBack \/ End

Spec == Init /\ [][Next]_<<slot, previous>>
=============================================================================
