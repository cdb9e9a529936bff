----------------------------- MODULE MCRouting ------------------------------
(***************************************************************************)
(* An instance of Routing for TLC: one program after another, any of which *)
(* may fail or be killed at any command.                                   *)
(***************************************************************************)
EXTENDS Routing

\* An explicit-only configuration, one with everything on, one without DNS
\* hijacking and host output.
ThreeConfigs ==
  {[ingress |-> FALSE, dns |-> FALSE, output |-> FALSE],
   [ingress |-> TRUE,  dns |-> TRUE,  output |-> TRUE],
   [ingress |-> TRUE,  dns |-> FALSE, output |-> FALSE]}
=============================================================================
