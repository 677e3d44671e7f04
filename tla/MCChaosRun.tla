----------------------------- MODULE MCChaosRun -----------------------------
(***************************************************************************)
(* ChaosRun for TLC: the harness's own workflow and faults.                *)
(***************************************************************************)
EXTENDS ChaosRun

TriageSteps == Triage
=============================================================================
