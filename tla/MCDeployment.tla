---------------------------- MODULE MCDeployment ----------------------------
(***************************************************************************)
(* Deployment for TLC: three sessions, so that a reader can hold parts of  *)
(* two while the third is handed out.                                      *)
(***************************************************************************)
EXTENDS Deployment
=============================================================================
