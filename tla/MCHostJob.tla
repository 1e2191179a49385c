------------------------------ MODULE MCHostJob ------------------------------
(***************************************************************************)
(* Two runs of a job of two dispatches, with a timeout after two beats: a  *)
(* run that is killed or timed out leaves files and a worker to the next.  *)
(***************************************************************************)
EXTENDS HostJob
=============================================================================
