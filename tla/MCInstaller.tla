---------------------------- MODULE MCInstaller ----------------------------
(* A small instance of Installer for TLC: a step that mounts, as the first   *)
(* disk step does, and the one that unmounts at the end.                     *)
EXTENDS Installer

InstallSteps == <<"mount", "cleanup">>
=============================================================================
