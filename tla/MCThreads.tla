------------------------------ MODULE MCThreads ------------------------------
(***************************************************************************)
(* Threads with the packages of two drivers.                               *)
(***************************************************************************)
EXTENDS Threads

\* The second driver needs the package of the first, and one more.
SharedPackages == << <<1>>, <<1, 2>> >>
=============================================================================
