------------------------------ MODULE MCDaemon ------------------------------
(***************************************************************************)
(* Daemon with six disks for the partitioning plans.                      *)
(***************************************************************************)
EXTENDS Daemon

Found(num, fs, size, mount) ==
  [num |-> num, fs |-> fs, size |-> size, mount |-> mount, was |-> num, inner |-> FALSE]
Space(size) == Found(0, "", size, "")
Inside(r) == [r EXCEPT !.inner = TRUE]

\* An empty disk; one with a gap below 1 MiB before its partitions; one whose
\* numbers leave a hole, one partition being mounted by the live system; the one
\* that it runs from; one with free space behind its extended partition; and one
\* with three logical partitions.
SixDisks ==
  { << Space(9) >>,
    << Space(1), Found(1, "fat32", 5, ""), Found(2, "btrfs", 4, ""), Space(4) >>,
    << Found(1, "unknown", 4, ""), Found(3, "fat32", 5, "/boot"), Space(8) >>,
    << Found(1, "btrfs", 5, "/"), Space(4) >>,
    << Found(1, "fat32", 4, "/boot"), Inside(Found(5, "btrfs", 4, "")), Space(4) >>,
    << Found(1, "fat32", 4, "/boot"), Inside(Found(5, "unknown", 2, "")),
       Inside(Found(6, "btrfs", 4, "")), Inside(Found(7, "btrfs", 4, "")) >> }
=============================================================================
