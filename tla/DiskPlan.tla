------------------------------ MODULE DiskPlan ------------------------------
(***************************************************************************)
(* Partitioning plans: src/src/services/installer/installer_service.cpp    *)
(* (validation), install_storage_data_builder.cpp (the list shown to the   *)
(* client), steps/partition_step.cpp and steps/format_step.cpp.            *)
(*                                                                         *)
(* A plan is checked against a list of the partitions in MiB, on which     *)
(* its operations are simulated; later the worker performs them on the     *)
(* partition table, in sectors, naming the regions anew after each one.    *)
(* The table changes on the disk at the commit only.  Formatting follows.  *)
(*                                                                         *)
(* A disk with an MBR may have an extended partition: libparted numbers    *)
(* the logical ones in it from 5 without a hole, and all others up to 4.   *)
(***************************************************************************)
EXTENDS Naturals, Sequences, SequencesExt, FiniteSets

CONSTANTS
  Disks,    \* the disks as libparted finds them: the regions of each, in order
  Sizes,    \* sizes in MiB that operations ask for
  MaxOps,   \* bound on the operations of a plan
  MinBoot,  \* STORAGE_PART_BOOT_MIN_SIZE_MIB
  NewBoot,  \* STORAGE_PART_BOOT_MIN_RECOMMENDED_SIZE_MIB, the size that erase mode makes
  MinRoot   \* STORAGE_PART_ROOT_MIN_SIZE_MIB

VARIABLES
  disk,     \* the regions on the disk, in order; free ones have no filesystem
  extended, \* the number of its extended partition, 0 if it has none
  listed,   \* _storageDevices: what the client was shown
  mode,     \* the mode of the plan
  plan,     \* its operations, or mounts in manual mode
  parts,    \* the list the operations are simulated on
  phase,    \* "planning", "partitioning", "formatting", "done" or "failed"
  table,    \* the worker's partition table
  done,     \* the number of operations it has dealt with
  keys,     \* its maps: mount point, filesystem and format by partition
  targets,  \* partitionTargets; the order of their paths is left open
  made      \* those that FormatStep has dealt with

request == <<listed, mode, plan, parts>>
work == <<disk, extended, table, done, keys, targets, made>>
vars == <<request, phase, work>>

SectorsPerMiB == 2
MiB(sectors) == sectors \div SectorsPerMiB
Sectors(mib) == mib * SectorsPerMiB

Filesystems == {"fat32", "btrfs"}
Mounts == {"/boot", "/"}

\* A region is inside the extended partition or not; was is the number by which
\* the disk had the partition, 0 for a new one.
Region(num, fs, size, mount) ==
  [num |-> num, fs |-> fs, size |-> size, mount |-> mount, was |-> 0, inner |-> FALSE]
IsFree(r) == r.fs = ""
Gap(r, size) == [Region(0, "", size, "") EXCEPT !.inner = r.inner]

\* Strings, and which there are.
Texts ==
  STRING \cup {"", "fat32", "btrfs", "/boot", "/", "new", "part", "free",
               "create", "resize", "remove", "mount", "filesystem"}
Regions == {r \in [num : Nat, fs : Texts, size : Nat, mount : Texts, was : Nat, inner : BOOLEAN] :
              r.num = 0 <=> IsFree(r)}

\* The partitions of a disk are numbered, each differently, and were there before.
DisksAre ==
  \A d \in Disks :
    /\ d \in Seq(Regions)
    /\ \A i \in DOMAIN d : d[i].was = d[i].num
    /\ \A i, j \in DOMAIN d : i # j /\ ~IsFree(d[i]) => d[i].num # d[j].num
ParametersAre == Sizes \subseteq Nat /\ NewBoot \in Nat

\* PopulateStorageDevices: the disk of the running system is not on the list.
IsRootDevice(s) == \E i \in DOMAIN s : s[i].mount = "/"
StorageDevices == {s \in Disks : ~IsRootDevice(s)}

\* The numbers that the extended partition of a disk may have.
Logical(n) == extended # 0 /\ n > 4
ExtendedOf(s) ==
  IF \A i \in DOMAIN s : ~s[i].inner THEN {0}
  ELSE {n \in 1..4 : \A i \in DOMAIN s : s[i].num # n}

\* What begins and ends the device belongs to no region.
Overhead == 2 * SectorsPerMiB

Unnamed == [kind |-> "new", n |-> 0]
Part(n) == [kind |-> "part", n |-> n]
Free(n) == [kind |-> "free", n |-> n]
Hidden(r) == IsFree(r) /\ MiB(r.size) = 0

\* The names of the regions of a disk; free ones are numbered among those counted.
Name(s, i, counted) ==
  IF IsFree(s[i]) THEN Free(Cardinality({j \in counted : j <= i /\ IsFree(s[j])}))
  ELSE Part(s[i].num)
Visible(s) == {j \in DOMAIN s : ~Hidden(s[j])}

\* The list does not tell what is inside the extended partition.
Entry(id, fs, size, mount) ==
  [id |-> id, fs |-> fs, size |-> size, mount |-> mount, inner |-> FALSE]

\* PopulateDeviceWithParted: a hidden region uses up a number.
Shown(s, i) == Entry(Name(s, i, DOMAIN s), s[i].fs, MiB(s[i].size), s[i].mount)
Listed(s) ==
  LET list[n \in 0 .. Len(s)] ==
        IF n = 0 THEN <<>>
        ELSE IF Hidden(s[n]) THEN list[n - 1] ELSE Append(list[n - 1], Shown(s, n))
  IN  list[Len(s)]

\* BuildPartitionView: the position of a region in the table, by name; a hidden
\* region does not use up a number.
Positions(id) ==
  {i \in Visible(table) : Name(table, i, Visible(table)) = id}

\* removeAdjacentSpaces; the table has one region for adjacent free sectors too,
\* unless the extended partition ends between them.
WithSize(r, size) == [r EXCEPT !.size = size]
Joined(acc, r) ==
  IF acc # <<>> /\ IsFree(Last(acc)) /\ IsFree(r) /\ Last(acc).inner = r.inner
  THEN Append(Front(acc), WithSize(Last(acc), Last(acc).size + r.size))
  ELSE Append(acc, r)
Coalesced(s) ==
  LET joined[n \in 0 .. Len(s)] == IF n = 0 THEN <<>> ELSE Joined(joined[n - 1], s[n])
  IN  joined[Len(s)]

Total(s) ==
  LET sum[n \in 0 .. Len(s)] == IF n = 0 THEN 0 ELSE sum[n - 1] + s[n].size
  IN  sum[Len(s)]

\* The n regions from the i-th on give way to others.
Spliced(s, i, n, new) == Coalesced(SubSeq(s, 1, i - 1) \o new \o SubSeq(s, i + n, Len(s)))
Rest(r, size) == IF size = r.size THEN <<>> ELSE << WithSize(r, r.size - size) >>

NoKeys == [mount |-> [n \in {} |-> ""], fs |-> [n \in {} |-> ""], format |-> {}]

Init ==
  /\ disk \in StorageDevices /\ extended \in ExtendedOf(disk) /\ listed = Listed(disk)
  /\ mode \in {"erase", "manual", "custom"} /\ plan = <<>> /\ parts = listed
  /\ phase = "planning" /\ table = <<>> /\ done = 0 /\ keys = NoKeys /\ targets = {} /\ made = {}
-----------------------------------------------------------------------------
(* Validation *)

Op(type, id) == [type |-> type, id |-> id, size |-> 0, remaining |-> FALSE, fs |-> "", mount |-> ""]
Sized == {[size |-> z, remaining |-> FALSE] : z \in Sizes \ {0}} \cup {[size |-> 0, remaining |-> TRUE]}

\* Entry i is replaced by these entries of the same size.
Simulate(op, i, s) ==
  /\ mode = "custom" /\ phase = "planning" /\ Len(plan) < MaxOps
  /\ plan' = Append(plan, [op EXCEPT !.id = parts[i].id]) /\ parts' = s
  /\ UNCHANGED <<listed, mode, phase, work>>

\* New entries have no name that an operation may give.
Named(i) == parts[i].id # Unnamed
New(fs, size, mount) == Entry(Unnamed, fs, size, mount)

Created(i, size, fs, mount) ==
  Spliced(parts, i, 1, << New(fs, size, mount) >> \o Rest(parts[i], size))

PlanCreate(i, z, fs, mount) ==
  LET size == IF z.remaining THEN parts[i].size ELSE z.size
      op == [type |-> "create", id |-> Unnamed, size |-> z.size, remaining |-> z.remaining,
             fs |-> fs, mount |-> mount]
  IN /\ Named(i) /\ IsFree(parts[i]) /\ size <= parts[i].size
     /\ Simulate(op, i, Created(i, size, fs, mount))

FreeAfter(s, i) == IF i < Len(s) /\ IsFree(s[i + 1]) THEN s[i + 1].size ELSE 0

ResizedForgetsNext(i, size) ==
  IF size < parts[i].size
  THEN Spliced(parts, i, 1, << WithSize(parts[i], size), New("", parts[i].size - size, "") >>)
  ELSE [parts EXCEPT ![i] = WithSize(@, size)]

\* The next free entry gives what the partition grows by, and goes when it gives
\* all; what the partition shrinks by becomes an entry.
Resized(i, size) ==
  LET r == WithSize(parts[i], size)
      free == FreeAfter(parts, i)
  IN  IF size < parts[i].size THEN Spliced(parts, i, 1, << r, New("", parts[i].size - size, "") >>)
      ELSE IF free = 0 THEN Spliced(parts, i, 1, << r >>)
      ELSE Spliced(parts, i, 2, << r >> \o Rest(parts[i + 1], size - parts[i].size))

PlanResize(i, z) ==
  LET size == IF z.remaining THEN parts[i].size + FreeAfter(parts, i) ELSE z.size
  IN /\ Named(i) /\ ~IsFree(parts[i]) /\ size <= parts[i].size + FreeAfter(parts, i)
     /\ Simulate([Op("resize", Unnamed) EXCEPT !.size = z.size, !.remaining = z.remaining], i,
                 Resized(i, size))

PlanRemove(i) ==
  /\ Named(i) /\ ~IsFree(parts[i])
  /\ Simulate(Op("remove", Unnamed), i, Spliced(parts, i, 1, << New("", parts[i].size, "") >>))

PlanMountpoint(i, mount) ==
  /\ Named(i) /\ ~IsFree(parts[i])
  /\ Simulate([Op("mount", Unnamed) EXCEPT !.mount = mount], i, [parts EXCEPT ![i].mount = mount])

PlanFilesystem(i, fs) ==
  /\ Named(i) /\ ~IsFree(parts[i])
  /\ Simulate([Op("filesystem", Unnamed) EXCEPT !.fs = fs], i, [parts EXCEPT ![i].fs = fs])

\* A mount of manual mode names a partition once.
PlanMount(i, mount) ==
  /\ mode = "manual" /\ phase = "planning" /\ ~IsFree(listed[i])
  /\ \A k \in DOMAIN plan : plan[k].id # listed[i].id
  /\ plan' = Append(plan, [Op("mount", listed[i].id) EXCEPT !.mount = mount])
  /\ parts' = [parts EXCEPT ![i].mount = mount]
  /\ UNCHANGED <<listed, mode, phase, work>>

\* Manual mode counts the mounts of the plan, custom mode what the list shows.
MountedAt(mount) ==
  {i \in DOMAIN parts : /\ parts[i].mount = mount
                        /\ mode = "manual" => \E k \in DOMAIN plan : plan[k].id = parts[i].id}

VerifyMountpoints ==
  /\ \A mount \in Mounts : Cardinality(MountedAt(mount)) = 1
  /\ \A i \in MountedAt("/boot") : parts[i].fs = "fat32" /\ parts[i].size >= MinBoot
  /\ \A i \in MountedAt("/") :
        parts[i].fs \in Filesystems \ {"fat32"} /\ parts[i].size >= MinRoot

DeviceSize == Total(disk) + Overhead

\* A plan that is refused changes nothing.
ValidateInstallStorageData ==
  /\ phase = "planning"
  /\ IF mode = "erase" THEN MiB(DeviceSize) >= NewBoot + MinRoot ELSE VerifyMountpoints
  /\ phase' = "partitioning" /\ table' = disk
  /\ UNCHANGED <<request, disk, extended, done, keys, targets, made>>
-----------------------------------------------------------------------------
(* The partition step *)

todo == plan[done + 1]

\* An operation names one region, or the step fails.
Operate(type, kind, new, k) ==
  /\ phase = "partitioning" /\ mode = "custom" /\ done < Len(plan) /\ todo.type = type
  /\ \E i \in Positions(todo.id) :
        /\ IsFree(table[i]) <=> kind = "free"
        /\ new[i] # <<>>
        /\ table' = new[i]
  /\ keys' = k /\ done' = done + 1
  /\ UNCHANGED <<request, phase, disk, extended, targets, made>>

With(f, n, v) == [m \in DOMAIN f \cup {n} |-> IF m = n THEN v ELSE f[m]]
Minus(f, n) == [m \in DOMAIN f \ {n} |-> f[m]]

\* libparted gives a new partition, which is never a logical one, the lowest
\* number that is free.
FreeNumbers ==
  {n \in 1 .. (IF extended = 0 THEN Len(table) + 1 ELSE 4) :
     n # extended /\ \A i \in DOMAIN table : table[i].num # n}
NextNumber == CHOOSE n \in FreeNumbers : \A m \in FreeNumbers : n <= m

NewTable(i) ==
  LET size == IF todo.remaining THEN table[i].size ELSE Sectors(todo.size)
      new == Region(NextNumber, todo.fs, size, "")
  IN  IF size > table[i].size \/ table[i].inner \/ FreeNumbers = {} THEN <<>>
      ELSE Spliced(table, i, 1, << new >> \o Rest(table[i], size))

Create ==
  Operate("create", "free", [i \in DOMAIN table |-> NewTable(i)],
          [mount |-> With(keys.mount, NextNumber, todo.mount),
           fs |-> With(keys.fs, NextNumber, todo.fs),
           format |-> keys.format \cup {NextNumber}])

\* The partition may use the next region when the view shows it right behind;
\* the tables of the extended partition are before those inside it.
After(i) ==
  IF FreeAfter(table, i) = 0 \/ Hidden(table[i + 1]) \/ (table[i + 1].inner /\ ~table[i].inner) THEN 0
  ELSE FreeAfter(table, i)

\* libparted lets no logical partition grow out of the extended one.
ResizedTable(i) ==
  LET r == table[i]
      asked == IF todo.remaining THEN r.size + After(i) ELSE Sectors(todo.size)
      size == IF asked > r.size /\ After(i) # 0 /\ table[i + 1].inner # r.inner THEN r.size ELSE asked
      used == IF size > r.size THEN size - r.size ELSE 0
      freed == IF size < r.size THEN << Gap(r, r.size - size) >> ELSE <<>>
  IN  IF asked > r.size + After(i) THEN <<>>
      ELSE IF used = 0 THEN Spliced(table, i, 1, << WithSize(r, size) >> \o freed)
      ELSE Spliced(table, i, 2, << WithSize(r, size) >> \o Rest(table[i + 1], used))

Resize == Operate("resize", "part", [i \in DOMAIN table |-> ResizedTable(i)], keys)

\* ped_disk_delete_partition: the logical partitions behind take numbers one lower.
Numbered(r, n) == [r EXCEPT !.num = n]
Renumbered(s, n) ==
  IF ~Logical(n) THEN s
  ELSE [i \in DOMAIN s |-> IF s[i].num > n THEN Numbered(s[i], s[i].num - 1) ELSE s[i]]

\* The keys keep the names that they were given.
Removed(i) == Spliced(table, i, 1, << Gap(table[i], table[i].size) >>)
RemovePartition ==
  Operate("remove", "part", [i \in DOMAIN table |-> Renumbered(Removed(i), table[i].num)],
          [mount |-> Minus(keys.mount, todo.id.n), fs |-> Minus(keys.fs, todo.id.n),
           format |-> keys.format \ {todo.id.n}])

SetMountpoint ==
  Operate("mount", "part", [i \in DOMAIN table |-> table],
          [keys EXCEPT !.mount = With(@, todo.id.n, todo.mount)])
SetFilesystemType ==
  Operate("filesystem", "part", [i \in DOMAIN table |-> table], [keys EXCEPT !.format = @ \cup {todo.id.n}])

SetFilesystem ==
  Operate("filesystem", "part", [i \in DOMAIN table |-> table],
          [keys EXCEPT !.fs = With(@, todo.id.n, todo.fs), !.format = @ \cup {todo.id.n}])

\* Manual mode takes the filesystems that are there.
ManualKeys ==
  [NoKeys EXCEPT !.mount = [n \in {plan[k].id.n : k \in DOMAIN plan} |->
     plan[CHOOSE k \in DOMAIN plan : plan[k].id.n = n].mount]]

Probed(n) == table[CHOOSE i \in DOMAIN table : table[i].num = n].fs
TargetFormatted(k, n) ==
  [num |-> n, mount |-> k.mount[n], fs |-> IF n \in DOMAIN k.fs THEN k.fs[n] ELSE Probed(n),
   format |-> TRUE]

Target(k, n) ==
  [num |-> n, mount |-> k.mount[n], fs |-> IF n \in DOMAIN k.fs THEN k.fs[n] ELSE Probed(n),
   format |-> n \in k.format]
TargetsOf(k) == {Target(k, n) : n \in DOMAIN k.mount}

\* Each mounted partition is there, and there is one target of each mount point,
\* or the step fails after the commit.
Commit ==
  LET k == IF mode = "manual" THEN ManualKeys ELSE keys
      there == \A n \in DOMAIN k.mount : \E i \in DOMAIN table : table[i].num = n
      found == IF there THEN TargetsOf(k) ELSE {}
      each(mount) == Cardinality({t \in found : t.mount = mount}) = 1
  IN /\ phase = "partitioning" /\ mode # "erase"
     /\ mode = "manual" \/ done = Len(plan)
     /\ disk' = table /\ targets' = found
     /\ phase' = IF \A mount \in Mounts : each(mount) THEN "formatting" ELSE "failed"
     /\ UNCHANGED <<request, extended, table, done, keys, made>>

\* ExecuteErase: the partitions leave the first and the last MiB.
Erase ==
  LET size == DeviceSize - 2 * SectorsPerMiB - Sectors(NewBoot)
      target(num, mount, fs) == [num |-> num, mount |-> mount, fs |-> fs, format |-> TRUE]
  IN /\ phase = "partitioning" /\ mode = "erase" /\ size > 1
     /\ table' = << Region(1, "fat32", Sectors(NewBoot), ""), Region(2, "btrfs", size, "") >>
     /\ disk' = table' /\ phase' = "formatting"
     /\ targets' = {target(1, "/boot", "fat32"), target(2, "/", "btrfs")}
     /\ UNCHANGED <<request, extended, done, keys, made>>

\* FormatStep makes the filesystems of the targets that want it.
Format ==
  /\ phase = "formatting"
  /\ \E t \in targets \ made :
       /\ disk' = [i \in DOMAIN disk |->
            IF t.format /\ disk[i].num = t.num THEN [disk[i] EXCEPT !.fs = t.fs, !.was = 0] ELSE disk[i]]
       /\ made' = made \cup {t}
  /\ UNCHANGED <<request, phase, extended, table, done, keys, targets>>

Formatted ==
  /\ phase = "formatting" /\ made = targets
  /\ phase' = "done" /\ UNCHANGED <<request, work>>

\* Any step may fail: a name that is not found or means something else, a size
\* that does not fit, an error of libparted or of mkfs.
Fail ==
  /\ phase \in {"partitioning", "formatting"}
  /\ phase' = "failed" /\ UNCHANGED <<request, work>>

Planning ==
  \E i \in DOMAIN parts :
    \/ \E z \in Sized, fs \in Filesystems, mount \in Mounts : PlanCreate(i, z, fs, mount)
    \/ \E z \in Sized : PlanResize(i, z)
    \/ PlanRemove(i)
    \/ \E mount \in Mounts : PlanMountpoint(i, mount) \/ PlanMount(i, mount)
    \/ \E fs \in Filesystems : PlanFilesystem(i, fs)

Next ==
  \/ Planning \/ ValidateInstallStorageData
  \/ Create \/ Resize \/ RemovePartition \/ SetMountpoint \/ SetFilesystem
  \/ Commit \/ Erase \/ Format \/ Formatted \/ Fail

Spec == Init /\ [][Next]_vars
-----------------------------------------------------------------------------
(* Properties *)

TypeOK ==
  /\ phase \in {"planning", "partitioning", "formatting", "done", "failed"}
  /\ done \in 0..Len(plan) /\ made \subseteq targets
  /\ \A i \in DOMAIN disk : disk[i].num # 0 <=> ~IsFree(disk[i])
  /\ \A i, j \in DOMAIN table : i # j /\ ~IsFree(table[i]) => table[i].num # table[j].num

\* The sizes of the simulated list always add up to those of the list shown, so
\* that the "BUG" which validation checks for cannot happen, and the worker's
\* regions always fill the disk.
SizesAddUp ==
  /\ Total(parts) = Total(listed)
  /\ phase = "partitioning" => Total(table) = Total(disk)

\* The plan removes a logical partition before the n-th, which libparted then
\* gives another number, while the plan goes on with the names of the list.
Moved(n) ==
  Logical(n) /\ \E j \in DOMAIN plan : plan[j].type = "remove" /\ plan[j].id.n \in 5 .. (n - 1)
Loses(op) == op.type \in {"remove", "filesystem"}

\* Whatever becomes of the plan, a partition that was on the disk is lost only if
\* the plan erases the disk, or removes or makes a filesystem on just that one,
\* or if the plan, having two operations that lose logical partitions, removes
\* one before it: then the other may be done to a partition that it never named.
OnlyNamedLost ==
  mode # "erase" =>
    \A k \in DOMAIN listed :
      \/ IsFree(listed[k])
      \/ \E j \in DOMAIN plan : plan[j].id = listed[k].id /\ Loses(plan[j])
      \/ \E i \in DOMAIN disk : Part(disk[i].was) = listed[k].id
      \/ /\ Moved(listed[k].id.n)
         /\ \E i, j \in DOMAIN plan : i # j /\ \A o \in {i, j} : Loses(plan[o]) /\ Logical(plan[o].id.n)

\* What the list calls the partition that has number n in the worker's table.
Meant(n) ==
  LET was == table[CHOOSE i \in DOMAIN table : table[i].num = n].was
  IN  IF was = 0 THEN Unnamed ELSE Part(was)

\* A plan that succeeds gives the partitions that validation found for the boot
\* and root mount points, those and no others: with that filesystem, and formatted
\* if and only if the plan makes them or sets their filesystem; but for the
\* logical partitions behind one that the plan removes.
ExecutedAsPlanned ==
  phase = "done" /\ mode = "custom" =>
    \A t \in targets :
      \/ Moved(t.num)
      \/ \E i \in DOMAIN parts :
           /\ parts[i].mount = t.mount /\ parts[i].fs = t.fs /\ parts[i].id = Meant(t.num)
           /\ t.format <=> \/ parts[i].id = Unnamed
                           \/ \E j \in DOMAIN plan : plan[j].id = parts[i].id /\ plan[j].type = "filesystem"
=============================================================================
