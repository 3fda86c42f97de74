---------------------------- MODULE MCStorage ----------------------------
(***************************************************************************)
(* Storage for TLC.  The root directory fills cluster 2 and goes on in     *)
(* cluster 5, its first entry is deleted; "notes" begins in cluster 4 and  *)
(* ends in cluster 3, which it does not fill; "homework" lies in the root  *)
(* directory but its path begins like the mount point of ext2.  "box" is a *)
(* directory in cluster 6.  Taken for a directory, cluster 4 has an entry  *)
(* "stray" that leads behind the table.  Paths go through files, devices   *)
(* and processes as well, and end at roots of mounts.  The NVMe driver     *)
(* shares nothing with the rest (no filesystem uses it), nor does the    *)
(* table of files of the 32-bit system: each of the three is explored      *)
(* while the others stand at their beginning.                              *)
(***************************************************************************)
EXTENDS MCFilesystem, Storage, Nvme, TLC

MCMountPoint == [fat32 |-> <<"/">>, ext2 |-> <<"/", "home">>, devfs |-> <<"/", "dev">>,
                 procfs |-> <<"/", "proc">>, sysfs |-> <<"/", "sys">>]

MCMountOrder == <<"fat32", "ext2", "devfs", "procfs", "sysfs">>

MCDiskFat == (2 :> 5) @@ (3 :> Eoc) @@ (4 :> 3) @@ (5 :> Eoc) @@ (6 :> Eoc)

MCDiskDir ==
  (2 :> <<Deleted, [name |-> <<"notes">>, first |-> 4, size |-> 3]>>)
  @@ (5 :> <<[name |-> <<"home", "work">>, first |-> 3, size |-> 1],
            [name |-> <<"box">>, first |-> 6, size |-> 0], End>>)
  @@ (6 :> <<[name |-> <<"inner">>, first |-> 4, size |-> 3], End>>)
  @@ (4 :> <<[name |-> <<"stray">>, first |-> 9, size |-> 1], Deleted>>)

MCDiskData == (2 :> <<"dir", "dir">>) @@ (3 :> <<"c", "d">>) @@ (4 :> <<"a", "b">>)
              @@ (5 :> <<"dir", "dir">>) @@ (6 :> <<"dir", "dir">>)

MCSysData == <<[name |-> <<"hostname">>, data |-> <<"n">>],
               [name |-> <<"power_control">>, data |-> <<"s">>]>>

MCProcData == (1 :> <<>>) @@ [i \in (2 .. 6) \union {1007} |-> <<"p">>]

MCPid == [seven |-> 7]

MCPath == {<<"/", "notes">>, <<"/", "home", "work">>, <<"/", "dev", "/", "zero">>,
           <<"/", "proc", "/", "seven">>,
           <<"/", "sys", "/", "hostname">>, <<"/", "sys", "/", "power_control">>,
           <<"/">>, <<"/", "sys", "/">>, <<"/", "box", "/", "inner">>,
           <<"/", "notes", "/", "stray">>, <<"/", "dev", "/", "zero", "/", "null">>}

MCWriteData == {<<"x", "x">>}

MCUnit == {"a", "b", "c", "d", "dir", "n", "s", "p", "x"}

(***************************************************************************)
(* The three side by side.                                                 *)
(***************************************************************************)
MCInit == Init /\ VfsInit /\ NvmeInit

NothingMounted == mounts = <<>> /\ drive = "unset" /\ "sysfs" \notin registered
NothingSaved   == Init /\ disk # NoImage

MCNext ==
  \/ NothingMounted /\ calls = 0 /\ Next /\ UNCHANGED <<vfs, nvme>>
  \/ NothingSaved /\ calls = 0 /\ VfsNext /\ UNCHANGED <<vars, nvme>>
  \/ NothingSaved /\ NothingMounted /\ NvmeNext /\ UNCHANGED <<vars, vfs>>
  \/ calls = MaxCalls /\ waiting = NoCall /\ UNCHANGED <<vars, vfs, nvme>>   \* the bound

MCSpec == MCInit /\ [][MCNext]_<<vars, vfs, nvme>>
=============================================================================
