------------------------------ MODULE Storage ------------------------------
(***************************************************************************)
(* Mounted filesystems and open files (kernel/fs): the VFS with FAT32 over *)
(* an AHCI drive, devfs, procfs and sysfs.  Of ext2 only the mount is      *)
(* here, what lies behind its read_inode is unfinished.                    *)
(*                                                                         *)
(* The VFS calls read and write through inode->ops, a table that has only  *)
(* lookup; the model takes the functions of the filesystem's own table of  *)
(* file operations, which is what the code means.  Calls are those that    *)
(* vfs.h offers, after vfs_init.  Mounts come in the order of              *)
(* kernel/main.c, where the first is made before ahci_init and fails, and  *)
(* that of sysfs fails since vfs_init does not register it; here ahci_init *)
(* may come first, and sysfs may be registered.                            *)
(*                                                                         *)
(* A path is a sequence of tokens, "/" or parts of names, so that it may   *)
(* begin with the text of a mount point and yet lie elsewhere.  A lookup   *)
(* asks nothing of the inode it starts from: FAT32 reads the clusters of a *)
(* file as a directory, devfs, procfs and sysfs do not look at it at all.  *)
(* Data are units; a cluster holds ClusterSize of them and is read by one  *)
(* command.  Memory that is never given back (inodes, nodes) is left out.  *)
(***************************************************************************)
EXTENDS Integers, Sequences, SequencesExt, FiniteSets, FiniteSetsExt, Functions

CONSTANTS
  Path,           \* paths that are opened
  MountPoint,     \* filesystem -> where it is mounted
  MountOrder,     \* the filesystems in the order of the calls in main.c
  Cluster, ClusterSize,
  RootCluster,    \* where the root directory begins
  DiskFat,        \* the table on the disk: cluster -> next, or Eoc
  DiskDir,        \* cluster, of a file too -> what it reads as: [name, first, size], Deleted, End
  DiskData,       \* cluster -> its units
  JunkLink,       \* bound: links read from a table that could not be read
  SysData,        \* sysfs_mount: sequence of [name, data], each put at the head
  ProcData,       \* procfs: inode number -> units
  Pid,            \* names that are numbers -> the number
  FirstFd, LastFd, MaxRead,
  Unit,           \* units that files hold
  WriteData,      \* sequences of units that are written
  MaxSize         \* bound: offsets and sizes

Eoc     == -1                \* any value from 0x0FFFFFF8 on
Deleted == [name |-> <<"deleted">>, first |-> 0, size |-> 0]      \* 0xE5
End     == [name |-> <<"end">>, first |-> 0, size |-> 0]          \* first byte 0
NoInode == [fs |-> "none", ino |-> 0, size |-> 0]
NoFile  == [inode |-> NoInode, offset |-> 0]
NoWalk  == [at |-> NoInode, rest |-> <<>>]
NoEntry == [name |-> <<>>, data |-> <<>>]

FsName  == {"fat32", "ext2", "devfs", "procfs", "sysfs"}
SysName == {SysData[i].name : i \in DOMAIN SysData}

VARIABLES
  registered,     \* filesystems that are registered
  mounts,         \* sequence of [path, fs], the newest first
  drive,          \* ahci_base: "unset" or "set"
  misread,        \* a sector that the last call wanted could not be read
  fat,            \* fat_table as read at the mount
  sysfs_root,     \* sequence of [name, data] from the head
  open_files,     \* descriptor -> NoFile or [inode, offset]
  walk,           \* of vfs_lookup: current and the components that are left
  data            \* the units that the last call read

vfs == <<registered, mounts, drive, misread, fat, sysfs_root, open_files, walk, data>>

Inode(fs, ino, size) == [fs |-> fs, ino |-> ino, size |-> size]

(***************************************************************************)
(* The drive.  Each sector is a command of its own, whose result its       *)
(* caller ignores: spinning on a busy port, and an error, end in failure.  *)
(***************************************************************************)
\* Which of some sectors are read
AhciRead(want) == SUBSET want

(***************************************************************************)
(* FAT32.                                                                  *)
(***************************************************************************)
\* Tables that may stand in memory: the disk's, or what lay there before when
\* the sectors could not be read
FatRead(got) ==
  IF got THEN {DiskFat} ELSE {[c \in Cluster |-> x] : x \in JunkLink}

\* The cluster n links behind c in a table, Eoc if the chain ends before
ClusterIn(table, c, n) ==
  LET at[i \in 0 .. n] == IF i = 0 \/ n = 0 THEN c
                          ELSE IF at[i - 1] = Eoc THEN Eoc ELSE table[at[i - 1]]
  IN  at[n]

ClusterAt(c, n) == ClusterIn(fat, c, n)

\* The clusters a lookup that starts at c passes, in order
DirChain(c) ==
  LET upto == CHOOSE n \in 0 .. Cardinality(Cluster) :
                 \/ ClusterAt(c, n) = Eoc
                 \/ n = Cardinality(Cluster)
  IN  [i \in 1 .. upto |-> ClusterAt(c, i - 1)]

Entries(c) == IF c \in DOMAIN DiskDir THEN DiskDir[c] ELSE <<End>>

\* An entry is named by its place: the cluster in the chain, the place in the cluster
Place(chain) == UNION {{<<i, j>> : j \in DOMAIN Entries(chain[i])} : i \in DOMAIN chain}

EntryAt(chain, p) == Entries(chain[p[1]])[p[2]]

Precedes(p, q) == p[1] < q[1] \/ (p[1] = q[1] /\ p[2] < q[2])

\* The first entry of that name before the end of the directory
FatLookup(c, name) ==
  LET chain == DirChain(c)
      hits  == {p \in Place(chain) :
                  /\ EntryAt(chain, p) # Deleted /\ EntryAt(chain, p).name = name
                  /\ \A q \in Place(chain) : EntryAt(chain, q) = End => Precedes(p, q)}
      hit   == EntryAt(chain, CHOOSE p \in hits : \A q \in hits : q = p \/ Precedes(p, q))
  IN  IF hits = {} THEN NoInode ELSE Inode("fat32", hit.first, hit.size)

\* A lookup that finds nothing runs for ever on a cycle without an end
Returns(c, found) ==
  \/ found # NoInode \/ ClusterAt(c, Cardinality(Cluster)) = Eoc
  \/ LET chain == DirChain(c) IN \E p \in Place(chain) : EntryAt(chain, p) = End

\* All entries that a lookup may meet
DirEntry == (UNION {Range(DiskDir[c]) : c \in DOMAIN DiskDir}) \ {Deleted, End}

\* What it may find where it could not read: nothing, or what an earlier one left in the buffer
Leftover(name) ==
  {NoInode} \union {Inode("fat32", e.first, e.size) : e \in {x \in DirEntry : x.name = name}}

\* An entry that is none may lead behind the table; there every link and sector is arbitrary
InTable(inode) == inode.ino \in Cluster \union {Eoc}

FatCount_noClamp(inode, n, offset) ==                                    \* slip
  IF offset >= inode.size THEN 0 ELSE n

FatCount(inode, n, offset) ==
  IF offset >= inode.size THEN 0
  ELSE IF offset + n > inode.size THEN inode.size - offset ELSE n

\* The clusters a read copies from, one for each unit: along the chain until the
\* count is reached or the chain ends
FatUnits(inode, n, offset) ==
  LET count == FatCount(inode, n, offset)
      at(i) == ClusterAt(inode.ino, (offset + i - 1) \div ClusterSize)
      upto  == CHOOSE k \in 0 .. count :
                 (\A i \in 1 .. k : at(i) # Eoc) /\ (k = count \/ at(k + 1) = Eoc)
  IN  [i \in 1 .. upto |-> at(i)]

\* A cluster that could not be read leaves in the buffer what lay there
FatReadUnits(inode, n, offset, got) ==
  LET at == FatUnits(inode, n, offset)
  IN  [i \in DOMAIN at |-> IF at[i] \in got THEN DiskData[at[i]][((offset + i - 1) % ClusterSize) + 1]
                          ELSE "junk"]

(***************************************************************************)
(* devfs, procfs, sysfs.                                                   *)
(***************************************************************************)
DevNode == [null |-> 259, zero |-> 261, random |-> 264, urandom |-> 265,
            sda |-> 2048, sda1 |-> 2049, sda2 |-> 2050]

DevLookup(name) ==
  IF Len(name) = 1 /\ name[1] \in DOMAIN DevNode THEN Inode("devfs", DevNode[name[1]], 0)
  ELSE NoInode

\* null and the drives have nothing to read
DevRead(inode, n) ==
  CASE inode.ino = 261 -> [i \in 1 .. n |-> "zero"]
    [] inode.ino \in {264, 265} -> [i \in 1 .. n |-> "random"]
    [] OTHER -> <<>>

\* zero and random refuse, the others drop what they are given
DevTakes(inode) == inode.ino = 259 \/ inode.ino \div 256 = 8

ProcIno == [cpuinfo |-> 2, meminfo |-> 3, version |-> 4, uptime |-> 5, loadavg |-> 6]

\* Any number is taken for a process
ProcLookup(name) ==
  IF Len(name) # 1 THEN NoInode
  ELSE IF name[1] \in DOMAIN ProcIno THEN Inode("procfs", ProcIno[name[1]], 0)
  ELSE IF name[1] \in DOMAIN Pid THEN Inode("procfs", 1000 + Pid[name[1]], 0)
  ELSE NoInode

\* sysfs_find_entry counts from the head: an inode is a position
SysLookup(name) ==
  LET i == SelectInSeq(sysfs_root, LAMBDA e : e.name = name)
  IN  IF i = 0 THEN NoInode ELSE Inode("sysfs", i + 1, 0)

\* There is none for the root
SysEntry(inode) == IF inode.ino = 1 THEN NoEntry ELSE sysfs_root[inode.ino - 1]

Slice(s, offset, n) ==
  SubSeq(s, offset + 1, IF offset + n > Len(s) THEN Len(s) ELSE offset + n)

ProcRead(inode, offset, n) == Slice(ProcData[inode.ino], offset, n)

SysRead(inode, offset, n) == Slice(SysEntry(inode).data, offset, n)

\* A larger block is taken, the old data copied, then the new data put over them
SysWrite(old, offset, d) ==
  [i \in 1 .. Max({Len(old), offset + Len(d)}) |->
     IF i > offset /\ i <= offset + Len(d) THEN d[i - offset] ELSE old[i]]

IsControl(inode) == inode.fs = "sysfs" /\ SysEntry(inode).name = <<"power_control">>

(***************************************************************************)
(* Paths: the newest mount whose path is a prefix, as text, of the path.   *)
(***************************************************************************)
\* The names between the slashes
Components(tokens) ==
  LET add(s, t) == IF t = "/" THEN [s EXCEPT !.done = IF s.name = <<>> THEN @ ELSE Append(@, s.name),
                                              !.name = <<>>]
                   ELSE [s EXCEPT !.name = Append(@, t)]
      end == FoldLeft(add, [done |-> <<>>, name |-> <<>>], tokens)
  IN  IF end.name = <<>> THEN end.done ELSE Append(end.done, end.name)

MountOf(path) == SelectInSeq(mounts, LAMBDA e : IsPrefix(e.path, path))

GetRoot(fs) == IF fs = "fat32" THEN Inode(fs, RootCluster, 0) ELSE Inode(fs, 1, 0)

\* inode->ops->lookup, where no sector is misread
LookupIn(dir, name) ==
  CASE dir.fs = "fat32"  -> FatLookup(dir.ino, name)
    [] dir.fs = "devfs"  -> DevLookup(name)
    [] dir.fs = "procfs" -> ProcLookup(name)
    [] dir.fs = "sysfs"  -> SysLookup(name)

(***************************************************************************)
(* Initialisation and mounting.                                            *)
(***************************************************************************)
VfsInit ==
  /\ registered = {"fat32", "ext2", "devfs", "procfs"}
  /\ mounts = <<>>
  /\ drive = "unset" /\ misread = FALSE
  /\ fat = DiskFat
  /\ sysfs_root = <<>>
  /\ open_files = [fd \in FirstFd .. LastFd |-> NoFile]
  /\ walk = NoWalk
  /\ data = <<>>

RegisterSysfs ==
  /\ registered' = registered \union {"sysfs"}
  /\ misread' = FALSE /\ data' = <<>>
  /\ UNCHANGED <<mounts, drive, fat, sysfs_root, open_files, walk>>

AhciInit ==
  /\ drive = "unset" /\ drive' = "set"
  /\ misread' = FALSE /\ data' = <<>>
  /\ UNCHANGED <<registered, mounts, fat, sysfs_root, open_files, walk>>

\* sysfs_mount: each entry goes to the head
SysfsMounted == Reverse(SysData) \o sysfs_root

Turn(fs) == SelectInSeq(MountOrder, LAMBDA f : f = fs)

CanFail(fs) == fs \in {"fat32", "ext2"}

Mounted(fs) == \E i \in DOMAIN mounts : mounts[i].fs = fs

\* FAT32 and ext2 need their first sector; FAT32 goes on when that of the table fails
Mount(fs) ==
  /\ fs \in registered /\ \A i \in DOMAIN mounts : Turn(mounts[i].fs) < Turn(fs)
  /\ \A g \in registered : Turn(g) < Turn(fs) => CanFail(g) \/ Mounted(g)
  /\ CanFail(fs) => drive # "unset"
  /\ mounts' = <<[path |-> MountPoint[fs], fs |-> fs]>> \o mounts
  /\ sysfs_root' = IF fs = "sysfs" THEN SysfsMounted ELSE sysfs_root
  /\ \/ fs = "fat32" /\ \E got \in BOOLEAN : fat' \in FatRead(got) /\ misread' = ~ got
     \/ fs # "fat32" /\ fat' = fat /\ misread' = FALSE
  /\ data' = <<>>
  /\ UNCHANGED <<registered, drive, open_files, walk>>

(***************************************************************************)
(* Files.                                                                  *)
(***************************************************************************)
FreeFds == {fd \in DOMAIN open_files : open_files[fd] = NoFile}

\* vfs_open as far as the root of the mount.  Where ext2 answers, the model ends
Open(path) ==
  LET m == MountOf(path)
  IN  /\ m # 0 /\ mounts[m].fs # "ext2"
      /\ walk' = [at   |-> GetRoot(mounts[m].fs),
                  rest |-> Components(SubSeq(path, Len(mounts[m].path) + 1, Len(path)))]
      /\ misread' = FALSE /\ data' = <<>>
      /\ UNCHANGED <<registered, mounts, drive, fat, sysfs_root, open_files>>

\* current = lookup(current, component): the open fails when nothing is found
GoesTo(found) ==
  walk' = IF found = NoInode THEN NoWalk ELSE [at |-> found, rest |-> Tail(walk.rest)]

Walk ==
  LET name == Head(walk.rest)
  IN  /\ walk # NoWalk /\ walk.rest # <<>>
      /\ \/ /\ walk.at.fs = "fat32" => InTable(walk.at)
            /\ LET found == LookupIn(walk.at, name)
               IN  /\ walk.at.fs = "fat32" => Returns(walk.at.ino, found)
                   /\ GoesTo(found)
            /\ misread' = FALSE
         \/ /\ walk.at.fs = "fat32" /\ \E found \in Leftover(name) : GoesTo(found)
            /\ misread' = TRUE
      /\ data' = <<>>
      /\ UNCHANGED <<registered, mounts, drive, fat, sysfs_root, open_files>>

\* The rest of vfs_open: the first free descriptor, if there is one
Opens ==
  /\ walk # NoWalk /\ walk.rest = <<>>
  /\ open_files' = IF FreeFds = {} THEN open_files
                   ELSE [open_files EXCEPT ![Min(FreeFds)] = [inode |-> walk.at, offset |-> 0]]
  /\ walk' = NoWalk
  /\ misread' = FALSE /\ data' = <<>>
  /\ UNCHANGED <<registered, mounts, drive, fat, sysfs_root>>

Close(fd) ==
  /\ open_files[fd] # NoFile
  /\ open_files' = [open_files EXCEPT ![fd] = NoFile]
  /\ misread' = FALSE /\ data' = <<>>
  /\ UNCHANGED <<registered, mounts, drive, fat, sysfs_root, walk>>

Read(fd, n) ==
  LET f == open_files[fd]
      inode == f.inode
  IN  /\ f # NoFile /\ (inode.fs = "devfs" => f.offset + n <= MaxSize)
      /\ \/ /\ inode.fs = "fat32" /\ InTable(inode)
            /\ LET want == Range(FatUnits(inode, n, f.offset))
               IN  \E got \in AhciRead(want) : /\ data' = FatReadUnits(inode, n, f.offset, got)
                                              /\ misread' = (got # want)
         \/ /\ inode.fs = "fat32" /\ ~ InTable(inode)
            /\ \E k \in 0 .. FatCount(inode, n, f.offset) : data' = [i \in 1 .. k |-> "junk"]
            /\ misread' = TRUE
         \/ inode.fs = "devfs" /\ data' = DevRead(inode, n) /\ misread' = FALSE
         \/ inode.fs = "procfs" /\ data' = ProcRead(inode, f.offset, n) /\ misread' = FALSE
         \/ inode.fs = "sysfs" /\ data' = SysRead(inode, f.offset, n) /\ misread' = FALSE
      /\ open_files' = [open_files EXCEPT ![fd].offset = @ + Len(data')]
      /\ UNCHANGED <<registered, mounts, drive, fat, sysfs_root, walk>>

\* FAT32 and procfs have no write, the root of sysfs no entry
CanWrite(inode) ==
  (inode.fs = "sysfs" /\ inode.ino # 1) \/ (inode.fs = "devfs" /\ DevTakes(inode))

Write(fd, d) ==
  LET f == open_files[fd]
  IN  /\ f # NoFile /\ CanWrite(f.inode) /\ f.offset + Len(d) <= MaxSize
      /\ sysfs_root' = IF f.inode.fs # "sysfs" \/ IsControl(f.inode) THEN sysfs_root
                       ELSE [sysfs_root EXCEPT ![f.inode.ino - 1].data = SysWrite(@, f.offset, d)]
      /\ open_files' = [open_files EXCEPT ![fd].offset = @ + Len(d)]
      /\ misread' = FALSE /\ data' = <<>>
      /\ UNCHANGED <<registered, mounts, drive, fat, walk>>

\* A call that is under way is finished before the next
VfsCall ==
  \/ RegisterSysfs
  \/ AhciInit
  \/ \E fs \in registered : Mount(fs)
  \/ \E path \in Path : Open(path)
  \/ \E fd \in DOMAIN open_files :
       \/ Close(fd)
       \/ \E n \in 1 .. MaxRead : Read(fd, n)
       \/ \E d \in WriteData : Write(fd, d)

VfsNext == Walk \/ Opens \/ (walk = NoWalk /\ VfsCall)

VfsSpec == VfsInit /\ [][VfsNext]_vfs

(***************************************************************************)
(* The files behind the inodes, and what they hold.                        *)
(***************************************************************************)
\* One that is open is named by its inode; in sysfs by its name, not its position
FileOf(inode) ==
  <<inode.fs, IF inode.fs = "sysfs" THEN SysEntry(inode).name ELSE inode.ino, inode.size>>

DiskFile == {<<"fat32", e.first, e.size>> : e \in DirEntry} \union {<<"fat32", RootCluster, 0>>}
DevFile  == {<<"devfs", DevNode[d], 0>> : d \in DOMAIN DevNode} \union {<<"devfs", 1, 0>>}
ProcFile == {<<"procfs", i, 0>> : i \in DOMAIN ProcData}
SysFile  == {<<"sysfs", name, 0>> : name \in SysName \union {NoEntry.name}}

\* What devices return
DevUnit == [f \in DevFile |-> CASE f[2] = 261 -> {"zero"}
                              [] f[2] \in {264, 265} -> {"random"}
                              [] OTHER -> {}]

ControlFile == <<"sysfs", <<"power_control">>, 0>>

\* The chain is as long as the size; entries read from the data of a file may say anything
Whole(f) == \A i \in 1 .. f[3] : ClusterIn(DiskFat, f[2], (i - 1) \div ClusterSize) \in Cluster

Stray == {f \in DiskFile : ~ Whole(f)}

\* A file on the disk: the clusters of its chain one after the other, as far as its size
DiskContent ==
  [f \in DiskFile |->
     IF f \in Stray THEN <<>>
     ELSE [i \in 1 .. f[3] |-> DiskData[ClusterIn(DiskFat, f[2], (i - 1) \div ClusterSize)]
                                       [((i - 1) % ClusterSize) + 1]]]

\* Before sysfs is mounted its files hold what they will be made with
SysContent(name) ==
  LET s == IF sysfs_root = <<>> THEN SysData ELSE sysfs_root
  IN  IF name = NoEntry.name THEN NoEntry.data
      ELSE s[CHOOSE i \in DOMAIN s : s[i].name = name].data

VfsFile == DiskFile \union DevFile \union ProcFile \union SysFile

Content ==
  [f \in VfsFile |->
     CASE f[1] = "fat32"  -> DiskContent[f]
       [] f[1] = "devfs"  -> <<>>
       [] f[1] = "procfs" -> ProcData[f[2]]
       [] f[1] = "sysfs"  -> SysContent(f[2])]

Opened ==
  [fd \in {d \in DOMAIN open_files : open_files[d] # NoFile} |->
     [file |-> FileOf(open_files[fd].inode), offset |-> open_files[fd].offset]]

(***************************************************************************)
(* Nothing is asked of the entries and chains on the disk; Whole says      *)
(* which files are consistent.                                             *)
(***************************************************************************)
ASSUME DiskAssumption ==
  /\ IsFiniteSet(Cluster) /\ Eoc \notin Cluster /\ ClusterSize \in Nat \ {0}
  /\ \A c \in Cluster : DiskData[c] \in [1 .. ClusterSize -> Unit]
  /\ \A c \in DOMAIN DiskDir : DOMAIN DiskDir[c] = 1 .. Len(DiskDir[c])
  /\ RootCluster \in Cluster
  /\ \A e \in DirEntry : e.size \in Nat

\* The names in sysfs differ and are not empty; what procfs finds has something
\* to read, its root has not.
ASSUME VfsAssumption ==
  /\ {FirstFd, LastFd, MaxRead} \subseteq Nat
  /\ MountOrder \in Seq(FsName)
  /\ WriteData \subseteq Seq(Unit)
  /\ SysData \in Seq([name : SysName, data : Seq(Unit)])
  /\ \A i, j \in DOMAIN SysData : SysData[i].name = SysData[j].name => i = j
  /\ NoEntry.name \notin SysName
  /\ \A name \in DOMAIN ProcIno : ProcIno[name] \in DOMAIN ProcData
  /\ \A name \in DOMAIN Pid : 1000 + Pid[name] \in DOMAIN ProcData
  /\ \A i \in DOMAIN ProcData : ProcData[i] \in Seq(Unit)
  /\ 1 \in DOMAIN ProcData /\ ProcData[1] = <<>>

(***************************************************************************)
(* Open files are what FileStore promises: positions, ends of files and of *)
(* clusters, several descriptors for one file, sysfs files that are made   *)
(* larger under another reader, descriptors that are used again.  A sector *)
(* that is not read spoils the read that wanted it and no later one.       *)
(***************************************************************************)
Files == INSTANCE FileStore WITH
  File       <- VfsFile,
  OnDrive    <- DiskFile,
  Loose      <- Stray,
  Stream     <- DevFile,
  StreamUnit <- DevUnit,
  Sink       <- DevFile \union {ControlFile},
  Fd         <- FirstFd .. LastFd,
  content    <- Content,
  opened     <- Opened,
  lost       <- fat # DiskFat

RefinesFileStore == Files!Spec
=============================================================================
