----------------------------- MODULE Filesystem -----------------------------
(***************************************************************************)
(* The table of files of fs/filesystem.c, its current directory, and the   *)
(* image of it on the disk, as the shell and NixLang commands use them.    *)
(*                                                                         *)
(* A node is named by its place in the table plus 1, so that the root is 1 *)
(* and the -1 of the program is 0.  A text stands for the size bytes at    *)
(* content.  Owners, permissions and times are left out.                   *)
(*                                                                         *)
(* The disk: of the table copied to disk_buffer a sector takes the first   *)
(* 510 bytes, a few nodes; the rest, file_count and current_dir at its end *)
(* among it, is read back after a restart from whatever memory lies behind *)
(* the 512 bytes of disk_buffer.  A restart is a power-on with cleared     *)
(* memory.  What the copying of a whole table to 512 bytes does to the     *)
(* variables of other modules, the sectors of contents and                 *)
(* filesystem_mark_installed are not modelled.  A save reaches the disk as *)
(* a whole or, when the drive does not answer, not at all.                 *)
(*                                                                         *)
(* A definition marked "slip" is a wrong version of a definition after it, *)
(* used only to confirm that a property would notice the mistake.          *)
(***************************************************************************)
EXTENDS Integers, Sequences, FiniteSets

CONSTANTS
  MAX_FILES,     \* 256
  Names,         \* the names commands are given
  Clip(_),       \* a name as it is stored: its first 31 characters
  Texts,         \* what is written to files, cut to MAX_FILE_SIZE already
  EmptyText,     \* the text of size 0
  SECTOR_NODES,  \* how many nodes the saved 510 bytes hold (5)
  DriveMayFail   \* whether the drive may fail to answer

ASSUME FilesystemAssumption ==
  /\ MAX_FILES \in Nat /\ MAX_FILES >= 3
  /\ \A n \in Names : Clip(Clip(n)) = Clip(n)
  /\ EmptyText \in Texts
  /\ SECTOR_NODES \in Nat /\ SECTOR_NODES < MAX_FILES
  /\ DriveMayFail \in BOOLEAN

REGULAR   == "regular"
DIRECTORY == "directory"
NULL      == 0
NotFound  == 0
Root      == 1
Block     == 1 .. MAX_FILES

VARIABLES
  files,        \* the file_count nodes in use
  current_dir,
  live,         \* the blocks of the heap that hold contents
  disk,         \* the nodes in the header sectors, or NoImage
  saved         \* whether the last save reached the disk

tree == <<files, current_dir, live>>
vars == <<files, current_dir, live, disk, saved>>

NoImage == << >>

Entry(name, type, parent) ==
  [name |-> Clip(name), type |-> type, parent |-> parent, text |-> EmptyText, content |-> NULL]

\* filesystem_create_default, three levels of it: the root, a directory and
\* in it the one that becomes the current directory.
DefaultFiles ==
  << [name |-> "/", type |-> DIRECTORY, parent |-> NotFound, text |-> EmptyText, content |-> NULL],
     [name |-> "home", type |-> DIRECTORY, parent |-> Root, text |-> EmptyText, content |-> NULL],
     [name |-> "nixuser", type |-> DIRECTORY, parent |-> 2, text |-> EmptyText, content |-> NULL] >>

\* The part of the table that fs' first sector holds.
Image(fs) == SubSeq(fs, 1, IF Len(fs) < SECTOR_NODES THEN Len(fs) ELSE SECTOR_NODES)

Save_stale ==                                       \* slip: the buffer is filled too early
  \/ disk' = Image(files) /\ saved' = TRUE
  \/ DriveMayFail /\ UNCHANGED disk /\ saved' = FALSE

\* filesystem_save_to_disk after a change; failures are not reported.
Save ==
  \/ disk' = Image(files') /\ saved' = TRUE
  \/ DriveMayFail /\ UNCHANGED disk /\ saved' = FALSE

Init ==
  /\ files = DefaultFiles /\ current_dir = 3 /\ live = {}
  /\ \/ disk = Image(DefaultFiles) /\ saved = TRUE
     \/ DriveMayFail /\ disk = NoImage /\ saved = FALSE

(***************************************************************************)
(* Looking up.                                                             *)
(***************************************************************************)

Matches(name, dir) == {i \in DOMAIN files : files[i].parent = dir /\ files[i].name = name}

Find_anyParent(name, dir) ==                        \* slip: the parent is not compared
  LET found == {i \in DOMAIN files : files[i].name = name}
  IN  IF found = {} THEN NotFound ELSE CHOOSE i \in found : \A j \in found : i <= j

\* find_file: the first node of that name in a directory.
Find(name, dir) ==
  LET found == Matches(name, dir)
  IN  IF found = {} THEN NotFound ELSE CHOOSE i \in found : \A j \in found : i <= j

IsDir(i) == files[i].type = DIRECTORY

\* The directory an absolute path leads to, or NotFound.
Resolve(path) ==
  LET at[n \in 0 .. Len(path)] ==
        IF n = 0 THEN Root
        ELSE LET next == IF at[n - 1] = NotFound THEN NotFound ELSE Find(path[n], at[n - 1])
             IN  IF next # NotFound /\ IsDir(next) THEN next ELSE NotFound
  IN  at[Len(path)]

(***************************************************************************)
(* Operations.                                                             *)
(***************************************************************************)

Create_noFind(name, type) ==                        \* slip: the name may be there already
  /\ Len(files) < MAX_FILES
  /\ files' = Append(files, Entry(name, type, current_dir))
  /\ Save
  /\ UNCHANGED <<current_dir, live>>

\* create_file and create_directory in the current directory (touch, mkdir).
Create(name, type) ==
  /\ Len(files) < MAX_FILES
  /\ Find(name, current_dir) = NotFound
  /\ files' = Append(files, Entry(name, type, current_dir))
  /\ Save
  /\ UNCHANGED <<current_dir, live>>

\* The block kmalloc returns.
FreeBlock == CHOOSE b \in Block \ live : \A d \in Block \ live : b <= d

\* write_file, to node i of table fs: contents are allocated on the first
\* write, which may fail; then nothing is changed or saved.
Written(fs, i, text) ==
  IF fs[i].content # NULL
  THEN /\ files' = [fs EXCEPT ![i].text = text]
       /\ Save
       /\ UNCHANGED live
  ELSE \/ /\ Block \ live # {}
          /\ files' = [fs EXCEPT ![i].text = text, ![i].content = FreeBlock]
          /\ live' = live \cup {FreeBlock}
          /\ Save
       \/ /\ files' = fs
          /\ UNCHANGED live
          /\ IF fs = files THEN UNCHANGED <<disk, saved>> ELSE Save

\* A command that writes a text to a name: an existing regular file ...
WriteOld(name, text) ==
  LET i == Find(name, current_dir)
  IN  /\ i # NotFound
      /\ files[i].type = REGULAR
      /\ Written(files, i, text)
      /\ UNCHANGED current_dir

\* ... or one that it creates first.
WriteNew(name, text) ==
  /\ Find(name, current_dir) = NotFound
  /\ Len(files) < MAX_FILES
  /\ Written(Append(files, Entry(name, REGULAR, current_dir)), Len(files) + 1, text)
  /\ UNCHANGED current_dir

\* A parent link after node f was taken out.
Renumbered(p, f) == IF p = f THEN NotFound ELSE IF p > f THEN p - 1 ELSE p

\* delete_file: later nodes move down, the children of f lose their parent.
Without(f) ==
  [i \in 1 .. Len(files) - 1 |->
     LET node == files[IF i < f THEN i ELSE i + 1]
     IN  [node EXCEPT !.parent = Renumbered(node.parent, f)]]

DeleteFile_leaks(f) ==                              \* slip: the contents are not freed
  /\ live' = live
  /\ files' = Without(f)
  /\ current_dir' = IF current_dir = f THEN Root
                    ELSE IF current_dir > f THEN current_dir - 1 ELSE current_dir
  /\ Save

DeleteFile(f) ==
  /\ live' = live \ {files[f].content}
  /\ files' = Without(f)
  /\ current_dir' = IF current_dir = f THEN Root
                    ELSE IF current_dir > f THEN current_dir - 1 ELSE current_dir
  /\ Save

\* rm: a node of the current directory, of either type and with or without
\* children.
RemoveNode(name) ==
  /\ Find(name, current_dir) # NotFound
  /\ DeleteFile(Find(name, current_dir))

\* cd with "..", an absolute path or a name; a path that leads to no
\* directory changes nothing.
ChangeUp ==
  /\ current_dir # Root
  /\ current_dir' = files[current_dir].parent
  /\ UNCHANGED <<files, live, disk, saved>>

ChangeToPath(path) ==
  /\ Resolve(path) # NotFound
  /\ current_dir' = Resolve(path)
  /\ UNCHANGED <<files, live, disk, saved>>

ChangeInto(name) ==
  /\ Find(name, current_dir) # NotFound
  /\ IsDir(Find(name, current_dir))
  /\ current_dir' = Find(name, current_dir)
  /\ UNCHANGED <<files, live, disk, saved>>

\* A restart: filesystem_init.  The nodes on the disk come back, but the count
\* behind MAX_FILES nodes is not among what the sector holds and is 0, so that
\* the table is made anew over them.
Boot ==
  /\ files' = DefaultFiles
  /\ current_dir' = 3
  /\ Save
  /\ live' = {}

Paths == UNION {[1 .. n -> Names \cup {"home", "nixuser"}] : n \in 0 .. 3}

Next ==
  \/ \E name \in Names :
       \/ \E type \in {REGULAR, DIRECTORY} : Create(name, type)
       \/ \E text \in Texts : WriteOld(name, text) \/ WriteNew(name, text)
       \/ RemoveNode(name)
       \/ ChangeInto(name)
  \/ ChangeUp
  \/ \E path \in Paths : ChangeToPath(path)
  \/ Boot

Spec == Init /\ [][Next]_vars

(***************************************************************************)
(* Properties.                                                             *)
(***************************************************************************)
\* The current directory is a directory from which ".." leads up to the root:
\* no sequence of commands cuts off the directory the shell is in, and the
\* walk of get_current_path ends.
CwdIsAttached ==
  \E S \in SUBSET (1 .. current_dir) :
    /\ current_dir \in S
    /\ \A i \in S : /\ i \in DOMAIN files /\ IsDir(i)
                    /\ i = Root \/ files[i].parent \in S

\* In a directory a name is there once, unless it was cut when it was stored.
NamesAreUnique ==
  \A i, j \in DOMAIN files :
    i # j /\ files[i].parent # NotFound
      /\ files[i].parent = files[j].parent /\ files[i].name = files[j].name
    => \E n \in Names : n # Clip(n) /\ Clip(n) = files[i].name

\* The heap holds exactly the contents of the files, each file its own: what
\* is deleted is freed, and nothing that is in use.
ContentsAreOwned ==
  /\ live = {files[i].content : i \in DOMAIN files} \ {NULL}
  /\ \A i, j \in DOMAIN files : files[i].content = files[j].content =>
       i = j \/ files[i].content = NULL

\* What is on the disk is never behind the table, unless the drive failed.
SavedIsCurrent == saved => disk = Image(files)

\* "Your files will persist across reboots."
FilesPersist == [][Boot /\ saved => files' = files]_vars
=============================================================================
