-------------------------------- MODULE Vfs ---------------------------------
(***************************************************************************)
(* The virtual file system (src/fs/vfs.rs) with what is mounted in it: the *)
(* MINIX file system at / and devfs at /dev (src/fs/devfs.rs), as fs::init *)
(* does; and an open file, which its clones share.  A path is the sequence *)
(* of its components.                                                      *)
(*                                                                         *)
(* The VFS changes no directory (mkdir, unlink and the others are          *)
(* unsupported), so the operations of MinixFs that do are taken while no   *)
(* file is open.  The formats of binfmt share only the tree with all this  *)
(* and are explored before files are used.                                 *)
(***************************************************************************)
EXTENDS Minix, Binfmt

CONSTANTS OpenPaths, ReadLen, Seeks,
          MaxOps,      \* bound: the operations that change the disk ...
          ErrorCost    \* ... of which an error counts for that many more

VARIABLES mount_table, super_blocks,
          file,        \* the open file, or NoFile
          ops,         \* how many operations have changed the disk
          phase        \* how far main has come

vfsVars == <<mount_table, super_blocks, file>>
allVars == <<fsVars, binVars, vfsVars, phase, ops>>

NoFile == [fs |-> "none", path |-> <<>>, offset |-> 0]
DEVICES == <<"null", "zero", "console", "vda">>

\* resolve: the file system of the longest mount point, and the path below it
resolve(path) ==
  LET n == Tree!longest_prefix(mount_table, path)
  IN  [fs |-> IF n = -1 THEN "none" ELSE mount_table.value[SubSeq(path, 1, n)],
       path |-> SubSeq(path, n + 1, Len(path))]

mount(key, fs) ==
  /\ ~ Tree!contains_key(mount_table, key)
  /\ mount_table' = Tree!insert(mount_table, key, fs)
  /\ super_blocks' = Append(super_blocks, fs)
  /\ UNCHANGED <<fsVars, binVars, file>>

\* fs::init
Init0 == phase = "boot" /\ mount(<<>>, "minix") /\ phase' = "root" /\ UNCHANGED ops
Init1 == phase = "root" /\ mount(<<"dev">>, "devfs") /\ phase' = "formats" /\ UNCHANGED ops

\* Bound: programs are routed, and files used, with the formats that are
\* built in.
Formats ==
  /\ phase = "formats"
  /\ \/ /\ BinNext /\ UNCHANGED phase
        /\ exec # NoExec \/ exec' # NoExec => entries = BuiltIn /\ entries' = entries
     \/ /\ exec = NoExec /\ entries = BuiltIn
        /\ phase' = "files" /\ UNCHANGED binVars
  /\ UNCHANGED <<fsVars, vfsVars, ops>>

-----------------------------------------------------------------------------
(* The open file *)

Open(f) == file' = f /\ UNCHANGED <<fsVars, mount_table, super_blocks>>

\* MinixVfs::open and DevFs::open; what is not found is not opened.  Bound:
\* devices, which share nothing with the disk, are opened while it is fresh.
open(path) ==
  LET r == resolve(path) IN
  /\ file = NoFile
  /\ \/ r.fs = "minix" /\ resolve_path(disk, r.path) # 0
     \/ /\ r.fs = "devfs" /\ disk = Formatted
        /\ (r.path = <<>> \/ (Len(r.path) = 1 /\ r.path[1] \in ToSet(DEVICES)))
  /\ Open([fs |-> r.fs, path |-> r.path, offset |-> 0])

\* The last clone is dropped.
close == file # NoFile /\ Open(NoFile)

Device == IF file.path = <<>> THEN "dir" ELSE file.path[1]
Moved(n) == [file EXCEPT !.offset = @ + n]

\* MinixFileOps opens the path again for every operation.
Ino == resolve_path(disk, file.path)

\* File::read: at the offset, which moves on by what was read
read ==
  LET left == Len(Content(disk, Ino)) - file.offset
      got == IF left < 0 THEN 0 ELSE IF left < ReadLen THEN left ELSE ReadLen
  IN
  /\ \/ file.fs = "minix" /\ Ino # 0 /\ Open(Moved(got))
     \/ file.fs = "devfs" /\ Device = "null" /\ Open(file)
     \/ file.fs = "devfs" /\ Device \in {"zero", "vda"} /\ Open(Moved(ReadLen))
     \/ /\ file.fs = "devfs" /\ Device = "console"
        /\ \E n \in 0 .. ReadLen : Open(Moved(n))
  /\ file'.offset =< MaxOffset

\* Bound: what is written at the start of a file and what is written further
\* on differ, and that is all that is told apart.
ValueAt(offset) == IF offset = 0 THEN "x" ELSE "y"

\* A write into a directory, which nothing forbids, spoils it.
Over(ino) == IF disk.inode[ino].type = "DIR" THEN {"data"} ELSE {}

\* File::write to what the path leads to, or to a device but the disk itself.
\* Bound: MaxOffset is as much as the tables of a file can hold, and in the
\* code that is more than a disk.
WriteFile(n) ==
  /\ file.fs = "minix"
  /\ \E ino \in {Ino} \ {0} :
     \E r \in {write_at(disk, ino, file.offset, n, ValueAt(file.offset))} :
       /\ file.offset + r.done =< MaxOffset
       /\ Done(r.disk, Over(ino)) /\ file' = Moved(r.done)
  /\ UNCHANGED <<mount_table, super_blocks>>

\* The device fails one of the writes; the offset stays.
WriteFails(n) ==
  /\ file.fs = "minix" /\ file.offset + n =< MaxOffset
  /\ \E ino \in {Ino} \ {0} :
     \E p \in Errors(write_at(disk, ino, file.offset, n, ValueAt(file.offset)).disk) :
       ReturnsErr(p, Over(ino), {})
  /\ UNCHANGED vfsVars

WriteDevice(n) ==
  /\ file.fs = "devfs" /\ Device \in {"null", "zero", "console"}
  /\ file.offset + n =< MaxOffset
  /\ Open(Moved(n))

\* File::seek: devices refuse it, and so is a negative result
seek ==
  /\ file.fs = "minix" /\ Ino # 0
  /\ \E s \in Seeks :
       LET base == CASE s[1] = "SET" -> 0 [] s[1] = "CUR" -> file.offset
                     [] s[1] = "END" -> disk.inode[Ino].size
       IN  /\ base + s[2] \in 0 .. MaxOffset
           /\ Open([file EXCEPT !.offset = base + s[2]])

\* DeviceDirectory::read_dir: the position counts on past the last device
read_dir ==
  /\ file.fs = "devfs" /\ Device = "dir"
  /\ file.offset < MaxOffset
  /\ Open(Moved(1))

-----------------------------------------------------------------------------
Init ==
  /\ FsInit /\ BinInit
  /\ mount_table = Tree!new
  /\ super_blocks = <<>>
  /\ file = NoFile
  /\ phase = "boot"
  /\ ops = 0

Namespace ==
  \E dir \in Dirs, name \in Names :
    \/ create_file(dir, name)
    \/ create_dir(dir, name)
    \/ remove(dir, name)
    \/ \E old \in Linked : link(old, dir, name)
    \/ \E t \in DOMAIN TargetOf : symlink(dir, name, t)

\* Bound: when an error has left an entry behind, or a program has written
\* into a directory, the disk is not used any further.
FilesStep ==
  /\ phase = "files" /\ odd \subseteq {"zone"}
  /\ \/ file = NoFile /\ Namespace /\ UNCHANGED vfsVars
     \/ \E p \in OpenPaths : open(p)
     \/ \E n \in WriteLens : WriteFile(n) \/ WriteFails(n) \/ WriteDevice(n)
     \/ close \/ read \/ seek \/ read_dir
  /\ ops < MaxOps
  /\ ops' = ops + (IF disk' = disk THEN 0 ELSE 1) + (errors' - errors) * ErrorCost
  /\ ops' =< MaxOps
  /\ UNCHANGED <<binVars, phase>>

Next == Init0 \/ Init1 \/ Formats \/ FilesStep

Spec == Init /\ [][Next]_allVars

-----------------------------------------------------------------------------
(* Properties *)

\* A write to the open file leaves it as written asks: the value at the
\* offset, or at the end of the file if that comes first, and the rest as it
\* was before.
Lands(n, written) ==
  LET size == disk.inode[Ino].size
      off == IF file.offset < size THEN file.offset ELSE size
  IN  Content(disk', Ino) = Spliced(Content(disk, Ino), off, written, ValueAt(file.offset))

\* A write to a file that can be read to its end, on a disk that has room
\* for it, puts its value where it was asked to, and no operation changes what
\* any other file or link contains, with or without a device error (write_at
\* with the tables that write_file_zones builds and data_zones follows, and
\* the bitmaps behind alloc_zone and free_zone).
FilesAsWritten ==
  [][/\ \A n \in WriteLens :
          WriteFile(n) /\ Intact(disk, Ino) /\ RoomLeft(disk') => Lands(n, n)
     /\ disk' # disk => \A i \in (Files(disk) \ lost) \cap Files(disk') :
          \/ Content(disk', i) = Content(disk, i)
          \/ i = Ino /\ \E n \in WriteLens : WriteFile(n) \/ WriteFails(n)]_allVars

\* What a write reports as written can be read back, whether or not the disk
\* has become full (the comment on write_at: with too little space it returns
\* the number of bytes that were really written).
WrittenIsRead ==
  [][\A n \in WriteLens : WriteFile(n) => Lands(n, file'.offset - file.offset)]_allVars

\* The scripts from the path of the call to the program that runs, which is
\* last.  Bound: Images has no script that leads back to itself.
RECURSIVE ChainFrom(_)
ChainFrom(p) == IF p \in DOMAIN Line THEN <<p>> \o ChainFrom(Line[p][1]) ELSE <<p>>

\* The program that runs gets the words of the last script's line, the path
\* of that script, then for each script before it the words after its
\* interpreter and its path, and at the end the arguments of the call
\* (exec_shebang, shebang_split).
ArgvKept ==
  exec.pc = "run" =>
    LET chain == ChainFrom(exec.start[1])
        n == Len(chain)
        Words(k) == Tail(Line[chain[k]]) \o <<chain[k]>>
        scripts == FlattenSeq([k \in 1 .. (n - 1) |-> Words(n - k)])
    IN  /\ exec.path = chain[n]
        /\ exec.argv = IF n = 1 THEN exec.start[2]
                       ELSE <<exec.path>> \o scripts \o Tail(exec.start[2])

=============================================================================
