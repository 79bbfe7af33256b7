------------------------------- MODULE Minix --------------------------------
(***************************************************************************)
(* The MINIX V1 file system (src/fs/minix.rs and src/fs/minix/).           *)
(*                                                                         *)
(* disk is what the block device holds: the two bitmaps, the inode table   *)
(* and the data zones.  Sizes and offsets are counted in slots, the size   *)
(* of a directory entry, and a zone holds Slots of them.  A zone is read   *)
(* either as slots or as a table of Per zone numbers, so it has both       *)
(* views; whatever is not a directory entry reads as an entry with a name  *)
(* that nobody asks for.                                                   *)
(*                                                                         *)
(* The kernel runs a system call to its end before the next one, so that   *)
(* each public function is one step, also where it takes the lock of the   *)
(* device several times.                                                   *)
(*                                                                         *)
(* The device can fail at every write, which is then not done at all; a    *)
(* zone that is written in part only has an entry or a number more or not, *)
(* or some of the data of a write that failed.  While a function runs,     *)
(* past collects what the device held before each of its writes: these are *)
(* the disks that an error can leave.  The code that then undoes what was  *)
(* done runs on each of them, and may fail in turn.  An error of a read    *)
(* leaves one of these disks too.                                          *)
(***************************************************************************)
EXTENDS Integers, Sequences, SequencesExt, FiniteSets

CONSTANTS WORD_BITS, ImapWords, ZmapWords,
          NInodes,               \* superblock.ninodes
          First, NZones,         \* first_data_zone and nzones
          Slots,                 \* zone_size / entry_size
          Per,                   \* zone_size / 2: the numbers in a table
          Direct,                \* MINIX_DIRECT_ZONES, 7 in the code
          LinkMax,               \* u8::MAX in the code
          MAX_SYMLINK_HOPS,      \* 40 in the code
          Names,                 \* the names that are given to files
          TargetOf,              \* the targets of symbolic links, as paths
          WriteLens, MaxOffset,  \* bounds: the lengths of writes, and offsets
          MaxErrors              \* bound: the operations that return an error

VARIABLES disk,
          errors,                \* how many operations have returned an error
          lost,                  \* history: inodes that they left without a caller
          odd                    \* history: what has spoilt a directory
                                 \*   "zone"   it was given a zone that is not zeroed
                                 \*   "entry"  an error left an entry in it
                                 \*   "data"   a program wrote into it

histVars == <<errors, lost, odd>>
fsVars == <<disk, histVars>>

Map == INSTANCE Bitmap

Root == 1
Inos == 1 .. NInodes
DataZones == First .. (NZones - 1)
IBits == NInodes + 1
ZBits == NZones - First + 1

ZeroSlot == [ino |-> 0, name |-> "", data |-> ""]
Entry(ino, name) == [ino |-> ino, name |-> name, data |-> ""]
\* A slot of a file's data: its bytes are no entry that anybody looks for.
Datum(v) == [ino |-> NInodes + 1, name |-> "?", data |-> v]

ZeroTable == [i \in 1 .. Per |-> 0]
Block(cells) == [slot |-> cells, tab |-> ZeroTable]
ZeroBlock == Block([i \in 1 .. Slots |-> ZeroSlot])
\* A zone that holds a table, seen as slots: the numbers lie in the first one.
TableBlock(t) ==
  [slot |-> [i \in 1 .. Slots |-> IF i = 1 /\ t # ZeroTable THEN Datum("") ELSE ZeroSlot],
   tab |-> t]

ZeroInode == [type |-> "none", size |-> 0, nlinks |-> 0, zone |-> [i \in 1 .. (Direct + 2) |-> 0]]

UpToZero(s) ==
  LET k == SelectInSeq(s, LAMBDA z : z = 0) IN IF k = 0 THEN s ELSE SubSeq(s, 1, k - 1)

-----------------------------------------------------------------------------
(* Zones and bitmaps (minix.rs).  An operator takes the disk and returns    *)
(* it as it is afterwards; no inode and no zone is 0.                       *)

Settled(d) == [d EXCEPT !.past = {}]
\* One write to the device that makes d into e.
Wrote(d, e) == [e EXCEPT !.past = d.past \cup {Settled(d)}]

BitTaken(d, r) ==
  [disk |-> Wrote(d, [d EXCEPT !.imap = r.words]), ino |-> IF r.bit = Map!NoBit THEN 0 ELSE r.bit]

alloc_inode(d) == BitTaken(d, Map!alloc_from(d.imap, IBits, 1))

free_inode(d, ino) ==
  IF ino = 0 \/ ino > NInodes THEN d
  ELSE Wrote(d, [d EXCEPT !.imap = Map!clear(@, IBits, ino)])

ZoneTaken(d, r) ==
  [disk |-> Wrote(d, [d EXCEPT !.zmap = r.words]),
   zone |-> IF r.bit = Map!NoBit THEN 0 ELSE r.bit + First - 1]

\* Mutant: the words are not written back.
alloc_zoneForgets(d) ==
  [ZoneTaken(d, Map!alloc_from(d.zmap, ZBits, 1)) EXCEPT !.disk = d]

alloc_zone(d) == ZoneTaken(d, Map!alloc_from(d.zmap, ZBits, 1))

free_zone(d, zone) ==
  IF zone < First \/ zone >= NZones THEN d
  ELSE Wrote(d, [d EXCEPT !.zmap = Map!clear(@, ZBits, zone - First + 1)])

write_inode(d, ino, inode) == Wrote(d, [d EXCEPT !.inode[ino] = inode])
write_zone(d, zone, cells) == Wrote(d, [d EXCEPT !.block[zone] = Block(cells)])
write_zone_table(d, zone, t) == Wrote(d, [d EXCEPT !.block[zone] = TableBlock(t)])

zone_table(d, zone) == IF zone = 0 THEN <<>> ELSE UpToZero(d.block[zone].tab)

\* The direct zones up to the first 0; if there is none, the tables as well.
data_zones(d, inode) ==
  LET direct == UpToZero(SubSeq(inode.zone, 1, Direct))
  IN  IF Len(direct) < Direct THEN direct
      ELSE direct \o zone_table(d, inode.zone[Direct + 1])
             \o FlattenSeq([i \in DOMAIN zone_table(d, inode.zone[Direct + 2]) |->
                  zone_table(d, d.block[inode.zone[Direct + 2]].tab[i])])

SlotAt(d, zones, k) == d.block[zones[((k - 1) \div Slots) + 1]].slot[((k - 1) % Slots) + 1]
SlotsOf(d, zones) == [k \in 1 .. (Len(zones) * Slots) |-> SlotAt(d, zones, k)]

AtMost(s, n) == SubSeq(s, 1, IF Len(s) < n THEN Len(s) ELSE n)

\* data(), and File::read_at of a whole file: what the zones hold, up to size
data(d, inode) == AtMost(SlotsOf(d, data_zones(d, inode)), inode.size)

-----------------------------------------------------------------------------
(* The zones of an inode and its tables (write.rs) *)

Padded(s) == [i \in 1 .. Per |-> IF i =< Len(s) THEN s[i] ELSE 0]
Present(d, zone) == IF zone # 0 THEN [disk |-> d, zone |-> zone] ELSE alloc_zone(d)
Dropped(s, n) == SubSeq(s, n + 1, Len(s))

\* In what follows s has the disk, the caller's copy of the inode, and whether
\* the disk was full: then the rest is left out, and that is no error.
SingleIn(s, zones, r) ==
  IF r.zone = 0 THEN [s EXCEPT !.full = TRUE]
  ELSE [s EXCEPT !.disk = write_zone_table(r.disk, r.zone, Padded(Dropped(zones, Direct))),
                 !.inode.zone[Direct + 1] = r.zone]

WriteSingle(s, zones) ==
  IF Len(zones) =< Direct THEN [s EXCEPT !.inode.zone[Direct + 1] = 0]
  ELSE SingleIn(s, zones, Present(s.disk, s.inode.zone[Direct + 1]))

\* Mutant: the groups are counted from the second one on.
GroupInLater(s, zones, i, r) ==
  IF r.zone = 0 THEN [s EXCEPT !.full = TRUE]
  ELSE [s EXCEPT !.disk = write_zone_table(r.disk, r.zone, Padded(Dropped(zones, Direct + (i + 1) * Per))),
                 !.dbl[i] = r.zone]

\* The i-th table behind the double indirect zone, used again if it is there.
GroupIn(s, zones, i, r) ==
  IF r.zone = 0 THEN [s EXCEPT !.full = TRUE]
  ELSE [s EXCEPT !.disk = write_zone_table(r.disk, r.zone, Padded(Dropped(zones, Direct + i * Per))),
                 !.dbl[i] = r.zone]

WriteGroup(s, zones, i) ==
  IF s.full THEN s ELSE GroupIn(s, zones, i, Present(s.disk, s.dbl[i]))

\* dbl is written when all groups are.
CloseDouble(s) ==
  [disk |-> IF s.full THEN s.disk ELSE write_zone_table(s.disk, s.inode.zone[Direct + 2], s.dbl),
   inode |-> s.inode]

CeilDiv(a, b) == (a + b - 1) \div b
Groups(n) == [i \in 1 .. (IF CeilDiv(n, Per) < Per THEN CeilDiv(n, Per) ELSE Per) |-> i]

DoubleIn(s, zones, r) ==
  IF r.zone = 0 THEN [disk |-> s.disk, inode |-> s.inode]
  ELSE CloseDouble(
         FoldLeft(LAMBDA g, i : WriteGroup(g, zones, i),
                  [disk |-> IF s.inode.zone[Direct + 2] = 0
                            THEN write_zone_table(r.disk, r.zone, ZeroTable) ELSE s.disk,
                   inode |-> [s.inode EXCEPT !.zone[Direct + 2] = r.zone],
                   dbl |-> IF s.inode.zone[Direct + 2] = 0 THEN ZeroTable ELSE s.disk.block[r.zone].tab,
                   full |-> FALSE],
                  Groups(Len(zones) - Direct - Per)))

WriteDouble(s, zones) ==
  IF s.full THEN [disk |-> s.disk, inode |-> s.inode]
  ELSE IF Len(zones) =< Direct + Per
  THEN [disk |-> s.disk, inode |-> [s.inode EXCEPT !.zone[Direct + 2] = 0]]
  ELSE DoubleIn(s, zones, Present(s.disk, s.inode.zone[Direct + 2]))

\* write_file_zones: the direct zones, then the tables; the inode is the
\* caller's copy, which is not written here
write_file_zones(d, inode, zones) ==
  WriteDouble(
    WriteSingle(
      [disk |-> d, full |-> FALSE,
       inode |-> [inode EXCEPT !.zone = [i \in DOMAIN @ |->
                    IF i > Direct THEN @[i] ELSE IF i =< Len(zones) THEN zones[i] ELSE 0]]],
      zones),
    zones)

\* free_inode_blocks_at: the data, the tables, the inode and its bit
free_inode_blocks(d, ino) ==
  LET inode == d.inode[ino]
      outer == inode.zone[Direct + 2]
      zones == data_zones(d, inode) \o <<inode.zone[Direct + 1]>>
                 \o zone_table(d, outer) \o <<outer>>
      freed == FoldLeft(free_zone, d, zones)
  IN  free_inode(write_inode(freed, ino, ZeroInode), ino)

-----------------------------------------------------------------------------
(* File::write_at (file.rs), on an inode and its zones as they were when    *)
(* the file was opened: n slots with value v at off.                        *)

RECURSIVE MoreZones(_, _)
MoreZones(s, need) ==
  LET Grown(r) == IF r.zone = 0 THEN s
                  ELSE MoreZones([disk |-> r.disk, zones |-> Append(s.zones, r.zone)], need)
  IN  IF Len(s.zones) >= need THEN s ELSE Grown(alloc_zone(s.disk))

\* Slots from..to-1 of the zones are set to v, one zone after the other.
PutSlots(d, zones, from, to, v) ==
  LET before == from \div Slots
      PutZone(e, j) ==
        write_zone(e, zones[before + j], [i \in 1 .. Slots |->
          IF (before + j - 1) * Slots + i - 1 \in from .. (to - 1) THEN Datum(v)
          ELSE e.block[zones[before + j]].slot[i]])
  IN  FoldLeft(PutZone, d, [j \in 1 .. (IF from < to THEN CeilDiv(to, Slots) - before ELSE 0) |-> j])

\* The data, as far as there are zones for it; the inode if the file has grown.
WriteData(ino, w, zones, off, n, v) ==
  LET room == Len(zones) * Slots
      end == IF off + n < room THEN off + n ELSE IF room < off THEN off ELSE room
      put == PutSlots(w.disk, zones, off, end, v)
  IN  [disk |-> IF end > w.inode.size
                THEN write_inode(put, ino, [w.inode EXCEPT !.size = end]) ELSE put,
       done |-> end - off]

WriteZones(d, ino, had, m, off, n, v) ==
  WriteData(ino,
            IF had < CeilDiv(off + n, Slots) THEN write_file_zones(m.disk, d.inode[ino], m.zones)
            ELSE [disk |-> d, inode |-> d.inode[ino]],
            m.zones, off, n, v)

WriteFrom(d, ino, zones, off, n, v) ==
  WriteZones(d, ino, Len(zones), MoreZones([disk |-> d, zones |-> zones], CeilDiv(off + n, Slots)),
             off, n, v)

write_at(d, ino, offset, n, v) ==
  WriteFrom(d, ino, data_zones(d, d.inode[ino]),
            IF offset < d.inode[ino].size THEN offset ELSE d.inode[ino].size, n, v)

-----------------------------------------------------------------------------
(* Directories *)

\* The first place where the directory has an entry with that name, in the
\* slots of all of its zones, or 0 (find_dir_entry_ino, remove_dir_entry)
EntryAt(d, dir, name) ==
  SelectInSeq(SlotsOf(d, data_zones(d, d.inode[dir])), LAMBDA c : c.ino # 0 /\ c.name = name)

find_dir_entry_ino(d, dir, name) ==
  LET At(k) == IF k = 0 THEN 0 ELSE SlotAt(d, data_zones(d, d.inode[dir]), k).ino
  IN  At(EntryAt(d, dir, name))

remove_dir_entry(d, dir, name) ==
  LET Zeroed(k) ==
        LET zone == data_zones(d, d.inode[dir])[((k - 1) \div Slots) + 1]
        IN  write_zone(d, zone, [d.block[zone].slot EXCEPT ![((k - 1) % Slots) + 1] = ZeroSlot])
  IN  Zeroed(EntryAt(d, dir, name))

\* The loop of add_dir_entry_at, at the i-th zone of the directory; s has the
\* copy of its inode and its zones, and whether a zone was appended that is
\* not zeroed.
RECURSIVE AddFrom(_, _, _, _)

Extended(s, zone, w) ==
  [disk |-> w.disk, inode |-> w.inode, zones |-> Append(s.zones, zone),
   stale |-> s.stale \/ w.disk.block[zone].slot # ZeroBlock.slot]

\* On a full disk the entry is not there afterwards, and that is no error.
AppendZone(s, dir, i, entry, r) ==
  IF r.zone = 0 THEN s
  ELSE AddFrom(Extended(s, r.zone, write_file_zones(r.disk, s.inode, Append(s.zones, r.zone))), dir, i, entry)

FillSlot(s, dir, i, entry, k) ==
  LET end == (i - 1) * Slots + k
      put == write_zone(s.disk, s.zones[i], [s.disk.block[s.zones[i]].slot EXCEPT ![k] = entry])
  IN  IF k = 0 THEN AddFrom(s, dir, i + 1, entry)
      ELSE [s EXCEPT !.disk = IF s.inode.size < end
                              THEN write_inode(put, dir, [s.inode EXCEPT !.size = end]) ELSE put]

AddFrom(s, dir, i, entry) ==
  IF i > Len(s.zones) THEN AppendZone(s, dir, i, entry, alloc_zone(s.disk))
  ELSE FillSlot(s, dir, i, entry,
                SelectInSeq(s.disk.block[s.zones[i]].slot, LAMBDA c : c.ino = 0))

add_dir_entry_at(d, dir, name, ino) ==
  AddFrom([disk |-> d, inode |-> d.inode[dir], zones |-> data_zones(d, d.inode[dir]), stale |-> FALSE],
          dir, 1, Entry(ino, name))

NewInode(r, type) ==
  IF r.ino = 0 THEN r
  ELSE [r EXCEPT !.disk = write_inode(@, r.ino, [ZeroInode EXCEPT !.type = type, !.nlinks = 1])]

alloc_empty_inode(d, type) == NewInode(alloc_inode(d), type)

dir_entries(d, dir) == SelectSeq(data(d, d.inode[dir]), LAMBDA c : c.ino # 0)

\* resolve_path: the inode that the components lead to from dir, or 0
RECURSIVE Walk(_, _, _, _)

Follow(d, rest, dir, hops, target) ==
  IF hops = MAX_SYMLINK_HOPS THEN 0
  ELSE Walk(d, target.parts \o rest, IF target.abs THEN Root ELSE dir, hops + 1)

\* What a link holds that is not the name of a target leads nowhere.
LinkTarget(cells) ==
  IF cells = <<>> THEN [abs |-> FALSE, parts |-> <<>>]
  ELSE IF cells[1].data \in DOMAIN TargetOf THEN TargetOf[cells[1].data]
  ELSE [abs |-> FALSE, parts |-> <<"">>]

Descend(d, rest, dir, hops, found) ==
  IF found = <<>> THEN 0
  ELSE IF d.inode[found[1].ino].type = "LNK"
  THEN Follow(d, rest, dir, hops, LinkTarget(data(d, d.inode[found[1].ino])))
  ELSE IF rest # <<>> /\ d.inode[found[1].ino].type # "DIR" THEN 0
  ELSE Walk(d, rest, found[1].ino, hops)

Walk(d, components, dir, hops) ==
  IF components = <<>> THEN dir
  ELSE Descend(d, Tail(components), dir, hops,
               SelectSeq(dir_entries(d, dir), LAMBDA c : c.name = Head(components)))

resolve_path(d, components) == Walk(d, components, Root, 0)

-----------------------------------------------------------------------------
(* The operations.  A directory or an inode that a caller names is one that *)
(* it has looked up or created.                                             *)

Allocated(d, ino) == Map!is_bit_set(d.imap, ino)
Live == {i \in Inos : Allocated(disk, i)}
Dirs == {i \in Live \ lost : disk.inode[i].type = "DIR"}
Linked == {i \in Live \ lost : disk.inode[i].type # "DIR"}

EntriesIn(d, dir) == SlotsOf(d, data_zones(d, d.inode[dir]))
Used(d, dir) ==
  LET cells == EntriesIn(d, dir) IN {k \in DOMAIN cells : cells[k].ino # 0}

\* What spoils dir when add_dir_entry_at ends in d, with r the whole of it.
Spoilt(r) == IF r.stale THEN {"zone"} ELSE {}
Left(d, dir) == IF Used(d, dir) \subseteq Used(disk, dir) THEN {} ELSE {"entry"}

\* An operation returns without an error, and has spoilt what is in why ...
Done(d, why) == disk' = Settled(d) /\ odd' = odd \cup why /\ UNCHANGED <<errors, lost>>

\* ... or with one, with which it drops the numbers of the inodes in inos.
ReturnsErr(d, why, inos) ==
  /\ errors < MaxErrors /\ Settled(d) # disk
  /\ disk' = Settled(d) /\ odd' = odd \cup why /\ errors' = errors + 1
  /\ lost' = lost \cup {i \in inos : Allocated(d, i)}

\* Where an error inside of d can leave the disk, and where a call whose
\* errors are ignored can.
Errors(d) == d.past
Tried(d) == d.past \cup {Settled(d)}

\* The operation gives up, undoes what it did, and returns without an error.
Undoes(d, inos) ==
  /\ disk' \in Tried(d)
  /\ lost' = lost \cup {i \in inos : Allocated(disk', i)}
  /\ UNCHANGED <<errors, odd>>

\* alloc_empty_inode, then add_dir_entry_at.  If that fails, the inode is
\* free again, and an entry that was written stays.
create_file(dir, name) ==
  \E a \in {alloc_empty_inode(disk, "REG")} :
    \/ \E p \in Errors(a.disk) : ReturnsErr(p, {}, {a.ino})
    \/ /\ a.ino # 0
       /\ \E r \in {add_dir_entry_at(Settled(a.disk), dir, name, a.ino)} :
            \/ Done(r.disk, Spoilt(r))
            \/ \E p \in Errors(r.disk) : \E q \in Tried(free_inode(p, a.ino)) :
                 ReturnsErr(q, Spoilt(r) \cup Left(p, dir), {a.ino})

\* The entry is added before the count is, which is that of the copy.
link(old, dir, name) ==
  /\ disk.inode[old].nlinks \notin {0, LinkMax} /\ disk.inode[old].type # "DIR"
  /\ \E r \in {add_dir_entry_at(disk, dir, name, old)} :
     \E d \in {write_inode(r.disk, old, [disk.inode[old] EXCEPT !.nlinks = @ + 1])} :
       \/ Done(d, Spoilt(r))
       \/ \E p \in Errors(d) : ReturnsErr(p, Spoilt(r) \cup Left(p, dir), {})


Unlinked(d, ino) ==
  IF d.inode[ino].nlinks =< 1 THEN free_inode_blocks(d, ino)
  ELSE write_inode(d, ino, [d.inode[ino] EXCEPT !.nlinks = @ - 1])

unlink(dir, name) ==
  \E ino \in {find_dir_entry_ino(disk, dir, name)} \ {0} :
    /\ disk.inode[ino].type # "DIR"
    /\ \E d \in {Unlinked(remove_dir_entry(disk, dir, name), ino)} :
         \/ Done(d, {})
         \/ \E p \in Errors(d) :
              ReturnsErr(p, {}, IF disk.inode[ino].nlinks =< 1 THEN {ino} ELSE {})

\* The entry for a link that holds its target.
LinkIn(dir, name, ino, d) ==
  \E r \in {add_dir_entry_at(d, dir, name, ino)} :
    \/ Done(r.disk, Spoilt(r))
    \/ \E p \in Errors(r.disk) : \E q \in Tried(free_inode_blocks(p, ino)) :
         ReturnsErr(q, Spoilt(r) \cup Left(p, dir), {ino})

\* The target takes one slot; what was allocated is given back if it does not
\* fit, or if it or the entry cannot be written.
symlink(dir, name, target) ==
  \E a \in {alloc_empty_inode(disk, "LNK")} :
    \/ \E p \in Errors(a.disk) : ReturnsErr(p, {}, {a.ino})
    \/ /\ a.ino # 0
       /\ \E w \in {write_at(Settled(a.disk), a.ino, 0, 1, target)} :
            \/ \E p \in Errors(w.disk) : \E q \in Tried(free_inode_blocks(p, a.ino)) :
                 ReturnsErr(q, {}, {a.ino})
            \/ w.done = 0 /\ Undoes(free_inode_blocks(Settled(w.disk), a.ino), {a.ino})
            \/ w.done = 1 /\ LinkIn(dir, name, a.ino, Settled(w.disk))

\* The new directory with its two entries, in zone.
DirIn(d, dir, ino, zone) ==
  write_inode(
    write_zone(d, zone, [i \in 1 .. Slots |->
      CASE i = 1 -> Entry(ino, ".") [] i = 2 -> Entry(dir, "..") [] OTHER -> ZeroSlot]),
    ino, [d.inode[ino] EXCEPT !.nlinks = 2, !.zone[1] = zone, !.size = 2])

\* The link count of the parent changes last, and stops at both ends.
Parent(d, dir, by) ==
  LET n == d.inode[dir].nlinks + by
  IN  write_inode(d, dir, [d.inode[dir] EXCEPT !.nlinks = IF n \in 0 .. LinkMax THEN n ELSE @])

\* The entry for the new directory, which is complete on d; if it cannot be
\* added, zone and inode go back, each whether or not the other could.
Entered(dir, name, ino, zone, d) ==
  \E r \in {add_dir_entry_at(d, dir, name, ino)} :
    \/ Done(Parent(r.disk, dir, 1), Spoilt(r))
    \/ \E p \in Errors(Parent(Settled(r.disk), dir, 1)) : ReturnsErr(p, Spoilt(r), {})
    \/ \E p \in Errors(r.disk) :
       \E f \in Tried(free_zone(p, zone)) : \E q \in Tried(free_inode(Settled(f), ino)) :
         ReturnsErr(q, Spoilt(r) \cup Left(p, dir), {ino})

create_dir(dir, name) ==
  \E a \in {alloc_empty_inode(disk, "DIR")} :
    \/ \E p \in Errors(a.disk) : ReturnsErr(p, {}, {a.ino})
    \/ /\ a.ino # 0
       /\ \E z \in {alloc_zone(Settled(a.disk))} :
            \/ z.zone = 0 /\ Undoes(free_inode(Settled(a.disk), a.ino), {a.ino})
            \/ \E p \in Errors(z.disk) : ReturnsErr(p, {}, {a.ino})
            \/ /\ z.zone # 0
               /\ \E d \in {DirIn(Settled(z.disk), dir, a.ino, z.zone)} :
                    \/ \E p \in Errors(d) : ReturnsErr(p, {}, {a.ino})
                    \/ Entered(dir, name, a.ino, z.zone, Settled(d))

IsEmpty(d, dir) ==
  \A c \in ToSet(EntriesIn(d, dir)) : c.ino = 0 \/ c.name \in {".", ".."}

remove_dir(dir, name) ==
  \E ino \in {find_dir_entry_ino(disk, dir, name)} \ {0} :
    /\ disk.inode[ino].type = "DIR" /\ IsEmpty(disk, ino)
    /\ \E d \in {free_inode_blocks(Parent(remove_dir_entry(disk, dir, name), dir, -1), ino)} :
         \/ Done(d, {})
         \/ \E p \in Errors(d) : ReturnsErr(p, {}, {ino})

\* remove: which of the two is decided by the type, under a lock of its own
remove(dir, name) == unlink(dir, name) \/ remove_dir(dir, name)

\* What mkfs leaves: the root directory in the first data zone, and the bits
\* that stand for nothing set, in both bitmaps.
Formatted ==
  LET Marked(words, n, used) ==
        [w \in 0 .. (words - 1) |->
           {b \in 0 .. (WORD_BITS - 1) : LET i == w * WORD_BITS + b IN i \in used \/ i >= n}]
  IN  [imap |-> Marked(ImapWords, IBits, {0, Root}),
       zmap |-> Marked(ZmapWords, ZBits, {0, 1}),
       inode |-> [i \in Inos |->
         IF i # Root THEN ZeroInode
         ELSE [ZeroInode EXCEPT !.type = "DIR", !.size = 2, !.nlinks = 2, !.zone[1] = First]],
       block |-> [z \in DataZones |->
         IF z # First THEN ZeroBlock
         ELSE Block([i \in 1 .. Slots |->
                CASE i = 1 -> Entry(Root, ".") [] i = 2 -> Entry(Root, "..") [] OTHER -> ZeroSlot])],
       past |-> {}]

FsInit == disk = Formatted /\ errors = 0 /\ lost = {} /\ odd = {}

-----------------------------------------------------------------------------
(* Properties *)

\* All zones that belong to an inode: its data and its tables.
ZonesOf(ino) ==
  LET inode == disk.inode[ino]
      outer == inode.zone[Direct + 2]
  IN  SelectSeq(data_zones(disk, inode) \o <<inode.zone[Direct + 1], outer>> \o zone_table(disk, outer),
                LAMBDA z : z # 0)

\* The directories with a name; a full disk and an error leave some without.
NamedDirs ==
  {i \in Dirs : i = Root
                \/ \E j \in Dirs : \E c \in ToSet(EntriesIn(disk, j)) : c.ino = i /\ c.name \in Names}

\* What these directories hold, and the names for an inode that are in there.
Hierarchy == [dir \in NamedDirs |-> EntriesIn(disk, dir)]
LinksTo(tree, ino) ==
  {l \in UNION {{dir} \X DOMAIN tree[dir] : dir \in DOMAIN tree} :
     tree[l[1]][l[2]].ino = ino /\ tree[l[1]][l[2]].name \in Names}

\* A zone belongs to one inode, in one place, and is marked as used in the
\* bitmap: alloc_zone never gives out what a file, a directory or a table
\* has.  This holds on a disk that fills up at any point, and after a device
\* error at any write of any operation, of what a caller can still get at
\* (write_file_zones, free_inode_blocks_at, and the code that undoes), until
\* an error has left an entry behind or a program has written into a
\* directory.
ZonesOwned ==
  odd \subseteq {"zone"} =>
    LET zones == [i \in Live \ lost |-> ZonesOf(i)] IN
    \A i \in DOMAIN zones :
      /\ IsInjective(zones[i])
      /\ \A z \in ToSet(zones[i]) : z \in DataZones /\ Map!is_bit_set(disk.zmap, z - First + 1)
      /\ \A j \in DOMAIN zones \ {i} : ToSet(zones[i]) \cap ToSet(zones[j]) = {}


Content(d, ino) == data(d, d.inode[ino])
Spliced(s, off, n, v) ==
  [i \in 1 .. (IF Len(s) < off + n THEN off + n ELSE Len(s)) |->
     IF i \in (off + 1) .. (off + n) THEN Datum(v) ELSE s[i]]
RoomLeft(d) == alloc_zone(d).zone # 0
\* All of the file can be read; a write on a full disk leaves some that are not.
Intact(d, ino) == Len(Content(d, ino)) = d.inode[ino].size
Files(d) == {i \in Inos : Allocated(d, i) /\ d.inode[i].type \in {"REG", "LNK"}}

=============================================================================
