---------------------------- MODULE MCSuperblocks ----------------------------
(* Instances of Superblocks for TLC: three disks of two cells each.        *)
EXTENDS Superblocks

Subblock(file, i) == {<<"data", file, i>>}

(* Two files of one superblock: one fills it, the other has to be repeated.*)
OneEach ==
  << << <<Subblock(1, 1), Subblock(1, 2), Subblock(1, 3), Subblock(1, 4)>> >>,
     << <<Subblock(2, 1), Subblock(2, 2), Subblock(2, 3)>> >> >>

(* One file.                                                               *)
Short == << << <<Subblock(1, 1), Subblock(1, 2), Subblock(1, 3)>> >> >>

(* A disk that was never written, and one that an earlier pool has left    *)
(* laid out as the design document has it.                                 *)
ZeroDisk == [cell |-> [c \in Cell |-> Zero], hash |-> [c \in Cell |-> NoHash]]
LaidOut(source) ==
  [d \in Disk |-> [cell |-> DiskCells(source, d),
                   hash |-> [c \in Cell |-> Hash(DiskCells(source, d)[c])]]]
(* A disk may hold anything when a pool is made.  This one happens to hold *)
(* the hash of what storing the file will leave in its first cell (where   *)
(* Place puts everything), so that the stored file fails nowhere until a   *)
(* disk spoils it.  On any other disk its first VSSB fails everywhere.     *)
ByChance(source) ==
  [d \in Disk |-> [cell |-> DiskCells(source, d),
                   hash |-> [c \in Cell |-> Hash(IF c = Place(Cells) THEN Item(source, d, Cells)
                                                 ELSE DiskCells(source, d)[c])]]]
NewOrUsed == {[d \in Disk |-> ZeroDisk], LaidOut(Sources[1][1])}
Chance == {ByChance(Sources[1][1])}
AnyOld == NewOrUsed \cup Chance
Used == {LaidOut(Sources[1][1])}
Symmetry == Permutations(Superblock)
=============================================================================
