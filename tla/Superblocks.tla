----------------------------- MODULE Superblocks -----------------------------
(***************************************************************************)
(* What is on the pool's disks: the layout write_superblock gives a        *)
(* superblock (libsraid: disk.rs), and the scrub that reads it back,       *)
(* verifies it and repairs it (lib.rs), beside a command that stores files *)
(* and beside the disks' own decay.                                        *)
(*                                                                         *)
(* XOR is addition in a vector space over the two-element field.  The      *)
(* content of a subblock is a vector, written as the set of the base       *)
(* vectors it is the sum of: the subblocks of the source files, the        *)
(* subblocks that hold hashes, and the errors the disks make.  The zero    *)
(* subblock is {}.  Hashes are taken to be free of collisions.             *)
(***************************************************************************)
EXTENDS Integers, Sequences, FiniteSets, FiniteSetsExt, TLC

CONSTANTS
  NumDisks,       \* the disks of the pool, the last of which holds parity
  Cells,          \* SUBBLOCKS_PER_BLOCK, 128 in the code
  Superblock,     \* the superblocks of the pool
  InitialImages,  \* what may be on the disks when the pool is made
  Sources,        \* the file each store command stores, as a sequence of
                  \* superblocks' worth of it, each a sequence of subblocks
                  \* (bound: a store command is given for each, in this order)
  MaxScrubs,      \* bound: how many scrubs are run
  MaxDamage       \* bound: how often a disk spoils what is on it

Disk == 0..NumDisks-1
Parity == NumDisks - 1
DataDisk == 0..NumDisks-2
Cell == 0..Cells-1
File == DOMAIN Sources

(* A disk has a subblock and a hash in each cell.                          *)
IsBlocks(blocks) ==
  /\ DOMAIN blocks = Disk
  /\ \A d \in Disk : /\ DOMAIN blocks[d] = {"cell", "hash"}
                     /\ DOMAIN blocks[d].cell = Cell /\ DOMAIN blocks[d].hash = Cell

ASSUME ConstantsAssumption ==
  /\ NumDisks \in Nat \ {0, 1}
  /\ Cells \in Nat \ {0}
  /\ MaxScrubs \in Nat /\ MaxDamage \in Nat
  /\ Len(Sources) \in Nat /\ File = 1..Len(Sources)
  /\ \A f \in File : Len(Sources[f]) \in Nat /\ DOMAIN Sources[f] = 1..Len(Sources[f])
  /\ \A f \in File : \A i \in DOMAIN Sources[f] :
       Len(Sources[f][i]) \in 1..Cells * (NumDisks - 1)
  /\ \A blocks \in InitialImages : IsBlocks(blocks)

(* What the error a disk makes adds to a subblock.  No error cancels with  *)
(* what a disk held or a file holds, so none of them repairs a subblock.   *)
Error(k) == <<"error", k>>
HasNoError(content) == \A k \in 0..MaxDamage-1 : Error(k) \notin content

ASSUME ErrorsAreNew ==
  /\ \A blocks \in InitialImages : \A d \in Disk, c \in Cell :
       /\ HasNoError(blocks[d].cell[c])
       /\ blocks[d].hash[c] # <<>> => HasNoError(blocks[d].hash[c][1])
  /\ \A f \in File : \A i \in DOMAIN Sources[f] : \A j \in DOMAIN Sources[f][i] :
       HasNoError(Sources[f][i][j])

VARIABLES
  image,      \* image[s][d]: the block of superblock s on disk d
  listed,     \* the superblocks the catalogue assigns to each file, in order
  stores,     \* how many store commands were given
  writer,     \* the command that is storing a file
  scrub,      \* the local variables of scrub, and its result
  scrubs,     \* how many scrubs were started
  decay,      \* how many errors the disks have made
  first,      \* history: the disks when the pool was made
  hit,        \* history: the cells a disk spoiled or a command wrote
  before,     \* history: the disks when the scrub started
  disturbed   \* history: what happened to the disks beside the scrub

vars == <<image, listed, stores, writer, scrub, scrubs, decay, first, hit, before, disturbed>>
history == <<first, hit, before, disturbed>>

-----------------------------------------------------------------------------
(* Contents and blocks.                                                    *)

Zero == {}
Hash(content) == <<content>>
NoHash == <<>>

(* The sum of content[i] over the i in the set.                            *)
Xor(content, over) ==
  {a \in UNION {content[i] : i \in over} :
     Cardinality({i \in over : a \in content[i]}) % 2 = 1}

(* The cells whose hashes do not match, as scrub finds them: a block has a *)
(* data section and a hash section.                                        *)
Mismatched(blocks, c) ==
  {d \in Disk : blocks[d].hash[c] # Hash(blocks[d].cell[c])}

-----------------------------------------------------------------------------
(* write_superblock: the layout in memory.                                 *)

(* The data is doubled until it is long enough, then cut: it repeats.      *)
Padded(source) ==
  [i \in 0..Cells*(NumDisks-1)-1 |-> source[(i % Len(source)) + 1]]

(* A disk is filled before the next one is begun; the last is the XOR.     *)
DataCells(source, d) == [c \in Cell |-> Padded(source)[d * Cells + c]]
ParityCells(source) ==
  [c \in Cell |-> Xor([d \in DataDisk |-> DataCells(source, d)[c]], DataDisk)]
DiskCells(source, d) ==
  IF d = Parity THEN ParityCells(source) ELSE DataCells(source, d)

(* The subblocks of a disk in the order they are written: the data, and    *)
(* then the hashes, which are a subblock of their own.                     *)
HashSubblock(cells) == {<<"hashes", [c \in Cell |-> Hash(cells[c])]>>}
Item(source, d, k) ==
  IF k < Cells THEN DiskCells(source, d)[k] ELSE HashSubblock(DiskCells(source, d))

(* All of them go to block_offset, the first cell of the block.            *)
Place(k) == 0

-----------------------------------------------------------------------------
NoWriter == [file |-> 0, ids |-> <<>>, replaces |-> 0, chunk |-> 1, disk |-> 0, item |-> 0]
NoScrub == [pc |-> "idle", dryRun |-> FALSE, todo |-> {}, file |-> 0, superblocks |-> <<>>,
            buffer |-> <<>>, cell |-> 0, fileDamaged |-> FALSE,
            damagedFiles |-> {}, files |-> 0, blocks |-> 0]

Init ==
  /\ image \in [Superblock -> InitialImages]
  /\ listed = [f \in File |-> <<>>]
  /\ stores = 0
  /\ writer = NoWriter
  /\ scrub = NoScrub
  /\ scrubs = 0
  /\ decay = 0
  /\ first = image
  /\ hit = {}
  /\ before = image
  /\ disturbed = {}

-----------------------------------------------------------------------------
(* The command that stores a file (module Catalogue has its transactions): *)
(* it takes superblocks no file owns, or the file it replaces does, writes *)
(* them, and then the catalogue changes at once.                           *)

Owned(f) == {listed[f][i] : i \in DOMAIN listed[f]}
FreeFor(old) == Superblock \ UNION {Owned(f) : f \in File \ {old}}
Selections(f, old) ==
  {ids \in [DOMAIN Sources[f] -> FreeFor(old)] :
     \A i, j \in DOMAIN ids : ids[i] = ids[j] => i = j}

(* old = 0 when the file replaces none.                                    *)
StartStore ==
  /\ writer = NoWriter
  /\ stores < Len(Sources)
  /\ stores' = stores + 1
  /\ \E old \in {0} \cup File :
       /\ old # 0 => listed[old] # <<>>
       /\ \E ids \in Selections(stores', old) :
            writer' = [NoWriter EXCEPT !.file = stores', !.ids = ids, !.replaces = old]
  /\ UNCHANGED <<image, listed, scrub, scrubs, decay, history>>

(* History: what happens to the disks beside a scrub; what was on them     *)
(* before it is of no interest from then on.                               *)
Disturb(what) == disturbed' = disturbed \cup {what} /\ before' = first

Storing == writer.file # 0
AllStored == writer.chunk > Len(writer.ids)

(* The loops over disks and subblocks of write_superblock.                 *)
Onward(w) ==
  IF w.item < Cells THEN [w EXCEPT !.item = @ + 1]
  ELSE IF w.disk < Parity THEN [w EXCEPT !.item = 0, !.disk = @ + 1]
  ELSE [w EXCEPT !.item = 0, !.disk = 0, !.chunk = @ + 1]

Put(s, d, c, content) == image' = [image EXCEPT ![s][d].cell[c] = content]

WriteSubblock ==
  LET s == writer.ids[writer.chunk]
      d == writer.disk
      c == Place(writer.item)
  IN  /\ Storing
      /\ ~AllStored
      /\ Put(s, d, c, Item(Sources[writer.file][writer.chunk], d, writer.item))
      /\ writer' = Onward(writer)
      /\ hit' = hit \cup {<<s, d, c>>}
      /\ Disturb("stored")
      /\ UNCHANGED <<stores, listed, scrub, scrubs, decay, first>>

RecordStored ==
  /\ Storing
  /\ AllStored
  /\ listed' = [f \in File |-> IF f = writer.file THEN writer.ids
                               ELSE IF f = writer.replaces THEN <<>> ELSE listed[f]]
  /\ writer' = NoWriter
  /\ Disturb("recorded")
  /\ UNCHANGED <<stores, image, scrub, scrubs, decay, first, hit>>

(* A write fails and may leave its subblock torn, or the command is        *)
(* killed: nothing is recorded.                                            *)
StoreFails ==
  /\ Storing
  /\ writer' = NoWriter
  /\ \/ UNCHANGED <<image, history>>
     \/ LET s == writer.ids[writer.chunk]
            c == Place(writer.item)
        IN  /\ ~AllStored
            /\ Put(s, writer.disk, c, {<<"torn">>})
            /\ hit' = hit \cup {<<s, writer.disk, c>>}
            /\ Disturb("stored")
            /\ UNCHANGED first
  /\ UNCHANGED <<stores, listed, scrub, scrubs, decay>>

(* A disk spoils a subblock of data or a hash.                             *)
Decay ==
  /\ decay < MaxDamage
  /\ decay' = decay + 1
  /\ \E s \in Superblock, d \in Disk, c \in Cell :
       /\ \/ Put(s, d, c, Xor(<<image[s][d].cell[c], {Error(decay)}>>, {1, 2}))
          \/ /\ image[s][d].hash[c] # NoHash
             /\ image' = [image EXCEPT ![s][d].hash[c] = NoHash]
       /\ hit' = hit \cup {<<s, d, c>>}
  /\ Disturb("spoiled")
  /\ UNCHANGED <<listed, stores, writer, scrub, scrubs, first>>

-----------------------------------------------------------------------------
(* scrub.                                                                  *)

ScrubBegin ==
  /\ scrub.pc \in {"idle", "done"}
  /\ scrubs < MaxScrubs
  /\ scrubs' = scrubs + 1
  /\ \E dryRun \in BOOLEAN :
       scrub' = [NoScrub EXCEPT !.pc = "file", !.dryRun = dryRun,
                                !.todo = {f \in File : listed[f] # <<>>}]
  /\ before' = image
  /\ disturbed' = {}
  /\ UNCHANGED <<image, listed, stores, writer, decay, first, hit>>

(* Mutant: the verdict on a file is not cleared for the next.              *)
NextFileTainted ==
  /\ scrub.pc = "file"
  /\ \E f \in scrub.todo :
       scrub' = [scrub EXCEPT !.pc = "superblock", !.file = f, !.todo = @ \ {f},
                              !.superblocks = listed[f]]
  /\ UNCHANGED <<image, listed, stores, writer, scrubs, decay, history>>
(* The files were listed at the start; the superblocks of each are looked  *)
(* up only now, in a query of their own.                                   *)
NextFile ==
  /\ scrub.pc = "file"
  /\ \E f \in scrub.todo :
       scrub' = [scrub EXCEPT !.pc = "superblock", !.file = f, !.todo = @ \ {f},
                              !.superblocks = listed[f], !.fileDamaged = FALSE]
  /\ UNCHANGED <<image, listed, stores, writer, scrubs, decay, history>>

InSuperblock == scrub.pc = "superblock" /\ scrub.superblocks # <<>>
AllRead == Cardinality(DOMAIN scrub.buffer) = NumDisks

(* The disks are read one after the other.                                 *)
ReadBlock ==
  LET d == Cardinality(DOMAIN scrub.buffer)
  IN  /\ InSuperblock
      /\ ~AllRead
      /\ scrub' = [scrub EXCEPT !.buffer =
                     [e \in 0..d |-> IF e < d THEN @[e]
                                     ELSE image[Head(scrub.superblocks)][d]]]
      /\ UNCHANGED <<image, listed, stores, writer, scrubs, decay, history>>

(* The rest of the loop over the VSSBs of a superblock: each step below    *)
(* ends one round of it, and the last round the superblock's.              *)
(* Mutant: the buffer outlives the superblock.                             *)
KeepBuffer(s) ==
  IF s.cell < Cells - 1 THEN [s EXCEPT !.cell = @ + 1]
  ELSE [s EXCEPT !.cell = 0, !.superblocks = Tail(@)]
(* Mutant: one round too many.                                             *)
OneMoreRound(s) ==
  IF s.cell < Cells THEN [s EXCEPT !.cell = @ + 1]
  ELSE [s EXCEPT !.cell = 0, !.superblocks = Tail(@), !.buffer = <<>>]
NextVssb(s) ==
  IF s.cell < Cells - 1 THEN [s EXCEPT !.cell = @ + 1]
  ELSE [s EXCEPT !.cell = 0, !.superblocks = Tail(@), !.buffer = <<>>]

Wrong == Mismatched(scrub.buffer, scrub.cell)
(* Mutants: two mismatches are still taken to be repairable; the parity    *)
(* subblock is not verified.                                               *)
HopelessIfMore(wrong) == Cardinality(wrong) > 2 \/ Parity \in wrong
HopelessUnlessOne(wrong) == Cardinality(wrong) > 1
Hopeless(wrong) == Cardinality(wrong) > 1 \/ Parity \in wrong

Examining == InSuperblock /\ AllRead

VssbMatches ==
  /\ Examining
  /\ Wrong = {}
  /\ scrub' = NextVssb(scrub)
  /\ UNCHANGED <<image, listed, stores, writer, scrubs, decay, history>>

VssbDamaged ==
  /\ Examining
  /\ Hopeless(Wrong)
  /\ scrub' = NextVssb([scrub EXCEPT !.fileDamaged = TRUE])
  /\ UNCHANGED <<image, listed, stores, writer, scrubs, decay, history>>

VssbLeftAlone ==
  /\ Examining
  /\ Wrong # {} /\ ~Hopeless(Wrong)
  /\ scrub.dryRun
  /\ scrub' = NextVssb(scrub)
  /\ UNCHANGED <<image, listed, stores, writer, scrubs, decay, history>>

(* The XOR of the other data disks, the parity disk left out, replaces the *)
(* subblock.                                                               *)
Corrected(d) ==
  Xor([e \in Disk |-> scrub.buffer[e].cell[scrub.cell]], DataDisk \ {d})

(* Mutant: the parity disk gets the result.                                *)
RepairParity ==
  /\ Examining
  /\ ~scrub.dryRun
  /\ \E d \in Wrong :
       /\ ~Hopeless(Wrong)
       /\ Put(Head(scrub.superblocks), Parity, scrub.cell, Corrected(d))
  /\ scrub' = NextVssb([scrub EXCEPT !.blocks = @ + 1])
  /\ UNCHANGED <<listed, stores, writer, scrubs, decay, history>>

RepairVssb ==
  /\ Examining
  /\ ~scrub.dryRun
  /\ \E d \in Wrong :
       /\ ~Hopeless(Wrong)
       /\ Put(Head(scrub.superblocks), d, scrub.cell, Corrected(d))
  /\ scrub' = NextVssb([scrub EXCEPT !.blocks = @ + 1])
  /\ UNCHANGED <<listed, stores, writer, scrubs, decay, history>>

(* The file is done: a damaged one is named, and counted as repairable.    *)
EndFile ==
  /\ scrub.pc = "superblock"
  /\ scrub.superblocks = <<>>
  /\ scrub' = [scrub EXCEPT
       !.pc = "file",
       !.damagedFiles = IF scrub.fileDamaged THEN @ \cup {scrub.file} ELSE @,
       !.files = IF scrub.fileDamaged THEN @ + 1 ELSE @]
  /\ UNCHANGED <<image, listed, stores, writer, scrubs, decay, history>>

Report ==
  /\ scrub.pc = "file"
  /\ scrub.todo = {}
  /\ scrub' = [scrub EXCEPT !.pc = "done"]
  /\ UNCHANGED <<image, listed, stores, writer, scrubs, decay, history>>

(* A block cannot be read, or a repair cannot be written (and may leave    *)
(* its subblock torn): the error ends the whole scrub, and no result is    *)
(* returned.  So does a crash.                                             *)
(* Mutant: the file is looked at again.                                    *)
TryFileAgain ==
  /\ scrub.pc = "superblock"
  /\ scrub' = [scrub EXCEPT !.superblocks = <<>>, !.buffer = <<>>, !.cell = 0,
                            !.pc = "file", !.todo = @ \cup {scrub.file}]
  /\ UNCHANGED <<image, listed, stores, writer, scrubs, decay, history>>
ScrubFails ==
  /\ scrub.pc \in {"file", "superblock"}
  /\ scrub' = NoScrub
  /\ \/ UNCHANGED image
     \/ /\ Examining /\ ~scrub.dryRun
        /\ \E d \in Wrong :
             /\ ~Hopeless(Wrong)
             /\ Put(Head(scrub.superblocks), d, scrub.cell, {<<"torn">>})
  /\ UNCHANGED <<listed, stores, writer, scrubs, decay, history>>

ScrubStep ==
  \/ NextFile \/ ReadBlock
  \/ VssbMatches \/ VssbDamaged \/ VssbLeftAlone \/ RepairVssb
  \/ EndFile \/ Report \/ ScrubFails

Next ==
  \/ StartStore \/ WriteSubblock \/ RecordStored \/ StoreFails
  \/ Decay
  \/ ScrubBegin \/ ScrubStep

Spec == Init /\ [][Next]_vars

(* A scrub that was started keeps running.                                 *)
FairSpec == Spec /\ WF_vars(ScrubStep)

-----------------------------------------------------------------------------
(* Properties.                                                             *)

WriterType == [file : {0} \cup File, ids : Seq(Superblock), replaces : {0} \cup File,
               chunk : Nat, disk : Disk, item : 0..Cells]

(* The scrub's indices stay within the blocks it has read, and every file  *)
(* is assigned superblocks of the pool, no two files the same one.         *)
TypeOK ==
  /\ DOMAIN image = Superblock
  /\ \A s \in Superblock : DOMAIN image[s] = Disk
  /\ listed \in [File -> Seq(Superblock)]
  /\ \A f, g \in File : f # g => Owned(f) \cap Owned(g) = {}
  /\ writer \in WriterType
  /\ scrub.pc \in {"idle", "file", "superblock", "done"}
  /\ scrub.cell \in Cell
  /\ DOMAIN scrub.buffer \in {0..d-1 : d \in 0..NumDisks}
  /\ scrub.superblocks = <<>> => scrub.buffer = <<>>

(* A subblock that matched its hash when the pool was made, or is parity,  *)
(* changes only in a cell that a disk has spoiled, its subblock or its     *)
(* hash, or that a command has written: what the scrub reads and when,     *)
(* over however many superblocks, never makes it write elsewhere.  What it *)
(* may do to the cells that were spoiled or written is not said here.      *)
ScrubSparesGoodData ==
  \A s \in Superblock, d \in Disk, c \in Cell :
    image[s][d].cell[c] # first[s][d].cell[c] =>
      \/ <<s, d, c>> \in hit
      \/ d \in Mismatched(first[s], c) \ {Parity}

(* Unless a command writes to the disks meanwhile, a step of a scrub never *)
(* turns a VSSB that could be repaired, or was good, into a damaged one.   *)
DamagedVssbs ==
  {v \in Superblock \X Cell :
     LET wrong == Mismatched(image[v[1]], v[2]) IN Cardinality(wrong) > 1 \/ Parity \in wrong}
ScrubNeverWorsens ==
  [][scrub' # scrub /\ "stored" \notin disturbed => DamagedVssbs' \subseteq DamagedVssbs]_vars

(* What was wrong with the files when the scrub started, told from their   *)
(* data as design.md 1.2 does.  A file has lost data when one of its data  *)
(* subblocks fails its hash and so does another subblock of the VSSB,      *)
(* without which the first cannot be reconstructed.  When the parity       *)
(* subblock alone fails, all the data is there.                            *)
Lost(blocks, c) ==
  \E d \in DataDisk, e \in Disk : d # e /\ {d, e} \subseteq Mismatched(blocks, c)
LostBefore(f) == \E s \in Owned(f), c \in Cell : Lost(before[s], c)
ParityOnlyBefore(f) ==
  \E s \in Owned(f), c \in Cell : Mismatched(before[s], c) = {Parity}
RepairableBefore ==
  {v \in (UNION {Owned(f) : f \in File}) \X Cell :
     \E d \in DataDisk : Mismatched(before[v[1]], v[2]) = {d}}

(* The result of a scrub beside which nothing touched the disks or the     *)
(* catalogue.                                                              *)
DoneAlone == scrub.pc = "done" /\ disturbed = {}

(* Such a scrub names each file that has lost data, and names another only *)
(* if the parity subblock alone fails in a VSSB of it: whatever the order  *)
(* of files, superblocks and VSSBs, and whatever it repaired in between,   *)
(* no loss is forgotten and none is blamed on another file.                *)
LossIsReported ==
  DoneAlone =>
    /\ {f \in File : LostBefore(f)} \subseteq scrub.damagedFiles
    /\ scrub.damagedFiles \subseteq {f \in File : LostBefore(f) \/ ParityOnlyBefore(f)}

(* Unless it is a dry run, such a scrub counts as repaired each VSSB in    *)
(* which one data subblock and nothing else had failed, once, and no other.*)
RepairsAreCounted ==
  DoneAlone /\ ~scrub.dryRun => scrub.blocks = Cardinality(RepairableBefore)

(* design.md 1.2.2: when the hashes of the data match, the data is right,  *)
(* and parity is an optional check more.  So a file that such a scrub      *)
(* names as damaged has lost data.                                         *)
DamageIsLoss == DoneAlone => scrub.damagedFiles \subseteq {f \in File : LostBefore(f)}

(* Every scrub ends, with a result or with an error.                       *)
ScrubEnds == scrub.pc \in {"file", "superblock"} ~> scrub.pc \in {"idle", "done"}

(* design.md 3.1.3: when nothing was spoiled, each block of a stored file  *)
(* holds its data subblocks followed by their hashes.                      *)
StoredVerifies ==
  decay = 0 => \A f \in File : \A s \in Owned(f), c \in Cell :
    Mismatched(image[s], c) = {}

=============================================================================
