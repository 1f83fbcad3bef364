----------------------------- MODULE ScrubProofs -----------------------------
(***************************************************************************)
(* What a scrub does to a pool and what it says of it, for pools of any    *)
(* size: it makes no VSSB worse, and an undisturbed scrub names every file *)
(* that has lost data and counts every repair.                             *)
(***************************************************************************)
EXTENDS SuperblocksProofs

-----------------------------------------------------------------------------
(* The invariants.                                                         *)

(* Errors that are yet to be made are nowhere, and no hash is one of a     *)
(* subblock with an error.                                                 *)
Unmade(content) == \A k \in decay..MaxDamage-1 : Error(k) \notin content
ImageAhead ==
  \A s \in Superblock, d \in Disk, c \in Cell :
    /\ Unmade(image[s][d].cell[c])
    /\ image[s][d].hash[c] # NoHash => HasNoError(image[s][d].hash[c][1])
BufferAhead == \A d \in DOMAIN scrub.buffer, c \in Cell : Unmade(scrub.buffer[d].cell[c])
ErrorsAhead == decay \in Nat /\ ImageAhead /\ BufferAhead

(* A mismatch among what was read, in a cell that is still to be examined, *)
(* is one on the disks.                                                    *)
Fails(block, c) == block.hash[c] # Hash(block.cell[c])
NotStale ==
  "stored" \notin disturbed =>
    \A d \in DOMAIN scrub.buffer, c \in Cell :
      c >= scrub.cell /\ Fails(scrub.buffer[d], c) => Fails(image[Head(scrub.superblocks)][d], c)

(* No file has a superblock twice, and a command writes what it stores.    *)
NoRepeats(ids) == \A i, j \in DOMAIN ids : ids[i] = ids[j] => i = j
Distinct == (\A f \in File : NoRepeats(listed[f])) /\ NoRepeats(writer.ids)
Sourced ==
  Storing => writer.chunk \in Nat \ {0} /\ DOMAIN writer.ids = DOMAIN Sources[writer.file]

(* The VSSBs that a scrub has yet to examine.                              *)
Remaining == {scrub.superblocks[i] : i \in DOMAIN scrub.superblocks}
Left ==
  {v \in Superblock \X Cell :
     \/ \E f \in scrub.todo : v[1] \in Owned(f)
     \/ v[1] \in Remaining /\ (v[1] = Head(scrub.superblocks) => v[2] >= scrub.cell)}

(* What the code takes for damage, which is more than a loss of data.      *)
Damaged(blocks, c) ==
  LET wrong == Mismatched(blocks, c) IN Cardinality(wrong) > 1 \/ Parity \in wrong
Condemned(f) == \E s \in Owned(f), c \in Cell : Damaged(before[s], c)
Same(block, old, c) == block.cell[c] = old.cell[c] /\ block.hash[c] = old.hash[c]
Current == IF scrub.pc = "superblock" THEN {scrub.file} ELSE {}

(* A scrub that nothing has disturbed stands by what it found so far, and  *)
(* the rest is as it was when it started.                                  *)
Undisturbed == disturbed = {} /\ scrub.pc # "idle"
InTheFile ==
  scrub.pc = "superblock" =>
    /\ scrub.file \in File \ scrub.todo
    /\ Remaining \subseteq Owned(scrub.file)
    /\ NoRepeats(scrub.superblocks)
    /\ scrub.fileDamaged <=>
         \E v \in (Owned(scrub.file) \X Cell) \ Left : Damaged(before[v[1]], v[2])
Untouched ==
  /\ \A v \in Left, d \in Disk : Same(image[v[1]][d], before[v[1]][d], v[2])
  /\ \A d \in DOMAIN scrub.buffer, c \in Cell :
       c >= scrub.cell => Same(scrub.buffer[d], before[Head(scrub.superblocks)][d], c)
Tally ==
  /\ scrub.damagedFiles = {f \in File \ (scrub.todo \cup Current) : Condemned(f)}
  /\ scrub.blocks = IF scrub.dryRun THEN 0 ELSE Cardinality(RepairableBefore \ Left)
ScrubFound ==
  /\ scrub.superblocks = <<>> => scrub.cell = 0
  /\ Undisturbed =>
       /\ scrub.pc = "done" => scrub.todo = {}
       /\ InTheFile /\ Untouched /\ Tally

ScrubInv == Inv /\ Distinct /\ Sourced /\ ErrorsAhead /\ NotStale /\ ScrubFound

-----------------------------------------------------------------------------
(* What is written.                                                        *)

LEMMA NoHashIs == \A content : Hash(content) # NoHash /\ Hash(content)[1] = content
BY DEF Hash, NoHash

(* A subblock that is written has its new contents, and all others and the *)
(* hashes stay.                                                            *)
LEMMA Written ==
  ASSUME Inv, NEW s, NEW d, NEW c, NEW content, Put(s, d, c, content)
  PROVE  \A t \in Superblock, e \in Disk, k \in Cell :
           /\ image'[t][e].hash[k] = image[t][e].hash[k]
           /\ image'[t][e].cell[k] = IF <<t, e, k>> = <<s, d, c>> THEN content ELSE image[t][e].cell[k]
<1>1. IsImage(image) /\ image' = WithCell(image, s, d, c, content)
  BY DEF Inv, Shapes, Put, WithCell
<1>2. SUFFICES ASSUME NEW t \in Superblock, NEW e \in Disk, NEW k \in Cell, <<t, e, k>> = <<s, d, c>>
               PROVE  image'[t][e].cell[k] = content
  BY <1>1, PutCell
<1>3. t = s /\ e = d /\ k = c
  BY <1>2
<1>4. /\ DOMAIN image = Superblock /\ DOMAIN image[s] = Disk /\ DOMAIN image[s][d] = {"cell", "hash"}
      /\ DOMAIN image[s][d].cell = Cell
  BY <1>1, <1>2, <1>3 DEF IsImage, IsBlocks
<1>5. image'[s] = [image[s] EXCEPT ![d].cell[c] = content]
  BY <1>1, <1>2, <1>3, <1>4 DEF WithCell
<1>6. image'[s][d] = [image[s][d] EXCEPT !.cell[c] = content]
  BY <1>2, <1>3, <1>4, <1>5
<1>7. image'[s][d].cell = [image[s][d].cell EXCEPT ![c] = content]
  BY <1>4, <1>6
<1> QED  BY <1>2, <1>3, <1>4, <1>7

LEMMA Emptied ==
  ASSUME Inv, NEW s, NEW d, NEW c, NEW value, image' = WithHash(image, s, d, c, value)
  PROVE  \A t \in Superblock, e \in Disk, k \in Cell :
           /\ image'[t][e].cell[k] = image[t][e].cell[k]
           /\ image'[t][e].hash[k] = IF <<t, e, k>> = <<s, d, c>> THEN value ELSE image[t][e].hash[k]
<1>1. IsImage(image) /\ image' = WithHash(image, s, d, c, value)
  BY DEF Inv, Shapes
<1>2. SUFFICES ASSUME NEW t \in Superblock, NEW e \in Disk, NEW k \in Cell, <<t, e, k>> = <<s, d, c>>
               PROVE  image'[t][e].hash[k] = value
  BY <1>1, PutHash
<1>3. t = s /\ e = d /\ k = c
  BY <1>2
<1>4. /\ DOMAIN image = Superblock /\ DOMAIN image[s] = Disk /\ DOMAIN image[s][d] = {"cell", "hash"}
      /\ DOMAIN image[s][d].hash = Cell
  BY <1>1, <1>2, <1>3 DEF IsImage, IsBlocks
<1>5. image'[s] = [image[s] EXCEPT ![d].hash[c] = value]
  BY <1>1, <1>2, <1>3, <1>4 DEF WithHash
<1>6. image'[s][d] = [image[s][d] EXCEPT !.hash[c] = value]
  BY <1>2, <1>3, <1>4, <1>5
<1>7. image'[s][d].hash = [image[s][d].hash EXCEPT ![c] = value]
  BY <1>4, <1>6
<1> QED  BY <1>2, <1>3, <1>4, <1>7

(* A sum has only what one of its summands has.                            *)
LEMMA SumHasNoMore ==
  ASSUME NEW content, NEW over, NEW a, \A i \in over : a \notin content[i]
  PROVE  a \notin Xor(content, over)
BY DEF Xor

(* The place of a cell in the data lies within what is padded.             *)
LEMMA PlaceInData ==
  ASSUME NEW d \in DataDisk, NEW c \in Cell
  PROVE  d * Cells + c \in 0..Cells*(NumDisks-1)-1
<1>1. d \in Nat /\ c \in Nat /\ Cells \in Nat /\ NumDisks \in Nat /\ d <= NumDisks - 2 /\ c <= Cells - 1
  BY ConstantsAssumption DEF DataDisk, Cell
<1>2. PICK m \in Nat : m = NumDisks - 2 - d
  BY <1>1
<1>3. Cells * (NumDisks - 1) = d * Cells + m * Cells + Cells
  BY <1>1, <1>2, SMT
<1>4. d * Cells \in Nat /\ m * Cells \in Nat
  BY <1>1, <1>2, SMT
<1> QED  BY <1>1, <1>3, <1>4, SMT

(* Nothing of the layout is an error.                                      *)
LEMMA DataHasNoError ==
  ASSUME NEW f \in File, NEW i \in DOMAIN Sources[f], NEW d \in DataDisk, NEW c \in Cell
  PROVE  HasNoError(DataCells(Sources[f][i], d)[c])
<1> DEFINE source == Sources[f][i]
           k == d * Cells + c
<1>1. k \in 0..Cells*(NumDisks-1)-1
  BY PlaceInData
<1>2. Len(source) \in Nat \ {0}
  <2>1. Len(source) \in 1..Cells * (NumDisks - 1)
    BY ConstantsAssumption
  <2> QED  BY <2>1
<1>3. DataCells(source, d)[c] = source[(k % Len(source)) + 1]
  BY <1>1 DEF DataCells, Padded
<1>4. (k % Len(source)) + 1 \in DOMAIN source
  <2>0. DOMAIN source = 1..Len(source)
    BY <1>2, ConstantsAssumption
  <2> HIDE DEF k, source
  <2>1. k \in Nat
    BY <1>1
  <2> QED  BY <1>2, <2>0, <2>1, SMT
<1> HIDE DEF k
<1> QED  BY <1>3, <1>4, ErrorsAreNew

LEMMA ItemHasNoError ==
  ASSUME NEW f \in File, NEW i \in DOMAIN Sources[f], NEW d \in Disk, NEW k \in 0..Cells
  PROVE  HasNoError(Item(Sources[f][i], d, k))
<1> DEFINE source == Sources[f][i]
<1>1. CASE ~(k < Cells)
  <2>1. \A j : Error(j) # <<"hashes", [c \in Cell |-> Hash(DiskCells(source, d)[c])]>>
    BY DEF Error
  <2>2. Item(source, d, k) = HashSubblock(DiskCells(source, d))
    BY <1>1 DEF Item
  <2> QED  BY <2>1, <2>2 DEF HashSubblock, HasNoError
<1>2. CASE k < Cells /\ d # Parity
  <2>1. d \in DataDisk /\ k \in Cell
    BY <1>2, Bounds DEF DataDisk, Parity
  <2> QED  BY <1>2, <2>1, DataHasNoError DEF Item, DiskCells
<1>3. CASE k < Cells /\ d = Parity
  <2>1. k \in Cell
    BY <1>3, Bounds
  <2>2. PICK content : content = [e \in DataDisk |-> DataCells(source, e)[k]]
    OBVIOUS
  <2>3. Item(source, d, k) = Xor(content, DataDisk)
    BY <1>3, <2>1, <2>2 DEF Item, DiskCells, ParityCells
  <2>4. \A e \in DataDisk : HasNoError(content[e])
    BY <2>1, <2>2, DataHasNoError
  <2> QED  BY <2>3, <2>4, SumHasNoMore DEF HasNoError
<1> QED  BY <1>1, <1>2, <1>3

(* A torn subblock is not an error of a disk either.                       *)
LEMMA TornHasNoError == HasNoError({<<"torn">>})
BY DEF HasNoError, Error

-----------------------------------------------------------------------------
(* What belongs to a file, and what a command stores.                      *)

LEMMA NothingRepeats == NoRepeats(<<>>) /\ DOMAIN <<>> = {}
BY DEF NoRepeats

LEMMA OwnersKeep == ASSUME Inv, Distinct, Sourced, [Next]_vars PROVE Distinct' /\ Sourced'
<1>0. NoWriter.file = 0 /\ NoWriter.ids = <<>>
  BY DEF NoWriter
<1>1. CASE StartStore
  <2>1. stores' \in File /\ UNCHANGED listed
    BY <1>1, ConstantsAssumption DEF StartStore, Inv, Shapes
  <2>2. PICK old \in {0} \cup File : \E ids \in Selections(stores', old) :
          writer' = [NoWriter EXCEPT !.file = stores', !.ids = ids, !.replaces = old]
    BY <1>1 DEF StartStore
  <2>3. PICK ids \in Selections(stores', old) :
          writer' = [NoWriter EXCEPT !.file = stores', !.ids = ids, !.replaces = old]
    BY <2>2
  <2>4. DOMAIN ids = DOMAIN Sources[stores'] /\ NoRepeats(ids)
    BY DEF Selections, NoRepeats
  <2>5. writer'.file = stores' /\ writer'.ids = ids /\ writer'.chunk = 1
    BY <2>3 DEF NoWriter
  <2> QED  BY <2>1, <2>4, <2>5 DEF Distinct, Sourced, NoRepeats
<1>2. CASE WriteSubblock
  <2>1. writer' = Onward(writer) /\ UNCHANGED listed /\ Storing /\ writer \in WriterType
    BY <1>2 DEF WriteSubblock, Inv, WriterOK
  <2>2. /\ writer'.file = writer.file /\ writer'.ids = writer.ids
        /\ writer'.chunk \in {writer.chunk, writer.chunk + 1}
    BY <2>1 DEF Onward, WriterType
  <2> QED  BY <2>1, <2>2 DEF Distinct, Sourced, Storing, NoRepeats
<1>3. CASE RecordStored
  <2>1. /\ listed' = [f \in File |-> IF f = writer.file THEN writer.ids
                                   ELSE IF f = writer.replaces THEN <<>> ELSE listed[f]]
        /\ writer' = NoWriter
    BY <1>3 DEF RecordStored
  <2>2. \A f \in File : NoRepeats(listed'[f])
    BY <2>1, NothingRepeats DEF Distinct
  <2> QED  BY <1>0, <2>1, <2>2, NothingRepeats DEF Distinct, Sourced, Storing
<1>4. CASE StoreFails
  <2>1. UNCHANGED listed /\ writer' = NoWriter
    BY <1>4 DEF StoreFails
  <2> QED  BY <1>0, <2>1, NothingRepeats DEF Distinct, Sourced, Storing
<1>5. CASE UNCHANGED <<listed, writer>>
  BY <1>5 DEF Distinct, Sourced, Storing, NoRepeats
<1> QED
  BY <1>1, <1>2, <1>3, <1>4, <1>5
  DEF Next, ScrubStep, vars, Decay, ScrubBegin, NextFile, ReadBlock, VssbMatches, VssbDamaged,
      VssbLeftAlone, RepairVssb, EndFile, Report, ScrubFails

-----------------------------------------------------------------------------
(* The steps of a scrub.                                                   *)

(* The next disk is read into the buffer.                                  *)
LEMMA Reads ==
  ASSUME Inv, ReadBlock
  PROVE  /\ InSuperblock /\ UNCHANGED <<image, listed, decay, before, disturbed>>
         /\ \E read : scrub' = [scrub EXCEPT !.buffer = read]
         /\ DOMAIN scrub = Fields
         /\ \E n \in Disk : /\ n \notin DOMAIN scrub.buffer
                            /\ DOMAIN scrub'.buffer = DOMAIN scrub.buffer \cup {n}
         /\ \A d \in DOMAIN scrub'.buffer :
              /\ d \in Disk
              /\ \/ d \in DOMAIN scrub.buffer /\ scrub'.buffer[d] = scrub.buffer[d]
                 \/ scrub'.buffer[d] = image[Head(scrub.superblocks)][d]
<1>0. PICK d, read :
        /\ d = Cardinality(DOMAIN scrub.buffer)
        /\ read = [e \in 0..d |-> IF e < d THEN scrub.buffer[e]
                                   ELSE image[Head(scrub.superblocks)][d]]
  OBVIOUS
<1>1. /\ scrub' = [scrub EXCEPT !.buffer = read] /\ InSuperblock /\ d # NumDisks
      /\ UNCHANGED <<image, listed, decay, before, disturbed>>
      /\ DOMAIN scrub = Fields
  BY <1>0, NoScrubIs DEF ReadBlock, AllRead, history, Inv, ScrubOK
<1>2. scrub'.buffer = read
  BY <1>1 DEF Fields
<1>3. PICK n \in 0..NumDisks : DOMAIN scrub.buffer = 0..n-1
  BY DEF Inv, ScrubOK
<1>4. d = n
  <2>1. n \in Nat /\ 0 \in Int /\ n-1 \in Int
    BY <1>3, Bounds
  <2>2. Cardinality(0..n-1) = n
    BY <2>1, FS_Interval
  <2> QED  BY <1>0, <1>3, <2>2
<1>5. n \in Disk
  BY <1>1, <1>4, Bounds
<1>6. ASSUME NEW e \in DOMAIN read
      PROVE  /\ e \in Disk
             /\ \/ e \in DOMAIN scrub.buffer /\ read[e] = scrub.buffer[e]
                \/ read[e] = image[Head(scrub.superblocks)][e]
  <2>1. e \in 0..n
    BY <1>0, <1>4
  <2>2. e \in Disk /\ (e < n => e \in 0..n-1) /\ (~(e < n) => e = n)
    BY <1>5, <2>1, Bounds
  <2> QED  BY <1>0, <1>3, <1>4, <2>1, <2>2
<1>7. n \notin DOMAIN scrub.buffer /\ DOMAIN read = DOMAIN scrub.buffer \cup {n}
  <2>1. n \in Nat /\ n \notin 0..n-1 /\ 0..n = (0..n-1) \cup {n}
    BY <1>3, Bounds
  <2> QED  BY <1>0, <1>3, <1>4, <2>1
<1> QED  BY <1>1, <1>2, <1>5, <1>6, <1>7

(* All disks have been read.                                               *)
LEMMA BufferFull == ASSUME Inv, Examining PROVE DOMAIN scrub.buffer = Disk
<1>1. PICK n \in 0..NumDisks : DOMAIN scrub.buffer = 0..n-1
  BY DEF Inv, ScrubOK
<1>2. n \in Nat /\ 0 \in Int /\ n-1 \in Int
  BY <1>1, Bounds
<1>3. Cardinality(0..n-1) = n
  BY <1>2, FS_Interval
<1> QED  BY <1>1, <1>3, Bounds DEF Examining, AllRead

(* A round of the loop over the VSSBs of a superblock goes on to the next  *)
(* VSSB or to the next superblock, and finds a VSSB good, beyond repair or *)
(* repairable.                                                             *)
GoesOn ==
  \/ /\ scrub.cell + 1 \in Cell /\ scrub'.cell = scrub.cell + 1
     /\ scrub'.superblocks = scrub.superblocks /\ scrub'.buffer = scrub.buffer
  \/ /\ scrub.cell + 1 = Cells /\ scrub'.cell = 0
     /\ scrub'.superblocks = Tail(scrub.superblocks) /\ scrub'.buffer = <<>>
Finds ==
  /\ scrub'.fileDamaged = IF Hopeless(Wrong) THEN TRUE ELSE scrub.fileDamaged
  /\ scrub'.blocks = IF Wrong # {} /\ ~Hopeless(Wrong) /\ ~scrub.dryRun
                     THEN scrub.blocks + 1 ELSE scrub.blocks
KeepsOn ==
  /\ scrub'.pc = scrub.pc /\ scrub'.todo = scrub.todo /\ scrub'.file = scrub.file
  /\ scrub'.dryRun = scrub.dryRun /\ scrub'.damagedFiles = scrub.damagedFiles

LEMMA NextRound ==
  ASSUME Inv, NEW r, scrub' = NextVssb(r), DOMAIN r = Fields, r.cell = scrub.cell,
         r.superblocks = scrub.superblocks, r.buffer = scrub.buffer
  PROVE  /\ GoesOn
         /\ scrub'.pc = r.pc /\ scrub'.todo = r.todo /\ scrub'.file = r.file
         /\ scrub'.dryRun = r.dryRun /\ scrub'.damagedFiles = r.damagedFiles
         /\ scrub'.fileDamaged = r.fileDamaged /\ scrub'.blocks = r.blocks
<1>1. scrub.cell \in Cell
  BY DEF Inv, ScrubOK
<1>2. CASE r.cell < Cells - 1
  <2>1. scrub' = [r EXCEPT !.cell = @ + 1]
    BY <1>2 DEF NextVssb
  <2>2. r.cell + 1 \in Cell
    BY <1>1, <1>2, Bounds
  <2> QED  BY <2>1, <2>2 DEF GoesOn, Fields
<1>3. CASE ~(r.cell < Cells - 1)
  <2>1. scrub' = [r EXCEPT !.cell = 0, !.superblocks = Tail(@), !.buffer = <<>>]
    BY <1>3 DEF NextVssb
  <2>2. r.cell + 1 = Cells
    BY <1>1, <1>3, Bounds
  <2> QED  BY <2>1, <2>2 DEF GoesOn, Fields
<1> QED  BY <1>2, <1>3

Round == VssbMatches \/ VssbDamaged \/ VssbLeftAlone \/ RepairVssb

LEMMA Rounds ==
  ASSUME Inv, Round
  PROVE  Examining /\ GoesOn /\ Finds /\ KeepsOn /\ UNCHANGED <<listed, decay, before, disturbed>>
<1>1. /\ Examining /\ UNCHANGED <<listed, decay, before, disturbed>> /\ DOMAIN scrub = Fields
  BY NoScrubIs DEF Round, VssbMatches, VssbDamaged, VssbLeftAlone, RepairVssb, history, Inv, ScrubOK
<1>2. ~Hopeless({})
  BY FS_EmptySet DEF Hopeless
<1>3. CASE VssbMatches \/ VssbLeftAlone
  <2>1. scrub' = NextVssb(scrub) /\ ~Hopeless(Wrong) /\ (Wrong = {} \/ scrub.dryRun)
    BY <1>2, <1>3 DEF VssbMatches, VssbLeftAlone
  <2>2. GoesOn /\ KeepsOn /\ scrub'.fileDamaged = scrub.fileDamaged /\ scrub'.blocks = scrub.blocks
    BY <1>1, <2>1, NextRound DEF KeepsOn
  <2> QED  BY <1>1, <2>1, <2>2 DEF Finds
<1>4. CASE VssbDamaged
  <2>1. PICK r : r = [scrub EXCEPT !.fileDamaged = TRUE]
    OBVIOUS
  <2>2. scrub' = NextVssb(r) /\ Hopeless(Wrong)
    BY <1>4, <2>1 DEF VssbDamaged
  <2>3. /\ DOMAIN r = Fields /\ r.pc = scrub.pc /\ r.todo = scrub.todo /\ r.file = scrub.file
        /\ r.superblocks = scrub.superblocks /\ r.buffer = scrub.buffer /\ r.cell = scrub.cell
        /\ r.dryRun = scrub.dryRun /\ r.damagedFiles = scrub.damagedFiles
        /\ r.fileDamaged = TRUE /\ r.blocks = scrub.blocks
    BY <1>1, <2>1 DEF Fields
  <2>4. GoesOn /\ KeepsOn /\ scrub'.fileDamaged = TRUE /\ scrub'.blocks = scrub.blocks
    BY <2>2, <2>3, NextRound DEF KeepsOn
  <2> QED  BY <1>1, <2>2, <2>4 DEF Finds
<1>5. CASE RepairVssb
  <2>1. PICK r : r = [scrub EXCEPT !.blocks = @ + 1]
    OBVIOUS
  <2>2. scrub' = NextVssb(r) /\ Wrong # {} /\ ~Hopeless(Wrong) /\ ~scrub.dryRun
    BY <1>5, <2>1 DEF RepairVssb
  <2>3. /\ DOMAIN r = Fields /\ r.pc = scrub.pc /\ r.todo = scrub.todo /\ r.file = scrub.file
        /\ r.superblocks = scrub.superblocks /\ r.buffer = scrub.buffer /\ r.cell = scrub.cell
        /\ r.dryRun = scrub.dryRun /\ r.damagedFiles = scrub.damagedFiles
        /\ r.fileDamaged = scrub.fileDamaged /\ r.blocks = scrub.blocks + 1
    BY <1>1, <2>1 DEF Fields
  <2>4. /\ GoesOn /\ KeepsOn /\ scrub'.fileDamaged = scrub.fileDamaged
        /\ scrub'.blocks = scrub.blocks + 1
    BY <2>2, <2>3, NextRound DEF KeepsOn
  <2> QED  BY <1>1, <2>2, <2>4 DEF Finds
<1> QED  BY <1>3, <1>4, <1>5 DEF Round

(* A step of a scrub leaves the disks alone, but for the one subblock that *)
(* failed its hash in the VSSB it examines.                                *)
LEMMA OneSubblock ==
  ASSUME Inv, Round \/ ScrubFails
  PROVE  \/ UNCHANGED image
         \/ Examining /\ \E d \in Wrong : \E content :
              /\ ~Hopeless(Wrong)
              /\ content = Corrected(d) \/ content = {<<"torn">>}
              /\ Put(Head(scrub.superblocks), d, scrub.cell, content)
BY DEF Round, VssbMatches, VssbDamaged, VssbLeftAlone, RepairVssb, ScrubFails

(* The examined superblock is one of the pool's.                           *)
LEMMA ExaminedIs ==
  ASSUME Inv, InSuperblock
  PROVE  /\ Head(scrub.superblocks) \in Superblock /\ scrub.cell \in Cell
         /\ Head(scrub.superblocks) \in Remaining
BY DEF Inv, ScrubOK, InSuperblock, Remaining

-----------------------------------------------------------------------------
(* Errors are new, and what the scrub has read is not stale.               *)

(* A write without errors that are yet to be made.                         *)
LEMMA AheadWritten ==
  ASSUME Inv, ImageAhead, NEW s, NEW d, NEW c, NEW content, Put(s, d, c, content),
         Unmade(content), UNCHANGED decay
  PROVE  ImageAhead'
<1>1. Unmade(content)'
  BY DEF Unmade
<1>2. ASSUME NEW t \in Superblock, NEW e \in Disk, NEW k \in Cell
      PROVE  (/\ Unmade(image[t][e].cell[k])
              /\ image[t][e].hash[k] # NoHash => HasNoError(image[t][e].hash[k][1]))'
  <2>1. /\ image'[t][e].hash[k] = image[t][e].hash[k]
        /\ image'[t][e].cell[k] = IF <<t, e, k>> = <<s, d, c>> THEN content ELSE image[t][e].cell[k]
    BY Written
  <2>2. /\ Unmade(image[t][e].cell[k])
        /\ image[t][e].hash[k] # NoHash => HasNoError(image[t][e].hash[k][1])
    BY DEF ImageAhead
  <2>3. Unmade(image'[t][e].cell[k])
    BY <2>1, <2>2
  <2> QED  BY <2>1, <2>2, <2>3 DEF Unmade
<1> QED  BY <1>2 DEF ImageAhead

LEMMA NoErrorUnmade ==
  ASSUME NEW content, HasNoError(content), decay \in Nat PROVE Unmade(content)
BY ConstantsAssumption DEF HasNoError, Unmade

(* What is spoiled has the newest error, and fails the hash it has.        *)
LEMMA Spoils ==
  ASSUME NEW old, Unmade(old), decay \in Nat, decay < MaxDamage, decay' = decay + 1,
         NEW new, new = Xor(<<old, {Error(decay)}>>, {1, 2})
  PROVE  Error(decay) \in new /\ Unmade(new)'
<1> PICK content : content = <<old, {Error(decay)}>>
  OBVIOUS
<1>1. Error(decay) \notin old /\ content[1] = old /\ content[2] = {Error(decay)}
  BY ConstantsAssumption DEF Unmade
<1>2. {i \in {1, 2} : Error(decay) \in content[i]} = {2}
  BY <1>1
<1>3. Cardinality({2}) % 2 = 1
  <2>1. Cardinality({2}) = 1
    BY FS_Singleton
  <2> QED  BY <2>1, SMT
<1>4. Error(decay) \in new
  BY <1>1, <1>2, <1>3 DEF Xor
<1>5. ASSUME NEW k \in decay+1..MaxDamage-1 PROVE Error(k) \notin new
  <2>1. Error(k) # Error(decay)
    BY DEF Error
  <2>2. Error(k) \notin old
    BY ConstantsAssumption DEF Unmade
  <2> QED  BY <1>1, <2>1, <2>2, SumHasNoMore
<1> QED  BY <1>4, <1>5 DEF Unmade

LEMMA DecaySpoils ==
  ASSUME Inv, ErrorsAhead, Decay
  PROVE  /\ ErrorsAhead'
         /\ \A s \in Superblock, d \in Disk, c \in Cell :
              Fails(image[s][d], c) => Fails(image'[s][d], c)
<1>1. /\ decay < MaxDamage /\ decay' = decay + 1 /\ decay \in Nat /\ scrub' = scrub
      /\ IsImage(image)
  BY DEF Decay, ErrorsAhead, Inv, Shapes
<1>2. PICK s \in Superblock, d \in Disk, c \in Cell :
        \/ Put(s, d, c, Xor(<<image[s][d].cell[c], {Error(decay)}>>, {1, 2}))
        \/ image' = WithHash(image, s, d, c, NoHash)
  BY DEF Decay, WithHash
<1>3. decay' \in Nat /\ \A content : Unmade(content) => Unmade(content)'
  BY <1>1 DEF Unmade
<1>4. ASSUME NEW t \in Superblock, NEW e \in Disk, NEW k \in Cell
      PROVE  /\ (/\ Unmade(image[t][e].cell[k])
                 /\ image[t][e].hash[k] # NoHash => HasNoError(image[t][e].hash[k][1]))'
             /\ Fails(image[t][e], k) => Fails(image'[t][e], k)
  <2>1. /\ Unmade(image[t][e].cell[k])
        /\ image[t][e].hash[k] # NoHash => HasNoError(image[t][e].hash[k][1])
    BY DEF ErrorsAhead, ImageAhead
  <2>2. CASE image' = WithHash(image, s, d, c, NoHash)
    <3>1. /\ image'[t][e].cell[k] = image[t][e].cell[k]
          /\ image'[t][e].hash[k] = IF <<t, e, k>> = <<s, d, c>> THEN NoHash ELSE image[t][e].hash[k]
      BY <2>2, Emptied
    <3>2. Unmade(image[t][e].cell[k])'
      <4> PICK content : content = image[t][e].cell[k]
        OBVIOUS
      <4>1. Unmade(content)'
        BY <1>3, <2>1
      <4> QED  BY <3>1, <4>1 DEF Unmade
    <3>3. image'[t][e].hash[k] # NoHash => HasNoError(image'[t][e].hash[k][1])
      BY <2>1, <3>1
    <3>4. Fails(image[t][e], k) => Fails(image'[t][e], k)
      BY <3>1, NoHashIs DEF Fails
    <3> QED  BY <3>2, <3>3, <3>4 DEF Unmade
  <2>3. CASE Put(s, d, c, Xor(<<image[s][d].cell[c], {Error(decay)}>>, {1, 2}))
    <3>1. PICK new : new = Xor(<<image[s][d].cell[c], {Error(decay)}>>, {1, 2})
      OBVIOUS
    <3>2. /\ image'[t][e].hash[k] = image[t][e].hash[k]
          /\ image'[t][e].cell[k] = IF <<t, e, k>> = <<s, d, c>> THEN new ELSE image[t][e].cell[k]
      BY <2>3, <3>1, Written
    <3>3. CASE <<t, e, k>> # <<s, d, c>>
      <4> PICK content : content = image[t][e].cell[k]
        OBVIOUS
      <4>1. Unmade(content)'
        BY <1>3, <2>1
      <4>2. image'[t][e].cell[k] = content
        BY <3>2, <3>3
      <4> QED  BY <2>1, <3>2, <4>1, <4>2 DEF Unmade, Fails
    <3>4. CASE <<t, e, k>> = <<s, d, c>>
      <4>1. Error(decay) \in new /\ Unmade(new)'
        <5> PICK old : old = image[s][d].cell[c]
          OBVIOUS
        <5>1. Unmade(old)
          BY DEF ErrorsAhead, ImageAhead
        <5> QED  BY <1>1, <3>1, <5>1, Spoils
      <4>2. image'[t][e].cell[k] = new
        BY <3>2, <3>4
      <4>3. Fails(image'[t][e], k)
        <5>1. image[t][e].hash[k] # NoHash => Error(decay) \notin image[t][e].hash[k][1]
          BY <1>1, <2>1, ConstantsAssumption DEF HasNoError
        <5> QED  BY <3>2, <4>1, <4>2, <5>1, NoHashIs DEF Fails
      <4> QED  BY <2>1, <3>2, <4>1, <4>2, <4>3 DEF Unmade
    <3> QED  BY <3>3, <3>4
  <2> QED  BY <1>2, <2>2, <2>3
<1>5. BufferAhead'
  BY <1>1, <1>3 DEF BufferAhead, ErrorsAhead
<1>6. ImageAhead'
  BY <1>4 DEF ImageAhead
<1> QED  BY <1>3, <1>4, <1>5, <1>6 DEF ErrorsAhead

(* Before, between and after the superblocks nothing is in the buffer.     *)
LEMMA NothingHeld ==
  ASSUME Inv, ScrubBegin \/ NextFile \/ EndFile \/ Report
  PROVE  UNCHANGED <<image, decay>> /\ scrub'.buffer = <<>>
<1>1. DOMAIN scrub = Fields /\ ScrubOK
  BY NoScrubIs DEF Inv, ScrubOK
<1>2. CASE ScrubBegin
  <2>1. PICK dryRun \in BOOLEAN :
          scrub' = [NoScrub EXCEPT !.pc = "file", !.dryRun = dryRun,
                                   !.todo = {f \in File : listed[f] # <<>>}]
    BY <1>2 DEF ScrubBegin
  <2> QED  BY <1>2, <2>1, NoScrubIs DEF ScrubBegin, Fields
<1>3. CASE NextFile
  <2>1. PICK f \in scrub.todo :
          scrub' = [scrub EXCEPT !.pc = "superblock", !.file = f, !.todo = @ \ {f},
                                 !.superblocks = listed[f], !.fileDamaged = FALSE]
    BY <1>3 DEF NextFile
  <2> QED  BY <1>1, <1>3, <2>1 DEF NextFile, Fields, ScrubOK
<1>4. CASE EndFile \/ Report
  BY <1>1, <1>4 DEF EndFile, Report, Fields, ScrubOK
<1> QED  BY <1>2, <1>3, <1>4

LEMMA EmptyAhead ==
  ASSUME scrub'.buffer = <<>> PROVE BufferAhead' /\ NotStale'
<1>1. DOMAIN scrub'.buffer = {}
  BY EmptyBuffer
<1> QED  BY <1>1 DEF BufferAhead, NotStale

(* What the scrub writes is a sum of what it has read, or torn.            *)
LEMMA RepairUnmade ==
  ASSUME Inv, ErrorsAhead, Examining, NEW d \in Wrong, NEW content,
         content = Corrected(d) \/ content = {<<"torn">>}
  PROVE  Unmade(content)
<1>1. CASE content = {<<"torn">>}
  BY <1>1, TornHasNoError, NoErrorUnmade DEF ErrorsAhead
<1>2. CASE content = Corrected(d)
  <2>1. PICK cells : cells = [e \in Disk |-> scrub.buffer[e].cell[scrub.cell]]
    OBVIOUS
  <2>2. ASSUME NEW e \in DataDisk PROVE Unmade(cells[e])
    <3>1. e \in Disk /\ scrub.cell \in Cell
      BY Bounds DEF DataDisk, Inv, ScrubOK
    <3>2. e \in DOMAIN scrub.buffer
      BY <3>1, BufferFull
    <3>3. Unmade(scrub.buffer[e].cell[scrub.cell])
      BY <3>1, <3>2 DEF ErrorsAhead, BufferAhead
    <3> QED  BY <2>1, <3>1, <3>3
  <2>3. content = Xor(cells, DataDisk \ {d})
    BY <1>2, <2>1 DEF Corrected
  <2> QED  BY <2>2, <2>3, SumHasNoMore DEF Unmade
<1> QED  BY <1>1, <1>2

LEMMA AheadKeeps == ASSUME Inv, Sourced, ErrorsAhead, [Next]_vars PROVE ErrorsAhead'
<1>0. decay \in Nat /\ ImageAhead /\ BufferAhead
  BY DEF ErrorsAhead
<1>a. UNCHANGED <<decay, image>> => ImageAhead'
  BY <1>0 DEF ImageAhead, Unmade
<1>b. UNCHANGED <<decay, scrub>> => BufferAhead'
  BY <1>0 DEF BufferAhead, Unmade
<1>1. CASE UNCHANGED <<decay, image, scrub>>
  BY <1>0, <1>1, <1>a, <1>b DEF ErrorsAhead
<1>2. CASE WriteSubblock
  <2>1. /\ Storing /\ ~AllStored /\ UNCHANGED <<decay, scrub>> /\ writer \in WriterType
        /\ Put(writer.ids[writer.chunk], writer.disk, Place(writer.item),
               Item(Sources[writer.file][writer.chunk], writer.disk, writer.item))
    BY <1>2 DEF WriteSubblock, Inv, WriterOK
  <2>2. writer.file \in File /\ writer.disk \in Disk /\ writer.item \in 0..Cells
    BY <2>1 DEF WriterType, Storing
  <2>3. writer.chunk \in DOMAIN Sources[writer.file]
    <3>1. writer.chunk \in Nat \ {0} /\ DOMAIN writer.ids = DOMAIN Sources[writer.file]
      BY <2>1 DEF Sourced
    <3>2. writer.ids \in Seq(Superblock)
      BY <2>1 DEF WriterType
    <3> QED  BY <2>1, <3>1, <3>2 DEF AllStored
  <2>4. PICK content : content = Item(Sources[writer.file][writer.chunk], writer.disk, writer.item)
    OBVIOUS
  <2>5. Unmade(content)
    BY <1>0, <2>2, <2>3, <2>4, ItemHasNoError, NoErrorUnmade
  <2>6. ImageAhead'
    BY <1>0, <2>1, <2>4, <2>5, AheadWritten
  <2> QED  BY <1>0, <1>b, <2>1, <2>6 DEF ErrorsAhead
<1>3. CASE StoreFails
  <2>1. UNCHANGED <<decay, scrub>>
    BY <1>3 DEF StoreFails
  <2>2. CASE UNCHANGED image
    BY <1>1, <2>1, <2>2
  <2>3. CASE ~UNCHANGED image
    <3>1. PICK s, d, c : Put(s, d, c, {<<"torn">>})
      BY <1>3, <2>3 DEF StoreFails
    <3>2. ImageAhead'
      BY <1>0, <2>1, <3>1, TornHasNoError, NoErrorUnmade, AheadWritten
    <3> QED  BY <1>0, <1>b, <2>1, <3>2 DEF ErrorsAhead
  <2> QED  BY <2>2, <2>3
<1>4. CASE Decay
  BY <1>4, DecaySpoils
<1>5. CASE ScrubBegin \/ NextFile \/ EndFile \/ Report
  BY <1>0, <1>5, <1>a, NothingHeld, EmptyAhead DEF ErrorsAhead
<1>6. CASE ReadBlock
  <2>1. /\ InSuperblock /\ UNCHANGED <<image, decay>>
        /\ \A d \in DOMAIN scrub'.buffer :
             /\ d \in Disk
             /\ \/ d \in DOMAIN scrub.buffer /\ scrub'.buffer[d] = scrub.buffer[d]
                \/ scrub'.buffer[d] = image[Head(scrub.superblocks)][d]
    BY <1>6, Reads
  <2>2. Head(scrub.superblocks) \in Superblock
    BY <2>1, ExaminedIs
  <2>3. \A d \in DOMAIN scrub'.buffer, c \in Cell : Unmade(scrub'.buffer[d].cell[c])
    BY <1>0, <2>1, <2>2 DEF BufferAhead, ImageAhead
  <2>4. BufferAhead'
    BY <2>1, <2>3 DEF BufferAhead, Unmade
  <2> QED  BY <1>0, <1>a, <2>1, <2>4 DEF ErrorsAhead
<1>7. CASE Round \/ ScrubFails
  <2>1. UNCHANGED decay /\ (scrub'.buffer = scrub.buffer \/ scrub'.buffer = <<>>)
    BY <1>7, Rounds, NoScrubIs DEF ScrubFails, history, GoesOn
  <2>2. BufferAhead'
    BY <1>0, <2>1, EmptyAhead DEF BufferAhead, Unmade
  <2>3. ImageAhead'
    <3>1. CASE UNCHANGED image
      BY <1>a, <2>1, <3>1
    <3>2. CASE ~UNCHANGED image
      <4>1. Examining
        BY <1>7, <3>2, OneSubblock
      <4>2. PICK d \in Wrong : \E content :
              /\ content = Corrected(d) \/ content = {<<"torn">>}
              /\ Put(Head(scrub.superblocks), d, scrub.cell, content)
        BY <1>7, <3>2, OneSubblock
      <4>3. PICK content : /\ content = Corrected(d) \/ content = {<<"torn">>}
                           /\ Put(Head(scrub.superblocks), d, scrub.cell, content)
        BY <4>2
      <4>4. Unmade(content)
        BY <4>1, <4>3, RepairUnmade
      <4> QED  BY <1>0, <2>1, <4>3, <4>4, AheadWritten
    <3> QED  BY <3>1, <3>2
  <2> QED  BY <1>0, <2>1, <2>2, <2>3 DEF ErrorsAhead
<1> QED
  BY <1>1, <1>2, <1>3, <1>4, <1>5, <1>6, <1>7
  DEF Next, ScrubStep, vars, StartStore, RecordStored, history, Round

(* What fails in the buffer failed on the disks when it was read, and a    *)
(* disk never mends itself.                                                *)
LEMMA StaleKeeps == ASSUME Inv, ErrorsAhead, NotStale, [Next]_vars PROVE NotStale'
<1>1. CASE UNCHANGED <<image, scrub>> /\ disturbed \subseteq disturbed'
  BY <1>1 DEF NotStale, Fails
<1>2. CASE "stored" \in disturbed'
  BY <1>2 DEF NotStale
<1>3. CASE Decay
  <2>1. /\ disturbed' = disturbed \cup {"spoiled"} /\ UNCHANGED scrub
        /\ \A s \in Superblock, d \in Disk, c \in Cell :
             Fails(image[s][d], c) => Fails(image'[s][d], c)
    BY <1>3, DecaySpoils DEF Decay, Disturb
  <2>2. CASE scrub.superblocks = <<>>
    BY <2>1, <2>2, EmptyAhead DEF Inv, ScrubOK
  <2>3. CASE scrub.superblocks # <<>>
    <3>1. Head(scrub.superblocks) \in Superblock /\ DOMAIN scrub.buffer \subseteq Disk
      <4>1. PICK n \in 0..NumDisks : DOMAIN scrub.buffer = 0..n-1
        BY DEF Inv, ScrubOK
      <4>2. 0..n-1 \subseteq Disk
        BY <4>1, Bounds
      <4> QED  BY <2>3, <4>1, <4>2 DEF Inv, ScrubOK
    <3>2. PICK s : s = Head(scrub.superblocks)
      OBVIOUS
    <3>3. ASSUME "stored" \notin disturbed', NEW d \in DOMAIN scrub'.buffer, NEW c \in Cell,
                 c >= scrub'.cell /\ Fails(scrub'.buffer[d], c)
          PROVE  Fails(image'[s][d], c)
      <4>1. d \in DOMAIN scrub.buffer /\ c >= scrub.cell /\ Fails(scrub.buffer[d], c)
        BY <2>1, <3>3
      <4>2. Fails(image[s][d], c)
        BY <2>1, <3>2, <3>3, <4>1 DEF NotStale
      <4> QED  BY <2>1, <3>1, <3>2, <4>1, <4>2
    <3>4. Head(scrub'.superblocks) = s
      BY <2>1, <3>2
    <3> QED  BY <3>3, <3>4 DEF NotStale, Fails
  <2> QED  BY <2>2, <2>3
<1>4. CASE ScrubBegin \/ NextFile \/ EndFile \/ Report
  BY <1>4, NothingHeld, EmptyAhead
<1>5. CASE ReadBlock
  <2>1. PICK s : s = Head(scrub.superblocks)
    OBVIOUS
  <2>2. /\ UNCHANGED <<image, disturbed>>
        /\ \A d \in DOMAIN scrub'.buffer :
             \/ d \in DOMAIN scrub.buffer /\ scrub'.buffer[d] = scrub.buffer[d]
             \/ scrub'.buffer[d] = image[s][d]
    BY <1>5, <2>1, Reads
  <2>3. scrub'.superblocks = scrub.superblocks /\ scrub'.cell = scrub.cell
    BY <1>5, Reads DEF Fields
  <2>4. Head(scrub'.superblocks) = s
    BY <2>1, <2>3
  <2>5. ASSUME "stored" \notin disturbed, NEW d \in DOMAIN scrub'.buffer, NEW c \in Cell,
               c >= scrub.cell /\ Fails(scrub'.buffer[d], c)
        PROVE  Fails(image[s][d], c)
    BY <2>1, <2>2, <2>5 DEF NotStale
  <2> QED  BY <2>2, <2>3, <2>4, <2>5 DEF NotStale, Fails
<1>6. CASE ScrubFails
  BY <1>6, NoScrubIs, EmptyAhead DEF ScrubFails
<1>7. CASE Round
  <2>1. CASE scrub'.buffer = <<>>
    BY <2>1, EmptyAhead
  <2>2. CASE scrub'.buffer # <<>>
    <3>1. PICK s, k : s = Head(scrub.superblocks) /\ k = scrub.cell
      OBVIOUS
    <3>2. /\ scrub'.buffer = scrub.buffer /\ scrub'.superblocks = scrub.superblocks
          /\ scrub'.cell = k + 1 /\ UNCHANGED disturbed /\ Examining
      BY <1>7, <2>2, <3>1, Rounds DEF GoesOn
    <3>3. s \in Superblock /\ k \in Cell /\ k \in Int /\ DOMAIN scrub.buffer = Disk
      BY <3>1, <3>2, ExaminedIs, BufferFull, Bounds DEF Examining
    <3>4. ASSUME NEW e \in Disk, NEW c \in Cell, c >= k + 1
          PROVE  Fails(image'[s][e], c) <=> Fails(image[s][e], c)
      <4>1. CASE UNCHANGED image
        BY <4>1 DEF Fails
      <4>2. CASE ~UNCHANGED image
        <5>1. PICK d \in Wrong : \E content : Put(s, d, k, content)
          BY <1>7, <3>1, <4>2, OneSubblock
        <5>2. PICK content : Put(s, d, k, content)
          BY <5>1
        <5>3. c # k
          BY <3>3, <3>4, Bounds
        <5>4. /\ image'[s][e].hash[c] = image[s][e].hash[c]
              /\ image'[s][e].cell[c] = image[s][e].cell[c]
          BY <3>3, <5>2, <5>3, Written
        <5> QED  BY <5>4 DEF Fails
      <4> QED  BY <4>1, <4>2
    <3>5. ASSUME "stored" \notin disturbed, NEW e \in Disk, NEW c \in Cell,
                 c >= k + 1 /\ Fails(scrub.buffer[e], c)
          PROVE  Fails(image'[s][e], c)
      <4>1. c >= k
        BY <3>3, <3>5, Bounds
      <4>2. Fails(image[s][e], c)
        BY <3>1, <3>3, <3>5, <4>1 DEF NotStale
      <4> QED  BY <3>4, <3>5, <4>2
    <3>6. Head(scrub'.superblocks) = s
      BY <3>1, <3>2
    <3> QED  BY <3>2, <3>3, <3>5, <3>6 DEF NotStale, Fails
  <2> QED  BY <2>1, <2>2
<1>8. CASE StartStore \/ RecordStored
  BY <1>1, <1>8 DEF StartStore, RecordStored, history, Disturb
<1>9. CASE WriteSubblock \/ StoreFails
  BY <1>1, <1>2, <1>9 DEF WriteSubblock, StoreFails, history, Disturb
<1> QED
  BY <1>1, <1>3, <1>4, <1>5, <1>6, <1>7, <1>8, <1>9 DEF Next, ScrubStep, vars, Round

-----------------------------------------------------------------------------
(* What the scrub found.                                                   *)

(* The VSSBs that belong to files are finitely many.                       *)
LEMMA FiniteVssbs == ASSUME Inv PROVE IsFiniteSet(RepairableBefore)
<1>1. \A f \in File : IsFiniteSet(Owned(f))
  <2> SUFFICES ASSUME NEW f \in File PROVE IsFiniteSet(Owned(f))
    OBVIOUS
  <2>1. PICK ids \in Seq(Superblock) : ids = listed[f]
    BY DEF Inv, Shapes
  <2>2. Len(ids) \in Nat /\ DOMAIN ids = 1..Len(ids)
    BY <2>1
  <2>3. ids \in Surjection(1..Len(ids), Owned(f))
    BY <2>1, <2>2 DEF Surjection, Owned
  <2> QED  BY <2>2, <2>3, FS_NatSurjection DEF ExistsSurjection
<1>2. IsFiniteSet({Owned(f) : f \in File})
  <2>1. PICK owned : owned = [f \in File |-> Owned(f)]
    OBVIOUS
  <2>2. owned \in Surjection(1..Len(Sources), {Owned(f) : f \in File})
    BY <2>1, ConstantsAssumption DEF Surjection
  <2> QED  BY <2>2, ConstantsAssumption, FS_NatSurjection DEF ExistsSurjection
<1>3. IsFiniteSet(UNION {Owned(f) : f \in File})
  BY <1>1, <1>2, FS_UNION
<1>4. IsFiniteSet(Cell)
  BY Bounds, FS_Interval
<1>5. IsFiniteSet((UNION {Owned(f) : f \in File}) \X Cell)
  BY <1>3, <1>4, FS_Product
<1> QED  BY <1>5, FS_Subset DEF RepairableBefore

(* The disks as they were, and whose they are.                             *)
LEMMA BeforeStays ==
  ASSUME UNCHANGED <<listed, before>>
  PROVE  /\ RepairableBefore' = RepairableBefore
         /\ \A f : Owned(f)' = Owned(f) /\ (Condemned(f)' <=> Condemned(f))
<1>1. \A f : Owned(f)' = Owned(f)
  BY DEF Owned
<1>2. RepairableBefore' = RepairableBefore
  BY <1>1 DEF RepairableBefore
<1>3. \A f : Condemned(f)' <=> Condemned(f)
  BY <1>1 DEF Condemned
<1> QED  BY <1>1, <1>2, <1>3

LEMMA OwnedVssbs ==
  ASSUME Inv, NEW f \in File
  PROVE  Owned(f) \subseteq Superblock /\ Owned(f) = {listed[f][i] : i \in DOMAIN listed[f]}
<1>1. listed[f] \in Seq(Superblock)
  BY DEF Inv, Shapes
<1> QED  BY <1>1 DEF Owned

(* Nothing is examined twice: no other file that is to come has it.        *)
LEMMA OthersOwn ==
  ASSUME Inv, InTheFile, scrub.pc = "superblock", NEW f \in scrub.todo
  PROVE  Owned(f) \cap Owned(scrub.file) = {} /\ Owned(f) \cap Remaining = {}
<1>1. f \in File /\ scrub.file \in File /\ f # scrub.file /\ Remaining \subseteq Owned(scrub.file)
  BY DEF InTheFile, Inv, ScrubOK
<1> QED  BY <1>1 DEF Inv, Shapes

(* Steps of others that touch neither disks nor catalogue.                 *)
LEMMA FoundStays ==
  ASSUME ScrubFound, UNCHANGED <<image, listed, scrub, before, disturbed>> PROVE ScrubFound'
<1>1. \A f : Owned(f)' = Owned(f) /\ (Condemned(f)' <=> Condemned(f))
  BY BeforeStays
<1>2. RepairableBefore' = RepairableBefore /\ Left' = Left /\ Remaining' = Remaining /\ Current' = Current
  BY <1>1, BeforeStays DEF Left, Remaining, Current
<1>3. InTheFile => InTheFile'
  BY <1>1, <1>2 DEF InTheFile
<1>4. Untouched => Untouched'
  BY <1>2 DEF Untouched, Same
<1>5. Tally => Tally'
  BY <1>1, <1>2 DEF Tally
<1> QED  BY <1>3, <1>4, <1>5 DEF ScrubFound, Undisturbed

(* A scrub begins with everything left to do.                              *)
LEMMA BeginFinds == ASSUME Inv, ScrubBegin PROVE ScrubFound'
<1>1. PICK dryRun \in BOOLEAN :
        scrub' = [NoScrub EXCEPT !.pc = "file", !.dryRun = dryRun,
                                 !.todo = {f \in File : listed[f] # <<>>}]
  BY DEF ScrubBegin
<1>2. /\ scrub'.pc = "file" /\ scrub'.todo = {f \in File : listed[f] # <<>>}
      /\ scrub'.superblocks = <<>> /\ scrub'.buffer = <<>> /\ scrub'.cell = 0
      /\ scrub'.damagedFiles = {} /\ scrub'.blocks = 0
  BY <1>1 DEF NoScrub
<1>3. /\ UNCHANGED <<image, listed>> /\ before' = image
  BY DEF ScrubBegin
<1>4. \A f \in File : f \notin scrub'.todo => Owned(f)' = {}
  <2>1. DOMAIN <<>> = {}
    OBVIOUS
  <2> QED  BY <1>2, <1>3, <2>1 DEF Owned
<1>5. Current' = {} /\ DOMAIN scrub'.buffer = {}
  BY <1>2, EmptyBuffer DEF Current
<1>6. RepairableBefore' \subseteq Left'
  <2>1. \A f \in File : Owned(f)' \subseteq Superblock
    BY <1>3, OwnedVssbs DEF Owned
  <2> QED  BY <1>4, <2>1 DEF RepairableBefore, Left
<1>7. Tally'
  <2>1. Cardinality((RepairableBefore \ Left)') = 0
    BY <1>6, FS_EmptySet
  <2>2. {f \in File \ (scrub.todo \cup Current) : Condemned(f)}' = {}
    BY <1>4, <1>5 DEF Condemned
  <2> QED  BY <1>2, <2>1, <2>2 DEF Tally
<1>8. Untouched'
  BY <1>3, <1>5 DEF Untouched, Same
<1> QED  BY <1>2, <1>7, <1>8 DEF ScrubFound, InTheFile

(* What is left stays left when the next file is opened.                   *)
LEMMA NextFileFinds == ASSUME Inv, Distinct, ScrubFound, NextFile PROVE ScrubFound'
<1>1. PICK f \in scrub.todo :
        scrub' = [scrub EXCEPT !.pc = "superblock", !.file = f, !.todo = @ \ {f},
                               !.superblocks = listed[f], !.fileDamaged = FALSE]
  BY DEF NextFile
<1>2. /\ UNCHANGED <<image, listed, before, disturbed>> /\ scrub.pc = "file"
      /\ scrub.superblocks = <<>> /\ scrub.cell = 0 /\ DOMAIN scrub = Fields /\ f \in File
  BY NoScrubIs DEF NextFile, history, ScrubFound, Inv, ScrubOK
<1>3. /\ scrub'.pc = "superblock" /\ scrub'.file = f /\ scrub'.todo = scrub.todo \ {f}
      /\ scrub'.superblocks = listed[f] /\ scrub'.fileDamaged = FALSE /\ scrub'.cell = 0
      /\ scrub'.dryRun = scrub.dryRun /\ scrub'.damagedFiles = scrub.damagedFiles
      /\ scrub'.blocks = scrub.blocks
  BY <1>1, <1>2 DEF Fields
<1>4. /\ RepairableBefore' = RepairableBefore
      /\ \A g : Owned(g)' = Owned(g) /\ (Condemned(g)' <=> Condemned(g))
  BY <1>2, BeforeStays
<1>5. Remaining = {} /\ Remaining' = Owned(f) /\ Owned(f) \subseteq Superblock
  <2>1. DOMAIN <<>> = {}
    OBVIOUS
  <2> QED  BY <1>2, <1>3, <2>1, OwnedVssbs DEF Remaining
<1>6. Left' = Left /\ Owned(f) \X Cell \subseteq Left
  <2>1. Left = {v \in Superblock \X Cell : \E g \in scrub.todo : v[1] \in Owned(g)}
    BY <1>5 DEF Left
  <2>2. \A v \in Superblock \X Cell : v[2] >= scrub'.cell
    BY <1>3, Bounds
  <2>3. Left' = {v \in Superblock \X Cell :
                   (\E g \in scrub.todo \ {f} : v[1] \in Owned(g)) \/ v[1] \in Owned(f)}
    BY <1>3, <1>4, <1>5, <2>2 DEF Left
  <2> QED  BY <1>5, <2>1, <2>3
<1>7. DOMAIN scrub'.buffer = {}
  BY NothingHeld, EmptyBuffer
<1>8. InTheFile'
  <2>1. NoRepeats(listed'[f])
    BY <1>2 DEF Distinct, NoRepeats
  <2> QED  BY <1>2, <1>3, <1>4, <1>5, <1>6, <2>1 DEF InTheFile, NoRepeats
<1>9. Untouched => Untouched'
  BY <1>2, <1>6, <1>7 DEF Untouched, Same
<1>10. Tally => Tally'
  <2>1. Current = {} /\ Current' = {f}
    BY <1>2, <1>3 DEF Current
  <2> QED  BY <1>3, <1>4, <1>6, <2>1 DEF Tally
<1> QED  BY <1>2, <1>3, <1>8, <1>9, <1>10 DEF ScrubFound, Undisturbed

(* A disk is read: it has what it had when the scrub started.              *)
LEMMA ReadFinds == ASSUME Inv, ScrubFound, ReadBlock PROVE ScrubFound'
<1>1. PICK read : scrub' = [scrub EXCEPT !.buffer = read]
  BY Reads
<1>2. /\ InSuperblock /\ UNCHANGED <<image, listed, before, disturbed>> /\ DOMAIN scrub = Fields
      /\ \A d \in DOMAIN scrub'.buffer :
           /\ d \in Disk
           /\ \/ d \in DOMAIN scrub.buffer /\ scrub'.buffer[d] = scrub.buffer[d]
              \/ scrub'.buffer[d] = image[Head(scrub.superblocks)][d]
  BY Reads
<1>3. /\ scrub'.pc = scrub.pc /\ scrub'.file = scrub.file /\ scrub'.todo = scrub.todo
      /\ scrub'.superblocks = scrub.superblocks /\ scrub'.fileDamaged = scrub.fileDamaged
      /\ scrub'.cell = scrub.cell /\ scrub'.dryRun = scrub.dryRun
      /\ scrub'.damagedFiles = scrub.damagedFiles /\ scrub'.blocks = scrub.blocks
  BY <1>1, <1>2 DEF Fields
<1>4. /\ RepairableBefore' = RepairableBefore
      /\ \A g : Owned(g)' = Owned(g) /\ (Condemned(g)' <=> Condemned(g))
  BY <1>2, BeforeStays
<1>5. Left' = Left /\ Remaining' = Remaining /\ Current' = Current
  <2>1. Remaining' = Remaining /\ Current' = Current
    BY <1>3 DEF Remaining, Current
  <2> QED  BY <1>3, <1>4, <2>1 DEF Left
<1>6. InTheFile => InTheFile'
  BY <1>2, <1>3, <1>4, <1>5 DEF InTheFile
<1>7. Untouched => Untouched'
  <2> SUFFICES ASSUME Untouched,
                      NEW d \in DOMAIN scrub'.buffer, NEW c \in Cell, c >= scrub.cell
               PROVE  Same(scrub'.buffer[d], before[Head(scrub.superblocks)][d], c)
    BY <1>2, <1>3, <1>5 DEF Untouched, Same
  <2>1. PICK s : s = Head(scrub.superblocks)
    OBVIOUS
  <2>2. <<s, c>> \in Left
    BY <1>2, <2>1, ExaminedIs DEF Left
  <2>3. Same(image[s][d], before[s][d], c)
    <3>1. PICK v \in Left : v = <<s, c>>
      BY <2>2
    <3>2. Same(image[v[1]][d], before[v[1]][d], v[2])
      BY <1>2 DEF Untouched
    <3> QED  BY <3>1, <3>2
  <2> QED  BY <1>2, <2>1, <2>3 DEF Untouched
<1>8. Tally => Tally'
  BY <1>3, <1>4, <1>5 DEF Tally
<1> QED  BY <1>2, <1>3, <1>6, <1>7, <1>8 DEF ScrubFound, Undisturbed

(* A round takes one VSSB off what is left.                                *)
LEMMA RoundLeft ==
  ASSUME Inv, InTheFile, Examining, UNCHANGED listed, GoesOn, KeepsOn,
         NEW s, s = Head(scrub.superblocks), NEW k, k = scrub.cell
  PROVE  /\ Left' = Left \ {<<s, k>>} /\ <<s, k>> \in Left
         /\ Remaining' \subseteq Remaining
         /\ NoRepeats(scrub'.superblocks)
<1>1. /\ s \in Superblock /\ k \in Cell /\ s \in Remaining
      /\ scrub.pc = "superblock" /\ scrub.superblocks # <<>>
  BY ExaminedIs DEF Examining, InSuperblock
<1>2. \A f \in scrub.todo : s \notin Owned(f)
  BY <1>1, OthersOwn
<1>3. <<s, k>> \in Left
  BY <1>1, Bounds DEF Left
<1>4. scrub'.todo = scrub.todo /\ \A f : Owned(f)' = Owned(f)
  BY OwnedStays DEF KeepsOn
<1>5. NoRepeats(scrub.superblocks) /\ scrub.superblocks \in Seq(Superblock)
  BY <1>1 DEF InTheFile, Inv, ScrubOK
<1>6. CASE scrub'.cell = k + 1 /\ scrub'.superblocks = scrub.superblocks
  <2>1. Remaining' = Remaining
    BY <1>6 DEF Remaining
  <2>2. \A v \in Superblock \X Cell : v[2] >= k + 1 <=> v[2] >= k /\ v[2] # k
    BY <1>1, Bounds
  <2>3. ASSUME NEW v \in Superblock \X Cell PROVE v \in Left' <=> v \in Left /\ v # <<s, k>>
    <3>1. v \in Left' <=> \/ \E f \in scrub.todo : v[1] \in Owned(f)
                          \/ v[1] \in Remaining /\ (v[1] = s => v[2] >= k + 1)
      BY <1>4, <1>6, <2>1 DEF Left
    <3>2. v \in Left <=> \/ \E f \in scrub.todo : v[1] \in Owned(f)
                         \/ v[1] \in Remaining /\ (v[1] = s => v[2] >= k)
      BY DEF Left
    <3>3. v = <<s, k>> <=> v[1] = s /\ v[2] = k
      OBVIOUS
    <3> QED  BY <1>2, <2>2, <3>1, <3>2, <3>3
  <2>4. Left' = Left \ {<<s, k>>}
    BY <2>3 DEF Left
  <2> QED  BY <1>3, <1>5, <1>6, <2>1, <2>4
<1>7. CASE k + 1 = Cells /\ scrub'.cell = 0 /\ scrub'.superblocks = Tail(scrub.superblocks)
  <2>1. PICK ids \in Seq(Superblock) : ids = scrub.superblocks
    BY <1>5
  <2>2. /\ Len(ids) \in Nat \ {0} /\ DOMAIN ids = 1..Len(ids) /\ s = ids[1]
        /\ DOMAIN Tail(ids) = 1..Len(ids)-1
        /\ \A i \in 1..Len(ids)-1 : Tail(ids)[i] = ids[i+1]
    BY <1>1, <2>1
  <2>3. NoRepeats(Tail(ids))
    BY <1>5, <2>1, <2>2 DEF NoRepeats
  <2>4. Remaining' = Remaining \ {s}
    <3>1. \A i \in 1..Len(ids)-1 : i+1 \in 1..Len(ids) /\ i+1 # 1
      BY <2>2
    <3>2. \A j \in 1..Len(ids) : j # 1 => j-1 \in 1..Len(ids)-1 /\ (j-1)+1 = j
      BY <2>2
    <3>3. Remaining = {ids[i] : i \in 1..Len(ids)} /\ 1 \in 1..Len(ids)
      BY <2>1, <2>2 DEF Remaining
    <3>4. Remaining' = {ids[i+1] : i \in 1..Len(ids)-1}
      BY <1>7, <2>1, <2>2 DEF Remaining
    <3>5. \A j \in 1..Len(ids) : ids[j] = s <=> j = 1
      BY <1>5, <2>1, <2>2, <3>3 DEF NoRepeats
    <3>6. \A x \in Remaining' : x \in Remaining /\ x # s
      BY <3>1, <3>3, <3>4, <3>5
    <3>7. \A x \in Remaining : x # s => x \in Remaining'
      BY <3>2, <3>3, <3>4, <3>5
    <3> QED  BY <3>6, <3>7
  <2>5. \A v \in Superblock \X Cell : v[2] >= 0 /\ (v[2] >= k <=> v[2] = k)
    BY <1>1, <1>7, Bounds
  <2>6. ASSUME NEW v \in Superblock \X Cell PROVE v \in Left' <=> v \in Left /\ v # <<s, k>>
    <3>1. v \in Left' <=> (\E f \in scrub.todo : v[1] \in Owned(f)) \/ v[1] \in Remaining \ {s}
      BY <1>4, <1>7, <2>4, <2>5 DEF Left
    <3>2. v \in Left <=> \/ \E f \in scrub.todo : v[1] \in Owned(f)
                         \/ v[1] \in Remaining /\ (v[1] = s => v[2] >= k)
      BY DEF Left
    <3>3. v = <<s, k>> <=> v[1] = s /\ v[2] = k
      OBVIOUS
    <3> QED  BY <1>2, <2>5, <3>1, <3>2, <3>3
  <2>7. Left' = Left \ {<<s, k>>}
    BY <2>6 DEF Left
  <2> QED  BY <1>3, <1>7, <2>1, <2>3, <2>4, <2>7
<1> QED  BY <1>6, <1>7 DEF GoesOn

(* VSSBs with one failed data subblock are those that are repaired.        *)
LEMMA OneFails ==
  ASSUME NEW wrong \in SUBSET Disk
  PROVE  wrong # {} /\ ~(Cardinality(wrong) > 1 \/ Parity \in wrong) <=> \E d \in DataDisk : wrong = {d}
<1>1. IsFiniteSet(wrong)
  <2>1. 0 \in Int /\ NumDisks - 1 \in Int /\ Disk = 0..NumDisks-1
    BY Bounds
  <2>2. IsFiniteSet(Disk)
    BY <2>1, FS_Interval
  <2> QED  BY <2>2, FS_Subset
<1>2. DataDisk = Disk \ {Parity}
  BY Bounds DEF DataDisk, Parity
<1>3. Cardinality(wrong) \in Nat
  BY <1>1, FS_CardinalityType
<1>4. ASSUME wrong # {}, ~(Cardinality(wrong) > 1), Parity \notin wrong
      PROVE  \E d \in DataDisk : wrong = {d}
  <2>1. Cardinality(wrong) # 0
    BY <1>1, <1>4, FS_EmptySet
  <2>2. Cardinality(wrong) = 1
    BY <1>3, <1>4, <2>1
  <2>3. \E d : wrong = {d}
    BY <1>1, <2>2, FS_Singleton
  <2> QED  BY <1>2, <1>4, <2>3
<1>5. ASSUME NEW d \in DataDisk, wrong = {d} PROVE ~(Cardinality(wrong) > 1)
  BY <1>5, FS_Singleton
<1> QED  BY <1>2, <1>4, <1>5

(* An undisturbed round finds the VSSB as it was when the scrub started,   *)
(* and accounts for it.                                                    *)
LEMMA RoundFinds == ASSUME Inv, ScrubFound, Round PROVE ScrubFound'
<1>1. Examining /\ GoesOn /\ Finds /\ KeepsOn /\ UNCHANGED <<listed, before, disturbed>>
  BY Rounds
<1>2. PICK s, k : s = Head(scrub.superblocks) /\ k = scrub.cell
  OBVIOUS
<1>3. /\ s \in Superblock /\ k \in Cell /\ s \in Remaining /\ DOMAIN scrub.buffer = Disk
      /\ scrub.pc = "superblock" /\ scrub'.pc = "superblock"
  BY <1>1, <1>2, ExaminedIs, BufferFull DEF Examining, InSuperblock, KeepsOn
<1>4. /\ RepairableBefore' = RepairableBefore
      /\ \A g : Owned(g)' = Owned(g) /\ (Condemned(g)' <=> Condemned(g))
  BY <1>1, BeforeStays
<1>5. scrub'.superblocks = <<>> => scrub'.cell = 0
  BY <1>1 DEF GoesOn, Examining, InSuperblock
<1> SUFFICES ASSUME Undisturbed, InTheFile, Untouched, Tally
             PROVE  InTheFile' /\ Untouched' /\ Tally'
  BY <1>1, <1>3, <1>5 DEF ScrubFound, Undisturbed
<1>6. /\ Left' = Left \ {<<s, k>>} /\ <<s, k>> \in Left /\ Remaining' \subseteq Remaining
      /\ NoRepeats(scrub'.superblocks)
  BY <1>1, <1>2, RoundLeft
<1>7. s \in Owned(scrub.file)
  BY <1>3 DEF InTheFile
<1>8. Wrong = Mismatched(before[s], k)
  <2>1. ASSUME NEW d \in Disk PROVE Same(scrub.buffer[d], before[s][d], k)
    BY <1>2, <1>3, Bounds DEF Untouched
  <2> QED  BY <1>2, <2>1 DEF Wrong, Mismatched, Same
<1>9. Hopeless(Wrong) <=> Damaged(before[s], k)
  BY <1>8 DEF Hopeless, Damaged
<1>10. InTheFile'
  <2>1. (Owned(scrub.file) \X Cell) \ Left' = ((Owned(scrub.file) \X Cell) \ Left) \cup {<<s, k>>}
    BY <1>3, <1>6, <1>7
  <2>2. (\E v \in (Owned(scrub.file) \X Cell) \ Left' : Damaged(before[v[1]], v[2]))
          <=> scrub.fileDamaged \/ Damaged(before[s], k)
    <3> PICK sk : sk = <<s, k>>
      OBVIOUS
    <3>1. sk = <<s, k>> /\ sk[1] = s /\ sk[2] = k
      OBVIOUS
    <3>2. (\E v \in (Owned(scrub.file) \X Cell) \ Left : Damaged(before[v[1]], v[2]))
            <=> scrub.fileDamaged
      BY <1>3 DEF InTheFile
    <3> QED  BY <2>1, <3>1, <3>2
  <2>3. scrub'.fileDamaged <=> scrub.fileDamaged \/ Damaged(before[s], k)
    BY <1>1, <1>9 DEF Finds
  <2>4. scrub'.file = scrub.file /\ scrub'.todo = scrub.todo
    BY <1>1 DEF KeepsOn
  <2>5. scrub.file \in File \ scrub.todo /\ Remaining \subseteq Owned(scrub.file)
    BY <1>3 DEF InTheFile
  <2> QED  BY <1>1, <1>3, <1>4, <1>6, <2>2, <2>3, <2>4, <2>5 DEF InTheFile
<1>11. Untouched'
  <2>1. ASSUME NEW v \in Left', NEW d \in Disk
        PROVE  Same(image'[v[1]][d], before[v[1]][d], v[2])
    <3>1. v \in Left /\ v \in Superblock \X Cell /\ v # <<s, k>>
      BY <1>6 DEF Left
    <3>2. Same(image[v[1]][d], before[v[1]][d], v[2])
      BY <3>1 DEF Untouched
    <3>3. CASE UNCHANGED image
      BY <3>2, <3>3
    <3>4. CASE ~UNCHANGED image
      <4>1. PICK e \in Wrong : \E content : Put(s, e, k, content)
        BY <1>2, <3>4, OneSubblock
      <4>2. PICK content : Put(s, e, k, content)
        BY <4>1
      <4>3. PICK t \in Superblock, c \in Cell : v = <<t, c>>
        BY <3>1
      <4>4. /\ image'[t][d].hash[c] = image[t][d].hash[c]
            /\ image'[t][d].cell[c] = image[t][d].cell[c]
        BY <3>1, <4>2, <4>3, Written
      <4> QED  BY <3>2, <4>3, <4>4 DEF Same
    <3> QED  BY <3>3, <3>4
  <2>2. ASSUME NEW d \in DOMAIN scrub'.buffer, NEW c \in Cell, c >= scrub'.cell
        PROVE  Same(scrub'.buffer[d], before[Head(scrub'.superblocks)][d], c)
    <3>1. scrub'.buffer # <<>>
      BY EmptyBuffer
    <3>2. scrub'.buffer = scrub.buffer /\ scrub'.superblocks = scrub.superblocks /\ scrub'.cell = k + 1
      BY <1>1, <1>2, <3>1 DEF GoesOn
    <3>3. c >= k
      BY <1>3, <2>2, <3>2, Bounds
    <3> QED  BY <1>2, <2>2, <3>2, <3>3 DEF Untouched
  <2> QED  BY <1>1, <2>1, <2>2 DEF Untouched
<1>12. Tally'
  <2>1. Current' = Current /\ scrub'.todo = scrub.todo /\ scrub'.damagedFiles = scrub.damagedFiles
        /\ scrub'.dryRun = scrub.dryRun
    BY <1>1 DEF Current, KeepsOn
  <2>2. scrub'.damagedFiles = {f \in File \ (scrub.todo \cup Current) : Condemned(f)}'
    BY <1>4, <2>1 DEF Tally
  <2>3. <<s, k>> \in RepairableBefore <=> Wrong # {} /\ ~Hopeless(Wrong)
    <3>1. Wrong \in SUBSET Disk
      BY DEF Wrong, Mismatched
    <3>2. Wrong # {} /\ ~Hopeless(Wrong) <=> \E d \in DataDisk : Mismatched(before[s], k) = {d}
      BY <1>8, <3>1, OneFails DEF Hopeless
    <3>3. <<s, k>> \in (UNION {Owned(f) : f \in File}) \X Cell
      BY <1>3, <1>7 DEF InTheFile
    <3> QED  BY <3>2, <3>3 DEF RepairableBefore
  <2>4. scrub'.blocks = IF scrub.dryRun THEN 0 ELSE Cardinality(RepairableBefore \ Left')
    <3>1. IsFiniteSet(RepairableBefore \ Left)
      BY FiniteVssbs, FS_Difference
    <3>2. CASE <<s, k>> \in RepairableBefore
      <4>1. RepairableBefore \ Left' = (RepairableBefore \ Left) \cup {<<s, k>>}
        BY <1>6, <3>2
      <4>2. Cardinality(RepairableBefore \ Left') = Cardinality(RepairableBefore \ Left) + 1
        BY <1>6, <3>1, <4>1, FS_AddElement
      <4> QED  BY <1>1, <2>3, <3>2, <4>2 DEF Finds, Tally
    <3>3. CASE <<s, k>> \notin RepairableBefore
      <4>1. RepairableBefore \ Left' = RepairableBefore \ Left
        BY <1>6, <3>3
      <4> QED  BY <1>1, <2>3, <3>3, <4>1 DEF Finds, Tally
    <3> QED  BY <3>2, <3>3
  <2> QED  BY <1>4, <2>1, <2>2, <2>4 DEF Tally
<1> QED  BY <1>10, <1>11, <1>12

(* A file is done when none of its VSSBs is left.                          *)
LEMMA EndFinds == ASSUME Inv, ScrubFound, EndFile \/ Report PROVE ScrubFound'
<1>1. /\ UNCHANGED <<image, listed, before, disturbed>> /\ DOMAIN scrub = Fields
      /\ scrub.superblocks = <<>> /\ scrub.pc \in {"file", "superblock"}
  BY NoScrubIs DEF EndFile, Report, history, Inv, ScrubOK
<1>2. /\ scrub'.superblocks = <<>> /\ scrub'.cell = scrub.cell /\ scrub'.todo = scrub.todo
      /\ scrub'.dryRun = scrub.dryRun /\ scrub'.blocks = scrub.blocks
      /\ scrub'.pc \in {"file", "done"}
  BY <1>1 DEF EndFile, Report, Fields
<1>3. DOMAIN scrub'.buffer = {}
  BY NothingHeld, EmptyBuffer
<1>4. /\ RepairableBefore' = RepairableBefore
      /\ \A g : Owned(g)' = Owned(g) /\ (Condemned(g)' <=> Condemned(g))
  BY <1>1, BeforeStays
<1>5. Left' = Left /\ Remaining = {} /\ Current' = {}
  <2>1. DOMAIN <<>> = {}
    OBVIOUS
  <2>2. Remaining = {} /\ Remaining' = {}
    BY <1>1, <1>2, <2>1 DEF Remaining
  <2> QED  BY <1>2, <1>4, <2>2 DEF Left, Current
<1>6. Untouched => Untouched'
  BY <1>1, <1>3, <1>5 DEF Untouched, Same
<1>7. InTheFile'
  BY <1>2 DEF InTheFile
<1>8. ASSUME InTheFile, Tally
      PROVE  scrub'.damagedFiles = {f \in File \ scrub.todo : Condemned(f)}
  <2>1. CASE Report
    <3>1. scrub'.damagedFiles = scrub.damagedFiles /\ Current = {}
      BY <1>1, <2>1 DEF Report, Current, Fields
    <3> QED  BY <1>8, <3>1 DEF Tally
  <2>2. CASE EndFile
    <3>1. scrub.pc = "superblock" /\ Current = {scrub.file}
      BY <2>2 DEF EndFile, Current
    <3>2. PICK f : f = scrub.file /\ f \in File \ scrub.todo
      BY <1>8, <3>1 DEF InTheFile
    <3>3. (Owned(f) \X Cell) \ Left = Owned(f) \X Cell
      BY <1>5, <1>8, <3>1, <3>2, OthersOwn DEF Left
    <3>4. scrub.fileDamaged <=> \E v \in Owned(f) \X Cell : Damaged(before[v[1]], v[2])
      BY <1>8, <3>1, <3>2, <3>3 DEF InTheFile
    <3>5. (\E v \in Owned(f) \X Cell : Damaged(before[v[1]], v[2]))
            <=> \E t \in Owned(f), c \in Cell : Damaged(before[t], c)
      <4>1. ASSUME NEW t \in Owned(f), NEW c \in Cell, Damaged(before[t], c)
            PROVE  \E v \in Owned(f) \X Cell : Damaged(before[v[1]], v[2])
        <5> PICK v : v = <<t, c>>
          OBVIOUS
        <5>1. v \in Owned(f) \X Cell /\ v[1] = t /\ v[2] = c
          OBVIOUS
        <5> QED  BY <4>1, <5>1
      <4>2. \A v \in Owned(f) \X Cell : v[1] \in Owned(f) /\ v[2] \in Cell
        OBVIOUS
      <4> QED  BY <4>1, <4>2
    <3>6. scrub.fileDamaged <=> Condemned(f)
      BY <3>4, <3>5 DEF Condemned
    <3>7. scrub'.damagedFiles = IF scrub.fileDamaged THEN scrub.damagedFiles \cup {f}
                                ELSE scrub.damagedFiles
      BY <1>1, <2>2, <3>2 DEF EndFile, Fields
    <3>8. scrub.damagedFiles = {g \in File \ (scrub.todo \cup {f}) : Condemned(g)}
      BY <1>8, <3>1, <3>2 DEF Tally
    <3> QED  BY <3>2, <3>6, <3>7, <3>8
  <2> QED  BY <2>1, <2>2
<1>9. InTheFile /\ Tally => Tally'
  BY <1>2, <1>4, <1>5, <1>8 DEF Tally
<1>10. scrub'.pc = "done" => scrub'.todo = {}
  BY <1>1 DEF EndFile, Report, Fields
<1> QED
  BY <1>1, <1>2, <1>6, <1>7, <1>9, <1>10 DEF ScrubFound, Undisturbed

-----------------------------------------------------------------------------
(* The invariant holds at first, and every step keeps it.                  *)

LEMMA InitScrub == Init => ScrubInv
<1> SUFFICES ASSUME Init PROVE ScrubInv
  OBVIOUS
<1>1. /\ Inv /\ image \in [Superblock -> InitialImages] /\ listed = [f \in File |-> <<>>]
      /\ writer = NoWriter /\ scrub = NoScrub /\ decay = 0
  BY InitInv DEF Init
<1>2. Distinct /\ Sourced
  BY <1>1, NothingRepeats DEF Distinct, Sourced, Storing, NoWriter
<1>3. DOMAIN scrub.buffer = {}
  BY <1>1, NoScrubIs, EmptyBuffer
<1>4. ImageAhead
  <2>1. ASSUME NEW s \in Superblock, NEW d \in Disk, NEW c \in Cell
        PROVE  /\ HasNoError(image[s][d].cell[c])
               /\ image[s][d].hash[c] # NoHash => HasNoError(image[s][d].hash[c][1])
    <3>1. image[s] \in InitialImages
      BY <1>1
    <3> QED  BY <3>1, ErrorsAreNew DEF NoHash
  <2> QED  BY <1>1, <2>1, NoErrorUnmade DEF ImageAhead
<1>5. ErrorsAhead /\ NotStale
  BY <1>1, <1>3, <1>4 DEF ErrorsAhead, BufferAhead, NotStale
<1>6. ScrubFound
  BY <1>1, NoScrubIs DEF ScrubFound, Undisturbed
<1> QED  BY <1>1, <1>2, <1>5, <1>6 DEF ScrubInv

LEMMA FoundKeeps == ASSUME Inv, Distinct, ScrubFound, [Next]_vars PROVE ScrubFound'
<1>1. CASE UNCHANGED <<image, listed, scrub, before, disturbed>>
  BY <1>1, FoundStays
<1>2. CASE UNCHANGED scrub /\ disturbed' # {}
  BY <1>2 DEF ScrubFound, Undisturbed
<1>3. CASE scrub' = NoScrub
  BY <1>3, NoScrubIs DEF ScrubFound, Undisturbed
<1>4. CASE StartStore \/ WriteSubblock \/ RecordStored \/ StoreFails \/ Decay \/ UNCHANGED vars
  BY <1>1, <1>2, <1>4
  DEF StartStore, WriteSubblock, RecordStored, StoreFails, Decay, vars, history, Disturb
<1>5. CASE ScrubBegin \/ NextFile \/ ReadBlock
  BY <1>5, BeginFinds, NextFileFinds, ReadFinds
<1>6. CASE Round
  BY <1>6, RoundFinds
<1>7. CASE EndFile \/ Report \/ ScrubFails
  BY <1>3, <1>7, EndFinds DEF ScrubFails
<1> QED  BY <1>4, <1>5, <1>6, <1>7 DEF Next, ScrubStep, Round

LEMMA NextScrub == ScrubInv /\ [Next]_vars => ScrubInv'
BY NextInv, OwnersKeep, AheadKeeps, StaleKeeps, FoundKeeps DEF ScrubInv

(* What scrub and its surroundings do keeps the invariant for ever.        *)
THEOREM ScrubInvariance == Spec => []ScrubInv
BY InitScrub, NextScrub, PTL DEF Spec

-----------------------------------------------------------------------------
(* The results.                                                            *)

(* What scrub takes for damage is a loss of data, or the failure of the    *)
(* parity subblock alone.                                                  *)
LEMMA DamageIs ==
  ASSUME NEW blocks, NEW c
  PROVE  Damaged(blocks, c) <=> Lost(blocks, c) \/ Mismatched(blocks, c) = {Parity}
<1> DEFINE wrong == Mismatched(blocks, c)
<1>1. wrong \in SUBSET Disk /\ DataDisk = Disk \ {Parity} /\ Parity \in Disk
  BY Bounds DEF Mismatched, DataDisk, Parity
<1>2. Lost(blocks, c) <=> \E d \in DataDisk, e \in Disk : d # e /\ {d, e} \subseteq wrong
  BY DEF Lost
<1>3. Damaged(blocks, c) <=> Cardinality(wrong) > 1 \/ Parity \in wrong
  BY DEF Damaged
<1> HIDE DEF wrong
<1>4. wrong # {} /\ ~Damaged(blocks, c) <=> \E d \in DataDisk : wrong = {d}
  BY <1>1, <1>3, OneFails
<1>5. wrong = {} => ~Damaged(blocks, c)
  BY <1>3, FS_EmptySet
<1>6. ASSUME Damaged(blocks, c), wrong # {Parity} PROVE Lost(blocks, c)
  <2>1. PICK d \in wrong : d # Parity
    BY <1>1, <1>5, <1>6
  <2>2. d \in DataDisk /\ wrong # {d}
    BY <1>1, <1>4, <1>6, <2>1
  <2>3. PICK e \in wrong : e # d
    BY <2>1, <2>2
  <2> QED  BY <1>1, <1>2, <2>1, <2>2, <2>3
<1>7. ASSUME Lost(blocks, c) PROVE Damaged(blocks, c)
  BY <1>2, <1>4, <1>7
<1>8. wrong = {Parity} => Damaged(blocks, c)
  BY <1>3
<1> QED  BY <1>6, <1>7, <1>8 DEF wrong

(* What an undisturbed scrub returns when it is done.                      *)
LEMMA Returned ==
  ASSUME ScrubInv, DoneAlone
  PROVE  /\ scrub.damagedFiles = {f \in File : Condemned(f)}
         /\ scrub.blocks = IF scrub.dryRun THEN 0 ELSE Cardinality(RepairableBefore)
<1>1. /\ scrub.todo = {} /\ Tally /\ scrub.superblocks = <<>> /\ scrub.pc = "done"
  BY DEF DoneAlone, ScrubInv, ScrubFound, Undisturbed, Inv, ScrubOK
<1>2. Left = {} /\ Current = {}
  <2>1. DOMAIN <<>> = {}
    OBVIOUS
  <2> QED  BY <1>1, <2>1 DEF Left, Remaining, Current
<1> QED  BY <1>1, <1>2 DEF Tally

(* A scrub that nothing disturbs names every file that had lost data when  *)
(* it started, a data subblock that failed its hash together with another  *)
(* subblock of its VSSB; and every file it names had, or had a VSSB whose  *)
(* parity subblock alone failed.  That it does name the latter is what run *)
(* parity_only shows, so the second half cannot be made stronger.          *)
THEOREM LossesAreReported == Spec => []LossIsReported
<1>1. ScrubInv => LossIsReported
  <2> SUFFICES ASSUME ScrubInv, DoneAlone PROVE LossIsReported
    BY DEF LossIsReported
  <2>1. \A f \in File : Condemned(f) <=> LostBefore(f) \/ ParityOnlyBefore(f)
    BY DamageIs DEF Condemned, LostBefore, ParityOnlyBefore
  <2> QED  BY <2>1, Returned DEF LossIsReported
<1> QED  BY <1>1, ScrubInvariance, PTL

(* A scrub that nothing disturbs, and that is not a dry run, counts as     *)
(* repaired blocks just the VSSBs in which one data subblock, and no other *)
(* subblock, failed its hash when it started, each of them once.           *)
THEOREM EveryRepairIsCounted == Spec => []RepairsAreCounted
<1>1. ScrubInv => RepairsAreCounted
  BY Returned DEF RepairsAreCounted
<1> QED  BY <1>1, ScrubInvariance, PTL

(* However old the scrub's view of the disks is, and whatever else spoils  *)
(* them meanwhile, a repair or a failed repair overwrites a subblock that  *)
(* fails its hash on the disks now, so that no VSSB becomes a damaged one: *)
(* only a command that writes to the pool behind a scrub can cause that.   *)
THEOREM ScrubMakesNothingWorse == Spec => ScrubNeverWorsens
<1> DEFINE Safe == scrub' # scrub /\ "stored" \notin disturbed => DamagedVssbs' \subseteq DamagedVssbs
<1>1. ScrubInv /\ [Next]_vars => Safe
  <2> SUFFICES ASSUME ScrubInv, [Next]_vars, scrub' # scrub, "stored" \notin disturbed
               PROVE  DamagedVssbs' \subseteq DamagedVssbs
    OBVIOUS
  <2>1. CASE UNCHANGED image
    BY <2>1 DEF DamagedVssbs
  <2>2. CASE ~UNCHANGED image
    <3>1. Inv /\ NotStale /\ (Round \/ ScrubFails)
      BY <2>2
      DEF ScrubInv, Next, ScrubStep, Round, vars, history, StartStore, WriteSubblock, RecordStored,
          StoreFails, Decay, ScrubBegin, NextFile, ReadBlock, EndFile, Report
    <3>2. PICK s, k : s = Head(scrub.superblocks) /\ k = scrub.cell
      OBVIOUS
    <3>3. Examining
      BY <2>2, <3>1, OneSubblock
    <3>4. PICK d \in Wrong : \E content : Put(s, d, k, content)
      BY <2>2, <3>1, <3>2, OneSubblock
    <3>5. PICK content : Put(s, d, k, content)
      BY <3>4
    <3>6. s \in Superblock /\ k \in Cell /\ d \in Disk /\ DOMAIN scrub.buffer = Disk /\ k >= k
      BY <3>1, <3>2, <3>3, ExaminedIs, BufferFull, Bounds DEF Examining, Wrong, Mismatched
    <3>7. Fails(image[s][d], k)
      <4>1. Fails(scrub.buffer[d], k)
        BY <3>2 DEF Wrong, Mismatched, Fails
      <4> QED  BY <3>1, <3>2, <3>6, <4>1 DEF NotStale
    <3>8. ASSUME NEW v \in DamagedVssbs' PROVE v \in DamagedVssbs
      <4>1. PICK t \in Superblock, c \in Cell : v = <<t, c>>
        BY DEF DamagedVssbs
      <4>2. Mismatched(image'[t], c) \subseteq Mismatched(image[t], c)
        <5>1. ASSUME NEW e \in Disk, Fails(image'[t][e], c) PROVE Fails(image[t][e], c)
          <6>1. /\ image'[t][e].hash[c] = image[t][e].hash[c]
                /\ <<t, e, c>> # <<s, d, k>> => image'[t][e].cell[c] = image[t][e].cell[c]
            BY <3>1, <3>5, Written
          <6> QED  BY <3>7, <5>1, <6>1 DEF Fails
        <5> QED  BY <5>1 DEF Mismatched, Fails
      <4>3. Damaged(image'[t], c)
        BY <4>1 DEF DamagedVssbs, Damaged
      <4>4. Damaged(image[t], c)
        <5> DEFINE now == Mismatched(image'[t], c)
                   was == Mismatched(image[t], c)
        <5>1. IsFiniteSet(was) /\ IsFiniteSet(now)
          <6>1. 0 \in Int /\ NumDisks - 1 \in Int /\ Disk = 0..NumDisks-1
            BY Bounds
          <6>2. IsFiniteSet(Disk) /\ was \in SUBSET Disk /\ now \in SUBSET Disk
            BY <6>1, FS_Interval DEF Mismatched
          <6> QED  BY <6>2, FS_Subset
        <5>2. Cardinality(now) <= Cardinality(was)
          BY <4>2, <5>1, FS_Subset
        <5>3. Cardinality(now) \in Nat /\ Cardinality(was) \in Nat
          BY <5>1, FS_CardinalityType
        <5>4. Cardinality(now) > 1 \/ Parity \in now
          BY <4>3 DEF Damaged
        <5> HIDE DEF now, was
        <5>5. Cardinality(was) > 1 \/ Parity \in was
          BY <4>2, <5>2, <5>3, <5>4 DEF now, was
        <5> QED  BY <5>5 DEF Damaged, was
      <4> QED  BY <4>1, <4>4 DEF DamagedVssbs, Damaged
    <3> QED  BY <3>8
  <2> QED  BY <2>1, <2>2
<1>2. ScrubInv /\ [Next]_vars => [Safe]_vars
  BY <1>1
<1> QED  BY <1>2, ScrubInvariance, PTL DEF Spec, ScrubNeverWorsens

-----------------------------------------------------------------------------
(* The layout and the arithmetic of a repair.                              *)

(* A base vector is in a sum when it is in an odd number of summands.      *)
LEMMA InSum ==
  ASSUME NEW content, NEW over, IsFiniteSet(over), NEW a
  PROVE  a \in Xor(content, over) <=> Cardinality({i \in over : a \in content[i]}) % 2 = 1
<1>1. CASE \E i \in over : a \in content[i]
  BY <1>1 DEF Xor
<1>2. CASE \A i \in over : a \notin content[i]
  <2>1. {i \in over : a \in content[i]} = {}
    BY <1>2
  <2>2. Cardinality({i \in over : a \in content[i]}) = 0
    BY <2>1, FS_EmptySet
  <2>3. 0 % 2 # 1
    BY SMT
  <2> QED  BY <1>2, <2>2, <2>3 DEF Xor
<1> QED  BY <1>1, <1>2

LEMMA SameSum ==
  ASSUME NEW content, NEW same, NEW over, IsFiniteSet(over), \A i \in over : content[i] = same[i],
         NEW a
  PROVE  a \in Xor(content, over) <=> a \in Xor(same, over)
<1>1. {i \in over : a \in content[i]} = {i \in over : a \in same[i]}
  OBVIOUS
<1>2. a \in Xor(content, over) <=> Cardinality({i \in over : a \in content[i]}) % 2 = 1
  BY InSum
<1>3. a \in Xor(same, over) <=> Cardinality({i \in over : a \in same[i]}) % 2 = 1
  BY InSum
<1> QED  BY <1>1, <1>2, <1>3

(* One more summand.                                                       *)
LEMMA OneMoreSummand ==
  ASSUME NEW content, NEW over, IsFiniteSet(over), NEW j, j \notin over, NEW a
  PROVE  a \in Xor(content, over \cup {j}) <=> ~(a \in Xor(content, over) <=> a \in content[j])
<1> DEFINE has == {i \in over : a \in content[i]}
           more == {i \in over \cup {j} : a \in content[i]}
<1>1. IsFiniteSet(has) /\ IsFiniteSet(over \cup {j})
  BY FS_Subset, FS_AddElement
<1>2. Cardinality(has) \in Nat
  BY <1>1, FS_CardinalityType
<1>3. CASE a \in content[j]
  <2>1. more = has \cup {j} /\ j \notin has
    BY <1>3
  <2>2. Cardinality(more) = Cardinality(has) + 1
    BY <1>1, <2>1, FS_AddElement
  <2> HIDE DEF has, more
  <2>3. Cardinality(more) % 2 = 1 <=> Cardinality(has) % 2 # 1
    BY <1>2, <2>2, SMT
  <2>4. /\ a \in Xor(content, over) <=> Cardinality(has) % 2 = 1
        /\ a \in Xor(content, over \cup {j}) <=> Cardinality(more) % 2 = 1
    BY <1>1, InSum DEF has, more
  <2> QED  BY <1>3, <2>3, <2>4
<1>4. CASE a \notin content[j]
  <2>1. more = has
    BY <1>4
  <2>2. /\ a \in Xor(content, over) <=> Cardinality(has) % 2 = 1
        /\ a \in Xor(content, over \cup {j}) <=> Cardinality(more) % 2 = 1
    BY <1>1, InSum
  <2> QED  BY <1>4, <2>1, <2>2
<1> QED  BY <1>3, <1>4

LEMMA FiniteDisks == IsFiniteSet(DataDisk) /\ Disk = DataDisk \cup {Parity} /\ Parity \notin DataDisk
<1>1. NumDisks \in Nat \ {0, 1} /\ 0 \in Int /\ NumDisks - 2 \in Int
  BY ConstantsAssumption
<1>2. IsFiniteSet(DataDisk)
  BY <1>1, FS_Interval DEF DataDisk
<1> QED  BY <1>1, <1>2 DEF Disk, DataDisk, Parity

(* write_superblock: the subblocks of every VSSB, the parity's included,   *)
(* have the sum zero.                                                      *)
THEOREM ParityCloses ==
  ASSUME NEW source, NEW c \in Cell
  PROVE  Xor([d \in Disk |-> DiskCells(source, d)[c]], Disk) = Zero
<1> PICK vssb : vssb = [d \in Disk |-> DiskCells(source, d)[c]]
  OBVIOUS
<1> PICK data : data = [d \in DataDisk |-> DataCells(source, d)[c]]
  OBVIOUS
<1>1. \A d \in DataDisk : vssb[d] = data[d]
  BY FiniteDisks DEF DiskCells
<1>2. vssb[Parity] = Xor(data, DataDisk)
  BY FiniteDisks DEF DiskCells, ParityCells
<1>3. Xor(vssb, DataDisk) = Xor(data, DataDisk)
  <2>1. \A a : a \in Xor(vssb, DataDisk) <=> a \in Xor(data, DataDisk)
    BY <1>1, SameSum, FiniteDisks
  <2> QED  BY <2>1
<1>4. \A a : a \notin Xor(vssb, Disk)
  BY <1>2, <1>3, OneMoreSummand, FiniteDisks
<1> QED  BY <1>4 DEF Zero

(* What scrub computes for a lost subblock, from all that was stored with  *)
(* it, is that subblock in no case but the one in which the VSSB's parity  *)
(* is zero: scrub leaves the parity disk out of the sum.                   *)
THEOREM RepairNeedsZeroParity ==
  ASSUME NEW vssb, Xor(vssb, Disk) = Zero, NEW d \in DataDisk,
         \A e \in Disk \ {d} : scrub.buffer[e].cell[scrub.cell] = vssb[e]
  PROVE  Corrected(d) = vssb[d] <=> vssb[Parity] = Zero
<1> PICK read : read = [e \in Disk |-> scrub.buffer[e].cell[scrub.cell]]
  OBVIOUS
<1> DEFINE others == DataDisk \ {d}
<1>0. /\ IsFiniteSet(others) /\ d \notin others /\ DataDisk = others \cup {d}
      /\ IsFiniteSet(DataDisk) /\ Parity \notin DataDisk /\ Disk = DataDisk \cup {Parity}
  BY FiniteDisks, FS_Difference
<1> HIDE DEF others
<1>1. Corrected(d) = Xor(read, others)
  BY DEF Corrected, others
<1>2. \A a : a \in Corrected(d) <=> a \in Xor(vssb, others)
  <2>1. \A e \in others : read[e] = vssb[e]
    BY <1>0
  <2> QED  BY <1>0, <1>1, <2>1, SameSum
<1>3. ASSUME NEW a
      PROVE  /\ a \in Xor(vssb, DataDisk) <=> ~(a \in Xor(vssb, others) <=> a \in vssb[d])
             /\ a \in Xor(vssb, Disk) <=> ~(a \in Xor(vssb, DataDisk) <=> a \in vssb[Parity])
             /\ a \notin Xor(vssb, Disk)
  BY <1>0, OneMoreSummand DEF Zero
<1>4. \A a : (a \in Corrected(d) <=> a \in vssb[d]) <=> a \notin vssb[Parity]
  BY <1>2, <1>3
<1> QED  BY <1>4 DEF Zero

LEMMA SmallRemainder == ASSUME NEW n \in Nat, NEW k \in Nat, k < n PROVE k % n = k
BY SMT

(* write_superblock: every subblock of the source is on some data disk, as *)
(* the data that is doubled is cut only behind its first copy.             *)
THEOREM NothingCutOff ==
  ASSUME NEW f \in File, NEW i \in DOMAIN Sources[f], NEW j \in DOMAIN Sources[f][i]
  PROVE  \E d \in DataDisk, c \in Cell : DataCells(Sources[f][i], d)[c] = Sources[f][i][j]
<1> PICK source : source = Sources[f][i]
  OBVIOUS
<1>1. /\ Len(source) \in Nat /\ Len(source) <= Cells * (NumDisks - 1) /\ j \in 1..Len(source)
      /\ Cells \in Nat \ {0} /\ NumDisks \in Nat \ {0, 1}
  <2>1. Len(source) \in 1..Cells * (NumDisks - 1)
    BY ConstantsAssumption
  <2> QED  BY <2>1, ConstantsAssumption
<1>2. PICK k \in Nat : k = j - 1
  BY <1>1
<1>3. k < Cells * (NumDisks - 1) /\ k < Len(source) /\ k + 1 = j
  BY <1>1, <1>2
<1>4. PICK d, c : d = k \div Cells /\ c = k % Cells
  OBVIOUS
<1>5. d \in Nat /\ c \in 0..Cells-1 /\ k = d * Cells + c
  BY <1>1, <1>4, SMT
<1>6. d <= NumDisks - 2
  <2>1. SUFFICES ASSUME d >= NumDisks - 1 PROVE FALSE
    BY <1>1, <1>5
  <2>2. PICK m \in Nat : d = (NumDisks - 1) + m
    BY <1>1, <1>5, <2>1
  <2>3. d * Cells = Cells * (NumDisks - 1) + m * Cells /\ m * Cells \in Nat
    BY <1>1, <2>2, SMT
  <2> QED  BY <1>1, <1>3, <1>5, <2>3, SMT
<1>7. d \in DataDisk /\ c \in Cell
  BY <1>1, <1>5, <1>6 DEF DataDisk, Cell
<1>8. DataCells(source, d)[c] = source[(k % Len(source)) + 1]
  <2>1. k \in 0..Cells*(NumDisks-1)-1
    BY <1>5, <1>7, PlaceInData
  <2> QED  BY <1>5, <1>7, <2>1 DEF DataCells, Padded
<1>9. k % Len(source) = k
  BY <1>1, <1>3, SmallRemainder
<1> QED  BY <1>3, <1>7, <1>8, <1>9

-----------------------------------------------------------------------------
(* The scrub goes forward.                                                 *)

(* Nearer to the end of the file: superblocks are done, then VSSBs of the  *)
(* first of them, then disks are read for it.                              *)
Further ==
  \/ Len(scrub'.superblocks) < Len(scrub.superblocks)
  \/ /\ scrub'.superblocks = scrub.superblocks
     /\ \/ scrub'.cell > scrub.cell
        \/ /\ scrub'.cell = scrub.cell
           /\ DOMAIN scrub.buffer \subseteq DOMAIN scrub'.buffer /\ DOMAIN scrub'.buffer \subseteq Disk
           /\ DOMAIN scrub.buffer # DOMAIN scrub'.buffer
(* Nearer to the end of the scrub: files are done.                         *)
Nearer ==
  \/ scrub'.pc \in {"idle", "done"}
  \/ scrub'.todo \subseteq scrub.todo /\ scrub'.todo # scrub.todo
  \/ /\ scrub'.todo = scrub.todo
     /\ scrub.pc = "superblock"
     /\ \/ scrub'.pc = "file"
        \/ scrub'.pc = "superblock" /\ Further

Advances == IF ScrubStep THEN Nearer ELSE scrub' = scrub

(* While a scrub runs, every step of it ends it or takes it nearer to its  *)
(* end, in an order without infinite descent: File, Disk and Cell are      *)
(* finite, and a file's superblocks a sequence.  All other steps leave it  *)
(* where it is: no command and no error, in any number, sets a scrub back. *)
THEOREM ScrubAdvances == Spec => [][scrub.pc \in {"file", "superblock"} => Advances]_vars
<1>1. [Next]_vars /\ scrub.pc \in {"file", "superblock"} /\ ~ScrubStep => scrub' = scrub
  BY DEF Next, vars, StartStore, WriteSubblock, RecordStored, StoreFails, Decay, ScrubBegin
<1>2. Inv /\ ScrubStep => Nearer
  <2> SUFFICES ASSUME Inv, ScrubStep PROVE Nearer
    OBVIOUS
  <2>1. DOMAIN scrub = Fields /\ ScrubOK
    BY NoScrubIs DEF Inv, ScrubOK
  <2>2. CASE NextFile
    <3>1. PICK f \in scrub.todo :
            scrub' = [scrub EXCEPT !.pc = "superblock", !.file = f, !.todo = @ \ {f},
                                   !.superblocks = listed[f], !.fileDamaged = FALSE]
      BY <2>2 DEF NextFile
    <3>2. scrub'.todo = scrub.todo \ {f}
      BY <2>1, <3>1 DEF Fields
    <3> QED  BY <3>2 DEF Nearer
  <2>3. CASE ReadBlock
    <3>1. PICK read : scrub' = [scrub EXCEPT !.buffer = read]
      BY <2>3, Reads
    <3>2. /\ scrub'.pc = scrub.pc /\ scrub'.todo = scrub.todo /\ scrub'.cell = scrub.cell
          /\ scrub'.superblocks = scrub.superblocks
      BY <2>1, <3>1 DEF Fields
    <3>3. /\ scrub.pc = "superblock" /\ DOMAIN scrub'.buffer \subseteq Disk
          /\ \E n \in Disk : /\ n \notin DOMAIN scrub.buffer
                             /\ DOMAIN scrub'.buffer = DOMAIN scrub.buffer \cup {n}
      BY <2>3, Reads DEF InSuperblock
    <3> QED  BY <3>2, <3>3 DEF Nearer, Further
  <2>4. CASE Round
    <3>1. /\ GoesOn /\ scrub'.pc = scrub.pc /\ scrub'.todo = scrub.todo /\ scrub.pc = "superblock"
          /\ scrub.superblocks # <<>>
      BY <2>4, Rounds DEF KeepsOn, Examining, InSuperblock
    <3>2. scrub.cell \in Nat /\ scrub.superblocks \in Seq(Superblock)
      BY <2>1, Bounds DEF ScrubOK
    <3>3. Len(Tail(scrub.superblocks)) < Len(scrub.superblocks)
      BY <3>1, <3>2
    <3>4. Further
      <4>1. CASE scrub'.cell = scrub.cell + 1 /\ scrub'.superblocks = scrub.superblocks
        <5>1. scrub'.cell > scrub.cell
          BY <3>2, <4>1
        <5> QED  BY <4>1, <5>1 DEF Further
      <4>2. CASE scrub'.superblocks = Tail(scrub.superblocks)
        BY <3>3, <4>2 DEF Further
      <4> QED  BY <3>1, <4>1, <4>2 DEF GoesOn
    <3> QED  BY <3>1, <3>4 DEF Nearer
  <2>5. CASE EndFile
    <3>1. scrub.pc = "superblock" /\ scrub'.pc = "file" /\ scrub'.todo = scrub.todo
      BY <2>1, <2>5 DEF EndFile, Fields
    <3> QED  BY <3>1 DEF Nearer
  <2>6. CASE Report \/ ScrubFails
    <3>1. scrub'.pc \in {"idle", "done"}
      BY <2>1, <2>6, NoScrubIs DEF Report, ScrubFails, Fields
    <3> QED  BY <3>1 DEF Nearer
  <2> QED  BY <2>2, <2>3, <2>4, <2>5, <2>6 DEF ScrubStep, Round
<1>3. Inv /\ [Next]_vars => [scrub.pc \in {"file", "superblock"} => Advances]_vars
  BY <1>1, <1>2 DEF Advances
<1> QED  BY <1>3, Invariance, PTL DEF Spec
=============================================================================
