-------------------------- MODULE SuperblocksProofs --------------------------
(***************************************************************************)
(* What holds of the layout and the scrub for pools with any number of     *)
(* disks and superblocks, whatever is stored, spoiled and scrubbed.        *)
(***************************************************************************)
EXTENDS Superblocks, FiniteSetTheorems, SequenceTheorems, TLAPS

-----------------------------------------------------------------------------
(* The inductive invariant.                                                *)

IsImage(im) == DOMAIN im = Superblock /\ \A s \in Superblock : IsBlocks(im[s])

Shapes ==
  /\ IsImage(image) /\ IsImage(first)
  /\ listed \in [File -> Seq(Superblock)]
  /\ \A f, g \in File : f # g => Owned(f) \cap Owned(g) = {}
  /\ stores \in Nat

(* What a command is about to record belongs to no file, or to the one it  *)
(* replaces.                                                               *)
WriterOK ==
  /\ writer \in WriterType
  /\ Storing => \A f \in File \ {writer.replaces} : \A i \in DOMAIN writer.ids :
                  writer.ids[i] \notin Owned(f)

ScrubOK ==
  /\ DOMAIN scrub = DOMAIN NoScrub
  /\ scrub.pc \in {"idle", "file", "superblock", "done"}
  /\ scrub.todo \subseteq File
  /\ scrub.superblocks \in Seq(Superblock)
  /\ scrub.cell \in Cell
  /\ \E d \in 0..NumDisks : DOMAIN scrub.buffer = 0..d-1
  /\ scrub.pc # "superblock" => scrub.superblocks = <<>>
  /\ scrub.superblocks = <<>> => scrub.buffer = <<>>

(* A subblock that may differ from what it was at first.                   *)
Excused(s, d, c) == <<s, d, c>> \in hit \/ d \in Mismatched(first[s], c) \ {Parity}
AsAtFirst(block, s, d, c) ==
  block.cell[c] = first[s][d].cell[c] /\ block.hash[c] = first[s][d].hash[c]

ImageOK == \A s \in Superblock, d \in Disk, c \in Cell :
  Excused(s, d, c) \/ AsAtFirst(image[s][d], s, d, c)

(* What the scrub has read, however long ago.                              *)
BufferOK == \A d \in DOMAIN scrub.buffer, c \in Cell :
  LET s == Head(scrub.superblocks)
  IN  Excused(s, d, c) \/ AsAtFirst(scrub.buffer[d], s, d, c)

Inv == Shapes /\ WriterOK /\ ScrubOK /\ ImageOK /\ BufferOK

-----------------------------------------------------------------------------
(* Writes to a disk.                                                       *)

LEMMA Bounds ==
  /\ NumDisks \in Nat /\ Cells \in Nat /\ Parity \in Disk /\ 0 \in Cell /\ 0 \in Disk
  /\ Disk = 0..NumDisks-1 /\ Cell = 0..Cells-1
BY ConstantsAssumption DEF Parity, Disk, Cell

WithCell(im, s, d, c, content) == [im EXCEPT ![s][d].cell[c] = content]
WithHash(im, s, d, c, value) == [im EXCEPT ![s][d].hash[c] = value]

(* Writing a subblock changes one subblock.                                *)
LEMMA PutCell ==
  ASSUME NEW im, IsImage(im), NEW s, NEW d, NEW c, NEW content,
         NEW new, new = WithCell(im, s, d, c, content)
  PROVE  /\ IsImage(new)
         /\ \A t \in Superblock, e \in Disk, k \in Cell :
              /\ new[t][e].hash[k] = im[t][e].hash[k]
              /\ <<t, e, k>> # <<s, d, c>> => new[t][e].cell[k] = im[t][e].cell[k]
<1> USE DEF WithCell
<1>1. DOMAIN new = Superblock
  BY DEF IsImage
<1>2. ASSUME NEW t \in Superblock, NEW e \in Disk
      PROVE  /\ DOMAIN new[t] = Disk
             /\ DOMAIN new[t][e] = {"cell", "hash"}
             /\ DOMAIN new[t][e].cell = Cell /\ DOMAIN new[t][e].hash = Cell
             /\ new[t][e].hash = im[t][e].hash
             /\ \A k \in Cell : <<t, e, k>> # <<s, d, c>> => new[t][e].cell[k] = im[t][e].cell[k]
  <2>1. /\ DOMAIN im = Superblock /\ DOMAIN im[t] = Disk /\ DOMAIN im[t][e] = {"cell", "hash"}
        /\ DOMAIN im[t][e].cell = Cell /\ DOMAIN im[t][e].hash = Cell
    BY DEF IsImage, IsBlocks
  <2>2. CASE t # s
    <3>1. new[t] = im[t]
      BY <2>1, <2>2
    <3> QED  BY <2>1, <3>1
  <2>3. CASE t = s /\ e # d
    <3>1. new[t] = [im[t] EXCEPT ![d].cell[c] = content]
      BY <2>1, <2>3
    <3>2. new[t][e] = im[t][e] /\ DOMAIN new[t] = Disk
      BY <2>1, <2>3, <3>1
    <3> QED  BY <2>1, <2>3, <3>2
  <2>4. CASE t = s /\ e = d
    <3>1. new[t] = [im[t] EXCEPT ![d].cell[c] = content]
      BY <2>1, <2>4
    <3>2. new[t][e] = [im[t][e] EXCEPT !.cell[c] = content] /\ DOMAIN new[t] = Disk
      BY <2>1, <2>4, <3>1
    <3>3. /\ DOMAIN new[t][e] = {"cell", "hash"} /\ new[t][e].hash = im[t][e].hash
          /\ new[t][e].cell = [im[t][e].cell EXCEPT ![c] = content]
      BY <2>1, <3>2
    <3> QED  BY <2>1, <2>4, <3>2, <3>3
  <2> QED  BY <2>2, <2>3, <2>4
<1>3. IsImage(new)
  <2>1. 0 \in Disk
    BY Bounds
  <2> QED  BY <1>1, <1>2, <2>1 DEF IsImage, IsBlocks
<1> QED  BY <1>2, <1>3

(* Losing a hash changes one hash.                                         *)
LEMMA PutHash ==
  ASSUME NEW im, IsImage(im), NEW s, NEW d, NEW c, NEW value,
         NEW new, new = WithHash(im, s, d, c, value)
  PROVE  /\ IsImage(new)
         /\ \A t \in Superblock, e \in Disk, k \in Cell :
              /\ new[t][e].cell[k] = im[t][e].cell[k]
              /\ <<t, e, k>> # <<s, d, c>> => new[t][e].hash[k] = im[t][e].hash[k]
<1> USE DEF WithHash
<1>1. DOMAIN new = Superblock
  BY DEF IsImage
<1>2. ASSUME NEW t \in Superblock, NEW e \in Disk
      PROVE  /\ DOMAIN new[t] = Disk
             /\ DOMAIN new[t][e] = {"cell", "hash"}
             /\ DOMAIN new[t][e].cell = Cell /\ DOMAIN new[t][e].hash = Cell
             /\ new[t][e].cell = im[t][e].cell
             /\ \A k \in Cell : <<t, e, k>> # <<s, d, c>> => new[t][e].hash[k] = im[t][e].hash[k]
  <2>1. /\ DOMAIN im = Superblock /\ DOMAIN im[t] = Disk /\ DOMAIN im[t][e] = {"cell", "hash"}
        /\ DOMAIN im[t][e].cell = Cell /\ DOMAIN im[t][e].hash = Cell
    BY DEF IsImage, IsBlocks
  <2>2. CASE t # s
    <3>1. new[t] = im[t]
      BY <2>1, <2>2
    <3> QED  BY <2>1, <3>1
  <2>3. CASE t = s /\ e # d
    <3>1. new[t] = [im[t] EXCEPT ![d].hash[c] = value]
      BY <2>1, <2>3
    <3>2. new[t][e] = im[t][e] /\ DOMAIN new[t] = Disk
      BY <2>1, <2>3, <3>1
    <3> QED  BY <2>1, <2>3, <3>2
  <2>4. CASE t = s /\ e = d
    <3>1. new[t] = [im[t] EXCEPT ![d].hash[c] = value]
      BY <2>1, <2>4
    <3>2. new[t][e] = [im[t][e] EXCEPT !.hash[c] = value] /\ DOMAIN new[t] = Disk
      BY <2>1, <2>4, <3>1
    <3>3. /\ DOMAIN new[t][e] = {"cell", "hash"} /\ new[t][e].cell = im[t][e].cell
          /\ new[t][e].hash = [im[t][e].hash EXCEPT ![c] = value]
      BY <2>1, <3>2
    <3> QED  BY <2>1, <2>4, <3>2, <3>3
  <2> QED  BY <2>2, <2>3, <2>4
<1>3. IsImage(new)
  <2>1. 0 \in Disk
    BY Bounds
  <2> QED  BY <1>1, <1>2, <2>1 DEF IsImage, IsBlocks
<1> QED  BY <1>2, <1>3

(* Nothing that is excused is ever held to again.                          *)
LEMMA StaysExcused ==
  ASSUME UNCHANGED first, hit \subseteq hit'
  PROVE  /\ \A s, d, c : Excused(s, d, c) => Excused(s, d, c)'
         /\ \A block, s, d, c : AsAtFirst(block, s, d, c) => AsAtFirst(block, s, d, c)'
BY DEF Excused, AsAtFirst, Mismatched, Hash

(* The buffer stays what it is while the scrub makes no step.              *)
LEMMA BufferStays ==
  ASSUME BufferOK, UNCHANGED <<first, scrub>>, hit \subseteq hit' PROVE BufferOK'
BY StaysExcused DEF BufferOK

LEMMA ImageStays ==
  ASSUME Shapes, ImageOK, UNCHANGED <<first, image>>, hit \subseteq hit'
  PROVE  IsImage(image') /\ IsImage(first') /\ ImageOK'
BY StaysExcused DEF ImageOK, Shapes

(* A write to a subblock that is excused.                                  *)
LEMMA CellWritten ==
  ASSUME Shapes, ImageOK, UNCHANGED first, hit \subseteq hit',
         NEW s, NEW d, NEW c, NEW content, Put(s, d, c, content), Excused(s, d, c)'
  PROVE  IsImage(image') /\ IsImage(first') /\ ImageOK'
<1>1. IsImage(image) /\ IsImage(first') /\ image' = [image EXCEPT ![s][d].cell[c] = content]
  BY DEF Shapes, Put
<1>2. /\ IsImage(image')
      /\ \A t \in Superblock, e \in Disk, k \in Cell :
           /\ image'[t][e].hash[k] = image[t][e].hash[k]
           /\ <<t, e, k>> # <<s, d, c>> => image'[t][e].cell[k] = image[t][e].cell[k]
  <2>1. image' = WithCell(image, s, d, c, content)
    BY <1>1 DEF WithCell
  <2>2. IsImage(image)
    BY <1>1
  <2> QED  BY <2>1, <2>2, PutCell
<1>3. ASSUME NEW t \in Superblock, NEW e \in Disk, NEW k \in Cell
      PROVE  Excused(t, e, k)' \/ AsAtFirst(image[t][e], t, e, k)'
  <2>1. CASE <<t, e, k>> = <<s, d, c>>
    BY <2>1
  <2>2. CASE <<t, e, k>> # <<s, d, c>>
    <3>1. Excused(t, e, k) \/ AsAtFirst(image[t][e], t, e, k)
      BY DEF ImageOK
    <3>2. CASE Excused(t, e, k)
      BY <3>2, StaysExcused
    <3>3. CASE AsAtFirst(image[t][e], t, e, k)
      BY <1>2, <2>2, <3>3 DEF AsAtFirst
    <3> QED  BY <3>1, <3>2, <3>3
  <2> QED  BY <2>1, <2>2
<1> QED  BY <1>1, <1>2, <1>3 DEF ImageOK

(* So does the loss of a hash.                                             *)
LEMMA HashLost ==
  ASSUME Shapes, ImageOK, UNCHANGED first, hit \subseteq hit',
         NEW s, NEW d, NEW c, NEW value,
         image' = WithHash(image, s, d, c, value), Excused(s, d, c)'
  PROVE  IsImage(image') /\ IsImage(first') /\ ImageOK'
<1>1. IsImage(image) /\ IsImage(first')
  BY DEF Shapes
<1>2. /\ IsImage(image')
      /\ \A t \in Superblock, e \in Disk, k \in Cell :
           /\ image'[t][e].cell[k] = image[t][e].cell[k]
           /\ <<t, e, k>> # <<s, d, c>> => image'[t][e].hash[k] = image[t][e].hash[k]
  BY <1>1, PutHash
<1>3. ASSUME NEW t \in Superblock, NEW e \in Disk, NEW k \in Cell
      PROVE  Excused(t, e, k)' \/ AsAtFirst(image[t][e], t, e, k)'
  <2>1. CASE <<t, e, k>> = <<s, d, c>>
    BY <2>1
  <2>2. CASE <<t, e, k>> # <<s, d, c>>
    <3>1. Excused(t, e, k) \/ AsAtFirst(image[t][e], t, e, k)
      BY DEF ImageOK
    <3>2. CASE Excused(t, e, k)
      BY <3>2, StaysExcused
    <3>3. CASE AsAtFirst(image[t][e], t, e, k)
      BY <1>2, <2>2, <3>3 DEF AsAtFirst
    <3> QED  BY <3>1, <3>2, <3>3
  <2> QED  BY <2>1, <2>2
<1> QED  BY <1>1, <1>2, <1>3 DEF ImageOK

(* What the steps of others leave alone.                                   *)
LEMMA OwnedStays == listed' = listed => \A f : Owned(f)' = Owned(f)
BY DEF Owned

LEMMA ShapesStay ==
  ASSUME Shapes, UNCHANGED listed, stores' \in Nat, IsImage(image'), IsImage(first') PROVE Shapes'
BY OwnedStays DEF Shapes

LEMMA WriterStays ==
  ASSUME WriterOK, UNCHANGED listed, writer' \in WriterType, writer'.file = writer.file,
         writer'.ids = writer.ids, writer'.replaces = writer.replaces
  PROVE  WriterOK'
BY OwnedStays DEF WriterOK, Storing

LEMMA ScrubStays == ScrubOK /\ scrub' = scrub => ScrubOK'
BY DEF ScrubOK

-----------------------------------------------------------------------------
(* The command that stores files, and decay.                               *)

(* Superblocks are picked that belong to no other file.                    *)
LEMMA StartKeeps == ASSUME Inv, StartStore PROVE Inv'
<1>1. /\ stores < Len(Sources) /\ stores' = stores + 1
      /\ UNCHANGED <<image, listed, scrub, first, hit>>
      /\ Shapes /\ WriterOK /\ ScrubOK /\ ImageOK /\ BufferOK
  BY DEF StartStore, history, Inv
<1>2. stores' \in File /\ stores' \in Nat
  BY <1>1, ConstantsAssumption DEF Shapes
<1>3. PICK old \in {0} \cup File : \E ids \in Selections(stores', old) :
        writer' = [NoWriter EXCEPT !.file = stores', !.ids = ids, !.replaces = old]
  BY DEF StartStore
<1> PICK ids \in Selections(stores', old) :
      writer' = [NoWriter EXCEPT !.file = stores', !.ids = ids, !.replaces = old]
  BY <1>3
<1>4. /\ ids \in [DOMAIN Sources[stores'] -> Superblock]
      /\ \A i \in DOMAIN ids : ids[i] \in FreeFor(old)
  BY DEF Selections, FreeFor
<1>5. ids \in Seq(Superblock)
  <2>1. Len(Sources[stores']) \in Nat /\ DOMAIN Sources[stores'] = 1..Len(Sources[stores'])
    BY <1>2, ConstantsAssumption
  <2> QED  BY <1>4, <2>1
<1>6. writer'.file = stores' /\ writer'.ids = ids /\ writer'.replaces = old
  BY DEF NoWriter
<1>7. WriterOK'
  <2>1. writer' \in WriterType
    <3>1. 0 \in Disk /\ 0 \in 0..Cells /\ 1 \in Nat
      BY Bounds
    <3> QED  BY <1>2, <1>5, <3>1 DEF NoWriter, WriterType
  <2>2. \A f \in File \ {old} : \A i \in DOMAIN ids : ids[i] \notin Owned(f)
    BY <1>4 DEF FreeFor
  <2>3. \A f : Owned(f)' = Owned(f)
    BY <1>1 DEF Owned
  <2> QED  BY <1>6, <2>1, <2>2, <2>3 DEF WriterOK
<1>8. ImageOK' /\ IsImage(image') /\ IsImage(first')
  BY <1>1, ImageStays
<1>9. Shapes' /\ ScrubOK' /\ BufferOK'
  BY <1>1, <1>2, <1>8, BufferStays, ScrubStays, ShapesStay
<1> QED  BY <1>7, <1>8, <1>9 DEF Inv

(* A command that has written a subblock has hit it.                       *)
LEMMA WriteKeeps == ASSUME Inv, WriteSubblock PROVE Inv'
<1>0. PICK s, d, c, content : Put(s, d, c, content) /\ hit' = hit \cup {<<s, d, c>>}
  BY DEF WriteSubblock
<1>1. /\ writer' = Onward(writer) /\ ~AllStored
      /\ Storing /\ UNCHANGED <<stores, listed, scrub, first>>
      /\ Shapes /\ WriterOK /\ ScrubOK /\ ImageOK /\ BufferOK
  BY DEF WriteSubblock, Inv
<1>2. Excused(s, d, c)'
  BY <1>0 DEF Excused
<1>3. IsImage(image') /\ IsImage(first') /\ ImageOK'
  BY <1>0, <1>1, <1>2, CellWritten
<1>4. /\ writer' \in WriterType /\ writer'.file = writer.file /\ writer'.ids = writer.ids
      /\ writer'.replaces = writer.replaces
  <2>1. writer \in WriterType
    BY <1>1 DEF WriterOK
  <2>2. CASE writer.item < Cells
    <3>1. writer' = [writer EXCEPT !.item = @ + 1]
      BY <1>1, <2>2 DEF Onward
    <3>2. writer.item + 1 \in 0..Cells
      BY <2>1, <2>2, Bounds DEF WriterType
    <3> QED  BY <2>1, <3>1, <3>2 DEF WriterType
  <2>3. CASE ~(writer.item < Cells) /\ writer.disk < Parity
    <3>1. writer' = [writer EXCEPT !.item = 0, !.disk = @ + 1]
      BY <1>1, <2>3 DEF Onward
    <3>2. writer.disk + 1 \in Disk /\ 0 \in 0..Cells
      BY <2>1, <2>3, Bounds DEF WriterType, Parity
    <3> QED  BY <2>1, <3>1, <3>2 DEF WriterType
  <2>4. CASE ~(writer.item < Cells) /\ ~(writer.disk < Parity)
    <3>1. writer' = [writer EXCEPT !.item = 0, !.disk = 0, !.chunk = @ + 1]
      BY <1>1, <2>4 DEF Onward
    <3>2. 0 \in Disk /\ 0 \in 0..Cells /\ writer.chunk + 1 \in Nat
      BY <2>1, Bounds DEF WriterType
    <3> QED  BY <2>1, <3>1, <3>2 DEF WriterType
  <2> QED  BY <2>2, <2>3, <2>4
<1>5. WriterOK'
  BY <1>1, <1>4, WriterStays
<1>6. Shapes' /\ ScrubOK' /\ BufferOK'
  <2>1. stores' \in Nat
    BY <1>1 DEF Shapes
  <2> QED  BY <1>0, <1>1, <1>3, <2>1, BufferStays, ScrubStays, ShapesStay
<1> QED  BY <1>3, <1>5, <1>6 DEF Inv

(* No writer is about to record anything.                                  *)
LEMMA NoWriterOK == writer' = NoWriter => WriterOK'
<1>1. 0 \in Disk /\ 0 \in 0..Cells /\ 1 \in Nat /\ <<>> \in Seq(Superblock)
  BY Bounds
<1> QED  BY <1>1 DEF NoWriter, WriterOK, WriterType, Storing

(* What is recorded belonged to no file that keeps its superblocks.        *)
LEMMA RecordKeeps == ASSUME Inv, RecordStored PROVE Inv'
<1>1. /\ listed' = [f \in File |-> IF f = writer.file THEN writer.ids
                                   ELSE IF f = writer.replaces THEN <<>> ELSE listed[f]]
      /\ writer' = NoWriter /\ Storing /\ UNCHANGED <<stores, image, scrub, first, hit>>
      /\ Shapes /\ WriterOK /\ ScrubOK /\ ImageOK /\ BufferOK
  BY DEF RecordStored, Inv
<1>2. writer.ids \in Seq(Superblock) /\ <<>> \in Seq(Superblock)
  BY <1>1 DEF WriterOK, WriterType
<1>3. listed' \in [File -> Seq(Superblock)]
  BY <1>1, <1>2 DEF Shapes
<1>4. ASSUME NEW f \in File, NEW g \in File, f # g PROVE Owned(f)' \cap Owned(g)' = {}
  <2> DEFINE taken == {writer.ids[i] : i \in DOMAIN writer.ids}
  <2>1. ASSUME NEW h \in File
        PROVE  Owned(h)' = IF h = writer.file THEN taken
                           ELSE IF h = writer.replaces THEN {} ELSE Owned(h)
    <3>1. DOMAIN <<>> = {}
      OBVIOUS
    <3> QED  BY <1>1, <3>1 DEF Owned
  <2>2. \A h \in File \ {writer.replaces} : taken \cap Owned(h) = {}
    BY <1>1 DEF WriterOK
  <2>3. Owned(f) \cap Owned(g) = {}
    BY <1>1, <1>4 DEF Shapes
  <2> HIDE DEF taken
  <2> QED  BY <1>4, <2>1, <2>2, <2>3
<1>5. Shapes'
  BY <1>1, <1>3, <1>4 DEF Shapes
<1>6. ScrubOK' /\ ImageOK' /\ BufferOK' /\ WriterOK'
  BY <1>1, BufferStays, ImageStays, NoWriterOK, ScrubStays
<1> QED  BY <1>5, <1>6 DEF Inv

(* A subblock that a failed write has torn was hit.                        *)
LEMMA StoreFailsKeeps == ASSUME Inv, StoreFails PROVE Inv'
<1>1. /\ writer' = NoWriter /\ UNCHANGED <<stores, listed, scrub>>
      /\ Shapes /\ ScrubOK /\ ImageOK /\ BufferOK
  BY DEF StoreFails, Inv
<1>2. hit \subseteq hit' /\ UNCHANGED first /\ IsImage(image') /\ IsImage(first') /\ ImageOK'
  <2>1. CASE UNCHANGED <<image, history>>
    BY <1>1, <2>1, ImageStays DEF history
  <2>2. CASE ~UNCHANGED <<image, history>>
    <3>1. PICK s, d, c, content : Put(s, d, c, content) /\ hit' = hit \cup {<<s, d, c>>}
      BY <2>2 DEF StoreFails
    <3>2. UNCHANGED first
      BY <2>2 DEF StoreFails
    <3>3. Excused(s, d, c)'
      BY <3>1 DEF Excused
    <3> QED  BY <1>1, <3>1, <3>2, <3>3, CellWritten
  <2> QED  BY <2>1, <2>2
<1>3. Shapes'
  <2>1. stores' \in Nat
    BY <1>1 DEF Shapes
  <2> QED  BY <1>1, <1>2, <2>1, ShapesStay
<1> QED  BY <1>1, <1>2, <1>3, BufferStays, ScrubStays, NoWriterOK DEF Inv

(* A disk spoils what is on it: a hit.                                     *)
LEMMA DecayKeeps == ASSUME Inv, Decay PROVE Inv'
<1>1. /\ UNCHANGED <<listed, stores, writer, scrub, first>>
      /\ Shapes /\ WriterOK /\ ScrubOK /\ ImageOK /\ BufferOK
  BY DEF Decay, Inv
<1>2. PICK s \in Superblock, d \in Disk, c \in Cell :
        /\ \/ Put(s, d, c, Xor(<<image[s][d].cell[c], {Error(decay)}>>, {1, 2}))
           \/ image' = WithHash(image, s, d, c, NoHash)
        /\ hit' = hit \cup {<<s, d, c>>}
  BY DEF Decay, WithHash
<1>3. Excused(s, d, c)'
  BY <1>2 DEF Excused
<1>4. IsImage(image') /\ IsImage(first') /\ ImageOK'
  BY <1>1, <1>2, <1>3, CellWritten, HashLost
<1>5. BufferOK' /\ ScrubOK'
  BY <1>1, <1>2, BufferStays, ScrubStays
<1>6. Shapes'
  <2>1. stores' \in Nat
    BY <1>1 DEF Shapes
  <2> QED  BY <1>1, <1>4, <2>1, ShapesStay
<1>7. WriterOK'
  <2>1. writer' \in WriterType
    BY <1>1 DEF WriterOK
  <2> QED  BY <1>1, <2>1, WriterStays
<1> QED  BY <1>4, <1>5, <1>6, <1>7 DEF Inv

-----------------------------------------------------------------------------
(* The scrub.                                                              *)

Fields == {"pc", "dryRun", "todo", "file", "superblocks", "buffer", "cell", "fileDamaged",
           "damagedFiles", "files", "blocks"}

(* A scrub that has not looked at anything.                                *)
LEMMA NoScrubIs ==
  /\ DOMAIN NoScrub = Fields /\ NoScrub.pc = "idle" /\ NoScrub.todo = {}
  /\ NoScrub.superblocks = <<>> /\ NoScrub.buffer = <<>> /\ NoScrub.cell = 0
BY DEF NoScrub, Fields

(* Nothing read yet.                                                       *)
LEMMA EmptyBuffer ==
  ASSUME NEW buffer, buffer = <<>>
  PROVE  DOMAIN buffer = {} /\ \E d \in 0..NumDisks : DOMAIN buffer = 0..d-1
<1>1. DOMAIN buffer = {} /\ 0 \in 0..NumDisks /\ 0..0-1 = {}
  BY Bounds
<1> QED  BY <1>1

(* A scrub between two superblocks.                                        *)
LEMMA NothingRead ==
  ASSUME DOMAIN scrub' = Fields, scrub'.pc \in {"idle", "file", "superblock", "done"},
         scrub'.todo \subseteq File, scrub'.superblocks \in Seq(Superblock), scrub'.cell \in Cell,
         scrub'.buffer = <<>>, scrub'.pc # "superblock" => scrub'.superblocks = <<>>
  PROVE  ScrubOK' /\ BufferOK'
<1>1. DOMAIN scrub'.buffer = {} /\ \E d \in 0..NumDisks : DOMAIN scrub'.buffer = 0..d-1
  BY EmptyBuffer
<1> QED  BY <1>1, NoScrubIs DEF ScrubOK, BufferOK

(* The steps of a scrub leave all else alone but the disks.                *)
LEMMA ScrubLeaves ==
  ASSUME Inv, UNCHANGED <<listed, stores, writer, first, hit>>,
         IsImage(image'), ImageOK', ScrubOK', BufferOK'
  PROVE  Inv'
<1>1. stores' \in Nat /\ IsImage(first') /\ writer' \in WriterType
  BY DEF Inv, Shapes, WriterOK
<1> QED  BY <1>1, ShapesStay, WriterStays DEF Inv

LEMMA ScrubReads ==
  ASSUME Inv, UNCHANGED <<listed, stores, writer, first, hit, image>>, ScrubOK', BufferOK'
  PROVE  Inv'
<1>1. IsImage(image') /\ ImageOK'
  BY ImageStays DEF Inv
<1> QED  BY <1>1, ScrubLeaves

(* Beginning, ending, failing without a trace, going to the next file.     *)
LEMMA ScrubBeginKeeps == ASSUME Inv, ScrubBegin PROVE Inv'
<1>1. PICK dryRun \in BOOLEAN :
        scrub' = [NoScrub EXCEPT !.pc = "file", !.dryRun = dryRun,
                                 !.todo = {f \in File : listed[f] # <<>>}]
  BY DEF ScrubBegin
<1>2. /\ DOMAIN scrub' = Fields /\ scrub'.pc = "file" /\ scrub'.todo \subseteq File
      /\ scrub'.superblocks = <<>> /\ scrub'.buffer = <<>> /\ scrub'.cell = 0
  BY <1>1, NoScrubIs DEF Fields
<1>3. <<>> \in Seq(Superblock) /\ 0 \in Cell
  BY Bounds
<1>4. ScrubOK' /\ BufferOK'
  BY <1>2, <1>3, NothingRead
<1> QED  BY <1>4, ScrubReads DEF ScrubBegin

LEMMA NextFileKeeps == ASSUME Inv, NextFile PROVE Inv'
<1>1. PICK f \in scrub.todo :
        scrub' = [scrub EXCEPT !.pc = "superblock", !.file = f, !.todo = @ \ {f},
                               !.superblocks = listed[f], !.fileDamaged = FALSE]
  BY DEF NextFile
<1>2. ScrubOK /\ scrub.pc = "file" /\ DOMAIN scrub = Fields
  BY NoScrubIs DEF NextFile, Inv, ScrubOK
<1>3. f \in File /\ listed[f] \in Seq(Superblock) /\ scrub.buffer = <<>>
  BY <1>2 DEF ScrubOK, Inv, Shapes
<1>4. /\ DOMAIN scrub' = Fields /\ scrub'.pc = "superblock" /\ scrub'.todo \subseteq scrub.todo
      /\ scrub'.superblocks = listed[f] /\ scrub'.buffer = <<>> /\ scrub'.cell = scrub.cell
  BY <1>1, <1>2, <1>3 DEF Fields
<1>5. ScrubOK' /\ BufferOK'
  BY <1>2, <1>3, <1>4, NothingRead DEF ScrubOK
<1> QED  BY <1>5, ScrubReads DEF NextFile, history

(* The next disk is read as it is now.                                     *)
LEMMA ReadBlockKeeps == ASSUME Inv, ReadBlock PROVE Inv'
<1>0. PICK d, read :
        /\ d = Cardinality(DOMAIN scrub.buffer)
        /\ read = [e \in 0..d |-> IF e < d THEN scrub.buffer[e]
                                   ELSE image[Head(scrub.superblocks)][d]]
  OBVIOUS
<1>1. /\ scrub' = [scrub EXCEPT !.buffer = read]
      /\ InSuperblock /\ d # NumDisks
      /\ UNCHANGED <<image, listed, stores, writer, first, hit>>
      /\ ScrubOK /\ BufferOK /\ ImageOK
  BY <1>0 DEF ReadBlock, AllRead, history, Inv
<1>2. d \in 0..NumDisks-1 /\ DOMAIN scrub.buffer = 0..d-1
  <2>1. PICK n \in 0..NumDisks : DOMAIN scrub.buffer = 0..n-1
    BY <1>1 DEF ScrubOK
  <2>2. n \in Nat /\ 0 \in Int /\ n-1 \in Int
    BY <2>1, Bounds
  <2>3. Cardinality(0..n-1) = n
    BY <2>2, FS_Interval
  <2>4. d = n
    BY <1>0, <2>1, <2>3
  <2> QED  BY <1>1, <2>1, <2>4, Bounds
<1>3. DOMAIN read = 0..d
  BY <1>0
<1>4. \A e \in 0..d : read[e] = IF e < d THEN scrub.buffer[e] ELSE image[Head(scrub.superblocks)][d]
  BY <1>0
<1>5. /\ DOMAIN scrub' = DOMAIN scrub /\ scrub'.pc = scrub.pc /\ scrub'.todo = scrub.todo
      /\ scrub'.superblocks = scrub.superblocks /\ scrub'.cell = scrub.cell /\ scrub'.buffer = read
  BY <1>1, NoScrubIs DEF ScrubOK, Fields
<1>6. ScrubOK'
  <2>1. d+1 \in 0..NumDisks /\ DOMAIN read = 0..(d+1)-1
    BY <1>2, <1>3, Bounds
  <2> QED  BY <1>1, <1>5, <2>1 DEF ScrubOK, InSuperblock
<1>7. BufferOK'
  <2>1. PICK s \in Superblock : s = Head(scrub.superblocks)
    BY <1>1 DEF InSuperblock, ScrubOK
  <2>2. Head(scrub'.superblocks) = s
    BY <1>5, <2>1
  <2>3. ASSUME NEW e \in 0..d, NEW c \in Cell
        PROVE  Excused(s, e, c) \/ AsAtFirst(read[e], s, e, c)
    <3>1. CASE e < d
      <4>1. e \in DOMAIN scrub.buffer /\ read[e] = scrub.buffer[e]
        BY <1>2, <1>4, <2>3, <3>1
      <4> QED  BY <1>1, <2>1, <4>1 DEF BufferOK
    <3>2. CASE ~(e < d)
      <4>1. e = d /\ e \in Disk /\ read[e] = image[s][e]
        BY <1>2, <1>4, <2>1, <2>3, <3>2, Bounds
      <4> QED  BY <1>1, <2>1, <4>1 DEF ImageOK
    <3> QED  BY <3>1, <3>2
  <2>4. ASSUME NEW e \in 0..d, NEW c \in Cell
        PROVE  Excused(s, e, c)' \/ AsAtFirst(read[e], s, e, c)'
    <3>1. Excused(s, e, c) => Excused(s, e, c)'
      BY <1>1, StaysExcused
    <3>2. AsAtFirst(read[e], s, e, c) => AsAtFirst(read[e], s, e, c)'
      BY <1>1 DEF AsAtFirst
    <3> QED  BY <2>3, <2>4, <3>1, <3>2
  <2> QED  BY <1>3, <1>5, <2>2, <2>4 DEF BufferOK
<1> QED  BY <1>1, <1>6, <1>7, ScrubReads

(* The end of a round of the loop over the VSSBs of a superblock.          *)
LEMMA RoundEnds ==
  ASSUME Inv, Examining, UNCHANGED <<first, hit>>, NEW r, scrub' = NextVssb(r),
         DOMAIN r = Fields, r.pc = scrub.pc, r.todo = scrub.todo,
         r.superblocks = scrub.superblocks, r.buffer = scrub.buffer, r.cell = scrub.cell
  PROVE  ScrubOK' /\ BufferOK'
<1>1. /\ ScrubOK /\ BufferOK /\ scrub.pc = "superblock" /\ scrub.superblocks # <<>>
      /\ scrub.cell \in Cell
  BY DEF Inv, Examining, InSuperblock, ScrubOK
<1>2. CASE r.cell < Cells - 1
  <2>1. scrub' = [r EXCEPT !.cell = @ + 1]
    BY <1>2 DEF NextVssb
  <2>2. r.cell + 1 \in Cell
    BY <1>1, <1>2, Bounds
  <2>3. /\ DOMAIN scrub' = Fields /\ scrub'.pc = scrub.pc /\ scrub'.todo = scrub.todo
        /\ scrub'.superblocks = scrub.superblocks /\ scrub'.buffer = scrub.buffer
        /\ scrub'.cell \in Cell
    BY <2>1, <2>2 DEF Fields
  <2>4. ScrubOK'
    BY <1>1, <2>3, NoScrubIs DEF ScrubOK
  <2>5. BufferOK'
    <3> SUFFICES ASSUME NEW d \in DOMAIN scrub.buffer, NEW c \in Cell
                 PROVE  LET s == Head(scrub.superblocks)
                        IN  (Excused(s, d, c) \/ AsAtFirst(scrub.buffer[d], s, d, c))'
      BY <2>3 DEF BufferOK
    <3>1. PICK s, block : s = Head(scrub.superblocks) /\ block = scrub.buffer[d]
      OBVIOUS
    <3>2. Excused(s, d, c) \/ AsAtFirst(block, s, d, c)
      BY <1>1, <3>1 DEF BufferOK
    <3>3. Excused(s, d, c)' \/ AsAtFirst(block, s, d, c)'
      BY <3>2, StaysExcused
    <3>4. Head(scrub'.superblocks) = s /\ scrub'.buffer[d] = block
      BY <2>3, <3>1
    <3> QED  BY <3>3, <3>4
  <2> QED  BY <2>4, <2>5
<1>3. CASE ~(r.cell < Cells - 1)
  <2>1. scrub' = [r EXCEPT !.cell = 0, !.superblocks = Tail(@), !.buffer = <<>>]
    BY <1>3 DEF NextVssb
  <2>2. /\ DOMAIN scrub' = Fields /\ scrub'.pc = scrub.pc /\ scrub'.todo = scrub.todo
        /\ scrub'.superblocks = Tail(scrub.superblocks) /\ scrub'.buffer = <<>>
        /\ scrub'.cell = 0
    BY <2>1 DEF Fields
  <2>3. Tail(scrub.superblocks) \in Seq(Superblock) /\ 0 \in Cell
    BY <1>1, Bounds DEF ScrubOK
  <2> QED  BY <1>1, <2>2, <2>3, NothingRead DEF ScrubOK
<1> QED  BY <1>2, <1>3

(* Rounds without a repair.                                                *)
LEMMA RoundKeeps == ASSUME Inv, VssbMatches \/ VssbDamaged \/ VssbLeftAlone PROVE Inv'
<1>1. /\ UNCHANGED <<image, listed, stores, writer, first, hit>> /\ Examining
      /\ DOMAIN scrub = Fields
  BY NoScrubIs DEF VssbMatches, VssbDamaged, VssbLeftAlone, history, Inv, ScrubOK
<1>2. CASE scrub' = NextVssb(scrub)
  BY <1>1, <1>2, RoundEnds, ScrubReads
<1>3. CASE scrub' = NextVssb([scrub EXCEPT !.fileDamaged = TRUE])
  <2>1. PICK r : r = [scrub EXCEPT !.fileDamaged = TRUE]
    OBVIOUS
  <2>2. /\ DOMAIN r = Fields /\ r.pc = scrub.pc /\ r.todo = scrub.todo
        /\ r.superblocks = scrub.superblocks /\ r.buffer = scrub.buffer /\ r.cell = scrub.cell
    BY <1>1, <2>1 DEF Fields
  <2>3. scrub' = NextVssb(r)
    BY <1>3, <2>1
  <2> QED  BY <1>1, <2>2, <2>3, RoundEnds, ScrubReads
<1> QED  BY <1>2, <1>3 DEF VssbMatches, VssbDamaged, VssbLeftAlone

(* Only what did not match from the start, or was hit, is repaired: of the *)
(* rest the buffer has what the disk had at first.                         *)
LEMMA Repairable ==
  ASSUME Inv, Examining, NEW d \in Wrong, ~Hopeless(Wrong)
  PROVE  Excused(Head(scrub.superblocks), d, scrub.cell)
<1>1. PICK s, c, block : /\ s = Head(scrub.superblocks) /\ c = scrub.cell
                         /\ block = scrub.buffer[d]
  OBVIOUS
<1>2. d # Parity /\ d \in Disk /\ c \in Cell /\ block.hash[c] # Hash(block.cell[c])
  BY <1>1 DEF Hopeless, Wrong, Mismatched, Inv, ScrubOK
<1>3. d \in DOMAIN scrub.buffer
  <2>1. PICK n \in 0..NumDisks : DOMAIN scrub.buffer = 0..n-1
    BY DEF Inv, ScrubOK
  <2>2. n \in Nat /\ 0 \in Int /\ n-1 \in Int
    BY <2>1, Bounds
  <2>3. Cardinality(0..n-1) = n
    BY <2>2, FS_Interval
  <2>4. n = NumDisks
    BY <2>1, <2>3 DEF Examining, AllRead
  <2> QED  BY <1>2, <2>1, <2>4, Bounds
<1>4. Excused(s, d, c) \/ AsAtFirst(block, s, d, c)
  BY <1>1, <1>2, <1>3 DEF Inv, BufferOK
<1>5. CASE AsAtFirst(block, s, d, c)
  <2>1. first[s][d].hash[c] # Hash(first[s][d].cell[c])
    BY <1>2, <1>5 DEF AsAtFirst
  <2>2. Excused(s, d, c)
    BY <1>2, <2>1 DEF Excused, Mismatched
  <2> QED  BY <1>1, <2>2
<1> QED  BY <1>1, <1>4, <1>5

(* A repair, or the torn subblock it leaves when it fails.                 *)
LEMMA RepairWrites ==
  ASSUME Inv, Examining, NEW d \in Wrong, ~Hopeless(Wrong), UNCHANGED <<first, hit>>,
         NEW content, Put(Head(scrub.superblocks), d, scrub.cell, content)
  PROVE  IsImage(image') /\ ImageOK'
<1>1. PICK s, c : s = Head(scrub.superblocks) /\ c = scrub.cell
  OBVIOUS
<1>2. Put(s, d, c, content)
  BY <1>1 DEF Put
<1>3. Excused(s, d, c)
  BY <1>1, Repairable
<1>4. Excused(s, d, c)'
  BY <1>3, StaysExcused
<1> QED  BY <1>2, <1>4, CellWritten DEF Inv

LEMMA RepairKeeps == ASSUME Inv, RepairVssb PROVE Inv'
<1>1. /\ UNCHANGED <<listed, stores, writer, first, hit>> /\ Examining
      /\ DOMAIN scrub = Fields
  BY NoScrubIs DEF RepairVssb, history, Inv, ScrubOK
<1>2. PICK d \in Wrong : ~Hopeless(Wrong) /\ \E content :
        Put(Head(scrub.superblocks), d, scrub.cell, content)
  BY DEF RepairVssb
<1>3. PICK content : Put(Head(scrub.superblocks), d, scrub.cell, content)
  BY <1>2
<1>4. IsImage(image') /\ ImageOK'
  BY <1>1, <1>2, <1>3, RepairWrites
<1>5. PICK r : r = [scrub EXCEPT !.blocks = @ + 1]
  OBVIOUS
<1>6. /\ DOMAIN r = Fields /\ r.pc = scrub.pc /\ r.todo = scrub.todo
      /\ r.superblocks = scrub.superblocks /\ r.buffer = scrub.buffer /\ r.cell = scrub.cell
  BY <1>1, <1>5 DEF Fields
<1>7. scrub' = NextVssb(r)
  BY <1>5 DEF RepairVssb
<1>8. ScrubOK' /\ BufferOK'
  BY <1>1, <1>6, <1>7, RoundEnds
<1> QED  BY <1>1, <1>4, <1>8, ScrubLeaves

(* The end of a file, and of a scrub.                                      *)
LEMMA EndKeeps == ASSUME Inv, EndFile \/ Report PROVE Inv'
<1>1. UNCHANGED <<image, listed, stores, writer, first, hit>> /\ ScrubOK /\ DOMAIN scrub = Fields
  BY NoScrubIs DEF EndFile, Report, history, Inv, ScrubOK
<1>2. scrub.superblocks = <<>> /\ scrub.buffer = <<>>
  BY <1>1 DEF EndFile, Report, ScrubOK
<1>3. /\ DOMAIN scrub' = Fields /\ scrub'.pc \in {"file", "done"} /\ scrub'.todo = scrub.todo
      /\ scrub'.superblocks = <<>> /\ scrub'.buffer = <<>> /\ scrub'.cell = scrub.cell
  BY <1>1, <1>2 DEF EndFile, Report, Fields
<1>4. ScrubOK' /\ BufferOK'
  BY <1>1, <1>2, <1>3, NothingRead DEF ScrubOK
<1> QED  BY <1>1, <1>4, ScrubReads

(* The scrub gives up.                                                     *)
LEMMA FailKeeps == ASSUME Inv, ScrubFails PROVE Inv'
<1>1. UNCHANGED <<listed, stores, writer, first, hit>> /\ scrub' = NoScrub
  BY DEF ScrubFails, history
<1>2. <<>> \in Seq(Superblock) /\ 0 \in Cell
  BY Bounds
<1>3. ScrubOK' /\ BufferOK'
  BY <1>1, <1>2, NoScrubIs, NothingRead
<1>4. CASE UNCHANGED image
  BY <1>1, <1>3, <1>4, ScrubReads
<1>5. CASE ~UNCHANGED image
  <2>1. Examining /\ \E d \in Wrong : /\ ~Hopeless(Wrong)
                                      /\ \E content : Put(Head(scrub.superblocks), d, scrub.cell, content)
    BY <1>5 DEF ScrubFails
  <2>2. PICK d \in Wrong : ~Hopeless(Wrong) /\ \E content :
          Put(Head(scrub.superblocks), d, scrub.cell, content)
    BY <2>1
  <2>3. PICK content : Put(Head(scrub.superblocks), d, scrub.cell, content)
    BY <2>2
  <2>4. IsImage(image') /\ ImageOK'
    BY <1>1, <2>1, <2>2, <2>3, RepairWrites
  <2> QED  BY <1>1, <1>3, <2>4, ScrubLeaves
<1> QED  BY <1>4, <1>5

-----------------------------------------------------------------------------
(* The invariant holds at first, and every step keeps it.                  *)
LEMMA InitInv == Init => Inv
<1> SUFFICES ASSUME Init PROVE Inv
  OBVIOUS
<1>1. /\ image \in [Superblock -> InitialImages] /\ listed = [f \in File |-> <<>>]
      /\ stores = 0 /\ writer = NoWriter /\ scrub = NoScrub /\ first = image /\ hit = {}
  BY DEF Init
<1>2. IsImage(image)
  <2>1. \A s \in Superblock : image[s] \in InitialImages
    BY <1>1
  <2> QED  BY <1>1, <2>1, ConstantsAssumption DEF IsImage
<1>3. <<>> \in Seq(Superblock) /\ DOMAIN <<>> = {} /\ 0 \in Cell /\ 0 \in Disk /\ 0 \in 0..Cells
  BY Bounds
<1>4. Shapes
  <2>1. \A f \in File : Owned(f) = {}
    BY <1>1, <1>3 DEF Owned
  <2> QED  BY <1>1, <1>2, <1>3, <2>1 DEF Shapes
<1>5. WriterOK
  BY <1>1, <1>3 DEF WriterOK, NoWriter, WriterType, Storing
<1>6. DOMAIN scrub.buffer = {} /\ \E d \in 0..NumDisks : DOMAIN scrub.buffer = 0..d-1
  BY <1>1, NoScrubIs, EmptyBuffer
<1>7. ScrubOK /\ BufferOK
  BY <1>1, <1>3, <1>6, NoScrubIs DEF ScrubOK, BufferOK
<1>8. ImageOK
  BY <1>1 DEF ImageOK, AsAtFirst
<1> QED  BY <1>4, <1>5, <1>7, <1>8 DEF Inv

LEMMA NextInv == Inv /\ [Next]_vars => Inv'
<1> SUFFICES ASSUME Inv, [Next]_vars PROVE Inv'
  OBVIOUS
<1>1. CASE StartStore \/ WriteSubblock \/ RecordStored \/ StoreFails \/ Decay
  BY <1>1, StartKeeps, WriteKeeps, RecordKeeps, StoreFailsKeeps, DecayKeeps
<1>2. CASE ScrubBegin \/ NextFile \/ ReadBlock
  BY <1>2, ScrubBeginKeeps, NextFileKeeps, ReadBlockKeeps
<1>3. CASE VssbMatches \/ VssbDamaged \/ VssbLeftAlone \/ RepairVssb
  BY <1>3, RoundKeeps, RepairKeeps
<1>4. CASE EndFile \/ Report \/ ScrubFails
  BY <1>4, EndKeeps, FailKeeps
<1>5. CASE UNCHANGED vars
  <2>1. UNCHANGED <<listed, stores, writer, first, hit, image, scrub>>
    BY <1>5 DEF vars
  <2> QED  BY <2>1, BufferStays, ScrubStays, ScrubReads DEF Inv
<1> QED  BY <1>1, <1>2, <1>3, <1>4, <1>5 DEF Next, ScrubStep

(* The invariant holds in every reachable state.                           *)
THEOREM Invariance == Spec => []Inv
BY InitInv, NextInv, PTL DEF Spec

(* The scrub's indices stay within what it has read, and no superblock is  *)
(* assigned to two files, whatever is stored beside it.                    *)
THEOREM SuperblockTypes == Spec => []TypeOK
<1>1. Inv => TypeOK
  <2> SUFFICES ASSUME Inv PROVE TypeOK
    OBVIOUS
  <2>1. DOMAIN scrub.buffer \in {0..d-1 : d \in 0..NumDisks}
    BY DEF Inv, ScrubOK
  <2> QED  BY <2>1 DEF Inv, Shapes, IsImage, IsBlocks, WriterOK, ScrubOK, TypeOK
<1> QED  BY <1>1, Invariance, PTL

(* Whatever happens on the disks while a scrub reads them, it writes only  *)
(* where there was a mismatch when the pool was made, or in cells that a   *)
(* disk has spoiled, the subblock or its hash, or a command has written.   *)
(* It says nothing of what becomes of a good subblock in such a cell.      *)
THEOREM ScrubSpares == Spec => []ScrubSparesGoodData
<1>1. Inv => ScrubSparesGoodData
  BY DEF Inv, ImageOK, Excused, AsAtFirst, ScrubSparesGoodData
<1> QED  BY <1>1, Invariance, PTL
=============================================================================
