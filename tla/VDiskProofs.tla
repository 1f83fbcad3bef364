----------------------------- MODULE VDiskProofs -----------------------------
(***************************************************************************)
(* What holds of virtual disks of any size, with blocks of any number of   *)
(* parts, for any number of writes and sessions.                           *)
(***************************************************************************)
EXTENDS VDiskStream, FiniteSetTheorems, SequenceTheorems, TLAPS

-----------------------------------------------------------------------------
(* The inductive invariant.                                                *)

Contents == Written \cup {Torn}
Sessions == [open : BOOLEAN, allocated : Nat, pointers : [Block -> Nat],
             uncommitted : SUBSET Block, found : BOOLEAN]
Ops == [pc : {"idle", "write", "commit"}, from : 0..Total, to : 0..Total, at : 0..Total,
        left : SUBSET Block]

Typed ==
  /\ DOMAIN header = Word /\ header[CountWord] = 0
  /\ table \in [Block -> Nat]
  /\ area \in Seq(Contents)
  /\ session \in Sessions
  /\ op \in Ops
  /\ writes \in Written
  /\ may \in [Position -> SUBSET Value]
  /\ behind \in BOOLEAN

(* How far a call has come.                                                *)
OpOK ==
  /\ op.pc = "idle" => op = NoOp
  /\ op.from <= op.at /\ op.at <= op.to
  /\ op.pc # "idle" => session.open
  /\ op.pc = "commit" => op.at = op.to
  /\ op.left \subseteq session.uncommitted

(* The object never counts more blocks than have a pointer.                *)
SessionOK ==
  /\ session.allocated <= NumPointers(session.pointers)
  /\ \A b \in session.uncommitted : session.pointers[b] # Null

(* The file has the pointers of the object, but for those that are to be   *)
(* committed, and a new block is put behind all others.                    *)
PlacesOK ==
  /\ Apart(table) /\ Apart(session.pointers)
  /\ session.open => \A b \in Block :
       /\ b \notin session.uncommitted => table[b] = session.pointers[b]
       /\ table[b] = Null \/ table[b] = session.pointers[b]
  /\ ~session.found => \A b \in Block : session.pointers[b] <= session.allocated
  /\ op.pc = "commit" => \A b \in session.uncommitted \ op.left : table[b] = session.pointers[b]

(* A part reads what it may; what is not there has been given up.          *)
Reads(t) == \A i \in Position :
  /\ ReadPart(t, i) \in may[i]
  /\ ReadPart(t, i) = Missing => may[i] = Value

ContentsOK ==
  /\ session.open => Reads(session.pointers)
  /\ ~session.open => Reads(table)
  /\ \A i \in Position : i \div Parts \in session.uncommitted => Zero \in may[i]
  /\ op.pc # "idle" => /\ \A i \in op.from..op.to-1 : writes \in may[i]
                       /\ \A i \in op.from..op.at-1 : ReadPart(session.pointers, i) = writes

Inv == Typed /\ OpOK /\ SessionOK /\ (~behind => PlacesOK /\ ContentsOK)

-----------------------------------------------------------------------------
(* Positions and places.                                                   *)

(* A position is a block and a part of it.                                 *)
LEMMA Split ==
  ASSUME NEW n \in Nat
  PROVE  /\ n \div Parts \in Nat /\ n % Parts \in 0..Parts-1
         /\ n = (n \div Parts) * Parts + (n % Parts)
BY ConstantsAssumption, SMT

LEMMA TotalIsNat == Total \in Nat /\ Position = 0..Total-1 /\ Parts \in Nat \ {0} /\ Blocks \in Nat \ {0}
BY ConstantsAssumption, SMT DEF Total, Position

(* Blocks do not overlap.                                                  *)
LEMMA Beyond ==
  ASSUME NEW a \in Int, NEW b \in Int, a < b
  PROVE  a * Parts \in Int /\ b * Parts \in Int /\ a * Parts + Parts <= b * Parts
BY ConstantsAssumption, SMT

(* The block of a position is on the disk.                                 *)
LEMMA InBlock ==
  ASSUME NEW i \in Position
  PROVE  /\ i \in Nat /\ i \div Parts \in Block
         /\ i % Parts \in 0..Parts-1 /\ i % Parts \in Nat
<1>1. i \in Nat /\ i < Blocks * Parts
  BY ConstantsAssumption, SMT DEF Position
<1> DEFINE q == i \div Parts
<1>2. q \in Nat /\ i % Parts \in 0..Parts-1 /\ i = q * Parts + (i % Parts)
  BY <1>1, Split
<1> HIDE DEF q
<1>3. q < Blocks
  <2>1. SUFFICES ASSUME Blocks <= q PROVE FALSE
    BY <1>2, ConstantsAssumption
  <2>2. Blocks * Parts <= q * Parts
    BY <1>2, <2>1, ConstantsAssumption, SMT
  <2>3. q * Parts \in Nat /\ Blocks * Parts \in Nat
    BY <1>2, ConstantsAssumption, SMT
  <2> QED  BY <1>1, <1>2, <2>2, <2>3
<1>4. q \in Block
  BY <1>2, <1>3, ConstantsAssumption DEF Block
<1>5. i % Parts \in Nat
  <2> DEFINE r == i % Parts
  <2>1. r \in 0..Parts-1
    BY <1>2
  <2> HIDE DEF r
  <2>2. r \in Nat
    BY <2>1, ConstantsAssumption
  <2> QED  BY <2>2 DEF r
<1> QED  BY <1>1, <1>2, <1>4, <1>5 DEF q

(* Of two positions in a block the later one is the later part.            *)
LEMMA SameBlock ==
  ASSUME NEW i \in Nat, NEW j \in Nat, i \div Parts = j \div Parts
  PROVE  i - j = (i % Parts) - (j % Parts)
<1> DEFINE m == (i \div Parts) * Parts
           x == i % Parts
           y == j % Parts
<1>1. i = m + x /\ j = m + y /\ x \in 0..Parts-1 /\ y \in 0..Parts-1
  BY Split
<1>2. m \in Int /\ x \in Int /\ y \in Int
  BY <1>1, Split, ConstantsAssumption, SMT
<1> HIDE DEF m, x, y
<1>3. i - j = x - y
  BY <1>1, <1>2
<1> QED  BY <1>3 DEF x, y

-----------------------------------------------------------------------------
(* Reading what was written to the file.                                   *)

(* What part r of the block at a place of the file reads.                  *)
At(a, pointer, r) ==
  IF Start(pointer) + r + 1 > Len(a) THEN Missing ELSE a[Start(pointer) + r + 1]

LEMMA ReadAt ==
  ASSUME NEW t, NEW i \in Position
  PROVE  ReadPart(t, i) = IF t[i \div Parts] = Null THEN Zero
                          ELSE At(area, t[i \div Parts], i % Parts)
BY DEF ReadPart, At

LEMMA PlaceOf ==
  ASSUME NEW pointer \in Nat \ {0} PROVE Start(pointer) \in Nat
BY ConstantsAssumption, SMT DEF Start

(* A write within a block changes the parts it covers, and no other, but   *)
(* for parts that were beyond the end of the file and now read as zero.    *)
LEMMA WriteReads ==
  ASSUME NEW a \in Seq(Contents), NEW values \in Seq(Contents),
         NEW p \in Nat \ {0}, NEW r0 \in Nat, r0 + Len(values) <= Parts,
         NEW q \in Nat \ {0}, NEW r \in 0..Parts-1
  PROVE  LET new == Overwrite(a, Start(p) + r0, values)
         IN  IF q = p /\ r0 <= r /\ r < r0 + Len(values)
             THEN At(new, q, r) = values[r - r0 + 1]
             ELSE \/ At(new, q, r) = At(a, q, r)
                  \/ At(a, q, r) = Missing /\ At(new, q, r) = Zero
<1> DEFINE at == Start(p) + r0
           k == Start(q) + r + 1
           size == Max({Len(a), at + Len(values)})
           new == Overwrite(a, at, values)
<1>1. Start(p) \in Nat /\ Start(q) \in Nat /\ Parts \in Nat \ {0} /\ r \in Nat
  BY PlaceOf, ConstantsAssumption
<1>2. Len(a) \in Nat /\ Len(values) \in Nat
  OBVIOUS
<1>3. at \in Nat /\ k \in Nat \ {0}
  BY <1>1
<1>4. size \in Nat /\ Len(a) <= size /\ at + Len(values) <= size
      /\ (size = Len(a) \/ size = at + Len(values))
  <2> HIDE DEF at
  <2> QED  BY <1>2, <1>3, SMT DEF Max
<1> HIDE DEF size
<1>5. /\ Len(new) = size
      /\ \A j \in 1..size : new[j] = IF j > at /\ j <= at + Len(values) THEN values[j - at]
                                     ELSE IF j <= Len(a) THEN a[j] ELSE Zero
  <2> DEFINE F(j) == IF j > at /\ j <= at + Len(values) THEN values[j - at]
                     ELSE IF j <= Len(a) THEN a[j] ELSE Zero
  <2>1. new = [j \in 1..size |-> F(j)]
    BY DEF Overwrite, size
  <2> HIDE DEF F, new
  <2>2. Len(new) = size /\ \A j \in 1..size : new[j] = F(j)
    BY <1>4, <2>1
  <2> QED  BY <2>2 DEF F
<1>6. CASE q = p
  <2>1. k = at + (r - r0) + 1
    BY <1>1, <1>6
  <2>2. CASE r0 <= r /\ r < r0 + Len(values)
    <3>1. k > at /\ k <= at + Len(values) /\ k - at = r - r0 + 1
      <4> HIDE DEF at, k
      <4> QED  BY <1>1, <1>2, <1>3, <2>1, <2>2
    <3>2. k \in 1..size
      <4> HIDE DEF at, k
      <4> QED  BY <1>2, <1>3, <1>4, <3>1
    <3>3. new[k] = values[r - r0 + 1] /\ ~(k > Len(new))
      <4> HIDE DEF at, k, new
      <4> QED  BY <1>3, <1>4, <1>5, <3>1, <3>2
    <3> QED  BY <1>6, <2>2, <3>3 DEF At
  <2>3. CASE ~(r0 <= r /\ r < r0 + Len(values))
    <3>1. ~(k > at /\ k <= at + Len(values))
      <4> HIDE DEF at, k
      <4> QED  BY <1>1, <1>2, <1>3, <2>1, <2>3
    <3> QED  BY <2>3, <3>1, <1>2, <1>3, <1>4, <1>5 DEF At
  <2> QED  BY <2>2, <2>3
<1>7. CASE q # p
  <2>1. Start(q) + Parts <= Start(p) \/ Start(p) + Parts <= Start(q)
    <3>1. CASE q < p
      BY <3>1, Beyond DEF Start
    <3>2. CASE p < q
      BY <3>2, Beyond DEF Start
    <3> QED  BY <1>7, <3>1, <3>2
  <2>2. ~(k > at /\ k <= at + Len(values))
    BY <1>1, <1>2, <2>1
  <2> QED  BY <1>7, <2>2, <1>2, <1>3, <1>4, <1>5 DEF At
<1> QED  BY <1>6, <1>7

(* The file contains nothing but what can be written.                      *)
LEMMA OverwriteType ==
  ASSUME NEW a \in Seq(Contents), NEW at \in Nat, NEW values \in Seq(Contents)
  PROVE  Overwrite(a, at, values) \in Seq(Contents)
<1> DEFINE size == Max({Len(a), at + Len(values)})
           F(j) == IF j > at /\ j <= at + Len(values) THEN values[j - at]
                   ELSE IF j <= Len(a) THEN a[j] ELSE Zero
<1>1. size \in Nat
  BY SMT DEF Max
<1>2. \A j \in 1..size : F(j) \in Contents
  <2> SUFFICES ASSUME NEW j \in 1..size PROVE F(j) \in Contents
    OBVIOUS
  <2>1. CASE j > at /\ j <= at + Len(values)
    <3>1. j - at \in 1..Len(values)
      BY <2>1
    <3> QED  BY <2>1, <3>1
  <2>2. CASE ~(j > at /\ j <= at + Len(values)) /\ j <= Len(a)
    BY <2>2
  <2>3. CASE ~(j > at /\ j <= at + Len(values)) /\ ~(j <= Len(a))
    BY <2>3, ConstantsAssumption DEF Contents, Written, Zero
  <2> QED  BY <2>1, <2>2, <2>3
<1> HIDE DEF size, F
<1>3. [j \in 1..size |-> F(j)] \in Seq(Contents)
  BY <1>1, <1>2
<1> QED  BY <1>3 DEF Overwrite, size, F

(* Whatever is read, is a value.                                           *)
LEMMA AtIsValue ==
  ASSUME NEW a \in Seq(Contents), NEW pointer \in Nat \ {0}, NEW r \in Nat
  PROVE  At(a, pointer, r) \in Value
<1> DEFINE k == Start(pointer) + r + 1
<1>1. k \in Nat \ {0}
  BY PlaceOf
<1> HIDE DEF k
<1>2. ~(k > Len(a)) => a[k] \in Contents
  BY <1>1
<1> QED  BY <1>2 DEF At, k, Value, Contents

-----------------------------------------------------------------------------
(* Allocation.                                                             *)

(* A table never has more pointers than blocks.                            *)
LEMMA PointerCount ==
  ASSUME NEW t \in [Block -> Nat]
  PROVE  NumPointers(t) \in 0..Blocks
<1> DEFINE used == {b \in Block : t[b] # Null}
<1>1. IsFiniteSet(Block) /\ Cardinality(Block) = Blocks
  <2>1. 0 \in Int /\ Blocks-1 \in Int
    BY ConstantsAssumption
  <2>2. IsFiniteSet(0..Blocks-1)
        /\ Cardinality(0..Blocks-1) = IF 0 > Blocks-1 THEN 0 ELSE Blocks-1-0+1
    BY <2>1, FS_Interval
  <2> QED  BY <2>2, ConstantsAssumption DEF Block
<1>2. used \subseteq Block
  OBVIOUS
<1>3. Cardinality(used) <= Blocks /\ Cardinality(used) \in Nat
  <2> HIDE DEF used
  <2> QED  BY <1>1, <1>2, FS_Subset, FS_CardinalityType
<1> QED  BY <1>3, ConstantsAssumption DEF NumPointers

(* Allocating a block takes one more of them.                              *)
LEMMA OneMore ==
  ASSUME NEW t \in [Block -> Nat], NEW c \in Block, t[c] = Null, NEW p \in Nat \ {0}
  PROVE  NumPointers([t EXCEPT ![c] = p]) = NumPointers(t) + 1
<1> DEFINE used == {b \in Block : t[b] # Null}
           new == {b \in Block : [t EXCEPT ![c] = p][b] # Null}
<1>1. new = used \cup {c}
  BY DEF Null
<1>2. c \notin used
  OBVIOUS
<1>3. IsFiniteSet(Block)
  <2>1. 0 \in Int /\ Blocks-1 \in Int
    BY ConstantsAssumption
  <2> QED  BY <2>1, FS_Interval DEF Block
<1>4. IsFiniteSet(used)
  BY <1>3, FS_Subset
<1> HIDE DEF used, new
<1>5. Cardinality(new) = Cardinality(used) + 1
  BY <1>1, <1>2, <1>4, FS_AddElement
<1> QED  BY <1>5 DEF NumPointers, used, new

(* The range that is being written ends in the block it starts in.         *)
LEMMA Touched ==
  ASSUME Typed, OpOK, WritingBlock
  PROVE  /\ op.at \in Position /\ Current \in Block
         /\ End \in op.at+1..op.to /\ End \in 0..Total
         /\ op.at % Parts \in Nat /\ (op.at % Parts) + (End - op.at) <= Parts
         /\ \A i \in Position :
              i \in op.at..End-1 <=> /\ i \div Parts = Current
                                     /\ op.at % Parts <= i % Parts
                                     /\ i % Parts < (op.at % Parts) + (End - op.at)
<1> DEFINE at == op.at
           to == op.to
           m == Current * Parts
           x == at % Parts
<1>1. at \in 0..Total /\ to \in 0..Total /\ at < to
  BY DEF Typed, Ops, WritingBlock
<1>2. at \in Position /\ Total \in Nat /\ Parts \in Nat \ {0} /\ at \in Nat /\ to \in Nat
  BY <1>1, TotalIsNat
<1>3. Current \in Block /\ x \in 0..Parts-1 /\ x \in Nat
  BY <1>2, InBlock DEF Current
<1>4. Current \in Int
  BY <1>3, ConstantsAssumption DEF Block
<1>5. m \in Int /\ (Current + 1) * Parts = m + Parts
  <2> DEFINE c == Current
  <2> HIDE DEF c
  <2>1. c \in Int
    BY <1>4 DEF c
  <2>2. c * Parts \in Int /\ (c + 1) * Parts = c * Parts + Parts
    BY <1>2, <2>1, SMT
  <2> QED  BY <2>2 DEF c
<1>6. at = m + x
  BY <1>2, Split DEF Current
<1> HIDE DEF x, m, at, to
<1>7. End = Min({to, m + Parts})
  BY <1>5 DEF End, to
<1>8. End <= to /\ End <= m + Parts /\ (End = to \/ End = m + Parts) /\ End \in Int
  <2>1. \A u, v \in Int : /\ Min({u, v}) <= u /\ Min({u, v}) <= v
                          /\ Min({u, v}) = u \/ Min({u, v}) = v
    BY SMT DEF Min
  <2>2. m + Parts \in Int /\ to \in Int
    BY <1>2, <1>5
  <2> HIDE DEF End
  <2> QED  BY <1>7, <2>1, <2>2
<1> HIDE DEF End
<1>9. End \in at+1..to /\ End \in 0..Total /\ x + (End - at) <= Parts
  BY <1>1, <1>2, <1>3, <1>5, <1>6, <1>8
<1>10. ASSUME NEW i \in Position
       PROVE  i \in at..End-1 <=> /\ i \div Parts = Current
                                  /\ x <= i % Parts
                                  /\ i % Parts < x + (End - at)
  <2> DEFINE q == i \div Parts
             r == i % Parts
  <2>1. i \in Nat /\ q \in Block /\ r \in 0..Parts-1 /\ i = q * Parts + r
    BY InBlock, Split
  <2>2. q \in Int /\ r \in Int
    BY <2>1, ConstantsAssumption DEF Block
  <2>3. q = Current => i - at = r - x
    BY <1>2, <2>1, SameBlock DEF Current, x, at
  <2>4. i \in at..End-1 => q = Current
    <3> SUFFICES ASSUME i \in at..End-1, q # Current PROVE FALSE
      OBVIOUS
    <3>1. m <= i /\ i < m + Parts
      BY <1>2, <1>3, <1>5, <1>6, <1>8, <2>1
    <3>2. q < Current \/ Current < q
      BY <1>4, <2>2
    <3> HIDE DEF q, r
    <3>3. CASE q < Current
      <4>1. q * Parts \in Int /\ q * Parts + Parts <= m
        BY <1>4, <2>2, <3>3, Beyond DEF m
      <4> QED  BY <1>2, <1>5, <2>1, <2>2, <3>1, <4>1
    <3>4. CASE Current < q
      <4>1. q * Parts \in Int /\ m + Parts <= q * Parts
        BY <1>4, <2>2, <3>4, Beyond DEF m
      <4> QED  BY <1>2, <1>5, <2>1, <2>2, <3>1, <4>1
    <3> QED  BY <3>2, <3>3, <3>4
  <2> HIDE DEF q, r
  <2>5. q = Current => (i \in at..End-1 <=> x <= r /\ r < x + (End - at))
    BY <1>2, <1>3, <1>8, <2>1, <2>2, <2>3
  <2> QED  BY <2>4, <2>5 DEF q, r
<1> QED  BY <1>2, <1>3, <1>9, <1>10 DEF x, at, to

(* What an allocation does to the object.                                  *)
LEMMA Allocation ==
  ASSUME Typed, OpOK, SessionOK, WritingBlock, Allocate
  PROVE  /\ session' \in Sessions /\ SessionOK'
         /\ session'.open = session.open /\ session'.found = session.found
         /\ session.uncommitted \subseteq session'.uncommitted
         /\ session'.uncommitted \subseteq session.uncommitted \cup {Current}
         /\ session'.pointers[Current] \in Nat \ {0}
         /\ \A b \in Block \ {Current} : session'.pointers[b] = session.pointers[b]
         /\ Allocated => session' = session
         /\ ~Allocated => /\ session'.pointers[Current] = session.allocated + 1
                          /\ session'.allocated = session.allocated + 1
                          /\ Current \in session'.uncommitted
<1> DEFINE c == Current
<1>1. c \in Block /\ session \in Sessions
  BY Touched DEF Typed
<1> HIDE DEF c
<1>2. CASE Allocated
  <2>1. session' = session
    BY <1>2 DEF Allocate
  <2>2. session.pointers[c] \in Nat \ {0}
    BY <1>1, <1>2 DEF Allocated, Sessions, Null, c
  <2> QED  BY <1>1, <1>2, <2>1, <2>2 DEF SessionOK, c
<1>3. CASE ~Allocated
  <2> DEFINE p == session.allocated + 1
  <2>1. session' = [session EXCEPT !.pointers[c] = p, !.uncommitted = @ \cup {c}, !.allocated = @ + 1]
    BY <1>3 DEF Allocate, NextPointer, c
  <2>2. p \in Nat \ {0} /\ session.allocated \in Nat /\ session.pointers[c] = Null
    BY <1>1, <1>3 DEF Sessions, Allocated, c
  <2> HIDE DEF p
  <2>3. /\ session'.pointers = [session.pointers EXCEPT ![c] = p]
        /\ session'.uncommitted = session.uncommitted \cup {c}
        /\ session'.allocated = session.allocated + 1
        /\ session'.open = session.open /\ session'.found = session.found
        /\ session' \in Sessions
    <3>1. session.pointers \in [Block -> Nat] /\ session.uncommitted \in SUBSET Block
      BY <1>1 DEF Sessions
    <3>2. [session.pointers EXCEPT ![c] = p] \in [Block -> Nat]
          /\ session.uncommitted \cup {c} \in SUBSET Block /\ session.allocated + 1 \in Nat
      BY <1>1, <2>2, <3>1
    <3>3. session' = [session EXCEPT !.pointers = [session.pointers EXCEPT ![c] = p],
                                     !.uncommitted = session.uncommitted \cup {c},
                                     !.allocated = session.allocated + 1]
      BY <1>1, <2>1 DEF Sessions
    <3> QED  BY <1>1, <3>2, <3>3 DEF Sessions
  <2>4. session.pointers \in [Block -> Nat]
    BY <1>1 DEF Sessions
  <2>5. NumPointers(session'.pointers) = NumPointers(session.pointers) + 1
    BY <1>1, <2>2, <2>3, <2>4, OneMore
  <2>6. SessionOK'
    <3>1. session.allocated + 1 <= NumPointers(session.pointers) + 1
      BY <2>2, <2>4, PointerCount DEF SessionOK
    <3>2. \A b \in session'.uncommitted : session'.pointers[b] # Null
      BY <1>1, <2>2, <2>3, <2>4 DEF SessionOK, Sessions, Null
    <3> QED  BY <2>3, <2>5, <3>1, <3>2 DEF SessionOK
  <2> QED  BY <1>1, <1>3, <2>2, <2>3, <2>4, <2>6 DEF c, p
<1> QED  BY <1>2, <1>3

-----------------------------------------------------------------------------
(* Writing a block.                                                        *)

(* Where in its block a write begins, and which parts it covers.           *)
First == IF Allocated THEN op.at % Parts ELSE 0
Covers(values, i) ==
  i \div Parts = Current /\ First <= i % Parts /\ i % Parts < First + Len(values)

(* Whether the whole block or a part of it is written, or nothing, what is *)
(* not covered reads as before, or as zero where it was not in the file.   *)
LEMMA Writing ==
  ASSUME Typed, OpOK, SessionOK, PlacesOK, ~behind', WritingBlock, Allocate, NotesAllocation,
         NEW values \in Seq(Contents), First + Len(values) <= Parts,
         area' = Overwrite(area, Target, values) \/ (area' = area /\ values = <<>>)
  PROVE  /\ area' \in Seq(Contents)
         /\ \A i \in Position :
              IF Covers(values, i)
              THEN ReadPart(session.pointers, i)' = values[(i % Parts) - First + 1]
              ELSE \/ i \div Parts = Current /\ ~Allocated
                   \/ ReadPart(session.pointers, i)' = ReadPart(session.pointers, i)
                   \/ /\ ReadPart(session.pointers, i) = Missing
                      /\ ReadPart(session.pointers, i)' = Zero
<1> DEFINE c == Current
           p == session'.pointers[c]
<1>1. /\ session' \in Sessions /\ p \in Nat \ {0} /\ c \in Block
      /\ \A b \in Block \ {c} : session'.pointers[b] = session.pointers[b]
      /\ Allocated => session' = session
      /\ ~Allocated => p = session.allocated + 1
  BY Allocation, Touched
<1>2. session \in Sessions /\ area \in Seq(Contents)
  BY DEF Typed
<1>3. First \in Nat
  BY Touched DEF First
<1>4. Target = Start(p) + First
  <2>1. CASE Allocated
    BY <1>1, <2>1 DEF Target, First
  <2>2. CASE ~Allocated
    <3>1. Start(p) \in Nat
      <4> HIDE DEF p
      <4> QED  BY <1>1, PlaceOf
    <3> QED  BY <1>1, <2>2, <3>1 DEF Target, First, NextPointer
  <2> QED  BY <2>1, <2>2
<1>5. \A b \in Block \ {c} : session.pointers[b] # Null => session.pointers[b] # p
  <2>1. CASE Allocated
    BY <1>1, <2>1 DEF PlacesOK, Apart
  <2>2. CASE ~Allocated
    <3>1. ~session.found
      BY <2>2 DEF NotesAllocation
    <3>2. \A b \in Block : session.pointers[b] <= session.allocated
      BY <3>1 DEF PlacesOK
    <3>3. \A b \in Block : session.pointers[b] \in Nat /\ session.allocated \in Nat
      BY <1>2 DEF Sessions
    <3> HIDE DEF p, c
    <3> QED  BY <1>1, <2>2, <3>2, <3>3
  <2> QED  BY <2>1, <2>2
<1> HIDE DEF p
<1>6. area' \in Seq(Contents)
  <2>1. Start(p) + First \in Nat
    BY <1>1, <1>3, PlaceOf
  <2> QED  BY <1>2, <1>4, <2>1, OverwriteType
<1>7. ASSUME NEW i \in Position
      PROVE  IF Covers(values, i)
             THEN ReadPart(session.pointers, i)' = values[(i % Parts) - First + 1]
             ELSE \/ i \div Parts = Current /\ ~Allocated
                  \/ ReadPart(session.pointers, i)' = ReadPart(session.pointers, i)
                  \/ /\ ReadPart(session.pointers, i) = Missing
                     /\ ReadPart(session.pointers, i)' = Zero
  <2> DEFINE b == i \div Parts
             r == i % Parts
             q == session'.pointers[b]
             old == session.pointers[b]
  <2>1. b \in Block /\ r \in 0..Parts-1 /\ r \in Nat
    BY InBlock
  <2>2. q \in Nat /\ old \in Nat
    BY <1>1, <1>2, <2>1 DEF Sessions
  <2>3. /\ ReadPart(session.pointers, i) = IF old = Null THEN Zero ELSE At(area, old, r)
        /\ ReadPart(session.pointers, i)' = IF q = Null THEN Zero ELSE At(area', q, r)
    BY DEF ReadPart, At
  <2> HIDE DEF r, q, old
  <2>4. \A n \in Nat \ {0} :
          area' = Overwrite(area, Target, values) =>
            IF n = p /\ First <= r /\ r < First + Len(values)
            THEN At(area', n, r) = values[r - First + 1]
            ELSE \/ At(area', n, r) = At(area, n, r)
                 \/ At(area, n, r) = Missing /\ At(area', n, r) = Zero
    <3> SUFFICES ASSUME NEW n \in Nat \ {0}, area' = Overwrite(area, Target, values)
                 PROVE  IF n = p /\ First <= r /\ r < First + Len(values)
                        THEN At(area', n, r) = values[r - First + 1]
                        ELSE \/ At(area', n, r) = At(area, n, r)
                             \/ At(area, n, r) = Missing /\ At(area', n, r) = Zero
      OBVIOUS
    <3>1. area' = Overwrite(area, Start(p) + First, values) /\ r \in 0..Parts-1
      BY <1>4, <2>1 DEF r
    <3> QED  BY <1>1, <1>2, <1>3, <3>1, WriteReads
  <2>5. CASE area' = area /\ values = <<>>
    <3>1. ~Covers(values, i)
      <4>1. Len(values) = 0
        BY <2>5
      <4> QED  BY <1>3, <2>1, <4>1 DEF Covers, r
    <3>2. b # c \/ Allocated => q = old
      BY <1>1, <2>1 DEF q, old
    <3> QED  BY <2>3, <2>5, <3>1, <3>2
  <2>6. CASE area' = Overwrite(area, Target, values) /\ b = c
    <3>1. q = p /\ q # Null
      BY <1>1, <2>6 DEF q, p, Null
    <3>2. Allocated => old = q
      BY <1>1 DEF q, old
    <3>3. Covers(values, i) <=> First <= r /\ r < First + Len(values)
      BY <2>6 DEF Covers, r
    <3>4. IF First <= r /\ r < First + Len(values)
          THEN At(area', q, r) = values[r - First + 1]
          ELSE \/ At(area', q, r) = At(area, q, r)
               \/ At(area, q, r) = Missing /\ At(area', q, r) = Zero
      BY <1>1, <2>4, <2>6, <3>1
    <3> QED  BY <2>3, <2>6, <3>1, <3>2, <3>3, <3>4 DEF r
  <2>7. CASE area' = Overwrite(area, Target, values) /\ b # c
    <3>1. q = old /\ (q # Null => q # p)
      BY <1>1, <1>5, <2>1, <2>7 DEF q, old
    <3>2. ~Covers(values, i)
      BY <2>7 DEF Covers
    <3>3. q # Null => \/ At(area', q, r) = At(area, q, r)
                      \/ At(area, q, r) = Missing /\ At(area', q, r) = Zero
      BY <2>2, <2>4, <2>7, <3>1 DEF Null
    <3> QED  BY <2>3, <3>1, <3>2, <3>3
  <2> QED  BY <2>5, <2>6, <2>7
<1> QED  BY <1>6, <1>7

(* Allocation keeps blocks in their own places.                            *)
LEMMA AllocationPlaces ==
  ASSUME Typed, OpOK, SessionOK, PlacesOK, ~behind', WritingBlock, Allocate, NotesAllocation,
         UNCHANGED table, op'.pc # "commit"
  PROVE  PlacesOK'
<1> DEFINE c == Current
           p == session'.pointers[c]
<1>1. /\ session' \in Sessions /\ p \in Nat \ {0} /\ c \in Block
      /\ \A b \in Block \ {c} : session'.pointers[b] = session.pointers[b]
      /\ Allocated => session' = session
      /\ ~Allocated => p = session.allocated + 1 /\ session'.allocated = session.allocated + 1
                       /\ c \in session'.uncommitted
      /\ session.uncommitted \subseteq session'.uncommitted
      /\ session'.open = session.open /\ session'.found = session.found
  BY Allocation, Touched
<1>2. session \in Sessions
  BY DEF Typed
<1>3. CASE Allocated
  BY <1>1, <1>3 DEF PlacesOK, Apart
<1>4. CASE ~Allocated
  <2>1. ~session.found
    BY <1>4 DEF NotesAllocation
  <2>2. /\ session.pointers[c] = Null
        /\ \A b \in Block : session.pointers[b] <= session.allocated
        /\ \A b \in Block : session.pointers[b] \in Nat /\ session.allocated \in Nat
        /\ session.open
    BY <1>2, <1>4, <2>1 DEF PlacesOK, Allocated, Sessions, OpOK, WritingBlock
  <2>3. table[c] = Null
    BY <1>1, <2>2 DEF PlacesOK
  <2> HIDE DEF c, p
  <2>4. p \notin {session.pointers[b] : b \in Block}
    BY <1>1, <1>4, <2>2
  <2>5. Apart(session.pointers)'
    <3> SUFFICES ASSUME NEW a \in Block, NEW b \in Block, session'.pointers[a] # Null,
                        session'.pointers[a] = session'.pointers[b]
                 PROVE  a = b
      BY DEF Apart
    <3>1. CASE a = c \/ b = c
      BY <1>1, <2>4, <3>1 DEF p
    <3>2. CASE a # c /\ b # c
      BY <1>1, <3>2 DEF PlacesOK, Apart
    <3> QED  BY <3>1, <3>2
  <2>6. \A b \in Block : session'.pointers[b] <= session'.allocated
    <3> SUFFICES ASSUME NEW b \in Block PROVE session'.pointers[b] <= session'.allocated
      OBVIOUS
    <3>1. CASE b = c
      BY <1>1, <1>4, <2>2, <3>1 DEF p
    <3>2. CASE b # c
      BY <1>1, <1>4, <2>2, <3>2
    <3> QED  BY <3>1, <3>2
  <2>7. \A b \in Block : /\ b \notin session'.uncommitted => table'[b] = session'.pointers[b]
                         /\ table'[b] = Null \/ table'[b] = session'.pointers[b]
    <3> SUFFICES ASSUME NEW b \in Block
                 PROVE  /\ b \notin session'.uncommitted => table'[b] = session'.pointers[b]
                        /\ table'[b] = Null \/ table'[b] = session'.pointers[b]
      OBVIOUS
    <3>1. CASE b = c
      BY <1>1, <1>4, <2>3, <3>1
    <3>2. CASE b # c
      BY <1>1, <2>2, <3>2 DEF PlacesOK
    <3> QED  BY <3>1, <3>2
  <2>8. Apart(table)'
    BY DEF PlacesOK, Apart
  <2> QED  BY <2>5, <2>6, <2>7, <2>8 DEF PlacesOK
<1> QED  BY <1>3, <1>4

-----------------------------------------------------------------------------
(* Every step keeps the invariant.                                         *)

(* A new disk is all zeroes.                                               *)
LEMMA InitInv == Init => Inv
<1> SUFFICES ASSUME Init PROVE Inv
  OBVIOUS
<1> DEFINE none == [b \in Block |-> Null]
<1>1. /\ table = none /\ area = <<>> /\ session = [Closed EXCEPT !.open = TRUE]
      /\ op = NoOp /\ writes = 0 /\ may = [i \in Position |-> {Zero}] /\ behind = FALSE
      /\ header = NewHeader
  BY DEF Init
<1>2. none \in [Block -> Nat] /\ \A b \in Block : none[b] = Null
  BY DEF Null
<1> HIDE DEF none
<1>3. /\ session.open /\ session.allocated = 0 /\ session.pointers = none
      /\ session.uncommitted = {} /\ session.found = FALSE /\ session \in Sessions
  BY <1>1, <1>2 DEF Closed, Sessions, none
<1>4. Typed
  <2>1. header \in [Word -> {"GNAF 1", "r", Blocks, 0}]
    BY <1>1 DEF NewHeader
  <2>2. header[CountWord] = 0
    <3>1. CountWord \in Word /\ CountWord # 0 /\ CountWord \notin SerialWords /\ CountWord # 5
      BY DEF CountWord, Word, SerialWords
    <3>2. NewHeader[CountWord] = IF CountWord = 0 THEN "GNAF 1"
                                 ELSE IF CountWord \in SerialWords THEN "r"
                                 ELSE IF CountWord = 5 THEN Blocks ELSE 0
      BY <3>1, Zenon DEF NewHeader
    <3> QED  BY <1>1, <3>1, <3>2, Zenon
  <2>3. Zero \in Value /\ 0 \in Written /\ <<>> \in Seq(Contents)
    BY ConstantsAssumption DEF Value, Written, Zero
  <2>4. op \in Ops
    BY <1>1, TotalIsNat DEF NoOp, Ops
  <2> QED  BY <1>1, <1>2, <1>3, <2>1, <2>2, <2>3, <2>4 DEF Typed
<1>5. OpOK /\ SessionOK
  <2>1. NumPointers(none) \in 0..Blocks
    BY <1>2, PointerCount
  <2> QED  BY <1>1, <1>3, <2>1, ConstantsAssumption DEF OpOK, SessionOK, NoOp
<1>6. PlacesOK
  BY <1>1, <1>2, <1>3 DEF PlacesOK, Apart, NoOp, Null
<1>7. ContentsOK
  <2>1. \A i \in Position : ReadPart(none, i) = Zero
    BY <1>2, InBlock DEF ReadPart
  <2> QED  BY <1>1, <1>3, <2>1 DEF ContentsOK, Reads, NoOp, Zero, Missing
<1> QED  BY <1>4, <1>5, <1>6, <1>7 DEF Inv

(* What a program would read that opened the file now.                     *)
LEMMA FileToo == ASSUME Inv, ~behind PROVE Reads(table)
<1>1. CASE ~session.open
  BY <1>1 DEF Inv, ContentsOK
<1>2. CASE session.open
  <2> SUFFICES ASSUME NEW i \in Position
               PROVE  ReadPart(table, i) \in may[i] /\ (ReadPart(table, i) = Missing => may[i] = Value)
    BY DEF Reads
  <2>1. i \div Parts \in Block
    BY InBlock
  <2>2. CASE table[i \div Parts] = session.pointers[i \div Parts]
    BY <1>2, <2>2 DEF Inv, ContentsOK, Reads, ReadPart
  <2>3. CASE table[i \div Parts] # session.pointers[i \div Parts]
    <3>1. table[i \div Parts] = Null /\ i \div Parts \in session.uncommitted
      BY <1>2, <2>1, <2>3 DEF Inv, PlacesOK
    <3>2. Zero \in may[i]
      BY <3>1 DEF Inv, ContentsOK
    <3> QED  BY <3>1, <3>2 DEF ReadPart, Zero, Missing
  <2> QED  BY <2>2, <2>3
<1> QED  BY <1>1, <1>2

(* The object that opens a file knows what the file has; it counts from 0, *)
(* but may allocate only if the file has no blocks.                        *)
LEMMA OpenKeeps == ASSUME Inv, Open PROVE Inv'
<1>1. /\ session' = [open |-> TRUE, allocated |-> header[CountWord], pointers |-> table,
                     uncommitted |-> {}, found |-> NumPointers(table) > 0]
      /\ UNCHANGED <<header, table, area, op, writes, may, behind>>
      /\ ~session.open /\ Typed /\ header[CountWord] = 0 /\ table \in [Block -> Nat]
  BY DEF Open, Inv, Typed
<1>2. /\ session'.open /\ session'.allocated = 0 /\ session'.pointers = table
      /\ session'.uncommitted = {} /\ session'.found = (NumPointers(table) > 0)
      /\ session' \in Sessions
  <2>1. (NumPointers(table) > 0) \in BOOLEAN
    OBVIOUS
  <2> QED  BY <1>1, <2>1 DEF Sessions
<1>3. Typed'
  BY <1>1, <1>2 DEF Typed
<1>4. op = NoOp
  BY <1>1 DEF Inv, OpOK, Typed, Ops
<1>5. OpOK' /\ SessionOK'
  <2>1. NumPointers(table) \in 0..Blocks
    BY <1>1, PointerCount
  <2>2. 0 <= NumPointers(table)
    BY <2>1, ConstantsAssumption
  <2> QED  BY <1>1, <1>2, <1>4, <2>2 DEF OpOK, SessionOK, NoOp
<1>6. ASSUME ~behind' PROVE PlacesOK' /\ ContentsOK'
  <2>1. ~behind /\ Apart(table)
    BY <1>1, <1>6 DEF Inv, PlacesOK
  <2>2. ASSUME ~session'.found PROVE \A b \in Block : table[b] = Null
    <3>1. ~(NumPointers(table) > 0) /\ NumPointers(table) \in 0..Blocks
      BY <1>1, <1>2, <2>2, PointerCount
    <3>2. Cardinality({b \in Block : table[b] # Null}) = 0
      BY <3>1, ConstantsAssumption DEF NumPointers
    <3>3. IsFiniteSet({b \in Block : table[b] # Null})
      <4>1. IsFiniteSet(Block)
        <5>1. 0 \in Int /\ Blocks-1 \in Int
          BY ConstantsAssumption
        <5> QED  BY <5>1, FS_Interval DEF Block
      <4>2. {b \in Block : table[b] # Null} \subseteq Block
        OBVIOUS
      <4> QED  BY <4>1, <4>2, FS_Subset
    <3>4. {b \in Block : table[b] # Null} = {}
      BY <3>2, <3>3, FS_EmptySet
    <3> QED  BY <3>4
  <2>3. PlacesOK'
    BY <1>1, <1>2, <1>4, <2>1, <2>2 DEF PlacesOK, Apart, NoOp, Null
  <2>4. Reads(table)
    BY <2>1, FileToo
  <2>5. ContentsOK'
    BY <1>1, <1>2, <1>4, <2>4 DEF ContentsOK, Reads, ReadPart, NoOp
  <2> QED  BY <2>3, <2>5
<1> QED  BY <1>3, <1>5, <1>6 DEF Inv

(* What the object knew and the file does not is forgotten.                *)
LEMMA CloseKeeps == ASSUME Inv, Close PROVE Inv'
<1>1. /\ session' = Closed /\ op' = NoOp /\ Typed
      /\ UNCHANGED <<header, table, area, writes, may, behind>>
  BY DEF Close, Inv
<1>2. /\ ~session'.open /\ session'.allocated = 0 /\ session'.uncommitted = {}
      /\ session'.found = FALSE /\ session' \in Sessions
      /\ session'.pointers \in [Block -> Nat] /\ \A b \in Block : session'.pointers[b] = Null
  BY <1>1 DEF Closed, Sessions, Null
<1>3. op' \in Ops
  BY <1>1, TotalIsNat DEF NoOp, Ops
<1>4. Typed'
  BY <1>1, <1>2, <1>3 DEF Typed
<1>5. OpOK' /\ SessionOK'
  <2>1. NumPointers(session'.pointers) \in 0..Blocks
    BY <1>2, PointerCount
  <2>2. 0 <= NumPointers(session'.pointers)
    BY <2>1, ConstantsAssumption
  <2> QED  BY <1>1, <1>2, <2>2 DEF OpOK, SessionOK, NoOp
<1>6. ASSUME ~behind' PROVE PlacesOK' /\ ContentsOK'
  <2>1. ~behind /\ Apart(table)
    BY <1>1, <1>6 DEF Inv, PlacesOK
  <2>2. PlacesOK'
    BY <1>1, <1>2, <2>1 DEF PlacesOK, Apart, NoOp, Null
  <2>3. Reads(table)
    BY <2>1, FileToo
  <2> QED  BY <1>1, <1>2, <2>2, <2>3 DEF ContentsOK, Reads, ReadPart, NoOp
<1> QED  BY <1>4, <1>5, <1>6 DEF Inv

(* A write may be seen anywhere in its range from now on.                  *)
LEMMA BeginWriteKeeps ==
  ASSUME Inv, NEW from \in Position, NEW to \in from+1..Total, BeginWrite(from, to)
  PROVE  Inv'
<1>1. /\ session.open /\ op = NoOp /\ writes < MaxWrites /\ writes' = writes + 1 /\ Typed
      /\ op' = [pc |-> "write", from |-> from, to |-> to, at |-> from, left |-> {}]
      /\ may' = [i \in Position |-> IF i >= from /\ i < to THEN may[i] \cup {writes'} ELSE may[i]]
      /\ UNCHANGED <<header, table, area, session, behind>>
  BY DEF BeginWrite, Inv
<1>2. from \in 0..Total /\ to \in 0..Total /\ from \in Nat /\ to \in Nat /\ from < to
  BY TotalIsNat
<1>3. writes' \in Written /\ writes' \in Value
  BY <1>1, ConstantsAssumption DEF Typed, Written, Value
<1>4. \A i \in Position : /\ may[i] \subseteq may'[i] /\ may'[i] \subseteq Value
                          /\ may[i] = Value => may'[i] = Value
                          /\ i >= from /\ i < to => writes' \in may'[i]
  <2> SUFFICES ASSUME NEW i \in Position
               PROVE  /\ may[i] \subseteq may'[i] /\ may'[i] \subseteq Value
                      /\ may[i] = Value => may'[i] = Value
                      /\ i >= from /\ i < to => writes' \in may'[i]
    OBVIOUS
  <2>1. may[i] \subseteq Value
    BY <1>1 DEF Typed
  <2>2. may'[i] = IF i >= from /\ i < to THEN may[i] \cup {writes'} ELSE may[i]
    BY <1>1
  <2> QED  BY <1>3, <2>1, <2>2
<1>5. Typed'
  <2>1. op' \in Ops
    BY <1>1, <1>2 DEF Ops
  <2>2. may' \in [Position -> SUBSET Value]
    BY <1>1, <1>4
  <2> QED  BY <1>1, <1>3, <2>1, <2>2 DEF Typed
<1>6. OpOK' /\ SessionOK'
  BY <1>1, <1>2 DEF OpOK, SessionOK, Inv
<1>7. ASSUME ~behind' PROVE PlacesOK' /\ ContentsOK'
  <2>1. PlacesOK /\ ContentsOK
    BY <1>1, <1>7 DEF Inv
  <2>2. PlacesOK'
    BY <1>1, <2>1 DEF PlacesOK, Apart
  <2>3. Reads(session.pointers)'
    BY <1>1, <1>4, <2>1 DEF ContentsOK, Reads, ReadPart
  <2>4. \A i \in from..to-1 : writes' \in may'[i]
    <3>1. \A i \in from..to-1 : i \in Position /\ i >= from /\ i < to
      BY <1>2, TotalIsNat
    <3> QED  BY <1>4, <3>1
  <2>5. \A i \in Position : i \div Parts \in session'.uncommitted => Zero \in may'[i]
    BY <1>1, <1>4, <2>1 DEF ContentsOK
  <2>6. op'.from..op'.at-1 = {} /\ op'.from = from /\ op'.to = to
    BY <1>1, <1>2
  <2> QED  BY <1>1, <2>2, <2>3, <2>4, <2>5, <2>6 DEF ContentsOK
<1> QED  BY <1>5, <1>6, <1>7 DEF Inv

(* What is written to a block is a number of parts of it.                  *)
LEMMA DataIs ==
  ASSUME Typed, OpOK, WritingBlock
  PROVE  /\ Data \in Seq(Written) /\ First \in Nat
         /\ First + Len(Data) <= Parts /\ Len(Data) \in Nat
         /\ \A i \in Position :
              i \in op.at..End-1 => /\ Covers(Data, i)
                                    /\ Data[(i % Parts) - First + 1] = writes
         /\ \A i \in Position : i \div Parts = Current /\ i \notin op.at..End-1 =>
              IF Allocated THEN ~Covers(Data, i)
              ELSE Covers(Data, i) /\ Data[(i % Parts) - First + 1] = Zero
<1>1. /\ op.at \in Position /\ Current \in Block
      /\ End \in op.at+1..op.to /\ End \in 0..Total
      /\ op.at % Parts \in Nat /\ (op.at % Parts) + (End - op.at) <= Parts
      /\ \A i \in Position : i \in op.at..End-1 <=> /\ i \div Parts = Current
                                                    /\ op.at % Parts <= i % Parts
                                                    /\ i % Parts < (op.at % Parts) + (End - op.at)
  BY Touched
<1>2. op.at \in Nat /\ End \in Nat /\ Parts \in Nat \ {0} /\ End - op.at \in Nat
  <2>1. op.at \in Nat /\ End \in op.at+1..op.to /\ op.to \in Nat
    BY <1>1, TotalIsNat DEF Typed, Ops
  <2> HIDE DEF End
  <2> QED  BY <2>1, ConstantsAssumption
<1>3. writes \in Written /\ Zero \in Written
  BY ConstantsAssumption DEF Typed, Written, Zero
<1> DEFINE n == End - op.at
           x == op.at % Parts
<1>4. CASE Allocated
  <2>1. Data = [i \in 1..n |-> writes] /\ First = x
    BY <1>4 DEF Data, First
  <2> HIDE DEF n, x
  <2>2. Data \in Seq(Written) /\ Len(Data) = n
    BY <1>2, <1>3, <2>1 DEF n
  <2>3. ASSUME NEW i \in Position
        PROVE  /\ i \in op.at..End-1 <=> Covers(Data, i)
               /\ Covers(Data, i) => Data[(i % Parts) - First + 1] = writes
    <3> DEFINE r == i % Parts
    <3>1. Covers(Data, i) <=> i \in op.at..End-1
      BY <1>1, <2>1, <2>2 DEF Covers, n, x
    <3>2. r \in Nat
      BY InBlock
    <3>3. Covers(Data, i) => First <= r /\ r < First + n
      BY <2>2 DEF Covers
    <3> HIDE DEF r
    <3>4. Covers(Data, i) => r - First + 1 \in 1..n
      <4>1. n \in Nat /\ First \in Nat
        BY <1>1, <1>2, <2>1 DEF x, n
      <4> QED  BY <3>2, <3>3, <4>1
    <3> QED  BY <2>1, <3>1, <3>4 DEF r
  <2> QED  BY <1>1, <1>2, <1>4, <2>1, <2>2, <2>3 DEF n, x
<1>5. CASE ~Allocated
  <2> DEFINE F(i) == IF Current * Parts + i - 1 \in op.at..End-1 THEN writes ELSE Zero
  <2>1. Data = [i \in 1..Parts |-> F(i)] /\ First = 0
    BY <1>5 DEF Data, First
  <2>2. \A i \in 1..Parts : F(i) \in Written
    BY <1>3
  <2> HIDE DEF F
  <2>3. Data \in Seq(Written) /\ Len(Data) = Parts
    BY <1>2, <2>1, <2>2
  <2>4. ASSUME NEW i \in Position, i \div Parts = Current
        PROVE  /\ Covers(Data, i)
               /\ Data[(i % Parts) - First + 1] = IF i \in op.at..End-1 THEN writes ELSE Zero
    <3> DEFINE r == i % Parts
               m == Current * Parts
    <3>1. r \in Nat /\ r \in 0..Parts-1 /\ i \in Nat
      BY InBlock
    <3>2. i = m + r
      BY <2>4, <3>1, Split
    <3>3. m \in Int
      BY <1>1, <1>2, ConstantsAssumption, SMT DEF Block
    <3> HIDE DEF r, m
    <3>4. r - First + 1 \in 1..Parts /\ r - First + 1 = r + 1 /\ m + (r + 1) - 1 = i
      BY <1>2, <2>1, <3>1, <3>2, <3>3
    <3>5. F(r + 1) = IF i \in op.at..End-1 THEN writes ELSE Zero
      BY <3>4 DEF F, m
    <3>6. Covers(Data, i)
      BY <1>2, <2>1, <2>3, <2>4, <3>1 DEF Covers, r
    <3> QED  BY <2>1, <3>4, <3>5, <3>6 DEF r
  <2>5. \A i \in Position : i \in op.at..End-1 => i \div Parts = Current
    BY <1>1
  <2>6. Parts \in Nat /\ 0 + Parts <= Parts
    BY <1>2
  <2>7. \A i \in Position : i \div Parts = Current =>
          /\ Covers(Data, i)
          /\ Data[(i % Parts) - First + 1] = IF i \in op.at..End-1 THEN writes ELSE Zero
    BY <2>4
  <2>8. First \in Nat /\ First + Len(Data) <= Parts /\ Len(Data) \in Nat
    BY <2>1, <2>3, <2>6
  <2> HIDE DEF First, Covers, Data, End, Current
  <2> QED  BY <1>5, <2>3, <2>5, <2>7, <2>8
<1> QED  BY <1>4, <1>5

(* A block that is written whole reads what was written, and zero where a  *)
(* new block was not.                                                      *)
LEMMA WriteBlockKeeps == ASSUME Inv, WriteBlock PROVE Inv'
<1>1. /\ Typed /\ OpOK /\ SessionOK /\ WritingBlock /\ Allocate /\ NotesAllocation
      /\ area' = Overwrite(area, Target, Data) /\ op' = [op EXCEPT !.at = End]
      /\ UNCHANGED <<header, table, writes, may>>
  BY DEF Inv, WriteBlock
<1>2. /\ Data \in Seq(Written) /\ First \in Nat
      /\ First + Len(Data) <= Parts
      /\ \A i \in Position :
           i \in op.at..End-1 => /\ Covers(Data, i)
                                 /\ Data[(i % Parts) - First + 1] = writes
      /\ \A i \in Position : i \div Parts = Current /\ i \notin op.at..End-1 =>
           IF Allocated THEN ~Covers(Data, i)
           ELSE Covers(Data, i) /\ Data[(i % Parts) - First + 1] = Zero
  BY <1>1, DataIs
<1>3. Data \in Seq(Contents)
  BY <1>2 DEF Contents
<1>4. /\ session' \in Sessions /\ SessionOK'
      /\ session'.open = session.open /\ session'.found = session.found
      /\ session.uncommitted \subseteq session'.uncommitted
      /\ session'.uncommitted \subseteq session.uncommitted \cup {Current}
      /\ Allocated => session' = session
  BY <1>1, Allocation
<1>5. /\ op.at \in Position /\ Current \in Block
      /\ End \in op.at+1..op.to /\ End \in 0..Total
  BY <1>1, Touched
<1>6. /\ op'.pc = "write" /\ op'.from = op.from /\ op'.to = op.to /\ op'.at = End
      /\ op'.left = op.left /\ op.pc = "write" /\ op' \in Ops
  BY <1>1, <1>5 DEF Typed, Ops, WritingBlock
<1>7. op.at \in 0..Total /\ op.from \in 0..Total /\ op.to \in 0..Total /\ op.from <= op.at
      /\ Total \in Nat
  BY <1>1, TotalIsNat DEF Typed, Ops, OpOK
<1>8. op.from <= End /\ End <= op.to
  <2> HIDE DEF End
  <2> QED  BY <1>5, <1>7
<1>9. area' \in Seq(Contents)
  <2>1. Target \in Nat
    <3>1. CASE Allocated
      <4>1. session.pointers[Current] \in Nat \ {0} /\ op.at % Parts \in Nat
        BY <1>1, <1>5, <3>1, InBlock DEF Typed, Sessions, Allocated, Null
      <4>2. Start(session.pointers[Current]) \in Nat
        BY <4>1, PlaceOf
      <4> QED  BY <3>1, <4>1, <4>2 DEF Target
    <3>2. CASE ~Allocated
      <4>1. NextPointer \in Nat \ {0}
        BY <1>1 DEF Typed, Sessions, NextPointer
      <4>2. Start(NextPointer) \in Nat
        BY <4>1, PlaceOf
      <4> QED  BY <3>2, <4>2 DEF Target
    <3> QED  BY <3>1, <3>2
  <2> QED  BY <1>1, <1>3, <2>1, OverwriteType DEF Typed
<1>10. Typed'
  <2>1. behind' \in BOOLEAN
    BY <1>1 DEF NotesAllocation
  <2> QED  BY <1>1, <1>4, <1>6, <1>9, <2>1 DEF Typed
<1>11. OpOK'
  <2>1. op.left \subseteq session'.uncommitted /\ session.open
    BY <1>1, <1>4, <1>6 DEF OpOK
  <2> HIDE DEF End
  <2> QED  BY <1>4, <1>6, <1>8, <2>1 DEF OpOK
<1>12. ASSUME ~behind' PROVE PlacesOK' /\ ContentsOK'
  <2>1. ~behind /\ PlacesOK /\ ContentsOK
    BY <1>12, <1>1 DEF NotesAllocation, Inv
  <2>2. PlacesOK'
    BY <1>1, <1>6, <1>12, <2>1, AllocationPlaces
  <2> DEFINE Read(i) == ReadPart(session.pointers, i)
  <2>3. ASSUME NEW i \in Position
        PROVE  \/ i \in op.at..End-1 /\ Read(i)' = writes
               \/ i \notin op.at..End-1 /\ Read(i)' = Read(i)
               \/ i \notin op.at..End-1 /\ Read(i) = Missing /\ Read(i)' = Zero
    <3>1. IF Covers(Data, i)
          THEN Read(i)' = Data[(i % Parts) - First + 1]
          ELSE \/ i \div Parts = Current /\ ~Allocated
               \/ Read(i)' = Read(i)
               \/ Read(i) = Missing /\ Read(i)' = Zero
      BY <1>1, <1>2, <1>3, <1>12, <2>1, Writing
    <3>2. i \div Parts = Current /\ ~Allocated => Read(i) = Zero
      BY DEF Allocated, ReadPart
    <3>3. Covers(Data, i) => i \div Parts = Current
      BY DEF Covers
    <3> HIDE DEF Read, Covers, Data, First, End, Current
    <3> QED  BY <1>2, <3>1, <3>2, <3>3
  <2>4. ContentsOK
    BY <2>1
  <2>5. \A i \in op.from..op.to-1 : i \in Position
    BY <1>7, TotalIsNat
  <2>6. writes \in Nat /\ writes # Missing /\ Zero # Missing /\ Zero \in Value
    BY <1>1, ConstantsAssumption DEF Typed, Written, Missing, Zero, Value
  <2>7. \A i \in op.at..End-1 : writes \in may[i]
    <3>1. \A i \in op.at..End-1 : i \in op.from..op.to-1
      <4> HIDE DEF End
      <4> QED  BY <1>5, <1>7, <1>8
    <3> QED  BY <1>6, <2>4, <3>1 DEF ContentsOK
  <2>8. Reads(session.pointers)'
    <3> SUFFICES ASSUME NEW i \in Position
                 PROVE  Read(i)' \in may'[i] /\ (Read(i)' = Missing => may'[i] = Value)
      BY DEF Reads
    <3>1. Read(i) \in may[i] /\ (Read(i) = Missing => may[i] = Value)
      BY <1>1, <1>6, <2>4 DEF ContentsOK, Reads, OpOK
    <3> HIDE DEF Read
    <3> QED  BY <1>1, <2>3, <2>6, <2>7, <3>1
  <2>9. \A i \in Position : i \div Parts \in session'.uncommitted => Zero \in may'[i]
    <3> SUFFICES ASSUME NEW i \in Position, i \div Parts \in session'.uncommitted
                 PROVE  Zero \in may[i]
      BY <1>1
    <3>1. CASE i \div Parts \in session.uncommitted
      BY <2>4, <3>1 DEF ContentsOK
    <3>2. CASE i \div Parts \notin session.uncommitted
      <4>1. i \div Parts = Current /\ ~Allocated
        BY <1>4, <3>2
      <4>2. Read(i) = Zero
        BY <4>1 DEF Allocated, ReadPart
      <4>3. Read(i) \in may[i]
        BY <1>1, <1>6, <2>4 DEF ContentsOK, Reads, OpOK
      <4> QED  BY <4>2, <4>3
    <3> QED  BY <3>1, <3>2
  <2>10. \A i \in op'.from..op'.to-1 : writes' \in may'[i]
    BY <1>1, <1>6, <2>4 DEF ContentsOK
  <2>11. ASSUME NEW i \in op.from..End-1 PROVE Read(i)' = writes
    <3>1. i \in Position /\ (i \in op.at..End-1 \/ i \in op.from..op.at-1)
      <4> HIDE DEF End
      <4>1. i \in op.from..op.to-1
        BY <1>5, <1>7, <1>8
      <4> QED  BY <1>5, <1>7, <2>5, <4>1
    <3>2. i \notin op.at..End-1 => Read(i) = writes
      BY <1>6, <2>4, <3>1 DEF ContentsOK
    <3> HIDE DEF Read, End
    <3> QED  BY <2>3, <2>6, <3>1, <3>2
  <2>12. session'.open
    BY <1>1, <1>4, <1>6 DEF OpOK
  <2>13. ContentsOK'
    <3>1. \A i \in op'.from..op'.at-1 : ReadPart(session.pointers, i)' = writes'
      BY <1>1, <1>6, <2>11
    <3> QED  BY <2>8, <2>9, <2>10, <2>12, <3>1 DEF ContentsOK
  <2> QED  BY <2>2, <2>13
<1> QED  BY <1>4, <1>10, <1>11, <1>12 DEF Inv

(* A write that fails leaves what it may leave in the parts it was to      *)
(* change; nothing is promised of a block whose allocation failed.         *)
LEMMA WriteBlockFailsKeeps == ASSUME Inv, WriteBlockFails PROVE Inv'
<1> DEFINE fails == [i \in Position |->
                       IF ~Allocated /\ i \div Parts = Current THEN Value
                       ELSE IF i \in op.at..End-1 THEN may[i] \cup {Torn} ELSE may[i]]
<1>1. /\ Typed /\ OpOK /\ SessionOK /\ WritingBlock /\ Allocate /\ NotesAllocation
      /\ op' = NoOp /\ may' = fails
      /\ UNCHANGED <<header, table, writes>>
  BY DEF Inv, WriteBlockFails
<1>2. /\ Data \in Seq(Written) /\ First \in Nat
      /\ First + Len(Data) <= Parts /\ Len(Data) \in Nat
      /\ \A i \in Position :
           i \in op.at..End-1 => /\ Covers(Data, i)
                                 /\ Data[(i % Parts) - First + 1] = writes
      /\ \A i \in Position : i \div Parts = Current /\ i \notin op.at..End-1 =>
           IF Allocated THEN ~Covers(Data, i)
           ELSE Covers(Data, i) /\ Data[(i % Parts) - First + 1] = Zero
  BY <1>1, DataIs
<1>3. PICK n \in 0..Len(Data)-1, torn \in {<<>>, <<Torn>>} :
        area' = IF n = 0 /\ torn = <<>> THEN area
                ELSE Overwrite(area, Target, SubSeq(Data, 1, n) \o torn)
  BY DEF WriteBlockFails
<1> DEFINE values == SubSeq(Data, 1, n) \o torn
<1>4. /\ values \in Seq(Contents) /\ Len(values) \in Nat /\ Len(values) <= Len(Data)
      /\ \A k \in 1..Len(values) : values[k] = Data[k] \/ values[k] = Torn
      /\ n = 0 /\ torn = <<>> => values = <<>>
  <2> HIDE DEF Data
  <2> DEFINE kept == SubSeq(Data, 1, n)
  <2>1. n \in Nat /\ n <= Len(Data) /\ n + 1 <= Len(Data)
    BY <1>2
  <2>2. kept \in Seq(Written) /\ Len(kept) = n /\ \A k \in 1..n : kept[k] = Data[k]
    BY <1>2, <2>1
  <2>3. kept \in Seq(Contents)
    BY <2>2 DEF Contents
  <2>4. torn \in Seq(Contents) /\ Len(torn) \in {0, 1} /\ (\A k \in 1..Len(torn) : torn[k] = Torn)
    <3>1. Torn \in Contents
      BY DEF Contents
    <3>2. CASE torn = <<>>
      BY <3>2
    <3>3. CASE torn = <<Torn>>
      BY <3>1, <3>3
    <3> QED  BY <3>2, <3>3
  <2> HIDE DEF kept
  <2>5. kept \o torn \in Seq(Contents) /\ Len(kept \o torn) = n + Len(torn)
        /\ \A k \in 1..n + Len(torn) :
             (kept \o torn)[k] = IF k <= n THEN kept[k] ELSE torn[k - n]
    BY <2>2, <2>3, <2>4
  <2>6. \A k \in 1..n + Len(torn) : k <= n \/ k - n \in 1..Len(torn)
    BY <2>1, <2>4
  <2>7. \A k \in 1..n + Len(torn) : (kept \o torn)[k] = Data[k] \/ (kept \o torn)[k] = Torn
    <3> SUFFICES ASSUME NEW k \in 1..n + Len(torn)
                 PROVE  (kept \o torn)[k] = Data[k] \/ (kept \o torn)[k] = Torn
      OBVIOUS
    <3>1. CASE k <= n
      BY <2>1, <2>2, <2>5, <3>1
    <3>2. CASE ~(k <= n)
      BY <2>4, <2>5, <2>6, <3>2
    <3> QED  BY <3>1, <3>2
  <2>8. n = 0 /\ torn = <<>> => kept \o torn = <<>>
    <3> SUFFICES ASSUME n = 0, torn = <<>> PROVE kept \o torn = <<>>
      OBVIOUS
    <3>1. Len(kept \o torn) = 0
      BY <2>5
    <3> QED  BY <2>5, <3>1, EmptySeq
  <2>9. Len(kept \o torn) \in Nat /\ Len(kept \o torn) <= Len(Data)
    BY <2>1, <2>4, <2>5
  <2> QED  BY <2>5, <2>7, <2>8, <2>9 DEF kept
<1> HIDE DEF values
<1>5. area' = Overwrite(area, Target, values) \/ (area' = area /\ values = <<>>)
  BY <1>3, <1>4 DEF values
<1>6. First + Len(values) <= Parts
  <2> HIDE DEF First, Data
  <2> QED  BY <1>2, <1>4, ConstantsAssumption
<1>7. /\ session' \in Sessions /\ SessionOK'
      /\ session'.open = session.open /\ session'.found = session.found
      /\ session.uncommitted \subseteq session'.uncommitted
      /\ session'.uncommitted \subseteq session.uncommitted \cup {Current}
      /\ Allocated => session' = session
      /\ session'.pointers[Current] \in Nat \ {0}
  BY <1>1, Allocation
<1>8. /\ op.at \in Position /\ Current \in Block
      /\ End \in op.at+1..op.to /\ End \in 0..Total
  BY <1>1, Touched
<1>9. op.pc = "write" /\ op'.pc = "idle" /\ op' \in Ops /\ session.open
  BY <1>1, TotalIsNat DEF Ops, NoOp, WritingBlock, OpOK
<1>10. area' \in Seq(Contents)
  <2>1. Target \in Nat
    <3>1. CASE Allocated
      <4>1. session.pointers[Current] \in Nat \ {0} /\ op.at % Parts \in Nat
        BY <1>1, <1>8, <3>1, InBlock DEF Typed, Sessions, Allocated, Null
      <4>2. Start(session.pointers[Current]) \in Nat
        BY <4>1, PlaceOf
      <4> QED  BY <3>1, <4>1, <4>2 DEF Target
    <3>2. CASE ~Allocated
      <4>1. NextPointer \in Nat \ {0}
        BY <1>1 DEF Typed, Sessions, NextPointer
      <4>2. Start(NextPointer) \in Nat
        BY <4>1, PlaceOf
      <4> QED  BY <3>2, <4>2 DEF Target
    <3> QED  BY <3>1, <3>2
  <2> QED  BY <1>1, <1>4, <1>5, <2>1, OverwriteType DEF Typed
<1>11. /\ writes \in Value /\ Torn \in Value /\ Zero \in Value
       /\ writes # Missing /\ Zero # Missing /\ Torn # Missing
  BY <1>1, ConstantsAssumption DEF Typed, Written, Missing, Zero, Torn, Value
<1>12. ASSUME NEW i \in Position
       PROVE  /\ may[i] \subseteq may'[i] /\ may'[i] \subseteq Value
              /\ may[i] = Value => may'[i] = Value
              /\ ~Allocated /\ i \div Parts = Current => may'[i] = Value
              /\ i \in op.at..End-1 => Torn \in may'[i]
  <2>1. may[i] \subseteq Value
    BY <1>1 DEF Typed
  <2>2. may'[i] = IF ~Allocated /\ i \div Parts = Current THEN Value
                  ELSE IF i \in op.at..End-1 THEN may[i] \cup {Torn} ELSE may[i]
    BY <1>1
  <2> HIDE DEF End, Current, Allocated
  <2> QED  BY <1>11, <2>1, <2>2
<1>13. Typed'
  <2>1. behind' \in BOOLEAN
    BY <1>1 DEF NotesAllocation
  <2>2. may' \in [Position -> SUBSET Value]
    <3>1. may' = [i \in Position |-> may'[i]]
      BY <1>1
    <3> HIDE DEF fails
    <3> QED  BY <1>12, <3>1
  <2> QED  BY <1>1, <1>7, <1>9, <1>10, <2>1, <2>2 DEF Typed
<1>14. OpOK'
  BY <1>1, <1>7 DEF OpOK, NoOp
<1>15. ASSUME ~behind' PROVE PlacesOK' /\ ContentsOK'
  <2>1. ~behind /\ PlacesOK /\ ContentsOK
    BY <1>15, <1>1 DEF NotesAllocation, Inv
  <2>2. PlacesOK'
    BY <1>1, <1>9, <1>15, <2>1, AllocationPlaces
  <2> DEFINE Read(i) == ReadPart(session.pointers, i)
  <2>3. ASSUME NEW i \in Position
        PROVE  Read(i)' \in may'[i] /\ (Read(i)' = Missing => may'[i] = Value)
    <3>1. IF Covers(values, i)
          THEN Read(i)' = values[(i % Parts) - First + 1]
          ELSE \/ i \div Parts = Current /\ ~Allocated
               \/ Read(i)' = Read(i)
               \/ Read(i) = Missing /\ Read(i)' = Zero
      BY <1>1, <1>4, <1>5, <1>6, <1>15, <2>1, Writing
    <3>2. Read(i) \in may[i] /\ (Read(i) = Missing => may[i] = Value)
      BY <1>9, <2>1 DEF ContentsOK, Reads
    <3>3. CASE i \div Parts = Current /\ ~Allocated
      <4>1. Read(i)' = At(area', session'.pointers[Current], i % Parts)
        BY <1>7, <3>3 DEF ReadPart, At, Null
      <4>2. i % Parts \in Nat
        BY InBlock
      <4>3. At(area', session'.pointers[Current], i % Parts) \in Value
        BY <1>7, <1>10, <4>2, AtIsValue
      <4> QED  BY <1>12, <3>3, <4>1, <4>3
    <3>4. CASE Covers(values, i) /\ Allocated
      <4> DEFINE k == (i % Parts) - First + 1
      <4>1. k \in 1..Len(values) /\ Covers(Data, i)
        <5> DEFINE r == i % Parts
        <5>1. r \in Nat /\ First <= r /\ r < First + Len(values) /\ i \div Parts = Current
          BY <3>4, InBlock DEF Covers
        <5> HIDE DEF r, First, Data
        <5>2. r - First + 1 \in 1..Len(values) /\ r < First + Len(Data)
          BY <1>2, <1>4, <5>1
        <5> QED  BY <5>1, <5>2 DEF r, Covers
      <4>2. i \in op.at..End-1
        BY <1>2, <3>4, <4>1 DEF Covers
      <4>3. Data[k] = writes
        BY <1>2, <4>2
      <4> HIDE DEF k
      <4>4. values[k] = writes \/ values[k] = Torn
        BY <1>4, <4>1, <4>3
      <4>5. Read(i)' = values[k]
        BY <3>1, <3>4 DEF k
      <4>6. writes \in may[i]
        <5>1. i \in op.from..op.to-1
          <6>1. op.from <= op.at /\ op.from \in Int /\ op.at \in Int /\ op.to \in Int
            BY <1>1, TotalIsNat DEF OpOK, Typed, Ops
          <6> HIDE DEF End
          <6> QED  BY <1>8, <4>2, <6>1
        <5> QED  BY <1>9, <2>1, <5>1 DEF ContentsOK
      <4> HIDE DEF Read
      <4> QED  BY <1>11, <1>12, <4>2, <4>4, <4>5, <4>6
    <3>5. CASE ~(i \div Parts = Current /\ ~Allocated) /\ ~(Covers(values, i) /\ Allocated)
      <4>1. ~Covers(values, i)
        BY <3>5 DEF Covers
      <4> HIDE DEF Read
      <4>2. Read(i)' = Read(i) \/ (Read(i) = Missing /\ Read(i)' = Zero)
        BY <3>1, <3>5, <4>1
      <4> QED  BY <1>11, <1>12, <3>2, <4>2
    <3> QED  BY <3>3, <3>4, <3>5
  <2>4. Reads(session.pointers)'
    BY <2>3 DEF Reads
  <2>5. \A i \in Position : i \div Parts \in session'.uncommitted => Zero \in may'[i]
    <3> SUFFICES ASSUME NEW i \in Position, i \div Parts \in session'.uncommitted
                 PROVE  Zero \in may'[i]
      OBVIOUS
    <3>1. CASE i \div Parts \in session.uncommitted
      BY <1>12, <2>1, <3>1 DEF ContentsOK
    <3>2. CASE i \div Parts \notin session.uncommitted
      <4>1. i \div Parts = Current /\ ~Allocated
        BY <1>7, <3>2
      <4> QED  BY <1>11, <1>12, <4>1
    <3> QED  BY <3>1, <3>2
  <2> QED  BY <1>7, <1>9, <2>2, <2>4, <2>5 DEF ContentsOK
<1> QED  BY <1>7, <1>13, <1>14, <1>15 DEF Inv

(* Committing changes nothing that the object reads.                       *)
LEMMA CommitKeeps ==
  ASSUME Inv, CommitCount \/ CommitPointer \/ CommitFails
  PROVE  Inv'
<1>1. /\ Typed /\ OpOK /\ SessionOK
      /\ UNCHANGED <<area, session, writes, may, behind>>
  BY DEF Inv, CommitCount, CommitPointer, CommitFails
<1>2. CASE CommitFails
  <2>1. op' = NoOp /\ UNCHANGED <<header, table>>
    BY <1>2 DEF CommitFails
  <2>2. op' \in Ops
    BY <2>1, TotalIsNat DEF Ops, NoOp
  <2>3. Typed' /\ OpOK' /\ SessionOK'
    BY <1>1, <2>1, <2>2 DEF Typed, OpOK, SessionOK, NoOp
  <2>4. ~behind' => PlacesOK' /\ ContentsOK'
    BY <1>1, <2>1 DEF Inv, PlacesOK, ContentsOK, Apart, Reads, ReadPart, NoOp
  <2> QED  BY <2>3, <2>4 DEF Inv
<1>3. CASE CommitCount
  <2>1. /\ op' = [op EXCEPT !.pc = "commit", !.left = session.uncommitted] /\ table' = table
        /\ header' = [header EXCEPT ![CommittedWord] = session.allocated]
        /\ op.pc = "write" /\ op.at = op.to
    BY <1>3 DEF CommitCount
  <2>2. /\ op' \in Ops /\ op'.pc = "commit" /\ op'.left = session.uncommitted
        /\ op'.from = op.from /\ op'.to = op.to /\ op'.at = op.at
    BY <1>1, <2>1 DEF Typed, Ops, Sessions
  <2>3. DOMAIN header' = Word /\ header'[CountWord] = 0
    <3>1. CountWord \in Word /\ CountWord # CommittedWord
      BY DEF CountWord, CommittedWord, Word
    <3> QED  BY <1>1, <2>1, <3>1 DEF Typed
  <2>4. Typed' /\ OpOK' /\ SessionOK'
    BY <1>1, <2>1, <2>2, <2>3 DEF Typed, OpOK, SessionOK
  <2>5. ~behind' => PlacesOK' /\ ContentsOK'
    BY <1>1, <2>1, <2>2 DEF Inv, PlacesOK, ContentsOK, Apart, Reads, ReadPart
  <2> QED  BY <2>4, <2>5 DEF Inv
<1>4. CASE CommitPointer
  <2> DEFINE b == Min(op.left)
  <2>1. /\ op' = [op EXCEPT !.left = @ \ {b}] /\ table' = [table EXCEPT ![b] = session.pointers[b]]
        /\ header' = header /\ op.pc = "commit"
    BY <1>4 DEF CommitPointer
  <2> HIDE DEF b
  <2>2. /\ op' \in Ops /\ op'.pc = "commit" /\ op'.left = op.left \ {b}
        /\ op'.from = op.from /\ op'.to = op.to /\ op'.at = op.at
    BY <1>1, <2>1 DEF Typed, Ops
  <2>3. session.pointers \in [Block -> Nat] /\ table \in [Block -> Nat]
    BY <1>1 DEF Typed, Sessions
  <2>4. table' \in [Block -> Nat]
    BY <2>1, <2>3
  <2>5. Typed' /\ OpOK' /\ SessionOK'
    BY <1>1, <2>1, <2>2, <2>4 DEF Typed, OpOK, SessionOK
  <2>6. ASSUME ~behind' PROVE PlacesOK' /\ ContentsOK'
    <3>1. PlacesOK /\ ContentsOK /\ session.open
      BY <1>1, <2>1, <2>6 DEF Inv, OpOK
    <3>2. \A a \in Block : table'[a] = IF a = b THEN session.pointers[a] ELSE table[a]
      BY <2>1, <2>3
    <3>3. \A a \in Block : /\ a \notin session.uncommitted => table'[a] = session.pointers[a]
                           /\ table'[a] = Null \/ table'[a] = session.pointers[a]
      BY <3>1, <3>2 DEF PlacesOK
    <3>4. Apart(table')
      BY <3>1, <3>3 DEF PlacesOK, Apart
    <3>5. \A a \in session.uncommitted \ op'.left : table'[a] = session.pointers[a]
      <4>1. session.uncommitted \subseteq Block
        BY <1>1 DEF Typed, Sessions
      <4> QED  BY <2>1, <2>2, <3>1, <3>2, <4>1 DEF PlacesOK
    <3>6. PlacesOK'
      BY <1>1, <2>2, <3>1, <3>3, <3>4, <3>5 DEF PlacesOK, Apart
    <3>7. ContentsOK'
      BY <1>1, <2>1, <2>2, <3>1 DEF ContentsOK, Reads, ReadPart
    <3> QED  BY <3>6, <3>7
  <2> QED  BY <2>5, <2>6 DEF Inv
<1> QED  BY <1>2, <1>3, <1>4

(* When write returns, the file has every block that the object has.       *)
LEMMA ReturnKeeps == ASSUME Inv, CommitNothing \/ CommitEnds PROVE Inv'
<1>1. /\ Typed /\ OpOK /\ SessionOK /\ op.pc # "idle" /\ op.at = op.to /\ session.open
      /\ op' = NoOp
      /\ may' = [i \in Position |-> IF i >= op.from /\ i < op.to THEN {writes} ELSE may[i]]
      /\ UNCHANGED <<header, table, area, writes, behind>>
      /\ session' = [session EXCEPT !.uncommitted = {}]
  <2>1. Typed /\ OpOK /\ SessionOK /\ op.pc # "idle" /\ session.open /\ op.at = op.to
    BY DEF Inv, OpOK, CommitNothing, CommitEnds
  <2>2. session' = [session EXCEPT !.uncommitted = {}]
    <3>1. CASE CommitNothing
      BY <2>1, <3>1 DEF CommitNothing, Typed, Sessions
    <3>2. CASE CommitEnds
      BY <3>2 DEF CommitEnds
    <3> QED  BY <3>1, <3>2
  <2> QED  BY <2>1, <2>2 DEF CommitNothing, CommitEnds, WriteReturns
<1>2. /\ session' \in Sessions /\ session'.pointers = session.pointers
      /\ session'.uncommitted = {} /\ session'.open /\ session'.allocated = session.allocated
      /\ session'.found = session.found
  BY <1>1 DEF Typed, Sessions
<1>3. op' \in Ops
  BY <1>1, TotalIsNat DEF Ops, NoOp
<1>4. writes \in Value /\ writes # Missing
  BY <1>1, ConstantsAssumption DEF Typed, Written, Value, Missing
<1>5. may' \in [Position -> SUBSET Value]
  BY <1>1, <1>4 DEF Typed
<1>6. Typed' /\ OpOK' /\ SessionOK'
  BY <1>1, <1>2, <1>3, <1>5 DEF Typed, OpOK, SessionOK, NoOp
<1>7. ASSUME ~behind' PROVE PlacesOK' /\ ContentsOK'
  <2>1. PlacesOK /\ ContentsOK
    BY <1>1, <1>7 DEF Inv
  <2>2. \A b \in Block : table[b] = session.pointers[b]
    <3>1. CASE CommitNothing
      BY <1>1, <2>1, <3>1 DEF CommitNothing, PlacesOK
    <3>2. CASE CommitEnds
      <4> SUFFICES ASSUME NEW b \in Block PROVE table[b] = session.pointers[b]
        OBVIOUS
      <4>1. op.pc = "commit" /\ op.left = {}
        BY <3>2 DEF CommitEnds
      <4> QED  BY <1>1, <2>1, <4>1 DEF PlacesOK
    <3> QED  BY <3>1, <3>2
  <2>3. PlacesOK'
    BY <1>1, <1>2, <2>1, <2>2 DEF PlacesOK, Apart, NoOp
  <2>4. Reads(session.pointers)'
    <3> SUFFICES ASSUME NEW i \in Position
                 PROVE  /\ ReadPart(session.pointers, i) \in may'[i]
                        /\ ReadPart(session.pointers, i) = Missing => may'[i] = Value
      BY <1>1, <1>2 DEF Reads, ReadPart
    <3>1. CASE i >= op.from /\ i < op.to
      <4>1. i \in op.from..op.at-1
        BY <1>1, <3>1, TotalIsNat DEF Typed, Ops
      <4>2. ReadPart(session.pointers, i) = writes
        BY <1>1, <2>1, <4>1 DEF ContentsOK
      <4> QED  BY <1>1, <1>4, <3>1, <4>2
    <3>2. CASE ~(i >= op.from /\ i < op.to)
      <4>1. may'[i] = may[i]
        BY <1>1, <3>2
      <4> QED  BY <1>1, <2>1, <4>1 DEF ContentsOK, Reads
    <3> QED  BY <3>1, <3>2
  <2> QED  BY <1>1, <1>2, <2>3, <2>4 DEF ContentsOK, NoOp
<1> QED  BY <1>6, <1>7 DEF Inv

(* The invariant is inductive.                                             *)
LEMMA NextInv == Inv /\ [Next]_vars => Inv'
<1> SUFFICES ASSUME Inv, [Next]_vars PROVE Inv'
  OBVIOUS
<1>1. CASE Open
  BY <1>1, OpenKeeps
<1>2. CASE Close
  BY <1>2, CloseKeeps
<1>3. CASE StartWrite
  BY <1>3, BeginWriteKeeps DEF StartWrite
<1>4. CASE WriteBlock
  BY <1>4, WriteBlockKeeps
<1>5. CASE WriteBlockFails
  BY <1>5, WriteBlockFailsKeeps
<1>6. CASE CommitNothing \/ CommitEnds
  BY <1>6, ReturnKeeps
<1>7. CASE CommitCount \/ CommitPointer \/ CommitFails
  BY <1>7, CommitKeeps
<1>8. CASE UNCHANGED vars
  BY <1>8 DEF vars, Inv, Typed, OpOK, SessionOK, PlacesOK, ContentsOK, Apart, Reads, ReadPart
<1> QED  BY <1>1, <1>2, <1>3, <1>4, <1>5, <1>6, <1>7, <1>8 DEF Next

-----------------------------------------------------------------------------
(* The stream.                                                             *)

(* A call of write begins at the position, which waits for its end.        *)
PositionOK == PositionOnDisk /\ (op.pc # "idle" => position = op.from)
StreamInv == Inv /\ PositionOK

(* Numbers of the width of u64 remain what they are.                       *)
LEMMA Width ==
  /\ 2 * Half \in Nat /\ Half \in Nat \ {0} /\ Total \in Nat /\ Total < Half
  /\ \A n \in Int : AsU64(n) \in 0..2*Half-1
  /\ \A n \in 0..2*Half-1 : AsU64(n) = n
<1> DEFINE w == 2 * Half
<1>1. Half \in Nat \ {0} /\ w \in Nat \ {0} /\ Total \in Nat /\ Total < Half
  BY HalfAssumption, TotalIsNat
<1>2. (\A n \in Int : n % w \in 0..w-1) /\ (\A n \in 0..w-1 : n % w = n)
  <2> HIDE DEF w
  <2> QED  BY <1>1, SMT
<1> QED  BY <1>1, <1>2 DEF AsU64

(* Of two numbers.                                                         *)
LEMMA MinMax ==
  ASSUME NEW a \in Int, NEW b \in Int
  PROVE  Min({a, b}) = (IF a <= b THEN a ELSE b) /\ Max({a, b}) = (IF a >= b THEN a ELSE b)
BY SMT DEF Min, Max

(* Of a number and 0.                                                      *)
LEMMA WithZero ==
  ASSUME NEW a \in Int
  PROVE  /\ Max({a, 0}) = (IF a >= 0 THEN a ELSE 0)
         /\ Max({0, a}) = (IF a >= 0 THEN a ELSE 0)
BY SMT DEF Max

(* A seek that succeeds goes to a place on the disk.                       *)
LEMMA TargetsAreNumbers ==
  ASSUME position \in 0..Total, NEW target \in Targets PROVE target \in Nat
<1> USE Width
<1>1. \A offset \in I64 : RelativeTarget(offset) \in Nat
  <2> SUFFICES ASSUME NEW offset \in I64 PROVE RelativeTarget(offset) \in Nat
    OBVIOUS
  <2>1. offset \in Int /\ position \in Nat
    BY DEF I64
  <2>2. CASE offset >= 0
    <3>1. position + offset \in Nat /\ 2*Half - 1 \in Nat
      BY <2>1, <2>2
    <3>2. Min({position + offset, 2*Half - 1}) \in Nat
      BY <3>1, MinMax
    <3> QED  BY <2>2, <3>2 DEF RelativeTarget
  <2>3. CASE ~(offset >= 0)
    <3>1. position - AsU64(-offset) \in Int
      BY <2>1
    <3>2. Max({position - AsU64(-offset), 0}) \in Nat
      <4> DEFINE a == position - AsU64(-offset)
      <4>1. a \in Int
        BY <3>1
      <4> HIDE DEF a
      <4>2. Max({a, 0}) \in Nat
        BY <4>1, WithZero
      <4> QED  BY <4>2 DEF a
    <3> QED  BY <2>3, <3>2 DEF RelativeTarget
  <2> QED  BY <2>2, <2>3
<1>2. \A offset \in I64 : EndTarget(offset) \in Nat
  <2> SUFFICES ASSUME NEW offset \in I64 PROVE EndTarget(offset) \in Nat
    OBVIOUS
  <2>1. Total + AsU64(-offset) \in Int
    BY DEF I64
  <2>2. AsU64(Total + AsU64(-offset)) \in 0..2*Half-1
    BY <2>1
  <2> QED  BY <2>2 DEF EndTarget
<1>3. U64 \subseteq Nat
  BY DEF U64
<1> QED  BY <1>1, <1>2, <1>3 DEF Targets

(* A call of write through the stream is one of the disk, and its end is   *)
(* where the position goes.                                                *)
LEMMA StreamNextInv == StreamInv /\ [StreamNext]_streamVars => StreamInv' /\ [Next]_vars
<1> SUFFICES ASSUME StreamInv, [StreamNext]_streamVars PROVE StreamInv' /\ [Next]_vars
  OBVIOUS
<1>1. position \in 0..Total /\ Inv /\ Total \in Nat /\ OpOK /\ op \in Ops
  BY TotalIsNat DEF StreamInv, PositionOK, PositionOnDisk, Inv, Typed
<1>2. [Next]_vars => Inv'
  BY <1>1, NextInv
<1>3. CASE StreamOpen \/ StreamClose
  <2>1. Next
    BY <1>3 DEF StreamOpen, StreamClose, Next
  <2>2. position' \in 0..Total /\ (op'.pc # "idle" => position' = op'.from)
    <3>1. CASE StreamOpen
      <4>1. op' = op /\ ~session.open /\ position' = 0
        BY <3>1 DEF StreamOpen, Open
      <4>2. op'.pc = "idle"
        BY <1>1, <4>1 DEF OpOK
      <4> QED  BY <1>1, <4>1, <4>2
    <3>2. CASE StreamClose
      BY <1>1, <3>2 DEF StreamClose, Close, NoOp
    <3> QED  BY <1>3, <3>1, <3>2
  <2> QED  BY <1>2, <2>1, <2>2 DEF StreamInv, PositionOK, PositionOnDisk
<1>4. CASE StreamSeek
  <2>1. position' \in Targets /\ position' <= Total /\ UNCHANGED vars /\ op = NoOp
    BY <1>4 DEF StreamSeek, Reaches
  <2>2. position' \in Nat
    BY <1>1, <2>1, TargetsAreNumbers
  <2> QED  BY <1>1, <1>2, <2>1, <2>2 DEF StreamInv, PositionOK, PositionOnDisk, vars, NoOp
<1>5. ASSUME NEW len \in 1..Total+1, position < Total
      PROVE  /\ Fitting(len) \in 1..Total /\ position + Fitting(len) \in position+1..Total
             /\ position \in Position
  <2>1. len \in Int /\ Total - position \in Int
    BY <1>1
  <2>2. Fitting(len) = IF len <= Total - position THEN len ELSE Total - position
    BY <2>1, MinMax DEF Fitting
  <2>3. position \in Position
    BY <1>1, <1>5, TotalIsNat
  <2> QED  BY <1>1, <1>5, <2>2, <2>3
<1>6. CASE StreamRead
  <2>1. PICK len \in 1..Total+1 : position' = position + Fitting(len)
    BY <1>6 DEF StreamRead
  <2>2. position < Total /\ UNCHANGED vars /\ op = NoOp
    BY <1>6 DEF StreamRead
  <2>3. position' \in 0..Total
    BY <1>1, <1>5, <2>1, <2>2
  <2> QED  BY <1>2, <2>2, <2>3 DEF StreamInv, PositionOK, PositionOnDisk, vars, NoOp
<1>7. CASE StreamWrite
  <2>1. PICK len \in 1..Total+1 : BeginWrite(position, position + Fitting(len))
    BY <1>7 DEF StreamWrite
  <2>2. position < Total /\ position' = position
    BY <1>7 DEF StreamWrite
  <2>3. position \in Position /\ position + Fitting(len) \in position+1..Total
    BY <1>5, <2>2
  <2>4. Next
    BY <2>1, <2>3 DEF StartWrite, Next
  <2>5. op'.from = position
    BY <2>1 DEF BeginWrite
  <2> QED  BY <1>1, <1>2, <2>2, <2>4, <2>5 DEF StreamInv, PositionOK, PositionOnDisk
<1>8. CASE StreamWriteReturns
  <2>1. op' = NoOp /\ op.pc # "idle" /\ Next
    BY <1>8 DEF StreamWriteReturns, CommitNothing, CommitEnds, WriteReturns, Next
  <2>2. position' = op.to
    BY <1>1, <1>8, <2>1 DEF StreamWriteReturns, StreamInv, PositionOK, Ops
  <2>3. op.to \in 0..Total
    BY <1>1 DEF Ops
  <2> QED  BY <1>2, <2>1, <2>2, <2>3 DEF StreamInv, PositionOK, PositionOnDisk, NoOp
<1>9. CASE StreamWriteFails
  <2>1. op' = NoOp /\ position' = position /\ Next
    BY <1>9 DEF StreamWriteFails, WriteBlockFails, CommitFails, Next
  <2> QED  BY <1>1, <1>2, <2>1 DEF StreamInv, PositionOK, PositionOnDisk, NoOp
<1>10. CASE (WriteBlock \/ CommitCount \/ CommitPointer) /\ UNCHANGED position
  <2>1. op'.from = op.from /\ op.pc # "idle" /\ Next
    BY <1>1, <1>10 DEF WriteBlock, CommitCount, CommitPointer, WritingBlock, Next, Ops
  <2> QED  BY <1>1, <1>2, <1>10, <2>1 DEF StreamInv, PositionOK, PositionOnDisk
<1>11. CASE UNCHANGED streamVars
  BY <1>2, <1>11 DEF streamVars, vars, StreamInv, PositionOK, PositionOnDisk
<1> QED  BY <1>3, <1>4, <1>6, <1>7, <1>8, <1>9, <1>10, <1>11 DEF StreamNext

(* The invariant holds in every reachable state of a disk with its stream. *)
THEOREM StreamInvariance == StreamSpec => []StreamInv
<1>1. StreamInit => StreamInv
  <2>1. Total \in Nat
    BY TotalIsNat
  <2> QED  BY <2>1, InitInv DEF StreamInit, Init, StreamInv, PositionOK, PositionOnDisk, NoOp
<1> QED  BY <1>1, StreamNextInv, PTL DEF StreamSpec

-----------------------------------------------------------------------------
(* The theorems.                                                           *)

(* The types are right, and the object counts at most all blocks.          *)
THEOREM VDiskTypes == StreamSpec => []TypeOK
<1>1. ASSUME StreamInv PROVE TypeOK
  <2>1. Typed /\ OpOK /\ SessionOK
    BY <1>1 DEF StreamInv, Inv
  <2>2. session.allocated \in 0..Blocks
    <3>1. session.pointers \in [Block -> Nat] /\ session.allocated \in Nat
      BY <2>1 DEF Typed, Sessions
    <3>2. NumPointers(session.pointers) \in 0..Blocks
      BY <3>1, PointerCount
    <3> QED  BY <2>1, <3>1, <3>2, ConstantsAssumption DEF SessionOK
  <2>3. op.at \in op.from..op.to /\ op.to \in 0..Total /\ op.pc \in {"idle", "write", "commit"}
    BY <2>1, TotalIsNat DEF Typed, OpOK, Ops
  <2> QED  BY <2>1, <2>2, <2>3 DEF TypeOK, Typed, Sessions, OpOK, SessionOK, Contents
<1> QED  BY <1>1, StreamInvariance, PTL

(* Reads through the object return what was written last, whatever failed  *)
(* and however often the disk was reopened.                                *)
THEOREM SessionReadsAlways == StreamSpec => []SessionReads
<1>1. StreamInv => SessionReads
  BY DEF StreamInv, Inv, ContentsOK, Reads, SessionReads
<1> QED  BY <1>1, StreamInvariance, PTL

(* The file always shows what was written last to whoever opens it.        *)
THEOREM FileReadsAlways == StreamSpec => []FileReads
<1>1. StreamInv => FileReads
  BY FileToo DEF StreamInv, Reads, FileReads
<1> QED  BY <1>1, StreamInvariance, PTL

(* No two blocks share a place in the file.                                *)
THEOREM OwnPlacesAlways == StreamSpec => []OwnPlaces
<1>1. StreamInv => OwnPlaces
  BY DEF StreamInv, Inv, PlacesOK, OwnPlaces
<1> QED  BY <1>1, StreamInvariance, PTL

(* The position never leaves the disk.                                     *)
THEOREM PositionAlwaysOnDisk == StreamSpec => []PositionOnDisk
<1>1. StreamInv => PositionOnDisk
  BY DEF StreamInv, PositionOK
<1> QED  BY <1>1, StreamInvariance, PTL

(* Seeks are exact for numbers of any width that the size of the disk fits *)
(* twice.                                                                  *)
THEOREM SeeksAlwaysLand == StreamSpec => []SeeksLand
<1>1. ASSUME StreamInv PROVE SeeksLand
  <2>1. position \in 0..Total
    BY <1>1 DEF StreamInv, PositionOK, PositionOnDisk
  <2> USE Width
  <2>2. ASSUME NEW offset \in I64
        PROVE  IF position + offset > Total THEN RelativeTarget(offset) > Total
               ELSE RelativeTarget(offset) = Max({0, position + offset})
    <3>1. offset \in Int /\ -Half <= offset /\ offset <= Half-1
      BY DEF I64
    <3>2. /\ Max({0, position + offset}) = IF position + offset >= 0 THEN position + offset ELSE 0
          /\ Max({position + offset, 0}) = IF position + offset >= 0 THEN position + offset ELSE 0
      <4> DEFINE a == position + offset
      <4>1. a \in Int
        BY <2>1, <3>1
      <4> HIDE DEF a
      <4>2. /\ Max({0, a}) = (IF a >= 0 THEN a ELSE 0)
            /\ Max({a, 0}) = (IF a >= 0 THEN a ELSE 0)
        BY <4>1, WithZero
      <4> QED  BY <4>2 DEF a
    <3>3. CASE offset >= 0
      <4>1. RelativeTarget(offset) = position + offset
        <5>1. Min({position + offset, 2*Half - 1}) = position + offset
          BY <2>1, <3>1, <3>3, MinMax
        <5> QED  BY <3>3, <5>1 DEF RelativeTarget
      <4> QED  BY <2>1, <3>1, <3>2, <3>3, <4>1
    <3>4. CASE ~(offset >= 0)
      <4>1. AsU64(-offset) = -offset
        <5>1. -offset \in 0..2*Half-1
          BY <3>1, <3>4
        <5> QED  BY <5>1
      <4>2. position - AsU64(-offset) = position + offset
        BY <2>1, <3>1, <4>1
      <4>3. RelativeTarget(offset) = Max({position + offset, 0})
        BY <3>4, <4>2 DEF RelativeTarget
      <4> QED  BY <2>1, <3>1, <3>2, <3>4, <4>3
    <3> QED  BY <3>3, <3>4
  <2>3. ASSUME NEW offset \in I64, ~EndRefuses(offset)
        PROVE  EndTarget(offset) > Total \/ (offset = 0 /\ EndTarget(0) = Total)
    <3>1. offset \in Int /\ -Half <= offset /\ offset <= 0
      BY <2>3 DEF I64, EndRefuses
    <3>2. AsU64(-offset) = -offset
      <4>1. -offset \in 0..2*Half-1
        BY <3>1
      <4> QED  BY <4>1
    <3>3. -offset <= Total
      <4>1. ~(AsU64(-offset) > Total)
        BY <2>3 DEF EndRefuses
      <4> QED  BY <3>1, <3>2, <4>1
    <3>4. EndTarget(offset) = Total + (-offset)
      <4>1. Total + (-offset) \in 0..2*Half-1
        BY <3>1, <3>3
      <4> QED  BY <3>2, <4>1 DEF EndTarget
    <3> QED  BY <3>1, <3>4
  <2> QED  BY <2>2, <2>3 DEF SeeksLand
<1> QED  BY <1>1, StreamInvariance, PTL
=============================================================================
