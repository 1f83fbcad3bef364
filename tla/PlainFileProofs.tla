--------------------------- MODULE PlainFileProofs ---------------------------
(***************************************************************************)
(* A virtual disk of any size, read through its stream, is a plain file.   *)
(***************************************************************************)
EXTENDS VDiskProofs

-----------------------------------------------------------------------------
(* The plain file that a virtual disk shows.                               *)

Shown(i) == ReadPart(IF session.open THEN session.pointers ELSE table, i)
Seen == [i \in Position |-> Shown(i)]
Unsure == {i \in Position : Cardinality(may[i]) > 1}
plainVars == <<Seen, Unsure, position, behind>>

(* What may be read of a part is known exactly, or is one of several.      *)
Several(values) == \E v, w \in values : v # w
MayOK == \A i \in Position : Several(may[i]) \/ \E v \in 0..writes : may[i] = {v}

(* A call writes something, all of which is unsure until it returns.       *)
RangeOK == op.pc # "idle" => /\ op.from < op.to
                             /\ \A i \in op.from..op.to-1 : Several(may[i])

FileInv == StreamInv /\ MayOK /\ RangeOK

-----------------------------------------------------------------------------
(* More than one value, counted.                                           *)
LEMMA MoreThanOne ==
  ASSUME NEW values \in SUBSET Value
  PROVE  Cardinality(values) > 1 <=> Several(values)
<1>1. IsFiniteSet(Value)
  <2>1. IsFiniteSet(Written)
    <3>1. 0 \in Int /\ MaxWrites \in Int
      BY ConstantsAssumption
    <3> QED  BY <3>1, FS_Interval DEF Written
  <2>2. IsFiniteSet(Written \cup {Torn})
    BY <2>1, FS_AddElement
  <2>3. IsFiniteSet((Written \cup {Torn}) \cup {Missing})
    BY <2>2, FS_AddElement
  <2>4. Value = (Written \cup {Torn}) \cup {Missing}
    BY DEF Value
  <2> QED  BY <2>3, <2>4
<1>2. IsFiniteSet(values) /\ Cardinality(values) \in Nat
  BY <1>1, FS_Subset, FS_CardinalityType
<1>3. ASSUME Several(values) PROVE Cardinality(values) > 1
  <2>1. PICK v \in values : \E w \in values : v # w
    BY <1>3 DEF Several
  <2>2. PICK w \in values : v # w
    BY <2>1
  <2>3. IsFiniteSet({v}) /\ Cardinality({v}) = 1
    BY FS_Singleton
  <2>4. Cardinality({v} \cup {w}) = 2
    BY <2>2, <2>3, FS_AddElement
  <2>5. ({v} \cup {w}) \in SUBSET values
    BY <2>2
  <2>6. Cardinality({v} \cup {w}) <= Cardinality(values)
    BY <1>2, <2>5, FS_Subset
  <2> QED  BY <1>2, <2>4, <2>6
<1>4. ASSUME ~Several(values) PROVE ~(Cardinality(values) > 1)
  <2>1. CASE values = {}
    BY <2>1, FS_EmptySet
  <2>2. CASE values # {}
    <3>1. PICK v : v \in values
      BY <2>2
    <3>2. values = {v}
      BY <1>4, <3>1 DEF Several
    <3> QED  BY <3>2, FS_Singleton
  <2> QED  BY <2>1, <2>2
<1> QED  BY <1>3, <1>4

(* The parts that are unsure, before a step and after it.                  *)
LEMMA UnsureParts ==
  /\ Typed => Unsure = {i \in Position : Several(may[i])}
  /\ Typed' => Unsure' = {i \in Position : Several(may'[i])}
<1>1. ASSUME NEW m \in [Position -> SUBSET Value]
      PROVE  \A i \in Position : Cardinality(m[i]) > 1 <=> Several(m[i])
  <2> SUFFICES ASSUME NEW i \in Position PROVE Cardinality(m[i]) > 1 <=> Several(m[i])
    OBVIOUS
  <2>1. m[i] \in SUBSET Value
    OBVIOUS
  <2> QED  BY <2>1, MoreThanOne
<1>2. ASSUME Typed PROVE Unsure = {i \in Position : Several(may[i])}
  <2>1. may \in [Position -> SUBSET Value]
    BY <1>2 DEF Typed
  <2>2. \A i \in Position : Cardinality(may[i]) > 1 <=> Several(may[i])
    BY <1>1, <2>1
  <2> QED  BY <2>2 DEF Unsure
<1>3. ASSUME Typed' PROVE Unsure' = {i \in Position : Several(may'[i])}
  <2>1. may' \in [Position -> SUBSET Value]
    BY <1>3 DEF Typed
  <2>2. \A i \in Position : Cardinality(may'[i]) > 1 <=> Several(may'[i])
    BY <1>1, <2>1
  <2> QED  BY <2>2 DEF Unsure
<1> QED  BY <1>2, <1>3

(* What is shown may be shown, before a step and after it.                 *)
LEMMA ShownMay ==
  /\ StreamInv /\ ~behind => \A i \in Position : Shown(i) \in may[i] /\ may[i] \subseteq Value
  /\ StreamInv' /\ ~behind' => \A i \in Position : Shown(i)' \in may'[i] /\ may'[i] \subseteq Value
<1>1. StreamInv /\ ~behind => \A i \in Position : Shown(i) \in may[i] /\ may[i] \subseteq Value
  BY DEF StreamInv, Inv, ContentsOK, Reads, Shown, Typed
<1>2. StreamInv' /\ ~behind' => \A i \in Position : Shown(i)' \in may'[i] /\ may'[i] \subseteq Value
  BY DEF StreamInv, Inv, ContentsOK, Reads, Shown, Typed
<1> QED  BY <1>1, <1>2

(* A part whose value is certain shows the same until that changes.        *)
LEMMA CertainStays ==
  ASSUME FileInv, FileInv', ~behind, ~behind',
         NEW i \in Position, i \notin Unsure, may'[i] = may[i]
  PROVE  Shown(i)' = Shown(i)
<1>1. ~Several(may[i])
  BY UnsureParts DEF FileInv, StreamInv, Inv
<1>2. Shown(i) \in may[i] /\ Shown(i)' \in may[i]
  BY ShownMay DEF FileInv
<1> QED  BY <1>1, <1>2 DEF Several

(* The step of the plain file that changes some parts and no other.        *)
LEMMA Changes ==
  ASSUME FileInv', ~behind', NEW parts, \A i \in Position \ parts : Shown(i)' = Shown(i)
  PROVE  Plain!ChangesOnly(parts)
<1>1. Plain!Part = Position
  BY TotalIsNat DEF Plain!Part
<1>2. \A i \in Position : Shown(i)' \in Value
  BY ShownMay DEF FileInv
<1>3. \A i \in Position : Seen'[i] = Shown(i)' /\ Seen[i] = Shown(i)
  BY DEF Seen
<1>4. Seen' \in [Position -> Value]
  BY <1>2 DEF Seen
<1> QED  BY <1>1, <1>3, <1>4 DEF Plain!ChangesOnly, Seen, Shown

-----------------------------------------------------------------------------
(* A new disk is a new file.                                               *)
LEMMA FileInit == StreamInit => FileInv /\ Plain!Init
<1> SUFFICES ASSUME StreamInit PROVE FileInv /\ Plain!Init
  OBVIOUS
<1>1. /\ session = [Closed EXCEPT !.open = TRUE] /\ op = NoOp /\ writes = 0 /\ position = 0
      /\ may = [i \in Position |-> {Zero}] /\ behind = FALSE /\ Init
  BY DEF StreamInit, Init
<1>2. StreamInv
  <2>1. Total \in Nat
    BY TotalIsNat
  <2> QED  BY <1>1, <2>1, InitInv DEF StreamInv, PositionOK, PositionOnDisk, NoOp
<1>3. \A i \in Position : may[i] = {0}
  BY <1>1 DEF Zero
<1>4. MayOK /\ RangeOK
  <2>1. 0 \in 0..writes
    BY <1>1
  <2> QED  BY <1>1, <1>3, <2>1 DEF MayOK, RangeOK, NoOp
<1>5. Unsure = {}
  BY <1>3, <1>2, UnsureParts DEF Several, StreamInv, Inv
<1>6. \A i \in Position : Shown(i) = 0
  BY <1>1, <1>2, <1>3, ShownMay
<1>7. Plain!Part = Position
  BY TotalIsNat DEF Plain!Part
<1>8. Seen = [i \in Plain!Part |-> 0]
  BY <1>6, <1>7 DEF Seen
<1> QED  BY <1>1, <1>2, <1>4, <1>5, <1>8 DEF Plain!Init, FileInv, Seen, Shown, Unsure

-----------------------------------------------------------------------------
(* What is known of the parts is kept.                                     *)
LEMMA FileNext == FileInv /\ [StreamNext]_streamVars => FileInv'
<1> SUFFICES ASSUME FileInv, [StreamNext]_streamVars PROVE FileInv'
  OBVIOUS
<1>1. StreamInv' /\ [Next]_vars
  BY StreamNextInv DEF FileInv
<1>2. MayOK /\ RangeOK /\ OpOK /\ Typed /\ writes \in Nat
  BY ConstantsAssumption DEF FileInv, StreamInv, Inv, Typed, Written
<1>3. CASE /\ UNCHANGED <<may, writes>>
           /\ \/ op' = op
              \/ op'.pc = "idle"
              \/ op.pc # "idle" /\ op'.from = op.from /\ op'.to = op.to
  <2>1. MayOK'
    BY <1>2, <1>3 DEF MayOK
  <2>2. RangeOK'
    BY <1>2, <1>3 DEF RangeOK
  <2> QED  BY <1>1, <2>1, <2>2 DEF FileInv
<1>4. CASE StartWrite
  <2>1. PICK from \in Position : \E to \in from+1..Total : BeginWrite(from, to)
    BY <1>4 DEF StartWrite
  <2>2. PICK to \in from+1..Total : BeginWrite(from, to)
    BY <2>1
  <2>3. /\ writes' = writes + 1
        /\ op'.pc = "write" /\ op'.from = from /\ op'.to = to
        /\ may' = [i \in Position |-> IF i >= from /\ i < to THEN may[i] \cup {writes'} ELSE may[i]]
    BY <2>2 DEF BeginWrite
  <2>4. from \in Nat /\ to \in Nat /\ from < to /\ from..to-1 \subseteq Position
    BY TotalIsNat
  <2>5. ASSUME NEW i \in Position, i >= from /\ i < to PROVE Several(may'[i])
    <3>1. may'[i] = may[i] \cup {writes + 1}
      BY <2>3, <2>5
    <3>2. CASE Several(may[i])
      BY <3>1, <3>2 DEF Several
    <3>3. ASSUME NEW v \in 0..writes, may[i] = {v} PROVE Several(may'[i])
      <4>1. v # writes + 1
        BY <1>2
      <4> QED  BY <3>1, <3>3, <4>1 DEF Several
    <3> QED  BY <1>2, <3>2, <3>3 DEF MayOK
  <2>6. MayOK'
    <3> SUFFICES ASSUME NEW i \in Position
                 PROVE  Several(may'[i]) \/ \E v \in 0..writes' : may'[i] = {v}
      BY DEF MayOK
    <3>1. 0..writes \subseteq 0..writes'
      BY <1>2, <2>3
    <3>2. CASE ~(i >= from /\ i < to)
      <4>1. may'[i] = may[i]
        BY <2>3, <3>2
      <4> QED  BY <1>2, <3>1, <4>1 DEF MayOK
    <3> QED  BY <2>5, <3>2
  <2>7. RangeOK'
    BY <2>3, <2>4, <2>5 DEF RangeOK
  <2> QED  BY <1>1, <2>6, <2>7 DEF FileInv
<1>5. CASE WriteBlockFails
  <2>1. /\ op' = NoOp /\ writes' = writes
        /\ may' = [i \in Position |->
                     IF ~Allocated /\ i \div Parts = Current THEN Value
                     ELSE IF i \in op.at..End-1 THEN may[i] \cup {Torn} ELSE may[i]]
    BY <1>5 DEF WriteBlockFails
  <2>2. Several(Value)
    <3>1. Torn \in Value /\ Missing \in Value /\ Torn # Missing
      BY DEF Value, Torn, Missing
    <3> QED  BY <3>1 DEF Several
  <2>3. MayOK'
    <3> SUFFICES ASSUME NEW i \in Position
                 PROVE  Several(may'[i]) \/ \E v \in 0..writes : may'[i] = {v}
      BY <2>1 DEF MayOK
    <3>1. CASE may'[i] = Value
      BY <2>2, <3>1
    <3>2. CASE may'[i] = may[i]
      BY <1>2, <3>2 DEF MayOK
    <3>3. CASE may'[i] = may[i] \cup {Torn}
      <4>1. CASE Several(may[i])
        BY <3>3, <4>1 DEF Several
      <4>2. ASSUME NEW v \in 0..writes, may[i] = {v} PROVE Several(may'[i])
        <5>1. v # Torn
          BY DEF Torn
        <5> QED  BY <3>3, <4>2, <5>1 DEF Several
      <4> QED  BY <1>2, <4>1, <4>2 DEF MayOK
    <3> QED  BY <2>1, <3>1, <3>2, <3>3
  <2>4. RangeOK'
    BY <2>1 DEF RangeOK, NoOp
  <2> QED  BY <1>1, <2>3, <2>4 DEF FileInv
<1>6. CASE CommitNothing \/ CommitEnds
  <2>1. /\ op' = NoOp /\ writes' = writes
        /\ may' = [i \in Position |-> IF i >= op.from /\ i < op.to THEN {writes} ELSE may[i]]
    BY <1>6 DEF CommitNothing, CommitEnds, WriteReturns
  <2>2. writes \in 0..writes
    BY <1>2
  <2>3. MayOK'
    BY <1>2, <2>1, <2>2 DEF MayOK
  <2>4. RangeOK'
    BY <2>1 DEF RangeOK, NoOp
  <2> QED  BY <1>1, <2>3, <2>4 DEF FileInv
<1>7. CASE Open \/ Close \/ CommitFails \/ UNCHANGED vars
  BY <1>3, <1>7 DEF Open, Close, CommitFails, vars, NoOp
<1>8. CASE WriteBlock \/ CommitCount \/ CommitPointer
  <2>1. op \in Ops /\ UNCHANGED <<may, writes>> /\ op.pc # "idle"
    BY <1>2, <1>8 DEF WriteBlock, CommitCount, CommitPointer, WritingBlock, Typed
  <2>2. op'.from = op.from /\ op'.to = op.to
    BY <1>8, <2>1 DEF WriteBlock, CommitCount, CommitPointer, Ops
  <2> QED  BY <1>3, <2>1, <2>2
<1> QED  BY <1>1, <1>4, <1>5, <1>6, <1>7, <1>8 DEF Next

-----------------------------------------------------------------------------
(* The steps of the plain file.                                            *)

(* What is unsure stays so when nothing becomes known or unknown.          *)
LEMMA SameUnsure == may' = may => Unsure' = Unsure
BY DEF Unsure

(* Only parts that are unsure change when no value becomes unknown.        *)
LEMMA ChangesUnsure ==
  ASSUME FileInv, FileInv', ~behind, ~behind', may' = may
  PROVE  Plain!ChangesOnly(Unsure) /\ Unsure' = Unsure
<1>1. \A i \in Position \ Unsure : Shown(i)' = Shown(i)
  BY CertainStays
<1> QED  BY <1>1, Changes, SameUnsure

(* Opening and closing: the program ends, and another finds in the file    *)
(* all that is certain.                                                    *)
LEMMA ReopenStep ==
  ASSUME FileInv, FileInv', ~behind, ~behind', StreamOpen \/ StreamClose
  PROVE  Plain!Reopen
<1>1. may' = may /\ position' = 0
  BY DEF StreamOpen, StreamClose, Open, Close
<1>2. Plain!ChangesOnly(Unsure) /\ Unsure' = Unsure
  BY <1>1, ChangesUnsure
<1> QED  BY <1>1, <1>2 DEF Plain!Reopen, Unsure

(* Seeks and reads move the cursor.                                        *)
LEMMA MoveStep ==
  ASSUME FileInv, FileInv', StreamSeek \/ StreamRead
  PROVE  Plain!Move
<1>1. UNCHANGED vars
  BY DEF StreamSeek, StreamRead
<1>2. Seen' = Seen /\ Unsure' = Unsure
  BY <1>1 DEF vars, Seen, Shown, Unsure, ReadPart
<1>3. position' \in 0..Total
  BY DEF FileInv, StreamInv, PositionOK, PositionOnDisk
<1> QED  BY <1>2, <1>3 DEF Plain!Move, Seen, Shown, Unsure

(* A write under way changes parts of its range at any time; a commit      *)
(* changes nothing that is seen.                                           *)
LEMMA ProgressStep ==
  ASSUME FileInv, FileInv', ~behind, ~behind',
         WriteBlock \/ CommitCount \/ CommitPointer, UNCHANGED position
  PROVE  Plain!Progress
<1>1. may' = may
  BY DEF WriteBlock, CommitCount, CommitPointer
<1>2. Plain!ChangesOnly(Unsure) /\ Unsure' = Unsure
  BY <1>1, ChangesUnsure
<1> QED  BY <1>2 DEF Plain!Progress, Unsure

(* A call of write makes its range unsure, and changes nothing yet.        *)
LEMMA BeginStep ==
  ASSUME FileInv, FileInv', StreamWrite
  PROVE  \E n \in 1..Total-position : Plain!BeginWrite(n)
<1>1. PICK len \in 1..Total+1 : BeginWrite(position, position + Fitting(len))
  BY DEF StreamWrite
<1> DEFINE n == Fitting(len)
<1>2. position \in 0..Total-1 /\ Total \in Nat /\ position' = position
  BY TotalIsNat DEF StreamWrite, FileInv, StreamInv, PositionOK, PositionOnDisk
<1>3. n \in 1..Total-position
  <2>1. len \in Int /\ Total - position \in Int
    BY <1>2
  <2>2. n = IF len <= Total - position THEN len ELSE Total - position
    BY <2>1, MinMax DEF Fitting
  <2> QED  BY <1>2, <2>2
<1>4. /\ may' = [i \in Position |-> IF i >= position /\ i < position + n
                                     THEN may[i] \cup {writes'} ELSE may[i]]
      /\ UNCHANGED <<table, area, session>>
      /\ op'.pc = "write" /\ op'.from = position /\ op'.to = position + n
  BY <1>1 DEF BeginWrite
<1>5. Seen' = Seen
  BY <1>4 DEF Seen, Shown, ReadPart
<1> HIDE DEF n
<1>6. Plain!Ahead(n) = position..position+n-1 /\ position..position+n-1 \subseteq Position
  BY <1>2, <1>3, TotalIsNat DEF Plain!Ahead
<1>7. \A i \in position..position+n-1 : Several(may'[i])
  <2>1. op'.pc # "idle" /\ RangeOK'
    BY <1>4 DEF FileInv
  <2>2. \A i \in op'.from..op'.to-1 : Several(may'[i])
    BY <2>1 DEF RangeOK
  <2>3. op'.from = position /\ op'.to = position + n
    BY <1>4
  <2>4. position..position+n-1 = op'.from..op'.to-1
    <3>1. position \in Int /\ n \in Int
      BY <1>2, <1>3
    <3> QED  BY <2>3, <3>1
  <2> QED  BY <2>2, <2>4
<1>8. \A i \in Position \ (position..position+n-1) : may'[i] = may[i]
  BY <1>2, <1>3, <1>4, TotalIsNat
<1>9. \A i \in Position : Several(may'[i]) <=> Several(may[i]) \/ i \in position..position+n-1
  BY <1>7, <1>8
<1>10. Unsure' = Unsure \cup (position..position+n-1)
  <2>1. Unsure = {i \in Position : Several(may[i])} /\ Unsure' = {i \in Position : Several(may'[i])}
    BY UnsureParts DEF FileInv, StreamInv, Inv
  <2> QED  BY <1>6, <1>9, <2>1
<1>11. Plain!BeginWrite(n)
  BY <1>2, <1>5, <1>6, <1>10 DEF Plain!BeginWrite, Seen, Shown, Unsure
<1> QED  BY <1>3, <1>11

(* A call that returns has written its range, and the cursor passes it.    *)
LEMMA EndStep ==
  ASSUME FileInv, FileInv', ~behind, ~behind', StreamWriteReturns
  PROVE  \E n \in 1..Total-position : \E value \in Value : Plain!EndWrite(n, value)
<1> DEFINE n == op.to - op.from
<1>1. /\ op.pc # "idle" /\ op.at = op.to /\ session.open
      /\ may' = [i \in Position |-> IF i >= op.from /\ i < op.to THEN {writes} ELSE may[i]]
      /\ UNCHANGED <<table, area>>
      /\ session'.open = session.open /\ session'.pointers = session.pointers
      /\ position' = position + n
  <2>1. op.pc # "idle" /\ op.at = op.to /\ OpOK /\ session \in Sessions
    BY DEF StreamWriteReturns, CommitNothing, CommitEnds, FileInv, StreamInv, Inv, OpOK, Typed
  <2> QED  BY <2>1 DEF StreamWriteReturns, CommitNothing, CommitEnds, WriteReturns, OpOK, Sessions
<1>2. /\ position = op.from /\ op.from \in 0..Total /\ op.to \in 0..Total /\ op.from < op.to
      /\ Total \in Nat /\ writes \in Value
      /\ \A i \in op.from..op.to-1 : Several(may[i])
  BY <1>1, TotalIsNat DEF FileInv, RangeOK, StreamInv, PositionOK, Inv, Typed, Ops, Value
<1>3. n \in 1..Total-position /\ position + n - 1 = op.to - 1
  BY <1>2
<1>4. Plain!Ahead(n) = op.from..op.to-1 /\ op.from..op.to-1 \subseteq Position
  BY <1>2, <1>3, TotalIsNat DEF Plain!Ahead
<1> HIDE DEF n
<1>5. \A i \in op.from..op.to-1 : may'[i] = {writes}
  BY <1>1, <1>2, <1>4
<1>6. \A i \in Position \ (op.from..op.to-1) : may'[i] = may[i]
  BY <1>1, <1>2, TotalIsNat
<1>7. Seen' = Seen
  BY <1>1 DEF Seen, Shown, ReadPart
<1>8. Plain!ChangesOnly(Plain!Ahead(n))
  <2>1. \A i \in Position : Shown(i)' = Shown(i)
    BY <1>1 DEF Shown, ReadPart
  <2> QED  BY <2>1, Changes
<1>9. \A i \in Plain!Ahead(n) : Seen'[i] = writes
  <2>1. \A i \in Position : Shown(i)' \in may'[i]
    BY ShownMay DEF FileInv
  <2>2. \A i \in Position : Seen'[i] = Shown(i)'
    BY DEF Seen
  <2> QED  BY <1>4, <1>5, <2>1, <2>2
<1>10. Unsure' = Unsure \ Plain!Ahead(n) /\ Plain!Ahead(n) \subseteq Unsure
  <2>1. Unsure = {i \in Position : Several(may[i])} /\ Unsure' = {i \in Position : Several(may'[i])}
    BY UnsureParts DEF FileInv, StreamInv, Inv
  <2>2. \A i \in op.from..op.to-1 : ~Several(may'[i])
    BY <1>5 DEF Several
  <2> QED  BY <1>2, <1>4, <1>6, <2>1, <2>2
<1>11. Plain!EndWrite(n, writes)
  BY <1>1, <1>8, <1>9, <1>10 DEF Plain!EndWrite, Seen, Shown, Unsure
<1> QED  BY <1>2, <1>3, <1>11

(* A failed write leaves its range unsure, and the block that could not be *)
(* allocated; the cursor stays.                                            *)
LEMMA FailStep ==
  ASSUME FileInv, FileInv', ~behind, ~behind', StreamWriteFails
  PROVE  Plain!FailWrite
<1>1. position' = position
  BY DEF StreamWriteFails
<1>2. Unsure = {i \in Position : Several(may[i])} /\ Unsure' = {i \in Position : Several(may'[i])}
  BY UnsureParts DEF FileInv, StreamInv, Inv
<1>3. \A i \in Position : i \notin Unsure' => i \notin Unsure /\ may'[i] = may[i]
  <2>1. CASE CommitFails
    BY <1>2, <2>1 DEF CommitFails
  <2>2. CASE WriteBlockFails
    <3>1. may' = [i \in Position |->
                    IF ~Allocated /\ i \div Parts = Current THEN Value
                    ELSE IF i \in op.at..End-1 THEN may[i] \cup {Torn} ELSE may[i]]
      BY <2>2 DEF WriteBlockFails
    <3>2. Several(Value)
      <4>1. Torn \in Value /\ Missing \in Value /\ Torn # Missing
        BY DEF Value, Torn, Missing
      <4> QED  BY <4>1 DEF Several
    <3> SUFFICES ASSUME NEW i \in Position, ~Several(may'[i])
                 PROVE  ~Several(may[i]) /\ may'[i] = may[i]
      BY <1>2
    <3>3. MayOK
      BY DEF FileInv
    <3>4. CASE may'[i] = Value
      BY <3>2, <3>4
    <3>5. CASE may'[i] = may[i]
      BY <3>5
    <3>6. CASE may'[i] = may[i] \cup {Torn}
      <4>1. ~Several(may[i])
        BY <3>6 DEF Several
      <4>2. PICK v \in 0..writes : may[i] = {v}
        BY <3>3, <4>1 DEF MayOK
      <4>3. v # Torn
        BY DEF Torn
      <4> QED  BY <3>6, <4>2, <4>3 DEF Several
    <3> QED  BY <3>1, <3>4, <3>5, <3>6
  <2> QED  BY <2>1, <2>2 DEF StreamWriteFails
<1>4. Plain!ChangesOnly(Unsure')
  <2>1. \A i \in Position \ Unsure' : Shown(i)' = Shown(i)
    BY <1>3, CertainStays
  <2> QED  BY <2>1, Changes
<1>5. Unsure \subseteq Unsure'
  BY <1>3 DEF Unsure
<1>6. \A i \in Unsure' : \E j \in Unsure : i \in {k \in Position : k \div Parts = j \div Parts}
  <2> SUFFICES ASSUME NEW i \in Unsure'
               PROVE  \E j \in Unsure : i \in {k \in Position : k \div Parts = j \div Parts}
    OBVIOUS
  <2>1. i \in Position
    BY <1>2
  <2>2. CASE i \in Unsure
    BY <2>1, <2>2
  <2>3. CASE i \notin Unsure
    <3>1. WriteBlockFails
      BY <1>2, <2>3 DEF StreamWriteFails, CommitFails
    <3>2. WritingBlock /\ Typed /\ OpOK
      BY <3>1 DEF WriteBlockFails, FileInv, StreamInv, Inv
    <3>3. /\ op.at \in Position /\ End \in op.at+1..op.to
          /\ \A k \in Position : k \in op.at..End-1 => k \div Parts = Current
      BY <3>2, Touched
    <3>4. /\ op.pc # "idle" /\ op.from <= op.at /\ op.at < op.to
          /\ op.from \in Int /\ op.at \in Int /\ op.to \in Int
      BY <3>2, TotalIsNat DEF WritingBlock, OpOK, Typed, Ops
    <3>5. op.at \in op.from..op.to-1
      BY <3>4
    <3>6. op.at \in Unsure
      BY <1>2, <3>3, <3>4, <3>5 DEF FileInv, RangeOK
    <3>7. i \div Parts = op.at \div Parts
      <4>1. may'[i] # may[i]
        BY <1>2, <2>1, <2>3
      <4>2. may'[i] = IF ~Allocated /\ i \div Parts = Current THEN Value
                      ELSE IF i \in op.at..End-1 THEN may[i] \cup {Torn} ELSE may[i]
        BY <2>1, <3>1 DEF WriteBlockFails
      <4>3. i \div Parts = Current
        BY <2>1, <3>3, <4>1, <4>2
      <4> QED  BY <4>3 DEF Current
    <3> QED  BY <2>1, <3>6, <3>7
  <2> QED  BY <2>2, <2>3
<1> QED  BY <1>1, <1>4, <1>5, <1>6 DEF Plain!FailWrite, Seen, Shown, Unsure

-----------------------------------------------------------------------------
(* Once behind, always behind.                                             *)
LEMMA StaysBehind == FileInv /\ [StreamNext]_streamVars => (behind => behind') /\ behind \in BOOLEAN
<1> SUFFICES ASSUME FileInv, [StreamNext]_streamVars, behind PROVE behind'
  BY DEF FileInv, StreamInv, Inv, Typed
<1>1. [Next]_vars
  BY StreamNextInv DEF FileInv
<1> QED  BY <1>1 DEF Next, vars, Open, Close, StartWrite, BeginWrite, WriteBlock, WriteBlockFails,
                    NotesAllocation, CommitNothing, CommitCount, CommitPointer, CommitEnds, CommitFails

(* Every step of the stream is one of the plain file, or changes nothing.  *)
LEMMA PlainNext ==
  FileInv /\ FileInv' /\ [StreamNext]_streamVars => Plain!Next \/ UNCHANGED plainVars
<1> SUFFICES ASSUME FileInv, FileInv', [StreamNext]_streamVars
             PROVE  Plain!Next \/ UNCHANGED plainVars
  OBVIOUS
<1>1. CASE behind'
  BY <1>1 DEF Plain!Next
<1>2. CASE ~behind'
  <2>1. ~behind /\ behind' = behind
    <3>1. behind \in BOOLEAN /\ behind' \in BOOLEAN
      BY DEF FileInv, StreamInv, Inv, Typed
    <3> QED  BY <1>2, <3>1, StaysBehind
  <2>2. CASE StreamOpen \/ StreamClose
    BY <1>2, <2>1, <2>2, ReopenStep DEF Plain!Next
  <2>3. CASE StreamSeek \/ StreamRead
    BY <2>1, <2>3, MoveStep DEF Plain!Next
  <2>4. CASE StreamWrite
    BY <2>1, <2>4, BeginStep DEF Plain!Next
  <2>5. CASE StreamWriteReturns
    BY <1>2, <2>1, <2>5, EndStep DEF Plain!Next
  <2>6. CASE StreamWriteFails
    BY <1>2, <2>1, <2>6, FailStep DEF Plain!Next
  <2>7. CASE (WriteBlock \/ CommitCount \/ CommitPointer) /\ UNCHANGED position
    BY <1>2, <2>1, <2>7, ProgressStep DEF Plain!Next
  <2>8. CASE UNCHANGED streamVars
    BY <2>8 DEF streamVars, vars, plainVars, Seen, Shown, Unsure, ReadPart
  <2> QED  BY <2>2, <2>3, <2>4, <2>5, <2>6, <2>7, <2>8 DEF StreamNext
<1> QED  BY <1>1, <1>2

(* A virtual disk read and written through its stream implements a plain   *)
(* file with a cursor, whatever fails and however often it is reopened,    *)
(* until a program that found blocks allocated allocates more.             *)
THEOREM StreamIsPlainFile == StreamSpec => PlainSpec
<1>1. StreamInit => FileInv /\ Plain!Init
  BY FileInit
<1>2. FileInv /\ [StreamNext]_streamVars => FileInv'
  BY FileNext
<1>3. FileInv /\ FileInv' /\ [StreamNext]_streamVars
      => [Plain!Next]_<<[i \in Position |->
                           ReadPart(IF session.open THEN session.pointers ELSE table, i)],
                        {i \in Position : Cardinality(may[i]) > 1}, position, behind>>
  BY PlainNext DEF plainVars, Seen, Shown, Unsure
<1> QED  BY <1>1, <1>2, <1>3, PTL DEF StreamSpec, PlainSpec, Plain!Spec
=============================================================================
