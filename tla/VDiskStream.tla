----------------------------- MODULE VDiskStream -----------------------------
(***************************************************************************)
(* VDiskStream (crate vdisk): a position over a virtual disk, moved by     *)
(* reads, writes and seeks.  While it exists the stream has the disk to    *)
(* itself, so every write of VDisk is one of the stream's.                 *)
(***************************************************************************)
EXTENDS VDisk

CONSTANT Half   \* half the range of the numbers that positions are computed
                \* in, 2^63 for the u64 and i64 of the code

ASSUME HalfAssumption == Half \in Nat \ {0} /\ Total < Half

VARIABLE position

streamVars == <<vars, position>>

U64 == 0..2*Half-1
I64 == -Half..Half-1
AsU64(n) == n % (2*Half)

-----------------------------------------------------------------------------
StreamInit == Init /\ position = 0

(* A program opens the disk and makes a stream.                            *)
StreamOpen == Open /\ position' = 0
StreamClose == Close /\ position' = 0

(* Seeks: where a call would go.  Negating the least i64 panics in a build *)
(* that checks for overflow, which is a StreamClose.                       *)
(* Mutant: the subtraction wraps.                                          *)
RelativeWraps(offset) ==
  IF offset >= 0 THEN Min({position + offset, 2*Half - 1})
  ELSE AsU64(position - AsU64(-offset))
RelativeTarget(offset) ==
  IF offset >= 0 THEN Min({position + offset, 2*Half - 1})
  ELSE Max({position - AsU64(-offset), 0})

EndRefuses(offset) == offset > 0 \/ AsU64(-offset) > Total
EndTarget(offset) == AsU64(Total + AsU64(-offset))

Targets == U64 \cup {RelativeTarget(offset) : offset \in I64}
               \cup {EndTarget(offset) : offset \in {o \in I64 : ~EndRefuses(o)}}

(* Beyond the disk a seek fails and the position stays.                    *)
(* Mutant: the end of the disk taken for the last position too late.       *)
ReachesPast(target) == target <= Total + 1
Reaches(target) == target <= Total

StreamSeek ==
  /\ session.open
  /\ op = NoOp
  /\ position' \in {target \in Targets : Reaches(target)}
  /\ UNCHANGED vars

(* How much of a buffer the rest of the disk can take or give.             *)
Fitting(len) == Min({len, Total - position})

(* At the end a read returns 0 bytes.  A read that cannot get all it asks  *)
(* of the file fails, and the position stays.                              *)
StreamRead ==
  /\ session.open
  /\ op = NoOp
  /\ position < Total
  /\ \E len \in 1..Total+1 :
       /\ \A i \in position..position+Fitting(len)-1 :
            ReadPart(session.pointers, i) # Missing
       /\ position' = position + Fitting(len)
  /\ UNCHANGED vars

StreamWrite ==
  /\ position < Total
  /\ \E len \in 1..Total+1 : BeginWrite(position, position + Fitting(len))
  /\ UNCHANGED position

(* What write returns, the number of bytes or an error, moves the position *)
(* or not.                                                                 *)
StreamWriteReturns ==
  /\ CommitNothing \/ CommitEnds
  /\ position' = position + (op.to - op.from)
(* Mutant: moves past what was written before the error.                   *)
StreamWriteStops ==
  /\ WriteBlockFails \/ CommitFails
  /\ position' = op.at
StreamWriteFails ==
  /\ WriteBlockFails \/ CommitFails
  /\ UNCHANGED position

StreamNext ==
  \/ StreamOpen \/ StreamClose
  \/ StreamSeek \/ StreamRead
  \/ StreamWrite \/ StreamWriteReturns \/ StreamWriteFails
  \/ (WriteBlock \/ CommitCount \/ CommitPointer) /\ UNCHANGED position

StreamSpec == StreamInit /\ [][StreamNext]_streamVars

-----------------------------------------------------------------------------
(* Properties.                                                             *)

(* The position stays within the disk, its end included, whatever mixture  *)
(* of seeks, short reads and short writes led to it: the subtractions      *)
(* `block_count * BLOCK_SIZE64 - self.position` never go below 0.          *)
PositionOnDisk == position \in 0..Total

(* Whatever the position, a relative seek goes where the sum of position   *)
(* and offset is when that is on the disk, to the start when it is below   *)
(* 0, and fails beyond the end, no width of numbers getting in the way; a  *)
(* seek from the end goes to the end or fails.                             *)
SeeksLand ==
  /\ \A offset \in I64 :
       LET exact == position + offset
       IN  IF exact > Total THEN RelativeTarget(offset) > Total
           ELSE RelativeTarget(offset) = Max({0, exact})
  /\ \A offset \in I64 :
       EndRefuses(offset) \/ EndTarget(offset) > Total \/ (offset = 0 /\ EndTarget(0) = Total)

(* The disk read through the stream is a plain file with a cursor: a part  *)
(* changes only while a write to it is under way or once one has failed,   *)
(* across crashes and reopenings too; the cursor passes just what was      *)
(* written and stays when a write fails.  After a program that found       *)
(* blocks allocated has allocated more (behind), no promise is left.       *)
Plain == INSTANCE PlainFile WITH
  Size <- Total,
  Content <- Value,
  Cluster <- LAMBDA i : {j \in Position : j \div Parts = i \div Parts},
  content <- [i \in Position |->
                ReadPart(IF session.open THEN session.pointers ELSE table, i)],
  unsure <- {i \in Position : Cardinality(may[i]) > 1},
  cursor <- position,
  ruined <- behind
PlainSpec == Plain!Spec
=============================================================================
