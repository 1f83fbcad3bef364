-------------------------------- MODULE VDisk --------------------------------
(***************************************************************************)
(* The virtual disk (crate vdisk): a file with a header, a table of block  *)
(* pointers and the blocks that were ever written, in the order in which   *)
(* they were allocated.  One program has the file open at a time; it can   *)
(* fail in the middle of a write, be killed, and open the file again.      *)
(***************************************************************************)
EXTENDS Integers, Sequences, FiniteSets, FiniteSetsExt

CONSTANTS
  Blocks,       \* block_count
  Parts,        \* a block is divided into parts, the unit of a write
  MaxWrites,    \* bound: how many calls of write are made
  MaxSessions   \* bound: how often the file is opened

ASSUME ConstantsAssumption ==
  /\ Blocks \in Nat \ {0} /\ Parts \in Nat \ {0}
  /\ MaxWrites \in Nat /\ MaxSessions \in Nat \ {0}

Block == 0..Blocks-1
Position == 0..Blocks*Parts-1   \* of a part on the disk
Total == Blocks * Parts

VARIABLES
  header,    \* the first words of the file, of eight bytes each
  table,     \* the block table in the file
  area,      \* the parts that follow the table in the file
  session,   \* the VDisk object
  op,        \* the call of write that is being executed
  writes,    \* how many were made
  sessions,  \* how often the file was opened
  may,       \* history: what a read of each part may return
  behind     \* history: a program that found blocks allocated allocated more

vars == <<header, table, area, session, op, writes, sessions, may, behind>>

-----------------------------------------------------------------------------
(* The file.                                                               *)

(* The n-th write writes n everywhere; Torn is what a write that failed    *)
(* can leave, and Missing a read past the end of the file.                 *)
Zero == 0
Torn == -1
Missing == -2
Written == 0..MaxWrites
Value == Written \cup {Torn, Missing}

(* Words: magic and version, four of the serial, block_count and           *)
(* allocated_block_count.  "r" is a word of the random serial.             *)
Word == 0..6
SerialWords == 1..4
CountWord == 6
NewHeader == [w \in Word |-> IF w = 0 THEN "GNAF 1"
                             ELSE IF w \in SerialWords THEN "r"
                             ELSE IF w = 5 THEN Blocks ELSE 0]

(* ALLOCATED_BLOCKS_OFFSET, 16 bytes into the file.                        *)
CommittedWord == 2

(* A pointer is 0 or the number of a block of the file, counted from 1.    *)
Null == 0
Start(pointer) == (pointer - 1) * Parts
NumPointers(t) == Cardinality({b \in Block : t[b] # Null})

(* write_all at a place of the file: what it skips past the end reads 0.   *)
Overwrite(file, at, values) ==
  [i \in 1..Max({Len(file), at + Len(values)}) |->
     IF i > at /\ i <= at + Len(values) THEN values[i - at]
     ELSE IF i <= Len(file) THEN file[i] ELSE Zero]

(* read_block_with_offset, for one part.                                   *)
ReadPart(t, i) ==
  LET pointer == t[i \div Parts]
      at == Start(pointer) + (i % Parts) + 1
  IN  IF pointer = Null THEN Zero
      ELSE IF at > Len(area) THEN Missing ELSE area[at]


-----------------------------------------------------------------------------
Closed == [open |-> FALSE, allocated |-> 0, pointers |-> [b \in Block |-> Null],
           uncommitted |-> {}, found |-> FALSE]
NoOp == [pc |-> "idle", from |-> 0, to |-> 0, at |-> 0, left |-> {}]

(* create returns the new disk, opened.                                    *)
Init ==
  /\ header = NewHeader
  /\ table = [b \in Block |-> Null]
  /\ area = <<>>
  /\ session = [Closed EXCEPT !.open = TRUE]
  /\ op = NoOp
  /\ writes = 0
  /\ sessions = 1
  /\ may = [i \in Position |-> {Zero}]
  /\ behind = FALSE

Open ==
  /\ ~session.open
  /\ sessions < MaxSessions
  /\ sessions' = sessions + 1
  /\ session' = [open |-> TRUE, allocated |-> header[CountWord], pointers |-> table,
                 uncommitted |-> {}, found |-> NumPointers(table) > 0]
  /\ UNCHANGED <<header, table, area, op, writes, may, behind>>

(* The object is dropped, or the program killed, between any two steps.    *)
Close ==
  /\ session.open
  /\ session' = Closed
  /\ op' = NoOp
  /\ UNCHANGED <<header, table, area, writes, sessions, may, behind>>

-----------------------------------------------------------------------------
(* write: a range of parts, block by block, and then commit_changes.       *)

BeginWrite(from, to) ==
  /\ session.open
  /\ op = NoOp
  /\ writes < MaxWrites
  /\ writes' = writes + 1
  /\ op' = [pc |-> "write", from |-> from, to |-> to, at |-> from, left |-> {}]
  /\ may' = [i \in Position |->
               IF i >= from /\ i < to THEN may[i] \cup {writes'} ELSE may[i]]
  /\ UNCHANGED <<header, table, area, session, sessions, behind>>

StartWrite == \E from \in Position : \E to \in from+1..Total : BeginWrite(from, to)

(* write_block_with_offset for the rest of the range in one block.         *)
Current == op.at \div Parts
End == Min({op.to, (Current + 1) * Parts})
WritingBlock == op.pc = "write" /\ op.at < op.to

Allocated == session.pointers[Current] # Null
(* file_size: where the next block goes.                                   *)
(* Mutant: leaves out the header and the table.                            *)
PointerFromZero == session.allocated
NextPointer == session.allocated + 1

(* What is written to the file, and where: to a new block, zeroes too.     *)
Target == IF Allocated THEN Start(session.pointers[Current]) + (op.at % Parts)
          ELSE Start(NextPointer)
(* Mutant: a new block is not filled up with zeroes.                       *)
DataOnly == [i \in 1..End-op.at |-> writes]
Data ==
  IF Allocated THEN [i \in 1..End-op.at |-> writes]
  ELSE [i \in 1..Parts |->
          IF Current * Parts + i - 1 \in op.at..End-1 THEN writes ELSE Zero]

(* The object knows the block before the file has it.                      *)
(* Mutant: the count of blocks stays.                                      *)
AllocateUncounted ==
  session' = IF Allocated THEN session
             ELSE [session EXCEPT !.pointers[Current] = NextPointer,
                                  !.uncommitted = @ \cup {Current}]
Allocate ==
  session' = IF Allocated THEN session
             ELSE [session EXCEPT !.pointers[Current] = NextPointer,
                                  !.uncommitted = @ \cup {Current},
                                  !.allocated = @ + 1]
NotesAllocation == behind' = (behind \/ (~Allocated /\ session.found))

WriteBlock ==
  /\ WritingBlock
  /\ Allocate
  /\ area' = Overwrite(area, Target, Data)
  /\ op' = [op EXCEPT !.at = End]
  /\ NotesAllocation
  /\ UNCHANGED <<header, table, writes, sessions, may>>

(* The file cannot be written any further: some of the data is there, and  *)
(* write returns the error.  A block allocated for it stays allocated.     *)
WriteBlockFails ==
  /\ WritingBlock
  /\ Allocate
  /\ \E n \in 0..Len(Data)-1 : \E torn \in {<<>>, <<Torn>>} :
       area' = IF n = 0 /\ torn = <<>> THEN area
               ELSE Overwrite(area, Target, SubSeq(Data, 1, n) \o torn)
  /\ op' = NoOp
  /\ may' = [i \in Position |->
               IF ~Allocated /\ i \div Parts = Current THEN Value
               ELSE IF i \in op.at..End-1 THEN may[i] \cup {Torn} ELSE may[i]]
  /\ NotesAllocation
  /\ UNCHANGED <<header, table, writes, sessions>>

WriteReturns ==
  /\ op' = NoOp
  /\ may' = [i \in Position |-> IF i >= op.from /\ i < op.to THEN {writes} ELSE may[i]]

CommitNothing ==
  /\ op.pc = "write"
  /\ op.at = op.to
  /\ session.uncommitted = {}
  /\ WriteReturns
  /\ UNCHANGED <<header, table, area, session, writes, sessions, behind>>

CommitCount ==
  /\ op.pc = "write"
  /\ op.at = op.to
  /\ session.uncommitted # {}
  /\ header' = [header EXCEPT ![CommittedWord] = session.allocated]
  /\ op' = [op EXCEPT !.pc = "commit", !.left = session.uncommitted]
  /\ UNCHANGED <<table, area, session, writes, sessions, may, behind>>

CommitPointer ==
  /\ op.pc = "commit"
  /\ op.left # {}
  /\ LET b == Min(op.left)
     IN  /\ table' = [table EXCEPT ![b] = session.pointers[b]]
         /\ op' = [op EXCEPT !.left = @ \ {b}]
  /\ UNCHANGED <<header, area, session, writes, sessions, may, behind>>

(* Mutant: the commit ends with its first pointer.                         *)
CommitEndsEarly ==
  /\ op.pc = "commit"
  /\ op.left # session.uncommitted
  /\ session' = [session EXCEPT !.uncommitted = {}]
  /\ WriteReturns
  /\ UNCHANGED <<header, table, area, writes, sessions, behind>>
CommitEnds ==
  /\ op.pc = "commit"
  /\ op.left = {}
  /\ session' = [session EXCEPT !.uncommitted = {}]
  /\ WriteReturns
  /\ UNCHANGED <<header, table, area, writes, sessions, behind>>

(* The header or the table cannot be written: the blocks stay uncommitted, *)
(* and the next write commits them.                                        *)
CommitFails ==
  /\ \/ op.pc = "write" /\ op.at = op.to /\ session.uncommitted # {}
     \/ op.pc = "commit" /\ op.left # {}
  /\ op' = NoOp
  /\ UNCHANGED <<header, table, area, session, writes, sessions, may, behind>>

Next ==
  \/ Open \/ Close
  \/ StartWrite \/ WriteBlock \/ WriteBlockFails
  \/ CommitNothing \/ CommitCount \/ CommitPointer \/ CommitEnds \/ CommitFails

Spec == Init /\ [][Next]_vars

-----------------------------------------------------------------------------
(* Properties.                                                             *)

(* Every pointer the object has was allocated in this session or read from *)
(* the file, and uncommitted blocks are allocated.                         *)
TypeOK ==
  /\ DOMAIN header = Word
  /\ table \in [Block -> Nat]
  /\ area \in Seq(Written \cup {Torn})
  /\ session.allocated \in 0..Blocks
  /\ session.pointers \in [Block -> Nat]
  /\ \A b \in session.uncommitted : session.pointers[b] # Null
  /\ op.pc \in {"idle", "write", "commit"} /\ op.left \subseteq session.uncommitted
  /\ op.at \in op.from..op.to /\ op.to \in 0..Total

(* Between two calls, the object reads what was written last, or 0 where   *)
(* nothing was, whatever failed before; only a part that a failed write    *)
(* was to change, or whose block it was to allocate, may read otherwise.   *)
SessionReads ==
  ~behind /\ session.open /\ op = NoOp =>
    \A i \in Position : ReadPart(session.pointers, i) \in may[i]

(* The same holds at any moment of what the file would show to a program   *)
(* that opened it: the data of a block is there before its pointer, and    *)
(* its pointer when write returns.                                         *)
FileReads == ~behind => \A i \in Position : ReadPart(table, i) \in may[i]

(* Blocks have their own places in the file, in the object as on disk,     *)
(* unless a program that found allocated blocks allocated more.            *)
Apart(t) == \A a, b \in Block : t[a] # Null /\ t[a] = t[b] => a = b
OwnPlaces == ~behind => Apart(table) /\ Apart(session.pointers)

(* lib.rs: a commit records the header, whose count says how many blocks   *)
(* there are (design.md).  So what was written without an error is read    *)
(* back in any session, whatever was written to other blocks since.        *)
Undisturbed == op = NoOp /\ \A i \in Position : Cardinality(may[i]) = 1
ReadsSurviveReopening ==
  Undisturbed /\ session.open =>
    \A i \in Position : ReadPart(session.pointers, i) \in may[i]
=============================================================================
