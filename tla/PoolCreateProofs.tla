-------------------------- MODULE PoolCreateProofs --------------------------
(***************************************************************************)
(* What holds of the creation of pools for any number of commands, disks,  *)
(* database files and disks per pool.                                      *)
(***************************************************************************)
EXTENDS PoolCreate, LeastNumbers, FiniteSetTheorems, SequenceTheorems, TLAPS

-----------------------------------------------------------------------------
(* Types.                                                                  *)

Row == [path : Disk, size : Nat]
Database == [schema : 0..3, disks : Seq(Row), superblocks : SUBSET Nat]
Device == {Absent} \cup [length : Nat, header : Nat \cup {NoHeader}]
Working == {"remove", "connect", "schema", "register", "superblocks",
            "open", "info", "make", "lengthen", "head"}
Command == [pc : Ended \cup Working, args : Seq(Disk), rows : Seq(Row),
            file : File \cup {NoFile}, step : 0..3, size : Nat, answer : Int,
            alone : BOOLEAN]

Typed ==
  /\ path \in File \cup {NoFile}
  /\ file \in [File -> Database]
  /\ device \in [Disk -> Device]
  /\ run \in [Proc -> Command]
  /\ finished \subseteq File

-----------------------------------------------------------------------------
(* The inductive invariant.                                                *)

(* A file has either nothing of a pool, or all disks, or is finished.      *)
FileOK(f) ==
  /\ file[f].disks # <<>> => file[f].schema = 3 /\ Len(file[f].disks) \in PoolSizes
  /\ file[f].superblocks # {} => f \in finished
  /\ f \in finished => /\ file[f].disks # <<>>
                       /\ file[f].superblocks = NewSuperblocks(file[f].disks)

(* A command that has made the first table goes on alone: the file is as   *)
(* far as the command is.                                                  *)
StepOK(c) ==
  c.step > 0 => /\ c.pc \in {"schema", "register", "superblocks"}
                /\ file[c.file].schema = c.step
                /\ file[c.file].superblocks = {}
                /\ c.file \notin finished
                /\ c.pc # "superblocks" => file[c.file].disks = <<>>

PhaseOK(c) ==
  /\ c.pc \in {"schema", "register", "superblocks", "info", "answered"} => c.file \in File
  /\ c.pc \in {"remove", "connect", "schema", "register"} => Len(c.args) \in PoolSizes
  /\ c.pc \in {"remove", "connect", "schema"} => c.rows = <<>>
  /\ c.pc = "schema" => c.step < 3
  /\ c.pc \in {"register", "superblocks"} => c.step = 3
  /\ c.pc = "register" => Len(c.rows) <= Len(c.args)
  /\ c.pc = "superblocks" => c.rows = file[c.file].disks /\ Len(c.rows) \in PoolSizes

(* What a command without company has seen is still so.                    *)
AloneOK(c) ==
  c.alone =>
    /\ c.pc # "failed"
    /\ c.pc = "remove" => path # NoFile
    /\ c.pc = "connect" => path = NoFile
    /\ c.pc \in {"schema", "register", "superblocks"} => c.file = path
    /\ c.pc = "schema" => file[c.file].schema = c.step

OneEach == \A p, q \in Proc :
  run[p].step > 0 /\ run[q].step > 0 /\ run[p].file = run[q].file => p = q

CommandOK(c) == StepOK(c) /\ PhaseOK(c) /\ AloneOK(c)

Inv ==
  /\ Typed
  /\ \A f \in File : FileOK(f)
  /\ \A p \in Proc : CommandOK(run[p])
  /\ OneEach

-----------------------------------------------------------------------------
(* Sizes and numbers of superblocks.                                       *)

(* The size of a disk, whatever kind it is opened as, is a number.         *)
LEMMA SizeIsNumber ==
  ASSUME device \in [Disk -> Device], NEW d \in Disk, Exists(d)
  PROVE  DeviceSize(d) \in Nat
BY SMT DEF Device, Exists, DeviceSize, IsVdisk, Absent, NoHeader, VDISK_BLOCK

(* A virtual disk has a natural number of blocks, and its table a length.  *)
LEMMA BlocksNumber ==
  ASSUME NEW n \in Nat PROVE BlocksFor(n) \in Nat /\ VdiskLength(BlocksFor(n)) \in Nat
BY SMT DEF BlocksFor, VdiskLength, VDISK_BLOCK, HEADER_SIZE

(* The smallest disk is one of them, and none is smaller.                  *)
LEMMA Smallest ==
  ASSUME NEW rows \in Seq(Row), rows # <<>>
  PROVE  /\ MinSize(rows) \in Nat
         /\ \E i \in DOMAIN rows : rows[i].size = MinSize(rows)
         /\ \A i \in DOMAIN rows : MinSize(rows) <= rows[i].size
<1> DEFINE sizes == {rows[i].size : i \in DOMAIN rows}
<1>1. \A i \in DOMAIN rows : rows[i] \in Row
  OBVIOUS
<1>2. sizes \subseteq Nat
  BY <1>1 DEF Row
<1>3. 1 \in DOMAIN rows
  BY EmptySeq, SMT
<1>4. sizes # {}
  BY <1>3
<1>5. \E n \in sizes : \A m \in sizes : n <= m
  <2> HIDE DEF sizes
  <2> QED  BY <1>2, <1>4, LeastNatural
<1>6. Min(sizes) \in sizes /\ \A m \in sizes : Min(sizes) <= m
  <2> HIDE DEF sizes
  <2> QED  BY <1>5 DEF Min
<1> QED  BY <1>2, <1>6 DEF MinSize

(* The superblocks of a pool fit on its disks, and one more would not.     *)
LEMMA Fit ==
  ASSUME NEW f \in File, file \in [File -> Database], f \in finished, FileOK(f)
  PROVE  Whole(f)
<1> DEFINE rows == file[f].disks
           min == MinSize(rows)
           k == min \div BLOCK_SIZE
<1>1. rows \in Seq(Row) /\ rows # <<>>
  BY DEF FileOK, Database
<1>2. /\ min \in Nat
      /\ \E i \in DOMAIN rows : rows[i].size = min
      /\ \A i \in DOMAIN rows : min <= rows[i].size /\ rows[i].size \in Nat
  <2>1. \A i \in DOMAIN rows : rows[i] \in Row
    BY <1>1
  <2> QED  BY <1>1, <2>1, Smallest DEF Row
<1>3. k \in Nat /\ k * BLOCK_SIZE <= min /\ min < k * BLOCK_SIZE + BLOCK_SIZE
  <2> HIDE DEF min
  <2> QED  BY <1>2, SMT DEF BLOCK_SIZE
<1>4. file[f].superblocks = 0..k-1
  BY DEF FileOK, NewSuperblocks
<1>5. Cardinality(0..k-1) = k
  <2> HIDE DEF k
  <2>1. 0 \in Int /\ k-1 \in Int
    BY <1>3
  <2>2. Cardinality(0..k-1) = IF 0 > k-1 THEN 0 ELSE k-1-0+1
    BY <2>1, FS_Interval
  <2> QED  BY <1>3, <2>2
<1> HIDE DEF rows, min, k
<1>6. Cardinality(file[f].superblocks) = k
  BY <1>4, <1>5
<1>7. k * BLOCK_SIZE \in Nat /\ BLOCK_SIZE \in Nat
  BY <1>3, SMT DEF BLOCK_SIZE
<1>8. \A i \in DOMAIN rows : k * BLOCK_SIZE <= rows[i].size
  <2> HIDE DEF BLOCK_SIZE
  <2> QED  BY <1>2, <1>3, <1>7
<1>9. \E i \in DOMAIN rows : rows[i].size < k * BLOCK_SIZE + BLOCK_SIZE
  BY <1>2, <1>3
<1>10. file[f].superblocks = 0..Cardinality(file[f].superblocks)-1
  BY <1>4, <1>6
<1> QED  BY <1>6, <1>8, <1>9, <1>10 DEF Whole, rows

-----------------------------------------------------------------------------
(* Steps of one command, and what they mean for the others.                *)

Moves(p) ==
  /\ run' \in [Proc -> Command]
  /\ \A q \in Proc \ {p} : run'[q] = [run[q] EXCEPT !.alone = FALSE]

(* Who is alone, and where a command is, can change within the type.       *)
LEMMA Changed ==
  ASSUME NEW c \in Command
  PROVE  /\ [c EXCEPT !.alone = FALSE] \in Command
         /\ \A pc \in Ended \cup Working : [c EXCEPT !.pc = pc] \in Command
<1>1. [c EXCEPT !.alone = FALSE] \in Command
  BY DEF Command
<1>2. ASSUME NEW pc \in Ended \cup Working PROVE [c EXCEPT !.pc = pc] \in Command
  BY DEF Command
<1> QED  BY <1>1, <1>2

(* A command that was never started.                                       *)
LEMMA IdleIsCommand == Idle \in Command
<1>1. <<>> \in Seq(Disk) /\ <<>> \in Seq(Row)
  OBVIOUS
<1>2. "idle" \in Ended /\ NoFile \in File \cup {NoFile} /\ 0 \in 0..3
  BY DEF Ended
<1> QED  BY <1>1, <1>2 DEF Idle, Command

(* A step that gives a command new locals is a move of that command.       *)
LEMMA BecomesMoves ==
  ASSUME Typed, NEW p \in Proc,
         run' = [q \in Proc |-> IF q = p THEN run'[p] ELSE [run[q] EXCEPT !.alone = FALSE]],
         run'[p] \in Command
  PROVE  Moves(p)
<1>1. ASSUME NEW q \in Proc \ {p}
      PROVE  run'[q] = [run[q] EXCEPT !.alone = FALSE] /\ run'[q] \in Command
  BY <1>1, Changed DEF Typed
<1>2. run' \in [Proc -> Command]
  <2>1. \A q \in Proc : run'[q] \in Command
    BY <1>1
  <2>2. DOMAIN run' = Proc /\ run' = [q \in Proc |-> run'[q]]
    OBVIOUS
  <2> QED  BY <2>1, <2>2
<1> QED  BY <1>1, <1>2 DEF Moves

(* Another command is where it was, with the file it is making.            *)
LEMMA OthersKeep ==
  ASSUME Inv, NEW p \in Proc, Moves(p), NEW q \in Proc \ {p},
         run[q].step > 0 => /\ file'[run[q].file] = file[run[q].file]
                            /\ run[q].file \notin finished'
  PROVE  CommandOK(run[q])'
<1>1. run[q] \in Command /\ CommandOK(run[q])
  BY DEF Inv, Typed
<1>2. /\ run'[q].alone = FALSE
      /\ run'[q].pc = run[q].pc /\ run'[q].args = run[q].args
      /\ run'[q].rows = run[q].rows /\ run'[q].file = run[q].file
      /\ run'[q].step = run[q].step
  BY <1>1 DEF Moves, Command
<1>3. StepOK(run[q])'
  BY <1>1, <1>2 DEF CommandOK, StepOK
<1>4. PhaseOK(run[q])'
  BY <1>1, <1>2, SMT DEF CommandOK, PhaseOK, Command
<1>5. AloneOK(run[q])'
  BY <1>2 DEF AloneOK
<1> QED  BY <1>3, <1>4, <1>5 DEF CommandOK

(* No two commands make tables in one file as long as none joins another.  *)
LEMMA OneEachKeeps ==
  ASSUME Inv, NEW p \in Proc, Moves(p),
         \A q \in Proc \ {p} : run'[p].step > 0 /\ run[q].step > 0 => run'[p].file # run[q].file
  PROVE  OneEach'
<1>1. \A q \in Proc \ {p} : run'[q].step = run[q].step /\ run'[q].file = run[q].file
  BY DEF Inv, Typed, Moves, Command
<1> QED  BY <1>1 DEF OneEach, Inv

(* A step that leaves the databases alone.                                 *)
LEMMA Keeps ==
  ASSUME Inv, NEW p \in Proc, Moves(p), UNCHANGED <<file, finished>>,
         path' \in File \cup {NoFile}, device' \in [Disk -> Device],
         CommandOK(run[p])',
         run'[p].step > 0 => run[p].step > 0 /\ run'[p].file = run[p].file
  PROVE  Inv'
<1>1. Typed'
  BY DEF Inv, Typed, Moves
<1>2. \A f \in File : FileOK(f)'
  BY DEF Inv, FileOK
<1>3. ASSUME NEW q \in Proc PROVE CommandOK(run[q])'
  <2>1. CASE q = p
    BY <2>1
  <2>2. CASE q # p
    <3>1. run[q].step > 0 => run[q].file \notin finished
      BY DEF Inv, CommandOK, StepOK
    <3> QED  BY <2>2, <3>1, OthersKeep
  <2> QED  BY <2>1, <2>2
<1>4. OneEach'
  BY OneEachKeeps DEF Inv, OneEach
<1> QED  BY <1>1, <1>2, <1>3, <1>4 DEF Inv

(* A command that has ended keeps nothing that could go wrong.             *)
LEMMA EndKeeps ==
  ASSUME Inv, NEW p \in Proc, NEW pc \in {"refused", "failed", "stopped"}, Ends(p, pc),
         pc = "failed" => ~run[p].alone,
         UNCHANGED <<path, file, device, finished>>
  PROVE  Inv'
<1>1. run \in [Proc -> Command]
  BY DEF Inv, Typed
<1>2. run' = [q \in Proc |-> IF q = p THEN [Idle EXCEPT !.pc = pc, !.alone = run[p].alone]
                             ELSE [run[q] EXCEPT !.alone = FALSE]]
  BY DEF Ends, Becomes
<1>3. /\ run'[p] \in Command /\ run'[p].pc = pc /\ run'[p].step = 0
      /\ run'[p].alone = run[p].alone
  <2>1. run[p].alone \in BOOLEAN /\ pc \in Ended
    BY <1>1 DEF Command, Ended
  <2>2. run'[p] = [Idle EXCEPT !.pc = pc, !.alone = run[p].alone]
    BY <1>2
  <2>3. [Idle EXCEPT !.pc = pc, !.alone = run[p].alone] \in Command
    BY <2>1, IdleIsCommand DEF Command
  <2> QED  BY <2>2, <2>3, IdleIsCommand DEF Idle
<1>4. Moves(p)
  <2>1. run' = [q \in Proc |-> IF q = p THEN run'[p] ELSE [run[q] EXCEPT !.alone = FALSE]]
    BY <1>2
  <2> QED  BY <1>3, <2>1, BecomesMoves DEF Inv
<1>5. CommandOK(run[p])'
  BY <1>3 DEF CommandOK, StepOK, PhaseOK, AloneOK
<1> QED  BY <1>3, <1>4, <1>5, Keeps DEF Inv, Typed

(* A step that changes one database, which nobody else is making.          *)
LEMMA KeepsOthers ==
  ASSUME Inv, NEW p \in Proc, Moves(p), NEW f \in File,
         file' = [file EXCEPT ![f] = file'[f]], file'[f] \in Database, FileOK(f)',
         path' \in File \cup {NoFile}, device' \in [Disk -> Device],
         finished' \subseteq File, \A g \in File \ {f} : g \in finished' <=> g \in finished,
         CommandOK(run[p])', run'[p].step > 0 => run'[p].file = f,
         \A q \in Proc \ {p} : run[q].step > 0 => run[q].file # f
  PROVE  Inv'
<1>1. \A g \in File \ {f} : file'[g] = file[g]
  BY DEF Inv, Typed
<1>2. Typed'
  BY <1>1 DEF Inv, Typed, Moves
<1>3. ASSUME NEW g \in File PROVE FileOK(g)'
  BY <1>1 DEF Inv, FileOK
<1>4. ASSUME NEW q \in Proc PROVE CommandOK(run[q])'
  <2>1. CASE q # p
    <3>1. ASSUME run[q].step > 0
          PROVE  file'[run[q].file] = file[run[q].file] /\ run[q].file \notin finished'
      <4>1. run[q] \in Command /\ StepOK(run[q]) /\ PhaseOK(run[q])
        BY DEF Inv, Typed, CommandOK
      <4>2. run[q].file \in File /\ run[q].file \notin finished
        BY <3>1, <4>1 DEF StepOK, PhaseOK
      <4> QED  BY <1>1, <2>1, <3>1, <4>2
    <3> QED  BY <2>1, <3>1, OthersKeep
  <2> QED  BY <2>1
<1>5. OneEach'
  BY OneEachKeeps
<1> QED  BY <1>2, <1>3, <1>4, <1>5 DEF Inv

-----------------------------------------------------------------------------
(* Every action keeps the invariant.                                       *)

LEMMA StartKeeps ==
  ASSUME Inv, NEW p \in Proc, NEW pc \in {"remove", "connect", "open", "make"},
         NEW args \in Seq(Disk), NEW size \in Nat, Start(p, pc, args, size),
         pc = "remove" => path # NoFile, pc = "connect" => path = NoFile,
         pc \in {"remove", "connect"} => Len(args) \in PoolSizes
  PROVE  Inv'
<1> DEFINE alone == \A q \in Proc \ {p} : run[q].pc \in Ended
<1>1. run' = [q \in Proc |-> IF q = p
               THEN [Idle EXCEPT !.pc = pc, !.args = args, !.size = size, !.alone = alone]
               ELSE [run[q] EXCEPT !.alone = FALSE]]
  BY DEF Start, Becomes
<1>2. alone \in BOOLEAN
  OBVIOUS
<1> HIDE DEF alone
<1>3. run'[p] = [Idle EXCEPT !.pc = pc, !.args = args, !.size = size, !.alone = alone]
  BY <1>1
<1>4. run'[p] \in Command
  BY <1>2, <1>3, IdleIsCommand DEF Command, Working
<1>5. Moves(p)
  <2>1. run' = [q \in Proc |-> IF q = p THEN run'[p] ELSE [run[q] EXCEPT !.alone = FALSE]]
    BY <1>1
  <2> QED  BY <1>4, <2>1, BecomesMoves DEF Inv
<1>6. /\ run'[p].pc = pc /\ run'[p].args = args /\ run'[p].rows = <<>>
      /\ run'[p].step = 0 /\ run'[p].file = NoFile
  BY <1>3 DEF Idle
<1>7. CommandOK(run[p])'
  BY <1>6 DEF CommandOK, StepOK, PhaseOK, AloneOK, Start
<1> QED  BY <1>5, <1>6, <1>7, Keeps DEF Start, Inv, Typed

(* Whatever is started.                                                    *)
LEMMA StartsKeep ==
  ASSUME Inv, NEW p \in Proc, StartCreate(p) \/ StartInfo(p) \/ StartVdisk(p)
  PROVE  Inv'
<1>1. CASE StartCreate(p)
  <2>1. PICK n \in PoolSizes : \E disks \in [1..n -> Disk] : Start(p, AfterExists, disks, 0)
    BY <1>1 DEF StartCreate
  <2>2. PICK disks \in [1..n -> Disk] : Start(p, AfterExists, disks, 0)
    BY <2>1
  <2>3. n \in Nat /\ disks \in Seq(Disk) /\ Len(disks) = n
    BY ConstantsAssumption
  <2>4. CASE path = NoFile
    BY <2>2, <2>3, <2>4, StartKeeps DEF AfterExists
  <2>5. CASE path # NoFile
    BY <2>2, <2>3, <2>5, StartKeeps DEF AfterExists
  <2> QED  BY <2>4, <2>5
<1>2. CASE StartInfo(p)
  BY <1>2, StartKeeps, EmptySeq DEF StartInfo
<1>3. CASE StartVdisk(p)
  <2>1. PICK d \in Disk, size \in Asked : Start(p, "make", <<d>>, size)
    BY <1>3 DEF StartVdisk
  <2>2. <<d>> \in Seq(Disk) /\ size \in Nat
    BY ConstantsAssumption
  <2> QED  BY <2>1, <2>2, StartKeeps
<1> QED  BY <1>1, <1>2, <1>3

(* A command stops or fails; alone, it does not fail.                      *)
LEMMA EndsKeep ==
  ASSUME Inv, NEW p \in Proc,
         Stop(p) \/ RemoveFails(p) \/ StatementFails(p) \/ RegisterFails(p) \/ InsertFails(p)
  PROVE  Inv'
<1>1. run[p] \in Command /\ StepOK(run[p]) /\ PhaseOK(run[p]) /\ AloneOK(run[p])
  BY DEF Inv, Typed, CommandOK
<1>2. CASE Stop(p)
  BY <1>2, EndKeeps DEF Stop
<1>3. CASE RemoveFails(p)
  <2>1. ~run[p].alone
    BY <1>1, <1>3 DEF RemoveFails, AloneOK
  <2> QED  BY <1>3, <2>1, EndKeeps DEF RemoveFails
<1>4. CASE StatementFails(p)
  <2>1. ~run[p].alone
    BY <1>1, <1>4 DEF StatementFails, AloneOK, NoTables, Writable
  <2> QED  BY <1>4, <2>1, EndKeeps DEF StatementFails
<1>5. CASE RegisterFails(p)
  <2>1. CASE Ends(p, "refused")
    BY <1>5, <2>1, EndKeeps DEF RegisterFails
  <2>2. CASE CannotInsertDisk(p) /\ Ends(p, "failed")
    <3>1. run[p].pc = "register" /\ run[p].step = 3 /\ file[run[p].file].disks = <<>>
      BY <1>1, <1>5 DEF RegisterFails, Registering, StepOK, PhaseOK
    <3>2. DOMAIN <<>> = {}
      OBVIOUS
    <3>3. ~Writable(p)
      BY <2>2, <3>1, <3>2 DEF CannotInsertDisk
    <3>4. ~run[p].alone
      BY <1>1, <3>1, <3>3 DEF AloneOK, Writable
    <3> QED  BY <1>5, <2>2, <3>4, EndKeeps DEF RegisterFails
  <2> QED  BY <1>5, <2>1, <2>2 DEF RegisterFails
<1>6. CASE InsertFails(p)
  <2>1. ~run[p].alone
    <3>1. run[p].pc = "superblocks" /\ file[run[p].file].superblocks = {}
      BY <1>1, <1>6 DEF InsertFails, StepOK, PhaseOK
    <3>2. ~Writable(p)
      BY <1>6, <3>1 DEF InsertFails, CannotInsert
    <3> QED  BY <1>1, <3>1, <3>2 DEF AloneOK, Writable
  <2> QED  BY <1>6, <2>1, EndKeeps DEF InsertFails
<1> QED  BY <1>2, <1>3, <1>4, <1>5, <1>6

(* A command goes on, with its locals as before.                           *)
LEMMA GoesMoves ==
  ASSUME Inv, NEW p \in Proc, NEW pc \in Ended \cup Working, Goes(p, pc)
  PROVE  /\ Moves(p)
         /\ run'[p] = [run[p] EXCEPT !.pc = pc]
         /\ run'[p].pc = pc /\ run'[p].args = run[p].args /\ run'[p].rows = run[p].rows
         /\ run'[p].file = run[p].file /\ run'[p].step = run[p].step
         /\ run'[p].alone = run[p].alone
<1>1. run[p] \in Command /\ Typed
  BY DEF Inv, Typed
<1>2. run' = [q \in Proc |-> IF q = p THEN [run[p] EXCEPT !.pc = pc]
                             ELSE [run[q] EXCEPT !.alone = FALSE]]
  BY DEF Goes, Becomes
<1>3. run'[p] = [run[p] EXCEPT !.pc = pc]
  BY <1>2
<1>4. run'[p] \in Command
  BY <1>1, <1>3, Changed
<1>5. run' = [q \in Proc |-> IF q = p THEN run'[p] ELSE [run[q] EXCEPT !.alone = FALSE]]
  BY <1>2
<1>6. Moves(p)
  BY <1>1, <1>4, <1>5, BecomesMoves
<1> QED  BY <1>1, <1>3, <1>6 DEF Command

(* The path is free for the create that removed the old database.          *)
LEMMA RemoveKeeps == ASSUME Inv, NEW p \in Proc, Remove(p) PROVE Inv'
<1>1. run[p] \in Command /\ StepOK(run[p]) /\ PhaseOK(run[p]) /\ AloneOK(run[p])
  BY DEF Inv, Typed, CommandOK
<1>2. Goes(p, "connect") /\ "connect" \in Working
  BY DEF Remove, Working
<1>3. /\ Moves(p)
      /\ run'[p].pc = "connect" /\ run'[p].args = run[p].args /\ run'[p].rows = run[p].rows
      /\ run'[p].file = run[p].file /\ run'[p].step = run[p].step
  BY <1>2, GoesMoves
<1>4. run[p].step = 0
  BY <1>1 DEF Remove, StepOK, Command
<1>5. CommandOK(run[p])'
  BY <1>1, <1>3, <1>4 DEF Remove, CommandOK, StepOK, PhaseOK, AloneOK
<1> QED  BY <1>3, <1>4, <1>5, Keeps DEF Remove, Inv, Typed

(* A connection to the file at the path, or to a new and empty one.        *)
LEMMA ConnectsKeeps ==
  ASSUME Inv, NEW p \in Proc, Connect(p) \/ Open(p)
  PROVE  Inv'
<1>1. run[p] \in Command /\ StepOK(run[p]) /\ PhaseOK(run[p]) /\ AloneOK(run[p]) /\ Typed
  BY DEF Inv, Typed, CommandOK
<1>2. PICK pc \in {"schema", "info"} :
        Connects(p, pc) /\ (pc = "schema" => run[p].pc = "connect")
                        /\ run[p].pc \in {"connect", "open"}
  BY DEF Connect, Open
<1>3. run[p].step = 0
  BY <1>1, <1>2 DEF StepOK, Command
<1>4. ASSUME NEW f \in File, Becomes(p, [run[p] EXCEPT !.pc = pc, !.file = f])
      PROVE  /\ Moves(p)
             /\ run'[p].pc = pc /\ run'[p].args = run[p].args /\ run'[p].rows = run[p].rows
             /\ run'[p].file = f /\ run'[p].step = 0 /\ run'[p].alone = run[p].alone
  <2>1. run'[p] = [run[p] EXCEPT !.pc = pc, !.file = f]
    BY <1>1, <1>4 DEF Becomes
  <2>2. run'[p] \in Command
    BY <1>1, <2>1 DEF Command, Working
  <2>3. run' = [q \in Proc |-> IF q = p THEN run'[p] ELSE [run[q] EXCEPT !.alone = FALSE]]
    BY <1>4, <2>1 DEF Becomes
  <2> QED  BY <1>1, <1>3, <2>1, <2>2, <2>3, BecomesMoves DEF Command
<1>5. CASE path # NoFile
  <2>1. path \in File /\ UNCHANGED <<path, file, finished, device>>
    BY <1>1, <1>2, <1>5 DEF Connects, Typed
  <2>2. Becomes(p, [run[p] EXCEPT !.pc = pc, !.file = path])
    BY <1>2, <1>5 DEF Connects
  <2>3. /\ Moves(p)
        /\ run'[p].pc = pc /\ run'[p].args = run[p].args /\ run'[p].rows = run[p].rows
        /\ run'[p].file = path /\ run'[p].step = 0 /\ run'[p].alone = run[p].alone
    BY <1>4, <2>1, <2>2
  <2>4. CommandOK(run[p])'
    BY <1>1, <1>2, <1>5, <2>1, <2>3 DEF CommandOK, StepOK, PhaseOK, AloneOK
  <2> QED  BY <2>1, <2>3, <2>4, Keeps DEF Inv, Typed
<1>6. CASE path = NoFile
  <2>1. PICK f \in Unused :
          /\ path' = f /\ file' = [file EXCEPT ![f] = Empty] /\ finished' = finished \ {f}
          /\ Becomes(p, [run[p] EXCEPT !.pc = pc, !.file = f])
    BY <1>2, <1>6 DEF Connects
  <2>2. f \in File /\ \A q \in Proc : run[q].file # f
    BY DEF Unused
  <2>3. /\ Moves(p)
        /\ run'[p].pc = pc /\ run'[p].args = run[p].args /\ run'[p].rows = run[p].rows
        /\ run'[p].file = f /\ run'[p].step = 0 /\ run'[p].alone = run[p].alone
    BY <1>4, <2>1, <2>2
  <2>4. file'[f] = Empty /\ Empty \in Database
    BY <1>1, <2>1, <2>2, EmptySeq DEF Typed, Database, Empty
  <2>5. FileOK(f)'
    BY <2>1, <2>4 DEF FileOK, Empty
  <2>6. CommandOK(run[p])'
    BY <1>1, <1>2, <2>1, <2>2, <2>3, <2>4 DEF CommandOK, StepOK, PhaseOK, AloneOK, Empty
  <2>7. device' = device
    BY <1>2 DEF Connects
  <2>8. path' \in File \cup {NoFile} /\ device' \in [Disk -> Device] /\ finished' \subseteq File
    BY <1>1, <2>1, <2>2, <2>7 DEF Typed
  <2>9. file' = [file EXCEPT ![f] = file'[f]]
    BY <2>1, <2>4
  <2>10. /\ \A g \in File \ {f} : g \in finished' <=> g \in finished
         /\ ~(run'[p].step > 0)
         /\ \A q \in Proc \ {p} : run[q].step > 0 => run[q].file # f
    BY <2>1, <2>2, <2>3
  <2> QED  BY <2>2, <2>3, <2>4, <2>5, <2>6, <2>8, <2>9, <2>10, KeepsOthers
<1> QED  BY <1>5, <1>6

(* A statement of the schema.  Only one command makes the first table.     *)
LEMMA StatementKeeps == ASSUME Inv, NEW p \in Proc, Statement(p) PROVE Inv'
<1>1. run[p] \in Command /\ StepOK(run[p]) /\ PhaseOK(run[p]) /\ AloneOK(run[p]) /\ Typed
  BY DEF Inv, Typed, CommandOK
<1> DEFINE step == run[p].step + 1
           pc == IF step = 3 THEN "register" ELSE "schema"
<1>0. PICK f \in File : f = run[p].file
  BY <1>1 DEF Statement, PhaseOK
<1>2. /\ step \in 1..3 /\ step \in 0..3 /\ pc \in Ended \cup Working
      /\ file[f] \in Database /\ file[f].schema = run[p].step /\ FileOK(f)
  BY <1>1, <1>0 DEF Statement, NoTables, PhaseOK, Command, Working, Typed, Inv
<1>3. /\ file' = [file EXCEPT ![f].schema = step]
      /\ run' = [q \in Proc |-> IF q = p THEN [run[p] EXCEPT !.step = step, !.pc = pc]
                                 ELSE [run[q] EXCEPT !.alone = FALSE]]
      /\ UNCHANGED <<path, device, finished>>
  BY <1>0 DEF Statement, Becomes
<1>4. /\ Moves(p)
      /\ run'[p].pc = pc /\ run'[p].args = run[p].args /\ run'[p].rows = run[p].rows
      /\ run'[p].file = f /\ run'[p].step = step /\ run'[p].alone = run[p].alone
  <2> HIDE DEF step, pc
  <2>1. run'[p] = [run[p] EXCEPT !.step = step, !.pc = pc]
    BY <1>3
  <2>2. run'[p] \in Command
    BY <1>1, <1>2, <2>1 DEF Command
  <2>3. run' = [q \in Proc |-> IF q = p THEN run'[p] ELSE [run[q] EXCEPT !.alone = FALSE]]
    BY <1>3, <2>1
  <2> QED  BY <1>1, <2>1, <2>2, <2>3, <1>0, BecomesMoves DEF Command
<1>5. /\ file'[f] = [file[f] EXCEPT !.schema = step]
      /\ file'[f] \in Database
      /\ file'[f].schema = step /\ file'[f].disks = file[f].disks
      /\ file'[f].superblocks = file[f].superblocks
      /\ file' = [file EXCEPT ![f] = file'[f]]
  <2> HIDE DEF step, pc
  <2>1. file'[f] = [file[f] EXCEPT !.schema = step]
    BY <1>1, <1>3 DEF Typed
  <2>2. file'[f] \in Database /\ file'[f].schema = step
        /\ file'[f].disks = file[f].disks /\ file'[f].superblocks = file[f].superblocks
    BY <1>2, <2>1 DEF Database
  <2>3. file' = [file EXCEPT ![f] = file'[f]]
    BY <1>3, <2>1
  <2> QED  BY <2>1, <2>2, <2>3
<1>6. f \notin finished /\ file[f].disks = <<>> /\ file[f].superblocks = {}
  BY <1>1, <1>2 DEF FileOK, Command, Database, Statement, PhaseOK
<1>7. FileOK(f)'
  BY <1>3, <1>5, <1>6 DEF FileOK
<1>8. CommandOK(run[p])'
  <2>1. run[p].pc = "schema"
    BY DEF Statement
  <2> HIDE DEF step
  <2>2. pc \in {"schema", "register"} /\ (pc = "schema" => step < 3) /\ (pc = "register" => step = 3)
    BY <1>2
  <2>3. StepOK(run[p])'
    BY <1>3, <1>4, <1>5, <1>6, <2>2 DEF StepOK
  <2>4. PhaseOK(run[p])'
    <3>1. Len(run[p].args) \in PoolSizes /\ run[p].rows = <<>> /\ Len(<<>>) = 0
      BY <1>1, <2>1 DEF PhaseOK
    <3>2. 0 <= Len(run[p].args)
      BY <1>1, LenProperties DEF Command
    <3> QED  BY <1>2, <1>4, <2>2, <3>1, <3>2 DEF PhaseOK
  <2>5. AloneOK(run[p])'
    BY <1>1, <1>3, <1>4, <1>5, <2>1, <2>2, <1>0 DEF AloneOK
  <2> QED  BY <2>3, <2>4, <2>5 DEF CommandOK
<1>9. ASSUME NEW q \in Proc \ {p}, run[q].step > 0, run[q].file = f PROVE FALSE
  <2>1. run[q] \in Command /\ StepOK(run[q])
    BY DEF Inv, Typed, CommandOK
  <2>2. run[p].step > 0
    BY <1>2, <1>9, <2>1 DEF StepOK, Command
  <2> QED  BY <1>0, <1>9, <2>2 DEF Inv, OneEach
<1>10. path' \in File \cup {NoFile} /\ device' \in [Disk -> Device] /\ finished' \subseteq File
  BY <1>1, <1>3 DEF Typed
<1> HIDE DEF step, pc
<1>11. \A g \in File \ {f} : g \in finished' <=> g \in finished
  BY <1>3
<1> QED  BY <1>2, <1>4, <1>5, <1>7, <1>8, <1>9, <1>10, <1>11, KeepsOthers

(* A row for each disk, of a size that is a number.                        *)
LEMMA RegisterKeeps == ASSUME Inv, NEW p \in Proc, RegisterDisk(p) PROVE Inv'
<1>1. run[p] \in Command /\ StepOK(run[p]) /\ PhaseOK(run[p]) /\ AloneOK(run[p]) /\ Typed
  BY DEF Inv, Typed, CommandOK
<1> DEFINE row == [path |-> NextDisk(p), size |-> DeviceSize(NextDisk(p))]
<1>2. row \in Row
  <2>1. Len(run[p].rows) + 1 \in 1..Len(run[p].args)
    <3>1. Len(run[p].rows) \in Nat /\ Len(run[p].args) \in Nat
      BY <1>1, LenProperties DEF Command
    <3> QED  BY <3>1 DEF RegisterDisk, Registering
  <2>2. NextDisk(p) \in Disk
    BY <1>1, <2>1, ElementOfSeq DEF NextDisk, Command
  <2>3. DeviceSize(NextDisk(p)) \in Nat
    BY <1>1, <2>2, SizeIsNumber DEF RegisterDisk, Typed
  <2> QED  BY <2>2, <2>3 DEF Row
<1>3. run' = [q \in Proc |-> IF q = p THEN [run[p] EXCEPT !.rows = Append(@, row)]
                             ELSE [run[q] EXCEPT !.alone = FALSE]]
  BY DEF RegisterDisk, Becomes
<1> HIDE DEF row
<1>4. Append(run[p].rows, row) \in Seq(Row)
      /\ Len(Append(run[p].rows, row)) = Len(run[p].rows) + 1
  BY <1>1, <1>2, AppendProperties DEF Command
<1>5. /\ Moves(p)
      /\ run'[p].pc = run[p].pc /\ run'[p].args = run[p].args
      /\ run'[p].rows = Append(run[p].rows, row)
      /\ run'[p].file = run[p].file /\ run'[p].step = run[p].step
      /\ run'[p].alone = run[p].alone
  <2>1. run'[p] = [run[p] EXCEPT !.rows = Append(@, row)]
    BY <1>3
  <2>2. run'[p] \in Command
    BY <1>1, <1>4, <2>1 DEF Command
  <2>3. run' = [q \in Proc |-> IF q = p THEN run'[p] ELSE [run[q] EXCEPT !.alone = FALSE]]
    BY <1>3, <2>1
  <2> QED  BY <1>1, <2>1, <2>2, <2>3, BecomesMoves DEF Command
<1>6. run[p].pc = "register" /\ UNCHANGED <<path, file, device, finished>>
  BY DEF RegisterDisk, Registering
<1>7. CommandOK(run[p])'
  <2>1. StepOK(run[p])'
    BY <1>1, <1>5, <1>6 DEF StepOK
  <2>2. Len(run[p].rows) + 1 <= Len(run[p].args)
    <3>1. Len(run[p].rows) \in Nat /\ Len(run[p].args) \in Nat
      BY <1>1, LenProperties DEF Command
    <3> QED  BY <3>1 DEF RegisterDisk, Registering
  <2>3. PhaseOK(run[p])'
    BY <1>1, <1>4, <1>5, <1>6, <2>2 DEF PhaseOK
  <2>4. AloneOK(run[p])'
    BY <1>1, <1>5, <1>6 DEF AloneOK
  <2> QED  BY <2>1, <2>3, <2>4 DEF CommandOK
<1> QED  BY <1>1, <1>5, <1>6, <1>7, Keeps DEF Typed

(* The first commit finds no disks in the database, so it has exactly the  *)
(* disks of this create afterwards.                                        *)
LEMMA CommitKeeps == ASSUME Inv, NEW p \in Proc, CommitDisks(p) PROVE Inv'
<1>1. run[p] \in Command /\ StepOK(run[p]) /\ PhaseOK(run[p]) /\ AloneOK(run[p]) /\ Typed
  BY DEF Inv, Typed, CommandOK
<1>2. run[p].pc = "register" /\ run[p].step = 3
  BY <1>1 DEF CommitDisks, PhaseOK
<1>3. PICK f \in File : f = run[p].file
  BY <1>1, <1>2 DEF PhaseOK
<1>4. /\ file[f] \in Database /\ FileOK(f)
      /\ file[f].schema = 3 /\ file[f].disks = <<>> /\ file[f].superblocks = {}
      /\ f \notin finished
  BY <1>1, <1>2, <1>3 DEF Inv, Typed, StepOK
<1>5. /\ run[p].rows \in Seq(Row) /\ Len(run[p].rows) \in PoolSizes
      /\ <<>> \o run[p].rows = run[p].rows
  <2>1. run[p].rows \in Seq(Row)
    BY <1>1 DEF Command
  <2> QED  BY <1>1, <1>2, <2>1, ConcatEmptySeq DEF CommitDisks, PhaseOK
<1>6. UNCHANGED <<path, device, finished>> /\ Goes(p, "superblocks")
      /\ file' = [file EXCEPT ![f].disks = @ \o run[p].rows]
  BY <1>3 DEF CommitDisks
<1>7. /\ file'[f] = [file[f] EXCEPT !.disks = run[p].rows]
      /\ file' = [file EXCEPT ![f] = file'[f]]
  BY <1>1, <1>4, <1>5, <1>6 DEF Typed
<1>8. /\ file'[f] \in Database /\ file'[f].schema = 3
      /\ file'[f].disks = run[p].rows /\ file'[f].superblocks = {}
  BY <1>4, <1>5, <1>7 DEF Database
<1>9. FileOK(f)'
  BY <1>4, <1>5, <1>6, <1>8 DEF FileOK
<1>10. "superblocks" \in Working
  BY DEF Working
<1>11. /\ Moves(p)
       /\ run'[p].pc = "superblocks" /\ run'[p].args = run[p].args
       /\ run'[p].rows = run[p].rows /\ run'[p].file = f /\ run'[p].step = 3
       /\ run'[p].alone = run[p].alone
  BY <1>2, <1>3, <1>6, <1>10, GoesMoves
<1>12. CommandOK(run[p])'
  BY <1>1, <1>2, <1>3, <1>4, <1>5, <1>6, <1>8, <1>11 DEF CommandOK, StepOK, PhaseOK, AloneOK
<1>13. \A q \in Proc \ {p} : run[q].step > 0 => run[q].file # f
  BY <1>2, <1>3 DEF Inv, OneEach
<1>14. path' \in File \cup {NoFile} /\ device' \in [Disk -> Device] /\ finished' \subseteq File
       /\ \A g \in File \ {f} : g \in finished' <=> g \in finished
  BY <1>1, <1>6 DEF Typed
<1> QED  BY <1>7, <1>8, <1>9, <1>11, <1>12, <1>13, <1>14, KeepsOthers

(* The second commit finds no superblocks.                                 *)
LEMMA InsertKeeps == ASSUME Inv, NEW p \in Proc, InsertSuperblocks(p) PROVE Inv'
<1>1. run[p] \in Command /\ StepOK(run[p]) /\ PhaseOK(run[p]) /\ AloneOK(run[p]) /\ Typed
  BY DEF Inv, Typed, CommandOK
<1>2. run[p].pc = "superblocks" /\ run[p].step = 3
  BY <1>1 DEF InsertSuperblocks, PhaseOK
<1>3. PICK f \in File : f = run[p].file
  BY <1>1, <1>2 DEF PhaseOK
<1> DEFINE new == NewSuperblocks(run[p].rows)
<1>4. /\ file[f] \in Database /\ FileOK(f) /\ file[f].schema = 3
      /\ file[f].disks = run[p].rows /\ file[f].superblocks = {}
      /\ Len(run[p].rows) \in PoolSizes
  BY <1>1, <1>2, <1>3 DEF Inv, Typed, StepOK, PhaseOK
<1>5. /\ file' = [file EXCEPT ![f].superblocks = @ \cup new]
      /\ finished' = finished \cup {f} /\ Ends(p, "done") /\ UNCHANGED <<path, device>>
  BY <1>3 DEF InsertSuperblocks
<1>6. new \in SUBSET Nat
  BY DEF NewSuperblocks
<1>7. run[p].rows # <<>>
  BY <1>4, ConstantsAssumption, EmptySeq
<1> HIDE DEF new
<1>8. file'[f] = [file[f] EXCEPT !.superblocks = new] /\ file' = [file EXCEPT ![f] = file'[f]]
  BY <1>1, <1>4, <1>5 DEF Typed
<1>9. /\ file'[f] \in Database /\ file'[f].schema = 3
      /\ file'[f].disks = run[p].rows /\ file'[f].superblocks = new
  BY <1>4, <1>6, <1>8 DEF Database
<1>10. FileOK(f)'
  <2>1. new = NewSuperblocks(file'[f].disks)
    BY <1>9 DEF new
  <2> QED  BY <1>4, <1>5, <1>7, <1>9, <2>1 DEF FileOK, NewSuperblocks, MinSize
<1>11. /\ run' = [q \in Proc |-> IF q = p THEN [Idle EXCEPT !.pc = "done", !.alone = run[p].alone]
                                  ELSE [run[q] EXCEPT !.alone = FALSE]]
  BY <1>5 DEF Ends, Becomes
<1>12. run'[p] \in Command /\ run'[p].pc = "done" /\ run'[p].step = 0
  <2>1. run'[p] = [Idle EXCEPT !.pc = "done", !.alone = run[p].alone]
    BY <1>11
  <2>2. run[p].alone \in BOOLEAN /\ "done" \in Ended
    BY <1>1 DEF Command, Ended
  <2>3. [Idle EXCEPT !.pc = "done", !.alone = run[p].alone] \in Command
    BY <2>2, IdleIsCommand DEF Command
  <2> QED  BY <2>1, <2>3 DEF Idle
<1>13. Moves(p)
  <2>1. run' = [q \in Proc |-> IF q = p THEN run'[p] ELSE [run[q] EXCEPT !.alone = FALSE]]
    BY <1>11
  <2> QED  BY <1>1, <1>12, <2>1, BecomesMoves
<1>14. CommandOK(run[p])'
  BY <1>12 DEF CommandOK, StepOK, PhaseOK, AloneOK
<1>15. \A q \in Proc \ {p} : run[q].step > 0 => run[q].file # f
  BY <1>2, <1>3 DEF Inv, OneEach
<1>16. path' \in File \cup {NoFile} /\ device' \in [Disk -> Device] /\ finished' \subseteq File
       /\ \A g \in File \ {f} : g \in finished' <=> g \in finished
  BY <1>1, <1>5 DEF Typed
<1>17. ~(run'[p].step > 0)
  BY <1>12
<1> QED  BY <1>8, <1>9, <1>10, <1>13, <1>14, <1>15, <1>16, <1>17, KeepsOthers

(* A pool has a natural number of superblocks.                             *)
LEMMA NumberOfSuperblocks ==
  ASSUME NEW rows \in Seq(Row), rows # <<>> PROVE NumSuperblocks(rows) \in Nat
<1>1. MinSize(rows) \in Nat
  BY Smallest
<1> QED  BY <1>1, SMT DEF NumSuperblocks, BLOCK_SIZE

(* info changes nothing but its answer.                                    *)
LEMMA InfoKeeps == ASSUME Inv, NEW p \in Proc, Info(p) PROVE Inv'
<1>1. run[p] \in Command /\ StepOK(run[p]) /\ PhaseOK(run[p]) /\ AloneOK(run[p]) /\ Typed
  BY DEF Inv, Typed, CommandOK
<1>2. /\ run[p].pc = "info" /\ UNCHANGED <<path, file, device, finished>>
      /\ run[p].file \in File /\ run[p].step = 0
  BY <1>1 DEF Info, PhaseOK, StepOK, Command
<1> DEFINE rows == file[run[p].file].disks
           answer == NumSuperblocks(rows)
<1>3. CASE rows = <<>>
  <2>1. Ends(p, "refused")
    BY <1>3 DEF Info
  <2> QED  BY <1>2, <2>1, EndKeeps
<1>4. CASE rows # <<>>
  <2>1. answer \in Int
    <3>1. rows \in Seq(Row)
      BY <1>1, <1>2 DEF Typed, Database
    <3> QED  BY <1>4, <3>1, NumberOfSuperblocks
  <2>2. run' = [q \in Proc |-> IF q = p THEN [run[p] EXCEPT !.pc = "answered", !.answer = answer]
                               ELSE [run[q] EXCEPT !.alone = FALSE]]
    BY <1>4 DEF Info, Becomes
  <2> HIDE DEF answer
  <2>3. run'[p] = [run[p] EXCEPT !.pc = "answered", !.answer = answer]
    BY <2>2
  <2>4. /\ run'[p] \in Command /\ run'[p].pc = "answered" /\ run'[p].step = 0
        /\ run'[p].file = run[p].file
    BY <1>1, <1>2, <2>1, <2>3 DEF Command, Ended
  <2>5. Moves(p)
    <3>1. run' = [q \in Proc |-> IF q = p THEN run'[p] ELSE [run[q] EXCEPT !.alone = FALSE]]
      BY <2>2, <2>3
    <3> QED  BY <1>1, <2>4, <3>1, BecomesMoves
  <2>6. CommandOK(run[p])'
    BY <1>2, <2>4 DEF CommandOK, StepOK, PhaseOK, AloneOK
  <2> QED  BY <1>1, <1>2, <2>4, <2>5, <2>6, Keeps DEF Typed
<1> QED  BY <1>3, <1>4

(* Steps of create-vdisk change a disk and no database.                    *)
LEMMA VdiskKeeps ==
  ASSUME Inv, NEW p \in Proc, MakeVdisk(p) \/ Lengthen(p) \/ WriteHeader(p)
  PROVE  Inv'
<1>1. run[p] \in Command /\ StepOK(run[p]) /\ PhaseOK(run[p]) /\ AloneOK(run[p]) /\ Typed
  BY DEF Inv, Typed, CommandOK
<1> DEFINE d == run[p].args[1]
           old == device[d]
           made == {Plugged(0),
                    [old EXCEPT !.length = VdiskLength(BlocksFor(run[p].size))],
                    [old EXCEPT !.length = Max({@, HEADER_SIZE}),
                                !.header = BlocksFor(run[p].size)]}
<1>2. PICK pc \in {"make", "lengthen", "head"}, next \in {"lengthen", "head", "done"},
           new \in made : VdiskStep(p, pc, next, new)
  BY DEF MakeVdisk, Lengthen, WriteHeader
<1>3. /\ run[p].pc = pc /\ device' = [device EXCEPT ![d] = new] /\ Goes(p, next)
      /\ UNCHANGED <<path, file, finished>>
  BY <1>2 DEF VdiskStep
<1>4. run[p].step = 0
  BY <1>1, <1>3 DEF StepOK, Command
<1>5. /\ Moves(p)
      /\ run'[p].pc = next /\ run'[p].step = 0
  <2>1. next \in Ended \cup Working
    BY DEF Ended, Working
  <2> QED  BY <1>3, <1>4, <2>1, GoesMoves
<1>6. CommandOK(run[p])'
  BY <1>5 DEF CommandOK, StepOK, PhaseOK, AloneOK
<1>7. device' \in [Disk -> Device]
  <2>1. CASE d \in Disk
    <3>1. BlocksFor(run[p].size) \in Nat /\ VdiskLength(BlocksFor(run[p].size)) \in Nat
      BY <1>1, BlocksNumber DEF Command
    <3>2. old \in [length : Int, header : Nat \cup {NoHeader}]
      BY <1>1, <2>1 DEF Typed, Device, Absent, NoHeader
    <3>3. \A n \in Int : Max({n, HEADER_SIZE}) \in Nat
      BY SMT DEF Max, HEADER_SIZE
    <3> HIDE DEF old, d
    <3> DEFINE Files == [length : Nat, header : Nat \cup {NoHeader}]
    <3>4. Plugged(0) \in Files
      BY DEF Plugged
    <3>5. [old EXCEPT !.length = VdiskLength(BlocksFor(run[p].size))] \in Files
      BY <3>1, <3>2
    <3>6. [old EXCEPT !.length = Max({@, HEADER_SIZE}), !.header = BlocksFor(run[p].size)] \in Files
      <4>1. old.length \in Int
        BY <3>2
      <4>2. Max({old.length, HEADER_SIZE}) \in Nat
        BY <3>3, <4>1
      <4> QED  BY <3>1, <3>2, <4>2
    <3>7. new \in Files
      BY <3>4, <3>5, <3>6
    <3> QED  BY <1>1, <1>3, <2>1, <3>7 DEF Typed, Device, d
  <2>2. CASE d \notin Disk
    <3>1. device' = device
      BY <1>1, <1>3, <2>2 DEF Typed
    <3> QED  BY <1>1, <3>1 DEF Typed
  <2> QED  BY <2>1, <2>2
<1> QED  BY <1>1, <1>3, <1>5, <1>6, <1>7, Keeps DEF Typed

(* Changes of the disks leave every command with company.                  *)
LEMMA ChangeKeeps == ASSUME Inv, NEW d \in Disk, Change(d) PROVE Inv'
<1>1. Typed /\ \A q \in Proc : run[q] \in Command /\ CommandOK(run[q])
  BY DEF Inv, Typed
<1>2. /\ run' = [p \in Proc |-> [run[p] EXCEPT !.alone = FALSE]]
      /\ UNCHANGED <<path, file, finished>>
  BY DEF Change
<1>3. device' \in [Disk -> Device]
  <2>1. CASE \E new \in {Absent} \cup {Plugged(n) : n \in Lengths} :
               device' = [device EXCEPT ![d] = new]
    <3>1. \A n \in Lengths : Plugged(n) \in Device
      BY ConstantsAssumption DEF Plugged, Device
    <3> QED  BY <1>1, <2>1, <3>1 DEF Typed, Device
  <2>2. CASE IsVdisk(d) /\ device' = [device EXCEPT ![d].length = @ + VDISK_BLOCK]
    <3>1. device[d] \in Device /\ device[d].header # NoHeader
      BY <1>1, <2>2 DEF Typed, IsVdisk
    <3>2. device[d] \in [length : Nat, header : Nat \cup {NoHeader}]
      BY <3>1 DEF Device, Absent
    <3>3. [device[d] EXCEPT !.length = @ + VDISK_BLOCK] \in [length : Nat, header : Nat \cup {NoHeader}]
      BY <3>2, SMT DEF VDISK_BLOCK
    <3> QED  BY <1>1, <2>2, <3>3 DEF Typed, Device
  <2> QED  BY <2>1, <2>2 DEF Change
<1>4. ASSUME NEW q \in Proc
      PROVE  /\ run'[q] \in Command /\ run'[q].alone = FALSE
             /\ run'[q].pc = run[q].pc /\ run'[q].args = run[q].args
             /\ run'[q].rows = run[q].rows /\ run'[q].file = run[q].file
             /\ run'[q].step = run[q].step
  <2>1. run'[q] = [run[q] EXCEPT !.alone = FALSE]
    BY <1>2
  <2> QED  BY <1>1, <2>1 DEF Command
<1>5. run' \in [Proc -> Command]
  BY <1>2, <1>4
<1>6. Typed'
  BY <1>1, <1>2, <1>3, <1>5 DEF Typed
<1>7. \A f \in File : FileOK(f)'
  BY <1>2 DEF Inv, FileOK
<1>8. ASSUME NEW q \in Proc PROVE CommandOK(run[q])'
  <2>0. /\ StepOK(run[q]) /\ PhaseOK(run[q])
        /\ run'[q].alone = FALSE
        /\ run'[q].pc = run[q].pc /\ run'[q].args = run[q].args
        /\ run'[q].rows = run[q].rows /\ run'[q].file = run[q].file
        /\ run'[q].step = run[q].step
        /\ file' = file /\ finished' = finished
    BY <1>1, <1>2, <1>4 DEF CommandOK
  <2>1. StepOK(run[q])'
    BY <2>0 DEF StepOK
  <2>2. PhaseOK(run[q])'
    BY <2>0 DEF PhaseOK
  <2>3. AloneOK(run[q])'
    BY <1>4 DEF AloneOK
  <2> QED  BY <2>1, <2>2, <2>3 DEF CommandOK
<1>9. OneEach'
  BY <1>4 DEF Inv, OneEach
<1> QED  BY <1>6, <1>7, <1>8, <1>9 DEF Inv

(* The invariant holds at first: there is no database.                     *)
LEMMA InitInv == Init => Inv
<1> SUFFICES ASSUME Init PROVE Inv
  OBVIOUS
<1>1. Typed
  <2>1. Empty \in Database
    BY EmptySeq DEF Empty, Database
  <2>2. \A n \in Lengths : Plugged(n) \in Device
    BY ConstantsAssumption DEF Plugged, Device
  <2>3. device \in [Disk -> Device]
    BY <2>2 DEF Init, Device
  <2> QED  BY <2>1, <2>3, IdleIsCommand DEF Init, Typed
<1>2. \A f \in File : FileOK(f)
  BY DEF Init, FileOK, Empty
<1>3. \A p \in Proc : CommandOK(run[p])
  BY DEF Init, CommandOK, StepOK, PhaseOK, AloneOK, Idle
<1>4. OneEach
  BY DEF Init, OneEach, Idle
<1> QED  BY <1>1, <1>2, <1>3, <1>4 DEF Inv

(* It is inductive.                                                        *)
LEMMA NextInv == Inv /\ [Next]_vars => Inv'
<1> SUFFICES ASSUME Inv, [Next]_vars PROVE Inv'
  OBVIOUS
<1>1. ASSUME NEW p \in Proc, StartCreate(p) \/ StartInfo(p) \/ StartVdisk(p) PROVE Inv'
  BY <1>1, StartsKeep
<1>2. ASSUME NEW p \in Proc,
             Stop(p) \/ RemoveFails(p) \/ StatementFails(p) \/ RegisterFails(p) \/ InsertFails(p)
      PROVE  Inv'
  BY <1>2, EndsKeep
<1>3. ASSUME NEW p \in Proc, Remove(p) PROVE Inv'
  BY <1>3, RemoveKeeps
<1>4. ASSUME NEW p \in Proc, Connect(p) \/ Open(p) PROVE Inv'
  BY <1>4, ConnectsKeeps
<1>5. ASSUME NEW p \in Proc, Statement(p) PROVE Inv'
  BY <1>5, StatementKeeps
<1>6. ASSUME NEW p \in Proc, RegisterDisk(p) PROVE Inv'
  BY <1>6, RegisterKeeps
<1>7. ASSUME NEW p \in Proc, CommitDisks(p) PROVE Inv'
  BY <1>7, CommitKeeps
<1>8. ASSUME NEW p \in Proc, InsertSuperblocks(p) PROVE Inv'
  BY <1>8, InsertKeeps
<1>9. ASSUME NEW p \in Proc, Info(p) PROVE Inv'
  BY <1>9, InfoKeeps
<1>10. ASSUME NEW p \in Proc, MakeVdisk(p) \/ Lengthen(p) \/ WriteHeader(p) PROVE Inv'
  BY <1>10, VdiskKeeps
<1>11. ASSUME NEW d \in Disk, Change(d) PROVE Inv'
  BY <1>11, ChangeKeeps
<1>12. CASE UNCHANGED vars
  BY <1>12 DEF vars, Inv, Typed, FileOK, CommandOK, StepOK, PhaseOK, AloneOK, OneEach
<1> QED  BY <1>1, <1>2, <1>3, <1>4, <1>5, <1>6, <1>7, <1>8, <1>9, <1>10, <1>11, <1>12 DEF Next

(* The invariant holds in every reachable state.                           *)
THEOREM Invariance == Spec => []Inv
BY InitInv, NextInv, PTL DEF Spec

-----------------------------------------------------------------------------
(* Databases that stay as they are.                                        *)

(* A file changes only where it is new, where a table is made in it, and   *)
(* where the one command that is making it commits; never once finished,   *)
(* and its disks never once they are there.                                *)
LEMMA FilesStay ==
  ASSUME Inv, [Next]_vars, NEW f \in File
  PROVE  /\ f \in finished \cap finished' => file'[f] = file[f]
         /\ file[f].disks # <<>> /\ (\E q \in Proc : run[q].file = f) =>
              file'[f].disks = file[f].disks
<1> DEFINE Goal == /\ f \in finished \cap finished' => file'[f] = file[f]
                   /\ file[f].disks # <<>> /\ (\E q \in Proc : run[q].file = f) =>
                        file'[f].disks = file[f].disks
<1>1. Typed /\ FileOK(f) /\ file[f] \in Database
  BY DEF Inv, Typed
<1>2. CASE file' = file
  BY <1>2
<1>3. ASSUME NEW p \in Proc, NEW pc, Connects(p, pc) PROVE Goal
  <2>1. CASE path # NoFile
    BY <1>3, <2>1 DEF Connects
  <2>2. CASE path = NoFile
    <3>1. PICK g \in Unused : file' = [file EXCEPT ![g] = Empty] /\ finished' = finished \ {g}
      BY <1>3, <2>2 DEF Connects
    <3>2. \A q \in Proc : run[q].file # g
      BY DEF Unused
    <3> QED  BY <1>1, <3>1, <3>2 DEF Typed
  <2> QED  BY <2>1, <2>2
<1>4. ASSUME NEW p \in Proc, Statement(p) PROVE Goal
  <2>1. file[run[p].file].schema # 3
    BY <1>4 DEF Inv, Typed, Command, CommandOK, PhaseOK, Statement, NoTables
  <2>2. CASE run[p].file = f
    BY <1>1, <2>1, <2>2 DEF FileOK
  <2>3. CASE run[p].file # f
    BY <1>1, <1>4, <2>3 DEF Typed, Statement
  <2> QED  BY <2>2, <2>3
<1>5. ASSUME NEW p \in Proc, CommitDisks(p) PROVE Goal
  <2>1. run[p].file \notin finished /\ file[run[p].file].disks = <<>>
    BY <1>5 DEF Inv, Typed, CommandOK, PhaseOK, StepOK, CommitDisks
  <2>2. CASE run[p].file = f
    BY <2>1, <2>2
  <2>3. CASE run[p].file # f
    BY <1>1, <1>5, <2>3 DEF Typed, CommitDisks
  <2> QED  BY <2>2, <2>3
<1>6. ASSUME NEW p \in Proc, InsertSuperblocks(p) PROVE Goal
  <2>1. run[p].file \notin finished
    BY <1>6 DEF Inv, Typed, CommandOK, PhaseOK, StepOK, InsertSuperblocks
  <2>2. CASE run[p].file = f
    <3>1. f \notin finished
      BY <2>1, <2>2
    <3>2. file'[f].disks = file[f].disks
      BY <1>1, <1>6, <2>2 DEF Typed, Database, InsertSuperblocks
    <3> QED  BY <3>1, <3>2
  <2>3. CASE run[p].file # f
    BY <1>1, <1>6, <2>3 DEF Typed, InsertSuperblocks
  <2> QED  BY <2>2, <2>3
<1>7. ASSUME NEW p \in Proc,
             \/ StartCreate(p) \/ StartInfo(p) \/ StartVdisk(p) \/ Stop(p)
             \/ Remove(p) \/ RemoveFails(p) \/ StatementFails(p) \/ RegisterDisk(p)
             \/ RegisterFails(p) \/ InsertFails(p) \/ Info(p)
             \/ MakeVdisk(p) \/ Lengthen(p) \/ WriteHeader(p)
      PROVE  file' = file
  BY <1>7 DEF StartCreate, StartInfo, StartVdisk, Start, Stop, Remove, RemoveFails,
       StatementFails, RegisterDisk, RegisterFails, InsertFails, Info, MakeVdisk, Lengthen,
       WriteHeader, VdiskStep
<1>8. ASSUME NEW d \in Disk, Change(d) PROVE file' = file
  BY <1>8 DEF Change
<1>9. CASE UNCHANGED vars
  BY <1>9 DEF vars
<1> HIDE DEF Goal
<1>10. CASE Next
  BY <1>2, <1>3, <1>4, <1>5, <1>6, <1>7, <1>8, <1>10 DEF Next, Connect, Open, Goal
<1> QED  BY <1>2, <1>9, <1>10 DEF Goal

(* An answer of info was right when it was given.                          *)
AnswerOK(c) ==
  c.pc = "answered" => /\ file[c.file].disks # <<>>
                       /\ c.answer = NumSuperblocks(file[c.file].disks)
Answers == \A p \in Proc : AnswerOK(run[p])

(* Of the commands only info answers.                                      *)
LEMMA OnlyInfoAnswers ==
  ASSUME Inv, Next, NEW q \in Proc, run'[q].pc = "answered", run[q].pc # "answered"
  PROVE  Info(q) /\ file[run[q].file].disks # <<>>
<1>1. Typed /\ run[q] \in Command
  BY DEF Inv, Typed
<1>2. ASSUME NEW p \in Proc, NEW r, Becomes(p, r), r.pc # "answered" PROVE FALSE
  <2>1. q # p => run'[q].pc = run[q].pc
    BY <1>1, <1>2 DEF Becomes, Command
  <2>2. q = p => run'[q] = r
    BY <1>2 DEF Becomes
  <2> QED  BY <1>2, <2>1, <2>2
<1>3. ASSUME NEW p \in Proc, NEW pc, Goes(p, pc), pc # "answered" PROVE FALSE
  <2>1. p # q
    BY <1>1, <1>3 DEF Goes, Becomes, Command
  <2> QED  BY <1>1, <1>3, <2>1 DEF Goes, Becomes, Command
<1>4. ASSUME NEW p \in Proc, NEW pc, Ends(p, pc), pc # "answered" PROVE FALSE
  <2>1. p # q
    BY <1>1, <1>4 DEF Ends, Becomes, Idle
  <2> QED  BY <1>1, <1>4, <2>1 DEF Ends, Becomes, Command
<1>5. ASSUME NEW p \in Proc, NEW pc, NEW args, NEW size, Start(p, pc, args, size), pc # "answered"
      PROVE  FALSE
  <2>1. p # q
    BY <1>1, <1>5 DEF Start, Becomes, Idle
  <2> QED  BY <1>1, <1>5, <2>1 DEF Start, Becomes, Command
<1>6. ASSUME NEW p \in Proc, StartCreate(p) \/ StartInfo(p) \/ StartVdisk(p) PROVE FALSE
  BY <1>5, <1>6 DEF StartCreate, StartInfo, StartVdisk, AfterExists
<1>7. ASSUME NEW p \in Proc, Stop(p) \/ RemoveFails(p) \/ StatementFails(p) \/ RegisterFails(p)
                             \/ InsertFails(p) \/ InsertSuperblocks(p)
      PROVE  FALSE
  BY <1>4, <1>7 DEF Stop, RemoveFails, StatementFails, RegisterFails, InsertFails, InsertSuperblocks
<1>8. ASSUME NEW p \in Proc, Remove(p) \/ CommitDisks(p) \/ MakeVdisk(p) \/ Lengthen(p)
                             \/ WriteHeader(p)
      PROVE  FALSE
  BY <1>3, <1>8 DEF Remove, CommitDisks, MakeVdisk, Lengthen, WriteHeader, VdiskStep
<1>9. ASSUME NEW p \in Proc, NEW pc \in {"schema", "info"}, Connects(p, pc) PROVE FALSE
  <2>1. PICK f : Becomes(p, [run[p] EXCEPT !.pc = pc, !.file = f])
    BY <1>9 DEF Connects
  <2>2. p # q
    BY <1>1, <2>1 DEF Becomes, Command
  <2> QED  BY <1>1, <2>1, <2>2 DEF Becomes, Command
<1>10. ASSUME NEW p \in Proc, Statement(p) PROVE FALSE
  <2>1. PICK pc \in {"register", "schema"} :
               \E step : Becomes(p, [run[p] EXCEPT !.step = step, !.pc = pc])
    BY <1>10 DEF Statement
  <2>2. p # q
    BY <1>1, <2>1 DEF Becomes, Command
  <2> QED  BY <1>1, <2>1, <2>2 DEF Becomes, Command
<1>11. ASSUME NEW p \in Proc, RegisterDisk(p) PROVE FALSE
  <2>1. PICK rows : Becomes(p, [run[p] EXCEPT !.rows = rows])
    BY <1>11 DEF RegisterDisk
  <2> QED  BY <1>1, <2>1 DEF Becomes, Command
<1>12. ASSUME NEW p \in Proc, Info(p) PROVE Info(q) /\ file[run[q].file].disks # <<>>
  <2>1. CASE file[run[p].file].disks = <<>>
    <3>1. Ends(p, "refused")
      BY <1>12, <2>1 DEF Info
    <3> QED  BY <1>4, <3>1
  <2>2. CASE file[run[p].file].disks # <<>>
    <3>1. p = q
      <4>1. SUFFICES ASSUME p # q PROVE FALSE
        OBVIOUS
      <4>2. PICK answer : Becomes(p, [run[p] EXCEPT !.pc = "answered", !.answer = answer])
        BY <1>12, <2>2 DEF Info
      <4> QED  BY <1>1, <4>1, <4>2 DEF Becomes, Command
    <3> QED  BY <1>12, <2>2, <3>1
  <2> QED  BY <2>1, <2>2
<1>13. ASSUME NEW d \in Disk, Change(d) PROVE FALSE
  BY <1>1, <1>13 DEF Change, Command
<1> QED  BY <1>6, <1>7, <1>8, <1>9, <1>10, <1>11, <1>12, <1>13 DEF Next, Connect, Open

(* A command that has answered rests until it is started again.            *)
LEMMA AnsweredRests ==
  ASSUME Inv, Next, NEW q \in Proc, run[q].pc = "answered", run'[q].pc = "answered"
  PROVE  run'[q].file = run[q].file /\ run'[q].answer = run[q].answer
<1>1. run[q] \in Command
  BY DEF Inv, Typed
<1>2. ASSUME NEW p \in Proc, run[p].pc # "answered", NEW r, Becomes(p, r)
      PROVE  run'[q].file = run[q].file /\ run'[q].answer = run[q].answer
  <2>1. p # q
    BY <1>2
  <2> QED  BY <1>1, <1>2, <2>1 DEF Becomes, Command
<1>3. ASSUME NEW p \in Proc, NEW pc \in {"remove", "connect", "open", "make"}, NEW args,
             NEW size, Start(p, pc, args, size)
      PROVE  run'[q].file = run[q].file /\ run'[q].answer = run[q].answer
  <2>1. p # q
    BY <1>1, <1>3 DEF Start, Becomes, Idle
  <2> QED  BY <1>1, <1>3, <2>1 DEF Start, Becomes, Command
<1>4. ASSUME NEW p \in Proc, StartCreate(p) \/ StartInfo(p) \/ StartVdisk(p)
      PROVE  run'[q].file = run[q].file /\ run'[q].answer = run[q].answer
  BY <1>3, <1>4 DEF StartCreate, StartInfo, StartVdisk, AfterExists
<1>5. ASSUME NEW p \in Proc, Stop(p)
      PROVE  run'[q].file = run[q].file /\ run'[q].answer = run[q].answer
  BY <1>2, <1>5 DEF Stop, Ends, Ended
<1>6. ASSUME NEW p \in Proc,
             \/ Remove(p) \/ RemoveFails(p) \/ StatementFails(p) \/ RegisterFails(p)
             \/ InsertFails(p) \/ CommitDisks(p) \/ InsertSuperblocks(p)
      PROVE  run'[q].file = run[q].file /\ run'[q].answer = run[q].answer
  BY <1>2, <1>6 DEF Remove, RemoveFails, StatementFails, RegisterFails, Registering, InsertFails,
       CommitDisks, InsertSuperblocks, Ends, Goes
<1>7. ASSUME NEW p \in Proc,
             Connect(p) \/ Open(p) \/ Statement(p) \/ RegisterDisk(p) \/ Info(p)
      PROVE  run'[q].file = run[q].file /\ run'[q].answer = run[q].answer
  <2>1. run[p].pc # "answered"
    BY <1>7 DEF Connect, Open, Statement, RegisterDisk, Registering, Info
  <2>2. \E r : Becomes(p, r)
    <3>1. CASE Connect(p) \/ Open(p)
      BY <3>1 DEF Connect, Open, Connects
    <3>2. CASE Statement(p)
      BY <3>2 DEF Statement
    <3>3. CASE RegisterDisk(p)
      BY <3>3 DEF RegisterDisk
    <3>4. CASE Info(p)
      BY <3>4 DEF Info, Ends
    <3> QED  BY <1>7, <3>1, <3>2, <3>3, <3>4
  <2> QED  BY <1>2, <2>1, <2>2
<1>8. ASSUME NEW p \in Proc, MakeVdisk(p) \/ Lengthen(p) \/ WriteHeader(p)
      PROVE  run'[q].file = run[q].file /\ run'[q].answer = run[q].answer
  BY <1>2, <1>8 DEF MakeVdisk, Lengthen, WriteHeader, VdiskStep, Goes
<1>9. ASSUME NEW d \in Disk, Change(d)
      PROVE  run'[q].file = run[q].file /\ run'[q].answer = run[q].answer
  BY <1>1, <1>9 DEF Change, Command
<1> QED  BY <1>4, <1>5, <1>6, <1>7, <1>8, <1>9 DEF Next

(* An answer remains right: the command keeps its file, whose disks are    *)
(* there and stay.                                                         *)
LEMMA AnswersStay == Inv /\ Answers /\ [Next]_vars => Answers'
<1> SUFFICES ASSUME Inv, Answers, [Next]_vars, NEW q \in Proc, run'[q].pc = "answered"
             PROVE  AnswerOK(run[q])'
  BY DEF Answers, AnswerOK
<1>1. Typed /\ run[q] \in Command
  BY DEF Inv, Typed
<1>2. CASE UNCHANGED vars
  BY <1>2 DEF vars, Answers, AnswerOK
<1>3. CASE Next /\ run[q].pc # "answered"
  <2>1. Info(q) /\ file[run[q].file].disks # <<>>
    BY <1>3, OnlyInfoAnswers
  <2>2. Becomes(q, [run[q] EXCEPT !.pc = "answered",
                                  !.answer = NumSuperblocks(file[run[q].file].disks)])
    BY <2>1 DEF Info
  <2>3. run'[q] = [run[q] EXCEPT !.pc = "answered",
                                 !.answer = NumSuperblocks(file[run[q].file].disks)]
    BY <2>2 DEF Becomes
  <2>4. /\ run'[q].file = run[q].file
        /\ run'[q].answer = NumSuperblocks(file[run[q].file].disks)
    BY <1>1, <2>3 DEF Command
  <2>5. file' = file
    BY <2>1 DEF Info
  <2> QED  BY <2>1, <2>4, <2>5 DEF AnswerOK
<1>4. CASE Next /\ run[q].pc = "answered"
  <2>1. /\ file[run[q].file].disks # <<>>
        /\ run[q].answer = NumSuperblocks(file[run[q].file].disks)
    BY <1>4 DEF Answers, AnswerOK
  <2>2. run[q].file \in File
    BY <1>4 DEF Inv, CommandOK, PhaseOK
  <2>3. file'[run[q].file].disks = file[run[q].file].disks
    BY <2>1, <2>2, FilesStay
  <2>4. run'[q].file = run[q].file /\ run'[q].answer = run[q].answer
    BY <1>1, <1>4, AnsweredRests
  <2> QED  BY <2>1, <2>3, <2>4 DEF AnswerOK
<1> QED  BY <1>2, <1>3, <1>4

(* The invariant and the answers hold in every reachable state.            *)
THEOREM AnswersInvariant == Spec => [](Inv /\ Answers)
<1>1. Init => Inv /\ Answers
  BY InitInv DEF Init, Answers, AnswerOK, Idle
<1>2. (Inv /\ Answers) /\ [Next]_vars => (Inv /\ Answers)'
  BY NextInv, AnswersStay
<1> QED  BY <1>1, <1>2, PTL DEF Spec

-----------------------------------------------------------------------------
(* create-vdisk without company.                                           *)

(* The disk it makes is as far as the command is.                          *)
MakerOK(c) ==
  LET d == c.args[1]
      n == BlocksFor(c.size)
  IN  c.alone /\ Len(c.args) = 1 =>
        /\ c.pc = "lengthen" => device[d] = Plugged(0)
        /\ c.pc = "head" => device[d] = Plugged(VdiskLength(n))
        /\ c.pc = "done" => device[d] = [length |-> VdiskLength(n), header |-> n]
Makers == \A p \in Proc : MakerOK(run[p])

(* A step of one command deprives the others of being alone.               *)
LEMMA OneMaker ==
  ASSUME Inv, NEW p \in Proc, NEW r, Becomes(p, r), MakerOK(run[p])'
  PROVE  Makers'
<1>1. ASSUME NEW q \in Proc \ {p} PROVE MakerOK(run[q])'
  <2>1. run[q] \in Command
    BY DEF Inv, Typed
  <2>2. run'[q].alone = FALSE
    BY <2>1 DEF Becomes, Command
  <2> QED  BY <2>2 DEF MakerOK
<1> QED  BY <1>1 DEF Makers

(* Steps that are not of create-vdisk say nothing of it.                   *)
LEMMA OthersMakeNothing ==
  ASSUME Inv, NEW p \in Proc, NEW r, Becomes(p, r),
         r.pc \notin {"lengthen", "head", "done"} \/ r.args = <<>>
  PROVE  Makers'
<1>1. run'[p] = r
  BY DEF Becomes
<1>2. Len(<<>>) = 0
  OBVIOUS
<1>3. MakerOK(run[p])'
  BY <1>1, <1>2 DEF MakerOK
<1> QED  BY <1>3, OneMaker

(* The header does not lengthen a file that has room for it.               *)
LEMMA HeaderFits ==
  ASSUME NEW n \in Nat PROVE Max({VdiskLength(n), HEADER_SIZE}) = VdiskLength(n)
<1>1. VdiskLength(n) \in Nat /\ VdiskLength(n) >= HEADER_SIZE /\ HEADER_SIZE \in Nat
  BY SMT DEF VdiskLength, HEADER_SIZE
<1> HIDE DEF HEADER_SIZE
<1>2. \A x, y \in Nat : x >= y => Max({x, y}) = x
  BY SMT DEF Max
<1> QED  BY <1>1, <1>2

(* The steps of create-vdisk, each after the one before it.                *)
LEMMA MakersMake ==
  ASSUME Inv, Makers, NEW p \in Proc, MakeVdisk(p) \/ Lengthen(p) \/ WriteHeader(p)
  PROVE  Makers'
<1> DEFINE d == run[p].args[1]
           n == BlocksFor(run[p].size)
<1>1. Typed /\ run[p] \in Command /\ MakerOK(run[p])
  BY DEF Inv, Typed, Makers
<1>2. n \in Nat
  BY <1>1, BlocksNumber DEF Command
<1>3. ASSUME NEW pc, NEW next \in {"lengthen", "head", "done"}, NEW contents,
             VdiskStep(p, pc, next, contents),
             run[p].alone /\ Len(run[p].args) = 1 =>
               contents = CASE next = "lengthen" -> Plugged(0)
                            [] next = "head" -> Plugged(VdiskLength(n))
                            [] next = "done" -> [length |-> VdiskLength(n), header |-> n]
      PROVE  Makers'
  <2>1. /\ Becomes(p, [run[p] EXCEPT !.pc = next])
        /\ device' = [device EXCEPT ![d] = contents]
    BY <1>3 DEF VdiskStep, Goes
  <2>2. run'[p] = [run[p] EXCEPT !.pc = next]
    BY <2>1 DEF Becomes
  <2>3. /\ run'[p].pc = next /\ run'[p].args = run[p].args /\ run'[p].size = run[p].size
        /\ run'[p].alone = run[p].alone
    BY <1>1, <2>2 DEF Command
  <2>4. ASSUME run[p].alone, Len(run[p].args) = 1 PROVE device'[d] = contents
    <3>1. d \in Disk
      BY <1>1, <2>4 DEF Command
    <3> QED  BY <1>1, <2>1, <3>1 DEF Typed
  <2>5. MakerOK(run[p])'
    BY <1>3, <2>3, <2>4 DEF MakerOK
  <2> QED  BY <2>1, <2>5, OneMaker
<1>4. CASE MakeVdisk(p)
  BY <1>3, <1>4 DEF MakeVdisk
<1>5. CASE Lengthen(p)
  <2>1. run[p].pc = "lengthen"
    BY <1>5 DEF Lengthen, VdiskStep
  <2>2. run[p].alone /\ Len(run[p].args) = 1 =>
          [device[d] EXCEPT !.length = VdiskLength(n)] = Plugged(VdiskLength(n))
    BY <1>1, <2>1 DEF MakerOK, Plugged
  <2> QED  BY <1>3, <1>5, <2>2 DEF Lengthen
<1>6. CASE WriteHeader(p)
  <2>1. run[p].pc = "head"
    BY <1>6 DEF WriteHeader, VdiskStep
  <2>2. run[p].alone /\ Len(run[p].args) = 1 =>
          [device[d] EXCEPT !.length = Max({@, HEADER_SIZE}), !.header = n]
            = [length |-> VdiskLength(n), header |-> n]
    <3>1. SUFFICES ASSUME run[p].alone, Len(run[p].args) = 1
                   PROVE  [device[d] EXCEPT !.length = Max({@, HEADER_SIZE}), !.header = n]
                            = [length |-> VdiskLength(n), header |-> n]
      OBVIOUS
    <3>2. device[d] = [length |-> VdiskLength(n), header |-> NoHeader]
      BY <1>1, <2>1, <3>1 DEF MakerOK, Plugged
    <3> HIDE DEF d, n
    <3>3. Max({device[d].length, HEADER_SIZE}) = VdiskLength(n)
      BY <1>2, <3>2, HeaderFits
    <3>4. PICK old, length : old = device[d] /\ length = Max({device[d].length, HEADER_SIZE})
      OBVIOUS
    <3>5. [old EXCEPT !.length = length, !.header = n] = [length |-> VdiskLength(n), header |-> n]
      <4>1. PICK mid : mid = [old EXCEPT !.length = length]
        OBVIOUS
      <4>2. mid = [length |-> VdiskLength(n), header |-> NoHeader]
        BY <3>2, <3>3, <3>4, <4>1
      <4>3. [mid EXCEPT !.header = n] = [length |-> VdiskLength(n), header |-> n]
        BY <4>2
      <4> QED  BY <4>1, <4>3
    <3> QED  BY <3>4, <3>5
  <2> QED  BY <1>3, <1>6, <2>2 DEF WriteHeader
<1> QED  BY <1>4, <1>5, <1>6

(* Neither its own steps nor those of others take a virtual disk in the    *)
(* making from what was asked.                                             *)
LEMMA MakersStay == Inv /\ Makers /\ [Next]_vars => Makers'
<1> SUFFICES ASSUME Inv, Makers, [Next]_vars PROVE Makers'
  OBVIOUS
<1>1. \A p \in Proc : run[p] \in Command
  BY DEF Inv, Typed
<1>2. ASSUME NEW p \in Proc, NEW pc, pc \notin {"lengthen", "head", "done"}, Goes(p, pc)
      PROVE  Makers'
  <2>1. PICK r : r = [run[p] EXCEPT !.pc = pc]
    OBVIOUS
  <2>2. Becomes(p, r) /\ r.pc = pc
    BY <1>1, <1>2, <2>1 DEF Goes, Command
  <2> QED  BY <1>2, <2>2, OthersMakeNothing
<1>3. ASSUME NEW p \in Proc, NEW pc, Ends(p, pc) PROVE Makers'
  <2>1. PICK r : r = [Idle EXCEPT !.pc = pc, !.alone = run[p].alone]
    OBVIOUS
  <2>2. Becomes(p, r) /\ r.args = <<>>
    BY <1>3, <2>1 DEF Ends, Idle
  <2> QED  BY <2>2, OthersMakeNothing
<1>4. ASSUME NEW p \in Proc, StartCreate(p) \/ StartInfo(p) \/ StartVdisk(p) PROVE Makers'
  <2>1. PICK pc \in {"remove", "connect", "open", "make"} : \E args, size : Start(p, pc, args, size)
    BY <1>4 DEF StartCreate, StartInfo, StartVdisk, AfterExists
  <2>2. PICK args, size, alone, r :
          /\ r = [Idle EXCEPT !.pc = pc, !.args = args, !.size = size, !.alone = alone]
          /\ Becomes(p, r)
    BY <2>1 DEF Start
  <2>3. r.pc = pc
    BY <2>2 DEF Idle
  <2> QED  BY <2>2, <2>3, OthersMakeNothing
<1>5. ASSUME NEW p \in Proc,
             \/ Stop(p) \/ RemoveFails(p) \/ StatementFails(p) \/ RegisterFails(p)
             \/ InsertFails(p) \/ InsertSuperblocks(p)
      PROVE  Makers'
  BY <1>3, <1>5 DEF Stop, RemoveFails, StatementFails, RegisterFails, InsertFails, InsertSuperblocks
<1>6. ASSUME NEW p \in Proc, Remove(p) \/ CommitDisks(p) PROVE Makers'
  BY <1>2, <1>6 DEF Remove, CommitDisks
<1>7. ASSUME NEW p \in Proc, NEW pc \in {"schema", "info"}, Connects(p, pc) PROVE Makers'
  <2>1. PICK f, r : r = [run[p] EXCEPT !.pc = pc, !.file = f] /\ Becomes(p, r)
    BY <1>7 DEF Connects
  <2>2. r.pc = pc
    BY <1>1, <2>1 DEF Command
  <2> QED  BY <2>1, <2>2, OthersMakeNothing
<1>8. ASSUME NEW p \in Proc, Statement(p) PROVE Makers'
  <2>1. PICK pc \in {"register", "schema"} : \E step :
          Becomes(p, [run[p] EXCEPT !.step = step, !.pc = pc])
    BY <1>8 DEF Statement
  <2>2. PICK step, r : r = [run[p] EXCEPT !.step = step, !.pc = pc] /\ Becomes(p, r)
    BY <2>1
  <2>3. r.pc = pc
    BY <1>1, <2>2 DEF Command
  <2> QED  BY <2>2, <2>3, OthersMakeNothing
<1>9. ASSUME NEW p \in Proc, RegisterDisk(p) PROVE Makers'
  <2>1. PICK rows, r : r = [run[p] EXCEPT !.rows = rows] /\ Becomes(p, r)
    BY <1>9 DEF RegisterDisk
  <2>2. r.pc = "register"
    BY <1>1, <1>9, <2>1 DEF Command, RegisterDisk, Registering
  <2> QED  BY <2>1, <2>2, OthersMakeNothing
<1>10. ASSUME NEW p \in Proc, Info(p) PROVE Makers'
  <2>1. CASE Ends(p, "refused")
    BY <1>3, <2>1
  <2>2. CASE ~Ends(p, "refused")
    <3>1. PICK answer, r :
            r = [run[p] EXCEPT !.pc = "answered", !.answer = answer] /\ Becomes(p, r)
      BY <1>10, <2>2 DEF Info
    <3>2. r.pc = "answered"
      BY <1>1, <3>1 DEF Command
    <3> QED  BY <3>1, <3>2, OthersMakeNothing
  <2> QED  BY <2>1, <2>2
<1>11. ASSUME NEW p \in Proc, MakeVdisk(p) \/ Lengthen(p) \/ WriteHeader(p) PROVE Makers'
  BY <1>11, MakersMake
<1>12. ASSUME NEW d \in Disk, Change(d) PROVE Makers'
  <2>1. \A p \in Proc : run'[p].alone = FALSE
    BY <1>1, <1>12 DEF Change, Command
  <2> QED  BY <2>1 DEF Makers, MakerOK
<1>13. CASE UNCHANGED vars
  BY <1>13 DEF vars, Makers, MakerOK
<1> QED
  BY <1>4, <1>5, <1>6, <1>7, <1>8, <1>9, <1>10, <1>11, <1>12, <1>13 DEF Next, Connect, Open

(* A create-vdisk without company is on its way to a virtual disk of the   *)
(* size that was asked for, in every reachable state.                      *)
THEOREM MakersInvariant == Spec => [](Inv /\ Makers)
<1>1. Init => Inv /\ Makers
  BY InitInv DEF Init, Makers, MakerOK, Idle
<1>2. (Inv /\ Makers) /\ [Next]_vars => (Inv /\ Makers)'
  BY NextInv, MakersStay
<1> QED  BY <1>1, <1>2, PTL DEF Spec

-----------------------------------------------------------------------------
(* The theorems.                                                           *)

(* The types of the model are right in every state.                        *)
THEOREM PoolTypes == Spec => []TypeOK
<1>1. ASSUME Inv PROVE TypeOK
  <2>1. Typed
    BY <1>1 DEF Inv
  <2>2. ASSUME NEW f \in File
        PROVE  /\ file[f].schema \in 0..3
               /\ Len(file[f].disks) \in {0} \cup PoolSizes
               /\ file[f].disks # <<>> => file[f].schema = 3
               /\ file[f].superblocks \subseteq Nat
    <3>1. file[f] \in Database /\ FileOK(f)
      BY <1>1, <2>1 DEF Inv, Typed
    <3>2. Len(<<>>) = 0
      OBVIOUS
    <3> QED  BY <3>1, <3>2 DEF Database, FileOK
  <2>3. ASSUME NEW d \in Disk PROVE device[d].length \in Nat \/ ~Exists(d)
    BY <2>1 DEF Typed, Device, Exists
  <2>4. ASSUME NEW p \in Proc
        PROVE  /\ run[p].file \in File \cup {NoFile}
               /\ run[p].pc \in {"schema", "register", "superblocks", "info"} => run[p].file # NoFile
               /\ run[p].pc \in {"register", "superblocks"} => file[run[p].file].schema = 3
    <3>1. run[p] \in Command /\ StepOK(run[p]) /\ PhaseOK(run[p])
      BY <1>1, <2>1 DEF Inv, Typed, CommandOK
    <3> QED  BY <3>1, ConstantsAssumption DEF Command, StepOK, PhaseOK
  <2> QED  BY <2>1, <2>2, <2>3, <2>4 DEF TypeOK, Typed
<1> QED  BY <1>1, Invariance, PTL

(* A database with superblocks is one that some create finished, numbered  *)
(* from 0 and fitting the smallest disk, however creates race and stop.    *)
THEOREM WholePoolAlways == Spec => []WholePool
<1>1. ASSUME Inv PROVE WholePool
  <2>1. SUFFICES ASSUME NEW f \in File, file[f].superblocks # {} \/ f \in finished
                 PROVE  Whole(f)
    BY DEF WholePool
  <2>2. FileOK(f) /\ file \in [File -> Database]
    BY <1>1 DEF Inv, Typed
  <2>3. f \in finished
    BY <2>1, <2>2 DEF FileOK
  <2> QED  BY <2>2, <2>3, Fit
<1> QED  BY <1>1, Invariance, PTL

(* info never tells another number than add-file finds.                    *)
THEOREM InfoAgreesAlways == Spec => []InfoAgrees
<1>1. ASSUME Inv, Answers PROVE InfoAgrees
  <2> SUFFICES ASSUME NEW p \in Proc, run[p].pc = "answered"
               PROVE  IF run[p].file \in finished
                        THEN run[p].answer = Cardinality(file[run[p].file].superblocks)
                        ELSE file[run[p].file].superblocks = {}
    BY DEF InfoAgrees
  <2>1. PICK f \in File : f = run[p].file
    BY <1>1 DEF Inv, CommandOK, PhaseOK
  <2>2. FileOK(f) /\ file \in [File -> Database]
    BY <1>1 DEF Inv, Typed
  <2>3. CASE f \notin finished
    BY <2>1, <2>2, <2>3 DEF FileOK
  <2>4. CASE f \in finished
    <3> DEFINE rows == file[f].disks
               k == MinSize(rows) \div BLOCK_SIZE
    <3>1. rows \in Seq(Row) /\ rows # <<>> /\ Len(rows) \in PoolSizes
      BY <2>2, <2>4 DEF FileOK, Database
    <3>2. MinSize(rows) \in Nat
      BY <3>1, Smallest
    <3>3. k \in Nat
      <4> HIDE DEF rows
      <4> QED  BY <3>2, SMT DEF BLOCK_SIZE
    <3>4. Len(rows) \in Nat /\ ~(Len(rows) < 2)
      BY <3>1, ConstantsAssumption, SMT
    <3>5. NumSuperblocks(rows) = k
      BY <3>4 DEF NumSuperblocks
    <3>6. run[p].answer = k
      BY <1>1, <2>1, <3>5 DEF Answers, AnswerOK
    <3>7. file[f].superblocks = 0..k-1
      BY <2>2, <2>4 DEF FileOK, NewSuperblocks
    <3>8. Cardinality(0..k-1) = k
      <4> HIDE DEF k
      <4>1. 0 \in Int /\ k-1 \in Int
        BY <3>3
      <4>2. Cardinality(0..k-1) = IF 0 > k-1 THEN 0 ELSE k-1-0+1
        BY <4>1, FS_Interval
      <4> QED  BY <3>3, <4>2
    <3> QED  BY <2>1, <2>4, <3>6, <3>7, <3>8
  <2> QED  BY <2>1, <2>3, <2>4
<1> QED  BY <1>1, AnswersInvariant, PTL

(* A create without company never fails of what earlier commands left.     *)
THEOREM AloneSucceedsAlways == Spec => []AloneSucceeds
<1>1. Inv => AloneSucceeds
  BY DEF Inv, CommandOK, AloneOK, AloneSucceeds
<1> QED  BY <1>1, Invariance, PTL

(* Whatever its size, what create-vdisk makes without company is a virtual *)
(* disk that has room for all of what was asked, and less than a block     *)
(* more: div_ceil rounds up, and no step undoes another's.                 *)
THEOREM VdiskAlwaysAsAsked == Spec => []VdiskAsAsked
<1>1. ASSUME Inv, Makers PROVE VdiskAsAsked
  <2> SUFFICES ASSUME NEW p \in Proc, run[p].alone, run[p].pc = "done", Len(run[p].args) = 1
               PROVE  LET d == run[p].args[1]
                      IN  IsVdisk(d) /\ DeviceSize(d) - run[p].size \in 0..VDISK_BLOCK-1
    BY DEF VdiskAsAsked
  <2>1. PICK n, d, size : n = BlocksFor(size) /\ d = run[p].args[1] /\ size = run[p].size
    OBVIOUS
  <2>2. size \in Nat /\ n \in Nat
    BY <1>1, <2>1, BlocksNumber DEF Inv, Typed, Command
  <2>3. device[d] = [length |-> VdiskLength(n), header |-> n]
    BY <1>1, <2>1 DEF Makers, MakerOK
  <2>4. IsVdisk(d) /\ DeviceSize(d) = n * VDISK_BLOCK
    BY <2>2, <2>3 DEF IsVdisk, DeviceSize, NoHeader
  <2>5. n * VDISK_BLOCK - size \in 0..VDISK_BLOCK-1
    <3>1. n = (size + 1048575) \div 1048576
      BY <2>1, <2>2, SMT DEF BlocksFor, VDISK_BLOCK
    <3>2. n * 1048576 <= size + 1048575 /\ size + 1048575 < n * 1048576 + 1048576
      BY <2>2, <3>1, SMT
    <3>3. PICK m \in Nat : m = n * 1048576
      BY <2>2, SMT
    <3> PICK rest : rest = m - size
      OBVIOUS
    <3>4. rest \in Nat /\ rest <= 1048575
      BY <2>2, <3>2, <3>3, SMT
    <3>5. VDISK_BLOCK - 1 = 1048575 /\ n * VDISK_BLOCK = m
      BY <3>3, SMT DEF VDISK_BLOCK
    <3>6. rest \in 0..VDISK_BLOCK-1
      BY <3>4, <3>5, SMT
    <3> QED  BY <3>5, <3>6, SMT
  <2> QED  BY <2>1, <2>4, <2>5
<1> QED  BY <1>1, MakersInvariant, PTL

(* No command changes the database of a finished create.                   *)
THEOREM FinishedStays == Spec => FinishedIsStable
<1>1. Inv /\ [Next]_vars => [\A f \in finished \cap finished' : file'[f] = file[f]]_vars
  <2> SUFFICES ASSUME Inv, [Next]_vars, NEW f \in finished \cap finished'
               PROVE  file'[f] = file[f]
    OBVIOUS
  <2>1. f \in File
    BY DEF Inv, Typed
  <2> QED  BY <2>1, FilesStay
<1> QED  BY <1>1, Invariance, PTL DEF Spec, FinishedIsStable
=============================================================================
