------------------------------ MODULE PoolCreate ------------------------------
(***************************************************************************)
(* How a pool comes to be: create replaces the database at a path and      *)
(* fills the new one in two transactions, create-vdisk makes the files it  *)
(* may use as disks, and open and info come upon whatever is there.        *)
(* Several commands run at once, and any of them may stop at any step.     *)
(***************************************************************************)
EXTENDS Integers, Sequences, FiniteSets, FiniteSetsExt

CONSTANTS
  Proc,         \* commands running at the same time
  Disk,         \* paths of disks
  File,         \* inodes for database files
  NoFile,
  Lengths,      \* lengths in bytes of the disks that are plugged in
  Asked,        \* sizes asked of create-vdisk, in bytes
  PoolSizes,    \* how many disks a create is given
  MaxCommands,  \* bound: how many commands are given
  MaxChanges    \* bound: how often a disk is swapped or used

ASSUME ConstantsAssumption ==
  /\ NoFile \notin File
  /\ Lengths \subseteq Nat /\ Asked \subseteq Nat
  /\ PoolSizes \subseteq Nat \ {0, 1}
  /\ MaxCommands \in Nat /\ MaxChanges \in Nat

VARIABLES
  path,      \* the database file at db_path
  file,      \* what each database file contains
  device,    \* the file at the path of each disk
  run,       \* the commands
  commands,  \* how many were given
  changes,   \* how often a disk was swapped or used
  finished   \* history: the files for which a create returned success

vars == <<path, file, device, run, commands, changes, finished>>

-----------------------------------------------------------------------------
(* Disks.                                                                  *)

BLOCK_SIZE == 528384        \* of the pool
VDISK_BLOCK == 1048576      \* BLOCK_SIZE of crate vdisk
HEADER_SIZE == 4096
NoHeader == -1
(* A file's length and the block_count of its header.  The header's count  *)
(* of allocated blocks is 0 for ever, see VDisk.                           *)
Plugged(length) == [length |-> length, header |-> NoHeader]
Absent == [length |-> -1, header |-> NoHeader]
Exists(d) == device[d] # Absent

VdiskLength(blocks) == HEADER_SIZE + 8 * blocks
IsVdisk(d) ==
  /\ device[d].header # NoHeader
  /\ device[d].length = VdiskLength(device[d].header)

(* open_device and size.                                                   *)
DeviceSize(d) ==
  IF IsVdisk(d) THEN device[d].header * VDISK_BLOCK ELSE device[d].length

(* VDisk::create: div_ceil.                                                *)
(* Mutant: rounds down.                                                    *)
BlocksBelow(size) == size \div VDISK_BLOCK
BlocksFor(size) == (size + VDISK_BLOCK - 1) \div VDISK_BLOCK

-----------------------------------------------------------------------------
(* Databases.                                                              *)

(* How much of the schema there is: 1 is the table disks, 2 all tables, 3  *)
(* the root of fs, too.                                                    *)
Empty == [schema |-> 0, disks |-> <<>>, superblocks |-> {}]

MinSize(rows) == Min({rows[i].size : i \in DOMAIN rows})
(* num_superblocks.                                                        *)
(* Mutant: divides by the size of the data, DATA_SIZE.                     *)
NumByData(rows) == IF Len(rows) < 2 THEN 0 ELSE MinSize(rows) \div 524288
NumSuperblocks(rows) == IF Len(rows) < 2 THEN 0 ELSE MinSize(rows) \div BLOCK_SIZE

-----------------------------------------------------------------------------
Ended == {"idle", "done", "answered", "refused", "failed", "stopped"}
Idle == [pc |-> "idle", args |-> <<>>, rows |-> <<>>, file |-> NoFile, step |-> 0,
         size |-> 0, answer |-> 0, alone |-> FALSE]

Init ==
  /\ path = NoFile
  /\ file = [f \in File |-> Empty]
  /\ device \in [Disk -> {Absent} \cup {Plugged(n) : n \in Lengths}]
  /\ run = [p \in Proc |-> Idle]
  /\ commands = 0
  /\ changes = 0
  /\ finished = {}

(* A command goes on with what it did.  Nobody else is alone any more.     *)
Becomes(p, r) ==
  run' = [q \in Proc |-> IF q = p THEN r ELSE [run[q] EXCEPT !.alone = FALSE]]
Goes(p, pc) == Becomes(p, [run[p] EXCEPT !.pc = pc])
(* It returns, and its connection is closed.                               *)
Ends(p, pc) == Becomes(p, [Idle EXCEPT !.pc = pc, !.alone = run[p].alone])

Start(p, pc, args, size) ==
  /\ run[p].pc \in Ended
  /\ commands < MaxCommands
  /\ commands' = commands + 1
  /\ Becomes(p, [Idle EXCEPT !.pc = pc, !.args = args, !.size = size,
                             !.alone = \A q \in Proc \ {p} : run[q].pc \in Ended])
  /\ UNCHANGED <<path, file, device, changes, finished>>

(* An error that the rest of the model does not bring about, a wait for    *)
(* SQLite's locks that timed out among them, or a kill.  An open           *)
(* transaction is rolled back.                                             *)
Stop(p) ==
  /\ run[p].pc \notin Ended
  /\ Ends(p, "stopped")
  /\ UNCHANGED <<path, file, device, commands, changes, finished>>

(* Connection::open makes an empty file when there is none.                *)
Unused == {f \in File \ {path} : \A p \in Proc : run[p].file # f}
Connects(p, pc) ==
  /\ \/ /\ path # NoFile
        /\ Becomes(p, [run[p] EXCEPT !.pc = pc, !.file = path])
        /\ UNCHANGED <<path, file, finished>>
     \/ /\ path = NoFile
        /\ \E f \in Unused :
             /\ path' = f
             /\ file' = [file EXCEPT ![f] = Empty]
             /\ finished' = finished \ {f}
             /\ Becomes(p, [run[p] EXCEPT !.pc = pc, !.file = f])
  /\ UNCHANGED <<device, commands, changes>>

(* SQLite begins no write to a file that is no longer at its path, except  *)
(* while it is empty.                                                      *)
Writable(p) == run[p].file = path \/ file[run[p].file].schema = 0

-----------------------------------------------------------------------------
(* create.  Fewer than two disks are refused.                              *)

(* Mutant: leaves a database that exists in its place.                     *)
NeverRemoves == "connect"
AfterExists == IF path # NoFile THEN "remove" ELSE "connect"

StartCreate(p) ==
  \E n \in PoolSizes : \E disks \in [1..n -> Disk] : Start(p, AfterExists, disks, 0)

Remove(p) ==
  /\ run[p].pc = "remove"
  /\ path # NoFile
  /\ path' = NoFile
  /\ Goes(p, "connect")
  /\ UNCHANGED <<file, device, commands, changes, finished>>

(* Another command has removed it.                                         *)
RemoveFails(p) ==
  /\ run[p].pc = "remove"
  /\ path = NoFile
  /\ Ends(p, "failed")
  /\ UNCHANGED <<path, file, device, commands, changes, finished>>

Connect(p) == run[p].pc = "connect" /\ Connects(p, "schema")

(* The statements of the schema are committed one by one.  Those between   *)
(* the first table and the rows of the root are taken as one: the tables   *)
(* they make are not looked at on the way.                                 *)
NoTables(p) == file[run[p].file].schema = run[p].step

(* Mutant: the schema drops the tables that are there before it makes them.*)
StatementDrops(p) ==
  /\ run[p].pc = "schema"
  /\ Writable(p)
  /\ LET step == run[p].step + 1
     IN  /\ file' = [file EXCEPT ![run[p].file] =
                       [(IF step = 1 THEN Empty ELSE @) EXCEPT !.schema = step]]
         /\ Becomes(p, [run[p] EXCEPT !.step = step,
                                      !.pc = IF step = 3 THEN "register" ELSE "schema"])
  /\ UNCHANGED <<path, device, commands, changes, finished>>
Statement(p) ==
  /\ run[p].pc = "schema"
  /\ NoTables(p) /\ Writable(p)
  /\ LET step == run[p].step + 1
     IN  /\ file' = [file EXCEPT ![run[p].file].schema = step]
         /\ Becomes(p, [run[p] EXCEPT !.step = step,
                                      !.pc = IF step = 3 THEN "register" ELSE "schema"])
  /\ UNCHANGED <<path, device, commands, changes, finished>>

StatementFails(p) ==
  /\ run[p].pc = "schema"
  /\ ~NoTables(p) \/ ~Writable(p)
  /\ Ends(p, "failed")
  /\ UNCHANGED <<path, file, device, commands, changes, finished>>

(* register_disks: each disk is opened and inserted in turn.               *)
NextDisk(p) == run[p].args[Len(run[p].rows) + 1]
Registering(p) == run[p].pc = "register" /\ Len(run[p].rows) < Len(run[p].args)

(* The first INSERT begins to write, and ids are primary keys: 1 and up    *)
(* here, the superblock's number below.                                    *)
CannotInsertDisk(p) ==
  \/ run[p].rows = <<>> /\ ~Writable(p)
  \/ Len(run[p].rows) + 1 \in DOMAIN file[run[p].file].disks

RegisterDisk(p) ==
  /\ Registering(p)
  /\ Exists(NextDisk(p))
  /\ ~CannotInsertDisk(p)
  /\ Becomes(p, [run[p] EXCEPT !.rows =
                   Append(@, [path |-> NextDisk(p), size |-> DeviceSize(NextDisk(p))])])
  /\ UNCHANGED <<path, file, device, commands, changes, finished>>

RegisterFails(p) ==
  /\ Registering(p)
  /\ \/ ~Exists(NextDisk(p)) /\ Ends(p, "refused")
     \/ Exists(NextDisk(p)) /\ CannotInsertDisk(p) /\ Ends(p, "failed")
  /\ UNCHANGED <<path, file, device, commands, changes, finished>>

CommitDisks(p) ==
  /\ run[p].pc = "register"
  /\ Len(run[p].rows) = Len(run[p].args)
  /\ file' = [file EXCEPT ![run[p].file].disks = @ \o run[p].rows]
  /\ Goes(p, "superblocks")
  /\ UNCHANGED <<path, device, commands, changes, finished>>

(* Mutant: takes the size of the first disk.                               *)
FromFirst(rows) == 0..(rows[1].size \div BLOCK_SIZE)-1
NewSuperblocks(rows) == 0..(MinSize(rows) \div BLOCK_SIZE)-1

CannotInsert(p) ==
  LET new == NewSuperblocks(run[p].rows)
  IN  \/ new # {} /\ ~Writable(p)
      \/ new \cap file[run[p].file].superblocks # {}

InsertSuperblocks(p) ==
  /\ run[p].pc = "superblocks"
  /\ ~CannotInsert(p)
  /\ file' = [file EXCEPT ![run[p].file].superblocks = @ \cup NewSuperblocks(run[p].rows)]
  /\ finished' = finished \cup {run[p].file}
  /\ Ends(p, "done")
  /\ UNCHANGED <<path, device, commands, changes>>

InsertFails(p) ==
  /\ run[p].pc = "superblocks"
  /\ CannotInsert(p)
  /\ Ends(p, "failed")
  /\ UNCHANGED <<path, file, device, commands, changes, finished>>

-----------------------------------------------------------------------------
(* open and info.  The other commands open the database the same way.      *)

StartInfo(p) == path # NoFile /\ Start(p, "open", <<>>, 0)
Open(p) == run[p].pc = "open" /\ Connects(p, "info")

Info(p) ==
  /\ run[p].pc = "info"
  /\ LET rows == file[run[p].file].disks
     IN  IF rows = <<>> THEN Ends(p, "refused")
         ELSE Becomes(p, [run[p] EXCEPT !.pc = "answered", !.answer = NumSuperblocks(rows)])
  /\ UNCHANGED <<path, file, device, commands, changes, finished>>

-----------------------------------------------------------------------------
(* create-vdisk: makes the file, gives it its length, writes the header.   *)

StartVdisk(p) ==
  \E d \in Disk, size \in Asked : ~Exists(d) /\ Start(p, "make", <<d>>, size)

VdiskStep(p, pc, next, contents) ==
  /\ run[p].pc = pc
  /\ device' = [device EXCEPT ![run[p].args[1]] = contents]
  /\ Goes(p, next)
  /\ UNCHANGED <<path, file, commands, changes, finished>>

MakeVdisk(p) == VdiskStep(p, "make", "lengthen", Plugged(0))
Lengthen(p) ==
  VdiskStep(p, "lengthen", "head", [device[run[p].args[1]] EXCEPT
                                      !.length = VdiskLength(BlocksFor(run[p].size))])
WriteHeader(p) ==
  VdiskStep(p, "head", "done", [device[run[p].args[1]] EXCEPT
                                  !.length = Max({@, HEADER_SIZE}),
                                  !.header = BlocksFor(run[p].size)])

-----------------------------------------------------------------------------
(* A disk is unplugged or another one plugged in, or the file of a virtual *)
(* disk grows because a command writes to it.                              *)
Change(d) ==
  /\ changes < MaxChanges
  /\ changes' = changes + 1
  /\ \A p \in Proc : run[p].pc \in {"make", "lengthen", "head"} => run[p].args[1] # d
  /\ \/ \E new \in {Absent} \cup {Plugged(n) : n \in Lengths} :
          device' = [device EXCEPT ![d] = new]
     \/ IsVdisk(d) /\ device' = [device EXCEPT ![d].length = @ + VDISK_BLOCK]
  /\ run' = [p \in Proc |-> [run[p] EXCEPT !.alone = FALSE]]
  /\ UNCHANGED <<path, file, commands, finished>>

Next ==
  \/ \E p \in Proc :
       \/ StartCreate(p) \/ Remove(p) \/ RemoveFails(p) \/ Connect(p)
       \/ Statement(p) \/ StatementFails(p)
       \/ RegisterDisk(p) \/ RegisterFails(p) \/ CommitDisks(p)
       \/ InsertSuperblocks(p) \/ InsertFails(p)
       \/ StartInfo(p) \/ Open(p) \/ Info(p)
       \/ StartVdisk(p) \/ MakeVdisk(p) \/ Lengthen(p) \/ WriteHeader(p)
       \/ Stop(p)
  \/ \E d \in Disk : Change(d)

Spec == Init /\ [][Next]_vars
-----------------------------------------------------------------------------
(* Properties.                                                             *)

(* Rows come from one create, which is at most one transaction ahead or    *)
(* has ended, and names of files and disks are what they should be.        *)
TypeOK ==
  /\ path \in File \cup {NoFile}
  /\ finished \subseteq File
  /\ \A f \in File :
       /\ file[f].schema \in 0..3
       /\ Len(file[f].disks) \in {0} \cup PoolSizes
       /\ file[f].disks # <<>> => file[f].schema = 3
       /\ file[f].superblocks \subseteq Nat
  /\ \A d \in Disk : device[d].length \in Nat \/ ~Exists(d)
  /\ \A p \in Proc :
       /\ run[p].file \in File \cup {NoFile}
       /\ run[p].pc \in {"schema", "register", "superblocks", "info"} => run[p].file # NoFile
       /\ run[p].pc \in {"register", "superblocks"} => file[run[p].file].schema = 3

(* Where add-file can find superblocks at all, the database is one that    *)
(* create completed: superblocks numbered from 0, all of them within every *)
(* registered disk, and no room left for another one on the smallest.      *)
Whole(f) ==
  LET used == Cardinality(file[f].superblocks) * BLOCK_SIZE
      sizes == {file[f].disks[i].size : i \in DOMAIN file[f].disks}
  IN  /\ file[f].superblocks = 0..Cardinality(file[f].superblocks)-1
      /\ sizes # {}
      /\ \A size \in sizes : used <= size
      /\ \E size \in sizes : size < used + BLOCK_SIZE
WholePool == \A f \in File : file[f].superblocks # {} \/ f \in finished => Whole(f)

(* info tells the number of superblocks that add-file has or will have,    *)
(* unless the create has not come that far or never will.                  *)
InfoAgrees ==
  \A p \in Proc : run[p].pc = "answered" =>
    LET f == run[p].file
    IN  IF f \in finished THEN run[p].answer = Cardinality(file[f].superblocks)
        ELSE file[f].superblocks = {}

(* A create with no other command beside it, whose disks are there, does   *)
(* not fail of what the commands before it have left, wherever they        *)
(* stopped.                                                                *)
AloneSucceeds == \A p \in Proc : run[p].alone => run[p].pc # "failed"

(* What create-vdisk makes, while nobody else does, is a virtual disk of   *)
(* the size asked for or less than a block more.                           *)
VdiskAsAsked ==
  \A p \in Proc : run[p].alone /\ run[p].pc = "done" /\ Len(run[p].args) = 1 =>
    LET d == run[p].args[1]
    IN  IsVdisk(d) /\ DeviceSize(d) - run[p].size \in 0..VDISK_BLOCK-1

(* Nothing another create does, racing or later, changes the database that *)
(* a create has reported finished; it can only be removed from its path.   *)
FinishedIsStable ==
  [][\A f \in finished \cap finished' : file'[f] = file[f]]_vars
=============================================================================
