------------------------------ MODULE Catalogue ------------------------------
(***************************************************************************)
(* The pool's catalogue: the SQLite database that says which file owns     *)
(* which superblocks, and the commands add-file and add-directory that     *)
(* change it (libsraid: lib.rs, file_ops.rs, db.rs).                       *)
(*                                                                         *)
(* Every invocation of the tool is a process.  It reads the catalogue in a *)
(* transaction, writes file data to superblocks of the disks, which are    *)
(* not under the transaction's control, and commits.  It can fail or be    *)
(* killed anywhere in between, and another invocation can run beside it.   *)
(***************************************************************************)
EXTENDS Integers, Sequences, FiniteSets, FiniteSetsExt

CONSTANTS
  Proc,            \* the invocations that can run at the same time
  Superblock,      \* the superblocks of the pool
  SuperblockSize,  \* logical size of a superblock
  Name,            \* names of files and directories
  Command,         \* the commands a user may give
  MaxCommands      \* bound: how many commands are given in all

Entry == [path : Seq(Name) \ {<<>>}, size : Nat, isDir : BOOLEAN]

(* An entry list is what add_directory collects from the source directory; *)
(* add-file carries the one file it was given.                             *)
CommandType == [cmd : {"file", "directory"}, force : BOOLEAN, entries : Seq(Entry)]

ASSUME ConstantsAssumption ==
  /\ SuperblockSize \in Nat \ {0}
  /\ MaxCommands \in Nat
  /\ Command \subseteq CommandType
  /\ \A c \in Command :
       c.cmd = "file" => Len(c.entries) = 1 /\ ~c.entries[1].isDir

VARIABLES
  db,        \* the committed database
  disk,      \* what write_superblock last put into each superblock
  started,   \* how many commands have been given
  pc,        \* where each process is
  lock,      \* the lock each process holds on the database file
  tx,        \* the database as each process's open transaction sees it
  run,       \* the local variables of each process
  spoiled    \* history: physical files whose removal was rolled back

vars == <<db, disk, started, pc, lock, tx, run, spoiled>>

-----------------------------------------------------------------------------
(* The database.  NULL is 0 (AUTOINCREMENT ids start at 1).                *)

(* A row of fs is named by its path, which stands for its name and its     *)
(* chain of parents.                                                       *)

NULL == 0
RootRow == [id |-> 1, path |-> <<>>, isDir |-> TRUE, file |-> NULL]

(* The contents of the n-th command's i-th entry stand for its bytes and   *)
(* for their hash; a superblock holds one chunk of them.                   *)
Content == [command : Nat, entry : Nat]
Chunk == [command : Nat, entry : Nat, chunk : Nat]
Blank == [command |-> 0, entry |-> 0, chunk |-> 0]
Torn == [command |-> 0, entry |-> 0, chunk |-> 1]

FsRow == [id : Nat, path : Seq(Name), isDir : BOOLEAN, file : Nat]
PhysicalRow == [id : Nat, size : Nat, hash : Content]
Database == [fs : SUBSET FsRow, fsSeq : Nat,
             physical : SUBSET PhysicalRow, physSeq : Nat,
             owner : [Superblock -> Nat], order : [Superblock -> Nat]]

NewPool == [fs |-> {RootRow}, fsSeq |-> 1,
            physical |-> {}, physSeq |-> 0,
            owner |-> [s \in Superblock |-> NULL],
            order |-> [s \in Superblock |-> 0]]

(* Mutant: takes the first superblock of a file for a free one.            *)
FreeByOrder(d) == {s \in Superblock : d.order[s] = 0}
Free(d) == {s \in Superblock : d.owner[s] = NULL}

(* u64::div_ceil by the superblock size: how many superblocks a file needs.*)
Extent(size) == (size + SuperblockSize - 1) \div SuperblockSize

(* The ways to pick n free superblocks (the query has no ORDER BY).        *)
Allocations(d, n) ==
  {ids \in [1..n -> Free(d)] : \A i, j \in 1..n : ids[i] = ids[j] => i = j}

HasEnoughSpace(d, entries) ==
  LET Needed(i) == Extent(entries[i].size)
  IN  Cardinality(Free(d)) >= MapThenSumSet(Needed, DOMAIN entries)

(* The rows at a path, of which a query takes the one with the least id.   *)
Rows(d, path) == {r \in d.fs : r.path = path}
First(rows) == CHOOSE r \in rows : \A q \in rows : r.id <= q.id
FileExists(d, path) == Rows(d, path) # {}

(* The directories on the way to a path: a file stands in the way of it,   *)
(* or some of them do not exist.                                           *)
Way(path) == 1..Len(path)-1
Prefix(path, k) == SubSeq(path, 1, k)
Blocked(d, path) ==
  \E k \in Way(path) :
    LET rows == Rows(d, Prefix(path, k)) IN rows # {} /\ ~First(rows).isDir
Missing(d, path) == {k \in Way(path) : Rows(d, Prefix(path, k)) = {}}

(* get_file_id_with_tx returns an error: its walk meets a file too early,  *)
(* or finds a directory where the file should be.                          *)
LookupFails(d, path) ==
  Blocked(d, path) \/ (FileExists(d, path) /\ First(Rows(d, path)).isDir)

(* ensure_path inserts the missing directories, but not the last component.*)
NewDirs(d, path) ==
  {[id |-> d.fsSeq + Cardinality(Missing(d, path) \cap 1..k),
    path |-> Prefix(path, k), isDir |-> TRUE, file |-> NULL] : k \in Missing(d, path)}
EnsurePath(d, path) ==
  [d EXCEPT !.fs = @ \cup NewDirs(d, path), !.fsSeq = @ + Cardinality(Missing(d, path))]

(* delete_physical_file_with_tx: the references that keep the physical     *)
(* file are counted with the id of the fs row, not with the physical id.   *)
References(d, row) == {r \in d.fs \ {row} : r.file = row.id}
(* Mutant: forgets to reset the superblocks.                               *)
DeleteFileOnly(d, row) ==
  IF References(d, row) # {} THEN [d EXCEPT !.fs = @ \ {row}]
  ELSE [d EXCEPT !.fs = @ \ {row}, !.physical = {f \in @ : f.id # row.file}]
DeleteFile(d, row) ==
  LET unlisted == [d EXCEPT !.fs = @ \ {row}]
      freed == {s \in Superblock : d.owner[s] = row.file}
  IN  IF References(d, row) # {} THEN unlisted
      ELSE [unlisted EXCEPT
              !.physical = {f \in @ : f.id # row.file},
              !.owner = [s \in Superblock |-> IF s \in freed THEN NULL ELSE @[s]],
              !.order = [s \in Superblock |-> IF s \in freed THEN 0 ELSE @[s]]]

(* commit_file_with_tx up to ensure_path, and then to its end.             *)
AddPhysicalFile(d, size, hash) ==
  [d EXCEPT !.physical = @ \cup {[id |-> d.physSeq + 1, size |-> size, hash |-> hash]},
            !.physSeq = @ + 1]
(* Mutant: numbers the superblocks from one below.                         *)
AssignFromBelow(d, file, ids) ==
  LET Pos(s) == CHOOSE i \in DOMAIN ids : ids[i] = s
      taken == {ids[i] : i \in DOMAIN ids}
  IN  [d EXCEPT !.owner = [s \in Superblock |-> IF s \in taken THEN file ELSE @[s]],
                !.order = [s \in Superblock |-> IF s \in taken THEN Pos(s) - 2 ELSE @[s]]]
AssignSuperblocks(d, file, ids) ==
  LET Pos(s) == CHOOSE i \in DOMAIN ids : ids[i] = s
      taken == {ids[i] : i \in DOMAIN ids}
  IN  [d EXCEPT !.owner = [s \in Superblock |-> IF s \in taken THEN file ELSE @[s]],
                !.order = [s \in Superblock |-> IF s \in taken THEN Pos(s) - 1 ELSE @[s]]]
RecordContent(d, size, hash, ids) ==
  AssignSuperblocks(AddPhysicalFile(d, size, hash), d.physSeq + 1, ids)
(* Mutant: does not make the directories above the file.                   *)
InsertFileOnly(d, path, file) ==
  [d EXCEPT !.fs = @ \cup {[id |-> d.fsSeq + 1, path |-> path,
                            isDir |-> FALSE, file |-> file]},
            !.fsSeq = @ + 1]
InsertFile(d, path, file) ==
  LET e == EnsurePath(d, path)
  IN  [e EXCEPT !.fs = @ \cup {[id |-> e.fsSeq + 1, path |-> path,
                                isDir |-> FALSE, file |-> file]},
                !.fsSeq = @ + 1]

-----------------------------------------------------------------------------
(* SQLite's locks on the database file, in its default rollback-journal    *)
(* mode with a deferred BEGIN.  A pending writer keeps new readers out.    *)

Writing == {"reserved", "pending"}
CanRead(p) == \A q \in Proc \ {p} : lock[q] # "pending"
CanWrite(p) == \A q \in Proc \ {p} : lock[q] \notin Writing
(* Mutant: commits beside a reader.                                        *)
CanCommitBesideReaders(p) == CanWrite(p)
CanCommit(p) == \A q \in Proc \ {p} : lock[q] = "none"

-----------------------------------------------------------------------------
(* Processes.                                                              *)

Idle == [job |-> [cmd |-> "none", force |-> FALSE, entries |-> <<>>],
         number |-> 0, replacing |-> FALSE, cursor |-> 1, ids |-> <<>>, written |-> 0]

(* The path is the one in the database: in add_directory a name that is no *)
(* UTF-8 has become the empty one, so two entries may have one path.       *)
Current(p) == run[p].job.entries[run[p].cursor]
Hash(p) == [command |-> run[p].number, entry |-> run[p].cursor]

Init ==
  /\ db = NewPool
  /\ disk = [s \in Superblock |-> Blank]
  /\ started = 0
  /\ pc = [p \in Proc |-> "idle"]
  /\ lock = [p \in Proc |-> "none"]
  /\ tx = [p \in Proc |-> NewPool]
  /\ run = [p \in Proc |-> Idle]
  /\ spoiled = {}

(* The process ends; a transaction still open is rolled back by the caller.*)
Exit(p) ==
  /\ pc' = [pc EXCEPT ![p] = "idle"]
  /\ lock' = [lock EXCEPT ![p] = "none"]
  /\ tx' = [tx EXCEPT ![p] = NewPool]
  /\ run' = [run EXCEPT ![p] = Idle]

Removed(p) ==
  IF lock[p] \in Writing THEN {f.id : f \in db.physical \ tx[p].physical} ELSE {}

RollBack(p) ==
  /\ Exit(p)
  /\ spoiled' = spoiled \cup Removed(p)
  /\ UNCHANGED <<db, started>>

(* An error inside the transaction.  replace_file and add_directory return *)
(* it with `?` and so roll back; add_file commits whatever was done.       *)
(* Mutant: a command of any kind does.                                     *)
AlwaysCommits(p) == TRUE
CommitsOnError(p) == run[p].job.cmd = "file" /\ ~run[p].replacing
(* Mutant: a failed step is tried again for ever.                          *)
TryAgain(p) ==
  /\ pc' = [pc EXCEPT ![p] = "entry"]
  /\ run' = [run EXCEPT ![p].ids = <<>>, ![p].written = 0]
  /\ UNCHANGED <<db, started, lock, tx, spoiled>>
GiveUp(p) ==
  \/ /\ CommitsOnError(p)
     /\ pc' = [pc EXCEPT ![p] = "abandon"]
     /\ UNCHANGED <<db, started, lock, tx, run, spoiled>>
  \/ /\ ~CommitsOnError(p)
     /\ RollBack(p)

Start(p) ==
  /\ pc[p] = "idle"
  /\ started < MaxCommands
  /\ \E c \in Command :
       /\ run' = [run EXCEPT ![p] = [Idle EXCEPT !.job = c, !.number = started + 1]]
       /\ pc' = [pc EXCEPT ![p] = IF c.cmd = "file" THEN "lookup" ELSE "begin"]
  /\ started' = started + 1
  /\ UNCHANGED <<db, disk, lock, tx, spoiled>>

(* LibSRaid::add_file looks the file up in a transaction of its own, and   *)
(* decides there between adding, replacing and refusing.                   *)
Refused(p) ==
  \/ LookupFails(db, Current(p).path)
  \/ FileExists(db, Current(p).path) /\ ~run[p].job.force

LookUp(p) ==
  /\ pc[p] = "lookup"
  /\ CanRead(p)
  /\ ~Refused(p)
  /\ run' = [run EXCEPT ![p].replacing = FileExists(db, Current(p).path)]
  /\ pc' = [pc EXCEPT ![p] = "begin"]
  /\ UNCHANGED <<db, disk, started, lock, tx, spoiled>>

LookUpRefuses(p) ==
  /\ pc[p] = "lookup"
  /\ CanRead(p)
  /\ Refused(p)
  /\ Exit(p)
  /\ UNCHANGED <<db, disk, started, spoiled>>

(* The transaction that does the work: its first query takes the shared    *)
(* lock.  add_directory first checks the space and every destination.      *)
DirectoryRefused(p) ==
  LET c == run[p].job
  IN  /\ c.cmd = "directory"
      /\ \/ ~HasEnoughSpace(db, c.entries)
         \/ /\ ~c.force
            /\ \E i \in DOMAIN c.entries :
                 \/ LookupFails(db, c.entries[i].path)
                 \/ FileExists(db, c.entries[i].path)

Begin(p) ==
  /\ pc[p] = "begin"
  /\ CanRead(p)
  /\ ~DirectoryRefused(p)
  /\ lock' = [lock EXCEPT ![p] = "shared"]
  /\ tx' = [tx EXCEPT ![p] = db]
  /\ pc' = [pc EXCEPT ![p] = "entry"]
  /\ UNCHANGED <<db, disk, started, run, spoiled>>

BeginRefuses(p) ==
  /\ pc[p] = "begin"
  /\ CanRead(p)
  /\ DirectoryRefused(p)
  /\ Exit(p)
  /\ UNCHANGED <<db, disk, started, spoiled>>

HasEntry(p) == pc[p] = "entry" /\ run[p].cursor <= Len(run[p].job.entries)

(* A directory entry of add_directory.                                     *)
MakeDirectory(p) ==
  LET path == Current(p).path
      d == EnsurePath(tx[p], path)
  IN  /\ HasEntry(p)
      /\ Current(p).isDir
      /\ ~Blocked(tx[p], path)
      /\ d # tx[p] => CanWrite(p)
      /\ tx' = [tx EXCEPT ![p] = d]
      /\ lock' = [lock EXCEPT ![p] = IF d # tx[p] THEN "reserved" ELSE @]
      /\ run' = [run EXCEPT ![p].cursor = @ + 1]
      /\ UNCHANGED <<db, disk, started, pc, spoiled>>

MakeDirectoryFails(p) ==
  LET path == Current(p).path
  IN  /\ HasEntry(p)
      /\ Current(p).isDir
      /\ \/ Blocked(tx[p], path)
         \/ EnsurePath(tx[p], path) # tx[p] /\ ~CanWrite(p)
      /\ GiveUp(p)
      /\ UNCHANGED disk

(* A file entry: add_directory, and replace_file, look the path up in the  *)
(* transaction and delete the file found there; then add_file_with_tx      *)
(* picks the superblocks.                                                  *)
(* Mutant: replace_file does not delete the file it replaces.              *)
LooksUpInDirectory(p) == run[p].job.cmd = "directory"
LooksUp(p) == ~CommitsOnError(p)
Deletes(p) == LooksUp(p) /\ FileExists(tx[p], Current(p).path)
Cleared(p) ==
  IF Deletes(p) THEN DeleteFile(tx[p], First(Rows(tx[p], Current(p).path))) ELSE tx[p]
CannotStore(p) ==
  \/ LooksUp(p) /\ LookupFails(tx[p], Current(p).path)
  \/ Deletes(p) /\ ~CanWrite(p)
  \/ Allocations(Cleared(p), Extent(Current(p).size)) = {}

Allocate(p) ==
  /\ HasEntry(p)
  /\ ~Current(p).isDir
  /\ ~CannotStore(p)
  /\ \E ids \in Allocations(Cleared(p), Extent(Current(p).size)) :
       run' = [run EXCEPT ![p].ids = ids]
  /\ tx' = [tx EXCEPT ![p] = Cleared(p)]
  /\ lock' = [lock EXCEPT ![p] = IF Deletes(p) THEN "reserved" ELSE @]
  /\ pc' = [pc EXCEPT ![p] = "write"]
  /\ UNCHANGED <<db, disk, started, spoiled>>

AllocateFails(p) ==
  /\ HasEntry(p)
  /\ ~Current(p).isDir
  /\ CannotStore(p)
  /\ GiveUp(p)
  /\ UNCHANGED disk

(* One superblock's worth of the source file goes to the disks.            *)
Unwritten(p) == pc[p] = "write" /\ run[p].written < Len(run[p].ids)
Target(p) == run[p].ids[run[p].written + 1]

WriteSuperblock(p) ==
  /\ Unwritten(p)
  /\ disk' = [disk EXCEPT ![Target(p)] =
                [command |-> run[p].number, entry |-> run[p].cursor,
                 chunk |-> run[p].written + 1]]
  /\ run' = [run EXCEPT ![p].written = @ + 1]
  /\ UNCHANGED <<db, started, pc, lock, tx, spoiled>>

(* All data is written: commit_file_with_tx.  Its first INSERT needs the   *)
(* reserved lock; a reader that cannot get it fails at once (SQLITE_BUSY). *)
Written(p) == pc[p] = "write" /\ run[p].written = Len(run[p].ids)
Recorded(p) == RecordContent(tx[p], Current(p).size, Hash(p), run[p].ids)

RecordFile(p) ==
  /\ Written(p)
  /\ CanWrite(p)
  /\ ~Blocked(tx[p], Current(p).path)
  /\ tx' = [tx EXCEPT ![p] = InsertFile(Recorded(p), Current(p).path, tx[p].physSeq + 1)]
  /\ lock' = [lock EXCEPT ![p] = "reserved"]
  /\ run' = [run EXCEPT ![p].cursor = @ + 1, ![p].ids = <<>>, ![p].written = 0]
  /\ pc' = [pc EXCEPT ![p] = "entry"]
  /\ UNCHANGED <<db, disk, started, spoiled>>

(* ensure_path fails after the physical file has been recorded.  Only a    *)
(* command that commits on error comes to this: the others looked the path *)
(* up in this same transaction.                                            *)
RecordFileFails(p) ==
  /\ Written(p)
  /\ \/ ~CanWrite(p) /\ GiveUp(p)
     \/ /\ CanWrite(p)
        /\ Blocked(tx[p], Current(p).path)
        /\ CommitsOnError(p)
        /\ tx' = [tx EXCEPT ![p] = Recorded(p)]
        /\ lock' = [lock EXCEPT ![p] = "reserved"]
        /\ pc' = [pc EXCEPT ![p] = "abandon"]
        /\ UNCHANGED <<db, started, run, spoiled>>
  /\ UNCHANGED disk

(* Mutant: leaves the last entry out.                                      *)
FinishEarly(p) ==
  /\ pc[p] = "entry"
  /\ run[p].cursor >= Len(run[p].job.entries)
  /\ pc' = [pc EXCEPT ![p] = "commit"]
  /\ UNCHANGED <<db, disk, started, lock, tx, run, spoiled>>

Finish(p) ==
  /\ pc[p] = "entry"
  /\ run[p].cursor > Len(run[p].job.entries)
  /\ pc' = [pc EXCEPT ![p] = "commit"]
  /\ UNCHANGED <<db, disk, started, lock, tx, run, spoiled>>

AtCommit(p) == pc[p] \in {"commit", "abandon"}

Commit(p) ==
  /\ AtCommit(p)
  /\ lock[p] \in Writing => CanCommit(p)
  /\ db' = IF lock[p] \in Writing THEN tx[p] ELSE db
  /\ Exit(p)
  /\ UNCHANGED <<disk, started, spoiled>>

(* The writer has to wait until the readers are gone.                      *)
AwaitReaders(p) ==
  /\ AtCommit(p)
  /\ lock[p] = "reserved"
  /\ ~CanCommit(p)
  /\ lock' = [lock EXCEPT ![p] = "pending"]
  /\ UNCHANGED <<db, disk, started, pc, tx, run, spoiled>>

(* The busy timeout (rusqlite's 5 seconds) of a wait for a lock expires.   *)
Timeout(p) ==
  /\ \/ pc[p] \in {"lookup", "begin"} /\ ~CanRead(p)
     \/ AtCommit(p) /\ lock[p] = "pending" /\ ~CanCommit(p)
  /\ RollBack(p)
  /\ UNCHANGED disk

(* The source cannot be read, a disk cannot be opened or written.  A write *)
(* that fails, or that the process does not survive, may tear its target.  *)
MayTear(p) ==
  \/ UNCHANGED disk
  \/ Unwritten(p) /\ disk' = [disk EXCEPT ![Target(p)] = Torn]

Fault(p) ==
  /\ \/ pc[p] = "begin" /\ run[p].job.cmd = "directory" /\ RollBack(p)
     \/ HasEntry(p) /\ ~Current(p).isDir /\ GiveUp(p)
     \/ Unwritten(p) /\ GiveUp(p)
  /\ MayTear(p)

Crash(p) ==
  /\ pc[p] # "idle"
  /\ RollBack(p)
  /\ MayTear(p)

Step(p) ==
  \/ LookUp(p) \/ LookUpRefuses(p)
  \/ Begin(p) \/ BeginRefuses(p)
  \/ MakeDirectory(p) \/ MakeDirectoryFails(p)
  \/ Allocate(p) \/ AllocateFails(p)
  \/ WriteSuperblock(p)
  \/ RecordFile(p) \/ RecordFileFails(p)
  \/ Finish(p) \/ Commit(p) \/ AwaitReaders(p) \/ Timeout(p)

Next == \E p \in Proc : Start(p) \/ Step(p) \/ Fault(p) \/ Crash(p)

Spec == Init /\ [][Next]_vars

(* A process that was started keeps running: nothing it does waits for     *)
(* anything but a lock, and the busy timeout bounds that wait.             *)
FairSpec == Spec /\ \A p \in Proc : WF_vars(Step(p))
-----------------------------------------------------------------------------
(* Properties.                                                             *)

PcType == {"idle", "lookup", "begin", "entry", "write", "commit", "abandon"}
RunType == [job : Command \cup {Idle.job}, number : Nat, replacing : BOOLEAN,
            cursor : Nat \ {0}, ids : Seq(Superblock), written : Nat]

(* Every variable has the type its use in the code gives it.               *)
TypeOK ==
  /\ db \in Database
  /\ disk \in [Superblock -> Chunk]
  /\ started \in 0..MaxCommands
  /\ pc \in [Proc -> PcType]
  /\ lock \in [Proc -> {"none", "shared"} \cup Writing]
  /\ tx \in [Proc -> Database]
  /\ run \in [Proc -> RunType]
  /\ spoiled \subseteq Nat

(* A listed file has its physical file, an owned superblock has its owner, *)
(* and a physical file has exactly one superblock for each of the chunks   *)
(* its size needs (add_physical_file, assign_superblocks, DELETE).         *)
BackedIn(d) ==
  /\ \A r \in d.fs : r.isDir \/ \E f \in d.physical : f.id = r.file
  /\ \A s \in Superblock : d.owner[s] # NULL =>
       \E f \in d.physical : f.id = d.owner[s] /\ d.order[s] < Extent(f.size)
  /\ \A s, u \in Superblock :
       d.owner[s] # NULL /\ d.owner[s] = d.owner[u] /\ d.order[s] = d.order[u] => s = u
  /\ \A f \in d.physical : \A i \in 0..Extent(f.size)-1 :
       \E s \in Superblock : d.owner[s] = f.id /\ d.order[s] = i

(* No crash, error or concurrent command leaves a file in the committed    *)
(* database with a superblock missing, extra or twice.                     *)
Backed == BackedIn(db)

(* Every row but the root's is in a directory: files are deleted and       *)
(* directories made without cutting anything loose.                        *)
Tree ==
  \A r \in db.fs : r = RootRow \/
    \E q \in db.fs : q.isDir /\ q.path = Prefix(r.path, Len(r.path) - 1)

(* No two rows have the same path (schema.txt gives fs no constraint that  *)
(* says so): a path means one file.                                        *)
UniquePaths == \A r, q \in db.fs : r.path = q.path => r = q

(* Data goes only to a superblock that no committed file owns, or whose    *)
(* owner the writing command has itself removed: storing a file never      *)
(* touches another file's data, whatever else runs or fails.               *)
Spare(p, s) ==
  \/ db.owner[s] = NULL
  \/ lock[p] \in Writing /\ \A f \in tx[p].physical : f.id # db.owner[s]
WritesOnlySpare ==
  [][\A s \in Superblock :
       disk'[s] # disk[s] => \E p \in Proc : Unwritten(p) /\ Target(p) = s /\ Spare(p, s)]_vars

(* The superblocks of a file hold its contents, in order.                  *)
Stored(f) ==
  \A s \in Superblock : db.owner[s] = f.id =>
    disk[s] = [command |-> f.hash.command, entry |-> f.hash.entry, chunk |-> db.order[s] + 1]
BeingReplaced(f) == \E p \in Proc : f.id \in Removed(p)

(* Commands run one at a time.  Then a committed file's data is on its     *)
(* superblocks, unless an attempt to replace that same file is under way   *)
(* or was rolled back.                                                     *)
IntactUnlessReplaced ==
  \A f \in db.physical : Stored(f) \/ BeingReplaced(f) \/ f.id \in spoiled

(* When nothing runs, every file the database lists has its data on disk.  *)
Quiet == \A p \in Proc : pc[p] = "idle"
ListedIsStored == Quiet => \A f \in db.physical : Stored(f)

(* When nothing runs, every physical file is some path's content: what was *)
(* deleted or replaced keeps neither its record nor its superblocks.       *)
NoLeak == Quiet => \A f \in db.physical : \E r \in db.fs : ~r.isDir /\ r.file = f.id

(* What a command is about to commit lists each of its files with the      *)
(* contents it stored: no entry of a directory undoes an earlier one.      *)
Lists(d, path, hash) ==
  /\ ~LookupFails(d, path)
  /\ FileExists(d, path)
  /\ \E f \in d.physical : f.id = First(Rows(d, path)).file /\ f.hash = hash
FilesListedAtCommit ==
  \A p \in Proc : pc[p] = "commit" =>
    \A i \in DOMAIN run[p].job.entries :
      LET e == run[p].job.entries[i]
      IN  e.isDir \/ Lists(tx[p], e.path, [command |-> run[p].number, entry |-> i])

(* A transaction that only read sees the committed database, and there is  *)
(* at most one that wrote.                                                 *)
Serialized ==
  /\ \A p \in Proc : lock[p] = "shared" => tx[p] = db
  /\ \A p, q \in Proc : lock[p] \in Writing /\ lock[q] \in Writing => p = q

(* Commands run one at a time.  Then the committed database, read as a map *)
(* from paths to contents, changes only as a command all at once would     *)
(* have it (module FileStore).                                             *)
FilePath == UNION {{e.path : e \in {c.entries[i] : i \in DOMAIN c.entries}} : c \in Command}
Listing(path) ==
  LET rows == Rows(db, path)
  IN  IF rows = {} \/ First(rows).isDir THEN [command |-> 0, entry |-> 0]
      ELSE (CHOOSE f \in db.physical : f.id = First(rows).file).hash
Store == INSTANCE FileStore WITH store <- [path \in FilePath |-> Listing(path)]
StoreSpec == Store!Spec

(* Every command comes to an end: no two of them wait for each other's     *)
(* locks for ever, and no transaction stays open.                          *)
Completes == \A p \in Proc : pc[p] # "idle" ~> pc[p] = "idle"
=============================================================================
