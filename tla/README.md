# Verification of shoddy-raid

TLA+ models of the shoddy-raid tool (crates `shoddy-raid`, `libsraid`, `vdisk`), checked with TLC, and
theorems about them proved with TLAPS. The code is the reference: definitions are translated from it, and
`PROJECT.json` maps each of them to its lines.

## The system

A *pool* is a set of disks, the last of which holds parity, and an SQLite database that says which file owns
which part of them. Every invocation of the command line opens the database, does one thing and exits; nothing
keeps two invocations apart but SQLite's locks.

| Part | State | Operations | What is hard |
|---|---|---|---|
| catalogue (`db.rs`, `schema.txt`) | tables `fs`, `physical_files`, `superblocks`, `disks` | lookups, allocation, recording, deletion, all inside a caller's transaction | deferred transactions that read first and write later; ids of two tables; no constraint on `fs` |
| commands (`file_ops.rs`, `lib.rs`) | locals of one invocation | `add_file` (adds or replaces), `add_directory`, `delete_file` | data goes to disks outside the transaction; errors and crashes between writing and committing; two commands at once |
| layout (`disk.rs`, `pool.rs`) | the disks | `write_superblock`: pad, split, parity, hashes, write | order and place of 129 writes per disk |
| scrub (`lib.rs`) | locals, the report, the disks it repairs | verify and repair every superblock of every file | no lock is held while it reads and repairs; one error ends it |
| virtual disk (`vdisk/lib.rs`) | header, block table, blocks; the open object | `create`, `open`, `is_vdisk`, `read`, `write`, commit of new blocks | failures between allocating, writing and committing; reopening |
| stream (`vdisk/lib.rs`) | position | `Read`, `Write`, `Seek` over a virtual disk | arithmetic at the ends |
| pool creation (`lib.rs`, `db.rs`) | the database file at a path, tables `disks` and `superblocks` | `create`, `register_disks`, `open`, `info`; `create-vdisk` makes the disks | removes the old database first; a statement at a time, then two transactions; other commands at the same path |
| devices (`device.rs`) | open file | a path is a virtual disk or a raw device | decided anew at each opening |
| the rest (`sys.rs`, `fs.rs`, `utils.rs`, `main.rs`) | none | platform queries, paths, parsing, printing | |

Commands call the catalogue for free superblocks, write them through the layout to the devices, then have the
catalogue record them, and commit. The scrub reads the catalogue in several short queries and works on the
devices alone. A device may be a virtual disk.

What makes each part correct: the catalogue never has a file with a superblock missing or shared and keeps one
row per path; commands have all of their effect or none, and never touch data that belongs to another file; the
layout can be verified and repaired; the scrub harms nothing and reports every loss; a virtual disk returns what was
written to it, after a failure or a reopening too.

## Modules

| Component | Specification | Abstract | Instance | Proofs |
|---|---|---|---|---|
| catalogue and commands | `Catalogue` | `FileStore` | `MCCatalogue` | `CatalogueProofs`, `CatalogueStoreProofs`, `LeastNumbers` |
| pool creation, information, devices | `PoolCreate` | | `MCPoolCreate` | `PoolCreateProofs`, `LeastNumbers` |
| layout and scrub | `Superblocks` | | `MCSuperblocks` | `SuperblocksProofs`, `ScrubProofs` |
| virtual disk and stream | `VDisk`, `VDiskStream` | `PlainFile` | | `VDiskProofs`, `PlainFileProofs` |

* `FileStore` is the abstract promise: a map from paths to contents that a command changes all at once.
* `Catalogue` has the database and the commands. One `Proc` is one invocation. `db` is the committed database,
  `tx[p]` the database as the open transaction of `p` sees it, `lock[p]` its lock on the database file, `run[p]`
  its local variables, `disk[s]` what was last written to superblock `s` (which command, which entry, which
  chunk). An action is a stretch of code between two points where another process, an error or a kill can
  intervene: the lookup of `add_file`; the first query of the working transaction with everything that is
  checked in it; one directory entry; deletion and allocation for one file; the write of one superblock;
  `commit_file_with_tx`; the commit. An error in a transaction rolls it back, except in `add_file`, which commits
  (`CommitsOnError`). `Fault` is an I/O error and `Crash` a kill; both may tear the superblock being written.
  A row of `fs` is named by its whole path instead of name and parent; contents and hashes are named by the
  command and entry they come from. The paths of a command's entries are those that go into the database: in
  `add_directory`, `to_str().unwrap_or("")` makes the empty name of every name that is no UTF-8, so that two entries
  may have one path.
* `Superblocks` has the disks in detail: per superblock and disk a data section of `Cells` subblocks and a hash
  section. Subblocks are vectors over the two-element field, written as sets of base vectors, so that XOR is
  exact and errors can be told from data; a hash is an injective tag. An error is a base vector that is in nothing a
  disk or a file holds (`ErrorsAreNew`), so that no error undoes data or another error by chance. It has `write_superblock` (one action per
  subblock written), the scrub (one action per block read and per VSSB examined), and `Decay`, a disk that
  spoils a subblock or a hash. The command that stores a file is the one of `Catalogue` with its transaction
  reduced to a commit at the end.
* `VDisk` has the virtual disk: header words, block table, the parts after it, the open object, and `write` as a
  step per block, per pointer committed and for the count. A block is divided into `Parts` so that zero filling,
  ranges inside a block and ranges across blocks differ. An error can stop a write after any part; dropping the
  object at any step (`Close`) is also the kill of the program.
* `VDiskStream` puts a position over `VDisk`: reads and writes that the end of the disk cuts short, and seeks
  computed in numbers of `2 * Half` values, wrapping and saturating where `u64` and `i64` do (`Half` is 2^63 in the
  code). While a write is under way, the position waits for its end.
* `PlainFile` is what the two promise: a file of fixed size with a cursor, in which a part changes only during a
  write to it or once one has failed. The crate's own test compares a virtual disk with such a file.
* `PoolCreate` has the path of the database, the files that are or were there (`file[f]`: how much of the schema,
  which disks, which superblocks), the disks that are plugged in, and the commands `create`, `info` and
  `create-vdisk`, several at a time. An action is a statement, a transaction or a file-system call; `Stop` ends a
  command anywhere, `Change` swaps a disk or lets a virtual disk's file grow. What is external: SQLite makes an
  empty file when it opens a path without one, keeps a connection on its file when that is removed, and begins no
  write to a file that is no longer at its path unless that is empty; removing a file takes it from its path only
  (Unix). Ids of `disks` and `superblocks` are primary keys, so an `INSERT` of one that is there fails. The statements of
  `schema.txt` commit one by one, but the model has three steps of them: the first table, all others, and the rows of the
  root; a kill between two tables that are one step here leaves a database no command would use either, and is not
  modelled. Journals, which two files of one path would share, are not modelled, nor is a swap of the very file that a
  `create-vdisk` is making.
* `MCCatalogue`, `MCSuperblocks` and `MCPoolCreate` give the instances, and the `*Proofs` modules the theorems.

Operators introduced by a comment that begins with "Mutant:" are faulty variants of the definition that follows; they are used by no
specification, only to see that a property notices the fault.

## Runs

Runs expected to pass:

| Run | Shows | Bounds |
|---|---|---|
| `one_command` | one command at a time with faults and crashes: one row per path, data intact unless a replacement of that very file was rolled back, entries of a directory all listed, and refinement of `FileStore` | 4 commands out of additions, replacements and directories; 3 superblocks, so that the pool fills up; files of 0, 1 and 2 superblocks |
| `two_commands` | two at a time: catalogue consistent, one writer, no write to another file's superblock, and every command ends | 3 commands, 2 superblocks: a third command sees what a pair of racing ones has left |
| `scrub_beside` | a scrub beside commands and decay writes only where data was mismatched from the start, or in cells a disk has spoiled or a command has written; where no command has written, it makes no VSSB worse; and it names no file for what another one has lost | 3 disks (two of data: the least for which leaving parity out of the XOR differs from copying), 2 cells (one that `write_superblock` reaches and one it does not), 2 superblocks and 2 files, in either order, one of which may verify but for 1 error |
| `scrub_report` | an undisturbed scrub names a file that has lost data, and otherwise only for its parity; it counts its repairs; every scrub ends | 1 superblock; 2 errors, so that a VSSB can lose one or two subblocks or parity; 2 scrubs, so that one reads what the other repaired |
| `vdisk` | reads see what was written, through the object and through the file, across failures and reopenings; positions stay on the disk and seeks land; the disk with its stream implements `PlainFile` | 2 blocks of 2 parts, 2 writes, 3 sessions (the third finds what one that found blocks has left); numbers of 16 values |
| `pool_create` | a database with superblocks is a whole pool, `info` agrees with it, nothing that commands leave behind stops a lone `create`, a virtual disk has the size asked for | 2 commands at a time of 3; 2 disks, 3 database files (one more than commands, so that there is always an unused one); disks of a byte less than a superblock and of two, a virtual disk of a byte more than a block; 1 swap |

Runs expected to find a violation show where the code and its own comments or documents disagree
(`findings` in `PROJECT.json` quotes them):

| Run | What it shows |
|---|---|
| `references_by_row` | the reference count of a physical file is taken with the id of an `fs` row, and a replaced file leaks |
| `replacement_aborted` | a rolled-back replacement has destroyed the data of the file that stays |
| `additions_racing` | two additions write to one superblock, and the file that is committed has the other's data |
| `stored_verifies` | a stored file does not verify: every subblock was written to the same place |
| `parity_only` | a file whose data is all right is named as damaged, for a parity subblock |
| `vdisk_reopened` | after a virtual disk was opened again, a new block is put over an old one |

Because `write_superblock` leaves only the hash subblock, at cell 0, a stored file fails there, unless the disk
happened to hold the hash of just that; what the scrub runs say of a column that can be repaired they say of the other
cells, whose contents come from whatever was on the disks before (`InitialImages`: creating a pool does not write to
them). A file can then only be reported as intact, or as damaged elsewhere, when the disks did happen to hold that hash:
the runs that check the report have such disks (`ByChance`), without which every file of every run would be damaged and
`LossIsReported` would be about nothing.

What the report is compared with is told from the data, as design.md 1.2 does, and not by the test the code makes. A VSSB has
*lost* data when a data subblock fails its hash and so does another subblock, of data or parity. When the parity subblock alone
fails, all data is there; the code calls that damage (run `parity_only`), so what holds is that every file with a loss is
named, and that any other is named for parity only.

`ScrubSparesGoodData` has an exception for every cell that a command wrote and for every cell whose subblock *or hash* a disk
spoiled. So it does not tell what a repair from an old copy does to what a command has written meanwhile; as the code
stands commands write cell 0 only, which is not repaired afterwards, because it fails on every disk. And that a good subblock is overwritten
because its hash is bad is allowed.

The virtual-disk properties hold until a program that found blocks allocated allocates more (`behind`): the header's count
of blocks, which places a new block, is written over the serial number instead and so reads 0 when the file is opened
again, and the new block is put over the first. The history variable `may` holds what a read of each part may return: the last value
written, both values while a write is under way or after it failed, and anything in a block whose allocation failed.

Seen while modelling, and not given a run of their own. With TLC, on instances of the same modules:

* Two `add-file`s of one new path, at once, can both succeed and give the path two rows.
* Two files of one directory whose names are no UTF-8 have one path, and the second replaces the first without `--force`.
* An empty directory is not made, though file_ops.rs:233 says "Create directory entry in database".
* A repair of a VSSB whose parity is not zero does not restore the lost subblock, since it leaves the parity out;
  design.md:93 has it in the XOR. `RepairNeedsZeroParity` proves just when the repair is right.
* A dry run, which only the library offers, counts no repairable block, and the count of "repairable or repaired files"
  is that of the files named as damaged.
* A virtual disk with an allocated block is no longer recognised by `is_vdisk`, because the count in the header is never
  updated; `open_device` then takes it for a raw device, in which each offset of the pool is another place.
* Two `create-vdisk`s of one path at once can both succeed and leave the length of one with the header of the other.

And from the code alone: two `create`s at one path can both go on until the statements of
the schema tell them apart, and one of them then fails or works on a file that is no longer at the path. A `create` that
is refused, because a disk cannot be opened, has already removed the pool that was there, and leaves a database without
disks. One disk given twice is accepted as two. `parse_size` multiplies without a check, so that a size of 2^64 or more
wraps in a release build. A seek from the end works for offset 0 only; `SeeksLand` records what it computes, since
nothing in the repository says where it should go. `info` describes a pool whose superblocks are not there yet, which
`InfoAgrees` allows.

Deadlock is not checked: every system here stops when its bounded supply of commands is used up.

## Fairness

`Completes` assumes weak fairness of each process's steps: a process that was started runs on, and none of its
steps waits for anything but a lock. The busy timeout (rusqlite sets five seconds) bounds those waits and is one
of the steps. Starting a command, faults and crashes are not fair. `ScrubEnds` assumes weak fairness of the
scrub's steps in the same way. Both are checked in runs without symmetry.

## Proofs

Every theorem holds for all values of the constants that the `ASSUME`s of the modules admit, and rests on an inductive
invariant. Four theorems on the catalogue have a hypothesis of their own besides, which their statement names:
commands run one at a time, and, for two of them, a command names each file once.

`CatalogueProofs`, for every set of processes, superblocks, names and commands:

* `TypeCorrect`: `TypeOK` is invariant.
* `SerializedAlways`: a transaction that only read sees the committed database, and at most one has written.
* `BackedAlways`: files, physical files and superblocks of the committed database always fit each other.
* `StoringSpares`: data is written only to superblocks that no committed file owns, or whose owner the writing
  command has itself removed.

The invariant has three parts. `Located` ties the program counter to the locks and the local variables: who holds which
lock where, and that the superblocks picked are distinct, as many as the file needs, and free in the transaction.
`Safe` has `Serialized`, consistency (`BackedIn`, ids below the sequence counters, one listing per physical file) of the
committed database *and of every transaction's view*, and that a superblock whose owner a transaction has changed was
the property of a physical file the transaction has removed. `Backed` alone is not inductive: the commit replaces `db`
by `tx[p]`, so the views have to be consistent too; the deletion keeps consistency only because ids are never reused
and no two rows list one physical file; and the allocation remains valid until it is recorded only because the view
of a reader is the committed database. TLC has checked the parts as invariants of the two-process run.

The last part of `CatalogueProofs`, which is about paths, and `CatalogueStoreProofs` prove the rest of what the runs
check of the catalogue:

* `TreeAlways`, however many commands run: every row but the root's is in a directory.
* `UniquePathsAlone`: no path is there twice.
* `FilesListedAlone`: what is about to be committed lists the command's files, and a lookup finds them.
* `CatalogueIsStore`: the refinement of `FileStore` that the run `one_command` checks.
* `IntactAlone`: the data of every listed file is on its superblocks, unless its replacement is under way or failed.

All but the first assume `OneAtATime`, that there is a single process: it runs any number of commands, each of which
may fail or be killed. The hypothesis is needed, since the lookup of `add_file` is outside of the transaction that adds: two
commands can give one path two rows, and the run `additions_racing` shows what they can do to the data. `FilesListedAlone` and `CatalogueIsStore` assume
`DistinctFiles` too, that no two entries of a command have one path. The walk through a directory names each file once, but
names that are no UTF-8 lose their difference afterwards, so the hypothesis is needed. The
run `one_command` satisfies both.

`Tree` is not inductive. `Rooted` is: in the database and in every transaction's view the root is there, and every
directory *on the way* to each row, since `ensure_path` adds them from the top and stops at what it finds. `Unrepeated`
adds to unique paths that a file which is about to be listed is not there yet, whether it was looked up within the
transaction or before it. For the refinement, `Halfway` relates the view of a transaction to the committed database:
the files behind the cursor have their new contents, paths that are no files of the command are as they were, and
without `--force` nothing was there before. At the commit the cursor is at the end, and this is `FileStore`'s action;
every other step leaves the map alone. For the data, `Intact` says what of the view is on the disks while a command
writes; a step that writes then needs only that its target is spare (`TargetIsSpare`), which is `StoringSpares` once
more.

`PoolCreateProofs`, for every number of commands, disks, database files and disks per pool:

* `PoolTypes`: `TypeOK` is invariant; a database has as many disks as one `create` was given, or none.
* `WholePoolAlways`: a database with superblocks has just those that fit its smallest disk.
* `InfoAgreesAlways`: `info` tells the number of superblocks the pool has, or it has none.
* `AloneSucceedsAlways`: what earlier commands left behind does not stop a lone `create`.
* `FinishedStays`: no command changes a finished database.
* `VdiskAlwaysAsAsked`: what a lone `create-vdisk` makes has the size asked for, rounded up to blocks, and its header.

The heart is `OneEach`: at most one command is past the first statement of the schema in a given file, since the
second to come finds the table. From then on the file is exactly as far as that command (`StepOK`), which is what makes
two transactions as good as one. `FileOK` says what a file without such a command can be. `AloneOK` says that what a
command without company has seen is still so, and `MakerOK` how long the file of a lone `create-vdisk` is, and what
is in it, at each of its statements. `Smallest` and `LeastNatural` are about the minimum that `MinSize`
chooses; the latter comes from the well-foundedness of inclusion of finite sets, because induction is not available
(see below).

`VDiskProofs`, for disks of any number of blocks of any number of parts, and any number of writes and sessions:

* `VDiskTypes`, `SessionReadsAlways`, `FileReadsAlways`, `OwnPlacesAlways`: reads return what was last written, through
  the object and through the file at every step of a write, and blocks have their own places.
* `PositionAlwaysOnDisk`, `SeeksAlwaysLand`: the stream's position, and its seeks for numbers of any width of which
  the disk's size takes less than half.

The invariant adds to the properties, while the disk is not `behind`, that the table has the object's pointers but
for those to be committed, that in a session that found no blocks no pointer exceeds the count (so a new block goes
behind all others), and what a write has done so far. `SessionReads` is not inductive: it says nothing during a write,
and the zeroes of a block allocated by a write that failed are promised only because the block reads as anything
(`may`) from then on.

`PlainFileProofs`: `StreamIsPlainFile`, the refinement of `PlainFile` that the run `vdisk` checks on a small disk. It
adds that a part's possible values are either one, known, or several (`MayOK`), and that all parts of a write under
way are of the latter kind (`RangeOK`). A part of which one value is possible then cannot change in any step that
leaves `may` alone.

`SuperblocksProofs`, for any number of disks, cells, superblocks, files, scrubs and errors:

* `SuperblockTypes`: `TypeOK`, with its claim that no superblock is ever assigned to two files.
* `ScrubSpares`: `ScrubSparesGoodData`, with its exceptions (above).

For the second, the buffer that a scrub repairs from may be stale, but what it holds of a subblock that was never hit is
what the disk had when the pool was made, or the result of a repair of a subblock that did not match then; so a mismatch
found in the buffer was there from the start.

`ScrubProofs`, for the same, about what a scrub does and says:

* `LossesAreReported`: an undisturbed scrub names every file that had lost data when it began, and another only if a parity
  subblock alone failed in it (`DamageIs`: what the code takes for damage is the one or the other).
* `EveryRepairIsCounted`: unless it is a dry run, it counts as repaired the VSSBs with just one failing data subblock.
* `ScrubMakesNothingWorse`: the action property `ScrubNeverWorsens`.
* `ScrubAdvances`: each step of a running scrub ends it or takes it nearer to its end, and no other step sets it back.
* `ParityCloses`: the subblocks that `write_superblock` lays out for a VSSB add up to zero, parity included.
* `RepairNeedsZeroParity`: from the other subblocks as they were stored, the scrub computes the lost one if and only if
  the parity is zero, though design.md:93 has every lost subblock reconstructed.
* `NothingCutOff`: padding and cutting leave every subblock of the source on a data disk.

The first three rest on `ScrubInv`. `NotStale` is what makes repairs safe: what fails its hash in the buffer, in a cell that is
still to be examined, fails on the disk *now*. A disk that decays further keeps it so only because no hash is one of
something with a new error (`ErrorsAhead`, from `ErrorsAreNew`): without that assumption, two errors could cancel behind
the buffer's back, and the scrub would then overwrite a subblock that is good again. What is overwritten is thus
failing already, and the set of failing subblocks only shrinks. `ScrubFound` is what reports rest on: of the VSSBs
that are `Left`, the disks and the buffer are as they were at the start, though repairs change the disks; of all others the flag
of the current file, the damaged files and the count say what was wrong with them at the start. Each round takes one
VSSB off `Left`, and none is examined twice, since files share no superblock (`SuperblockTypes`) and no file has one twice
(`Distinct`). TLC has checked the parts of `ScrubInv` as invariants on three instances: one
superblock with two errors and two scrubs, and two superblocks of one file and of two.

Every invariant, action property and refinement that a passing run checks has a theorem. Only model-checked are the
liveness properties `Completes` and `ScrubEnds`: fairness and `ENABLED` are outside the prover's reach. `ScrubAdvances` is
what of `ScrubEnds` is not: the order it descends (files left, superblocks of the file left, VSSBs of the superblock left,
disks left to read) has no infinite descent. Also out of reach is induction over data: facts that the provers lack about sums, folds and concatenations cannot be added.

## Not modelled

`sys.rs` (block sizes, serial numbers and mount points asked from the operating system), `fs.rs` and `utils.rs` (path
joining, parsing and printing of sizes) and the parsing of arguments keep no state and take no part in the protocols;
`create-vdisk` starts from the size that was parsed. An empty destination path makes `add_file` panic before anything
is opened. The tables `config` and `virtual_files` are used by no code. Reading a file back from the pool is described
by the design document but is not implemented. Power failure is not modelled: the code never flushes, and the models let everything
written survive in order, as it does when a program is killed.

## Plan

1. Done: `Catalogue` with `FileStore`, `Superblocks`, `VDisk` with `VDiskStream` and `PlainFile`, `PoolCreate`.
2. Done: proofs about each of them.
3. Done: a theorem for every invariant, action property and refinement that the runs check.
4. Left: padding and splitting of a superblock byte for byte, and `parse_size`, against reference definitions over
   bounded inputs.
5. Left: the operating system's cache, for power failures.
