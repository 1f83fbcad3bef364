------------------------- MODULE CatalogueStoreProofs -------------------------
(***************************************************************************)
(* Commands that run one at a time have all of their effect or none: the   *)
(* catalogue implements the map from paths to contents of FileStore, and   *)
(* the data of what it lists is on the disks.                              *)
(***************************************************************************)
EXTENDS CatalogueProofs

-----------------------------------------------------------------------------
(* What a database says of a path.                                         *)

WellFormed(d) == d \in Database /\ Consistent(d) /\ UniqueIn(d)

NoContent == [command |-> 0, entry |-> 0]
ListingIn(d, path) ==
  LET rows == Rows(d, path)
  IN  IF rows = {} \/ First(rows).isDir THEN NoContent
      ELSE (CHOOSE f \in d.physical : f.id = First(rows).file).hash

Holds(d, path, content) ==
  \E r \in d.fs, f \in d.physical :
    r.path = path /\ ~r.isDir /\ r.file = f.id /\ f.hash = content
Nothing(d, path) == \A r \in d.fs : r.path = path => r.isDir

(* e says of the path what d says.                                         *)
Keeps(d, e, path) ==
  /\ Nothing(d, path) => Nothing(e, path)
  /\ \A c \in Content : Holds(d, path, c) => Holds(e, path, c)

LEMMA HoldsListing ==
  ASSUME NEW d, WellFormed(d), NEW path, NEW c, Holds(d, path, c)
  PROVE  /\ ListingIn(d, path) = c
         /\ FileExists(d, path) /\ ~First(Rows(d, path)).isDir
         /\ \E f \in d.physical : f.id = First(Rows(d, path)).file /\ f.hash = c
<1> DEFINE rows == Rows(d, path)
<1>1. PICK r \in d.fs, f \in d.physical :
        r.path = path /\ ~r.isDir /\ r.file = f.id /\ f.hash = c
  BY DEF Holds
<1>2. r \in rows /\ \A q \in rows : q = r /\ q.id \in Nat
  BY <1>1 DEF WellFormed, UniqueIn, Rows, Database, FsRow
<1>3. First(rows) = r
  BY <1>2, FirstIsRow
<1>4. (CHOOSE g \in d.physical : g.id = r.file) = f
  BY <1>1 DEF WellFormed, Consistent, Ids
<1>5. ListingIn(d, path) = c
  BY <1>1, <1>2, <1>3, <1>4 DEF ListingIn
<1> QED  BY <1>1, <1>2, <1>3, <1>5 DEF FileExists

LEMMA NothingListing ==
  ASSUME NEW d \in Database, NEW path, Nothing(d, path)
  PROVE  ListingIn(d, path) = NoContent
<1> DEFINE rows == Rows(d, path)
<1>1. CASE rows = {}
  BY <1>1 DEF ListingIn
<1>2. CASE rows # {}
  <2>1. \A r \in rows : r.id \in Nat /\ r.isDir
    BY DEF Nothing, Rows, Database, FsRow
  <2>2. First(rows) \in rows
    BY <1>2, <2>1, FirstIsRow
  <2> QED  BY <2>1, <2>2 DEF ListingIn
<1> QED  BY <1>1, <1>2

LEMMA NothingOrHolds ==
  ASSUME NEW d, WellFormed(d), NEW path
  PROVE  Nothing(d, path) \/ \E c \in Content : Holds(d, path, c)
<1> SUFFICES ASSUME NEW r \in d.fs, r.path = path, ~r.isDir
             PROVE  \E c \in Content : Holds(d, path, c)
  BY DEF Nothing
<1>1. PICK f \in d.physical : f.id = r.file
  BY DEF WellFormed, Consistent, BackedIn
<1>2. f.hash \in Content
  BY DEF WellFormed, Database, PhysicalRow
<1> QED  BY <1>1, <1>2 DEF Holds

LEMMA KeepsListing ==
  ASSUME NEW d, WellFormed(d), NEW e, WellFormed(e), NEW path, Keeps(d, e, path)
  PROVE  ListingIn(d, path) = ListingIn(e, path)
<1>1. CASE Nothing(d, path)
  BY <1>1, NothingListing DEF Keeps, WellFormed
<1>2. ASSUME NEW c \in Content, Holds(d, path, c) PROVE ListingIn(d, path) = ListingIn(e, path)
  BY <1>2, HoldsListing DEF Keeps
<1> QED  BY <1>1, <1>2, NothingOrHolds

LEMMA KeepsItself == ASSUME NEW d, NEW path PROVE Keeps(d, d, path)
BY DEF Keeps

LEMMA KeepsOn ==
  ASSUME NEW c, NEW d, NEW e, NEW path, Keeps(c, d, path), Keeps(d, e, path)
  PROVE  Keeps(c, e, path)
BY DEF Keeps

(* What a path holds is kept when rows of directories, and physical files, *)
(* come in addition.                                                       *)
LEMMA AdditionKeeps ==
  ASSUME NEW d, NEW e, NEW path, d.fs \subseteq e.fs, d.physical \subseteq e.physical,
         \A r \in e.fs \ d.fs : r.path = path => r.isDir
  PROVE  Keeps(d, e, path)
BY DEF Keeps, Nothing, Holds

LEMMA EnsurePathKeeps ==
  ASSUME NEW d \in Database, NEW path \in Seq(Name) \ {<<>>}, NEW other
  PROVE  Keeps(d, EnsurePath(d, path), other)
BY EnsurePathType, AdditionKeeps

LEMMA InsertFileKeeps ==
  ASSUME NEW d \in Database, NEW path \in Seq(Name) \ {<<>>}, NEW file
  PROVE  LET e == InsertFile(d, path, file)
         IN  /\ \A other : other # path => Keeps(d, e, other)
             /\ \A f \in d.physical : f.id = file => Holds(e, path, f.hash)
<1> DEFINE u == EnsurePath(d, path)
           e == InsertFile(d, path, file)
           row == [id |-> u.fsSeq + 1, path |-> path, isDir |-> FALSE, file |-> file]
<1>1. /\ u \in Database /\ d.fs \subseteq u.fs /\ u.physical = d.physical
      /\ \A r \in u.fs \ d.fs : r.isDir
  BY EnsurePathType
<1>2. row.path = path /\ ~row.isDir /\ row.file = file /\ e.fs = u.fs \cup {row}
  BY InsertFileRows
<1>3. e.physical = u.physical
  BY <1>1 DEF InsertFile, Database
<1> HIDE DEF u, e, row
<1>4. ASSUME NEW other, other # path PROVE Keeps(d, e, other)
  <2>1. \A r \in e.fs \ d.fs : r.path = other => r.isDir
    BY <1>1, <1>2, <1>4
  <2> QED  BY <1>1, <1>2, <1>3, <2>1, AdditionKeeps
<1>5. ASSUME NEW f \in d.physical, f.id = file PROVE Holds(e, path, f.hash)
  BY <1>1, <1>2, <1>3, <1>5 DEF Holds
<1> QED  BY <1>4, <1>5 DEF e

(* Deleting a file leaves every other path what it holds.                  *)
LEMMA DeleteFileKeeps ==
  ASSUME NEW d, WellFormed(d), NEW row \in d.fs, ~row.isDir, NEW other, other # row.path
  PROVE  Keeps(d, DeleteFile(d, row), other)
<1> DEFINE e == DeleteFile(d, row)
<1>1. e.fs = d.fs \ {row}
  BY DeleteFileEffect DEF WellFormed
<1>2. \A f \in d.physical : f.id # row.file => f \in e.physical
  <2>1. CASE References(d, row) # {}
    BY <2>1, DeleteFileEffect DEF WellFormed
  <2>2. CASE References(d, row) = {}
    <3>1. e.physical = {f \in d.physical : f.id # row.file}
      BY <2>2, DeleteFileEffect DEF WellFormed
    <3> QED  BY <3>1
  <2> QED  BY <2>1, <2>2
<1> HIDE DEF e
<1>3. \A r \in d.fs : r # row /\ ~r.isDir => r.file # row.file
  BY DEF WellFormed, Consistent, OneListing
<1>4. Keeps(d, e, other)
  BY <1>1, <1>2, <1>3 DEF Keeps, Nothing, Holds
<1> QED  BY <1>4 DEF e

(* Everything on the way to a path that is there is a directory.           *)
LEMMA NotBlocked ==
  ASSUME NEW d, WellFormed(d), TreeIn(d), NEW r \in d.fs
  PROVE  ~Blocked(d, r.path)
<1> SUFFICES ASSUME NEW k \in Way(r.path) PROVE First(Rows(d, Prefix(r.path, k))).isDir
  BY DEF Blocked
<1> DEFINE rows == Rows(d, Prefix(r.path, k))
<1>1. PICK q \in d.fs : q.isDir /\ q.path = Prefix(r.path, k)
  BY DEF TreeIn
<1>2. q \in rows /\ \A s \in rows : s = q /\ s.id \in Nat
  BY <1>1 DEF WellFormed, UniqueIn, Rows, Database, FsRow
<1>3. First(rows) = q
  BY <1>2, FirstIsRow
<1> QED  BY <1>1, <1>3

-----------------------------------------------------------------------------
(* How far a command has come.                                             *)

Files(c) == {i \in DOMAIN c.entries : ~c.entries[i].isDir}

(* A command names each of its files once, as the walk through a directory *)
(* that collects them does.                                                *)
DistinctFiles ==
  \A c \in Command : \A i, j \in Files(c) : c.entries[i].path = c.entries[j].path => i = j

(* In the transaction, which sees t of the committed d, the files behind   *)
(* the cursor have the new contents, and paths that are no files of the    *)
(* command are as they were.  Without --force none of the files was there. *)
Halfway(d, t, c, n, cursor) ==
  /\ ~c.force => \A i \in Files(c) : Nothing(d, c.entries[i].path)
  /\ \A i \in Files(c) : i < cursor =>
       Holds(t, c.entries[i].path, [command |-> n, entry |-> i])
  /\ \A path : (\A i \in Files(c) : c.entries[i].path # path) => Keeps(d, t, path)
Unchanged(d, t) == \A path : Keeps(d, t, path)

(* Before it, a file command that must not replace has found nothing.  A   *)
(* command that commits on an error has changed no path's contents then.   *)
Performed(p) ==
  LET c == run[p].job
  IN  /\ pc[p] # "idle" => run[p].number \in 1..MaxCommands
      /\ pc[p] \in {"lookup", "begin"} => run[p].cursor = 1
      /\ pc[p] = "begin" /\ c.cmd = "file" /\ ~c.force =>
           \A i \in Files(c) : Nothing(db, c.entries[i].path)
      /\ pc[p] \in {"entry", "write", "commit"} =>
           Halfway(db, tx[p], c, run[p].number, run[p].cursor)
      /\ CommitsOnError(p) /\ (HasEntry(p) \/ pc[p] = "write") => Unchanged(db, tx[p])
      /\ pc[p] = "abandon" => Unchanged(db, tx[p])
      /\ pc[p] = "write" => run[p].cursor \in Files(c)
      /\ pc[p] = "commit" => run[p].cursor > Len(c.entries)

AllPerformed == \A p \in Proc : Performed(p)

LEMMA RecordedKeeps ==
  ASSUME TypeOK, Located, NEW p \in Proc, pc[p] = "write"
  PROVE  /\ \A path : Keeps(tx[p], Recorded(p), path)
         /\ \E f \in Recorded(p).physical : f.id = tx[p].physSeq + 1 /\ f.hash = Hash(p)
<1> DEFINE size == Current(p).size
           row == [id |-> tx[p].physSeq + 1, size |-> size, hash |-> Hash(p)]
<1>1. /\ run[p].job \in Command
      /\ run[p].cursor \in DOMAIN run[p].job.entries
      /\ run[p].ids \in Allocations(tx[p], Extent(size))
  BY DEF Located
<1>2. size \in Nat /\ Extent(size) \in Nat
  BY <1>1, CurrentType, ExtentType DEF Entry
<1>3. tx[p] \in Database /\ Hash(p) \in Content
  BY HashType DEF TypeOK
<1>4. Recorded(p) = RecordContent(tx[p], size, Hash(p), run[p].ids)
  BY DEF Recorded
<1>5. row.id = tx[p].physSeq + 1 /\ row.hash = Hash(p)
  OBVIOUS
<1>6. Recorded(p).fs = tx[p].fs /\ Recorded(p).physical = tx[p].physical \cup {row}
  <2> HIDE DEF size
  <2> QED  BY <1>1, <1>2, <1>3, <1>4, RecordContentEffect
<1> HIDE DEF row
<1> QED  BY <1>5, <1>6, AdditionKeeps

(* What a command is: add-file has a single entry, which is a file.        *)
LEMMA CommandFacts ==
  ASSUME NEW c \in Command
  PROVE  /\ c.cmd \in {"file", "directory"} /\ c.force \in BOOLEAN
         /\ c.entries \in Seq(Entry) /\ Files(c) \subseteq Nat \ {0}
         /\ c.cmd = "file" => Files(c) = {1} /\ Len(c.entries) = 1
<1>1. /\ c.cmd \in {"file", "directory"} /\ c.force \in BOOLEAN
      /\ c.entries \in Seq(Entry)
      /\ c.cmd = "file" => Len(c.entries) = 1 /\ ~c.entries[1].isDir
  BY ConstantsAssumption DEF CommandType
<1>2. DOMAIN c.entries = 1..Len(c.entries) /\ Len(c.entries) \in Nat
  BY <1>1
<1> QED  BY <1>1, <1>2 DEF Files

LEMMA PerformedInit == Init => AllPerformed
BY DEF Init, AllPerformed, Performed, HasEntry

(* What holds in every state as long as commands run one at a time.        *)
Whole == TypeOK /\ Located /\ Safe /\ Rooted /\ Unrepeated /\ AllPerformed

LEMMA WholeIsWellFormed ==
  ASSUME Whole
  PROVE  WellFormed(db) /\ \A p \in Proc : WellFormed(tx[p])
BY DEF Whole, TypeOK, Safe, ConsistentEverywhere, Unrepeated, WellFormed

(* A step that keeps what the files behind the cursor, and the paths that  *)
(* are no files of the command, hold.                                      *)
LEMMA HalfwayKeeps ==
  ASSUME NEW d, NEW t, NEW u, NEW c, NEW n \in Nat, NEW cursor,
         Files(c) \subseteq Nat,
         Halfway(d, t, c, n, cursor),
         \A i \in Files(c) : i < cursor => Keeps(t, u, c.entries[i].path),
         \A path : (\A i \in Files(c) : c.entries[i].path # path) => Keeps(t, u, path)
  PROVE  Halfway(d, u, c, n, cursor)
<1>1. \A i \in Files(c) : i < cursor =>
        Holds(u, c.entries[i].path, [command |-> n, entry |-> i])
  BY DEF Halfway, Keeps, Content
<1>2. \A path : (\A i \in Files(c) : c.entries[i].path # path) => Keeps(d, u, path)
  BY KeepsOn DEF Halfway
<1> QED  BY <1>1, <1>2 DEF Halfway

(* The command at hand, and where a process that has an entry stands in it.*)
LEMMA JobAtHand ==
  ASSUME TypeOK, Located, NEW p \in Proc, pc[p] # "idle"
  PROVE  /\ run[p].job \in Command /\ run[p].number \in Nat
         /\ run[p].cursor \in Nat \ {0}
BY DEF TypeOK, Located, RunType

LEMMA FileAtHand ==
  ASSUME TypeOK, Located, NEW p \in Proc, HasEntry(p)
  PROVE  ~Current(p).isDir <=> run[p].cursor \in Files(run[p].job)
BY EntryAtHand DEF Files, Current

LEMMA PerformedStep == OneAtATime /\ DistinctFiles /\ Whole /\ [Next]_vars => AllPerformed'
<1> SUFFICES ASSUME OneAtATime, DistinctFiles, Whole, [Next]_vars PROVE AllPerformed'
  OBVIOUS
<1> USE DEF Whole
<1>0. ASSUME NEW p \in Proc, Performed(p)' PROVE AllPerformed'
  BY <1>0 DEF OneAtATime, AllPerformed
<1>1. CASE UNCHANGED vars
  <2>1. \A p \in Proc : Performed(p)'
    BY <1>1 DEF vars, AllPerformed, Performed, HasEntry, CommitsOnError
  <2> QED  BY <2>1 DEF AllPerformed
<1>2. ASSUME NEW p \in Proc, Exit(p) PROVE AllPerformed'
  <2>1. pc'[p] = "idle"
    BY <1>2 DEF Exit, TypeOK
  <2> QED  BY <1>0, <2>1 DEF Performed, HasEntry
<1>3. ASSUME NEW p \in Proc, GiveUp(p), HasEntry(p) \/ pc[p] = "write" PROVE AllPerformed'
  <2>1. CASE RollBack(p)
    BY <1>2, <2>1 DEF RollBack
  <2>2. CASE CommitsOnError(p) /\ pc' = [pc EXCEPT ![p] = "abandon"]
             /\ UNCHANGED <<db, started, lock, tx, run, spoiled>>
    <3>1. pc'[p] = "abandon" /\ pc[p] # "idle"
      BY <1>3, <2>2 DEF TypeOK, HasEntry
    <3>2. Unchanged(db, tx[p]) /\ run[p].number \in 1..MaxCommands
      BY <1>3, <2>2, <3>1 DEF AllPerformed, Performed
    <3>3. Performed(p)'
      BY <2>2, <3>1, <3>2 DEF Performed, HasEntry
    <3> QED  BY <1>0, <3>3
  <2> QED  BY <1>3, <2>1, <2>2 DEF GiveUp
<1>4. ASSUME NEW p \in Proc, Start(p) PROVE AllPerformed'
  <2>1. PICK c \in Command :
          run' = [run EXCEPT ![p] = [Idle EXCEPT !.job = c, !.number = started + 1]]
          /\ pc' = [pc EXCEPT ![p] = IF c.cmd = "file" THEN "lookup" ELSE "begin"]
    BY <1>4 DEF Start
  <2>2. /\ pc'[p] = (IF c.cmd = "file" THEN "lookup" ELSE "begin")
        /\ run'[p].job = c /\ run'[p].number = started + 1 /\ run'[p].cursor = 1
    BY <2>1 DEF TypeOK, Idle
  <2>3. started + 1 \in 1..MaxCommands
    BY <1>4, ConstantsAssumption DEF Start, TypeOK
  <2>4. Performed(p)'
    BY <2>2, <2>3 DEF Performed, HasEntry
  <2> QED  BY <1>0, <2>4
<1>5. ASSUME NEW p \in Proc, LookUp(p) PROVE AllPerformed'
  <2>1. pc[p] = "lookup" /\ ~Refused(p) /\ db' = db /\ tx' = tx /\ pc'[p] = "begin"
    BY <1>5 DEF LookUp, TypeOK
  <2>2. /\ run'[p].job = run[p].job /\ run'[p].cursor = run[p].cursor
        /\ run'[p].number = run[p].number
    BY <1>5 DEF LookUp, TypeOK, RunType
  <2>3. run[p].job \in Command /\ run[p].cursor = 1 /\ run[p].number \in 1..MaxCommands
    BY <2>1, JobAtHand DEF AllPerformed, Performed
  <2>4. ~run[p].job.force => Nothing(db, run[p].job.entries[1].path)
    BY <2>1, <2>3 DEF Refused, Current, FileExists, Rows, Nothing
  <2>5. run[p].job.cmd = "file" => Files(run[p].job) = {1}
    BY <2>3, CommandFacts
  <2>6. Performed(p)'
    BY <2>1, <2>2, <2>3, <2>4, <2>5 DEF Performed, HasEntry
  <2> QED  BY <1>0, <2>6
<1>6. ASSUME NEW p \in Proc, Begin(p) PROVE AllPerformed'
  <2> DEFINE c == run[p].job
  <2>1. /\ pc[p] = "begin" /\ ~DirectoryRefused(p) /\ db' = db /\ run' = run
        /\ tx'[p] = db /\ pc'[p] = "entry"
    BY <1>6 DEF Begin, TypeOK
  <2>2. c \in Command /\ run[p].cursor = 1 /\ run[p].number \in 1..MaxCommands
    BY <2>1, JobAtHand DEF AllPerformed, Performed
  <2>3. ~c.force => \A i \in Files(c) : Nothing(db, c.entries[i].path)
    <3>1. CASE c.cmd = "file"
      BY <2>1, <3>1 DEF AllPerformed, Performed
    <3>2. CASE c.cmd = "directory"
      BY <2>1, <3>2 DEF DirectoryRefused, Files, FileExists, Rows, Nothing
    <3> QED  BY <2>2, <3>1, <3>2, CommandFacts
  <2>4. \A i \in Files(c) : ~(i < 1)
    BY <2>2, CommandFacts
  <2> HIDE DEF c
  <2>5. Halfway(db, db, c, run[p].number, 1) /\ Unchanged(db, db)
    BY <2>3, <2>4, KeepsItself DEF Halfway, Unchanged
  <2>6. Performed(p)'
    BY <2>1, <2>2, <2>5 DEF Performed, c
  <2> QED  BY <1>0, <2>6
<1>7. ASSUME NEW p \in Proc, MakeDirectory(p) PROVE AllPerformed'
  <2> DEFINE c == run[p].job
             path == Current(p).path
             n == run[p].number
             k == run[p].cursor
  <2>1. /\ HasEntry(p) /\ Current(p).isDir /\ db' = db /\ pc' = pc
        /\ tx'[p] = EnsurePath(tx[p], path)
    BY <1>7 DEF MakeDirectory, TypeOK
  <2>2. /\ run'[p].job = c /\ run'[p].cursor = k + 1 /\ run'[p].number = n
    BY <1>7 DEF MakeDirectory, TypeOK, RunType
  <2>3. /\ pc[p] = "entry" /\ c \in Command /\ n \in 1..MaxCommands /\ n \in Nat
        /\ k \in Nat \ {0} /\ path \in Seq(Name) \ {<<>>}
    BY <2>1, EntryAtHand, JobAtHand DEF HasEntry, AllPerformed, Performed
  <2>4. k \notin Files(c)
    BY <2>1, FileAtHand
  <2>5. Halfway(db, tx[p], c, n, k)
    BY <2>3 DEF AllPerformed, Performed
  <2>6. \A other : Keeps(tx[p], tx'[p], other)
    BY <2>1, <2>3, EnsurePathKeeps DEF TypeOK
  <2>7. Files(c) \subseteq Nat
    BY <2>3, CommandFacts
  <2>8. c.cmd # "file"
    BY <2>1, <2>3, <2>4, EntryAtHand, CommandFacts DEF HasEntry
  <2> HIDE DEF c, n, k, path
  <2>9. Halfway(db, tx'[p], c, n, k)
    BY <2>3, <2>5, <2>6, <2>7, HalfwayKeeps
  <2>10. \A i \in Files(c) : i < k + 1 => i < k
    BY <2>3, <2>4, <2>7
  <2>11. Halfway(db, tx'[p], c, n, k + 1)
    BY <2>9, <2>10 DEF Halfway
  <2>12. Performed(p)'
    BY <2>1, <2>2, <2>3, <2>8, <2>11 DEF Performed, CommitsOnError
  <2> QED  BY <1>0, <2>12
<1>8. ASSUME NEW p \in Proc, Allocate(p) PROVE AllPerformed'
  <2> DEFINE c == run[p].job
             path == Current(p).path
             n == run[p].number
             k == run[p].cursor
  <2>1. /\ HasEntry(p) /\ ~Current(p).isDir /\ ~CannotStore(p) /\ db' = db
        /\ pc'[p] = "write" /\ tx'[p] = Cleared(p)
    BY <1>8 DEF Allocate, TypeOK
  <2>2. PICK ids : run'[p] = [run[p] EXCEPT !.ids = ids]
    BY <1>8 DEF Allocate, TypeOK
  <2>3. /\ run'[p].job = c /\ run'[p].cursor = k /\ run'[p].number = n
        /\ run'[p].replacing = run[p].replacing
    BY <2>2 DEF TypeOK, RunType
  <2>4. pc[p] = "entry" /\ c \in Command /\ n \in 1..MaxCommands /\ n \in Nat /\ k \in Nat
    BY <2>1, EntryAtHand, JobAtHand DEF HasEntry, AllPerformed, Performed
  <2>5. k \in Files(c) /\ path = c.entries[k].path
    BY <2>1, FileAtHand DEF Current
  <2>6. Halfway(db, tx[p], c, n, k)
    BY <2>4 DEF AllPerformed, Performed
  <2>7. \A other : other # path => Keeps(tx[p], Cleared(p), other)
    <3>1. CASE Deletes(p)
      <4> DEFINE row == First(Rows(tx[p], path))
      <4>1. row \in Rows(tx[p], path) /\ ~row.isDir /\ Cleared(p) = DeleteFile(tx[p], row)
        BY <2>1, <3>1, ClearedFile
      <4>2. row \in tx[p].fs /\ row.path = path
        BY <4>1 DEF Rows
      <4> HIDE DEF row
      <4> QED  BY <4>1, <4>2, WholeIsWellFormed, DeleteFileKeeps
    <3>2. CASE ~Deletes(p)
      BY <3>2, KeepsItself DEF Cleared
    <3> QED  BY <3>1, <3>2
  <2>8. Files(c) \subseteq Nat
    BY <2>4, CommandFacts
  <2>9. \A i \in Files(c) : i < k => c.entries[i].path # path
    BY <2>4, <2>5, <2>8 DEF DistinctFiles
  <2>10. CommitsOnError(p) => Cleared(p) = tx[p] /\ Unchanged(db, tx[p])
    BY <2>1 DEF Cleared, Deletes, LooksUp, AllPerformed, Performed
  <2>11. CommitsOnError(p)' <=> CommitsOnError(p)
    BY <2>3 DEF CommitsOnError
  <2> HIDE DEF c, n, k, path
  <2>12. Halfway(db, Cleared(p), c, n, k)
    BY <2>4, <2>5, <2>6, <2>7, <2>8, <2>9, HalfwayKeeps
  <2>13. Performed(p)'
    BY <2>1, <2>3, <2>4, <2>5, <2>10, <2>11, <2>12 DEF Performed, HasEntry
  <2> QED  BY <1>0, <2>13
<1>9. ASSUME NEW p \in Proc, WriteSuperblock(p) PROVE AllPerformed'
  <2>1. pc[p] = "write" /\ UNCHANGED <<db, tx, pc>>
    BY <1>9 DEF WriteSuperblock, Unwritten
  <2>2. /\ run'[p].job = run[p].job /\ run'[p].cursor = run[p].cursor
        /\ run'[p].number = run[p].number /\ run'[p].replacing = run[p].replacing
    BY <1>9 DEF WriteSuperblock, TypeOK, RunType
  <2>3. Performed(p)'
    BY <2>1, <2>2 DEF AllPerformed, Performed, HasEntry, CommitsOnError
  <2> QED  BY <1>0, <2>3
<1>10. ASSUME NEW p \in Proc, RecordFile(p) PROVE AllPerformed'
  <2> DEFINE c == run[p].job
             path == Current(p).path
             n == run[p].number
             k == run[p].cursor
             file == tx[p].physSeq + 1
  <2>1. /\ pc[p] = "write" /\ db' = db /\ pc'[p] = "entry"
        /\ tx'[p] = InsertFile(Recorded(p), path, file)
        /\ run'[p] = [run[p] EXCEPT !.cursor = @ + 1, !.ids = <<>>, !.written = 0]
    BY <1>10 DEF RecordFile, Written, TypeOK
  <2>2. /\ run'[p].job = c /\ run'[p].cursor = k + 1 /\ run'[p].number = n
    BY <2>1 DEF TypeOK, RunType
  <2>3. /\ c \in Command /\ n \in 1..MaxCommands /\ n \in Nat /\ k \in Nat \ {0}
        /\ k \in Files(c) /\ path = c.entries[k].path /\ Halfway(db, tx[p], c, n, k)
    BY <2>1, JobAtHand DEF AllPerformed, Performed, Current
  <2>4. Recorded(p) \in Database /\ path \in Seq(Name) \ {<<>>}
    BY <2>1, RecordedRows
  <2>5. \A other : other # path => Keeps(tx[p], tx'[p], other)
    <3>1. \A other : Keeps(tx[p], Recorded(p), other)
      BY <2>1, RecordedKeeps
    <3>2. \A other : other # path => Keeps(Recorded(p), tx'[p], other)
      BY <2>1, <2>4, InsertFileKeeps
    <3> QED  BY <3>1, <3>2, KeepsOn
  <2>6. Holds(tx'[p], path, [command |-> n, entry |-> k])
    <3>1. PICK f \in Recorded(p).physical : f.id = file /\ f.hash = Hash(p)
      BY <2>1, RecordedKeeps
    <3>2. Holds(tx'[p], path, f.hash)
      BY <2>1, <2>4, <3>1, InsertFileKeeps
    <3> QED  BY <3>1, <3>2 DEF Hash
  <2>7. Files(c) \subseteq Nat /\ (c.cmd = "file" => Len(c.entries) = 1)
    BY <2>3, CommandFacts
  <2>8. \A i \in Files(c) : i < k => c.entries[i].path # path
    BY <2>3, <2>7 DEF DistinctFiles
  <2>9. ASSUME HasEntry(p)', c.cmd = "file" PROVE FALSE
    <3>1. k + 1 <= Len(c.entries)
      BY <2>2, <2>9 DEF HasEntry
    <3>2. ~(k + 1 <= 1)
      BY <2>3
    <3> QED  BY <2>7, <2>9, <3>1, <3>2
  <2>10. ~(HasEntry(p)' /\ CommitsOnError(p)')
    BY <2>2, <2>9 DEF CommitsOnError
  <2> HIDE DEF c, n, k, path, file
  <2>11. Halfway(db, tx'[p], c, n, k)
    BY <2>3, <2>5, <2>7, <2>8, HalfwayKeeps
  <2>12. \A i \in Files(c) : i < k + 1 => i < k \/ i = k
    BY <2>3, <2>7
  <2>13. Halfway(db, tx'[p], c, n, k + 1)
    BY <2>3, <2>6, <2>11, <2>12 DEF Halfway
  <2>14. Performed(p)'
    BY <2>1, <2>2, <2>3, <2>10, <2>13 DEF Performed
  <2> QED  BY <1>0, <2>14
<1>11. ASSUME NEW p \in Proc, RecordFileFails(p) PROVE AllPerformed'
  <2>1. pc[p] = "write" /\ run[p].number \in 1..MaxCommands
    BY <1>11 DEF RecordFileFails, Written, AllPerformed, Performed
  <2>2. CASE GiveUp(p)
    BY <1>3, <2>1, <2>2
  <2>3. CASE /\ CommitsOnError(p) /\ tx'[p] = Recorded(p) /\ pc'[p] = "abandon"
             /\ UNCHANGED <<db, run>>
    <3>1. Unchanged(db, tx[p])
      BY <2>1, <2>3 DEF AllPerformed, Performed
    <3>2. \A path : Keeps(tx[p], Recorded(p), path)
      BY <2>1, RecordedKeeps
    <3>3. Unchanged(db, Recorded(p))
      BY <3>1, <3>2, KeepsOn DEF Unchanged
    <3>4. Performed(p)'
      BY <2>1, <2>3, <3>3 DEF Performed, HasEntry
    <3> QED  BY <1>0, <3>4
  <2> QED  BY <1>11, <2>2, <2>3 DEF RecordFileFails, TypeOK
<1>12. ASSUME NEW p \in Proc, Finish(p) PROVE AllPerformed'
  <2>1. /\ pc[p] = "entry" /\ run[p].cursor > Len(run[p].job.entries)
        /\ pc'[p] = "commit" /\ UNCHANGED <<db, tx, run>>
    BY <1>12 DEF Finish, TypeOK
  <2>2. Performed(p)'
    BY <2>1 DEF AllPerformed, Performed, HasEntry
  <2> QED  BY <1>0, <2>2
<1>13. ASSUME NEW p \in Proc, AwaitReaders(p) PROVE AllPerformed'
  <2>1. UNCHANGED <<db, tx, run, pc>>
    BY <1>13 DEF AwaitReaders
  <2>2. Performed(p)'
    BY <2>1 DEF AllPerformed, Performed, HasEntry, CommitsOnError
  <2> QED  BY <1>0, <2>2
<1>14. ASSUME NEW p \in Proc,
              \/ LookUpRefuses(p) \/ BeginRefuses(p) \/ Commit(p)
              \/ MakeDirectoryFails(p) \/ AllocateFails(p)
              \/ Timeout(p) \/ Fault(p) \/ Crash(p)
       PROVE  AllPerformed'
  <2>1. (GiveUp(p) /\ (HasEntry(p) \/ pc[p] = "write")) \/ Exit(p)
    BY <1>14 DEF LookUpRefuses, BeginRefuses, Commit, MakeDirectoryFails, AllocateFails,
                 Timeout, Fault, Crash, RollBack, Unwritten
  <2> QED  BY <1>2, <1>3, <2>1
<1> QED
  BY <1>1, <1>4, <1>5, <1>6, <1>7, <1>8, <1>9, <1>10, <1>11, <1>12, <1>13, <1>14
  DEF Next, Step

LEMMA AlwaysWhole ==
  ASSUME OneAtATime, DistinctFiles PROVE Spec => []Whole
<1>1. Init => Whole
  BY TypeInit, SafeInit, RootedInit, UnrepeatedInit, PerformedInit DEF Whole
<1>2. Whole /\ [Next]_vars => Whole'
  BY TypeStep, SafeStep, RootedStep, UnrepeatedStep, PerformedStep DEF Whole
<1> QED  BY <1>1, <1>2, PTL DEF Spec


-----------------------------------------------------------------------------
(* What follows.                                                           *)

LEMMA FilesListed == ASSUME Whole PROVE FilesListedAtCommit
<1> SUFFICES ASSUME NEW p \in Proc, pc[p] = "commit", NEW i \in Files(run[p].job)
             PROVE  Lists(tx[p], run[p].job.entries[i].path,
                          [command |-> run[p].number, entry |-> i])
  BY DEF FilesListedAtCommit, Files
<1> DEFINE c == run[p].job
           path == c.entries[i].path
           content == [command |-> run[p].number, entry |-> i]
<1>1. c \in Command /\ run[p].cursor \in Nat
  BY JobAtHand DEF Whole
<1>2. Halfway(db, tx[p], c, run[p].number, run[p].cursor) /\ run[p].cursor > Len(c.entries)
  BY DEF Whole, AllPerformed, Performed
<1>3. i < run[p].cursor
  <2>1. c.entries \in Seq(Entry)
    BY <1>1, CommandFacts
  <2>2. i \in 1..Len(c.entries) /\ Len(c.entries) \in Nat
    BY <2>1 DEF Files
  <2> QED  BY <1>1, <1>2, <2>2
<1>4. Holds(tx[p], path, content)
  BY <1>2, <1>3 DEF Halfway
<1>5. WellFormed(tx[p]) /\ TreeIn(tx[p])
  BY WholeIsWellFormed DEF Whole, Rooted
<1>6. \E r \in tx[p].fs : r.path = path
  BY <1>4 DEF Holds
<1> HIDE DEF path, content
<1>7. ~Blocked(tx[p], path)
  BY <1>5, <1>6, NotBlocked
<1> QED  BY <1>4, <1>5, <1>7, HoldsListing DEF Lists, LookupFails, path, content

(* As long as commands run one at a time and name each file once, what a   *)
(* command is about to commit lists all of its files with the contents it  *)
(* stored, under paths that a lookup finds.                                *)
THEOREM FilesListedAlone ==
  ASSUME OneAtATime, DistinctFiles PROVE Spec => []FilesListedAtCommit
BY FilesListed, AlwaysWhole, PTL

-----------------------------------------------------------------------------
(* The refinement.                                                         *)

LEMMA ListingOfCommitted == \A path : Listing(path) = ListingIn(db, path)
BY DEF Listing, ListingIn, NoContent

LEMMA SamePaths == Store!Path = FilePath
<1>1. \A c \in Command :
        {c.entries[i].path : i \in DOMAIN c.entries}
          = {e.path : e \in {c.entries[i] : i \in DOMAIN c.entries}}
  OBVIOUS
<1> QED  BY <1>1 DEF Store!Path, FilePath

LEMMA StoreInit == Init => Store!Init
<1> SUFFICES ASSUME Init PROVE Store!Init
  OBVIOUS
<1>1. \A path : Nothing(db, path)
  BY DEF Init, NewPool, RootRow, Nothing
<1>2. \A path : Listing(path) = Store!NoContent
  BY <1>1, NewPoolType, NothingListing, ListingOfCommitted DEF Init, NoContent, Store!NoContent
<1> QED  BY <1>2, SamePaths DEF Store!Init

(* The commit of a command that came to its end is its effect on the store.*)
LEMMA CommitPerforms ==
  ASSUME DistinctFiles, Whole, Whole', NEW p \in Proc, pc[p] = "commit", db' = tx[p]
  PROVE  Store!Perform(run[p].job, run[p].number)
<1> DEFINE c == run[p].job
           n == run[p].number
           files == {c.entries[i].path : i \in Files(c)}
           At(path) == CHOOSE i \in Files(c) : c.entries[i].path = path
<1>1. c \in Command /\ run[p].cursor \in Nat /\ n \in Nat
  BY JobAtHand DEF Whole
<1>2. Halfway(db, tx[p], c, n, run[p].cursor) /\ run[p].cursor > Len(c.entries)
  BY DEF Whole, AllPerformed, Performed
<1>3. WellFormed(db) /\ WellFormed(tx[p])
  BY WholeIsWellFormed
<1>4. \A i \in Files(c) : i < run[p].cursor
  <2>1. c.entries \in Seq(Entry)
    BY <1>1, CommandFacts
  <2>2. \A i \in Files(c) : i \in 1..Len(c.entries) /\ Len(c.entries) \in Nat
    BY <2>1 DEF Files
  <2> QED  BY <1>1, <1>2, <2>2
<1>5. \A i \in Files(c) : At(c.entries[i].path) = i
  BY <1>1 DEF DistinctFiles
<1>6. files \subseteq FilePath
  <2>1. \A i \in Files(c) :
          c.entries[i].path \in {e.path : e \in {c.entries[j] : j \in DOMAIN c.entries}}
    BY DEF Files
  <2> QED  BY <1>1, <2>1 DEF FilePath
<1>7. ASSUME NEW path \in files, ~c.force PROVE Listing(path) = NoContent
  <2>1. Nothing(db, path)
    BY <1>2, <1>7 DEF Halfway
  <2> QED  BY <1>3, <2>1, NothingListing, ListingOfCommitted DEF WellFormed
<1>8. ASSUME NEW path PROVE Listing(path)' = ListingIn(tx[p], path)
  <2>1. Listing(path)' = ListingIn(db', path)
    BY DEF Listing, ListingIn, NoContent
  <2> QED  BY <2>1
<1>9. ASSUME NEW path \in files PROVE Listing(path)' = [command |-> n, entry |-> At(path)]
  <2>1. PICK i \in Files(c) : path = c.entries[i].path
    OBVIOUS
  <2>2. Holds(tx[p], path, [command |-> n, entry |-> i])
    BY <1>2, <1>4, <2>1 DEF Halfway
  <2>3. ListingIn(tx[p], path) = [command |-> n, entry |-> i]
    BY <1>3, <2>2, HoldsListing
  <2>4. At(path) = i
    <3> HIDE DEF At
    <3> QED  BY <1>5, <2>1
  <2> QED  BY <1>8, <2>3, <2>4
<1>10. ASSUME NEW path, path \notin files PROVE Listing(path)' = Listing(path)
  <2>1. Keeps(db, tx[p], path)
    BY <1>2, <1>10 DEF Halfway
  <2> QED  BY <1>3, <1>8, <2>1, KeepsListing, ListingOfCommitted
<1>11. Store!FileEntries(c) = Files(c)
  BY DEF Store!FileEntries, Files
<1> QED  BY <1>6, <1>7, <1>9, <1>10, <1>11, SamePaths DEF Store!Perform, Store!NoContent, NoContent

StoreView == [path \in FilePath |-> Listing(path)]

LEMMA StoreStep ==
  DistinctFiles /\ Whole /\ Whole' /\ [Next]_vars => Store!Next \/ StoreView' = StoreView
<1> SUFFICES ASSUME DistinctFiles, Whole, Whole', [Next]_vars
             PROVE  Store!Next \/ StoreView' = StoreView
  OBVIOUS
<1>1. CASE db' = db
  <2>1. \A path : Listing(path)' = Listing(path)
    BY <1>1 DEF Listing
  <2> QED  BY <2>1 DEF StoreView
<1>2. CASE db' # db
  <2>1. PICK p \in Proc : Commit(p) /\ db' = tx[p]
    BY <1>2 DEF Next, Step, Start, LookUp, LookUpRefuses, Begin, BeginRefuses, MakeDirectory,
       MakeDirectoryFails, Allocate, AllocateFails, WriteSuperblock, RecordFile,
       RecordFileFails, Finish, Commit, AwaitReaders, Timeout, Fault, Crash, GiveUp,
       RollBack, vars
  <2>2. CASE pc[p] = "commit"
    <3>1. Store!Perform(run[p].job, run[p].number)
      BY <2>1, <2>2, CommitPerforms
    <3>2. run[p].job \in Command /\ run[p].number \in 1..MaxCommands
      BY <2>2, JobAtHand DEF Whole, AllPerformed, Performed
    <3> QED  BY <3>1, <3>2 DEF Store!Next, StoreView
  <2>3. CASE pc[p] = "abandon"
    <3>1. \A path : Keeps(db, tx[p], path)
      BY <2>3 DEF Whole, AllPerformed, Performed, Unchanged
    <3>2. \A path : ListingIn(db, path) = ListingIn(tx[p], path)
      BY <3>1, WholeIsWellFormed, KeepsListing
    <3>3. \A path : Listing(path)' = ListingIn(tx[p], path)
      <4>1. \A path : Listing(path)' = ListingIn(db', path)
        BY DEF Listing, ListingIn, NoContent
      <4> QED  BY <2>1, <4>1
    <3> QED  BY <3>2, <3>3, ListingOfCommitted DEF StoreView
  <2> QED  BY <2>1, <2>2, <2>3 DEF Commit, AtCommit
<1> QED  BY <1>1, <1>2

(* As long as commands run one at a time and name each file once, each has *)
(* all of its effect or none, whatever fails or is killed: the committed   *)
(* database, read as a map from paths to contents, is a FileStore.         *)
THEOREM CatalogueIsStore ==
  ASSUME OneAtATime, DistinctFiles PROVE Spec => StoreSpec
<1>1. Init => Store!Init
  BY StoreInit
<1>2. Whole /\ Whole' /\ [Next]_vars
      => [Store!Next]_[path \in FilePath |-> Listing(path)]
  BY StoreStep DEF StoreView
<1> QED  BY <1>1, <1>2, AlwaysWhole, PTL DEF Spec, StoreSpec, Store!Spec

-----------------------------------------------------------------------------
(* The data on the disks.                                                  *)

StoredIn(d, f) ==
  \A s \in Superblock : d.owner[s] = f.id =>
    disk[s] = [command |-> f.hash.command, entry |-> f.hash.entry, chunk |-> d.order[s] + 1]

(* What a transaction sees is intact, and what it has written is there.    *)
Intact(p) ==
  /\ pc[p] \in {"lookup", "begin", "entry"} => run[p].written = 0
  /\ pc[p] \in Working => \A f \in tx[p].physical : StoredIn(tx[p], f) \/ f.id \in spoiled
  /\ pc[p] = "write" =>
       /\ run[p].written <= Len(run[p].ids)
       /\ \A i \in 1..run[p].written :
            disk[run[p].ids[i]] =
              [command |-> run[p].number, entry |-> run[p].cursor, chunk |-> i]
AllIntact == IntactUnlessReplaced /\ \A p \in Proc : Intact(p)

(* The superblock a command writes is free as it sees it, has not been     *)
(* written by it, and belongs to no committed file that stays.             *)
LEMMA TargetIsSpare ==
  ASSUME TypeOK, Located, Safe, NEW p \in Proc, Unwritten(p)
  PROVE  /\ Target(p) \in Superblock /\ tx[p].owner[Target(p)] = NULL
         /\ run[p].written \in Nat
         /\ \A i \in 1..run[p].written : run[p].ids[i] # Target(p)
         /\ \A f \in db.physical : db.owner[Target(p)] = f.id => f.id \in Removed(p)
<1>1. lock[p] # "none" /\ run[p].ids \in Allocations(tx[p], Extent(Current(p).size))
  BY DEF Unwritten, Located, Working
<1>2. run[p].written \in Nat /\ run[p].written + 1 \in DOMAIN run[p].ids
  BY DEF Unwritten, TypeOK, RunType
<1>3. Target(p) \in Superblock /\ tx[p].owner[Target(p)] = NULL
  BY <1>1, <1>2 DEF Target, Allocations, Free
<1>4. ASSUME NEW i \in 1..run[p].written PROVE run[p].ids[i] # Target(p)
  <2> DEFINE n == Extent(Current(p).size)
             k == run[p].written + 1
  <2>1. DOMAIN run[p].ids = 1..n /\ n \in Nat
    <3>1. run[p].job \in Command /\ run[p].cursor \in DOMAIN run[p].job.entries
      BY DEF Unwritten, Located
    <3>2. n \in Nat
      BY <3>1, CurrentType, ExtentType DEF Entry
    <3> QED  BY <1>1, <3>2 DEF Allocations
  <2>2. i \in 1..n /\ k \in 1..n /\ i # k
    <3> HIDE DEF n
    <3> QED  BY <1>2, <2>1
  <2> QED  BY <1>1, <2>2 DEF Allocations, Target
<1>5. ASSUME NEW f \in db.physical, db.owner[Target(p)] = f.id PROVE f.id \in Removed(p)
  <2>1. f.id # NULL
    BY DEF Safe, ConsistentEverywhere, Consistent, Ids, NULL
  <2>2. lock[p] # "shared"
    BY <1>3, <1>5, <2>1 DEF Safe, Serialized
  <2>3. lock[p] \in Writing
    BY <1>1, <2>2 DEF TypeOK
  <2>4. f \notin tx[p].physical
    BY <1>1, <1>3, <1>5, <2>1 DEF Safe, RetiresInTransactions, Retires
  <2> QED  BY <2>3, <2>4 DEF Removed
<1> QED  BY <1>2, <1>3, <1>4, <1>5

(* A step that leaves the disks, the committed database and what was       *)
(* removed from it alone.                                                  *)
LEMMA IntactStays ==
  ASSUME AllIntact, NEW p \in Proc, db' = db, disk' = disk, spoiled' = spoiled,
         Removed(p) \subseteq Removed(p)',
         \A q \in Proc : q = p
  PROVE  IntactUnlessReplaced'
<1>1. \A f \in db.physical : Stored(f)' <=> Stored(f)
  BY DEF Stored
<1>2. \A f \in db.physical : BeingReplaced(f) => BeingReplaced(f)'
  BY DEF BeingReplaced
<1> QED  BY <1>1, <1>2 DEF AllIntact, IntactUnlessReplaced

(* Recording the physical file of what was written.                        *)
LEMMA RecordedIntact ==
  ASSUME TypeOK, Located, Safe, AllIntact, NEW p \in Proc, Written(p)
  PROVE  /\ \A f \in Recorded(p).physical : StoredIn(Recorded(p), f) \/ f.id \in spoiled
         /\ \A f \in db.physical \ tx[p].physical : f \notin Recorded(p).physical
<1> DEFINE d == tx[p]
           e == Recorded(p)
           size == Current(p).size
           n == Extent(size)
           ids == run[p].ids
           new == d.physSeq + 1
           row == [id |-> new, size |-> size, hash |-> Hash(p)]
           taken == {ids[i] : i \in 1..n}
<1>1. /\ run[p].job \in Command
      /\ run[p].cursor \in DOMAIN run[p].job.entries
      /\ ids \in Allocations(d, n)
      /\ pc[p] = "write" /\ run[p].written = Len(ids)
  BY DEF Located, Written
<1>2. size \in Nat /\ n \in Nat
  BY <1>1, CurrentType, ExtentType DEF Entry
<1>3. d \in Database /\ Hash(p) \in Content /\ db \in Database
  BY HashType DEF TypeOK
<1>4. e = RecordContent(d, size, Hash(p), ids)
  BY DEF Recorded
<1>5. /\ e.physical = d.physical \cup {row}
      /\ \A s \in Superblock : e.owner[s] = IF s \in taken THEN new ELSE d.owner[s]
      /\ \A i \in 1..n : e.order[ids[i]] = i - 1
      /\ \A s \in Superblock \ taken : e.order[s] = d.order[s]
  <2> HIDE DEF n, d, size, ids, e
  <2>1. LET u == RecordContent(d, size, Hash(p), ids)
        IN  /\ u.physical = d.physical \cup {row}
            /\ \A s \in Superblock : u.owner[s] = IF s \in taken THEN new ELSE d.owner[s]
            /\ \A i \in 1..n : u.order[ids[i]] = i - 1
            /\ \A s \in Superblock \ taken : u.order[s] = d.order[s]
    BY <1>1, <1>2, <1>3, RecordContentEffect
  <2> QED  BY <1>4, <2>1
<1>6. /\ \A f \in d.physical : f.id \in 1..d.physSeq
      /\ \A f \in db.physical : f.id \in 1..db.physSeq
      /\ db.physSeq <= d.physSeq /\ d.physSeq \in Nat /\ db.physSeq \in Nat
      /\ \A s \in Superblock : d.owner[s] = NULL \/ d.owner[s] \in 1..d.physSeq
  <2>1. lock[p] # "none"
    BY <1>1 DEF Located, Working
  <2>2. \A f \in d.physical : f.id \in 1..d.physSeq
    BY DEF Safe, ConsistentEverywhere, Consistent, Ids
  <2>3. \A f \in db.physical : f.id \in 1..db.physSeq
    BY DEF Safe, ConsistentEverywhere, Consistent, Ids
  <2>4. \A s \in Superblock : d.owner[s] = NULL \/ \E f \in d.physical : f.id = d.owner[s]
    BY DEF Safe, ConsistentEverywhere, Consistent, BackedIn
  <2>5. db.physSeq <= d.physSeq
    BY <2>1 DEF Safe, RetiresInTransactions, Retires
  <2>6. d.physSeq \in Nat /\ db.physSeq \in Nat
    BY <1>3 DEF Database
  <2> HIDE DEF d
  <2> QED  BY <2>2, <2>3, <2>4, <2>5, <2>6
<1>7. row.id = new /\ row.hash.command = run[p].number /\ row.hash.entry = run[p].cursor
  BY DEF Hash
<1>8. \A s \in taken : d.owner[s] = NULL
  BY <1>1 DEF Allocations, Free
<1>9. Len(ids) = n
  BY <1>1, <1>2, AllocationsAreSequences
<1>10. \A i \in 1..n :
         disk[ids[i]] = [command |-> run[p].number, entry |-> run[p].cursor, chunk |-> i]
  BY <1>1, <1>9 DEF AllIntact, Intact
<1>11. \A f \in d.physical : StoredIn(d, f) \/ f.id \in spoiled
  BY <1>1 DEF AllIntact, Intact, Working
<1> HIDE DEF d, e, size, n, ids, row
<1>12. StoredIn(e, row)
  <2> SUFFICES ASSUME NEW s \in Superblock, e.owner[s] = new
               PROVE  disk[s] = [command |-> run[p].number, entry |-> run[p].cursor,
                                 chunk |-> e.order[s] + 1]
    BY <1>7 DEF StoredIn
  <2>1. s \in taken
    BY <1>5, <1>6 DEF NULL
  <2>2. PICK i \in 1..n : s = ids[i]
    BY <2>1
  <2>3. e.order[s] + 1 = i
    BY <1>2, <1>5, <2>2
  <2> QED  BY <1>10, <2>2, <2>3
<1>13. ASSUME NEW f \in d.physical, StoredIn(d, f) PROVE StoredIn(e, f)
  <2> SUFFICES ASSUME NEW s \in Superblock, e.owner[s] = f.id
               PROVE  disk[s] = [command |-> f.hash.command, entry |-> f.hash.entry,
                                 chunk |-> e.order[s] + 1]
    BY DEF StoredIn
  <2>1. f.id # new
    BY <1>6
  <2>2. s \notin taken /\ d.owner[s] = f.id
    BY <1>5, <2>1
  <2> QED  BY <1>5, <1>13, <2>2 DEF StoredIn
<1>14. \A f \in e.physical : StoredIn(e, f) \/ f.id \in spoiled
  BY <1>5, <1>11, <1>12, <1>13
<1>15. \A f \in db.physical \ d.physical : f \notin e.physical
  BY <1>5, <1>6, <1>7
<1> QED  BY <1>14, <1>15 DEF d, e

(* Deleting a file's row: the physical files that stay keep their          *)
(* superblocks.                                                            *)
LEMMA DeletedIntact ==
  ASSUME NEW d \in Database, Consistent(d), NEW row
  PROVE  LET e == DeleteFile(d, row)
         IN  /\ e.physical \subseteq d.physical
             /\ \A f \in e.physical : StoredIn(d, f) => StoredIn(e, f)
<1> DEFINE e == DeleteFile(d, row)
<1>1. CASE References(d, row) # {}
  <2>1. e.physical = d.physical /\ e.owner = d.owner /\ e.order = d.order
    BY <1>1, DeleteFileEffect
  <2> HIDE DEF e
  <2> QED  BY <2>1 DEF StoredIn, e
<1>2. CASE References(d, row) = {}
  <2>1. /\ e.physical = {f \in d.physical : f.id # row.file}
        /\ e.owner = [s \in Superblock |-> IF d.owner[s] = row.file THEN NULL ELSE d.owner[s]]
        /\ e.order = [s \in Superblock |-> IF d.owner[s] = row.file THEN 0 ELSE d.order[s]]
    BY <1>2, DeleteFileEffect
  <2>2. \A f \in d.physical : f.id # NULL
    BY DEF Consistent, Ids, NULL
  <2> HIDE DEF e
  <2>3. ASSUME NEW f \in e.physical, StoredIn(d, f) PROVE StoredIn(e, f)
    <3>1. \A s \in Superblock : e.owner[s] = f.id =>
            d.owner[s] = f.id /\ e.order[s] = d.order[s]
      BY <2>1, <2>2
    <3> QED  BY <2>3, <3>1 DEF StoredIn
  <2> QED  BY <2>1, <2>3 DEF e
<1> QED  BY <1>1, <1>2

LEMMA IntactInit == Init => AllIntact
BY DEF Init, NewPool, AllIntact, IntactUnlessReplaced, Intact, Working

LEMMA IntactStep ==
  OneAtATime /\ TypeOK /\ Located /\ Safe /\ AllIntact /\ [Next]_vars => AllIntact'
<1> SUFFICES ASSUME OneAtATime, TypeOK, Located, Safe, AllIntact, [Next]_vars
             PROVE  AllIntact'
  OBVIOUS
<1>0. ASSUME NEW p \in Proc, IntactUnlessReplaced', Intact(p)' PROVE AllIntact'
  BY <1>0 DEF OneAtATime, AllIntact
<1>1. \A p, q \in Proc : q = p
  BY DEF OneAtATime
<1>2. CASE UNCHANGED vars
  BY <1>2 DEF vars, AllIntact, IntactUnlessReplaced, Stored, BeingReplaced, Removed, Intact,
              StoredIn
<1>3. ASSUME NEW p \in Proc,
             disk' = disk \/ (Unwritten(p) /\ \E v : disk' = [disk EXCEPT ![Target(p)] = v])
      PROVE  /\ \A s \in Superblock : tx[p].owner[s] # NULL => disk'[s] = disk[s]
             /\ \A s \in Superblock, f \in db.physical :
                  db.owner[s] = f.id /\ f.id \notin Removed(p) => disk'[s] = disk[s]
  BY <1>3, TargetIsSpare DEF TypeOK
<1>4. ASSUME NEW p \in Proc, RollBack(p), MayTear(p) PROVE AllIntact'
  <2>1. \A s \in Superblock, f \in db.physical :
          db.owner[s] = f.id /\ f.id \notin Removed(p) => disk'[s] = disk[s]
    BY <1>3, <1>4 DEF MayTear
  <2>2. /\ db' = db /\ spoiled' = spoiled \cup Removed(p)
        /\ pc'[p] = "idle"
    BY <1>4 DEF RollBack, Exit, TypeOK
  <2>3. ASSUME NEW f \in db.physical PROVE Stored(f)' \/ f.id \in spoiled'
    <3>1. CASE Stored(f)
      BY <2>1, <2>2, <3>1 DEF Stored
    <3>2. CASE BeingReplaced(f)
      BY <1>1, <2>2, <3>2 DEF BeingReplaced
    <3> QED  BY <2>2, <3>1, <3>2 DEF AllIntact, IntactUnlessReplaced
  <2>4. IntactUnlessReplaced'
    BY <2>2, <2>3 DEF IntactUnlessReplaced
  <2>5. Intact(p)'
    BY <2>2 DEF Intact, Working
  <2> QED  BY <1>0, <2>4, <2>5
<1>5. ASSUME NEW p \in Proc, GiveUp(p), MayTear(p), pc[p] \in {"entry", "write"}
      PROVE  AllIntact'
  <2>1. CASE /\ pc' = [pc EXCEPT ![p] = "abandon"]
             /\ UNCHANGED <<db, started, lock, tx, run, spoiled>>
    <3>1. /\ \A s \in Superblock : tx[p].owner[s] # NULL => disk'[s] = disk[s]
          /\ \A s \in Superblock, f \in db.physical :
               db.owner[s] = f.id /\ f.id \notin Removed(p) => disk'[s] = disk[s]
      BY <1>3, <1>5 DEF MayTear
    <3>2. Removed(p)' = Removed(p) /\ pc'[p] = "abandon"
      BY <2>1 DEF Removed, TypeOK
    <3>3. ASSUME NEW f \in db.physical PROVE Stored(f)' \/ BeingReplaced(f)' \/ f.id \in spoiled
      <4>1. CASE Stored(f)
        BY <2>1, <3>1, <3>2, <4>1 DEF Stored, BeingReplaced
      <4>2. CASE BeingReplaced(f)
        BY <1>1, <3>2, <4>2 DEF BeingReplaced
      <4> QED  BY <4>1, <4>2 DEF AllIntact, IntactUnlessReplaced
    <3>4. IntactUnlessReplaced'
      BY <2>1, <3>3 DEF IntactUnlessReplaced
    <3>5. \A f \in tx[p].physical : f.id # NULL
      BY DEF Safe, ConsistentEverywhere, Consistent, Ids, NULL
    <3>6. \A f \in tx[p].physical : StoredIn(tx[p], f) => StoredIn(tx[p], f)'
      BY <2>1, <3>1, <3>5 DEF StoredIn
    <3>7. \A f \in tx[p].physical : StoredIn(tx[p], f) \/ f.id \in spoiled
      BY <1>5 DEF AllIntact, Intact, Working
    <3>8. Intact(p)'
      BY <2>1, <3>2, <3>6, <3>7 DEF Intact
    <3> QED  BY <1>0, <3>4, <3>8
  <2> QED  BY <1>4, <1>5, <2>1 DEF GiveUp
<1>6. ASSUME NEW p \in Proc, Start(p) \/ LookUp(p) \/ LookUpRefuses(p) \/ BeginRefuses(p)
      PROVE  AllIntact'
  <2>1. UNCHANGED <<db, disk, spoiled>> /\ lock[p] = "none"
    BY <1>6 DEF Start, LookUp, LookUpRefuses, BeginRefuses, Located, Working
  <2>2. Removed(p) = {}
    BY <2>1 DEF Removed, Writing
  <2>3. IntactUnlessReplaced'
    BY <1>1, <2>1, <2>2, IntactStays
  <2>4. pc'[p] \in {"idle", "lookup", "begin"}
    BY <1>6 DEF Start, LookUp, LookUpRefuses, BeginRefuses, Exit, TypeOK
  <2>5. pc'[p] # "idle" => run'[p].written = 0
    <3>1. CASE Start(p)
      BY <3>1 DEF Start, TypeOK, Idle
    <3>2. CASE LookUp(p)
      BY <3>2 DEF LookUp, TypeOK, RunType, AllIntact, Intact
    <3>3. CASE LookUpRefuses(p) \/ BeginRefuses(p)
      BY <3>3 DEF LookUpRefuses, BeginRefuses, Exit, TypeOK
    <3> QED  BY <1>6, <3>1, <3>2, <3>3
  <2>6. Intact(p)'
    BY <2>4, <2>5 DEF Intact, Working
  <2> QED  BY <1>0, <2>3, <2>6
<1>7. ASSUME NEW p \in Proc, Begin(p) PROVE AllIntact'
  <2>1. /\ UNCHANGED <<db, disk, run, spoiled>> /\ lock[p] = "none"
        /\ pc[p] = "begin" /\ pc'[p] = "entry" /\ tx'[p] = db
    BY <1>7 DEF Begin, Located, Working, TypeOK
  <2>2. Removed(p) = {}
    BY <2>1 DEF Removed, Writing
  <2>3. IntactUnlessReplaced'
    BY <1>1, <2>1, <2>2, IntactStays
  <2>4. \A f \in db.physical : Stored(f) \/ f.id \in spoiled
    BY <1>1, <2>2 DEF AllIntact, IntactUnlessReplaced, BeingReplaced
  <2>5. Intact(p)'
    BY <2>1, <2>4 DEF Intact, AllIntact, Stored, StoredIn
  <2> QED  BY <1>0, <2>3, <2>5
<1>8. ASSUME NEW p \in Proc, MakeDirectory(p) PROVE AllIntact'
  <2> DEFINE e == EnsurePath(tx[p], Current(p).path)
  <2>1. /\ HasEntry(p) /\ UNCHANGED <<db, disk, pc, spoiled>> /\ tx'[p] = e
        /\ lock'[p] = (IF e # tx[p] THEN "reserved" ELSE lock[p])
    BY <1>8 DEF MakeDirectory, TypeOK
  <2>2. e.physical = tx[p].physical /\ e.owner = tx[p].owner /\ e.order = tx[p].order
    BY <2>1, EntryAtHand, EnsurePathType DEF TypeOK
  <2>3. Removed(p) \subseteq Removed(p)'
    BY <2>1, <2>2 DEF Removed, Writing
  <2>4. IntactUnlessReplaced'
    BY <1>1, <2>1, <2>3, IntactStays
  <2>5. pc[p] = "entry" /\ run'[p].written = run[p].written
    BY <1>8 DEF MakeDirectory, HasEntry, TypeOK, RunType
  <2>6. run[p].written = 0 /\ \A f \in tx[p].physical : StoredIn(tx[p], f) \/ f.id \in spoiled
    BY <2>5 DEF AllIntact, Intact, Working
  <2> HIDE DEF e
  <2>7. Intact(p)'
    BY <2>1, <2>2, <2>5, <2>6 DEF Intact, StoredIn
  <2> QED  BY <1>0, <2>4, <2>7
<1>9. ASSUME NEW p \in Proc, Allocate(p) PROVE AllIntact'
  <2>1. /\ pc[p] = "entry" /\ UNCHANGED <<db, disk, spoiled>> /\ tx'[p] = Cleared(p)
        /\ lock'[p] = (IF Deletes(p) THEN "reserved" ELSE lock[p]) /\ pc'[p] = "write"
    BY <1>9 DEF Allocate, HasEntry, TypeOK
  <2>2. tx[p] \in Database /\ Consistent(tx[p])
    BY DEF TypeOK, Safe, ConsistentEverywhere
  <2>3. /\ Cleared(p).physical \subseteq tx[p].physical
        /\ \A f \in Cleared(p).physical : StoredIn(tx[p], f) => StoredIn(Cleared(p), f)
    <3>1. CASE Deletes(p)
      <4>1. PICK row : Cleared(p) = DeleteFile(tx[p], row)
        BY <3>1 DEF Cleared
      <4> QED  BY <2>2, <4>1, DeletedIntact
    <3>2. CASE ~Deletes(p)
      BY <3>2 DEF Cleared
    <3> QED  BY <3>1, <3>2
  <2>4. Removed(p) \subseteq Removed(p)'
    BY <2>1, <2>3 DEF Removed, Writing
  <2>5. IntactUnlessReplaced'
    BY <1>1, <2>1, <2>4, IntactStays
  <2>6. PICK ids \in Allocations(Cleared(p), Extent(Current(p).size)) :
          run'[p] = [run[p] EXCEPT !.ids = ids]
    BY <1>9 DEF Allocate, TypeOK
  <2>7. run'[p].written = 0 /\ run'[p].ids \in Seq(Superblock)
    <3>1. run'[p].written = run[p].written /\ run'[p].ids = ids
      BY <2>6 DEF TypeOK, RunType
    <3>2. Extent(Current(p).size) \in Nat
      BY <1>9, EntryAtHand DEF Allocate
    <3>3. ids \in Seq(Superblock)
      BY <3>2, AllocationsAreSequences
    <3> QED  BY <2>1, <3>1, <3>3 DEF AllIntact, Intact
  <2>8. \A f \in tx[p].physical : StoredIn(tx[p], f) \/ f.id \in spoiled
    BY <2>1 DEF AllIntact, Intact, Working
  <2>9. \A f \in tx'[p].physical : StoredIn(tx[p], f)' \/ f.id \in spoiled'
    BY <2>1, <2>3, <2>8 DEF StoredIn
  <2>10. Intact(p)'
    BY <2>1, <2>7, <2>9 DEF Intact
  <2> QED  BY <1>0, <2>5, <2>10
<1>10. ASSUME NEW p \in Proc, WriteSuperblock(p) PROVE AllIntact'
  <2> DEFINE chunk == [command |-> run[p].number, entry |-> run[p].cursor,
                       chunk |-> run[p].written + 1]
             k == run[p].written
             ids == run[p].ids
  <2>1. /\ Unwritten(p) /\ UNCHANGED <<db, pc, lock, tx, spoiled>>
        /\ disk' = [disk EXCEPT ![Target(p)] = chunk] /\ pc[p] = "write"
        /\ run'[p] = [run[p] EXCEPT !.written = @ + 1]
    BY <1>10 DEF WriteSuperblock, Unwritten, TypeOK
  <2>2. /\ run'[p].written = k + 1 /\ run'[p].ids = ids
        /\ run'[p].number = run[p].number /\ run'[p].cursor = run[p].cursor
    BY <2>1 DEF TypeOK, RunType
  <2>3. /\ \A s \in Superblock : tx[p].owner[s] # NULL => disk'[s] = disk[s]
        /\ \A s \in Superblock, f \in db.physical :
             db.owner[s] = f.id /\ f.id \notin Removed(p) => disk'[s] = disk[s]
    BY <1>3, <2>1
  <2>4. Removed(p)' = Removed(p)
    BY <2>1 DEF Removed
  <2>5. ASSUME NEW f \in db.physical PROVE Stored(f)' \/ BeingReplaced(f)' \/ f.id \in spoiled
    <3>1. CASE Stored(f)
      BY <2>1, <2>3, <2>4, <3>1 DEF Stored, BeingReplaced
    <3>2. CASE BeingReplaced(f)
      BY <1>1, <2>4, <3>2 DEF BeingReplaced
    <3> QED  BY <3>1, <3>2 DEF AllIntact, IntactUnlessReplaced
  <2>6. IntactUnlessReplaced'
    BY <2>1, <2>5 DEF IntactUnlessReplaced
  <2>7. \A f \in tx[p].physical : f.id # NULL
    BY DEF Safe, ConsistentEverywhere, Consistent, Ids, NULL
  <2>8. \A f \in tx[p].physical : StoredIn(tx[p], f) => StoredIn(tx[p], f)'
    BY <2>1, <2>3, <2>7 DEF StoredIn
  <2>9. \A f \in tx[p].physical : StoredIn(tx[p], f) \/ f.id \in spoiled
    BY <2>1 DEF AllIntact, Intact, Working
  <2>10. k \in Nat /\ Len(ids) \in Nat /\ k < Len(ids) /\ Target(p) = ids[k + 1]
         /\ Target(p) \in Superblock /\ \A i \in 1..k : ids[i] # Target(p)
    BY <2>1, TargetIsSpare DEF Unwritten, Target, TypeOK, RunType
  <2>11. disk'[ids[k + 1]] = chunk
    BY <2>1, <2>10 DEF TypeOK
  <2>12. ASSUME NEW i \in 1..k PROVE disk'[ids[i]] = disk[ids[i]]
    <3>1. ids[i] # Target(p)
      BY <2>10
    <3> HIDE DEF ids, k, chunk
    <3>2. ids[i] \in Superblock
      <4>1. ids \in Seq(Superblock)
        BY DEF TypeOK, RunType, ids
      <4> QED  BY <2>10, <4>1
    <3> QED  BY <2>1, <3>1, <3>2 DEF TypeOK
  <2>13. \A i \in 1..k :
           disk[ids[i]] = [command |-> run[p].number, entry |-> run[p].cursor, chunk |-> i]
    BY <2>1 DEF AllIntact, Intact
  <2>14. \A i \in 1..k+1 :
           disk'[ids[i]] = [command |-> run[p].number, entry |-> run[p].cursor, chunk |-> i]
    BY <2>10, <2>11, <2>12, <2>13
  <2>15. k + 1 <= Len(ids)
    BY <2>10
  <2> HIDE DEF k, ids, chunk
  <2>16. Intact(p)'
    BY <2>1, <2>2, <2>8, <2>9, <2>14, <2>15 DEF Intact
  <2> QED  BY <1>0, <2>6, <2>16
<1>11. ASSUME NEW p \in Proc, Written(p), UNCHANGED <<db, disk, spoiled>>,
              lock'[p] = "reserved", pc'[p] \in {"entry", "abandon"},
              pc'[p] = "entry" => run'[p].written = 0,
              tx'[p].physical = Recorded(p).physical, tx'[p].owner = Recorded(p).owner,
              tx'[p].order = Recorded(p).order
       PROVE  AllIntact'
  <2>1. /\ \A f \in Recorded(p).physical : StoredIn(Recorded(p), f) \/ f.id \in spoiled
        /\ \A f \in db.physical \ tx[p].physical : f \notin Recorded(p).physical
    BY <1>11, RecordedIntact
  <2>2. Removed(p) \subseteq Removed(p)'
    BY <1>11, <2>1 DEF Removed, Writing
  <2>3. IntactUnlessReplaced'
    BY <1>1, <1>11, <2>2, IntactStays
  <2>4. \A f \in tx'[p].physical : StoredIn(tx[p], f)' \/ f.id \in spoiled'
    BY <1>11, <2>1 DEF StoredIn
  <2>5. Intact(p)'
    BY <1>11, <2>4 DEF Intact
  <2> QED  BY <1>0, <2>3, <2>5
<1>12. ASSUME NEW p \in Proc, RecordFile(p) PROVE AllIntact'
  <2> DEFINE e == InsertFile(Recorded(p), Current(p).path, tx[p].physSeq + 1)
  <2>1. /\ Written(p) /\ UNCHANGED <<db, disk, spoiled>> /\ lock'[p] = "reserved"
        /\ pc'[p] = "entry" /\ tx'[p] = e
        /\ run'[p] = [run[p] EXCEPT !.cursor = @ + 1, !.ids = <<>>, !.written = 0]
    BY <1>12 DEF RecordFile, TypeOK
  <2>2. run'[p].written = 0
    BY <2>1 DEF TypeOK, RunType
  <2>3. /\ Recorded(p) \in Database /\ Current(p).path \in Seq(Name) \ {<<>>}
        /\ tx[p].physSeq + 1 \in Nat
    BY <2>1, RecordedRows DEF Written, TypeOK, Database
  <2>4. OnlyLists(Recorded(p), e, tx[p].physSeq + 1)
    BY <2>3, InsertFileEffect
  <2> HIDE DEF e
  <2> QED  BY <1>11, <2>1, <2>2, <2>4 DEF OnlyLists
<1>13. ASSUME NEW p \in Proc, RecordFileFails(p) PROVE AllIntact'
  <2>1. Written(p) /\ pc[p] = "write" /\ disk' = disk
    BY <1>13 DEF RecordFileFails, Written
  <2>2. CASE GiveUp(p)
    BY <1>5, <2>1, <2>2 DEF MayTear
  <2>3. CASE /\ tx'[p] = Recorded(p) /\ lock'[p] = "reserved" /\ pc'[p] = "abandon"
             /\ UNCHANGED <<db, spoiled>>
    BY <1>11, <2>1, <2>3
  <2> QED  BY <1>13, <2>2, <2>3 DEF RecordFileFails, TypeOK
<1>14. ASSUME NEW p \in Proc, Finish(p) \/ AwaitReaders(p) PROVE AllIntact'
  <2>1. /\ UNCHANGED <<db, disk, tx, run, spoiled>> /\ pc[p] \in Working
        /\ pc'[p] \in {"commit", "abandon"}
        /\ lock[p] \in Writing => lock'[p] \in Writing
    BY <1>14 DEF Finish, AwaitReaders, AtCommit, Working, Writing, TypeOK
  <2>2. Removed(p) \subseteq Removed(p)'
    BY <2>1 DEF Removed
  <2>3. IntactUnlessReplaced'
    BY <1>1, <2>1, <2>2, IntactStays
  <2>4. Intact(p)'
    BY <2>1 DEF AllIntact, Intact, StoredIn
  <2> QED  BY <1>0, <2>3, <2>4
<1>15. ASSUME NEW p \in Proc, Commit(p) PROVE AllIntact'
  <2>1. UNCHANGED <<disk, spoiled>> /\ pc'[p] = "idle" /\ pc[p] \in Working
    BY <1>15 DEF Commit, Exit, AtCommit, Working, TypeOK
  <2>2. Intact(p)'
    BY <2>1 DEF Intact, Working
  <2>3. CASE lock[p] \in Writing
    <3>1. db' = tx[p]
      BY <1>15, <2>3 DEF Commit
    <3>2. \A f \in tx[p].physical : StoredIn(tx[p], f) \/ f.id \in spoiled
      BY <2>1 DEF AllIntact, Intact
    <3>3. \A f \in db'.physical : Stored(f)' \/ f.id \in spoiled'
      BY <2>1, <3>1, <3>2 DEF Stored, StoredIn
    <3>4. IntactUnlessReplaced'
      BY <3>3 DEF IntactUnlessReplaced
    <3> QED  BY <1>0, <2>2, <3>4
  <2>4. CASE lock[p] \notin Writing
    <3>1. db' = db /\ Removed(p) = {}
      BY <1>15, <2>4 DEF Commit, Removed
    <3>2. IntactUnlessReplaced'
      BY <1>1, <2>1, <3>1, IntactStays
    <3> QED  BY <1>0, <2>2, <3>2
  <2> QED  BY <2>3, <2>4
<1>16. ASSUME NEW p \in Proc,
              \/ MakeDirectoryFails(p) \/ AllocateFails(p)
              \/ Timeout(p) \/ Fault(p) \/ Crash(p)
       PROVE  AllIntact'
  <2>1. MayTear(p)
    BY <1>16 DEF MakeDirectoryFails, AllocateFails, Timeout, Fault, Crash, MayTear
  <2>2. RollBack(p) \/ (GiveUp(p) /\ pc[p] \in {"entry", "write"})
    BY <1>16 DEF MakeDirectoryFails, AllocateFails, Timeout, Fault, Crash, HasEntry, Unwritten
  <2> QED  BY <1>4, <1>5, <2>1, <2>2
<1> QED
  BY <1>2, <1>6, <1>7, <1>8, <1>9, <1>10, <1>12, <1>13, <1>14, <1>15, <1>16 DEF Next, Step

(* As long as commands run one at a time, the data of every file in the    *)
(* committed database is on its superblocks, whatever fails or is killed,  *)
(* unless a replacement of that very file is under way or was rolled back. *)
THEOREM IntactAlone ==
  ASSUME OneAtATime PROVE Spec => []IntactUnlessReplaced
<1>1. Init => TypeOK /\ Located /\ Safe /\ AllIntact
  BY TypeInit, SafeInit, IntactInit
<1>2. TypeOK /\ Located /\ Safe /\ AllIntact /\ [Next]_vars =>
        (TypeOK /\ Located /\ Safe /\ AllIntact)'
  BY TypeStep, SafeStep, IntactStep
<1>3. AllIntact => IntactUnlessReplaced
  BY DEF AllIntact
<1> QED  BY <1>1, <1>2, <1>3, PTL DEF Spec

=============================================================================
