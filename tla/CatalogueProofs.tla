--------------------------- MODULE CatalogueProofs ---------------------------
(***************************************************************************)
(* What holds of the catalogue for any number of processes, superblocks,   *)
(* names and commands: no superblock is lost or written twice, the rows of *)
(* fs make a tree whatever runs at once, and no path is there twice as     *)
(* long as commands run one at a time.                                     *)
(***************************************************************************)
EXTENDS Catalogue, LeastNumbers, FiniteSetTheorems, SequenceTheorems, TLAPS

-----------------------------------------------------------------------------
(* The operators on databases.                                             *)

(* A file of n bytes needs a natural number of superblocks.                *)
LEMMA ExtentType == ASSUME NEW n \in Nat PROVE Extent(n) \in Nat
BY ConstantsAssumption, SMT DEF Extent

(* The query for a path's row returns one of the rows with that path.      *)
LEMMA FirstIsRow ==
  ASSUME NEW rows, \A r \in rows : r.id \in Nat, rows # {}
  PROVE  First(rows) \in rows
<1> DEFINE ids == {r.id : r \in rows}
<1>1. PICK n \in ids : \A m \in ids : n <= m
  BY LeastNatural
<1>2. \E r \in rows : \A q \in rows : r.id <= q.id
  BY <1>1
<1> QED  BY <1>2 DEF First

(* An empty pool is a database.                                            *)
LEMMA NewPoolType == NewPool \in Database
BY DEF NewPool, Database, RootRow, NULL, FsRow

(* Making the missing directories of a path.                               *)
LEMMA EnsurePathType ==
  ASSUME NEW d \in Database, NEW path \in Seq(Name) \ {<<>>}
  PROVE  /\ EnsurePath(d, path) \in Database
         /\ d.fsSeq <= EnsurePath(d, path).fsSeq
         /\ \A r \in EnsurePath(d, path).fs \ d.fs : r.isDir /\ r.file = NULL
         /\ d.fs \subseteq EnsurePath(d, path).fs
         /\ EnsurePath(d, path).physical = d.physical
         /\ EnsurePath(d, path).physSeq = d.physSeq
         /\ EnsurePath(d, path).owner = d.owner
         /\ EnsurePath(d, path).order = d.order
<1>1. Way(path) \subseteq 1..Len(path) /\ IsFiniteSet(Way(path))
  BY FS_Interval DEF Way
<1>2. ASSUME NEW k \in Missing(d, path)
      PROVE  [id |-> d.fsSeq + Cardinality(Missing(d, path) \cap 1..k),
              path |-> Prefix(path, k), isDir |-> TRUE, file |-> NULL] \in FsRow
  <2>1. IsFiniteSet(Missing(d, path) \cap 1..k)
    BY <1>1, FS_Subset DEF Missing
  <2>2. Cardinality(Missing(d, path) \cap 1..k) \in Nat
    BY <2>1, FS_CardinalityType
  <2>3. k \in 1..Len(path)
    BY <1>1 DEF Missing
  <2>4. Prefix(path, k) \in Seq(Name)
    BY <2>3 DEF Prefix
  <2> QED  BY <2>2, <2>4 DEF FsRow, Database, NULL
<1>3. NewDirs(d, path) \subseteq FsRow
  BY <1>2 DEF NewDirs
<1>4. Cardinality(Missing(d, path)) \in Nat
  BY <1>1, FS_Subset, FS_CardinalityType DEF Missing
<1>5. ASSUME NEW r \in NewDirs(d, path) PROVE r.isDir /\ r.file = NULL
  <2>1. PICK k \in Missing(d, path) :
          r = [id |-> d.fsSeq + Cardinality(Missing(d, path) \cap 1..k),
               path |-> Prefix(path, k), isDir |-> TRUE, file |-> NULL]
    BY Zenon DEF NewDirs
  <2> QED  BY <2>1
<1> DEFINE e == EnsurePath(d, path)
<1> DEFINE fs == d.fs \cup NewDirs(d, path)
           n == d.fsSeq + Cardinality(Missing(d, path))
<1>6. e = [d EXCEPT !.fs = fs, !.fsSeq = n]
  BY DEF EnsurePath
<1>7. fs \in SUBSET FsRow /\ n \in Nat /\ d.fsSeq <= n
  BY <1>3, <1>4 DEF Database
<1> HIDE DEF e, fs, n
<1>8. /\ e \in Database /\ e.fs = fs /\ e.fsSeq = n
      /\ e.physical = d.physical /\ e.physSeq = d.physSeq
      /\ e.owner = d.owner /\ e.order = d.order
  BY <1>6, <1>7 DEF Database
<1> QED  BY <1>5, <1>7, <1>8 DEF e, fs

(* Deleting a row of fs: with other references counted, only the row goes; *)
(* without, the physical file goes and its superblocks become free.        *)
LEMMA DeleteFileEffect ==
  ASSUME NEW d \in Database, NEW row
  PROVE  LET e == DeleteFile(d, row)
         IN  /\ e \in Database
             /\ e.fs = d.fs \ {row} /\ e.fsSeq = d.fsSeq /\ e.physSeq = d.physSeq
             /\ References(d, row) # {} =>
                  e.physical = d.physical /\ e.owner = d.owner /\ e.order = d.order
             /\ References(d, row) = {} =>
                  /\ e.physical = {f \in d.physical : f.id # row.file}
                  /\ e.owner = [s \in Superblock |->
                                  IF d.owner[s] = row.file THEN NULL ELSE d.owner[s]]
                  /\ e.order = [s \in Superblock |->
                                  IF d.owner[s] = row.file THEN 0 ELSE d.order[s]]
<1> DEFINE e == DeleteFile(d, row)
           fs == d.fs \ {row}
           physical == {f \in d.physical : f.id # row.file}
           owner == [s \in Superblock |-> IF d.owner[s] = row.file THEN NULL ELSE d.owner[s]]
           order == [s \in Superblock |-> IF d.owner[s] = row.file THEN 0 ELSE d.order[s]]
<1>1. fs \in SUBSET FsRow /\ physical \in SUBSET PhysicalRow
  BY DEF Database
<1>2. owner \in [Superblock -> Nat] /\ order \in [Superblock -> Nat]
  BY DEF Database, NULL
<1>3. CASE References(d, row) # {}
  <2>1. e = [d EXCEPT !.fs = fs]
    BY <1>3 DEF DeleteFile
  <2> HIDE DEF e, fs
  <2>2. e \in Database /\ e.fs = fs /\ e.fsSeq = d.fsSeq /\ e.physSeq = d.physSeq
    BY <1>1, <2>1 DEF Database
  <2>3. e.physical = d.physical /\ e.owner = d.owner /\ e.order = d.order
    BY <2>1 DEF Database
  <2> QED  BY <1>3, <2>2, <2>3 DEF e, fs
<1>4. CASE References(d, row) = {}
  <2>1. e = [d EXCEPT !.fs = fs, !.physical = physical, !.owner = owner, !.order = order]
    BY <1>4 DEF DeleteFile, Database
  <2> HIDE DEF e, fs, physical, owner, order
  <2>2. e \in Database
    BY <1>1, <1>2, <2>1 DEF Database
  <2>3. e.fs = fs /\ e.fsSeq = d.fsSeq /\ e.physSeq = d.physSeq /\ e.physical = physical
    BY <2>1 DEF Database
  <2>4. e.owner = owner /\ e.order = order
    BY <2>1 DEF Database
  <2> QED  BY <1>4, <2>2, <2>3, <2>4 DEF e, fs, physical, owner, order
<1> QED  BY <1>3, <1>4

(* Recording a physical file: it gets the next id and the superblocks that *)
(* were allocated, in order; every other superblock keeps its owner.       *)
LEMMA RecordContentEffect ==
  ASSUME NEW d \in Database, NEW size \in Nat, NEW hash \in Content,
         NEW n \in Nat, NEW ids \in Allocations(d, n)
  PROVE  LET e == RecordContent(d, size, hash, ids)
             taken == {ids[i] : i \in 1..n}
         IN  /\ e \in Database
             /\ e.fs = d.fs /\ e.fsSeq = d.fsSeq /\ e.physSeq = d.physSeq + 1
             /\ e.physical = d.physical \cup
                  {[id |-> d.physSeq + 1, size |-> size, hash |-> hash]}
             /\ \A s \in Superblock : e.owner[s] =
                  IF s \in taken THEN d.physSeq + 1 ELSE d.owner[s]
             /\ \A i \in 1..n : e.order[ids[i]] = i - 1
             /\ \A s \in Superblock \ taken : e.order[s] = d.order[s]
<1> DEFINE e == RecordContent(d, size, hash, ids)
           a == AddPhysicalFile(d, size, hash)
           taken == {ids[i] : i \in 1..n}
           Pos(s) == CHOOSE i \in 1..n : ids[i] = s
           row == [id |-> d.physSeq + 1, size |-> size, hash |-> hash]
           physical == d.physical \cup {row}
           seq == d.physSeq + 1
           owner == [s \in Superblock |-> IF s \in taken THEN d.physSeq + 1 ELSE d.owner[s]]
           order == [s \in Superblock |-> IF s \in taken THEN Pos(s) - 1 ELSE d.order[s]]
<1>1. /\ DOMAIN ids = 1..n
      /\ \A i \in 1..n : ids[i] \in Superblock
      /\ \A i, j \in 1..n : ids[i] = ids[j] => i = j
  BY DEF Allocations, Free
<1>2. \A i \in 1..n : Pos(ids[i]) = i
  BY <1>1
<1>3. row \in PhysicalRow /\ seq \in Nat
  BY DEF PhysicalRow, Database
<1>4. physical \in SUBSET PhysicalRow
  BY <1>3 DEF Database
<1>5. owner \in [Superblock -> Nat]
  BY <1>3 DEF Database
<1>6. order \in [Superblock -> Nat]
  <2>1. ASSUME NEW s \in taken PROVE Pos(s) - 1 \in Nat
    BY <1>2
  <2> HIDE DEF Pos, taken
  <2> QED  BY <2>1 DEF Database
<1>7. a = [d EXCEPT !.physical = physical, !.physSeq = seq]
  BY DEF AddPhysicalFile
<1>8. a.owner = d.owner /\ a.order = d.order
  BY DEF AddPhysicalFile, Database
<1>9. e = [a EXCEPT !.owner = owner, !.order = order]
  BY <1>1, <1>8 DEF RecordContent, AssignSuperblocks
<1>10. \A i \in 1..n : ids[i] \in taken /\ order[ids[i]] = i - 1
  BY <1>1, <1>2
<1>11. /\ \A s \in Superblock : owner[s] = IF s \in taken THEN d.physSeq + 1 ELSE d.owner[s]
       /\ \A s \in Superblock \ taken : order[s] = d.order[s]
  OBVIOUS
<1> HIDE DEF e, a, physical, seq, owner, order, taken
<1>12. a \in Database
  BY <1>3, <1>4, <1>7 DEF Database, seq
<1>13. a.physical = physical /\ a.physSeq = seq /\ a.fs = d.fs /\ a.fsSeq = d.fsSeq
  BY <1>7 DEF Database
<1>14. e \in Database
  BY <1>5, <1>6, <1>9, <1>12 DEF Database
<1>15. e.physical = a.physical /\ e.physSeq = a.physSeq /\ e.fs = a.fs /\ e.fsSeq = a.fsSeq
  BY <1>9, <1>12 DEF Database
<1>16. e.owner = owner /\ e.order = order
  BY <1>9, <1>12 DEF Database
<1> QED
  BY <1>10, <1>11, <1>13, <1>14, <1>15, <1>16 DEF e, physical, seq, taken

(* Listing a file: directories and one row for the file, nothing else.     *)
OnlyLists(d, e, file) ==
  /\ d.fs \subseteq e.fs
  /\ \E row \in e.fs :
       /\ row.file = file /\ ~row.isDir
       /\ \A r \in e.fs \ (d.fs \cup {row}) : r.isDir /\ r.file = NULL
  /\ e.physical = d.physical /\ e.physSeq = d.physSeq
  /\ e.owner = d.owner /\ e.order = d.order

LEMMA InsertFileEffect ==
  ASSUME NEW d \in Database, NEW path \in Seq(Name) \ {<<>>}, NEW file \in Nat
  PROVE  /\ InsertFile(d, path, file) \in Database
         /\ OnlyLists(d, InsertFile(d, path, file), file)
<1> DEFINE u == EnsurePath(d, path)
           e == InsertFile(d, path, file)
           row == [id |-> u.fsSeq + 1, path |-> path, isDir |-> FALSE, file |-> file]
           fs == u.fs \cup {row}
           n == u.fsSeq + 1
<1>1. /\ u \in Database
      /\ d.fs \subseteq u.fs
      /\ \A r \in u.fs \ d.fs : r.isDir /\ r.file = NULL
      /\ u.physical = d.physical /\ u.physSeq = d.physSeq
      /\ u.owner = d.owner /\ u.order = d.order
  BY EnsurePathType
<1>2. e = [u EXCEPT !.fs = fs, !.fsSeq = n]
  BY DEF InsertFile
<1> HIDE DEF u
<1>3. n \in Nat /\ row \in FsRow
  BY <1>1 DEF Database, FsRow
<1>4. fs \in SUBSET FsRow
  BY <1>1, <1>3 DEF Database
<1>5. row.file = file /\ ~row.isDir
  OBVIOUS
<1>6. row \in fs /\ u.fs \subseteq fs /\ fs \ (d.fs \cup {row}) \subseteq u.fs \ d.fs
  OBVIOUS
<1> HIDE DEF e, fs, n, row
<1>7. e \in Database /\ e.fs = fs
  BY <1>1, <1>2, <1>3, <1>4 DEF Database
<1>8. /\ e.physical = u.physical /\ e.physSeq = u.physSeq
      /\ e.owner = u.owner /\ e.order = u.order
  BY <1>1, <1>2 DEF Database
<1>9. \A r \in fs \ (d.fs \cup {row}) : r.isDir /\ r.file = NULL
  BY <1>1, <1>6
<1> QED  BY <1>1, <1>5, <1>6, <1>7, <1>8, <1>9 DEF e, OnlyLists

-----------------------------------------------------------------------------
(* Types, and where a process may be.                                      *)

Working == {"entry", "write", "commit", "abandon"}

(* A process has a lock exactly while its transaction is open, runs one of *)
(* the commands, and writes to superblocks that were free when it chose    *)
(* them, in the database as it sees it.                                    *)
Located ==
  \A p \in Proc :
    /\ lock[p] # "none" <=> pc[p] \in Working
    /\ pc[p] # "idle" => run[p].job \in Command
    /\ pc[p] = "write" =>
         /\ run[p].cursor \in DOMAIN run[p].job.entries
         /\ run[p].ids \in Allocations(tx[p], Extent(Current(p).size))

LEMMA CurrentType ==
  ASSUME TypeOK, NEW p \in Proc, run[p].job \in Command,
         run[p].cursor \in DOMAIN run[p].job.entries
  PROVE  Current(p) \in Entry
<1>1. run[p].job.entries \in Seq(Entry)
  BY ConstantsAssumption DEF CommandType
<1> QED  BY <1>1 DEF Current

LEMMA EntryAtHand ==
  ASSUME TypeOK, Located, NEW p \in Proc, HasEntry(p)
  PROVE  /\ run[p].job \in Command
         /\ run[p].cursor \in DOMAIN run[p].job.entries
         /\ Current(p) \in Entry
         /\ Current(p).path \in Seq(Name) \ {<<>>}
         /\ Extent(Current(p).size) \in Nat
<1>1. run[p].job \in Command
  BY DEF Located, HasEntry
<1>2. run[p].job.entries \in Seq(Entry)
  BY <1>1, ConstantsAssumption DEF CommandType
<1>3. run[p].cursor \in Nat \ {0}
  BY DEF TypeOK, RunType
<1>4. run[p].cursor \in DOMAIN run[p].job.entries
  BY <1>2, <1>3 DEF HasEntry
<1>5. Current(p) \in Entry
  BY <1>1, <1>4, CurrentType
<1>6. Current(p).path \in Seq(Name) \ {<<>>} /\ Current(p).size \in Nat
  BY <1>5 DEF Entry
<1> QED  BY <1>1, <1>4, <1>5, <1>6, ExtentType

LEMMA AllocationsAreSequences ==
  ASSUME NEW d, NEW n \in Nat, NEW ids \in Allocations(d, n)
  PROVE  ids \in Seq(Superblock) /\ Len(ids) = n
<1>1. ids \in [1..n -> Superblock]
  BY DEF Allocations, Free
<1> QED  BY <1>1

LEMMA HashType ==
  ASSUME TypeOK, NEW p \in Proc
  PROVE  Hash(p) \in Content
<1>1. run[p].number \in Nat /\ run[p].cursor \in Nat
  BY DEF TypeOK, RunType
<1> QED  BY <1>1 DEF Hash, Content

LEMMA ClearedType ==
  ASSUME TypeOK, NEW p \in Proc
  PROVE  Cleared(p) \in Database
<1>1. tx[p] \in Database
  BY DEF TypeOK
<1> QED  BY <1>1, DeleteFileEffect DEF Cleared

LEMMA RemovedType ==
  ASSUME TypeOK, NEW p \in Proc
  PROVE  Removed(p) \subseteq Nat
<1>1. db.physical \subseteq PhysicalRow
  BY DEF TypeOK, Database
<1>2. \A f \in db.physical : f.id \in Nat
  BY <1>1 DEF PhysicalRow
<1> QED  BY <1>2 DEF Removed

(* The ends of a command.                                                  *)
LEMMA ExitType ==
  ASSUME TypeOK, Located, NEW p \in Proc, Exit(p),
         db' \in Database, disk' \in [Superblock -> Chunk],
         started' = started, spoiled' \subseteq Nat
  PROVE  TypeOK' /\ Located'
<1>1. Idle \in RunType
  <2>1. <<>> \in Seq(Superblock)
    OBVIOUS
  <2> QED  BY <2>1 DEF Idle, RunType
<1>2. /\ pc' \in [Proc -> PcType] /\ lock' \in [Proc -> {"none", "shared"} \cup Writing]
      /\ tx' \in [Proc -> Database] /\ run' \in [Proc -> RunType]
  BY <1>1, NewPoolType DEF TypeOK, Exit, PcType
<1>3. TypeOK'
  BY <1>2 DEF TypeOK
<1>4. ASSUME NEW q \in Proc, q # p
      PROVE  pc'[q] = pc[q] /\ lock'[q] = lock[q] /\ tx'[q] = tx[q] /\ run'[q] = run[q]
  BY <1>4 DEF Exit, TypeOK
<1>5. pc'[p] = "idle" /\ lock'[p] = "none"
  BY DEF Exit, TypeOK
<1> QED  BY <1>3, <1>4, <1>5 DEF Located, Working, Current

LEMMA RollBackType ==
  ASSUME TypeOK, Located, NEW p \in Proc, RollBack(p), disk' \in [Superblock -> Chunk]
  PROVE  TypeOK' /\ Located'
<1>1. spoiled' \subseteq Nat
  BY RemovedType DEF RollBack, TypeOK
<1>2. db' \in Database
  BY DEF RollBack, TypeOK
<1> QED  BY <1>1, <1>2, ExitType DEF RollBack

LEMMA GiveUpType ==
  ASSUME TypeOK, Located, NEW p \in Proc, GiveUp(p), pc[p] \in {"entry", "write"},
         disk' \in [Superblock -> Chunk]
  PROVE  TypeOK' /\ Located'
<1>1. CASE RollBack(p)
  BY <1>1, RollBackType
<1>2. CASE /\ pc' = [pc EXCEPT ![p] = "abandon"]
           /\ UNCHANGED <<db, started, lock, tx, run, spoiled>>
  <2>1. TypeOK'
    BY <1>2 DEF TypeOK, PcType
  <2>2. Located'
    BY <1>2 DEF Located, Working, TypeOK, Current
  <2> QED  BY <2>1, <2>2
<1> QED  BY <1>1, <1>2 DEF GiveUp

(* Only what an action changes needs an argument.                          *)
LEMMA TypeInit == Init => TypeOK /\ Located
<1> SUFFICES ASSUME Init PROVE TypeOK /\ Located
  OBVIOUS
<1>1. Idle \in RunType
  <2>1. <<>> \in Seq(Superblock)
    OBVIOUS
  <2> QED  BY <2>1 DEF Idle, RunType
<1>2. disk \in [Superblock -> Chunk] /\ started \in 0..MaxCommands
  BY ConstantsAssumption DEF Init, Blank, Chunk
<1>3. TypeOK
  BY <1>1, <1>2, NewPoolType DEF Init, TypeOK, PcType
<1>4. Located
  BY DEF Init, Located, Working
<1> QED  BY <1>3, <1>4

(* A process that moves on by itself: the others stay where they are.      *)
LEMMA OthersLocated ==
  ASSUME Located, NEW p \in Proc,
         \A q \in Proc \ {p} :
           pc'[q] = pc[q] /\ lock'[q] = lock[q] /\ tx'[q] = tx[q] /\ run'[q] = run[q],
         lock'[p] # "none" <=> pc'[p] \in Working,
         pc'[p] # "idle" => run'[p].job \in Command,
         pc'[p] = "write" =>
           /\ run'[p].cursor \in DOMAIN run'[p].job.entries
           /\ run'[p].ids \in Allocations(tx'[p], Extent(Current(p)'.size))
  PROVE  Located'
BY DEF Located, Current

LEMMA TypeStep == TypeOK /\ Located /\ [Next]_vars => TypeOK' /\ Located'
<1> SUFFICES ASSUME TypeOK, Located, [Next]_vars PROVE TypeOK' /\ Located'
  OBVIOUS
<1>0. CASE UNCHANGED vars
  BY <1>0 DEF vars, TypeOK, Located, Current
<1> SUFFICES ASSUME NEW p \in Proc, Start(p) \/ Step(p) \/ Fault(p) \/ Crash(p)
             PROVE  TypeOK' /\ Located'
  BY <1>0 DEF Next
<1> USE DEF PcType, Working, Writing
<1>1. CASE Start(p)
  <2>1. PICK c \in Command :
          run' = [run EXCEPT ![p] = [Idle EXCEPT !.job = c, !.number = started + 1]]
          /\ pc' = [pc EXCEPT ![p] = IF c.cmd = "file" THEN "lookup" ELSE "begin"]
    BY <1>1 DEF Start
  <2> DEFINE r == [Idle EXCEPT !.job = c, !.number = started + 1]
  <2>2. started + 1 \in 0..MaxCommands /\ started + 1 \in Nat
    <3>1. started \in 0..MaxCommands
      BY DEF TypeOK
    <3>2. started < MaxCommands
      BY <1>1 DEF Start
    <3> QED  BY <3>1, <3>2, ConstantsAssumption
  <2>3. r \in RunType /\ r.job = c
    <3>1. <<>> \in Seq(Superblock)
      OBVIOUS
    <3> DEFINE n == started + 1
    <3>2. r = [Idle EXCEPT !.job = c, !.number = n] /\ n \in Nat
      BY <2>2
    <3> HIDE DEF r, n
    <3>3. Idle \in RunType
      BY <3>1 DEF Idle, RunType
    <3>4. c \in Command \cup {Idle.job}
      OBVIOUS
    <3>5. r \in RunType
      BY <3>2, <3>3, <3>4 DEF RunType
    <3>6. r.job = c
      BY <3>2, <3>3 DEF RunType
    <3> QED  BY <3>5, <3>6
  <2> HIDE DEF r
  <2>4. run' \in [Proc -> RunType]
    BY <2>1, <2>3 DEF TypeOK, r
  <2>5. TypeOK'
    BY <1>1, <2>1, <2>2, <2>4 DEF Start, TypeOK
  <2>6. run'[p].job = c
    BY <2>1, <2>3 DEF TypeOK, r
  <2>7. lock[p] = "none" /\ lock' = lock /\ tx' = tx
    BY <1>1 DEF Start, Located
  <2>8. pc'[p] \in {"lookup", "begin"}
    BY <2>1 DEF TypeOK
  <2>9. \A q \in Proc \ {p} : pc'[q] = pc[q] /\ run'[q] = run[q]
    BY <2>1 DEF TypeOK
  <2>10. Located'
    BY <2>6, <2>7, <2>8, <2>9, OthersLocated
  <2> QED  BY <2>5, <2>10
<1>2. CASE LookUp(p)
  <2>1. run'[p] = [run[p] EXCEPT !.replacing = FileExists(db, Current(p).path)]
    BY <1>2 DEF LookUp, TypeOK
  <2>2. FileExists(db, Current(p).path) \in BOOLEAN
    BY DEF FileExists
  <2>3. run'[p] \in RunType /\ run'[p].job = run[p].job
    BY <2>1, <2>2 DEF TypeOK, RunType
  <2>4. run' \in [Proc -> RunType]
    BY <1>2, <2>3 DEF LookUp, TypeOK
  <2>5. TypeOK'
    BY <1>2, <2>4 DEF LookUp, TypeOK
  <2>6. Located'
    BY <1>2, <2>3, OthersLocated DEF LookUp, Located, TypeOK
  <2> QED  BY <2>5, <2>6
<1>3. CASE LookUpRefuses(p) \/ BeginRefuses(p)
  BY <1>3, ExitType DEF LookUpRefuses, BeginRefuses, TypeOK
<1>4. CASE Begin(p)
  <2>1. TypeOK'
    BY <1>4 DEF Begin, TypeOK
  <2>2. Located'
    BY <1>4, OthersLocated DEF Begin, Located, TypeOK
  <2> QED  BY <2>1, <2>2
<1>5. CASE MakeDirectory(p)
  <2> DEFINE d == EnsurePath(tx[p], Current(p).path)
  <2>1. HasEntry(p) /\ pc[p] = "entry" /\ pc' = pc
    BY <1>5 DEF MakeDirectory, HasEntry
  <2>2. d \in Database
    BY <2>1, EntryAtHand, EnsurePathType DEF TypeOK
  <2> DEFINE r == run[p]
             rn == run'[p]
             c == r.cursor + 1
  <2>3. r \in RunType /\ c \in Nat \ {0} /\ rn = [r EXCEPT !.cursor = c]
    BY <1>5 DEF MakeDirectory, TypeOK, RunType
  <2>4. rn \in RunType /\ rn.job = r.job
    <3> HIDE DEF r, rn, c
    <3> QED  BY <2>3 DEF RunType
  <2>5. run' \in [Proc -> RunType] /\ tx' \in [Proc -> Database]
    BY <1>5, <2>2, <2>4 DEF MakeDirectory, TypeOK
  <2>6. lock' \in [Proc -> {"none", "shared"} \cup Writing]
    BY <1>5 DEF MakeDirectory, TypeOK
  <2>7. TypeOK'
    BY <1>5, <2>5, <2>6 DEF MakeDirectory, TypeOK
  <2>8. lock'[p] # "none"
    BY <1>5, <2>1 DEF MakeDirectory, Located, TypeOK
  <2>9. Located'
    BY <1>5, <2>1, <2>4, <2>8, OthersLocated DEF MakeDirectory, Located, TypeOK
  <2> QED  BY <2>7, <2>9
<1>6. CASE MakeDirectoryFails(p) \/ AllocateFails(p)
  BY <1>6, GiveUpType DEF MakeDirectoryFails, AllocateFails, HasEntry, TypeOK
<1>7. CASE Allocate(p)
  <2>1. HasEntry(p) /\ pc[p] = "entry"
    BY <1>7 DEF Allocate, HasEntry
  <2> DEFINE n == Extent(Current(p).size)
  <2>2. PICK ids \in Allocations(Cleared(p), n) : run' = [run EXCEPT ![p].ids = ids]
    BY <1>7 DEF Allocate
  <2>3. n \in Nat
    BY <2>1, EntryAtHand
  <2>4. ids \in Seq(Superblock)
    BY <2>3, AllocationsAreSequences
  <2> DEFINE r == run[p]
             rn == run'[p]
  <2>5. r \in RunType /\ rn = [r EXCEPT !.ids = ids]
    BY <2>2 DEF TypeOK
  <2>6. /\ run'[p] \in RunType /\ run'[p].ids = ids
        /\ run'[p].job = run[p].job /\ run'[p].cursor = run[p].cursor
    BY <2>4, <2>5 DEF TypeOK, RunType
  <2>7. run' \in [Proc -> RunType]
    BY <2>2, <2>6 DEF TypeOK
  <2>8. tx' \in [Proc -> Database] /\ tx'[p] = Cleared(p)
    BY <1>7, ClearedType DEF Allocate, TypeOK
  <2>9. TypeOK'
    BY <1>7, <2>7, <2>8 DEF Allocate, TypeOK
  <2>10. lock'[p] # "none" /\ pc'[p] = "write"
    BY <1>7, <2>1 DEF Allocate, Located, TypeOK
  <2>11. Current(p)' = Current(p)
    BY <2>6 DEF Current
  <2>12. /\ run'[p].job \in Command
         /\ run'[p].cursor \in DOMAIN run'[p].job.entries
         /\ run'[p].ids \in Allocations(tx'[p], Extent(Current(p)'.size))
    BY <2>1, <2>6, <2>8, <2>11, EntryAtHand
  <2>13. \A q \in Proc \ {p} :
           pc'[q] = pc[q] /\ lock'[q] = lock[q] /\ tx'[q] = tx[q] /\ run'[q] = run[q]
    BY <1>7, <2>2 DEF Allocate, TypeOK
  <2>14. Located'
    BY <2>10, <2>12, <2>13, OthersLocated
  <2> QED  BY <2>9, <2>14
<1>8. CASE WriteSuperblock(p)
  <2>1. pc[p] = "write" /\ run[p].written < Len(run[p].ids)
    BY <1>8 DEF WriteSuperblock, Unwritten
  <2>2. /\ run[p].number \in Nat /\ run[p].cursor \in Nat /\ run[p].written \in Nat
        /\ run[p].ids \in Seq(Superblock)
    BY DEF TypeOK, RunType
  <2>3. disk' \in [Superblock -> Chunk]
    <3> DEFINE chunk == [command |-> run[p].number, entry |-> run[p].cursor,
                         chunk |-> run[p].written + 1]
    <3>1. chunk \in Chunk
      BY <2>2 DEF Chunk
    <3>2. disk' = [disk EXCEPT ![Target(p)] = chunk]
      BY <1>8 DEF WriteSuperblock
    <3> HIDE DEF chunk
    <3> QED  BY <3>1, <3>2 DEF TypeOK
  <2> DEFINE r == run[p]
             rn == run'[p]
             w == r.written + 1
  <2>4. r \in RunType /\ w \in Nat /\ rn = [r EXCEPT !.written = w]
    BY <1>8, <2>2 DEF WriteSuperblock, TypeOK
  <2>5. rn \in RunType /\ rn.ids = r.ids /\ rn.job = r.job /\ rn.cursor = r.cursor
    <3> HIDE DEF r, rn, w
    <3> QED  BY <2>4 DEF RunType
  <2>6. run' \in [Proc -> RunType]
    BY <1>8, <2>5 DEF WriteSuperblock, TypeOK
  <2>7. TypeOK'
    BY <1>8, <2>3, <2>6 DEF WriteSuperblock, TypeOK
  <2>8. Current(p)' = Current(p)
    BY <2>5 DEF Current
  <2>9. \A q \in Proc \ {p} : run'[q] = run[q]
    BY <1>8 DEF WriteSuperblock, TypeOK
  <2>10. pc' = pc /\ lock' = lock /\ tx' = tx
    BY <1>8 DEF WriteSuperblock
  <2>11. Located'
    BY <2>5, <2>8, <2>9, <2>10, OthersLocated DEF Located
  <2> QED  BY <2>7, <2>11
<1>9. CASE Written(p) /\ (RecordFile(p) \/ RecordFileFails(p))
  <2>1. /\ pc[p] = "write" /\ run[p].job \in Command
        /\ run[p].cursor \in DOMAIN run[p].job.entries
        /\ run[p].ids \in Allocations(tx[p], Extent(Current(p).size))
    BY <1>9 DEF Written, Located
  <2>2. Current(p) \in Entry
    BY <2>1, CurrentType
  <2>3. /\ Current(p).path \in Seq(Name) \ {<<>>} /\ Current(p).size \in Nat
        /\ Extent(Current(p).size) \in Nat
    BY <2>2, ExtentType DEF Entry
  <2>4. tx[p] \in Database /\ tx[p].physSeq + 1 \in Nat
    BY DEF TypeOK, Database
  <2>5. Recorded(p) \in Database
    BY <2>1, <2>3, <2>4, HashType, RecordContentEffect DEF Recorded
  <2>6. InsertFile(Recorded(p), Current(p).path, tx[p].physSeq + 1) \in Database
    BY <2>3, <2>4, <2>5, InsertFileEffect
  <2>7. CASE RecordFile(p)
    <3> DEFINE r == run[p]
               rn == run'[p]
               c == r.cursor + 1
               none == <<>>
    <3>1. /\ r \in RunType /\ c \in Nat \ {0} /\ none \in Seq(Superblock)
          /\ rn = [r EXCEPT !.cursor = c, !.ids = none, !.written = 0]
      BY <2>7 DEF RecordFile, TypeOK, RunType
    <3>2. rn \in RunType /\ rn.job = r.job
      <4> HIDE DEF r, rn, c, none
      <4> QED  BY <3>1 DEF RunType
    <3>3. run' \in [Proc -> RunType]
      BY <2>7, <3>2 DEF RecordFile, TypeOK
    <3>4. tx' \in [Proc -> Database]
      BY <2>6, <2>7 DEF RecordFile, TypeOK
    <3>5. TypeOK'
      BY <2>7, <3>3, <3>4 DEF RecordFile, TypeOK
    <3>6. Located'
      BY <2>1, <2>7, <3>2, OthersLocated DEF RecordFile, TypeOK
    <3> QED  BY <3>5, <3>6
  <2>8. CASE GiveUp(p) /\ UNCHANGED disk
    BY <2>1, <2>8, GiveUpType DEF TypeOK
  <2>9. CASE /\ tx' = [tx EXCEPT ![p] = Recorded(p)]
             /\ lock' = [lock EXCEPT ![p] = "reserved"]
             /\ pc' = [pc EXCEPT ![p] = "abandon"]
             /\ UNCHANGED <<db, started, run, spoiled, disk>>
    <3>1. TypeOK'
      BY <2>5, <2>9 DEF TypeOK
    <3>2. Located'
      BY <2>1, <2>9, OthersLocated DEF TypeOK
    <3> QED  BY <3>1, <3>2
  <2> QED  BY <1>9, <2>7, <2>8, <2>9 DEF RecordFileFails
<1>10. CASE Finish(p)
  <2>1. TypeOK'
    BY <1>10 DEF Finish, TypeOK
  <2>2. Located'
    BY <1>10, OthersLocated DEF Finish, Located, TypeOK
  <2> QED  BY <2>1, <2>2
<1>11. CASE Commit(p)
  <2>1. db' \in Database
    BY <1>11 DEF Commit, TypeOK
  <2> QED  BY <1>11, <2>1, ExitType DEF Commit, TypeOK
<1>12. CASE AwaitReaders(p)
  <2>1. TypeOK'
    BY <1>12 DEF AwaitReaders, TypeOK
  <2>2. Located'
    BY <1>12, OthersLocated DEF AwaitReaders, AtCommit, Located, TypeOK
  <2> QED  BY <2>1, <2>2
<1>13. CASE Timeout(p)
  BY <1>13, RollBackType DEF Timeout, TypeOK
<1>14. CASE Fault(p) \/ Crash(p)
  <2>1. disk' \in [Superblock -> Chunk]
    <3>1. Torn \in Chunk
      BY DEF Torn, Chunk
    <3> QED  BY <1>14, <3>1 DEF Fault, Crash, MayTear, TypeOK
  <2>2. CASE RollBack(p)
    BY <2>1, <2>2, RollBackType
  <2>3. CASE GiveUp(p) /\ pc[p] \in {"entry", "write"}
    BY <2>1, <2>3, GiveUpType
  <2> QED  BY <1>14, <2>2, <2>3 DEF Fault, Crash, HasEntry, Unwritten
<1> QED
  <2>1. RecordFile(p) \/ RecordFileFails(p) => Written(p)
    BY DEF RecordFile, RecordFileFails
  <2> QED
    BY <1>1, <1>2, <1>3, <1>4, <1>5, <1>6, <1>7, <1>8, <1>9, <1>10, <1>11, <1>12,
       <1>13, <1>14, <2>1 DEF Step

LEMMA TypeAndPlace == Spec => [](TypeOK /\ Located)
BY TypeInit, TypeStep, PTL DEF Spec

(* Every variable always has the type its use in the code gives it.        *)
THEOREM TypeCorrect == Spec => []TypeOK
BY TypeAndPlace, PTL

-----------------------------------------------------------------------------
(* What every database that a process sees has in common, besides BackedIn.*)
(* Without the last two parts BackedIn is not inductive: deleting a row    *)
(* must not take away the physical file of another one, and the next id    *)
(* must be new.                                                            *)

Ids(d) ==
  /\ \A f \in d.physical : f.id \in 1..d.physSeq
  /\ \A f, g \in d.physical : f.id = g.id => f = g
OneListing(d) ==
  /\ \A r \in d.fs : r.isDir => r.file = NULL
  /\ \A r, q \in d.fs : ~r.isDir /\ ~q.isDir /\ r.file = q.file => r = q
Consistent(d) == BackedIn(d) /\ Ids(d) /\ OneListing(d)

LEMMA NewPoolConsistent == Consistent(NewPool)
BY DEF Consistent, BackedIn, Ids, OneListing, NewPool, RootRow, NULL

(* Making directories changes nothing of this.                             *)
LEMMA EnsurePathConsistent ==
  ASSUME NEW d \in Database, Consistent(d), NEW path \in Seq(Name) \ {<<>>}
  PROVE  Consistent(EnsurePath(d, path))
<1> DEFINE e == EnsurePath(d, path)
<1>1. /\ d.fs \subseteq e.fs
      /\ \A r \in e.fs \ d.fs : r.isDir /\ r.file = NULL
      /\ e.physical = d.physical /\ e.physSeq = d.physSeq
      /\ e.owner = d.owner /\ e.order = d.order
  BY EnsurePathType
<1> HIDE DEF e
<1>2. BackedIn(e)
  BY <1>1 DEF Consistent, BackedIn
<1>3. Ids(e)
  BY <1>1 DEF Consistent, Ids
<1>4. OneListing(e)
  BY <1>1 DEF Consistent, OneListing
<1> QED  BY <1>2, <1>3, <1>4 DEF Consistent, e

(* Deleting a file: the rows that stay have other physical files.          *)
LEMMA DeleteFileConsistent ==
  ASSUME NEW d \in Database, Consistent(d), NEW row \in d.fs, ~row.isDir
  PROVE  Consistent(DeleteFile(d, row))
<1> DEFINE e == DeleteFile(d, row)
<1>0. /\ e.fs = d.fs \ {row} /\ e.physSeq = d.physSeq
      /\ \A r \in e.fs : r.isDir \/ r.file # row.file
  <2>1. e.fs = d.fs \ {row} /\ e.physSeq = d.physSeq
    BY DeleteFileEffect
  <2> HIDE DEF e
  <2> QED  BY <2>1 DEF Consistent, OneListing
<1>1. CASE References(d, row) # {}
  <2>1. e.physical = d.physical /\ e.owner = d.owner /\ e.order = d.order
    BY <1>1, DeleteFileEffect
  <2> HIDE DEF e
  <2>2. BackedIn(e)
    BY <1>0, <2>1 DEF Consistent, BackedIn
  <2>3. Ids(e) /\ OneListing(e)
    BY <1>0, <2>1 DEF Consistent, Ids, OneListing
  <2> QED  BY <2>2, <2>3 DEF Consistent, e
<1>2. CASE References(d, row) = {}
  <2>1. /\ e.physical = {f \in d.physical : f.id # row.file}
        /\ \A s \in Superblock : e.owner[s] = IF d.owner[s] = row.file THEN NULL ELSE d.owner[s]
        /\ \A s \in Superblock : e.order[s] = IF d.owner[s] = row.file THEN 0 ELSE d.order[s]
    <3>1. /\ e.physical = {f \in d.physical : f.id # row.file}
          /\ e.owner = [s \in Superblock |-> IF d.owner[s] = row.file THEN NULL ELSE d.owner[s]]
          /\ e.order = [s \in Superblock |-> IF d.owner[s] = row.file THEN 0 ELSE d.order[s]]
      BY <1>2, DeleteFileEffect
    <3> HIDE DEF e
    <3> QED  BY <3>1
  <2> HIDE DEF e
  <2>2. Ids(e) /\ OneListing(e)
    BY <1>0, <2>1 DEF Consistent, Ids, OneListing
  <2>3. \A r \in e.fs : r.isDir \/ \E f \in e.physical : f.id = r.file
    BY <1>0, <2>1 DEF Consistent, BackedIn
  <2>4. \A s \in Superblock : e.owner[s] # NULL =>
          \E f \in e.physical : f.id = e.owner[s] /\ e.order[s] < Extent(f.size)
    BY <2>1 DEF Consistent, BackedIn
  <2>5. \A s, u \in Superblock :
          e.owner[s] # NULL /\ e.owner[s] = e.owner[u] /\ e.order[s] = e.order[u] => s = u
    BY <2>1 DEF Consistent, BackedIn
  <2>6. \A f \in e.physical : \A i \in 0..Extent(f.size)-1 :
          \E s \in Superblock : e.owner[s] = f.id /\ e.order[s] = i
    BY <2>1 DEF Consistent, BackedIn
  <2> QED  BY <2>2, <2>3, <2>4, <2>5, <2>6 DEF Consistent, BackedIn, e
<1> QED  BY <1>1, <1>2

(* Recording a physical file: its id is new, and it gets as many           *)
(* superblocks as its size needs, all of them free before.                 *)
LEMMA RecordContentConsistent ==
  ASSUME NEW d \in Database, Consistent(d), NEW size \in Nat, NEW hash \in Content,
         NEW ids \in Allocations(d, Extent(size))
  PROVE  LET e == RecordContent(d, size, hash, ids)
         IN  /\ Consistent(e)
             /\ \E f \in e.physical : f.id = d.physSeq + 1
             /\ \A r \in e.fs : r.isDir \/ r.file # d.physSeq + 1
<1> DEFINE e == RecordContent(d, size, hash, ids)
           n == Extent(size)
           taken == {ids[i] : i \in 1..n}
           new == d.physSeq + 1
           row == [id |-> new, size |-> size, hash |-> hash]
<1>1. n \in Nat
  BY ExtentType
<1>2. /\ e.fs = d.fs /\ e.physSeq = new
      /\ e.physical = d.physical \cup {row}
      /\ \A s \in Superblock : e.owner[s] = IF s \in taken THEN new ELSE d.owner[s]
      /\ \A i \in 1..n : e.order[ids[i]] = i - 1
      /\ \A s \in Superblock \ taken : e.order[s] = d.order[s]
  <2>1. ids \in Allocations(d, n)
    OBVIOUS
  <2> HIDE DEF n
  <2> QED  BY <1>1, <2>1, RecordContentEffect
<1>3. /\ \A i \in 1..n : ids[i] \in Superblock /\ d.owner[ids[i]] = NULL
      /\ \A i, j \in 1..n : ids[i] = ids[j] => i = j
  BY DEF Allocations, Free
<1>4. row.id = new /\ row.size = size /\ new \in Nat /\ new > d.physSeq /\ d.physSeq \in Nat
  BY DEF Database
<1>5. \A f \in d.physical : f.id \in 1..d.physSeq
  BY DEF Consistent, Ids
<1>6. \A s \in Superblock : d.owner[s] # new
  BY <1>4, <1>5 DEF Consistent, BackedIn, NULL
<1>7. \A r \in d.fs : r.isDir \/ r.file # new
  BY <1>4, <1>5 DEF Consistent, BackedIn
<1>8. \A i \in 1..n : ids[i] \in taken
  OBVIOUS
<1>9. \A s \in taken : \E i \in 1..n : s = ids[i]
  OBVIOUS
<1> HIDE DEF e, n, taken, new, row
<1>10. Ids(e)
  BY <1>2, <1>4, <1>5 DEF Consistent, Ids
<1>11. OneListing(e)
  BY <1>2 DEF Consistent, OneListing
<1>12. \A r \in e.fs : r.isDir \/ \E f \in e.physical : f.id = r.file
  BY <1>2 DEF Consistent, BackedIn
<1>13. ASSUME NEW s \in Superblock, e.owner[s] # NULL
       PROVE  \E f \in e.physical : f.id = e.owner[s] /\ e.order[s] < Extent(f.size)
  <2>1. CASE s \in taken
    <3>1. PICK i \in 1..n : s = ids[i]
      BY <2>1, <1>9
    <3>2. e.order[s] = i - 1 /\ i - 1 < n
      BY <3>1, <1>1, <1>2
    <3> QED  BY <2>1, <3>2, <1>2, <1>4 DEF n
  <2>2. CASE s \notin taken
    BY <2>2, <1>2, <1>13 DEF Consistent, BackedIn
  <2> QED  BY <2>1, <2>2
<1>14. ASSUME NEW s \in Superblock, NEW u \in Superblock,
              e.owner[s] # NULL, e.owner[s] = e.owner[u], e.order[s] = e.order[u]
       PROVE  s = u
  <2>1. CASE s \in taken /\ u \in taken
    <3>1. PICK i \in 1..n, j \in 1..n : s = ids[i] /\ u = ids[j]
      BY <2>1, <1>9
    <3>2. i - 1 = j - 1
      BY <3>1, <1>2, <1>14
    <3> QED  BY <3>1, <3>2, <1>1
  <2>2. CASE s \notin taken /\ u \notin taken
    BY <2>2, <1>2, <1>14 DEF Consistent, BackedIn
  <2>3. s \in taken <=> u \in taken
    BY <1>2, <1>6, <1>14
  <2> QED  BY <2>1, <2>2, <2>3
<1>15. ASSUME NEW f \in e.physical, NEW i \in 0..Extent(f.size)-1
       PROVE  \E s \in Superblock : e.owner[s] = f.id /\ e.order[s] = i
  <2>1. CASE f = row
    <3>1. i + 1 \in 1..n /\ (i + 1) - 1 = i
      BY <2>1, <1>1, <1>4 DEF n
    <3>2. ids[i+1] \in taken /\ ids[i+1] \in Superblock /\ e.order[ids[i+1]] = i
      BY <3>1, <1>2, <1>3, <1>8
    <3> QED  BY <2>1, <3>2, <1>2, <1>4
  <2>2. CASE f \in d.physical
    <3>1. PICK s \in Superblock : d.owner[s] = f.id /\ d.order[s] = i
      BY <2>2 DEF Consistent, BackedIn
    <3>2. f.id # NULL
      BY <2>2, <1>5 DEF NULL
    <3>3. s \notin taken
      BY <3>1, <3>2, <1>3, <1>9
    <3> QED  BY <3>1, <3>3, <1>2
  <2> QED  BY <2>1, <2>2, <1>2
<1>16. Consistent(e)
  BY <1>10, <1>11, <1>12, <1>13, <1>14, <1>15 DEF Consistent, BackedIn
<1>17. row \in e.physical /\ row.id = new
  BY <1>2, <1>4
<1> QED  BY <1>2, <1>7, <1>16, <1>17 DEF e, new

(* Storing a file, as RecordFile does it: its row is the only one for it.  *)
LEMMA StoreFileConsistent ==
  ASSUME NEW d \in Database, Consistent(d), NEW size \in Nat, NEW hash \in Content,
         NEW ids \in Allocations(d, Extent(size)), NEW path \in Seq(Name) \ {<<>>}
  PROVE  Consistent(InsertFile(RecordContent(d, size, hash, ids), path, d.physSeq + 1))
<1> DEFINE u == RecordContent(d, size, hash, ids)
           file == d.physSeq + 1
           e == InsertFile(u, path, file)
<1>1. u \in Database
  BY ExtentType, RecordContentEffect
<1>2. /\ Consistent(u)
      /\ \E f \in u.physical : f.id = file
      /\ \A r \in u.fs : r.isDir \/ r.file # file
  BY RecordContentConsistent
<1>3. file \in Nat
  BY DEF Database
<1> HIDE DEF u, file
<1>4. OnlyLists(u, e, file)
  BY <1>1, <1>3, InsertFileEffect
<1>5. PICK row \in e.fs :
        /\ row.file = file /\ ~row.isDir
        /\ \A r \in e.fs \ (u.fs \cup {row}) : r.isDir /\ r.file = NULL
  BY <1>4 DEF OnlyLists
<1> HIDE DEF e
<1>6. Ids(e)
  BY <1>2, <1>4 DEF Consistent, Ids, OnlyLists
<1>7. OneListing(e)
  BY <1>2, <1>5 DEF Consistent, OneListing
<1>8. BackedIn(e)
  <2>1. \A r \in e.fs : r.isDir \/ \E f \in e.physical : f.id = r.file
    BY <1>2, <1>4, <1>5 DEF Consistent, BackedIn, OnlyLists
  <2> QED  BY <2>1, <1>2, <1>4 DEF Consistent, BackedIn, OnlyLists
<1> QED  BY <1>6, <1>7, <1>8 DEF Consistent, e, u, file

-----------------------------------------------------------------------------
(* What a transaction may have done to the committed database so far: a    *)
(* superblock that changed hands has lost its file, and ids only grow.     *)
Retires(d, e) ==
  /\ d.physSeq <= e.physSeq
  /\ \A s \in Superblock : d.owner[s] # NULL /\ e.owner[s] # d.owner[s] =>
       \A f \in e.physical : f.id # d.owner[s]

LEMMA RetiresNothing == ASSUME NEW d \in Database PROVE Retires(d, d)
BY DEF Retires, Database

LEMMA DeleteFileRetires ==
  ASSUME NEW d \in Database, NEW e \in Database, Retires(d, e), NEW row
  PROVE  Retires(d, DeleteFile(e, row))
<1> DEFINE u == DeleteFile(e, row)
<1>1. u.physSeq = e.physSeq
  BY DeleteFileEffect
<1>2. CASE References(e, row) # {}
  <2>1. u.physical = e.physical /\ u.owner = e.owner
    BY <1>2, DeleteFileEffect
  <2> HIDE DEF u
  <2> QED  BY <1>1, <2>1 DEF Retires, u
<1>3. CASE References(e, row) = {}
  <2>1. /\ u.physical = {f \in e.physical : f.id # row.file}
        /\ u.owner = [s \in Superblock |-> IF e.owner[s] = row.file THEN NULL ELSE e.owner[s]]
    BY <1>3, DeleteFileEffect
  <2> HIDE DEF u
  <2> QED  BY <1>1, <2>1 DEF Retires, u
<1> QED  BY <1>2, <1>3

LEMMA RecordContentRetires ==
  ASSUME NEW d \in Database, Consistent(d), NEW e \in Database, Retires(d, e),
         NEW size \in Nat, NEW hash \in Content, NEW ids \in Allocations(e, Extent(size))
  PROVE  Retires(d, RecordContent(e, size, hash, ids))
<1> DEFINE u == RecordContent(e, size, hash, ids)
           n == Extent(size)
           taken == {ids[i] : i \in 1..n}
           row == [id |-> e.physSeq + 1, size |-> size, hash |-> hash]
<1>1. n \in Nat
  BY ExtentType
<1>2. /\ u.physSeq = e.physSeq + 1
      /\ u.physical = e.physical \cup {row}
      /\ \A s \in Superblock : u.owner[s] = IF s \in taken THEN e.physSeq + 1 ELSE e.owner[s]
  <2>1. ids \in Allocations(e, n)
    OBVIOUS
  <2> HIDE DEF n
  <2>2. u.physSeq = e.physSeq + 1
    BY <1>1, <2>1, RecordContentEffect
  <2>3. u.physical = e.physical \cup {row}
    BY <1>1, <2>1, RecordContentEffect
  <2>4. \A s \in Superblock : u.owner[s] = IF s \in taken THEN e.physSeq + 1 ELSE e.owner[s]
    BY <1>1, <2>1, RecordContentEffect
  <2> QED  BY <2>2, <2>3, <2>4
<1>3. \A s \in taken : e.owner[s] = NULL
  BY DEF Allocations, Free
<1>4. row.id = e.physSeq + 1
  OBVIOUS
<1>5. e.physSeq \in Nat /\ d.physSeq \in Nat /\ d.physSeq <= e.physSeq
  BY DEF Database, Retires
<1>6. \A s \in Superblock : d.owner[s] # NULL => d.owner[s] <= d.physSeq
  <2>1. \A f \in d.physical : f.id \in 1..d.physSeq
    BY DEF Consistent, Ids
  <2> QED  BY <1>5, <2>1 DEF Consistent, BackedIn
<1>7. \A s \in Superblock : d.owner[s] \in Nat
  BY DEF Database
<1> HIDE DEF u, taken, row
<1>8. ASSUME NEW s \in Superblock, d.owner[s] # NULL, u.owner[s] # d.owner[s],
             NEW f \in u.physical
      PROVE  f.id # d.owner[s]
  <2>1. CASE f = row
    BY <2>1, <1>4, <1>5, <1>6, <1>7, <1>8
  <2>2. CASE f \in e.physical
    <3>1. e.owner[s] # d.owner[s]
      BY <1>2, <1>3, <1>8
    <3> QED  BY <2>2, <3>1, <1>8 DEF Retires
  <2> QED  BY <1>2, <2>1, <2>2
<1> QED  BY <1>2, <1>5, <1>8 DEF Retires, u

-----------------------------------------------------------------------------
(* The inductive invariant.                                                *)

ConsistentEverywhere == Consistent(db) /\ \A p \in Proc : Consistent(tx[p])
RetiresInTransactions == \A p \in Proc : lock[p] # "none" => Retires(db, tx[p])
Safe == Serialized /\ ConsistentEverywhere /\ RetiresInTransactions

LEMMA SafeInit == Init => Safe
BY NewPoolConsistent DEF Init, Safe, Serialized, ConsistentEverywhere, RetiresInTransactions,
                         Writing

(* A step of p that leaves the committed database alone.                   *)
LEMMA LocalStep ==
  ASSUME Safe, NEW p \in Proc, db' = db,
         \A q \in Proc \ {p} : lock'[q] = lock[q] /\ tx'[q] = tx[q],
         Consistent(tx'[p]),
         lock'[p] # "none" => Retires(db, tx'[p]),
         lock'[p] = "shared" => tx'[p] = db,
         lock'[p] \in Writing => lock[p] \in Writing \/ CanWrite(p)
  PROVE  Safe'
<1>1. Serialized'
  BY DEF Safe, Serialized, CanWrite
<1>2. ConsistentEverywhere'
  <2>1. Consistent(db)' /\ Consistent(tx[p])'
    BY DEF Safe, ConsistentEverywhere, Consistent, BackedIn, Ids, OneListing
  <2>2. \A q \in Proc \ {p} : Consistent(tx[q])'
    BY DEF Safe, ConsistentEverywhere, Consistent, BackedIn, Ids, OneListing
  <2> QED  BY <2>1, <2>2 DEF ConsistentEverywhere
<1>3. RetiresInTransactions'
  BY DEF Safe, RetiresInTransactions, Retires
<1> QED  BY <1>1, <1>2, <1>3 DEF Safe

LEMMA RollBackSafe ==
  ASSUME TypeOK, Safe, NEW p \in Proc, Exit(p), db' = db
  PROVE  Safe'
<1>1. /\ \A q \in Proc \ {p} : lock'[q] = lock[q] /\ tx'[q] = tx[q]
      /\ tx'[p] = NewPool /\ lock'[p] = "none"
  BY DEF Exit, TypeOK
<1> QED  BY <1>1, LocalStep, NewPoolConsistent DEF Writing

LEMMA GiveUpSafe ==
  ASSUME TypeOK, Safe, NEW p \in Proc, GiveUp(p)
  PROVE  Safe'
<1>1. CASE RollBack(p)
  BY <1>1, RollBackSafe DEF RollBack
<1>2. CASE UNCHANGED <<db, lock, tx>>
  BY <1>2 DEF Safe, Serialized, ConsistentEverywhere, RetiresInTransactions
<1> QED  BY <1>1, <1>2 DEF GiveUp

LEMMA SafeStep == TypeOK /\ Located /\ Safe /\ [Next]_vars => Safe'
<1> SUFFICES ASSUME TypeOK, Located, Safe, [Next]_vars PROVE Safe'
  OBVIOUS
<1>0. CASE UNCHANGED <<db, lock, tx>>
  BY <1>0 DEF Safe, Serialized, ConsistentEverywhere, RetiresInTransactions
<1>1. ASSUME NEW p \in Proc, MakeDirectory(p) PROVE Safe'
  <2> DEFINE d == EnsurePath(tx[p], Current(p).path)
  <2>1. HasEntry(p) /\ db' = db /\ tx' = [tx EXCEPT ![p] = d]
        /\ lock' = [lock EXCEPT ![p] = IF d # tx[p] THEN "reserved" ELSE lock[p]]
        /\ (d # tx[p] => CanWrite(p))
    BY <1>1 DEF MakeDirectory
  <2>2. tx[p] \in Database /\ Consistent(tx[p])
    BY DEF TypeOK, Safe, ConsistentEverywhere
  <2>3. Current(p).path \in Seq(Name) \ {<<>>} /\ lock[p] # "none"
    BY <2>1, EntryAtHand DEF HasEntry, Located, Working
  <2>4. Consistent(d)
    BY <2>2, <2>3, EnsurePathConsistent
  <2>5. Retires(db, d)
    BY <2>2, <2>3, EnsurePathType DEF Safe, RetiresInTransactions, Retires
  <2> HIDE DEF d
  <2>6. tx'[p] = d /\ \A q \in Proc \ {p} : tx'[q] = tx[q] /\ lock'[q] = lock[q]
    BY <2>1 DEF TypeOK
  <2>7. lock'[p] = IF d # tx[p] THEN "reserved" ELSE lock[p]
    BY <2>1 DEF TypeOK
  <2>8. lock'[p] = "shared" => d = db
    BY <2>7 DEF Safe, Serialized
  <2>9. lock'[p] \in Writing => lock[p] \in Writing \/ CanWrite(p)
    BY <2>1, <2>7
  <2> QED  BY <2>1, <2>4, <2>5, <2>6, <2>8, <2>9, LocalStep
<1>2. ASSUME NEW p \in Proc, Allocate(p) PROVE Safe'
  <2>1. /\ HasEntry(p) /\ db' = db /\ tx' = [tx EXCEPT ![p] = Cleared(p)]
        /\ lock' = [lock EXCEPT ![p] = IF Deletes(p) THEN "reserved" ELSE lock[p]]
        /\ ~CannotStore(p)
    BY <1>2 DEF Allocate
  <2>2. /\ tx'[p] = Cleared(p)
        /\ lock'[p] = IF Deletes(p) THEN "reserved" ELSE lock[p]
        /\ \A q \in Proc \ {p} : tx'[q] = tx[q] /\ lock'[q] = lock[q]
    BY <2>1 DEF TypeOK
  <2>3. tx[p] \in Database /\ db \in Database /\ Consistent(tx[p])
    BY DEF TypeOK, Safe, ConsistentEverywhere
  <2>4. lock[p] # "none" /\ Retires(db, tx[p])
    BY <2>1 DEF HasEntry, Located, Working, Safe, RetiresInTransactions
  <2>5. CASE Deletes(p)
    <3> DEFINE rows == Rows(tx[p], Current(p).path)
    <3>1. CanWrite(p) /\ ~LookupFails(tx[p], Current(p).path) /\ rows # {}
      BY <2>1, <2>5 DEF CannotStore, Deletes, FileExists
    <3>2. \A r \in rows : r \in tx[p].fs /\ r.id \in Nat
      BY <2>3 DEF Rows, Database, FsRow
    <3>3. First(rows) \in tx[p].fs /\ ~First(rows).isDir
      BY <3>1, <3>2, FirstIsRow DEF LookupFails, FileExists
    <3>4. Cleared(p) = DeleteFile(tx[p], First(rows))
      BY <2>5 DEF Cleared
    <3>5. Consistent(Cleared(p))
      BY <2>3, <3>3, <3>4, DeleteFileConsistent
    <3>6. Retires(db, Cleared(p))
      BY <2>3, <2>4, <3>4, DeleteFileRetires
    <3>7. lock'[p] = "reserved"
      BY <2>2, <2>5
    <3> QED  BY <2>1, <2>2, <3>1, <3>5, <3>6, <3>7, LocalStep
  <2>6. CASE ~Deletes(p)
    <3>1. Cleared(p) = tx[p] /\ lock'[p] = lock[p]
      BY <2>2, <2>6 DEF Cleared
    <3>2. lock[p] = "shared" => tx[p] = db
      BY DEF Safe, Serialized
    <3> QED  BY <2>1, <2>2, <2>3, <2>4, <3>1, <3>2, LocalStep
  <2> QED  BY <2>5, <2>6
<1>3. ASSUME NEW p \in Proc, RecordFile(p) \/ RecordFileFails(p) PROVE Safe'
  <2> DEFINE size == Current(p).size
             path == Current(p).path
             ids == run[p].ids
  <2>1. /\ pc[p] = "write" /\ run[p].job \in Command
        /\ run[p].cursor \in DOMAIN run[p].job.entries
        /\ ids \in Allocations(tx[p], Extent(size)) /\ lock[p] # "none"
    BY <1>3 DEF RecordFile, RecordFileFails, Written, Located, Working
  <2>2. size \in Nat /\ path \in Seq(Name) \ {<<>>}
    BY <2>1, CurrentType DEF Entry
  <2>3. Hash(p) \in Content
    BY HashType
  <2>4. /\ tx[p] \in Database /\ db \in Database
        /\ Consistent(tx[p]) /\ Consistent(db) /\ Retires(db, tx[p])
    BY <2>1 DEF TypeOK, Safe, ConsistentEverywhere, RetiresInTransactions
  <2>5. /\ Recorded(p) \in Database /\ Consistent(Recorded(p))
        /\ Retires(db, Recorded(p))
    <3>1. Recorded(p) = RecordContent(tx[p], size, Hash(p), ids)
      BY DEF Recorded
    <3> HIDE DEF size, path, ids
    <3>2. Recorded(p) \in Database
      BY <2>1, <2>2, <2>3, <2>4, <3>1, ExtentType, RecordContentEffect
    <3>3. Consistent(Recorded(p))
      BY <2>1, <2>2, <2>3, <2>4, <3>1, RecordContentConsistent
    <3>4. Retires(db, Recorded(p))
      BY <2>1, <2>2, <2>3, <2>4, <3>1, RecordContentRetires
    <3> QED  BY <3>2, <3>3, <3>4
  <2>6. CASE RecordFile(p)
    <3> DEFINE e == InsertFile(Recorded(p), path, tx[p].physSeq + 1)
    <3>1. /\ CanWrite(p) /\ db' = db
          /\ tx'[p] = e /\ lock'[p] = "reserved"
          /\ \A q \in Proc \ {p} : tx'[q] = tx[q] /\ lock'[q] = lock[q]
      BY <2>6 DEF RecordFile, TypeOK
    <3>2. Consistent(e)
      <4>1. e = InsertFile(RecordContent(tx[p], size, Hash(p), ids), path, tx[p].physSeq + 1)
        BY DEF Recorded
      <4> HIDE DEF e, size, path, ids
      <4> QED  BY <2>1, <2>2, <2>3, <2>4, <4>1, StoreFileConsistent
    <3>3. Retires(db, e)
      <4>1. tx[p].physSeq + 1 \in Nat
        BY <2>4 DEF Database
      <4>2. OnlyLists(Recorded(p), e, tx[p].physSeq + 1)
        BY <2>2, <2>5, <4>1, InsertFileEffect
      <4> HIDE DEF e
      <4> QED  BY <2>5, <4>2 DEF OnlyLists, Retires
    <3> HIDE DEF e
    <3> QED  BY <3>1, <3>2, <3>3, LocalStep
  <2>7. CASE GiveUp(p)
    BY <2>7, GiveUpSafe
  <2>8. CASE /\ CanWrite(p) /\ db' = db
             /\ tx' = [tx EXCEPT ![p] = Recorded(p)]
             /\ lock' = [lock EXCEPT ![p] = "reserved"]
    <3>1. /\ tx'[p] = Recorded(p) /\ lock'[p] = "reserved"
          /\ \A q \in Proc \ {p} : tx'[q] = tx[q] /\ lock'[q] = lock[q]
      BY <2>8 DEF TypeOK
    <3> QED  BY <2>5, <2>8, <3>1, LocalStep
  <2> QED  BY <1>3, <2>6, <2>7, <2>8 DEF RecordFileFails
<1>4. ASSUME NEW p \in Proc, Begin(p) PROVE Safe'
  <2>1. /\ db' = db /\ tx'[p] = db /\ lock'[p] = "shared"
        /\ \A q \in Proc \ {p} : tx'[q] = tx[q] /\ lock'[q] = lock[q]
    BY <1>4 DEF Begin, TypeOK
  <2>2. Consistent(db) /\ Retires(db, db)
    BY RetiresNothing DEF TypeOK, Safe, ConsistentEverywhere
  <2> QED  BY <2>1, <2>2, LocalStep DEF Writing
<1>5. ASSUME NEW p \in Proc, Commit(p) PROVE Safe'
  <2>1. CASE lock[p] \notin Writing
    BY <1>5, <2>1, RollBackSafe DEF Commit
  <2>2. CASE lock[p] \in Writing
    <3>1. /\ db' = tx[p] /\ tx'[p] = NewPool /\ lock'[p] = "none"
          /\ \A q \in Proc \ {p} : lock'[q] = "none" /\ tx'[q] = tx[q]
      BY <1>5, <2>2 DEF Commit, Exit, CanCommit, TypeOK
    <3>2. \A q \in Proc : lock'[q] = "none"
      BY <3>1
    <3>3. Serialized' /\ RetiresInTransactions'
      BY <3>2 DEF Serialized, RetiresInTransactions, Writing
    <3>4. \A q \in Proc : Consistent(tx[q])
      BY DEF Safe, ConsistentEverywhere
    <3>5. \A q \in Proc : Consistent(tx'[q])
      BY <3>1, <3>4, NewPoolConsistent
    <3>6. Consistent(db')
      BY <3>1, <3>4
    <3>7. ConsistentEverywhere'
      BY <3>5, <3>6 DEF ConsistentEverywhere, Consistent, BackedIn, Ids, OneListing
    <3> QED  BY <3>3, <3>7 DEF Safe
  <2> QED  BY <2>1, <2>2
<1>6. ASSUME NEW p \in Proc, AwaitReaders(p) PROVE Safe'
  <2>1. /\ db' = db /\ tx' = tx /\ lock[p] = "reserved" /\ lock'[p] = "pending"
        /\ \A q \in Proc \ {p} : lock'[q] = lock[q]
    BY <1>6 DEF AwaitReaders, TypeOK
  <2>2. Consistent(tx[p]) /\ Retires(db, tx[p])
    BY <2>1 DEF Safe, ConsistentEverywhere, RetiresInTransactions
  <2> QED  BY <2>1, <2>2, LocalStep DEF Writing
<1>7. ASSUME NEW p \in Proc,
             \/ Start(p) \/ LookUp(p) \/ WriteSuperblock(p) \/ Finish(p)
             \/ LookUpRefuses(p) \/ BeginRefuses(p)
             \/ MakeDirectoryFails(p) \/ AllocateFails(p)
             \/ Timeout(p) \/ Fault(p) \/ Crash(p)
      PROVE  Safe'
  <2>1. UNCHANGED <<db, lock, tx>> \/ GiveUp(p) \/ (Exit(p) /\ db' = db)
    BY <1>7 DEF Start, LookUp, WriteSuperblock, Finish, LookUpRefuses, BeginRefuses,
                MakeDirectoryFails, AllocateFails, Timeout, Fault, Crash, RollBack
  <2> QED  BY <1>0, <2>1, GiveUpSafe, RollBackSafe
<1>8. CASE UNCHANGED vars
  BY <1>0, <1>8 DEF vars
<1> QED  BY <1>1, <1>2, <1>3, <1>4, <1>5, <1>6, <1>7, <1>8 DEF Next, Step

LEMMA AlwaysSafe == Spec => [](TypeOK /\ Located /\ Safe)
<1>1. Init => TypeOK /\ Located /\ Safe
  BY TypeInit, SafeInit
<1>2. TypeOK /\ Located /\ Safe /\ [Next]_vars => (TypeOK /\ Located /\ Safe)'
  BY TypeStep, SafeStep
<1> QED  BY <1>1, <1>2, PTL DEF Spec

(* At most one transaction has written, and every other one still sees the *)
(* committed database, whatever fails and however many commands run.       *)
THEOREM SerializedAlways == Spec => []Serialized
<1>1. TypeOK /\ Located /\ Safe => Serialized
  BY DEF Safe
<1> QED  BY <1>1, AlwaysSafe, PTL

(* The committed database never has a file with superblocks missing, extra *)
(* or twice, or a superblock of a file that is not there.                  *)
THEOREM BackedAlways == Spec => []Backed
<1>1. TypeOK /\ Located /\ Safe => Backed
  BY DEF Safe, ConsistentEverywhere, Consistent, Backed
<1> QED  BY <1>1, AlwaysSafe, PTL

(* No step writes to a superblock of a file that stays: only to one that   *)
(* is free, or whose file the writing command has removed.                 *)
THEOREM StoringSpares == Spec => WritesOnlySpare
<1> DEFINE Spares ==
      \A s \in Superblock :
        disk'[s] # disk[s] => \E p \in Proc : Unwritten(p) /\ Target(p) = s /\ Spare(p, s)
<1>1. TypeOK /\ Located /\ Safe /\ [Next]_vars => [Spares]_vars
  <2> SUFFICES ASSUME TypeOK, Located, Safe, [Next]_vars,
                      NEW s \in Superblock, disk'[s] # disk[s]
               PROVE  \E p \in Proc : Unwritten(p) /\ Target(p) = s /\ Spare(p, s)
    OBVIOUS
  <2>1. PICK p \in Proc : WriteSuperblock(p) \/ Fault(p) \/ Crash(p)
    BY DEF Next, Step, Start, LookUp, LookUpRefuses, Begin, BeginRefuses, MakeDirectory,
           MakeDirectoryFails, Allocate, AllocateFails, RecordFile, RecordFileFails,
           Finish, Commit, AwaitReaders, Timeout, vars
  <2>2. Unwritten(p) /\ \E v : disk' = [disk EXCEPT ![Target(p)] = v]
    BY <2>1 DEF WriteSuperblock, Fault, Crash, MayTear
  <2>3. Target(p) = s
    BY <2>2 DEF TypeOK
  <2>4. lock[p] # "none" /\ run[p].ids \in Allocations(tx[p], Extent(Current(p).size))
    BY <2>2 DEF Unwritten, Located, Working
  <2>5. run[p].written \in Nat /\ run[p].written + 1 \in DOMAIN run[p].ids
    BY <2>2 DEF Unwritten, TypeOK, RunType
  <2>6. tx[p].owner[s] = NULL
    BY <2>3, <2>4, <2>5 DEF Target, Allocations, Free
  <2>7. CASE lock[p] = "shared"
    BY <2>2, <2>3, <2>6, <2>7 DEF Spare, Safe, Serialized
  <2>8. CASE lock[p] \in Writing
    <3>1. db.owner[s] = NULL \/ \A f \in tx[p].physical : f.id # db.owner[s]
      BY <2>4, <2>6 DEF Safe, RetiresInTransactions, Retires
    <3> QED  BY <2>2, <2>3, <2>8, <3>1 DEF Spare
  <2> QED  BY <2>4, <2>7, <2>8 DEF TypeOK
<1> QED  BY <1>1, AlwaysSafe, PTL DEF Spec, WritesOnlySpare

-----------------------------------------------------------------------------
(* Prefixes of paths.                                                      *)

LEMMA PrefixType ==
  ASSUME NEW path \in Seq(Name), NEW k \in 0..Len(path)
  PROVE  /\ Prefix(path, k) \in Seq(Name)
         /\ Len(Prefix(path, k)) = k
         /\ \A i \in 1..k : Prefix(path, k)[i] = path[i]
<1>1. \A i \in 1..k : path[i] \in Name
  OBVIOUS
<1> QED  BY <1>1, SubSeqProperties DEF Prefix

(* What is on the way to a directory is on the way to what is in it.       *)
LEMMA PrefixOfPrefix ==
  ASSUME NEW path \in Seq(Name), NEW m \in 0..Len(path), NEW k \in 0..m
  PROVE  Prefix(Prefix(path, m), k) = Prefix(path, k)
<1> DEFINE u == Prefix(path, m)
           v == Prefix(u, k)
           w == Prefix(path, k)
<1>1. u \in Seq(Name) /\ Len(u) = m /\ \A i \in 1..m : u[i] = path[i]
  BY PrefixType
<1>2. k \in 0..Len(path) /\ k \in 0..Len(u)
  BY <1>1
<1> HIDE DEF u
<1>3. v \in Seq(Name) /\ Len(v) = k /\ \A i \in 1..k : v[i] = u[i]
  BY <1>1, <1>2, PrefixType
<1>4. w \in Seq(Name) /\ Len(w) = k /\ \A i \in 1..k : w[i] = path[i]
  BY <1>2, PrefixType
<1> HIDE DEF v, w
<1>5. v = w
  BY <1>1, <1>3, <1>4
<1> QED  BY <1>5 DEF u, v, w

LEMMA ShortPrefix ==
  ASSUME NEW path, NEW k \in Int, k < 1 PROVE Prefix(path, k) = <<>>
BY SubSeqEmpty DEF Prefix

-----------------------------------------------------------------------------
(* The rows that the operators on databases add and remove.                *)

(* The root is there, and every directory above something that is there.   *)
TreeIn(d) ==
  /\ RootRow \in d.fs
  /\ \A r \in d.fs : \A k \in Way(r.path) :
       \E q \in d.fs : q.isDir /\ q.path = Prefix(r.path, k)
UniqueIn(d) == \A r, q \in d.fs : r.path = q.path => r = q

(* ensure_path adds one row for each directory that is missing.            *)
LEMMA EnsurePathRows ==
  ASSUME NEW d \in Database, NEW path
  PROVE  EnsurePath(d, path).fs = d.fs \cup NewDirs(d, path)
BY DEF EnsurePath, Database

LEMMA NewDirsRows ==
  ASSUME NEW d, NEW path \in Seq(Name)
  PROVE  /\ Missing(d, path) \subseteq 1..Len(path)-1
         /\ \A k \in Missing(d, path) : \E r \in NewDirs(d, path) :
              r.isDir /\ r.path = Prefix(path, k)
         /\ \A r \in NewDirs(d, path) : \E k \in Missing(d, path) :
              r.isDir /\ r.path = Prefix(path, k) /\ Len(r.path) = k
         /\ \A r, q \in NewDirs(d, path) : r.path = q.path => r = q
<1> DEFINE Dir(k) == [id |-> d.fsSeq + Cardinality(Missing(d, path) \cap 1..k),
                      path |-> Prefix(path, k), isDir |-> TRUE, file |-> NULL]
<1>1. Missing(d, path) \subseteq 1..Len(path)-1
  BY DEF Missing, Way
<1>2. NewDirs(d, path) = {Dir(k) : k \in Missing(d, path)}
  BY DEF NewDirs
<1>3. \A k \in Missing(d, path) :
        Dir(k).isDir /\ Dir(k).path = Prefix(path, k) /\ Len(Prefix(path, k)) = k
  BY <1>1, PrefixType
<1> HIDE DEF Dir
<1>4. \A r \in NewDirs(d, path) : \E k \in Missing(d, path) : r = Dir(k)
  BY <1>2
<1> QED  BY <1>1, <1>2, <1>3, <1>4

(* Two databases with the same rows answer a lookup in the same way.       *)
LEMMA SameRows ==
  ASSUME NEW d, NEW e, d.fs = e.fs, NEW path
  PROVE  /\ Blocked(d, path) <=> Blocked(e, path)
         /\ FileExists(d, path) <=> FileExists(e, path)
         /\ TreeIn(d) <=> TreeIn(e)
         /\ UniqueIn(d) <=> UniqueIn(e)
BY DEF Blocked, FileExists, Rows, TreeIn, UniqueIn

(* After ensure_path, every directory on the way is there.                 *)
LEMMA WayIsThere ==
  ASSUME NEW d \in Database, NEW path \in Seq(Name) \ {<<>>}, ~Blocked(d, path),
         NEW k \in Way(path)
  PROVE  \E q \in EnsurePath(d, path).fs : q.isDir /\ q.path = Prefix(path, k)
<1> DEFINE rows == Rows(d, Prefix(path, k))
<1>1. CASE rows = {}
  <2>1. k \in Missing(d, path)
    BY <1>1 DEF Missing
  <2> QED  BY <2>1, NewDirsRows, EnsurePathRows
<1>2. CASE rows # {}
  <2>1. \A r \in rows : r \in d.fs /\ r.id \in Nat /\ r.path = Prefix(path, k)
    BY DEF Rows, Database, FsRow
  <2>2. First(rows) \in rows
    BY <1>2, <2>1, FirstIsRow
  <2>3. First(rows).isDir
    BY <1>2 DEF Blocked
  <2> QED  BY <2>1, <2>2, <2>3, EnsurePathRows
<1> QED  BY <1>1, <1>2

(* Making directories leaves a tree, and no path twice.                    *)
LEMMA EnsurePathTree ==
  ASSUME NEW d \in Database, TreeIn(d), NEW path \in Seq(Name) \ {<<>>}, ~Blocked(d, path)
  PROVE  TreeIn(EnsurePath(d, path))
<1> DEFINE e == EnsurePath(d, path)
<1>1. e.fs = d.fs \cup NewDirs(d, path)
  BY EnsurePathRows
<1>2. ASSUME NEW r \in NewDirs(d, path), NEW k \in Way(r.path)
      PROVE  \E q \in e.fs : q.isDir /\ q.path = Prefix(r.path, k)
  <2>1. PICK m \in 1..Len(path)-1 : r.path = Prefix(path, m) /\ Len(r.path) = m
    BY NewDirsRows
  <2>2. k \in 0..m /\ m \in 0..Len(path) /\ k \in Way(path)
    BY <2>1 DEF Way
  <2>3. PICK q \in e.fs : q.isDir /\ q.path = Prefix(path, k)
    BY <2>2, WayIsThere
  <2>4. Prefix(r.path, k) = Prefix(path, k)
    BY <2>1, <2>2, PrefixOfPrefix
  <2> QED  BY <2>3, <2>4
<1> HIDE DEF e
<1>3. TreeIn(e)
  BY <1>1, <1>2 DEF TreeIn
<1> QED  BY <1>3 DEF e

LEMMA EnsurePathUnique ==
  ASSUME NEW d \in Database, UniqueIn(d), NEW path \in Seq(Name) \ {<<>>}
  PROVE  UniqueIn(EnsurePath(d, path))
<1> DEFINE e == EnsurePath(d, path)
<1>1. e.fs = d.fs \cup NewDirs(d, path)
  BY EnsurePathRows
<1>2. ASSUME NEW r \in NewDirs(d, path), NEW q \in d.fs PROVE r.path # q.path
  <2>1. PICK k \in Missing(d, path) : r.path = Prefix(path, k)
    BY NewDirsRows
  <2> QED  BY <2>1 DEF Missing, Rows
<1>3. \A r, q \in NewDirs(d, path) : r.path = q.path => r = q
  BY NewDirsRows
<1> HIDE DEF e
<1>4. UniqueIn(e)
  BY <1>1, <1>2, <1>3 DEF UniqueIn
<1> QED  BY <1>4 DEF e

(* Listing a file.                                                         *)
LEMMA InsertFileRows ==
  ASSUME NEW d \in Database, NEW path \in Seq(Name) \ {<<>>}, NEW file
  PROVE  InsertFile(d, path, file).fs =
           EnsurePath(d, path).fs \cup {[id |-> EnsurePath(d, path).fsSeq + 1, path |-> path,
                                        isDir |-> FALSE, file |-> file]}
<1> DEFINE u == EnsurePath(d, path)
           row == [id |-> u.fsSeq + 1, path |-> path, isDir |-> FALSE, file |-> file]
           e == InsertFile(d, path, file)
           n == u.fsSeq + 1
           fs == u.fs \cup {row}
<1>1. u \in Database
  BY EnsurePathType
<1>2. e = [u EXCEPT !.fs = fs, !.fsSeq = n]
  BY DEF InsertFile
<1> HIDE DEF u, e, n, fs, row
<1>3. e.fs = fs
  BY <1>1, <1>2 DEF Database
<1> QED  BY <1>3 DEF u, e, fs, row

LEMMA InsertFileTree ==
  ASSUME NEW d \in Database, TreeIn(d), NEW path \in Seq(Name) \ {<<>>}, ~Blocked(d, path),
         NEW file
  PROVE  TreeIn(InsertFile(d, path, file))
<1> DEFINE u == EnsurePath(d, path)
           e == InsertFile(d, path, file)
           row == [id |-> u.fsSeq + 1, path |-> path, isDir |-> FALSE, file |-> file]
<1>1. row.path = path /\ e.fs = u.fs \cup {row}
  BY InsertFileRows
<1>2. TreeIn(u)
  BY EnsurePathTree
<1>3. \A k \in Way(path) : \E q \in u.fs : q.isDir /\ q.path = Prefix(path, k)
  BY WayIsThere
<1> HIDE DEF u, e, row
<1>4. TreeIn(e)
  BY <1>1, <1>2, <1>3 DEF TreeIn
<1> QED  BY <1>4 DEF e

LEMMA InsertFileUnique ==
  ASSUME NEW d \in Database, UniqueIn(d), NEW path \in Seq(Name) \ {<<>>},
         ~FileExists(d, path), NEW file
  PROVE  UniqueIn(InsertFile(d, path, file))
<1> DEFINE u == EnsurePath(d, path)
           e == InsertFile(d, path, file)
           row == [id |-> u.fsSeq + 1, path |-> path, isDir |-> FALSE, file |-> file]
<1>1. row.path = path /\ e.fs = u.fs \cup {row}
  BY InsertFileRows
<1>2. UniqueIn(u)
  BY EnsurePathUnique
<1>3. ASSUME NEW r \in u.fs PROVE r.path # path
  <2>1. CASE r \in d.fs
    BY <2>1 DEF FileExists, Rows
  <2>2. CASE r \in NewDirs(d, path)
    <3>1. PICK k \in 1..Len(path)-1 : Len(r.path) = k
      BY <2>2, NewDirsRows
    <3> QED  BY <3>1
  <2> QED  BY <2>1, <2>2, EnsurePathRows
<1> HIDE DEF u, e, row
<1>4. UniqueIn(e)
  BY <1>1, <1>2, <1>3 DEF UniqueIn
<1> QED  BY <1>4 DEF e

(* Deleting a file: only its own row goes, which is no directory.          *)
LEMMA DeleteFileTree ==
  ASSUME NEW d \in Database, TreeIn(d), NEW row, ~row.isDir
  PROVE  TreeIn(DeleteFile(d, row))
<1> DEFINE e == DeleteFile(d, row)
<1>1. e.fs = d.fs \ {row}
  BY DeleteFileEffect
<1>2. RootRow # row
  BY DEF RootRow
<1> HIDE DEF e
<1>3. TreeIn(e)
  BY <1>1, <1>2 DEF TreeIn
<1> QED  BY <1>3 DEF e

LEMMA DeleteFileUnique ==
  ASSUME NEW d \in Database, UniqueIn(d), NEW row
  PROVE  UniqueIn(DeleteFile(d, row))
<1> DEFINE e == DeleteFile(d, row)
<1>1. e.fs = d.fs \ {row}
  BY DeleteFileEffect
<1> HIDE DEF e
<1>2. UniqueIn(e)
  BY <1>1 DEF UniqueIn
<1> QED  BY <1>2 DEF e

-----------------------------------------------------------------------------
(* The tree.                                                               *)

(* The deletion that Allocate makes is of a file.                          *)
LEMMA ClearedFile ==
  ASSUME TypeOK, NEW p \in Proc, ~CannotStore(p), Deletes(p)
  PROVE  LET row == First(Rows(tx[p], Current(p).path))
         IN  /\ row \in Rows(tx[p], Current(p).path) /\ ~row.isDir
             /\ Cleared(p) = DeleteFile(tx[p], row)
<1> DEFINE rows == Rows(tx[p], Current(p).path)
<1>1. rows # {} /\ ~LookupFails(tx[p], Current(p).path)
  BY DEF CannotStore, Deletes, FileExists
<1>2. \A r \in rows : r.id \in Nat
  BY DEF TypeOK, Rows, Database, FsRow
<1>3. First(rows) \in rows
  BY <1>1, <1>2, FirstIsRow
<1>4. ~First(rows).isDir
  BY <1>1 DEF LookupFails, FileExists
<1> QED  BY <1>3, <1>4 DEF Cleared

(* commit_file_with_tx up to ensure_path changes no row.                   *)
LEMMA RecordedRows ==
  ASSUME TypeOK, Located, NEW p \in Proc, pc[p] = "write"
  PROVE  /\ Recorded(p) \in Database /\ Recorded(p).fs = tx[p].fs
         /\ Current(p).path \in Seq(Name) \ {<<>>}
<1>1. /\ run[p].job \in Command
      /\ run[p].cursor \in DOMAIN run[p].job.entries
      /\ run[p].ids \in Allocations(tx[p], Extent(Current(p).size))
  BY DEF Located
<1>2. Current(p).path \in Seq(Name) \ {<<>>} /\ Current(p).size \in Nat
  BY <1>1, CurrentType DEF Entry
<1>3. tx[p] \in Database /\ Hash(p) \in Content
  BY HashType DEF TypeOK
<1>4. Extent(Current(p).size) \in Nat
  BY <1>2, ExtentType
<1>5. Recorded(p) = RecordContent(tx[p], Current(p).size, Hash(p), run[p].ids)
  BY DEF Recorded
<1>6. Recorded(p) \in Database /\ Recorded(p).fs = tx[p].fs
  BY <1>1, <1>2, <1>3, <1>4, <1>5, RecordContentEffect
<1> QED  BY <1>2, <1>6

Rooted == TreeIn(db) /\ \A p \in Proc : TreeIn(tx[p])

LEMMA NewPoolTree == TreeIn(NewPool) /\ UniqueIn(NewPool)
<1>1. NewPool.fs = {RootRow} /\ Way(RootRow.path) = {}
  BY DEF NewPool, RootRow, Way
<1> QED  BY <1>1 DEF TreeIn, UniqueIn

LEMMA RootedInit == Init => Rooted
BY NewPoolTree DEF Init, Rooted

LEMMA RootedStep == TypeOK /\ Located /\ Rooted /\ [Next]_vars => Rooted'
<1> SUFFICES ASSUME TypeOK, Located, Rooted, [Next]_vars PROVE Rooted'
  OBVIOUS
<1>0. ASSUME db' = db, NEW p \in Proc, \A q \in Proc \ {p} : tx'[q] = tx[q], TreeIn(tx'[p])
      PROVE  Rooted'
  BY <1>0 DEF Rooted, TreeIn
<1>1. CASE UNCHANGED <<db, tx>>
  BY <1>1 DEF Rooted, TreeIn
<1>2. ASSUME NEW p \in Proc, Exit(p), db' = db PROVE Rooted'
  BY <1>0, <1>2, NewPoolTree DEF Exit, TypeOK
<1>3. ASSUME NEW p \in Proc, GiveUp(p) PROVE Rooted'
  BY <1>1, <1>2, <1>3 DEF GiveUp, RollBack
<1>4. ASSUME NEW p \in Proc, MakeDirectory(p) PROVE Rooted'
  <2>1. HasEntry(p) /\ ~Blocked(tx[p], Current(p).path) /\ db' = db
        /\ tx' = [tx EXCEPT ![p] = EnsurePath(tx[p], Current(p).path)]
    BY <1>4 DEF MakeDirectory
  <2>2. TreeIn(EnsurePath(tx[p], Current(p).path))
    BY <2>1, EntryAtHand, EnsurePathTree DEF TypeOK, Rooted
  <2> QED  BY <1>0, <2>1, <2>2 DEF TypeOK
<1>5. ASSUME NEW p \in Proc, Allocate(p) PROVE Rooted'
  <2>1. ~CannotStore(p) /\ db' = db /\ tx' = [tx EXCEPT ![p] = Cleared(p)]
    BY <1>5 DEF Allocate
  <2>2. TreeIn(Cleared(p))
    <3>1. CASE Deletes(p)
      BY <2>1, <3>1, ClearedFile, DeleteFileTree DEF TypeOK, Rooted
    <3>2. CASE ~Deletes(p)
      BY <3>2 DEF Cleared, Rooted
    <3> QED  BY <3>1, <3>2
  <2> QED  BY <1>0, <2>1, <2>2 DEF TypeOK
<1>6. ASSUME NEW p \in Proc, RecordFile(p) PROVE Rooted'
  <2> DEFINE path == Current(p).path
             file == tx[p].physSeq + 1
  <2>1. /\ pc[p] = "write" /\ ~Blocked(tx[p], path) /\ db' = db
        /\ tx' = [tx EXCEPT ![p] = InsertFile(Recorded(p), path, file)]
    BY <1>6 DEF RecordFile, Written
  <2>2. /\ Recorded(p) \in Database /\ Recorded(p).fs = tx[p].fs
        /\ path \in Seq(Name) \ {<<>>}
    BY <2>1, RecordedRows
  <2>3. TreeIn(Recorded(p)) /\ ~Blocked(Recorded(p), path)
    BY <2>1, <2>2, SameRows DEF Rooted
  <2>4. TreeIn(InsertFile(Recorded(p), path, file))
    BY <2>2, <2>3, InsertFileTree
  <2> QED  BY <1>0, <2>1, <2>4 DEF TypeOK
<1>7. ASSUME NEW p \in Proc, RecordFileFails(p) PROVE Rooted'
  <2>1. CASE GiveUp(p)
    BY <1>3, <2>1
  <2>2. CASE Written(p) /\ db' = db /\ tx' = [tx EXCEPT ![p] = Recorded(p)]
    <3>1. TreeIn(Recorded(p))
      BY <2>2, RecordedRows, SameRows DEF Rooted, Written
    <3> QED  BY <1>0, <2>2, <3>1 DEF TypeOK
  <2> QED  BY <1>7, <2>1, <2>2 DEF RecordFileFails
<1>8. ASSUME NEW p \in Proc, Begin(p) PROVE Rooted'
  BY <1>0, <1>8 DEF Begin, Rooted, TypeOK
<1>9. ASSUME NEW p \in Proc, Commit(p) PROVE Rooted'
  <2>1. TreeIn(db')
    BY <1>9 DEF Commit, Rooted
  <2>2. \A q \in Proc : TreeIn(tx'[q])
    BY <1>9, NewPoolTree DEF Commit, Exit, Rooted, TypeOK
  <2> QED  BY <2>1, <2>2 DEF Rooted, TreeIn
<1>10. ASSUME NEW p \in Proc,
              \/ Start(p) \/ LookUp(p) \/ WriteSuperblock(p) \/ Finish(p)
              \/ LookUpRefuses(p) \/ BeginRefuses(p) \/ AwaitReaders(p)
              \/ MakeDirectoryFails(p) \/ AllocateFails(p)
              \/ Timeout(p) \/ Fault(p) \/ Crash(p)
       PROVE  Rooted'
  <2>1. UNCHANGED <<db, tx>> \/ GiveUp(p) \/ (Exit(p) /\ db' = db)
    BY <1>10 DEF Start, LookUp, WriteSuperblock, Finish, LookUpRefuses, BeginRefuses,
                 AwaitReaders, MakeDirectoryFails, AllocateFails, Timeout, Fault, Crash,
                 RollBack
  <2> QED  BY <1>1, <1>2, <1>3, <2>1
<1>11. CASE UNCHANGED vars
  BY <1>1, <1>11 DEF vars
<1> QED
  BY <1>4, <1>5, <1>6, <1>7, <1>8, <1>9, <1>10, <1>11 DEF Next, Step

LEMMA AlwaysRooted == Spec => [](TypeOK /\ Located /\ Rooted)
<1>1. Init => TypeOK /\ Located /\ Rooted
  BY TypeInit, RootedInit
<1>2. TypeOK /\ Located /\ Rooted /\ [Next]_vars => (TypeOK /\ Located /\ Rooted)'
  BY TypeStep, RootedStep
<1> QED  BY <1>1, <1>2, PTL DEF Spec

(* In the committed database every row but the root's is in a directory,   *)
(* whatever fails and however many commands run at once.                   *)
THEOREM TreeAlways == Spec => []Tree
<1>1. TypeOK /\ Located /\ Rooted => Tree
  <2> SUFFICES ASSUME TypeOK, Rooted, NEW r \in db.fs
               PROVE  \E q \in db.fs : q.isDir /\ q.path = Prefix(r.path, Len(r.path) - 1)
    BY DEF Tree
  <2>1. r.path \in Seq(Name)
    BY DEF TypeOK, Database, FsRow
  <2>2. CASE Len(r.path) - 1 \in Way(r.path)
    BY <2>2 DEF Rooted, TreeIn
  <2>3. CASE Len(r.path) - 1 \notin Way(r.path)
    <3>1. Len(r.path) - 1 < 1
      BY <2>1, <2>3 DEF Way
    <3>2. Prefix(r.path, Len(r.path) - 1) = <<>>
      BY <2>1, <3>1, ShortPrefix
    <3> QED  BY <3>2 DEF Rooted, TreeIn, RootRow
  <2> QED  BY <2>2, <2>3
<1> QED  BY <1>1, AlwaysRooted, PTL

-----------------------------------------------------------------------------
(* Unique paths, for commands that run one at a time.                      *)

OneAtATime == \A p, q \in Proc : p = q

(* A file that is about to be listed is not there yet: a command that did  *)
(* not look its path up in the transaction did so before, and nothing came *)
(* in between.                                                             *)
NotYetThere(p) ==
  /\ pc[p] = "write" => ~FileExists(tx[p], Current(p).path)
  /\ pc[p] = "begin" /\ CommitsOnError(p) => ~FileExists(db, Current(p).path)
  /\ HasEntry(p) /\ CommitsOnError(p) => ~FileExists(tx[p], Current(p).path)
Unrepeated ==
  /\ UniqueIn(db)
  /\ \A p \in Proc : UniqueIn(tx[p]) /\ NotYetThere(p)

LEMMA UnrepeatedInit == Init => Unrepeated
BY NewPoolTree DEF Init, Unrepeated, NotYetThere, HasEntry

(* A file command's only entry is a file, and it is the first one.         *)
LEMMA FileCommand ==
  ASSUME NEW c \in Command, c.cmd = "file"
  PROVE  Len(c.entries) = 1 /\ ~c.entries[1].isDir
BY ConstantsAssumption

LEMMA UnrepeatedStep ==
  OneAtATime /\ TypeOK /\ Located /\ Unrepeated /\ [Next]_vars => Unrepeated'
<1> SUFFICES ASSUME OneAtATime, TypeOK, Located, Unrepeated, [Next]_vars
             PROVE  Unrepeated'
  OBVIOUS
<1>0. ASSUME NEW p \in Proc, UniqueIn(db'), UniqueIn(tx'[p]), NotYetThere(p)'
      PROVE  Unrepeated'
  BY <1>0 DEF Unrepeated, OneAtATime, UniqueIn
<1>1. CASE UNCHANGED vars
  BY <1>1 DEF vars, Unrepeated, UniqueIn, NotYetThere, HasEntry, CommitsOnError, Current,
              FileExists, Rows
<1>2. ASSUME NEW p \in Proc, Exit(p), UniqueIn(db') PROVE Unrepeated'
  <2>1. UniqueIn(tx'[p])
    BY <1>2, NewPoolTree DEF Exit, TypeOK
  <2>2. NotYetThere(p)'
    BY <1>2 DEF Exit, TypeOK, NotYetThere, HasEntry
  <2> QED  BY <1>0, <1>2, <2>1, <2>2
<1>3. ASSUME NEW p \in Proc, UNCHANGED <<db, tx>>, pc'[p] \in {"commit", "abandon"}
      PROVE  Unrepeated'
  BY <1>0, <1>3 DEF Unrepeated, NotYetThere, HasEntry, UniqueIn
<1>4. ASSUME NEW p \in Proc, GiveUp(p) PROVE Unrepeated'
  BY <1>2, <1>3, <1>4 DEF GiveUp, RollBack, TypeOK, Unrepeated, UniqueIn
<1>5. ASSUME NEW p \in Proc, Start(p) PROVE Unrepeated'
  <2>1. PICK c \in Command :
          run' = [run EXCEPT ![p] = [Idle EXCEPT !.job = c, !.number = started + 1]]
          /\ pc' = [pc EXCEPT ![p] = IF c.cmd = "file" THEN "lookup" ELSE "begin"]
    BY <1>5 DEF Start
  <2>2. pc'[p] = (IF c.cmd = "file" THEN "lookup" ELSE "begin") /\ run'[p].job = c
    BY <2>1 DEF TypeOK, Idle
  <2>3. NotYetThere(p)'
    BY <2>2 DEF NotYetThere, HasEntry, CommitsOnError
  <2>4. UniqueIn(db') /\ UniqueIn(tx'[p])
    BY <1>5 DEF Start, Unrepeated
  <2> QED  BY <1>0, <2>3, <2>4
<1>6. ASSUME NEW p \in Proc, LookUp(p) PROVE Unrepeated'
  <2>1. /\ db' = db /\ tx' = tx /\ pc'[p] = "begin"
        /\ run'[p] = [run[p] EXCEPT !.replacing = FileExists(db, Current(p).path)]
    BY <1>6 DEF LookUp, TypeOK
  <2>2. run'[p].job = run[p].job /\ run'[p].cursor = run[p].cursor
        /\ run'[p].replacing = FileExists(db, Current(p).path)
    BY <2>1 DEF TypeOK, RunType
  <2>3. NotYetThere(p)'
    BY <2>1, <2>2 DEF NotYetThere, HasEntry, CommitsOnError, Current
  <2> QED  BY <1>0, <2>1, <2>3 DEF Unrepeated
<1>7. ASSUME NEW p \in Proc, Begin(p) PROVE Unrepeated'
  <2>1. db' = db /\ run' = run /\ pc[p] = "begin" /\ pc'[p] = "entry" /\ tx'[p] = db
    BY <1>7 DEF Begin, TypeOK
  <2>2. NotYetThere(p)'
    BY <2>1 DEF Unrepeated, NotYetThere, HasEntry, CommitsOnError, Current
  <2> QED  BY <1>0, <2>1, <2>2 DEF Unrepeated
<1>8. ASSUME NEW p \in Proc, MakeDirectory(p) PROVE Unrepeated'
  <2>1. /\ HasEntry(p) /\ Current(p).isDir /\ db' = db /\ pc' = pc
        /\ tx'[p] = EnsurePath(tx[p], Current(p).path)
    BY <1>8 DEF MakeDirectory, TypeOK
  <2>2. UniqueIn(tx'[p])
    BY <2>1, EntryAtHand, EnsurePathUnique DEF TypeOK, Unrepeated
  <2>3. run'[p].job = run[p].job /\ pc'[p] = "entry"
    BY <1>8, <2>1 DEF MakeDirectory, HasEntry, TypeOK, RunType
  <2>4. run[p].job.cmd # "file"
    BY <2>1, EntryAtHand, FileCommand DEF Current
  <2>5. NotYetThere(p)'
    BY <2>3, <2>4 DEF NotYetThere, HasEntry, CommitsOnError
  <2> QED  BY <1>0, <2>1, <2>2, <2>5 DEF Unrepeated
<1>9. ASSUME NEW p \in Proc, Allocate(p) PROVE Unrepeated'
  <2> DEFINE path == Current(p).path
  <2>1. /\ HasEntry(p) /\ ~CannotStore(p) /\ db' = db /\ pc'[p] = "write"
        /\ tx'[p] = Cleared(p)
    BY <1>9 DEF Allocate, TypeOK
  <2>2. PICK ids : run'[p] = [run[p] EXCEPT !.ids = ids]
    BY <1>9 DEF Allocate, TypeOK
  <2>3. run'[p].job = run[p].job /\ run'[p].cursor = run[p].cursor
    BY <2>2 DEF TypeOK, RunType
  <2>4. UniqueIn(Cleared(p)) /\ ~FileExists(Cleared(p), path)
    <3>1. CASE Deletes(p)
      <4> DEFINE row == First(Rows(tx[p], path))
      <4>1. row \in Rows(tx[p], path) /\ Cleared(p) = DeleteFile(tx[p], row)
        BY <2>1, <3>1, ClearedFile
      <4>2. tx[p] \in Database /\ UniqueIn(tx[p])
        BY DEF TypeOK, Unrepeated
      <4>3. UniqueIn(Cleared(p))
        BY <4>1, <4>2, DeleteFileUnique
      <4>4. Cleared(p).fs = tx[p].fs \ {row}
        <5> HIDE DEF row, path
        <5>1. DeleteFile(tx[p], row).fs = tx[p].fs \ {row}
          BY <4>2, DeleteFileEffect
        <5> QED  BY <4>1, <5>1
      <4>5. \A r \in Cleared(p).fs : r.path # path
        <5>1. row \in tx[p].fs /\ row.path = path
          BY <4>1 DEF Rows
        <5> HIDE DEF row, path
        <5> QED  BY <4>2, <4>4, <5>1 DEF UniqueIn
      <4>6. ~FileExists(Cleared(p), path)
        BY <4>5 DEF FileExists, Rows
      <4> QED  BY <4>3, <4>6
    <3>2. CASE ~Deletes(p)
      <4>1. Cleared(p) = tx[p]
        BY <3>2 DEF Cleared
      <4>2. ~FileExists(tx[p], path)
        BY <2>1, <3>2 DEF Deletes, LooksUp, Unrepeated, NotYetThere
      <4> QED  BY <4>1, <4>2 DEF Unrepeated
    <3> QED  BY <3>1, <3>2
  <2>5. NotYetThere(p)'
    BY <2>1, <2>3, <2>4 DEF NotYetThere, HasEntry, Current
  <2> QED  BY <1>0, <2>1, <2>4, <2>5 DEF Unrepeated
<1>10. ASSUME NEW p \in Proc, WriteSuperblock(p) PROVE Unrepeated'
  <2>1. db' = db /\ tx' = tx /\ pc' = pc /\ pc[p] = "write"
    BY <1>10 DEF WriteSuperblock, Unwritten
  <2>2. run'[p].job = run[p].job /\ run'[p].cursor = run[p].cursor
    BY <1>10 DEF WriteSuperblock, TypeOK, RunType
  <2>3. NotYetThere(p)'
    BY <2>1, <2>2 DEF Unrepeated, NotYetThere, HasEntry, Current
  <2> QED  BY <1>0, <2>1, <2>3 DEF Unrepeated
<1>11. ASSUME NEW p \in Proc, RecordFile(p) PROVE Unrepeated'
  <2> DEFINE path == Current(p).path
             file == tx[p].physSeq + 1
  <2>1. /\ pc[p] = "write" /\ db' = db /\ pc'[p] = "entry"
        /\ tx'[p] = InsertFile(Recorded(p), path, file)
        /\ run'[p] = [run[p] EXCEPT !.cursor = @ + 1, !.ids = <<>>, !.written = 0]
    BY <1>11 DEF RecordFile, Written, TypeOK
  <2>2. /\ Recorded(p) \in Database /\ Recorded(p).fs = tx[p].fs
        /\ path \in Seq(Name) \ {<<>>}
    BY <2>1, RecordedRows
  <2>3. UniqueIn(Recorded(p)) /\ ~FileExists(Recorded(p), path)
    BY <2>1, <2>2, SameRows DEF Unrepeated, NotYetThere
  <2>4. UniqueIn(tx'[p])
    BY <2>1, <2>2, <2>3, InsertFileUnique
  <2>5. run'[p].job = run[p].job /\ run'[p].cursor = run[p].cursor + 1
    BY <2>1 DEF TypeOK, RunType
  <2>6. run[p].job \in Command /\ run[p].cursor \in Nat \ {0}
    BY <2>1 DEF Located, TypeOK, RunType
  <2>7. ASSUME HasEntry(p)' PROVE run[p].job.cmd # "file"
    <3>1. run[p].cursor + 1 <= Len(run[p].job.entries)
      BY <2>5, <2>7 DEF HasEntry
    <3>2. run[p].job.cmd = "file" => Len(run[p].job.entries) = 1
      BY <2>6, FileCommand
    <3>3. ~(run[p].cursor + 1 <= 1)
      BY <2>6
    <3> QED  BY <3>1, <3>2, <3>3
  <2>8. NotYetThere(p)'
    BY <2>1, <2>5, <2>7 DEF NotYetThere, CommitsOnError
  <2> QED  BY <1>0, <2>1, <2>4, <2>8 DEF Unrepeated
<1>12. ASSUME NEW p \in Proc, RecordFileFails(p) PROVE Unrepeated'
  <2>1. CASE GiveUp(p)
    BY <1>4, <2>1
  <2>2. CASE /\ Written(p) /\ db' = db /\ pc'[p] = "abandon" /\ tx'[p] = Recorded(p)
    <3>1. UniqueIn(Recorded(p))
      BY <2>2, RecordedRows, SameRows DEF Unrepeated, Written
    <3>2. NotYetThere(p)'
      BY <2>2 DEF NotYetThere, HasEntry
    <3> QED  BY <1>0, <2>2, <3>1, <3>2 DEF Unrepeated
  <2> QED  BY <1>12, <2>1, <2>2 DEF RecordFileFails, TypeOK
<1>13. ASSUME NEW p \in Proc, Finish(p) PROVE Unrepeated'
  BY <1>3, <1>13 DEF Finish, TypeOK
<1>14. ASSUME NEW p \in Proc, AwaitReaders(p) PROVE Unrepeated'
  BY <1>3, <1>14 DEF AwaitReaders, AtCommit
<1>15. ASSUME NEW p \in Proc, Commit(p) PROVE Unrepeated'
  BY <1>2, <1>15 DEF Commit, Unrepeated
<1>16. ASSUME NEW p \in Proc,
              \/ LookUpRefuses(p) \/ BeginRefuses(p)
              \/ MakeDirectoryFails(p) \/ AllocateFails(p)
              \/ Timeout(p) \/ Fault(p) \/ Crash(p)
       PROVE  Unrepeated'
  <2>1. GiveUp(p) \/ (Exit(p) /\ db' = db)
    BY <1>16 DEF LookUpRefuses, BeginRefuses, MakeDirectoryFails, AllocateFails, Timeout,
                 Fault, Crash, RollBack
  <2> QED  BY <1>2, <1>4, <2>1 DEF Unrepeated
<1> QED
  BY <1>1, <1>5, <1>6, <1>7, <1>8, <1>9, <1>10, <1>11, <1>12, <1>13, <1>14, <1>15, <1>16
  DEF Next, Step

(* As long as commands run one at a time, no two rows have the same path,  *)
(* whatever fails in between: the lookup of add_file, which is outside the *)
(* transaction that adds, needs no other protection then.                  *)
THEOREM UniquePathsAlone ==
  ASSUME OneAtATime PROVE Spec => []UniquePaths
<1>1. Init => TypeOK /\ Located /\ Unrepeated
  BY TypeInit, UnrepeatedInit
<1>2. TypeOK /\ Located /\ Unrepeated /\ [Next]_vars => (TypeOK /\ Located /\ Unrepeated)'
  BY TypeStep, UnrepeatedStep
<1>3. TypeOK /\ Located /\ Unrepeated => UniquePaths
  BY DEF Unrepeated, UniqueIn, UniquePaths
<1> QED  BY <1>1, <1>2, <1>3, PTL DEF Spec

===============================================================================
