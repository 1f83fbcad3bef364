------------------------------ MODULE FileStore ------------------------------
(***************************************************************************)
(* What the pool promises to its user, with no database, no superblocks    *)
(* and no disks: a map from paths to the contents last stored under them.  *)
(* A command of the tool (add-file or add-directory) either takes effect   *)
(* at once and for all of its files, or has no effect at all.  A command   *)
(* that was not given --force takes effect only where nothing is replaced. *)
(***************************************************************************)
EXTENDS Integers, Sequences

CONSTANTS
  Command,      \* the commands a user may give (see module Catalogue)
  MaxCommands   \* how many of them are given

VARIABLE store  \* path -> the content stored there, or Absent

NoContent == [command |-> 0, entry |-> 0]

(* The paths a command names, and those of the files it carries.           *)
Path == UNION {{c.entries[i].path : i \in DOMAIN c.entries} : c \in Command}
FileEntries(c) == {i \in DOMAIN c.entries : ~c.entries[i].isDir}

Init == store = [path \in Path |-> NoContent]

(* The n-th command takes effect.                                          *)
Perform(c, n) ==
  LET files == {c.entries[i].path : i \in FileEntries(c)}
      At(path) == CHOOSE i \in FileEntries(c) : c.entries[i].path = path
  IN  /\ ~c.force => \A path \in files : store[path] = NoContent
      /\ store' = [path \in Path |->
                     IF path \in files
                     THEN [command |-> n, entry |-> At(path)]
                     ELSE store[path]]

Next ==
  /\ store' # store
  /\ \E c \in Command, n \in 1..MaxCommands : Perform(c, n)

Spec == Init /\ [][Next]_store
=============================================================================
