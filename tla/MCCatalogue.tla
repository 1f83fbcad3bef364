----------------------------- MODULE MCCatalogue -----------------------------
(***************************************************************************)
(* Small instances of the catalogue: the commands given in each run.       *)
(***************************************************************************)
EXTENDS Catalogue, TLC

FileEntry(path, size) == [path |-> path, size |-> size, isDir |-> FALSE]
DirEntry(path) == [path |-> path, size |-> 0, isDir |-> TRUE]
AddFile(path, size, force) ==
  [cmd |-> "file", force |-> force, entries |-> <<FileEntry(path, size)>>]
AddDirectory(entries, force) ==
  [cmd |-> "directory", force |-> force, entries |-> entries]

(* Symmetric superblocks: nothing compares or orders them.                 *)
AnySuperblock == Permutations(Superblock)

(* One command at a time: files that fit in one superblock or need two,    *)
(* an empty one, a file where another command wants a directory.           *)
OneByOne ==
  {AddFile(<<"a">>, size, force) : size \in {1, 3}, force \in BOOLEAN}
  \cup {AddFile(<<"b">>, 2, TRUE), AddFile(<<"d", "a">>, 0, FALSE), AddFile(<<"d">>, 1, FALSE)}
  \cup {AddDirectory(<<FileEntry(<<"d", "a">>, 1), DirEntry(<<"d", "e">>), FileEntry(<<"a">>, 2)>>, force) :
          force \in BOOLEAN}

(* Two at a time: the same new file, a replacement, and a file under a     *)
(* path that another command takes for a file.                             *)
SideBySide ==
  {AddFile(<<"a">>, 1, FALSE), AddFile(<<"a">>, 3, TRUE), AddFile(<<"a", "b">>, 2, FALSE),
   AddDirectory(<<DirEntry(<<"d", "e">>), FileEntry(<<"d", "b">>, 1)>>, TRUE)}

(* Two plain additions at a time.                                          *)
PlainAdds == {AddFile(<<"a">>, 1, FALSE), AddFile(<<"b">>, 1, FALSE)}

(* Files added and then replaced.                                          *)
Replacements == {AddFile(<<"a">>, 1, TRUE), AddFile(<<"b">>, 1, FALSE)}

=============================================================================
