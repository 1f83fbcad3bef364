---------------------------- MODULE MCPoolCreate ----------------------------
EXTENDS PoolCreate, TLC

(* Processes, disks and inodes differ in nothing but their names.          *)
AnyNames == Permutations(Proc) \cup Permutations(Disk) \cup Permutations(File)
=============================================================================
