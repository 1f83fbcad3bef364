------------------------------ MODULE PlainFile ------------------------------
(***************************************************************************)
(* What a virtual disk with a stream over it promises: it is a plain file  *)
(* of fixed size with a cursor (the test of the crate compares it with     *)
(* one), a file whose writes take time and can fail.  No table, no blocks  *)
(* in any order, nothing to commit.                                        *)
(***************************************************************************)
EXTENDS Integers

CONSTANTS
  Size,       \* how many parts the file has
  Content,    \* what a part may contain; numbers, 0 in a new file
  Cluster(_)  \* the parts that a failed write of a part may spoil

VARIABLES
  content,   \* what a read of each part returns
  unsure,    \* the parts that a write is changing, or failed to change
  cursor,
  ruined     \* no promise is left

Part == 0..Size-1
Ahead(n) == cursor .. cursor+n-1

Init ==
  /\ content = [i \in Part |-> 0]
  /\ unsure = {}
  /\ cursor = 0
  /\ ruined = FALSE

(* Nothing but a part that is unsure changes.                              *)
ChangesOnly(parts) ==
  /\ content' \in [Part -> Content]
  /\ \A i \in Part \ parts : content'[i] = content[i]

(* A call changes what it is to change at the time of its choosing.        *)
Progress == ChangesOnly(unsure) /\ UNCHANGED <<unsure, cursor>>

Move == cursor' \in 0..Size /\ UNCHANGED <<content, unsure>>

BeginWrite(n) ==
  /\ unsure' = unsure \cup Ahead(n)
  /\ UNCHANGED <<content, cursor>>

(* The cursor has passed exactly what was written.                         *)
EndWrite(n, value) ==
  /\ Ahead(n) \subseteq unsure
  /\ ChangesOnly(Ahead(n))
  /\ \A i \in Ahead(n) : content'[i] = value
  /\ unsure' = unsure \ Ahead(n)
  /\ cursor' = cursor + n

(* The cursor stays, so that the write can be tried again.                 *)
FailWrite ==
  /\ ChangesOnly(unsure')
  /\ unsure \subseteq unsure'
  /\ unsure' \subseteq UNION {Cluster(i) : i \in unsure}
  /\ UNCHANGED cursor

(* The program ends and the file is opened anew.                           *)
Reopen == ChangesOnly(unsure) /\ cursor' = 0 /\ UNCHANGED unsure

Next ==
  \/ /\ UNCHANGED ruined
     /\ \/ Progress \/ Move \/ FailWrite \/ Reopen
        \/ \E n \in 1..Size-cursor :
             BeginWrite(n) \/ \E value \in Content : EndWrite(n, value)
  \/ ruined'

Spec == Init /\ [][Next]_<<content, unsure, cursor, ruined>>
=============================================================================
