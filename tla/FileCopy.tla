------------------------------ MODULE FileCopy ------------------------------
(***************************************************************************)
(* What a file transfer command promises: from its first byte on the file  *)
(* is put on the bus without gap or repetition, and "Completed all         *)
(* transfers!!" means that all of it was.  Packets, their sizes and their  *)
(* number are no part of this.  Transfer implements it.                    *)
(***************************************************************************)
EXTENDS Naturals

CONSTANT MaxSize  \* the largest file size

VARIABLES
  goal,    \* bytes to be sent
  copied,  \* bytes sent, from the first on
  result   \* "none" while the command runs

vars == <<goal, copied, result>>

Init == goal = 0 /\ copied = 0 /\ result = "failed"

Start ==
  /\ result # "none"
  /\ goal' \in 0 .. MaxSize /\ copied' = 0 /\ result' = "none"

Copy ==
  /\ result = "none"
  /\ copied' \in copied + 1 .. goal
  /\ UNCHANGED <<goal, result>>

\* Of a transfer of nothing the command may return anything.
Finish ==
  /\ result = "none" /\ copied = goal
  /\ result' \in {"completed"} \cup IF goal = 0 THEN {"unknown"} ELSE {}
  /\ UNCHANGED <<goal, copied>>

Fail ==
  /\ result' = "failed"
  /\ UNCHANGED <<goal, copied>>

Next == Start \/ Copy \/ Finish \/ Fail

Spec == Init /\ [][Next]_vars
=============================================================================
