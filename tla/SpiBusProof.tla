---------------------------- MODULE SpiBusProof ----------------------------
(***************************************************************************)
(* g_mutex, for every choice of what an unlock too many and the death of   *)
(* the holder do, and for frames of any number of chunks.  HeldWhereUsed   *)
(* is inductive once it is known that DBGRECV creates a task only when     *)
(* there is none; exclusion on the bus follows, since a mutex has one      *)
(* owner.                                                                  *)
(***************************************************************************)
EXTENDS SpiBus, TLAPS

\* What an unlock leaves, whoever makes it.
LEMMA UnlockEffect ==
  ASSUME NEW t \in {"task", "console"}, TypeOK, Unlock(t)
  PROVE  /\ owner' \in Owners /\ stolen' \subseteq {"task", "console"}
         /\ owner' # t
         /\ owner' \in {owner, "none"}
         /\ stolen \ {t} \subseteq stolen'
         /\ \A u \in {"task", "console"} \ {t} :
              owner = u => owner' = u \/ u \in stolen'
<1> USE DEF TypeOK, Owners
<1>1. CASE owner = t /\ owner' = "none" /\ UNCHANGED stolen
  BY <1>1
<1>2. CASE owner # t /\ UNCHANGED owner /\ stolen' = stolen \ {t}
  BY <1>2
<1>3. CASE /\ owner # t /\ owner' = "none"
           /\ stolen' = (stolen \cup ({owner} \cap {"task", "console"})) \ {t}
  BY <1>3
<1> QED BY <1>1, <1>2, <1>3 DEF Unlock

LEMMA TypeStep == TypeOK /\ [Next]_vars => TypeOK'
<1> SUFFICES ASSUME TypeOK, [Next]_vars PROVE TypeOK'
  OBVIOUS
<1> USE MaxChunksAssumption DEF TypeOK, Owners, TaskPcs, ConsolePcs
<1>1. CASE TakeBusReq BY <1>1 DEF TakeBusReq
<1>2. CASE TaskLock BY <1>2 DEF TaskLock, Lock
<1>3. CASE Dump BY <1>3, UnlockEffect DEF Dump
<1>4. CASE ReadHeader BY <1>4 DEF ReadHeader
<1>5. CASE BadHeader BY <1>5, UnlockEffect DEF BadHeader
<1>6. CASE HeaderDone BY <1>6, UnlockEffect DEF HeaderDone
<1>7. CASE ReadChunk BY <1>7 DEF ReadChunk
<1>8. CASE NextChunk BY <1>8 DEF NextChunk
<1>9. CASE ReadTail
  <2>1. Unlock("task") BY <1>9 DEF ReadTail
  <2>2. owner' \in Owners /\ stolen' \subseteq {"task", "console"}
    BY <2>1, UnlockEffect
  <2>3. chunks' \in 0 .. MaxChunks /\ tpc' \in TaskPcs /\ cpc' \in ConsolePcs
    BY <1>9 DEF ReadTail
  <2> QED BY <2>2, <2>3
<1>10. CASE Handle
  <2>1. CASE UNCHANGED <<owner, stolen>> BY <1>10, <2>1 DEF Handle
  <2>2. CASE Unlock("task") BY <1>10, <2>2, UnlockEffect DEF Handle
  <2> QED BY <1>10, <2>1, <2>2 DEF Handle
<1>11. CASE CallWrite BY <1>11 DEF CallWrite
<1>12. CASE ConsoleLock BY <1>12 DEF ConsoleLock, Lock
<1>13. CASE WriteDone BY <1>13, UnlockEffect DEF WriteDone
<1>14. CASE DbgRecv BY <1>14 DEF DbgRecv
<1>15. CASE Restart BY <1>15 DEF Restart
<1>16. CASE UNCHANGED vars BY <1>16 DEF vars
<1> HIDE DEF TypeOK, Owners, TaskPcs, ConsolePcs
<1> QED
  BY <1>1, <1>2, <1>3, <1>4, <1>5, <1>6, <1>7, <1>8, <1>9, <1>10, <1>11, <1>12,
     <1>13, <1>14, <1>15, <1>16 DEF Next, Task, TaskLocked

\* The types of SpiBus are kept; a frame never has fewer than no chunks left.
THEOREM TypeCorrect == Spec => []TypeOK
<1>1. Init => TypeOK
  BY MaxChunksAssumption DEF Init, TypeOK, Owners, TaskPcs, ConsolePcs
<1> QED BY <1>1, TypeStep, PTL DEF Spec

\* A task that was deleted stays so until it is created again.
NoTaskToRestart == cpc = "restart" => tpc = "gone"

HeldInv == HeldWhereUsed /\ NoTaskToRestart

LEMMA HeldStep == TypeOK /\ HeldInv /\ [Next]_vars => HeldInv'
<1> SUFFICES ASSUME TypeOK, HeldInv, [Next]_vars PROVE HeldInv'
  OBVIOUS
<1> USE DEF HeldInv, NoTaskToRestart, HeldWhereUsed, HeaderTransfer
<1>1. CASE TakeBusReq BY <1>1 DEF TakeBusReq
<1>2. CASE TaskLock BY <1>2 DEF TaskLock, Lock
<1>3. CASE Dump BY <1>3, UnlockEffect DEF Dump
<1>4. CASE ReadHeader BY <1>4 DEF ReadHeader
<1>5. CASE BadHeader BY <1>5, UnlockEffect DEF BadHeader
<1>6. CASE HeaderDone BY <1>6, UnlockEffect DEF HeaderDone
<1>7. CASE ReadChunk BY <1>7 DEF ReadChunk
<1>8. CASE NextChunk BY <1>8 DEF NextChunk
<1>9. CASE ReadTail BY <1>9, UnlockEffect DEF ReadTail
<1>10. CASE Handle
  <2>1. CASE UNCHANGED <<owner, stolen>> BY <1>10, <2>1 DEF Handle
  <2>2. CASE Unlock("task") BY <1>10, <2>2, UnlockEffect DEF Handle
  <2> QED BY <1>10, <2>1, <2>2 DEF Handle
<1>11. CASE CallWrite BY <1>11 DEF CallWrite
<1>12. CASE ConsoleLock BY <1>12 DEF ConsoleLock, Lock
<1>13. CASE WriteDone BY <1>13, UnlockEffect DEF WriteDone
<1>14. CASE DbgRecv BY <1>14 DEF DbgRecv
<1>15. CASE Restart BY <1>15 DEF Restart
<1>16. CASE UNCHANGED vars BY <1>16 DEF vars
<1> HIDE DEF HeldInv, NoTaskToRestart, HeldWhereUsed, HeaderTransfer
<1> QED
  BY <1>1, <1>2, <1>3, <1>4, <1>5, <1>6, <1>7, <1>8, <1>9, <1>10, <1>11, <1>12,
     <1>13, <1>14, <1>15, <1>16 DEF Next, Task, TaskLocked

\* However many times spi_recv_task unlocks too often and whenever DBGRECV
\* deletes it, g_mutex is not left locked by one who does not use it.
THEOREM LockHeldByUser == Spec => []HeldWhereUsed
<1>1. Init => HeldInv
  BY DEF Init, HeldInv, NoTaskToRestart, HeldWhereUsed, HeaderTransfer
<1>2. HeldInv => HeldWhereUsed
  BY DEF HeldInv
<1> QED BY <1>1, <1>2, HeldStep, TypeCorrect, PTL DEF Spec

\* A header's transfer and a write overlap only after a robbery.
THEOREM BusExclusive == Spec => []HeaderExcludesWrite
<1>1. HeldWhereUsed => HeaderExcludesWrite
  BY DEF HeldWhereUsed, HeaderExcludesWrite, HeaderTransfer
<1> QED BY <1>1, LockHeldByUser, PTL
=============================================================================
