------------------------------- MODULE SpiBus --------------------------------
(***************************************************************************)
(* The SPI bus and g_mutex (host_if_spi.c): the receive task holds it for  *)
(* the transfer of a header and releases it before it reads the rest, the  *)
(* console holds it for each write.  The task also unlocks where it does   *)
(* not hold it: twice after an invalid header, after the last chunk of     *)
(* every frame, and when it discards a response.  DBGRECV deletes the task *)
(* wherever it is and starts another.                                      *)
(*                                                                         *)
(* What a pthread mutex of NuttX does beyond its contract depends on how   *)
(* the system was configured, which the repository leaves open: an unlock  *)
(* by a task that is not the owner is refused or releases the mutex, and   *)
(* the mutex of a deleted task stays locked or becomes free.               *)
(***************************************************************************)
EXTENDS Naturals

CONSTANTS
  Unlocks,   \* subset of {"refused", "obeyed"}: the unlock of another's mutex
  Deaths,    \* subset of {"kept", "freed"}: the mutex of a deleted task
  MaxChunks  \* bound: transfers after the header that one frame takes

ASSUME UnlocksAssumption == Unlocks \subseteq {"refused", "obeyed"} /\ Unlocks # {}
ASSUME DeathsAssumption == Deaths \subseteq {"kept", "freed"} /\ Deaths # {}
ASSUME MaxChunksAssumption == MaxChunks \in Nat \ {0}

Owners == {"none", "task", "console", "dead"}

\* "wait": in sem_wait for a BUS_REQ; "lock": in LOCK; "header", "dump": in
\* the transfer made under the lock; "bad": after an invalid header; "data":
\* in the transfer of a chunk; "more": in sem_wait for the next; "checked": the
\* frame is read.
TaskPcs == {"wait", "lock", "header", "dump", "bad", "unlock", "data", "more",
            "checked", "gone"}

ConsolePcs == {"idle", "lock", "write", "restart"}

VARIABLES
  owner,    \* who holds g_mutex; "dead" is a deleted task
  tpc,      \* where the receive task is
  chunks,   \* transfers the task still makes for the frame
  cpc,      \* where the console is
  stolen    \* ghost: who is still using the mutex another has unlocked

vars == <<owner, tpc, chunks, cpc, stolen>>

TypeOK ==
  /\ owner \in Owners
  /\ tpc \in TaskPcs
  /\ chunks \in 0 .. MaxChunks
  /\ cpc \in ConsolePcs
  /\ stolen \subseteq {"task", "console"}

Init ==
  /\ owner = "none" /\ tpc = "wait" /\ chunks = 0 /\ cpc = "idle"
  /\ stolen = {}

-----------------------------------------------------------------------------
(* g_mutex.                                                                *)

Lock(t) == owner = "none" /\ owner' = t /\ stolen' = stolen \ {t}

Unlock(t) ==
  \/ owner = t /\ owner' = "none" /\ UNCHANGED stolen
  \/ owner # t /\ "refused" \in Unlocks /\ UNCHANGED owner /\ stolen' = stolen \ {t}
  \/ /\ owner # t /\ "obeyed" \in Unlocks
     /\ owner' = "none"
     /\ stolen' = (stolen \cup ({owner} \cap {"task", "console"})) \ {t}

-----------------------------------------------------------------------------
(* spi_recv_task.                                                          *)

TakeBusReq ==
  /\ tpc = "wait" /\ tpc' = "lock"
  /\ UNCHANGED <<owner, chunks, cpc, stolen>>

\* Mutant: the header is read before LOCK.
TaskLockLate ==
  /\ tpc = "lock"
  /\ tpc' \in {"header", "dump"}
  /\ UNCHANGED <<owner, chunks, cpc, stolen>>

\* Debug receive mode dumps, otherwise the header is read.
TaskLock ==
  /\ tpc = "lock" /\ Lock("task")
  /\ tpc' \in {"header", "dump"}
  /\ UNCHANGED <<chunks, cpc>>

Dump ==
  /\ tpc = "dump" /\ Unlock("task")
  /\ tpc' = "wait"
  /\ UNCHANGED <<chunks, cpc>>

\* The header is read and checked; an invalid one stands for no operands.
ReadHeader ==
  /\ tpc = "header"
  /\ \/ tpc' = "bad" /\ chunks' = 1
     \/ tpc' = "unlock" /\ chunks' \in 1 .. MaxChunks
  /\ UNCHANGED <<owner, cpc, stolen>>

\* Mutant: continue after an invalid header, as in the I2C task, without UNLOCK.
BadHeaderContinues ==
  /\ tpc = "bad" /\ tpc' = "wait" /\ chunks' = 0
  /\ UNCHANGED <<owner, cpc, stolen>>

\* The first of two unlocks.
BadHeader ==
  /\ tpc = "bad" /\ Unlock("task")
  /\ tpc' = "unlock"
  /\ UNCHANGED <<chunks, cpc>>

\* Reached after a good and after a bad header, whose frame is read on.
HeaderDone ==
  /\ tpc = "unlock" /\ Unlock("task")
  /\ tpc' = "data"
  /\ UNCHANGED <<chunks, cpc>>

\* Chunks and tail are transferred without the lock.
ReadChunk ==
  /\ tpc = "data" /\ chunks > 1
  /\ tpc' = "more" /\ chunks' = chunks - 1
  /\ UNCHANGED <<owner, cpc, stolen>>

\* bus_req_wait_spi between two chunks.
NextChunk ==
  /\ tpc = "more" /\ tpc' = "data"
  /\ UNCHANGED <<owner, chunks, cpc, stolen>>

ReadTail ==
  /\ tpc = "data" /\ chunks = 1 /\ Unlock("task")
  /\ chunks' = 0 /\ tpc' = "checked"
  /\ UNCHANGED cpc

\* Bad data, an event or a response that is pushed; or one that is discarded.
Handle ==
  /\ tpc = "checked"
  /\ \/ UNCHANGED <<owner, stolen>>
     \/ Unlock("task")
  /\ tpc' = "wait"
  /\ UNCHANGED <<chunks, cpc>>

\* The task between LOCK and the UNLOCK before the rest of the frame.
TaskLocked == Dump \/ ReadHeader \/ BadHeader \/ HeaderDone

Task ==
  \/ TakeBusReq \/ TaskLock \/ TaskLocked
  \/ ReadChunk \/ NextChunk \/ ReadTail \/ Handle

-----------------------------------------------------------------------------
(* The console: write, transaction and dbg_write; DBGRECV.                 *)

CallWrite ==
  /\ cpc = "idle" /\ cpc' = "lock"
  /\ UNCHANGED <<owner, tpc, chunks, stolen>>

ConsoleLock ==
  /\ cpc = "lock" /\ Lock("console")
  /\ cpc' = "write"
  /\ UNCHANGED <<tpc, chunks>>

\* Mutant: a write that returns without UNLOCK.
WriteDoneLocked ==
  /\ cpc = "write" /\ cpc' = "idle"
  /\ UNCHANGED <<owner, tpc, chunks, stolen>>

WriteDone ==
  /\ cpc = "write" /\ Unlock("console")
  /\ cpc' = "idle"
  /\ UNCHANGED <<tpc, chunks>>

\* task_delete, also of a task that holds the mutex.
DbgRecv ==
  /\ cpc = "idle"
  /\ \/ owner = "task" /\ "kept" \in Deaths /\ owner' = "dead"
     \/ owner = "task" /\ "freed" \in Deaths /\ owner' = "none"
     \/ owner # "task" /\ UNCHANGED owner
  /\ tpc' = "gone" /\ chunks' = 0 /\ cpc' = "restart"
  /\ stolen' = stolen \ {"task"}

\* task_create, which may fail and leave no task.
Restart ==
  /\ cpc = "restart" /\ cpc' = "idle"
  /\ tpc' \in {"wait", "gone"}
  /\ UNCHANGED <<owner, chunks, stolen>>

Next ==
  \/ Task
  \/ CallWrite \/ ConsoleLock \/ WriteDone
  \/ DbgRecv \/ Restart

Spec == Init /\ [][Next]_vars

\* Transfers end (they are DMA transfers, during which the other task runs); the
\* mutex goes to a task that waits for it before the one that released it can
\* take it again.  Nothing is assumed of the chunk loops.
FairSpec ==
  /\ Spec
  /\ WF_vars(TaskLocked) /\ WF_vars(WriteDone)
  /\ SF_vars(ConsoleLock) /\ SF_vars(TaskLock)

-----------------------------------------------------------------------------
(* Properties.                                                             *)

HeaderTransfer == tpc \in {"header", "dump"}

\* The task's transfer of a header and the console's write never overlap on
\* the bus, unless one of the two was robbed of the mutex by an unlock of the
\* other, which did not hold it (LOCK and UNLOCK of host_if_spi.c).
HeaderExcludesWrite == HeaderTransfer /\ cpc = "write" => stolen # {}

\* The mutex is held by whoever is between LOCK and its first UNLOCK, robbed
\* ones excepted, and by no one else: no sequence of unlocks too many leaves it
\* locked by a task that does not use it, unless that task was deleted.
HeldWhereUsed ==
  /\ owner = "task" => tpc \in {"header", "dump", "bad", "unlock"}
  /\ owner = "console" => cpc = "write"
  /\ HeaderTransfer => owner = "task" \/ "task" \in stolen
  /\ cpc = "write" => owner = "console" \/ "console" \in stolen

\* A write gets the bus in the end, unless a DBGRECV deleted the task while it
\* held g_mutex.
WriteGetsBus == cpc = "lock" ~> (cpc = "write" \/ owner = "dead")

\* The receive task gets the lock in the end on the same condition.
TaskGetsLock == tpc = "lock" ~> (tpc # "lock" \/ owner = "dead")
=============================================================================

