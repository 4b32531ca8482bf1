------------------------------ MODULE Lifecycle ------------------------------
(***************************************************************************)
(* INIT, DEINIT and DBGRECV statement by statement: what gacrux_cmd_init,  *)
(* host_if_fctry_init, bus_req_init and the three host_if_*_create acquire *)
(* in order, what each failure undoes, what gacrux_cmd_deinit releases,    *)
(* and the process ids by which the receive tasks are deleted.  The tasks  *)
(* run at a higher priority than the console, so that one may run between  *)
(* any two statements.  Process ids are given out by NuttX, to the other   *)
(* tasks of the system too, and may be given out again once free.          *)
(***************************************************************************)
EXTENDS Integers

CONSTANT Pids   \* the process ids NuttX can give out

ASSUME PidsAssumption == Pids \subseteq Nat \ {0}

Ifs == {"UART", "I2C", "SPI"}

\* The order of g_host_list in host_if_fctry_init, its errout and _fin.
After == [UART |-> "I2C", I2C |-> "SPI", SPI |-> "none"]

\* A pointer to malloc'd memory: NULL, valid, or left behind by free().
Pointers == {"null", "live", "freed"}

\* g_dev: NULL, initialized, or a device that was uninitialized.
Devices == {"null", "open", "closed"}

Pcs == {"idle", "recvbuf", "queue", "bussems", "busirq", "dev", "buf", "task",
        "errout", "stop", "free", "close", "irqoff", "semsoff", "unlink", "undo",
        "recvfree", "semfree", "restart"}

VARIABLES
  pc,       \* where the console is; "idle" between commands
  at,       \* the interface it is creating, deleting or restarting
  inited,   \* g_is_cmd_init
  chgSem,   \* g_chgstat_evt_sem is initialized
  recvBuf,  \* g_recv_buff
  queue,    \* the message queue exists
  busSems,  \* g_i2c_bus_req_sem and g_spi_bus_req_sem are initialized
  irq,      \* the BUS_REQ interrupt is enabled
  host,     \* g_host_list[i] is set
  cb,       \* g_evt_cb of each interface is set
  dev,      \* g_dev of each bus
  mutex,    \* g_mutex is initialized (SPI)
  buf,      \* local buffer of each interface
  pid,      \* g_uart_task_pid, g_i2c_task_pid, g_spi_task_pid
  tasks,    \* which task has each process id
  opening,  \* the UART task has not returned from uart_open yet
  quit,     \* ghost: interfaces whose task ended, could not be restarted, or
            \* was deleted by the process id of another interface
  badFree   \* ghost: memory was freed twice, or a device closed twice

cmdVars  == <<inited, chgSem, recvBuf>>
sysVars  == <<queue, busSems, irq>>
ifVars   == <<host, cb, dev, mutex, buf>>
taskVars == <<pid, tasks, opening, quit>>
vars     == <<pc, at, inited, chgSem, recvBuf, queue, busSems, irq, host, cb,
              dev, mutex, buf, pid, tasks, opening, quit, badFree>>

TypeOK ==
  /\ pc \in Pcs /\ at \in Ifs
  /\ inited \in BOOLEAN /\ chgSem \in BOOLEAN /\ recvBuf \in Pointers
  /\ queue \in BOOLEAN /\ busSems \in BOOLEAN /\ irq \in BOOLEAN
  /\ host \in [Ifs -> BOOLEAN] /\ cb \in [Ifs -> BOOLEAN]
  /\ dev \in [Ifs -> Devices] /\ mutex \in BOOLEAN /\ buf \in [Ifs -> Pointers]
  /\ pid \in [Ifs -> Pids \cup {0, -1}]
  /\ tasks \in [Pids -> Ifs \cup {"free", "other"}]
  /\ opening \in BOOLEAN /\ quit \subseteq Ifs /\ badFree \in BOOLEAN

Init ==
  /\ pc = "idle" /\ at = "UART"
  /\ inited = FALSE /\ chgSem = FALSE /\ recvBuf = "null"
  /\ queue = FALSE /\ busSems = FALSE /\ irq = FALSE
  /\ host = [i \in Ifs |-> FALSE] /\ cb = [i \in Ifs |-> FALSE]
  /\ dev = [i \in Ifs |-> "null"] /\ mutex = FALSE
  /\ buf = [i \in Ifs |-> "null"] /\ pid = [i \in Ifs |-> 0]
  /\ tasks \in [Pids -> {"free", "other"}]
  /\ opening = FALSE /\ quit = {} /\ badFree = FALSE

-----------------------------------------------------------------------------
(* gacrux_cmd_init and host_if_fctry_init.                                 *)

\* The first failure, of sem_init, leaves nothing to undo: no step.
InitCall ==
  /\ pc = "idle" /\ ~inited
  /\ chgSem' = TRUE /\ pc' = "recvbuf"
  /\ UNCHANGED <<at, inited, recvBuf, sysVars, ifVars, taskVars, badFree>>

AllocRecvBuf ==
  /\ pc = "recvbuf"
  /\ \/ recvBuf' = "live" /\ pc' = "queue" /\ UNCHANGED chgSem
     \/ recvBuf' = "null" /\ pc' = "idle" /\ chgSem' = FALSE
  /\ UNCHANGED <<at, inited, sysVars, ifVars, taskVars, badFree>>

\* host_if_fctry_init's errout, and host_if_fctry_fin, go through g_host_list.
Teardown == pc' = "stop" /\ at' = "UART"

CreateQueue ==
  /\ pc = "queue"
  /\ \/ queue' = TRUE /\ pc' = "bussems" /\ UNCHANGED at
     \/ Teardown /\ UNCHANGED queue
  /\ UNCHANGED <<cmdVars, busSems, irq, ifVars, taskVars, badFree>>

\* Of the two sem_init one alone is of no use; errout destroys both.
InitBusSems ==
  /\ pc = "bussems"
  /\ \/ busSems' = TRUE /\ pc' = "busirq" /\ UNCHANGED at
     \/ Teardown /\ UNCHANGED busSems
  /\ UNCHANGED <<cmdVars, queue, irq, ifVars, taskVars, badFree>>

EnableBusReq ==
  /\ pc = "busirq"
  /\ \/ irq' = TRUE /\ pc' = "dev" /\ at' = "UART"
     \/ Teardown /\ UNCHANGED irq
  /\ UNCHANGED <<cmdVars, queue, busSems, ifVars, taskVars, badFree>>

\* g_evt_cb, on SPI the mutex, and on a bus the device.
CreateDev(i) ==
  /\ pc = "dev" /\ at = i
  /\ cb' = [cb EXCEPT ![i] = TRUE]
  /\ mutex' = (mutex \/ i = "SPI")
  /\ \/ /\ dev' = IF i = "UART" THEN dev ELSE [dev EXCEPT ![i] = "open"]
        /\ pc' = "buf"
     \/ /\ i # "UART"
        /\ dev' = [dev EXCEPT ![i] = "null"] /\ pc' = "errout"
  /\ UNCHANGED <<at, cmdVars, sysVars, host, buf, taskVars, badFree>>

CreateBuf(i) ==
  /\ pc = "buf" /\ at = i
  /\ \/ buf' = [buf EXCEPT ![i] = "live"] /\ pc' = "task"
     \/ buf' = [buf EXCEPT ![i] = "null"] /\ pc' = "errout"
  /\ UNCHANGED <<at, cmdVars, sysVars, host, cb, dev, mutex, taskVars, badFree>>

\* task_create gave the receive task of i the process id p.
Started(i, p) ==
  /\ tasks[p] = "free"
  /\ tasks' = [tasks EXCEPT ![p] = i]
  /\ pid' = [pid EXCEPT ![i] = p]
  /\ opening' = (opening \/ i = "UART")
  /\ quit' = quit \ {i}

\* The object is stored; the next interface is created, or INIT is done.
CreateTask(i) ==
  /\ pc = "task" /\ at = i
  /\ \E p \in Pids : Started(i, p)
  /\ host' = [host EXCEPT ![i] = TRUE]
  /\ IF i = "SPI" THEN pc' = "idle" /\ inited' = TRUE /\ at' = at
     ELSE pc' = "dev" /\ at' = After[i] /\ UNCHANGED inited
  /\ UNCHANGED <<chgSem, recvBuf, sysVars, cb, dev, mutex, buf, badFree>>

\* A failed task_create leaves -errno for a process id.
CreateTaskFails(i) ==
  /\ pc = "task" /\ at = i
  /\ pid' = [pid EXCEPT ![i] = -1] /\ pc' = "errout"
  /\ UNCHANGED <<at, cmdVars, sysVars, ifVars, tasks, opening, quit, badFree>>

\* Mutant: errout of host_if_i2c_create without i2c_dev_uninit.
CreateErroutLeavesDev(i) ==
  /\ pc = "errout" /\ at = i
  /\ badFree' = (badFree \/ buf[i] = "freed")
  /\ buf' = [buf EXCEPT ![i] = "null"]
  /\ mutex' = (mutex /\ i # "SPI")
  /\ cb' = [cb EXCEPT ![i] = (i = "UART")]
  /\ Teardown
  /\ UNCHANGED <<cmdVars, sysVars, host, dev, taskVars>>

\* errout of host_if_*_create: what the pointers say is there is released.
CreateErrout(i) ==
  /\ pc = "errout" /\ at = i
  /\ badFree' = (badFree \/ buf[i] = "freed" \/ dev[i] = "closed")
  /\ buf' = [buf EXCEPT ![i] = "null"]
  /\ dev' = [dev EXCEPT ![i] = "null"]
  /\ mutex' = (mutex /\ i # "SPI")
  /\ cb' = [cb EXCEPT ![i] = (i = "UART")]
  /\ Teardown
  /\ UNCHANGED <<cmdVars, sysVars, host, taskVars>>

-----------------------------------------------------------------------------
(* gacrux_cmd_deinit, host_if_fctry_fin, and errout of host_if_fctry_init. *)

DeinitCall ==
  /\ pc = "idle" /\ inited
  /\ Teardown
  /\ UNCHANGED <<cmdVars, sysVars, ifVars, taskVars, badFree>>

\* On to the next interface, after the last to bus_req_deinit.
NextDelete(i) ==
  IF i = "SPI" THEN pc' = "irqoff" /\ at' = at ELSE pc' = "stop" /\ at' = After[i]

Skip(i) ==
  /\ pc = "stop" /\ at = i /\ ~host[i]
  /\ NextDelete(i)
  /\ UNCHANGED <<cmdVars, sysVars, ifVars, taskVars, badFree>>

\* task_delete(p) deletes whatever task has p now; 0 is not a task's.
Deleted(p) == [q \in Pids |-> IF q = p THEN "free" ELSE tasks[q]]

\* The interfaces that lose their task when that of i is deleted by p.
Bystanders(i, p) == {j \in Ifs \ {i} : p \in Pids /\ tasks[p] = j}

\* The UART task is deleted, before it returned from uart_open or after.
StillOpening(p) == opening /\ ~(p \in Pids /\ tasks[p] = "UART")

\* Mutant: host_if_*_delete without stop_task.
StopTaskForgotten(i) ==
  /\ pc = "stop" /\ at = i /\ host[i]
  /\ pid' = [pid EXCEPT ![i] = 0]
  /\ pc' = "free"
  /\ UNCHANGED <<at, cmdVars, sysVars, ifVars, tasks, opening, quit, badFree>>

StopTask(i) ==
  /\ pc = "stop" /\ at = i /\ host[i]
  /\ tasks' = Deleted(pid[i])
  /\ opening' = StillOpening(pid[i])
  /\ quit' = quit \cup Bystanders(i, pid[i])
  /\ pid' = [pid EXCEPT ![i] = 0]
  /\ pc' = "free"
  /\ UNCHANGED <<at, cmdVars, sysVars, ifVars, badFree>>

\* Mutant: host_if_*_delete frees the local buffer and does not reset the pointer.
FreeBufDangling(i) ==
  /\ pc = "free" /\ at = i
  /\ badFree' = (badFree \/ buf[i] = "freed")
  /\ buf' = [buf EXCEPT ![i] = IF @ = "null" THEN @ ELSE "freed"]
  /\ pc' = "close"
  /\ UNCHANGED <<at, cmdVars, sysVars, host, cb, dev, mutex, taskVars>>

FreeBuf(i) ==
  /\ pc = "free" /\ at = i
  /\ badFree' = (badFree \/ buf[i] = "freed")
  /\ buf' = [buf EXCEPT ![i] = "null"]
  /\ pc' = "close"
  /\ UNCHANGED <<at, cmdVars, sysVars, host, cb, dev, mutex, taskVars>>

\* host_if_spi_delete leaves g_dev set, host_if_i2c_delete does not.
Close(i) ==
  /\ pc = "close" /\ at = i
  /\ badFree' = (badFree \/ dev[i] = "closed")
  /\ dev' = [dev EXCEPT ![i] = IF i = "SPI" /\ @ # "null" THEN "closed" ELSE "null"]
  /\ mutex' = (mutex /\ i # "SPI")
  /\ cb' = [cb EXCEPT ![i] = FALSE]
  /\ host' = [host EXCEPT ![i] = FALSE]
  /\ NextDelete(i)
  /\ UNCHANGED <<cmdVars, sysVars, buf, taskVars>>

DisableBusReq ==
  /\ pc = "irqoff"
  /\ irq' = FALSE /\ pc' = "semsoff"
  /\ UNCHANGED <<at, cmdVars, queue, busSems, ifVars, taskVars, badFree>>

DestroyBusSems ==
  /\ pc = "semsoff"
  /\ busSems' = FALSE /\ pc' = "unlink"
  /\ UNCHANGED <<at, cmdVars, queue, irq, ifVars, taskVars, badFree>>

UnlinkQueue ==
  /\ pc = "unlink"
  /\ queue' = FALSE
  /\ pc' = IF inited THEN "recvfree" ELSE "undo"
  /\ UNCHANGED <<at, cmdVars, busSems, irq, ifVars, taskVars, badFree>>

\* gacrux_cmd_init after host_if_fctry_init failed: g_recv_buff is left as is.
UndoInit ==
  /\ pc = "undo"
  /\ chgSem' = FALSE
  /\ badFree' = (badFree \/ recvBuf = "freed")
  /\ recvBuf' = IF recvBuf = "null" THEN "null" ELSE "freed"
  /\ pc' = "idle"
  /\ UNCHANGED <<at, inited, sysVars, ifVars, taskVars>>

FreeRecvBuf ==
  /\ pc = "recvfree"
  /\ badFree' = (badFree \/ recvBuf = "freed")
  /\ recvBuf' = "null" /\ pc' = "semfree"
  /\ UNCHANGED <<at, inited, chgSem, sysVars, ifVars, taskVars>>

\* sem_destroy of a valid semaphore does not fail in NuttX.
DeinitDone ==
  /\ pc = "semfree"
  /\ chgSem' = FALSE /\ inited' = FALSE /\ pc' = "idle"
  /\ UNCHANGED <<at, recvBuf, sysVars, ifVars, taskVars, badFree>>

-----------------------------------------------------------------------------
(* DBGRECV, the tasks themselves, and the rest of the system.              *)

\* restart_task: the old task is deleted first.  CHGIF selects any interface.
DbgRecv(i) ==
  /\ pc = "idle" /\ inited /\ pid[i] > 0
  /\ tasks' = Deleted(pid[i])
  /\ opening' = StillOpening(pid[i])
  /\ quit' = quit \cup Bystanders(i, pid[i])
  /\ at' = i /\ pc' = "restart"
  /\ UNCHANGED <<cmdVars, sysVars, ifVars, pid, badFree>>

\* Mutant: the new task's process id is not stored.
RestartedUnsaved(i) ==
  /\ pc = "restart" /\ at = i
  /\ \E p \in Pids : tasks[p] = "free" /\ tasks' = [tasks EXCEPT ![p] = i]
  /\ opening' = (opening \/ i = "UART")
  /\ pc' = "idle"
  /\ UNCHANGED <<at, cmdVars, sysVars, ifVars, pid, quit, badFree>>

Restarted(i) ==
  /\ pc = "restart" /\ at = i
  /\ \E p \in Pids : Started(i, p)
  /\ pc' = "idle"
  /\ UNCHANGED <<at, cmdVars, sysVars, ifVars, badFree>>

\* task_create fails: the caller keeps the process id of the deleted task.
RestartFails(i) ==
  /\ pc = "restart" /\ at = i
  /\ quit' = quit \cup {i} /\ pc' = "idle"
  /\ UNCHANGED <<at, cmdVars, sysVars, ifVars, pid, tasks, opening, badFree>>

UartOpens ==
  /\ opening /\ opening' = FALSE
  /\ UNCHANGED <<pc, at, cmdVars, sysVars, ifVars, pid, tasks, quit, badFree>>

\* uart_open failed: uart_recv_task returns, and NuttX frees its process id.
UartTaskEnds(p) ==
  /\ opening /\ tasks[p] = "UART"
  /\ opening' = FALSE
  /\ tasks' = [tasks EXCEPT ![p] = "free"]
  /\ quit' = quit \cup {"UART"}
  /\ UNCHANGED <<pc, at, cmdVars, sysVars, ifVars, pid, badFree>>

\* A task of another program starts or ends.
OtherTask(p) ==
  /\ \/ tasks[p] = "free" /\ tasks' = [tasks EXCEPT ![p] = "other"]
     \/ tasks[p] = "other" /\ tasks' = [tasks EXCEPT ![p] = "free"]
  /\ UNCHANGED <<pc, at, cmdVars, sysVars, ifVars, pid, opening, quit, badFree>>

Console ==
  \/ InitCall \/ AllocRecvBuf \/ CreateQueue \/ InitBusSems \/ EnableBusReq
  \/ DeinitCall \/ DisableBusReq \/ DestroyBusSems \/ UnlinkQueue
  \/ UndoInit \/ FreeRecvBuf \/ DeinitDone
  \/ \E i \in Ifs :
       \/ CreateDev(i) \/ CreateBuf(i) \/ CreateTask(i) \/ CreateTaskFails(i)
       \/ CreateErrout(i) \/ Skip(i) \/ StopTask(i) \/ FreeBuf(i) \/ Close(i)
       \/ DbgRecv(i) \/ Restarted(i) \/ RestartFails(i)

Next ==
  \/ Console
  \/ UartOpens
  \/ \E p \in Pids : UartTaskEnds(p) \/ OtherTask(p)

Spec == Init /\ [][Next]_vars

-----------------------------------------------------------------------------
(* Properties.                                                             *)

\* Whatever a live receive task touches exists for as long as it lives: its
\* buffer, device and callback, g_mutex, the BUS_REQ semaphores, the queue and
\* the semaphore its event callback posts; and the interrupt posts no
\* semaphore that is not initialized.  Tasks preempt INIT, DEINIT and the
\* undoing of a failed INIT anywhere (host_if_*_delete, bus_req_deinit,
\* gacrux_cmd_deinit).
ResourcesOutliveTasks ==
  /\ \A p \in Pids : tasks[p] \in Ifs =>
       LET i == tasks[p] IN
       /\ buf[i] = "live" /\ cb[i]
       /\ i # "UART" => dev[i] = "open"
       /\ i = "SPI" => mutex
       /\ queue /\ busSems /\ chgSem
  /\ irq => busSems

\* Between the deletion of a task and what replaces its process id.
Between(i) == at = i /\ pc \in {"free", "close", "restart"}

\* An interface has at most one task, the one that g_*_task_pid names, and has
\* it unless its UART could not be opened, DBGRECV could not restart it or it
\* was deleted by another's process id (start_task, restart_task and their
\* callers).
PidsNameTasks ==
  \A i \in Ifs :
    /\ \A p \in Pids : tasks[p] = i => pid[i] = p
    /\ host[i] /\ i \notin quit /\ ~Between(i) =>
         pid[i] \in Pids /\ tasks[pid[i]] = i

\* Between commands either all of INIT's acquisitions are there or, whichever
\* step of INIT failed, none is (errout of gacrux_cmd_init, host_if_fctry_init
\* and host_if_*_create; gacrux_cmd_deinit).
AllOrNothing ==
  pc = "idle" =>
    /\ {chgSem, queue, busSems, irq, mutex} = {inited}
    /\ recvBuf = "live" <=> inited
    /\ \A i \in Ifs :
         /\ host[i] <=> inited
         /\ buf[i] = "live" <=> inited
         /\ i # "UART" => (dev[i] = "open" <=> inited)
         /\ ~inited => \A p \in Pids : tasks[p] # i

\* No memory is freed twice and no device uninitialized twice in any sequence
\* of INIT, failed INIT and DEINIT: a pointer that still names what was freed
\* (g_recv_buff, g_dev of SPI) is overwritten before it is looked at.
FreedOnce == ~badFree

\* INIT, DEINIT and DBGRECV delete the task of another interface or of another
\* program only by the process id of an interface whose own task was gone
\* already: restart_task's callers keep the old process id when it fails, and
\* nothing tells them that a task has returned.
OthersSpared ==
  [][\A p \in Pids :
       tasks[p] # "free" /\ tasks'[p] = "free" /\ pc' # pc
         => tasks[p] = at' \/ at' \in quit]_vars
=============================================================================

