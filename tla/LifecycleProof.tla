--------------------------- MODULE LifecycleProof ---------------------------
(***************************************************************************)
(* Proofs about Lifecycle, for any set of process ids.  AllOrNothing and   *)
(* ResourcesOutliveTasks follow from what holds at every statement of      *)
(* INIT, DEINIT and the undoing of a failed INIT: which of the global      *)
(* resources are held (Holdings), which interfaces exist (Progress), and   *)
(* what belongs to an interface that does or does not (Interfaces).        *)
(***************************************************************************)
EXTENDS Lifecycle, TLAPS

Creating == {"dev", "buf", "task", "errout"}
Deleting == {"stop", "free", "close"}

\* What each statement finds acquired: which statements only an INIT reaches,
\* or only a DEINIT or a DBGRECV, and which of the global resources are held.
Holdings ==
  /\ pc \in Creating \cup {"recvbuf", "queue", "bussems", "busirq", "undo"} => ~inited
  /\ pc \in {"restart", "recvfree", "semfree"} => inited
  /\ chgSem <=> (pc # "idle" \/ inited)
  /\ recvBuf = "live" <=>
       IF pc = "idle" THEN inited ELSE pc \notin {"recvbuf", "semfree"}
  /\ recvBuf = "freed" => pc \in {"idle", "recvbuf"}
  /\ pc = "idle" => queue = inited /\ busSems = inited /\ irq = inited
  /\ pc \in Creating \cup {"restart"} => queue /\ busSems /\ irq
  /\ pc \in {"recvbuf", "queue", "undo", "recvfree", "semfree"} => ~queue /\ ~busSems
  /\ pc = "bussems" => queue /\ ~busSems
  /\ pc = "busirq" => queue /\ busSems /\ ~irq
  /\ pc \in {"semsoff", "unlink"} => ~irq
  /\ pc = "unlink" => ~busSems
  /\ irq => busSems

Rank == [UART |-> 1, I2C |-> 2, SPI |-> 3]

\* INIT creates, and DEINIT or errout deletes, in the order of g_host_list.
Progress ==
  \A i \in Ifs :
    /\ pc = "idle" => (host[i] <=> inited)
    /\ pc = "restart" => host[i]
    /\ pc \in Creating => (host[i] <=> Rank[i] < Rank[at])
    /\ pc \in Deleting => (host[i] => Rank[i] >= Rank[at] /\ queue /\ busSems)
    /\ pc \in {"free", "close"} => host[at]
    /\ pc \notin Creating \cup Deleting \cup {"idle", "restart"} => ~host[i]

\* What an interface owns when it exists, while it is created, and when not.
Interfaces ==
  \A i \in Ifs :
    /\ buf[i] # "freed"
    /\ i # "SPI" => dev[i] # "closed"
    /\ dev["UART"] = "null"
    /\ host[i] =>
         /\ cb[i]
         /\ i # "UART" => dev[i] = "open"
         /\ i = "SPI" => mutex
         /\ buf[i] = IF pc = "close" /\ at = i THEN "null" ELSE "live"
    /\ ~host[i] /\ ~(at = i /\ pc \in {"buf", "task", "errout"}) =>
         /\ dev[i] # "open" /\ buf[i] = "null"
         /\ i = "SPI" => ~mutex
    /\ at = i /\ pc \in {"buf", "task"} =>
         /\ cb[i]
         /\ i # "UART" => dev[i] = "open"
         /\ i = "SPI" => mutex
    /\ at = i /\ pc = "buf" => buf[i] = "null"
    /\ at = i /\ pc = "task" => buf[i] = "live"
    /\ at = i /\ pc = "errout" => dev[i] # "closed"

\* A task is the task of an interface that exists and is not being deleted.
TasksHosted ==
  \A i \in Ifs : \A p \in Pids : tasks[p] = i => host[i] /\ ~Between(i)

IInv ==
  /\ TypeOK /\ Holdings /\ Progress /\ Interfaces /\ TasksHosted
  /\ PidsNameTasks /\ FreedOnce

\* Every action keeps the types.
LEMMA TypeStep ==
  ASSUME TypeOK, [Next]_vars
  PROVE  TypeOK'
<1> USE DEF TypeOK, Ifs, Pcs, Pointers, Devices, cmdVars, sysVars, ifVars, taskVars
<1>1. CASE InitCall
  <2>1. chgSem' \in BOOLEAN
    BY <1>1, Zenon DEF InitCall
  <2>2. QED
    BY <1>1, <2>1 DEF InitCall
<1>2. CASE AllocRecvBuf
  <2>1. chgSem' \in BOOLEAN
    BY <1>2, Zenon DEF AllocRecvBuf
  <2>2. QED
    BY <1>2, <2>1 DEF AllocRecvBuf
<1>3. CASE CreateQueue
  <2>1. queue' \in BOOLEAN
    BY <1>3, Zenon DEF CreateQueue, Teardown
  <2>2. QED
    BY <1>3, <2>1 DEF CreateQueue, Teardown
<1>4. CASE InitBusSems
  <2>1. busSems' \in BOOLEAN
    BY <1>4, Zenon DEF InitBusSems, Teardown
  <2>2. QED
    BY <1>4, <2>1 DEF InitBusSems, Teardown
<1>5. CASE EnableBusReq
  <2>1. irq' \in BOOLEAN
    BY <1>5, Zenon DEF EnableBusReq, Teardown
  <2>2. QED
    BY <1>5, <2>1 DEF EnableBusReq, Teardown
<1>6. CASE DeinitCall
  BY <1>6 DEF DeinitCall, Teardown
<1>7. CASE DisableBusReq
  <2>1. irq' \in BOOLEAN
    BY <1>7, Zenon DEF DisableBusReq
  <2>2. QED
    BY <1>7, <2>1 DEF DisableBusReq
<1>8. CASE DestroyBusSems
  <2>1. busSems' \in BOOLEAN
    BY <1>8, Zenon DEF DestroyBusSems
  <2>2. QED
    BY <1>8, <2>1 DEF DestroyBusSems
<1>9. CASE UnlinkQueue
  <2>1. queue' \in BOOLEAN
    BY <1>9, Zenon DEF UnlinkQueue
  <2>2. QED
    BY <1>9, <2>1 DEF UnlinkQueue
<1>10. CASE UndoInit
  <2>1. chgSem' \in BOOLEAN
    BY <1>10, Zenon DEF UndoInit
  <2>2. QED
    BY <1>10, <2>1 DEF UndoInit
<1>11. CASE FreeRecvBuf
  BY <1>11 DEF FreeRecvBuf
<1>12. CASE DeinitDone
  BY <1>12 DEF DeinitDone
<1>13. CASE UartOpens
  <2>1. opening' \in BOOLEAN
    BY <1>13, Zenon DEF UartOpens
  <2>2. QED
    BY <1>13, <2>1 DEF UartOpens
<1>14. ASSUME NEW i \in Ifs, CreateDev(i) PROVE TypeOK'
  BY <1>14 DEF CreateDev
<1>15. ASSUME NEW i \in Ifs, CreateBuf(i) PROVE TypeOK'
  BY <1>15 DEF CreateBuf
<1>16. ASSUME NEW i \in Ifs, CreateTask(i) PROVE TypeOK'
  <2>1. inited' \in BOOLEAN /\ opening' \in BOOLEAN
    BY <1>16, Zenon DEF CreateTask, Started
  <2>2. PICK p \in Pids : Started(i, p)
    BY <1>16 DEF CreateTask
  <2>3. /\ tasks' \in [Pids -> Ifs \cup {"free", "other"}]
        /\ pid' \in [Ifs -> Pids \cup {0, -1}]
        /\ quit' \subseteq Ifs
    BY <1>16, <2>2 DEF CreateTask, Started
  <2>4. QED
    BY <1>16, <2>1, <2>3 DEF CreateTask, After
<1>17. ASSUME NEW i \in Ifs, CreateTaskFails(i) PROVE TypeOK'
  BY <1>17 DEF CreateTaskFails
<1>18. ASSUME NEW i \in Ifs, CreateErrout(i) PROVE TypeOK'
  BY <1>18 DEF CreateErrout, Teardown
<1>19. ASSUME NEW i \in Ifs, Skip(i) PROVE TypeOK'
  BY <1>19 DEF Skip, NextDelete, After
<1>20. ASSUME NEW i \in Ifs, StopTask(i) PROVE TypeOK'
  <2>1. /\ tasks' \in [Pids -> Ifs \cup {"free", "other"}]
        /\ pid' \in [Ifs -> Pids \cup {0, -1}]
    BY <1>20 DEF StopTask, Deleted
  <2>2. quit' \subseteq Ifs
    BY <1>20 DEF StopTask, Bystanders
  <2>3. opening' \in BOOLEAN
    BY <1>20, Zenon DEF StopTask, StillOpening
  <2>4. QED
    BY <1>20, <2>1, <2>2, <2>3 DEF StopTask
<1>21. ASSUME NEW i \in Ifs, FreeBuf(i) PROVE TypeOK'
  BY <1>21 DEF FreeBuf
<1>22. ASSUME NEW i \in Ifs, Close(i) PROVE TypeOK'
  BY <1>22 DEF Close, NextDelete, After
<1>23. ASSUME NEW i \in Ifs, DbgRecv(i) PROVE TypeOK'
  BY <1>23 DEF DbgRecv, Deleted, StillOpening, Bystanders
<1>24. ASSUME NEW i \in Ifs, Restarted(i) PROVE TypeOK'
  BY <1>24 DEF Restarted, Started
<1>25. ASSUME NEW i \in Ifs, RestartFails(i) PROVE TypeOK'
  BY <1>25 DEF RestartFails
<1>26. ASSUME NEW p \in Pids, UartTaskEnds(p) PROVE TypeOK'
  <2>1. opening' \in BOOLEAN
    BY <1>26, Zenon DEF UartTaskEnds
  <2>2. QED
    BY <1>26, <2>1 DEF UartTaskEnds
<1>27. ASSUME NEW p \in Pids, OtherTask(p) PROVE TypeOK'
  BY <1>27 DEF OtherTask
<1>28. CASE UNCHANGED vars
  BY <1>28 DEF vars
<1> HIDE DEF TypeOK, Ifs, Pcs, Pointers, Devices
<1>29. QED
  BY <1>1, <1>2, <1>3, <1>4, <1>5, <1>6, <1>7, <1>8, <1>9, <1>10, <1>11,
     <1>12, <1>13, <1>14, <1>15, <1>16, <1>17, <1>18, <1>19, <1>20, <1>21,
     <1>22, <1>23, <1>24, <1>25, <1>26, <1>27, <1>28 DEF Next, Console

\* Every action keeps what each statement knows of the global resources.
LEMMA HoldingsStep ==
  ASSUME TypeOK, Holdings, Progress, [Next]_vars
  PROVE  Holdings'
<1> USE DEF TypeOK, Ifs, Pcs, Pointers, Holdings, Progress, Creating, Deleting, Rank, cmdVars, sysVars, ifVars, taskVars
<1>1. CASE InitCall
  BY <1>1 DEF InitCall
<1>2. CASE AllocRecvBuf
  BY <1>2 DEF AllocRecvBuf
<1>3. CASE CreateQueue
  BY <1>3 DEF CreateQueue, Teardown
<1>4. CASE InitBusSems
  BY <1>4 DEF InitBusSems, Teardown
<1>5. CASE EnableBusReq
  BY <1>5 DEF EnableBusReq, Teardown
<1>6. CASE DeinitCall
  BY <1>6 DEF DeinitCall, Teardown
<1>7. CASE DisableBusReq
  BY <1>7 DEF DisableBusReq
<1>8. CASE DestroyBusSems
  BY <1>8 DEF DestroyBusSems
<1>9. CASE UnlinkQueue
  BY <1>9 DEF UnlinkQueue
<1>10. CASE UndoInit
  BY <1>10 DEF UndoInit
<1>11. CASE FreeRecvBuf
  BY <1>11 DEF FreeRecvBuf
<1>12. CASE DeinitDone
  BY <1>12 DEF DeinitDone
<1>13. CASE UartOpens
  BY <1>13 DEF UartOpens
<1>14. ASSUME NEW i \in Ifs, CreateDev(i) PROVE Holdings'
  BY <1>14 DEF CreateDev
<1>15. ASSUME NEW i \in Ifs, CreateBuf(i) PROVE Holdings'
  BY <1>15 DEF CreateBuf
<1>16. ASSUME NEW i \in Ifs, CreateTask(i) PROVE Holdings'
  BY <1>16 DEF CreateTask, Started, After
<1>17. ASSUME NEW i \in Ifs, CreateTaskFails(i) PROVE Holdings'
  BY <1>17 DEF CreateTaskFails
<1>18. ASSUME NEW i \in Ifs, CreateErrout(i) PROVE Holdings'
  BY <1>18 DEF CreateErrout, Teardown
<1>19. ASSUME NEW i \in Ifs, Skip(i) PROVE Holdings'
  BY <1>19 DEF Skip, NextDelete, After
<1>20. ASSUME NEW i \in Ifs, StopTask(i) PROVE Holdings'
  BY <1>20 DEF StopTask, Deleted, StillOpening, Bystanders
<1>21. ASSUME NEW i \in Ifs, FreeBuf(i) PROVE Holdings'
  BY <1>21 DEF FreeBuf
<1>22. ASSUME NEW i \in Ifs, Close(i) PROVE Holdings'
  BY <1>22 DEF Close, NextDelete, After
<1>23. ASSUME NEW i \in Ifs, DbgRecv(i) PROVE Holdings'
  BY <1>23 DEF DbgRecv, Deleted, StillOpening, Bystanders
<1>24. ASSUME NEW i \in Ifs, Restarted(i) PROVE Holdings'
  BY <1>24 DEF Restarted, Started
<1>25. ASSUME NEW i \in Ifs, RestartFails(i) PROVE Holdings'
  BY <1>25 DEF RestartFails
<1>26. ASSUME NEW p \in Pids, UartTaskEnds(p) PROVE Holdings'
  BY <1>26 DEF UartTaskEnds
<1>27. ASSUME NEW p \in Pids, OtherTask(p) PROVE Holdings'
  BY <1>27 DEF OtherTask
<1>28. CASE UNCHANGED vars
  BY <1>28 DEF vars
<1> HIDE DEF TypeOK, Ifs, Pcs, Pointers, Holdings, Progress, Creating, Deleting, Rank
<1>29. QED
  BY <1>1, <1>2, <1>3, <1>4, <1>5, <1>6, <1>7, <1>8, <1>9, <1>10, <1>11,
     <1>12, <1>13, <1>14, <1>15, <1>16, <1>17, <1>18, <1>19, <1>20, <1>21,
     <1>22, <1>23, <1>24, <1>25, <1>26, <1>27, <1>28 DEF Next, Console

\* Interfaces are created and deleted in the order of g_host_list.
LEMMA ProgressStep ==
  ASSUME TypeOK, Holdings, Progress, [Next]_vars
  PROVE  Progress'
<1> USE DEF TypeOK, Ifs, Pcs, Holdings, Progress, Creating, Deleting, Rank, cmdVars, sysVars, ifVars, taskVars
<1>1. CASE InitCall
  BY <1>1 DEF InitCall
<1>2. CASE AllocRecvBuf
  BY <1>2 DEF AllocRecvBuf
<1>3. CASE CreateQueue
  BY <1>3 DEF CreateQueue, Teardown
<1>4. CASE InitBusSems
  BY <1>4 DEF InitBusSems, Teardown
<1>5. CASE EnableBusReq
  BY <1>5 DEF EnableBusReq, Teardown
<1>6. CASE DeinitCall
  BY <1>6 DEF DeinitCall, Teardown
<1>7. CASE DisableBusReq
  BY <1>7 DEF DisableBusReq
<1>8. CASE DestroyBusSems
  BY <1>8 DEF DestroyBusSems
<1>9. CASE UnlinkQueue
  BY <1>9 DEF UnlinkQueue
<1>10. CASE UndoInit
  BY <1>10 DEF UndoInit
<1>11. CASE FreeRecvBuf
  BY <1>11 DEF FreeRecvBuf
<1>12. CASE DeinitDone
  BY <1>12 DEF DeinitDone
<1>13. CASE UartOpens
  BY <1>13 DEF UartOpens
<1>14. ASSUME NEW i \in Ifs, CreateDev(i) PROVE Progress'
  BY <1>14 DEF CreateDev
<1>15. ASSUME NEW i \in Ifs, CreateBuf(i) PROVE Progress'
  BY <1>15 DEF CreateBuf
<1>16. ASSUME NEW i \in Ifs, CreateTask(i) PROVE Progress'
  <2>1. CASE i = "UART"
    BY <1>16, <2>1 DEF CreateTask, Started, After
  <2>2. CASE i = "I2C"
    BY <1>16, <2>2 DEF CreateTask, Started, After
  <2>3. CASE i = "SPI"
    BY <1>16, <2>3 DEF CreateTask, Started, After
  <2>4. QED
    BY <2>1, <2>2, <2>3
<1>17. ASSUME NEW i \in Ifs, CreateTaskFails(i) PROVE Progress'
  BY <1>17 DEF CreateTaskFails
<1>18. ASSUME NEW i \in Ifs, CreateErrout(i) PROVE Progress'
  BY <1>18 DEF CreateErrout, Teardown
<1>19. ASSUME NEW i \in Ifs, Skip(i) PROVE Progress'
  BY <1>19 DEF Skip, NextDelete, After
<1>20. ASSUME NEW i \in Ifs, StopTask(i) PROVE Progress'
  BY <1>20 DEF StopTask, Deleted, StillOpening, Bystanders
<1>21. ASSUME NEW i \in Ifs, FreeBuf(i) PROVE Progress'
  BY <1>21 DEF FreeBuf
<1>22. ASSUME NEW i \in Ifs, Close(i) PROVE Progress'
  <2>1. CASE i = "UART"
    BY <1>22, <2>1 DEF Close, NextDelete, After
  <2>2. CASE i = "I2C"
    BY <1>22, <2>2 DEF Close, NextDelete, After
  <2>3. CASE i = "SPI"
    BY <1>22, <2>3 DEF Close, NextDelete, After
  <2>4. QED
    BY <2>1, <2>2, <2>3
<1>23. ASSUME NEW i \in Ifs, DbgRecv(i) PROVE Progress'
  BY <1>23 DEF DbgRecv, Deleted, StillOpening, Bystanders
<1>24. ASSUME NEW i \in Ifs, Restarted(i) PROVE Progress'
  BY <1>24 DEF Restarted, Started
<1>25. ASSUME NEW i \in Ifs, RestartFails(i) PROVE Progress'
  BY <1>25 DEF RestartFails
<1>26. ASSUME NEW p \in Pids, UartTaskEnds(p) PROVE Progress'
  BY <1>26 DEF UartTaskEnds
<1>27. ASSUME NEW p \in Pids, OtherTask(p) PROVE Progress'
  BY <1>27 DEF OtherTask
<1>28. CASE UNCHANGED vars
  BY <1>28 DEF vars
<1> HIDE DEF TypeOK, Ifs, Pcs, Holdings, Progress, Creating, Deleting, Rank
<1>29. QED
  BY <1>1, <1>2, <1>3, <1>4, <1>5, <1>6, <1>7, <1>8, <1>9, <1>10, <1>11,
     <1>12, <1>13, <1>14, <1>15, <1>16, <1>17, <1>18, <1>19, <1>20, <1>21,
     <1>22, <1>23, <1>24, <1>25, <1>26, <1>27, <1>28 DEF Next, Console

\* Every action keeps what belongs to each interface.
LEMMA InterfacesStep ==
  ASSUME TypeOK, Progress, Interfaces, [Next]_vars
  PROVE  Interfaces'
<1> USE DEF TypeOK, Ifs, Pointers, Devices, Progress, Interfaces, Creating, Deleting, Rank, cmdVars, sysVars, ifVars, taskVars
<1>1. CASE InitCall
  BY <1>1 DEF InitCall
<1>2. CASE AllocRecvBuf
  BY <1>2 DEF AllocRecvBuf
<1>3. CASE CreateQueue
  BY <1>3 DEF CreateQueue, Teardown
<1>4. CASE InitBusSems
  BY <1>4 DEF InitBusSems, Teardown
<1>5. CASE EnableBusReq
  BY <1>5 DEF EnableBusReq, Teardown
<1>6. CASE DeinitCall
  BY <1>6 DEF DeinitCall, Teardown
<1>7. CASE DisableBusReq
  BY <1>7 DEF DisableBusReq
<1>8. CASE DestroyBusSems
  BY <1>8 DEF DestroyBusSems
<1>9. CASE UnlinkQueue
  BY <1>9 DEF UnlinkQueue
<1>10. CASE UndoInit
  BY <1>10 DEF UndoInit
<1>11. CASE FreeRecvBuf
  BY <1>11 DEF FreeRecvBuf
<1>12. CASE DeinitDone
  BY <1>12 DEF DeinitDone
<1>13. CASE UartOpens
  BY <1>13 DEF UartOpens
<1>14. ASSUME NEW i \in Ifs, CreateDev(i) PROVE Interfaces'
  BY <1>14 DEF CreateDev
<1>15. ASSUME NEW i \in Ifs, CreateBuf(i) PROVE Interfaces'
  BY <1>15 DEF CreateBuf
<1>16. ASSUME NEW i \in Ifs, CreateTask(i) PROVE Interfaces'
  BY <1>16 DEF CreateTask, Started, After
<1>17. ASSUME NEW i \in Ifs, CreateTaskFails(i) PROVE Interfaces'
  BY <1>17 DEF CreateTaskFails
<1>18. ASSUME NEW i \in Ifs, CreateErrout(i) PROVE Interfaces'
  BY <1>18 DEF CreateErrout, Teardown
<1>19. ASSUME NEW i \in Ifs, Skip(i) PROVE Interfaces'
  BY <1>19 DEF Skip, NextDelete, After
<1>20. ASSUME NEW i \in Ifs, StopTask(i) PROVE Interfaces'
  BY <1>20 DEF StopTask, Deleted, StillOpening, Bystanders
<1>21. ASSUME NEW i \in Ifs, FreeBuf(i) PROVE Interfaces'
  BY <1>21 DEF FreeBuf
<1>22. ASSUME NEW i \in Ifs, Close(i) PROVE Interfaces'
  BY <1>22 DEF Close, NextDelete, After
<1>23. ASSUME NEW i \in Ifs, DbgRecv(i) PROVE Interfaces'
  BY <1>23 DEF DbgRecv, Deleted, StillOpening, Bystanders
<1>24. ASSUME NEW i \in Ifs, Restarted(i) PROVE Interfaces'
  BY <1>24 DEF Restarted, Started
<1>25. ASSUME NEW i \in Ifs, RestartFails(i) PROVE Interfaces'
  BY <1>25 DEF RestartFails
<1>26. ASSUME NEW p \in Pids, UartTaskEnds(p) PROVE Interfaces'
  BY <1>26 DEF UartTaskEnds
<1>27. ASSUME NEW p \in Pids, OtherTask(p) PROVE Interfaces'
  BY <1>27 DEF OtherTask
<1>28. CASE UNCHANGED vars
  BY <1>28 DEF vars
<1> HIDE DEF TypeOK, Ifs, Pointers, Devices, Progress, Interfaces, Creating, Deleting, Rank
<1>29. QED
  BY <1>1, <1>2, <1>3, <1>4, <1>5, <1>6, <1>7, <1>8, <1>9, <1>10, <1>11,
     <1>12, <1>13, <1>14, <1>15, <1>16, <1>17, <1>18, <1>19, <1>20, <1>21,
     <1>22, <1>23, <1>24, <1>25, <1>26, <1>27, <1>28 DEF Next, Console

\* A task is started for an interface that then exists, and deleted before it.
LEMMA TasksStep ==
  ASSUME TypeOK, Progress, TasksHosted, PidsNameTasks, [Next]_vars
  PROVE  TasksHosted'
<1> USE DEF TypeOK, Ifs, Progress, TasksHosted, Between, PidsNameTasks, Creating, Deleting, Rank, cmdVars, sysVars, ifVars, taskVars
<1>1. CASE InitCall
  BY <1>1 DEF InitCall
<1>2. CASE AllocRecvBuf
  BY <1>2 DEF AllocRecvBuf
<1>3. CASE CreateQueue
  BY <1>3 DEF CreateQueue, Teardown
<1>4. CASE InitBusSems
  BY <1>4 DEF InitBusSems, Teardown
<1>5. CASE EnableBusReq
  BY <1>5 DEF EnableBusReq, Teardown
<1>6. CASE DeinitCall
  BY <1>6 DEF DeinitCall, Teardown
<1>7. CASE DisableBusReq
  BY <1>7 DEF DisableBusReq
<1>8. CASE DestroyBusSems
  BY <1>8 DEF DestroyBusSems
<1>9. CASE UnlinkQueue
  BY <1>9 DEF UnlinkQueue
<1>10. CASE UndoInit
  BY <1>10 DEF UndoInit
<1>11. CASE FreeRecvBuf
  BY <1>11 DEF FreeRecvBuf
<1>12. CASE DeinitDone
  BY <1>12 DEF DeinitDone
<1>13. CASE UartOpens
  BY <1>13 DEF UartOpens
<1>14. ASSUME NEW i \in Ifs, CreateDev(i) PROVE TasksHosted'
  BY <1>14 DEF CreateDev
<1>15. ASSUME NEW i \in Ifs, CreateBuf(i) PROVE TasksHosted'
  BY <1>15 DEF CreateBuf
<1>16. ASSUME NEW i \in Ifs, CreateTask(i) PROVE TasksHosted'
  BY <1>16 DEF CreateTask, Started, After
<1>17. ASSUME NEW i \in Ifs, CreateTaskFails(i) PROVE TasksHosted'
  BY <1>17 DEF CreateTaskFails
<1>18. ASSUME NEW i \in Ifs, CreateErrout(i) PROVE TasksHosted'
  BY <1>18 DEF CreateErrout, Teardown
<1>19. ASSUME NEW i \in Ifs, Skip(i) PROVE TasksHosted'
  BY <1>19 DEF Skip, NextDelete, After
<1>20. ASSUME NEW i \in Ifs, StopTask(i) PROVE TasksHosted'
  BY <1>20 DEF StopTask, Deleted, StillOpening, Bystanders
<1>21. ASSUME NEW i \in Ifs, FreeBuf(i) PROVE TasksHosted'
  BY <1>21 DEF FreeBuf
<1>22. ASSUME NEW i \in Ifs, Close(i) PROVE TasksHosted'
  BY <1>22 DEF Close, NextDelete, After
<1>23. ASSUME NEW i \in Ifs, DbgRecv(i) PROVE TasksHosted'
  BY <1>23 DEF DbgRecv, Deleted, StillOpening, Bystanders
<1>24. ASSUME NEW i \in Ifs, Restarted(i) PROVE TasksHosted'
  BY <1>24 DEF Restarted, Started
<1>25. ASSUME NEW i \in Ifs, RestartFails(i) PROVE TasksHosted'
  BY <1>25 DEF RestartFails
<1>26. ASSUME NEW p \in Pids, UartTaskEnds(p) PROVE TasksHosted'
  BY <1>26 DEF UartTaskEnds
<1>27. ASSUME NEW p \in Pids, OtherTask(p) PROVE TasksHosted'
  BY <1>27 DEF OtherTask
<1>28. CASE UNCHANGED vars
  BY <1>28 DEF vars
<1> HIDE DEF TypeOK, Ifs, Progress, TasksHosted, Between, PidsNameTasks, Creating, Deleting, Rank
<1>29. QED
  BY <1>1, <1>2, <1>3, <1>4, <1>5, <1>6, <1>7, <1>8, <1>9, <1>10, <1>11,
     <1>12, <1>13, <1>14, <1>15, <1>16, <1>17, <1>18, <1>19, <1>20, <1>21,
     <1>22, <1>23, <1>24, <1>25, <1>26, <1>27, <1>28 DEF Next, Console

\* Process ids: a deletion that hits another's task is remembered in quit.
LEMMA PidsStep ==
  ASSUME TypeOK, Progress, TasksHosted, PidsNameTasks, [Next]_vars
  PROVE  PidsNameTasks'
<1> USE DEF TypeOK, Ifs, Progress, TasksHosted, Between, PidsNameTasks, Creating, Deleting, Rank, cmdVars, sysVars, ifVars, taskVars
<1>1. CASE InitCall
  BY <1>1 DEF InitCall
<1>2. CASE AllocRecvBuf
  BY <1>2 DEF AllocRecvBuf
<1>3. CASE CreateQueue
  BY <1>3 DEF CreateQueue, Teardown
<1>4. CASE InitBusSems
  BY <1>4 DEF InitBusSems, Teardown
<1>5. CASE EnableBusReq
  BY <1>5 DEF EnableBusReq, Teardown
<1>6. CASE DeinitCall
  BY <1>6 DEF DeinitCall, Teardown
<1>7. CASE DisableBusReq
  BY <1>7 DEF DisableBusReq
<1>8. CASE DestroyBusSems
  BY <1>8 DEF DestroyBusSems
<1>9. CASE UnlinkQueue
  BY <1>9 DEF UnlinkQueue
<1>10. CASE UndoInit
  BY <1>10 DEF UndoInit
<1>11. CASE FreeRecvBuf
  BY <1>11 DEF FreeRecvBuf
<1>12. CASE DeinitDone
  BY <1>12 DEF DeinitDone
<1>13. CASE UartOpens
  BY <1>13 DEF UartOpens
<1>14. ASSUME NEW i \in Ifs, CreateDev(i) PROVE PidsNameTasks'
  BY <1>14 DEF CreateDev
<1>15. ASSUME NEW i \in Ifs, CreateBuf(i) PROVE PidsNameTasks'
  BY <1>15 DEF CreateBuf
<1>16. ASSUME NEW i \in Ifs, CreateTask(i) PROVE PidsNameTasks'
  BY <1>16 DEF CreateTask, Started, After
<1>17. ASSUME NEW i \in Ifs, CreateTaskFails(i) PROVE PidsNameTasks'
  BY <1>17 DEF CreateTaskFails
<1>18. ASSUME NEW i \in Ifs, CreateErrout(i) PROVE PidsNameTasks'
  BY <1>18 DEF CreateErrout, Teardown
<1>19. ASSUME NEW i \in Ifs, Skip(i) PROVE PidsNameTasks'
  BY <1>19 DEF Skip, NextDelete, After
<1>20. ASSUME NEW i \in Ifs, StopTask(i) PROVE PidsNameTasks'
  BY <1>20 DEF StopTask, Deleted, StillOpening, Bystanders
<1>21. ASSUME NEW i \in Ifs, FreeBuf(i) PROVE PidsNameTasks'
  BY <1>21 DEF FreeBuf
<1>22. ASSUME NEW i \in Ifs, Close(i) PROVE PidsNameTasks'
  BY <1>22 DEF Close, NextDelete, After
<1>23. ASSUME NEW i \in Ifs, DbgRecv(i) PROVE PidsNameTasks'
  BY <1>23 DEF DbgRecv, Deleted, StillOpening, Bystanders
<1>24. ASSUME NEW i \in Ifs, Restarted(i) PROVE PidsNameTasks'
  BY <1>24 DEF Restarted, Started
<1>25. ASSUME NEW i \in Ifs, RestartFails(i) PROVE PidsNameTasks'
  BY <1>25 DEF RestartFails
<1>26. ASSUME NEW p \in Pids, UartTaskEnds(p) PROVE PidsNameTasks'
  BY <1>26 DEF UartTaskEnds
<1>27. ASSUME NEW p \in Pids, OtherTask(p) PROVE PidsNameTasks'
  BY <1>27 DEF OtherTask
<1>28. CASE UNCHANGED vars
  BY <1>28 DEF vars
<1> HIDE DEF TypeOK, Ifs, Progress, TasksHosted, Between, PidsNameTasks, Creating, Deleting, Rank
<1>29. QED
  BY <1>1, <1>2, <1>3, <1>4, <1>5, <1>6, <1>7, <1>8, <1>9, <1>10, <1>11,
     <1>12, <1>13, <1>14, <1>15, <1>16, <1>17, <1>18, <1>19, <1>20, <1>21,
     <1>22, <1>23, <1>24, <1>25, <1>26, <1>27, <1>28 DEF Next, Console

\* Nothing is freed that was freed before.
LEMMA FreedStep ==
  ASSUME TypeOK, Holdings, Progress, Interfaces, FreedOnce, [Next]_vars
  PROVE  FreedOnce'
<1> USE DEF TypeOK, Ifs, Holdings, Progress, Interfaces, FreedOnce, cmdVars, sysVars, ifVars, taskVars
<1>1. CASE InitCall
  BY <1>1 DEF InitCall
<1>2. CASE AllocRecvBuf
  BY <1>2 DEF AllocRecvBuf
<1>3. CASE CreateQueue
  BY <1>3 DEF CreateQueue, Teardown
<1>4. CASE InitBusSems
  BY <1>4 DEF InitBusSems, Teardown
<1>5. CASE EnableBusReq
  BY <1>5 DEF EnableBusReq, Teardown
<1>6. CASE DeinitCall
  BY <1>6 DEF DeinitCall, Teardown
<1>7. CASE DisableBusReq
  BY <1>7 DEF DisableBusReq
<1>8. CASE DestroyBusSems
  BY <1>8 DEF DestroyBusSems
<1>9. CASE UnlinkQueue
  BY <1>9 DEF UnlinkQueue
<1>10. CASE UndoInit
  BY <1>10 DEF UndoInit
<1>11. CASE FreeRecvBuf
  BY <1>11 DEF FreeRecvBuf
<1>12. CASE DeinitDone
  BY <1>12 DEF DeinitDone
<1>13. CASE UartOpens
  BY <1>13 DEF UartOpens
<1>14. ASSUME NEW i \in Ifs, CreateDev(i) PROVE FreedOnce'
  BY <1>14 DEF CreateDev
<1>15. ASSUME NEW i \in Ifs, CreateBuf(i) PROVE FreedOnce'
  BY <1>15 DEF CreateBuf
<1>16. ASSUME NEW i \in Ifs, CreateTask(i) PROVE FreedOnce'
  BY <1>16 DEF CreateTask, Started, After
<1>17. ASSUME NEW i \in Ifs, CreateTaskFails(i) PROVE FreedOnce'
  BY <1>17 DEF CreateTaskFails
<1>18. ASSUME NEW i \in Ifs, CreateErrout(i) PROVE FreedOnce'
  BY <1>18 DEF CreateErrout, Teardown
<1>19. ASSUME NEW i \in Ifs, Skip(i) PROVE FreedOnce'
  BY <1>19 DEF Skip, NextDelete, After
<1>20. ASSUME NEW i \in Ifs, StopTask(i) PROVE FreedOnce'
  BY <1>20 DEF StopTask, Deleted, StillOpening, Bystanders
<1>21. ASSUME NEW i \in Ifs, FreeBuf(i) PROVE FreedOnce'
  BY <1>21 DEF FreeBuf
<1>22. ASSUME NEW i \in Ifs, Close(i) PROVE FreedOnce'
  BY <1>22 DEF Close, NextDelete, After
<1>23. ASSUME NEW i \in Ifs, DbgRecv(i) PROVE FreedOnce'
  BY <1>23 DEF DbgRecv, Deleted, StillOpening, Bystanders
<1>24. ASSUME NEW i \in Ifs, Restarted(i) PROVE FreedOnce'
  BY <1>24 DEF Restarted, Started
<1>25. ASSUME NEW i \in Ifs, RestartFails(i) PROVE FreedOnce'
  BY <1>25 DEF RestartFails
<1>26. ASSUME NEW p \in Pids, UartTaskEnds(p) PROVE FreedOnce'
  BY <1>26 DEF UartTaskEnds
<1>27. ASSUME NEW p \in Pids, OtherTask(p) PROVE FreedOnce'
  BY <1>27 DEF OtherTask
<1>28. CASE UNCHANGED vars
  BY <1>28 DEF vars
<1> HIDE DEF TypeOK, Ifs, Holdings, Progress, Interfaces, FreedOnce
<1>29. QED
  BY <1>1, <1>2, <1>3, <1>4, <1>5, <1>6, <1>7, <1>8, <1>9, <1>10, <1>11,
     <1>12, <1>13, <1>14, <1>15, <1>16, <1>17, <1>18, <1>19, <1>20, <1>21,
     <1>22, <1>23, <1>24, <1>25, <1>26, <1>27, <1>28 DEF Next, Console

LEMMA Inductive == Spec => []IInv
<1>1. Init => IInv
  <2>0. Init => /\ inited \in BOOLEAN /\ chgSem \in BOOLEAN /\ queue \in BOOLEAN
                /\ busSems \in BOOLEAN /\ irq \in BOOLEAN /\ mutex \in BOOLEAN
                /\ opening \in BOOLEAN /\ badFree \in BOOLEAN /\ FreedOnce
    BY Zenon DEF Init, FreedOnce
  <2>1. Init => TypeOK /\ FreedOnce
    BY <2>0 DEF Init, TypeOK, Ifs, Pcs, Pointers, Devices
  <2>2. Init => Holdings
    BY DEF Init, Holdings, Creating
  <2>3. Init => Progress /\ Interfaces
    BY DEF Init, Ifs, Progress, Interfaces, Creating, Deleting
  <2>4. Init => TasksHosted /\ PidsNameTasks
    BY DEF Init, Ifs, TasksHosted, PidsNameTasks
  <2>5. QED
    BY <2>1, <2>2, <2>3, <2>4 DEF IInv
<1>2. IInv /\ [Next]_vars => IInv'
  BY TypeStep, HoldingsStep, ProgressStep, InterfacesStep, TasksStep, PidsStep,
     FreedStep DEF IInv
<1>3. QED
  BY <1>1, <1>2, PTL DEF Spec

\* Types: the program counter, the pointers and the process ids.
THEOREM TypeCorrect == Spec => []TypeOK
  BY Inductive, PTL DEF IInv

\* Whatever a receive task uses is there for as long as the task lives, however
\* often INIT fails, at whichever step, and wherever the tasks preempt it.
THEOREM TasksSupported == Spec => []ResourcesOutliveTasks
<1>1. IInv => ResourcesOutliveTasks
  <2>1. SUFFICES ASSUME IInv
                 PROVE  ResourcesOutliveTasks
    OBVIOUS
  <2>2. ASSUME NEW i \in Ifs, host[i], ~Between(i)
        PROVE  /\ buf[i] = "live" /\ cb[i]
               /\ i # "UART" => dev[i] = "open"
               /\ i = "SPI" => mutex
               /\ queue /\ busSems /\ chgSem
    BY <2>1, <2>2 DEF IInv, TypeOK, Pcs, Ifs, Holdings, Progress, Interfaces,
       Between, Creating, Deleting
  <2>3. QED
    BY <2>1, <2>2 DEF IInv, TasksHosted, Holdings, ResourcesOutliveTasks
<1>2. QED
  BY <1>1, Inductive, PTL

\* Every process id names the task of its interface, or none of its own.
THEOREM PidsTrue == Spec => []PidsNameTasks
  BY Inductive, PTL DEF IInv

\* INIT leaves everything or nothing, DEINIT nothing.
THEOREM InitAtomic == Spec => []AllOrNothing
<1>1. IInv => AllOrNothing
  BY DEF IInv, TypeOK, Ifs, Holdings, Progress, Interfaces, TasksHosted, AllOrNothing
<1>2. QED
  BY <1>1, Inductive, PTL

\* No pointer is used to free what is free.
THEOREM NoDoubleFree == Spec => []FreedOnce
  BY Inductive, PTL DEF IInv

\* A task of others is deleted only through an interface whose task was gone.
THEOREM OthersKept == Spec => OthersSpared
<1> DEFINE Spared ==
      \A p \in Pids : tasks[p] # "free" /\ tasks'[p] = "free" /\ pc' # pc
        => tasks[p] = at' \/ at' \in quit
<1>1. IInv /\ [Next]_vars => [Spared]_vars
  <2>1. SUFFICES ASSUME IInv, Next PROVE Spared
    OBVIOUS
  <2> USE <2>1 DEF IInv, TypeOK, taskVars
  <2>2. ASSUME NEW i \in Ifs, StopTask(i) PROVE Spared
    BY <2>2 DEF StopTask, Deleted, PidsNameTasks, Between, Ifs
  <2>3. ASSUME NEW i \in Ifs, DbgRecv(i) PROVE Spared
    BY <2>3 DEF DbgRecv, Deleted, PidsNameTasks, Between, Ifs, Progress
  <2>4. ASSUME NEW i \in Ifs, CreateTask(i) \/ Restarted(i) PROVE Spared
    BY <2>4 DEF CreateTask, Restarted, Started, Ifs
  <2>5. ASSUME NEW p \in Pids, UartTaskEnds(p) \/ OtherTask(p) PROVE Spared
    BY <2>5 DEF UartTaskEnds, OtherTask
  <2>6. CASE UartOpens
    BY <2>6 DEF UartOpens
  <2>7. CASE \/ InitCall \/ AllocRecvBuf \/ CreateQueue \/ InitBusSems
             \/ EnableBusReq \/ DeinitCall \/ DisableBusReq \/ DestroyBusSems
             \/ UnlinkQueue \/ UndoInit \/ FreeRecvBuf \/ DeinitDone
    BY <2>7 DEF InitCall, AllocRecvBuf, CreateQueue, InitBusSems, EnableBusReq,
       DeinitCall, DisableBusReq, DestroyBusSems, UnlinkQueue, UndoInit,
       FreeRecvBuf, DeinitDone
  <2>8. ASSUME NEW i \in Ifs,
               \/ CreateDev(i) \/ CreateBuf(i) \/ CreateTaskFails(i)
               \/ CreateErrout(i) \/ Skip(i) \/ FreeBuf(i) \/ Close(i)
               \/ RestartFails(i)
        PROVE  Spared
    BY <2>8 DEF CreateDev, CreateBuf, CreateTaskFails, CreateErrout, Skip,
       FreeBuf, Close, RestartFails
  <2>9. QED
    BY <2>2, <2>3, <2>4, <2>5, <2>6, <2>7, <2>8 DEF Next, Console
<1>2. QED
  BY <1>1, Inductive, PTL DEF Spec, OthersSpared
=============================================================================
