------------------------------- MODULE HostIf -------------------------------
(***************************************************************************)
(* The response channel of ghifp, one whole frame at a time: the console   *)
(* command that writes a frame and waits for the answer (gacrux_cmd.c over *)
(* the write/read/transaction/dbg_write functions of host_if_uart.c,       *)
(* host_if_i2c.c and host_if_spi.c), one receive task per interface, the   *)
(* queue of malloc'd response frames and the IDLE/WAIT flag they share     *)
(* (host_if_bs.c), the BUS_REQ interrupt, and DEINIT / INIT / CHGIF /      *)
(* DBGRECV, which replace tasks and queue under them.  The Gacrux device   *)
(* is external: it answers a command at most once, at any time or never,   *)
(* and may send events and damaged frames of its own accord.  A frame is   *)
(* read in one step and on one BUS_REQ, as one of no more than a chunk is; *)
(* ChunkedRead has the longer ones.                                        *)
(***************************************************************************)
EXTENDS Naturals, Sequences, FiniteSets, SequencesExt

CONSTANTS
  Ifs,        \* the interfaces INIT creates (host_if_fctry.c)
  MqMax,      \* MQUEUE_MSG_MAX
  MaxCmds,    \* bound: commands called in a behaviour
  MaxFrames   \* bound: frames seen on the wires in a behaviour

ASSUME IfsAssumption == Ifs # {} /\ Ifs \subseteq {"UART", "I2C", "SPI"}
ASSUME MqMaxAssumption == MqMax \in Nat \ {0}
ASSUME BoundsAssumption == MaxCmds \in Nat /\ MaxFrames \in Nat

\* The interfaces whose receive task is woken by the BUS_REQ pin.
BusIfs == Ifs \ {"UART"}

\* What becomes of a frame at the receiver's checks: a response, an event
\* (is_evt_data), or a frame that fails check_header or check_data.
FrameKinds == {"res", "evt", "badhdr", "baddata"}

\* sn is the frame's place in the order of arrival and stands for its buffer;
\* cmd is the command it answers, 0 if none.
Frame == [sn : 1 .. MaxFrames, kind : FrameKinds, cmd : 0 .. MaxCmds, hif : Ifs]

NoFrame == [sn |-> 0, kind |-> "none", cmd |-> 0, hif |-> "none"]

\* "trans": write, then pop (EXECFW, each packet of TXFW); "conf": write, apply
\* the new setting, pop (UARTCONF, I2CCONF, SPICONF); "raw": as "trans", but
\* popping even if the write failed (I2CWRITE, and each try of CMD); "bin":
\* header, then a transaction for the rest (each packet of BININPUT);
\* "chgstat": write, then wait for an event; "dbgsend": write only (DBGSEND,
\* DBGFILESEND, and CMD over UART).
CmdKinds == {"trans", "conf", "raw", "bin", "chgstat", "dbgsend"}

MainPcs == {"idle", "write", "body", "flag", "conf", "sem", "pop", "unflag"}
RecvPcs == {"off", "dead", "wait", "read", "got", "send"}

VARIABLES
  inited,   \* g_is_cmd_init
  hifType,  \* g_hif_type
  hifState, \* g_host_if_state
  mq,       \* the queue "ghifp_mq": dataframe_s records, oldest first
  heap,     \* malloc'd dataframe buffers not yet freed
  lost,     \* ghost: those whose task or queue was deleted under them
  busReq,   \* g_i2c_bus_req_sem, g_spi_bus_req_sem
  dbgRecv,  \* g_uart_dbg_recv, g_i2c_dbg_recv, g_spi_dbg_recv
  rpc,      \* where each receive task is
  rbuf,     \* frames in each receive task's local buffer
  wire,     \* frames the device has put out on each interface, not yet read
  pending,  \* commands the device has on each interface and may still answer
  pc,       \* where the console command is
  kind,     \* which kind of command it is
  cur,      \* number of commands called so far: the running one's id
  owed,     \* ghost: commands sent whose own answer nobody has popped
  reply,    \* frame handed to the running command, or NoFrame
  nextSn    \* next frame's serial number

mainVars == <<pc, kind, cur, owed, reply>>
setVars  == <<inited, hifType, dbgRecv>>
mqVars   == <<mq, heap, lost>>
recvVars == <<rpc, rbuf>>
devVars  == <<wire, pending, nextSn>>
vars     == <<inited, hifType, hifState, mq, heap, lost, busReq, dbgRecv, rpc,
              rbuf, wire, pending, pc, kind, cur, owed, reply, nextSn>>

TypeOK ==
  /\ inited \in BOOLEAN
  /\ hifType \in Ifs
  /\ hifState \in {"IDLE", "WAIT"}
  /\ mq \in Seq(Frame)
  /\ heap \subseteq 1 .. MaxFrames
  /\ lost \subseteq 1 .. MaxFrames
  /\ busReq \in [BusIfs -> Nat]
  /\ dbgRecv \in [Ifs -> BOOLEAN]
  /\ rpc \in [Ifs -> RecvPcs]
  /\ rbuf \in [Ifs -> Seq(Frame)]
  /\ wire \in [Ifs -> Seq(Frame)]
  /\ pending \in [Ifs -> SUBSET (1 .. MaxCmds)]
  /\ pc \in MainPcs
  /\ kind \in CmdKinds
  /\ cur \in 0 .. MaxCmds
  /\ owed \subseteq 1 .. MaxCmds
  /\ reply \in Frame \cup {NoFrame}
  /\ nextSn \in 1 .. MaxFrames + 1

\* A task started by start_task: UART ends at once if uart_open fails.
Started(i) == IF i = "UART" THEN {"read", "dead"} ELSE {"wait"}

\* Where a task goes to fetch its next frame.
Fetching(i) == IF i = "UART" THEN "read" ELSE "wait"

Init ==
  /\ inited = FALSE
  /\ hifType \in Ifs
  /\ hifState = "IDLE"
  /\ mq = <<>> /\ heap = {} /\ lost = {}
  /\ busReq = [i \in BusIfs |-> 0]
  /\ dbgRecv = [i \in Ifs |-> FALSE]
  /\ rpc = [i \in Ifs |-> "off"]
  /\ rbuf = [i \in Ifs |-> <<>>]
  /\ wire = [i \in Ifs |-> <<>>]
  /\ pending = [i \in Ifs |-> {}]
  /\ pc = "idle" /\ kind = "trans" /\ cur = 0 /\ owed = {} /\ reply = NoFrame
  /\ nextSn = 1

\* What the receiver sees of a frame that lacks its first or its last bytes.
Spoilt(f) == [sn |-> f.sn, kind |-> "badhdr", cmd |-> 0, hif |-> f.hif]

\* What uart_open may leave of the frames w that wait in the UART driver:
\* TCSAFLUSH drops all that came before it, and of a frame that had been read
\* in part only that part is left.  On the other interfaces there is no flush.
Flushed(w) ==
  {SubSeq(w, k + 1, Len(w)) : k \in 0 .. Len(w)}
    \cup {<<Spoilt(Head(w))>> \o SubSeq(w, k + 1, Len(w)) : k \in 1 .. Len(w)}

Opened(w) ==
  IF hifType = "UART" THEN {[w EXCEPT !["UART"] = u] : u \in Flushed(w["UART"])}
  ELSE {w}

-----------------------------------------------------------------------------
(* The console command.                                                    *)

\* A command is entered; CHECKINIT lets it through (the CMD and I2CWRITE
\* paths do not check: without INIT they call through a NULL object, which has
\* no meaning in C, and the README asks for INIT first).  Each packet of a
\* transfer, and each of CMD's tries to wake the device, is a call of its own.
Call(k) ==
  /\ pc = "idle" /\ inited /\ cur < MaxCmds
  /\ pc' = "write" /\ kind' = k /\ cur' = cur + 1 /\ reply' = NoFrame
  /\ UNCHANGED <<owed, setVars, hifState, mqVars, busReq, recvVars, devVars>>

\* The frame goes out in two writes: BININPUT, and on SPI CMD with operands.
\* The write of the header has raised the flag when the rest is yet to go.
WriteHeader ==
  /\ pc = "write"
  /\ kind = "bin" \/ (kind = "raw" /\ hifType = "SPI")
  /\ hifState' = "WAIT"
  /\ pc' = "body"
  /\ wire' \in Opened(wire)
  /\ UNCHANGED <<kind, cur, owed, reply, setVars, mqVars, busReq, recvVars,
                 pending, nextSn>>

\* The rest of a BININPUT packet is no frame to check_header, which UART and
\* I2C ask before they write; the flag stays raised.
BodyRefused ==
  /\ pc = "body" /\ hifType # "SPI"
  /\ pc' = "idle"
  /\ UNCHANGED <<kind, cur, owed, reply, setVars, hifState, mqVars, busReq,
                 recvVars, devVars>>

\* The frame, or the rest of it, goes out on the selected interface and the
\* device has it all.
WriteOk ==
  /\ \/ pc = "write" /\ kind # "bin"
     \/ pc = "body" /\ hifType = "SPI"
  /\ pending' = [pending EXCEPT ![hifType] = @ \cup {cur}]
  /\ owed' = owed \cup {cur}
  /\ pc' = IF kind = "dbgsend" THEN "idle" ELSE "flag"
  /\ wire' \in Opened(wire)
  /\ UNCHANGED <<kind, cur, reply, setVars, hifState, mqVars, busReq, recvVars,
                 nextSn>>

\* open, write or the bus transfer fails, or BININPUT's file; the SPI functions
\* report no failure.  I2CWRITE and CMD, which may also refuse the operands,
\* go on to read all the same.
WriteFail ==
  /\ \/ pc = "write" /\ (hifType # "SPI" \/ kind = "raw")
     \/ pc = "body" /\ kind = "bin"
  /\ pc' = IF kind = "raw" THEN "pop" ELSE "idle"
  /\ wire' \in Opened(wire)
  /\ UNCHANGED <<kind, cur, owed, reply, setVars, hifState, mqVars, busReq,
                 recvVars, pending, nextSn>>

\* What a command does once its frame is out.
AfterWrite == CASE kind = "chgstat" -> "sem"
                [] kind = "conf" -> "conf"
                [] OTHER -> "pop"

\* Mutant: the flag is not raised.
SetWaitForgotten ==
  /\ pc = "flag"
  /\ pc' = AfterWrite
  /\ UNCHANGED <<kind, cur, owed, reply, setVars, hifState, mqVars, busReq,
                 recvVars, devVars>>

\* set_host_if_state(HOST_IF_STATE_WAIT_RESPONSE), after the write returned.
SetWait ==
  /\ pc = "flag"
  /\ hifState' = "WAIT"
  /\ pc' = AfterWrite
  /\ UNCHANGED <<kind, cur, owed, reply, setVars, mqVars, busReq, recvVars, devVars>>

\* UARTCONF, I2CCONF and SPICONF set the host's side to the new speed or word
\* size; change_baudrate opens the port for that.  They read the answer
\* whether or not the setting was accepted.
ApplyConf ==
  /\ pc = "conf"
  /\ pc' = "pop"
  /\ wire' \in Opened(wire)
  /\ UNCHANGED <<kind, cur, owed, reply, setVars, hifState, mqVars, busReq,
                 recvVars, pending, nextSn>>

\* wait_chgstat_evt: nothing calls chgstat_evt_hander, so nothing posts the
\* semaphore and the wait ends by its timeout; CHGSTAT leaves the flag set.
EvtTimeout ==
  /\ pc = "sem"
  /\ pc' = "idle"
  /\ UNCHANGED <<kind, cur, owed, reply, setVars, hifState, mqVars, busReq,
                 recvVars, devVars>>

\* pop_dataframe: receive, copy to the caller, free.
Pop ==
  /\ pc = "pop" /\ mq # <<>>
  /\ reply' = Head(mq)
  /\ mq' = Tail(mq)
  /\ heap' = heap \ {Head(mq).sn}
  /\ owed' = owed \ {Head(mq).cmd}
  /\ pc' = "unflag"
  /\ UNCHANGED <<kind, cur, setVars, hifState, lost, busReq, recvVars, devVars>>

\* Mutant: a pop that timed out starts over.
PopTimeoutRetries == pc = "pop" /\ mq = <<>> /\ UNCHANGED vars

\* pop_dataframe fails: nothing came for RECV_TIMEOUT_SEC.
PopTimeout ==
  /\ pc = "pop" /\ mq = <<>>
  /\ pc' = "unflag"
  /\ UNCHANGED <<kind, cur, owed, reply, setVars, hifState, mqVars, busReq,
                 recvVars, devVars>>

\* pop_dataframe fails: mq_open or clock_gettime did, whatever the queue holds.
PopError ==
  /\ pc = "pop"
  /\ pc' = "unflag"
  /\ UNCHANGED <<kind, cur, owed, reply, setVars, hifState, mqVars, busReq,
                 recvVars, devVars>>

\* set_host_if_state(HOST_IF_STATE_IDLE), whatever the pop returned.
SetIdle ==
  /\ pc = "unflag"
  /\ hifState' = "IDLE"
  /\ pc' = "idle"
  /\ UNCHANGED <<kind, cur, owed, reply, setVars, mqVars, busReq, recvVars, devVars>>

\* CHGIF: gacrux_cmd_set_if_type.
ChgIf(i) ==
  /\ pc = "idle" /\ inited
  /\ hifType' = i
  /\ UNCHANGED <<inited, dbgRecv, hifState, mqVars, busReq, recvVars, devVars, mainVars>>

\* DBGRECV: set the mode of the selected interface, delete its receive task
\* and start a new one; the deleted task's UART descriptor is closed, so what
\* the driver had received is gone, and a buffer it was sending is orphaned.
DbgRecv(on) ==
  /\ pc = "idle" /\ inited
  /\ dbgRecv' = [dbgRecv EXCEPT ![hifType] = on]
  /\ \E s \in Started(hifType) \cup {"dead"} : rpc' = [rpc EXCEPT ![hifType] = s]
  /\ rbuf' = [rbuf EXCEPT ![hifType] = <<>>]
  /\ lost' = IF rpc[hifType] = "send" THEN lost \cup {Head(rbuf[hifType]).sn} ELSE lost
  /\ wire' = IF hifType = "UART" THEN [wire EXCEPT !["UART"] = <<>>] ELSE wire
  /\ UNCHANGED <<inited, hifType, hifState, mq, heap, busReq, pending, nextSn, mainVars>>

\* DEINIT: host_if_fctry_fin deletes the tasks, destroys the semaphores and
\* unlinks the queue; nobody frees the buffers the queue points to.
CmdDeinit ==
  /\ pc = "idle" /\ inited
  /\ inited' = FALSE
  /\ rpc' = [i \in Ifs |-> "off"]
  /\ rbuf' = [i \in Ifs |-> <<>>]
  /\ busReq' = [i \in BusIfs |-> 0]
  /\ mq' = <<>>
  /\ lost' = heap
  /\ wire' = [i \in Ifs |-> IF i = "UART" THEN <<>> ELSE wire[i]]
  /\ UNCHANGED <<hifType, hifState, dbgRecv, heap, pending, nextSn, mainVars>>

\* INIT: a new queue, semaphores at 0, the three receive tasks.  Neither
\* g_host_if_state nor g_hif_type nor the debug modes are reset.
CmdInit ==
  /\ pc = "idle" /\ ~inited
  /\ inited' = TRUE
  /\ rpc' \in {f \in [Ifs -> RecvPcs] : \A i \in Ifs : f[i] \in Started(i)}
  /\ UNCHANGED <<hifType, hifState, dbgRecv, mqVars, busReq, rbuf, devVars, mainVars>>

-----------------------------------------------------------------------------
(* The receive tasks.                                                      *)

\* Mutant: the task does not wait for the semaphore.
TakeTokenUnasked(i) ==
  /\ i \in BusIfs /\ rpc[i] = "wait"
  /\ busReq' = [busReq EXCEPT ![i] = @ - 1]
  /\ rpc' = [rpc EXCEPT ![i] = "read"]
  /\ UNCHANGED <<setVars, hifState, mqVars, rbuf, devVars, mainVars>>

\* bus_req_wait_i2c, bus_req_wait_spi: one count of the semaphore per frame.
TakeToken(i) ==
  /\ i \in BusIfs /\ rpc[i] = "wait" /\ busReq[i] > 0
  /\ busReq' = [busReq EXCEPT ![i] = @ - 1]
  /\ rpc' = [rpc EXCEPT ![i] = "read"]
  /\ UNCHANGED <<setVars, hifState, mqVars, rbuf, devVars, mainVars>>

\* I2C and SPI: the frame the device has ready.
BusRead(i) ==
  /\ i \in BusIfs /\ rpc[i] = "read" /\ ~dbgRecv[i] /\ wire[i] # <<>>
  /\ rbuf' = [rbuf EXCEPT ![i] = <<Head(wire[i])>>]
  /\ wire' = [wire EXCEPT ![i] = Tail(@)]
  /\ rpc' = [rpc EXCEPT ![i] = "got"]
  /\ UNCHANGED <<setVars, hifState, mqVars, busReq, pending, nextSn, mainVars>>

\* SPI, and the device has nothing ready: the master clocks in idle bytes,
\* which fail check_header.  (I2C instead retries its header read until the
\* device has a frame.)
SpiReadIdle(i) ==
  /\ i = "SPI" /\ rpc[i] = "read" /\ ~dbgRecv[i] /\ wire[i] = <<>>
  /\ nextSn <= MaxFrames
  /\ rbuf' = [rbuf EXCEPT ![i] =
                <<[sn |-> nextSn, kind |-> "badhdr", cmd |-> 0, hif |-> i]>>]
  /\ nextSn' = nextSn + 1
  /\ rpc' = [rpc EXCEPT ![i] = "got"]
  /\ UNCHANGED <<setVars, hifState, mqVars, busReq, wire, pending, mainVars>>

\* UART: read() returns any number of bytes.  They complete k more frames,
\* possibly none; the oldest frame in the buffer is then looked at, once.
UartRead(i) ==
  /\ i = "UART" /\ rpc[i] = "read" /\ ~dbgRecv[i] /\ wire[i] # <<>>
  /\ \E k \in 0 .. Len(wire[i]) :
       /\ rbuf' = [rbuf EXCEPT ![i] = @ \o SubSeq(wire[i], 1, k)]
       /\ wire' = [wire EXCEPT ![i] = SubSeq(@, k + 1, Len(@))]
  /\ rpc' = [rpc EXCEPT ![i] = IF rbuf'[i] = <<>> THEN "read" ELSE "got"]
  /\ UNCHANGED <<setVars, hifState, mqVars, busReq, pending, nextSn, mainVars>>

\* Debug receive mode: what was read is printed and dropped.
DbgDump(i) ==
  /\ rpc[i] = "read" /\ dbgRecv[i]
  /\ i = "UART" => wire[i] # <<>>
  /\ wire' = [wire EXCEPT ![i] = IF @ = <<>> THEN @ ELSE Tail(@)]
  /\ rpc' = [rpc EXCEPT ![i] = Fetching(i)]
  /\ UNCHANGED <<setVars, hifState, mqVars, busReq, rbuf, pending, nextSn, mainVars>>

\* Mutant: the frame handled stays in the buffer.
ConsumeNothing(i) ==
  /\ rbuf' = rbuf
  /\ rpc' = [rpc EXCEPT ![i] = IF i = "UART" THEN "read" ELSE "got"]

\* The frame at the head of the buffer is done with: next one.
Consume(i) ==
  /\ rbuf' = [rbuf EXCEPT ![i] = Tail(@)]
  /\ rpc' = [rpc EXCEPT ![i] = Fetching(i)]

\* Mutant: the task returns on a frame that fails its checks.
RejectReturns(i) ==
  /\ rpc[i] = "got"
  /\ \/ Head(rbuf[i]).kind = "baddata"
     \/ Head(rbuf[i]).kind = "badhdr" /\ i # "SPI"
  /\ rpc' = [rpc EXCEPT ![i] = "dead"]
  /\ rbuf' = [rbuf EXCEPT ![i] = <<>>]
  /\ UNCHANGED <<setVars, hifState, mqVars, busReq, devVars, mainVars>>

\* check_header or check_data fails.  UART drops the whole buffer, with the
\* bytes of a frame it had read only in part: what is left of that frame will
\* fail check_header.  SPI goes on after an invalid header (see AsResponse).
Reject(i) ==
  /\ rpc[i] = "got"
  /\ \/ Head(rbuf[i]).kind = "baddata"
     \/ Head(rbuf[i]).kind = "badhdr" /\ i # "SPI"
  /\ rbuf' = [rbuf EXCEPT ![i] = <<>>]
  /\ rpc' = [rpc EXCEPT ![i] = Fetching(i)]
  /\ \/ wire' = wire
     \/ /\ i = "UART" /\ wire[i] # <<>>
        /\ wire' = [wire EXCEPT ![i] =
                      <<Spoilt(Head(@))>> \o Tail(@)]
  /\ UNCHANGED <<setVars, hifState, mqVars, busReq, pending, nextSn, mainVars>>

\* spi_recv_task reports an invalid header and carries on with opr_len = 0, so
\* that check_data passes, and with the opc of the last valid header, which is
\* abstracted to either outcome of is_evt_data.
Garbled(f) == f.hif = "SPI" /\ f.kind = "badhdr"
AsEvent(f) == f.kind = "evt" \/ Garbled(f)

\* Mutant: is_evt_data is not asked.
AsResponseAlways(f) == f.kind \in {"res", "evt"} \/ Garbled(f)

AsResponse(f) == f.kind = "res" \/ Garbled(f)

\* Event: the callback only prints.
Notify(i) ==
  /\ rpc[i] = "got" /\ AsEvent(Head(rbuf[i]))
  /\ Consume(i)
  /\ UNCHANGED <<setVars, hifState, mqVars, busReq, devVars, mainVars>>

\* Response while nobody waits for one.
Discard(i) ==
  /\ rpc[i] = "got" /\ AsResponse(Head(rbuf[i])) /\ hifState = "IDLE"
  /\ Consume(i)
  /\ UNCHANGED <<setVars, hifState, mqVars, busReq, devVars, mainVars>>

\* push_dataframe: allocate and fill the buffer, then mq_send.
Admit(i) ==
  /\ rpc[i] = "got" /\ AsResponse(Head(rbuf[i])) /\ hifState = "WAIT"
  /\ heap' = heap \cup {Head(rbuf[i]).sn}
  /\ rpc' = [rpc EXCEPT ![i] = "send"]
  /\ UNCHANGED <<setVars, hifState, mq, lost, busReq, rbuf, devVars, mainVars>>

\* push_dataframe failed: UART keeps the frame and looks at it again after its
\* next read, I2C and SPI go on without it.
KeepOrDrop(i) ==
  /\ rpc' = [rpc EXCEPT ![i] = Fetching(i)]
  /\ rbuf' = [rbuf EXCEPT ![i] = IF i = "UART" THEN @ ELSE <<>>]

\* mq_open or malloc fails.
AdmitFail(i) ==
  /\ rpc[i] = "got" /\ AsResponse(Head(rbuf[i])) /\ hifState = "WAIT"
  /\ KeepOrDrop(i)
  /\ UNCHANGED <<setVars, hifState, mqVars, busReq, devVars, mainVars>>

\* mq_send succeeds; it blocks while the queue is full.
Send(i) ==
  /\ rpc[i] = "send" /\ Len(mq) < MqMax
  /\ mq' = Append(mq, Head(rbuf[i]))
  /\ Consume(i)
  /\ UNCHANGED <<setVars, hifState, heap, lost, busReq, devVars, mainVars>>

\* Mutant: errout does not free the buffer.
SendFailLeaks(i) ==
  /\ rpc[i] = "send"
  /\ KeepOrDrop(i)
  /\ UNCHANGED <<setVars, hifState, mqVars, busReq, devVars, mainVars>>

\* mq_send fails: errout frees the buffer.
SendFail(i) ==
  /\ rpc[i] = "send"
  /\ heap' = heap \ {Head(rbuf[i]).sn}
  /\ KeepOrDrop(i)
  /\ UNCHANGED <<setVars, hifState, mq, lost, busReq, devVars, mainVars>>

-----------------------------------------------------------------------------
(* The device and the BUS_REQ interrupt.                                   *)

\* Mutant: the handler knows I2C only.
PulseI2cOnly(i) ==
  busReq' = IF inited /\ i \in BusIfs /\ hifType = "I2C"
            THEN [busReq EXCEPT !["I2C"] = @ + 1] ELSE busReq

\* bus_req_handler posts the semaphore of the interface selected at the time
\* of the pulse; there is one pin for I2C and SPI.
Pulse(i) ==
  busReq' = IF inited /\ i \in BusIfs /\ hifType \in BusIfs
            THEN [busReq EXCEPT ![hifType] = @ + 1] ELSE busReq

\* The device puts a frame out; UART bytes nobody has the port open for are gone.
Emit(i, k, c) ==
  /\ nextSn <= MaxFrames
  /\ nextSn' = nextSn + 1
  /\ wire' = IF i = "UART" /\ rpc[i] \in {"off", "dead"} THEN wire
             ELSE [wire EXCEPT ![i] =
                     Append(@, [sn |-> nextSn, kind |-> k, cmd |-> c, hif |-> i])]
  /\ Pulse(i)
  /\ UNCHANGED <<setVars, hifState, mqVars, recvVars, mainVars>>

\* The answer to a command, on the interface it came by.
Respond(i) ==
  \E c \in pending[i] :
    /\ Emit(i, "res", c)
    /\ pending' = [pending EXCEPT ![i] = @ \ {c}]

\* An event, or a frame damaged on its way.
Noise(i) ==
  /\ \E k \in FrameKinds \ {"res"} : Emit(i, k, 0)
  /\ UNCHANGED pending

-----------------------------------------------------------------------------

\* The steps that carry a called command to its end, and calls that fail.
MainStep ==
  \/ WriteHeader \/ BodyRefused \/ WriteOk \/ SetWait \/ ApplyConf \/ EvtTimeout
  \/ Pop \/ PopTimeout \/ SetIdle
MainFault == WriteFail \/ PopError

Console ==
  \/ \E k \in CmdKinds : Call(k)
  \/ \E i \in Ifs : ChgIf(i)
  \/ \E on \in BOOLEAN : DbgRecv(on)
  \/ CmdDeinit
  \/ CmdInit

RecvStep(i) ==
  \/ TakeToken(i) \/ BusRead(i) \/ SpiReadIdle(i) \/ UartRead(i) \/ DbgDump(i)
  \/ Reject(i) \/ Notify(i) \/ Discard(i) \/ Admit(i) \/ Send(i)
RecvFault(i) == AdmitFail(i) \/ SendFail(i)

Device(i) == Respond(i) \/ Noise(i)

Next ==
  \/ MainStep \/ MainFault \/ Console
  \/ \E i \in Ifs : RecvStep(i) \/ RecvFault(i) \/ Device(i)

Spec == Init /\ [][Next]_vars

\* NuttX runs every ready task in the end and both waits of a command have
\* timeouts; the device and the user promise nothing, and no call has to fail.
Fairness == WF_vars(MainStep) /\ \A i \in Ifs : WF_vars(RecvStep(i))
FairSpec == Spec /\ Fairness

\* Steady operation: INIT once, before the device says anything, then commands
\* over one interface; no call fails, no task is replaced, and the device, which
\* may have the UART connected too, uses no other bus than the selected one.
SteadyNext ==
  \/ CmdInit
  \/ MainStep \/ \E k \in CmdKinds : Call(k)
  \/ \E i \in Ifs :
       RecvStep(i) \/ (inited /\ i \in {"UART", hifType} /\ Device(i))

SteadySpec == Init /\ [][SteadyNext]_vars /\ Fairness

-----------------------------------------------------------------------------
(* Properties.                                                             *)

Senders == {i \in Ifs : rpc[i] = "send"}
SendingSn(i) == Head(rbuf[i]).sn
Sns(s) == {s[k].sn : k \in DOMAIN s}
Distinct(s) == \A j, k \in DOMAIN s : s[j].sn = s[k].sn => j = k

\* Every malloc'd dataframe buffer has exactly one owner: a queue entry, a
\* task inside push_dataframe, or (the leak of DEINIT and DBGRECV) nobody.
\* So nothing is freed twice, read after it was freed, or leaked on the way
\* from push_dataframe to pop_dataframe, whoever fails or is deleted.
BufferOwnership ==
  /\ heap = Sns(mq) \cup {SendingSn(i) : i \in Senders} \cup lost
  /\ Distinct(mq)
  /\ \A i, j \in Senders : SendingSn(i) = SendingSn(j) => i = j
  /\ \A i \in Senders : SendingSn(i) \notin Sns(mq) \cup lost
  /\ Sns(mq) \cap lost = {}

\* Why it holds: the frames of an interface, in its task's buffer and then on
\* the wire, stand in the order they were put out, are nobody else's, and have
\* no dataframe buffer yet, but for the one being sent.
OnLine(i) == Sns(rbuf[i]) \cup Sns(wire[i])
InOrder(s) == \A j, k \in DOMAIN s : j < k => s[j].sn < s[k].sn

LinesInOrder ==
  \A i \in Ifs :
    /\ InOrder(rbuf[i]) /\ InOrder(wire[i])
    /\ \A a \in Sns(rbuf[i]), b \in Sns(wire[i]) : a < b
LinesApart ==
  /\ \A i \in Ifs : OnLine(i) \subseteq 1 .. nextSn - 1
  /\ \A i, j \in Ifs : i # j => OnLine(i) \cap OnLine(j) = {}
NoBufferYet ==
  /\ heap \subseteq 1 .. nextSn - 1
  /\ \A i \in Ifs :
       OnLine(i) \cap heap \subseteq (IF i \in Senders THEN {SendingSn(i)} ELSE {})
LineInv == LinesInOrder /\ LinesApart /\ NoBufferYet

\* What a command is given is a response that passed both checks or, on SPI
\* only, a frame whose header did not: never an event, never damaged data.
ReplyFromReceiver == reply = NoFrame \/ reply.kind = "res" \/ Garbled(reply)

\* If every other command that was sent has had its own answer popped, then
\* the response popped now answers the running command: the channel as such
\* neither repeats nor confuses answers (host_if_bs.c, the receive tasks);
\* only commands that return without theirs (CHGSTAT, DBGSEND, a timeout, a
\* discarded answer) can put it out of step.
PairedReply ==
  [][pc = "pop" /\ reply'.kind = "res" /\ owed \subseteq {cur}
       => reply'.cmd = cur]_vars

\* A receive task never drops the answer a command is blocked for in
\* pop_dataframe, unless push_dataframe failed: the flag is raised before the
\* pop and lowered after it on every path.
NoDiscardInPop ==
  [][\A i \in Ifs :
       rpc[i] = "got" /\ Head(rbuf[i]).kind = "res" /\ Head(rbuf[i]).cmd = cur
         /\ pc = "pop" => ~Discard(i)]_vars

\* A called command returns to the console, however the device behaves and
\* wherever the receive tasks are stuck: both waits have a timeout.  (SpiBus
\* is about the lock that a write takes on SPI.)
CommandReturns == pc # "idle" ~> pc = "idle"

\* Steady operation of one I2C or SPI interface: the semaphore counts the
\* frames that wait to be read (less the one being read), so the task neither
\* sleeps on a frame nor, on SPI, reads where there is none.
TokensMatchFrames ==
  \A i \in BusIfs :
    Len(wire[i]) = busReq[i] + (IF rpc[i] = "read" THEN 1 ELSE 0)

\* In steady operation every frame the device holds for I2C or SPI is read in
\* the end, unless the task is stuck in mq_send behind a full queue.
FramesAreRead ==
  \A i \in BusIfs : wire[i] # <<>> ~> wire[i] = <<>> \/ rpc[i] = "send"

\* The frames on their way to a command, and the channel they make up.
Air == (UNION {ToSet(wire[i]) \cup ToSet(rbuf[i]) : i \in Ifs}) \cup ToSet(mq)

Channel == INSTANCE ReplyChannel WITH air <- Air

\* Wire, receive tasks, queue and pop implement ReplyChannel: no frame is
\* delivered twice, made up or overtaken by a later one of its interface.
ImplementsChannel == Channel!Spec

-----------------------------------------------------------------------------
(* What comments and messages of the source say, and the code does not do. *)

\* "Invalid header.(SPI)" (host_if_spi.c:152): such a frame is no response.
NoInvalidHeaderDelivered == reply = NoFrame \/ reply.kind = "res"
=============================================================================
