---------------------------- MODULE UartReceiver ----------------------------
(***************************************************************************)
(* uart_recv_task (host_if_uart.c) byte by byte: how frames are found in   *)
(* what read() returns, which begins and ends anywhere, in a local buffer  *)
(* of LOCAL_BUFF_SZ bytes; with the uart_open of other calls, which        *)
(* flushes the driver under the task, and DBGRECV, which replaces it.  A   *)
(* byte is its position in what the device has sent.  The device is        *)
(* external; that part of a frame, or of two, passes for a header or for   *)
(* a frame by chance is left out.                                          *)
(***************************************************************************)
EXTENDS Integers, Sequences

CONSTANTS
  HeaderSize,  \* GHIFP_HEADER_SIZE
  BufSz,       \* LOCAL_BUFF_SZ
  OprLens,     \* operand lengths the device uses
  MaxStream    \* bound: bytes the device sends

ASSUME SizeAssumption == HeaderSize \in Nat \ {0} /\ BufSz \in Nat /\ HeaderSize <= BufSz
ASSUME OprLensAssumption == OprLens \subseteq Nat
ASSUME StreamAssumption == MaxStream \in Nat

\* GHIFP_FRAME_SIZE
FrameSize(n) == IF n = 0 THEN HeaderSize ELSE HeaderSize + n + 1

\* A frame stands in the stream as the record of its kind at its first byte and
\* Inside at the others.  Only operands can be damaged as "baddata" is.
Frames ==
  {f \in [oprLen : OprLens, kind : {"res", "evt", "badhdr", "baddata"}] :
     f.kind = "baddata" => f.oprLen # 0}
Inside == [oprLen |-> 0, kind |-> "inside"]

VARIABLES
  stream,     \* bytes the device has sent or is sending
  arrived,    \* number of them that have reached the driver
  drv,        \* the driver's: arrived and not yet read
  buf,        \* g_uart_recv_buf, the first total_sz bytes
  stat,       \* recv_stat
  oprLen,     \* opr_len
  pc,         \* where the task is: in one of its two read(), or checking
  dbg,        \* g_uart_dbg_recv
  next,       \* ghost: first byte behind the frames done with
  clean       \* ghost: no byte from there on is damaged or was dropped

vars == <<stream, arrived, drv, buf, stat, oprLen, pc, dbg, next, clean>>
taskVars == <<buf, stat, oprLen, pc, next>>
devVars == <<stream, arrived>>

Positions == 1 .. MaxStream

TypeOK ==
  /\ stream \in Seq(Frames \cup {Inside}) /\ Len(stream) <= MaxStream
  /\ arrived \in 0 .. Len(stream)
  /\ drv \in Seq(Positions) /\ buf \in Seq(Positions)
  /\ Len(buf) <= BufSz
  /\ stat \in {"header", "data"} /\ oprLen \in Nat
  /\ pc \in {"read", "dump", "check"}
  /\ dbg \in BOOLEAN
  /\ next \in Nat \ {0} /\ clean \in BOOLEAN

\* The read() the task enters at the top of its loop.
Reading(d) == IF d THEN "dump" ELSE "read"

Init ==
  /\ stream = <<>> /\ arrived = 0 /\ drv = <<>>
  /\ buf = <<>> /\ stat = "header" /\ oprLen = 0
  /\ dbg \in BOOLEAN /\ pc = Reading(dbg)
  /\ next = 1 /\ clean = TRUE

\* Nothing is under way: the byte sent next begins a frame.
AtBoundary == arrived = Len(stream)

-----------------------------------------------------------------------------
(* The task.                                                               *)

\* read() returns some of the bytes there are, as many as the buffer has room
\* for; with no room it returns 0 at once, and the task tries again for ever.
Read ==
  /\ pc = "read"
  /\ \E k \in 1 .. Len(drv) :
       /\ k <= BufSz - Len(buf)
       /\ buf' = buf \o SubSeq(drv, 1, k)
       /\ drv' = SubSeq(drv, k + 1, Len(drv))
  /\ pc' = "check"
  /\ UNCHANGED <<stat, oprLen, next, clean, devVars, dbg>>

\* Debug receive mode: what is read is printed, total_sz stays what it is.
Dump ==
  /\ pc = "dump" /\ pc' = Reading(dbg)
  /\ \E k \in 1 .. Len(drv) : k <= BufSz /\ drv' = SubSeq(drv, k + 1, Len(drv))
  /\ clean' = FALSE
  /\ UNCHANGED <<buf, stat, oprLen, next, devVars, dbg>>

Consecutive(n) == \A j \in 1 .. n : buf[j] = buf[1] + j - 1

\* check_header: the first bytes are the header of a frame, undamaged.
HeaderOk ==
  /\ stream[buf[1]] # Inside /\ stream[buf[1]].kind # "badhdr"
  /\ Consecutive(HeaderSize)

\* Fewer bytes than a header, or than the frame: read on.
ShortHeader ==
  /\ pc = "check" /\ stat = "header" /\ Len(buf) < HeaderSize
  /\ pc' = Reading(dbg)
  /\ UNCHANGED <<buf, stat, oprLen, next, clean, drv, devVars, dbg>>

\* Mutant: a frame that fills the buffer is waited for.
ShortDataOrFull ==
  /\ pc = "check" /\ stat = "data"
  /\ Len(buf) < FrameSize(oprLen) \/ FrameSize(oprLen) = BufSz
  /\ pc' = Reading(dbg)
  /\ UNCHANGED <<buf, stat, oprLen, next, clean, drv, devVars, dbg>>

ShortData ==
  /\ pc = "check" /\ stat = "data" /\ Len(buf) < FrameSize(oprLen)
  /\ pc' = Reading(dbg)
  /\ UNCHANGED <<buf, stat, oprLen, next, clean, drv, devVars, dbg>>

GoodHeader ==
  /\ pc = "check" /\ stat = "header" /\ Len(buf) >= HeaderSize /\ HeaderOk
  /\ stat' = "data" /\ oprLen' = stream[buf[1]].oprLen
  /\ UNCHANGED <<buf, pc, next, clean, drv, devVars, dbg>>

\* Mutant: a bad header drops nothing.
DropAllKeeps ==
  /\ pc' = Reading(dbg) /\ stat' = "header"
  /\ UNCHANGED <<buf, next, clean, oprLen, drv, devVars, dbg>>

\* total_sz = 0: the bytes behind the bad frame go with it.  From here on the
\* stream is whole again if the bytes to come begin a frame.
DropAll ==
  /\ buf' = <<>> /\ stat' = "header" /\ pc' = Reading(dbg)
  /\ next' = arrived + 1 - Len(drv)
  /\ clean' = (AtBoundary /\ drv = <<>>)
  /\ UNCHANGED <<oprLen, drv, devVars, dbg>>

BadHeader ==
  /\ pc = "check" /\ stat = "header" /\ Len(buf) >= HeaderSize /\ ~HeaderOk
  /\ DropAll

\* check_data: all bytes there and undamaged; without operands there is no
\* check.
DataOk == oprLen = 0 \/ (stream[buf[1]].kind # "baddata" /\ Consecutive(FrameSize(oprLen)))

\* Mutant: recv_stat is left at the data of the frame that was dropped.
BadDataInData ==
  /\ pc = "check" /\ stat = "data" /\ Len(buf) >= FrameSize(oprLen) /\ ~DataOk
  /\ buf' = <<>> /\ pc' = Reading(dbg)
  /\ next' = arrived + 1 - Len(drv)
  /\ clean' = (AtBoundary /\ drv = <<>>)
  /\ UNCHANGED <<stat, oprLen, drv, devVars, dbg>>

BadData ==
  /\ pc = "check" /\ stat = "data" /\ Len(buf) >= FrameSize(oprLen) /\ ~DataOk
  /\ DropAll

\* A whole frame, undamaged, heads the buffer.
Complete(k) ==
  /\ stat = "data" /\ Len(buf) >= FrameSize(oprLen) /\ DataOk
  /\ IF k = "evt" THEN stream[buf[1]].kind = "evt" ELSE stream[buf[1]].kind # "evt"

\* Mutant: total_sz becomes 0 when a frame is done with.
RemoveAll ==
  /\ next' = buf[1] + FrameSize(oprLen)
  /\ buf' = <<>>
  /\ stat' = "header" /\ oprLen' = 0 /\ pc' = Reading(dbg)
  /\ UNCHANGED <<clean, drv, devVars, dbg>>

\* Mutant: the checksum behind the operands stays in the buffer.
RemoveKeepsChecksum ==
  /\ next' = buf[1] + FrameSize(oprLen)
  /\ buf' = SubSeq(buf, HeaderSize + oprLen + 1, Len(buf))
  /\ stat' = "header" /\ oprLen' = 0 /\ pc' = Reading(dbg)
  /\ UNCHANGED <<clean, drv, devVars, dbg>>

\* The frame is done with: what lies behind it moves to the front, and is not
\* looked at before the next read.
Remove ==
  /\ next' = buf[1] + FrameSize(oprLen)
  /\ buf' = SubSeq(buf, FrameSize(oprLen) + 1, Len(buf))
  /\ stat' = "header" /\ oprLen' = 0 /\ pc' = Reading(dbg)
  /\ UNCHANGED <<clean, drv, devVars, dbg>>

\* The callback prints the event.
Notify == pc = "check" /\ Complete("evt") /\ Remove

\* The response is pushed, which may take as long as the queue is full, or
\* thrown away.
Respond == pc = "check" /\ Complete("res") /\ Remove

\* push_dataframe fails: everything stays as it is, to be tried again behind
\* the next read.
PushFail ==
  /\ pc = "check" /\ Complete("res")
  /\ pc' = Reading(dbg)
  /\ UNCHANGED <<buf, stat, oprLen, next, clean, drv, devVars, dbg>>

-----------------------------------------------------------------------------
(* The other calls and the device.                                         *)

\* uart_open of a write, a debug write or change_baudrate: TCSAFLUSH.
Open ==
  /\ drv # <<>>
  /\ drv' = <<>> /\ clean' = FALSE
  /\ UNCHANGED <<taskVars, devVars, dbg>>

\* DBGRECV sets the mode and restart_task replaces the task: a frame the old one
\* handles in between it may as well have handled before.  The new one opens the
\* port, and begins with an empty buffer.
DbgRecv ==
  /\ dbg' \in BOOLEAN
  /\ buf' = <<>> /\ stat' = "header" /\ oprLen' = 0 /\ pc' = Reading(dbg')
  /\ drv' = <<>>
  /\ next' = arrived + 1
  /\ clean' = AtBoundary
  /\ UNCHANGED devVars

\* The device begins a frame.
Emit ==
  /\ AtBoundary
  /\ \E f \in Frames :
       /\ Len(stream) + FrameSize(f.oprLen) <= MaxStream
       /\ stream' = stream \o [j \in 1 .. FrameSize(f.oprLen) |-> IF j = 1 THEN f ELSE Inside]
       /\ clean' = (clean /\ f.kind \in {"res", "evt"})
  /\ UNCHANGED <<arrived, drv, taskVars, dbg>>

Arrive ==
  /\ ~AtBoundary
  /\ arrived' = arrived + 1
  /\ drv' = Append(drv, arrived + 1)
  /\ UNCHANGED <<stream, taskVars, clean, dbg>>

-----------------------------------------------------------------------------

Scan == ShortHeader \/ BadHeader \/ GoodHeader \/ ShortData \/ BadData \/ Notify

Next ==
  \/ Read \/ Dump \/ Scan \/ Respond \/ PushFail
  \/ Open \/ DbgRecv \/ Emit \/ Arrive

Spec == Init /\ [][Next]_vars

\* The task runs; nothing is assumed of a push, of the calls, or the device.
Fairness == WF_vars(Read) /\ WF_vars(Dump) /\ WF_vars(Scan)
FairSpec == Spec /\ Fairness

-----------------------------------------------------------------------------
(* Properties.                                                             *)

\* What is handled as a frame is one frame of the device's, whole, undamaged
\* and none before the last, wherever reads, flushes and failed pushes cut the
\* stream: recv_stat and opr_len, which outlive a read, are never those of an
\* earlier frame (uart_recv_task).
HandlesWholeFrames ==
  [][Notify \/ Respond =>
       LET f == stream[buf[1]]
       IN  /\ f.kind \in {"res", "evt"} /\ oprLen = f.oprLen
           /\ Consecutive(FrameSize(f.oprLen))
           /\ next <= buf[1]]_vars

\* From one moment when nothing was under way on, as long as every frame is
\* undamaged and nobody flushes the driver or deletes the task, no byte is lost,
\* repeated or displaced: the buffer and the driver hold exactly what has arrived
\* behind the frames done with.
NothingLost ==
  clean =>
    /\ Len(buf) + Len(drv) = arrived + 1 - next
    /\ \A j \in 1 .. Len(buf) : buf[j] = next + j - 1
    /\ \A j \in 1 .. Len(drv) : drv[j] = next + Len(buf) + j - 1

\* And no undamaged frame is thrown away with a damaged one unless it stands in
\* the stream behind it without a pause: as long as nothing is damaged or
\* dropped, no check ever fails, wherever read() cuts the stream.
DropsOnlyDamage == [][clean => ~(BadHeader \/ BadData)]_vars

\* The frame in hand will never fit; or it is a response that could not be
\* pushed or is still being pushed.
TooLong == stat = "data" /\ FrameSize(oprLen) > BufSz
Unpushed == Complete("res")

\* The buffer runs full, after which read() returns 0 for ever, only for one of
\* two reasons: a header that announces more than LOCAL_BUFF_SZ bytes, or a
\* response that came when the rest of the buffer was filled by later frames and
\* whose push failed.  A backlog of frames alone never fills it.
FullForAReason == pc = "read" /\ Len(buf) = BufSz => TooLong \/ Unpushed

\* What has arrived is all read, but for those two reasons or a push that
\* blocks.
BytesAreRead == drv # <<>> ~> drv = <<>> \/ TooLong \/ Unpushed
=============================================================================
