# ghifp, specified

ghifp is a console program for NuttX that controls a Gacrux device over UART, I2C or SPI: it sends
command frames, waits for response frames, reports events and loads firmware. This directory holds
TLA+ models of it, the TLC configurations that check them, and TLAPS proofs about them. Line numbers
are those of the C files; `PROJECT.json` maps each definition to the lines it stands for.

## 1. The system

| Part | State | Operations | Talks to |
| --- | --- | --- | --- |
| Console, `ghifp_main.c` | `g_is_cmd_init`, chosen interface `g_hif_type` | one command line at a time; INIT, DEINIT, CHGIF | Gacrux commands, factory |
| Gacrux commands, `gacrux_cmd.c` | command and response buffers; the semaphore of `wait_chgstat_evt` | build a frame, write it, wait, check the response; cut files into packets | function table of the chosen interface |
| Factory, `host_if_fctry.c` | none of its own | create and delete queue, semaphores, interrupt, interfaces | base, the three interfaces |
| Base, `host_if_bs.c` | queue `ghifp_mq` of pointers to malloc'd frames, flag `g_host_if_state` (IDLE/WAIT), BUS_REQ semaphores, task ids | push and pop a response, read and set the flag, start and restart a receive task, interrupt handler | all interfaces |
| UART, `host_if_uart.c` | receive task, its local buffer and offsets, driver buffer, baud rate, debug mode | open/write/close per command; read bytes, find frames, check, push or notify | base, device |
| I2C, `host_if_i2c.c` | receive task, local buffer, speed, debug mode | read header, then chunks of 512 bytes, each on a BUS_REQ | base, device |
| SPI, `host_if_spi.c` | as I2C; word size `g_spi_dfs`, bus lock `g_mutex` | the same with chunks of 1024 bytes and 8- or 16-bit words | base, device |
| Frame format, `gacrux_protocol_def.h` | none | sizes and checks of a frame | interfaces, commands |
| Device (external) | commands it has received | answers at most once, at any time or never; events; damaged frames; one BUS_REQ per chunk | interfaces |

A command runs in the console task. It calls `transaction` (write, then raise WAIT, then pop, then
lower to IDLE) or the parts of it. Meanwhile a receive task of higher priority fetches frames; a
frame that passes `check_header` and `check_data` and is no event is *pushed* if the flag says WAIT
and thrown away if it says IDLE. Push allocates a buffer and sends its address through the queue,
blocking while the queue is full; pop waits up to two seconds, copies and frees.

What is hard here:

- the flag is the only link between command and answer: frames carry no sequence number, so an
  answer that comes early is thrown away and one that comes late is the next command's;
- three tasks, an interrupt and the console share the flag, the queue, the semaphores and (SPI) a
  lock, while DEINIT and DBGRECV delete a task wherever it happens to be;
- one BUS_REQ pin serves two buses, and its handler believes `g_hif_type`;
- chunk arithmetic must agree for each length from 0 to 4090 about how many BUS_REQs to wait for;
- failure paths that leave the flag raised, a buffer allocated, a descriptor or a lock behind.

What makes each part correct: *base* - a buffer has one owner and is freed once, the flag is raised
while a command is in pop, semaphore counts and frames agree; *interfaces* - frames in order, none
twice, none invented, none left lying, only checked ones delivered, reads within the buffer, a frame
read whole before it is checked; *commands* - each returns, and gets its own answer; a transfer that
reports completion has sent every byte, and a setting that reports success is in force on both
sides; *factory* - a failed INIT undoes what it did, nothing is released while a task uses it;
*lock* - one user of the bus at a time, and nobody left holding it.

`hazards` in `PROJECT.json` lists where each of these can go wrong, with the properties that watch
it.

## 2. The modules

| Module | What it is | Proofs |
| --- | --- | --- |
| `HostIf` | base, the three interfaces, commands, console and factory, one whole frame at a time; device | `HostIfProof` |
| `ReplyChannel` | abstract: what `HostIf` promises a command, without tasks, queue and buffers | |
| `ChunkedRead` | how the I2C and SPI tasks read one frame: the step `BusRead` of `HostIf`, byte for byte | `ChunkedReadProof` |
| `UartReceiver` | how the UART task finds frames in what `read()` returns: `UartRead`, `Reject`, `Consume` of `HostIf`, byte for byte | `UartReceiverProof` |
| `SpiBus` | `g_mutex` between the SPI task, the console and DBGRECV | `SpiBusProof` |
| `Transfer` | TXFW, DBGTXFW and BININPUT: a file cut into packets | `TransferProof` |
| `FileCopy` | abstract: what a file transfer promises, without packets | |
| `ConfCommands` | UARTCONF, I2CCONF, SPICONF: one setting on both sides | `ConfCommandsProof` |
| `RawCommands` | CMD and I2CWRITE: any command, checked by a table, sent in pieces, tried again | `RawCommandsProof` |
| `Lifecycle` | INIT, DEINIT and DBGRECV statement by statement; process ids | `LifecycleProof` |
| `MC...` | values for TLC | |

The modules meet at these places. `HostIf` is the whole; the others each take one part of it apart
and treat the rest as `HostIf` shows it to be. `ChunkedRead` and `UartReceiver` refine what `HostIf`
does in one step of a receive task. `SpiBus` looks at the lock around those steps. `Transfer` and
`ConfCommands` sit above: a `transaction` there is what `HostIf` lets it be - refused, timed out, or
answered by the oldest response, which need not be the right one. `RawCommands` opens the calls of
kind "raw", `Lifecycle` `CmdInit`, `CmdDeinit` and `DbgRecv`.

### HostIf

A frame is a record: `sn`, its place in the order in which frames are put out (it also names the
malloc'd buffer that comes to hold it); `kind`, the outcome of the receiver's checks; `cmd`, the
command it answers (0: none); `hif`, the interface. The bytes are abstracted, the checks are not.

| State | Code |
| --- | --- |
| `inited`, `hifType`, `hifState`, `dbgRecv` | `g_is_cmd_init`, `g_hif_type`, `g_host_if_state`, `g_*_dbg_recv` |
| `mq`, `heap`, `lost` | the queue; buffers allocated; of those, the ones whose owner was deleted |
| `busReq` | `g_i2c_bus_req_sem`, `g_spi_bus_req_sem` |
| `rpc`, `rbuf` | program counter and local buffer of each receive task |
| `wire`, `pending`, `nextSn` | device: frames put out and unread, commands it may still answer |
| `pc`, `kind`, `cur`, `owed`, `reply` | console task: where it is, in which kind of command, its number, commands that never read their answer, what this one was given |

The commands fall into six kinds by the order in which they write, wait and pop (`CmdKinds`). A
command goes `Call`, `WriteOk`, `SetWait`, `Pop`, `SetIdle`; off that path lie `WriteHeader` and
`BodyRefused` (a frame that goes out in two writes), `ApplyConf` (the host's side changes its
setting before it reads the answer), `EvtTimeout` (CHGSTAT), `WriteFail`, `PopTimeout`, `PopError`.
A receive task goes `TakeToken`, `BusRead` or `SpiReadIdle` or `UartRead`, then `Reject`, `Notify`,
`Discard`, or `Admit` and `Send` (the two halves of push, between which it may block or be deleted),
with `AdmitFail` and `SendFail`; in debug mode `DbgDump`. `CmdInit`, `CmdDeinit`, `ChgIf` and
`DbgRecv` are enabled whenever the console is idle. `Respond` and `Noise` are the device; the
interrupt is part of them (`Pulse`). Each packet of a file transfer and each wake-up try of CMD is a
`Call`.

Details that matter and are kept: `uart_open` flushes the driver (TCSAFLUSH), in the middle of the
receive task's frame if need be; UART drops its whole buffer after a bad frame; one frame is looked
at per UART read, however many came with it; a SPI frame with an invalid header goes on as if it had
no operands; SPI reads idle bytes where I2C retries; INIT and DEINIT do not reset the flag.

`HostIf` takes a frame to be read in one step and on one BUS_REQ, which is so for up to 512 bytes
(I2C) or 1024 (SPI).

### ReplyChannel

A set `air` of frames on their way, from which a frame may be lost, may have its header damaged, or
may be delivered, at most once and only if none older of its interface is still to come. `HostIf`
implements it under the mapping `air <- Air`: all frames on a wire, in a task's buffer and in the
queue.

### ChunkedRead

For each bus: the header, `num` full chunks, and what is left, with the code's own arithmetic
(`RecSize`, `Num`, `ChunkRead`, `TailRead`) and all numbers at their true size. `SetDfs` is SPICONF
in the console task, between any two transfers. `AskFails` is the wait between two chunks failing,
after which the code's `continue` reads on. `RereadChunk` is the SPI loops' comparison of a size
with what they take for an error code: after the first chunk if 16-bit words rounded it up, and
always for the second and later ones, where `while (ret != 0)` (line 192) waits for `spi_read` to
return 0, which it never does. No frame of more than 2048 bytes gets through on SPI;
`FrameIsChecked` therefore ends where `skew` begins. Ghosts `taken`, `top`, `hurried` and `skew`
only record.

### UartReceiver

A byte is its position in what the device has sent; `stream` says what stands there, the first byte
of a frame of some kind or the inside of one. `drv` is the driver's buffer, `buf` the first
`total_sz` bytes of `g_uart_recv_buf`, `stat` and `oprLen` are `recv_stat` and `opr_len`. `Read`
takes any number of bytes, up to the room there is; then exactly one of `ShortHeader`, `BadHeader`,
`GoodHeader`, `ShortData`, `BadData`, `Notify`, `Respond`, `PushFail` applies, as in one turn of the
loop. `check_header` holds of bytes that are the beginning of an undamaged frame without a gap
(`HeaderOk`), `check_data` of a whole one (`DataOk`). `Open` is any `uart_open` beside the task,
`DbgRecv` a restart, `Dump` the debug receive mode. Ghosts: `next`, the first byte behind the frames
done with; `clean`, whether anything was damaged or dropped from there on.

What lies behind a frame is moved to the front and looked at only after the next `read()`, which
returns when more bytes come (`Remove`): a complete response may so wait for traffic that has
nothing to do with it.

### SpiBus

`owner` of the mutex, program counters of task and console, `chunks` the transfers a frame still
takes. `Unlock` by a task that does not hold the mutex happens in four places (158 with 163, 221,
257); what it does depends on how NuttX was configured, which the repository's defconfig leaves
open, so both outcomes are run, and likewise for the mutex of a deleted task. `stolen` records who
was still using a mutex that another released.

### Transfer and FileCopy

The three commands differ in the division size, the width of the counters, whether they read a file,
and whether they look at the answer; otherwise they are one loop: `BuildPacket`, `Transmit`, `Pop`,
with `ReadFail`, `Refuse` and `Timeout`. `total`, `pktLen`, `loopNum`, `ret` are the code's; `ret`
is unset until the first packet assigns it (line 901). `out` is what has gone out without a gap. A
division size of 0 either traps (`DivisionTraps`) or yields 0 as on a Cortex-M whose trap is off
(`Packets`). `FileCopy` knows only how many bytes are to be sent, how many were, in order, and how
it ended. For it BININPUT's header, which is a write of its own, is part of the packet. Of the
number of a BININPUT packet 8 bits go out: the file is read over the upper byte (`FieldWidth`;
1684).

### ConfCommands

One setting on both sides: `conf`, the host's variable; `line`, what its hardware is set to; `dev`,
the device's. A command writes by the old setting (`Write`), changes the host's side whatever
happened (`InvalidOpr`, `Unsupported`, `Change`) and reads by the new one (`Read`, `ReadFails`),
overwriting `ret` each time. UART bytes at another speed do not arrive; on I2C and SPI the host
clocks both sides and they do. `SetDfs` changes one side only. The device may refuse, be late, or be
reset.

### RawCommands

The command's number is abstracted to the kinds of entry that `OprLength` has for it; `entry` is
what is read there, which for a number beyond the table is whatever stands in memory. `Accepted` is
the length check, weaker over SPI than over I2C; `Create` is `cmd_create` with `buf` left as it lies
on the stack when it refuses; `Pieces` are the calls of `write` that follow, one or, over SPI, up to
three; then `Send` and `Raise` alternate. `Pop`, `PopFails` and `Lower` are the read, which a
refused command makes, too, and `Again` the loop of CMD that wakes the device. A piece may be lost
on the device (`Lose`); what it has of a header waits in `part`. Header and operands are writes of
their own, and the operands bring only their checksum: the device is taken to complete by them
whatever header waits for as many, also an earlier call's (`Complete`), and to forget that header
when anything else comes. Ghosts: `did`, what the device has taken since the call, with the header
and the operands each of its call; `skipped`, that it lost a header while an earlier call's waited.
CMD over UART hands its operands to DBGSEND as if they were text.

### Lifecycle

One action per statement that acquires or releases something, in the order of the code: `InitCall`
to `CreateTask`, the `errout` of the interface (`CreateErrout`) and of the factory (`Teardown`, then
`Skip` or `StopTask`, `FreeBuf`, `Close`, `DisableBusReq`, `DestroyBusSems`, `UnlinkQueue`,
`UndoInit`), and the same way down for DEINIT. `tasks` is NuttX's table of process ids, in which
other programs come and go (`OtherTask`) and a UART task that cannot open its port leaves without a
word (`UartTaskEnds`). `sem_destroy` of a valid semaphore does not fail.

## 3. The runs

| Run | Instance | Shows |
| --- | --- | --- |
| `uart` | UART; queue of 1, 3 commands, 3 frames | `BufferOwnership`, `ImplementsChannel`, `PairedReply`, `NoDiscardInPop`, `CommandReturns` |
| `buses` | I2C and SPI; queue of 1, 1 command, 2 frames | `TypeOK`, `ReplyFromReceiver`, `LineInv` |
| `steady` | I2C and SPI, one of them selected; INIT once, no faults; queue of 1, 3 commands, 3 frames | `TokensMatchFrames`, `FramesAreRead` |
| `chunks` | I2C and SPI, all lengths 0..4090 | buffer bounds, whole frames, announced reads, one BUS_REQ per chunk, termination |
| `uart_bytes` | header of 2, buffer of 4, frames of 2, 4 and 5 bytes, 8 bytes in all | whole frames only, nothing lost, when the buffer is full, everything read |
| `spibus` | frames of up to 5 transfers, each behaviour of the mutex | exclusion on the bus, who holds the lock, nobody waits for ever |
| `transfer` | files of 0..7 bytes, division sizes 0..3, 16 bits count to 5 and 8 bits to 3 | what completion means, for sender and device; the last packet; `FileCopy` |
| `conf` | all buses, 5 operands, 3 flow control operands, 3 commands | agreement after success, and after a command issued again |
| `raw` | each kind of table entry, 0 to 2 operands, 2 commands, 3 tries | nothing taken but what was called (two exemptions, below), nothing twice, no answer too early over SPI, commands return |
| `lifecycle` | 4 process ids | tasks have what they use, process ids are right, a failed INIT leaves nothing |

Six modules have a type invariant, `TypeOK`, each proved for every value of the constants (section
4); that of `HostIf` is checked by a run as well.

What the less obvious ones say. `OneRequestPerChunk` and `ReadsAnnounced` relate the task's count of
chunks to the device's. `OthersSpared`: a wrong process id is used only by an interface that had
lost its task, in one of the three ways that `quit` names. `HeaderExcludesWrite`: the bus is shared
only if a surplus unlock was obeyed; `HeldWhereUsed`: and none leaves the lock behind.
`WriteGetsBus` fails, and says so itself, once DBGRECV has deleted the holder.
`CompletedMeansAccepted` exempts a transfer that began with an old answer unread: the first packet
takes it for its own and the last packet's answer is never seen. `EchoStopsTransfer`: against a
device that answers with the opcode it was sent TXFW cannot succeed, as its packets carry TX_BIN_OPC
(863) and the check wants TXFW_OPC (329). `ReissueAgrees`: whatever has gone wrong between the two
settings, the same command again mends the host's side. `TakenAsCalled` has two exemptions, and both
do happen: the device lost the operands of an earlier call and then the header of this one, and
carries out the earlier command on this one's operands; and a number that stands for no command,
over SPI, sends the earlier command again. Nothing less than these leads there. `SplitAnswerKept`:
the early answer that is thrown away (below) cannot happen to a command that SPI sends in two
pieces, the flag being up since the first. `CmdReturns` covers a refused wake-up, whose tries depend
on an operand that was not given. `DropsOnlyDamage`: no cut that `read()` makes in a sound stream
ever makes a check fail.

Bounds. `MaxCmds` and `MaxFrames` end a behaviour and bound nothing else. Three commands are the
least in which an answer can be two commands late, three frames the least that fill a queue of one,
block a second sender and leave one on the wire. A queue of 1 rather than 8 makes "full" reachable
and changes nothing in the code's logic. Two interfaces suffice for CHGIF, as the code knows only
the selected one and the others. `MaxTokens` = 2 lets the device announce ahead. `ChunkedRead` has
no bound on sizes: every length is run. `UartReceiver`: of the three frame sizes one fits with room
to spare, one fills the buffer, one is too long; 8 bytes hold a dropped frame and two short ones
behind it, or two that fill the buffer. `Transfer`: the widths are small so that packet counts
exceed 8 and 16 bits with a file of 7 bytes; two unread answers are one old and one new.
`ConfCommands` uses the code's own tables, with an operand for each case: supported, not supported
by the host (14400; 32 bits), unknown to the host, invalid. `SpiBus`: a frame of 4096 bytes takes
five transfers, header included. `RawCommands`: with three tries in place of ten a late answer can
be one or two tries late; the second command meets what the first has left with the device, in the
queue and on the stack. `Lifecycle`: one process id more than there are receive tasks leaves one
for another program to take and give back. The theorems below hold for every value of these
constants.

CHECK_DEADLOCK is off in four runs. `steady` and `raw`: all commands issued, all frames read, and
neither restart nor INIT to follow - the system rests. `transfer`: a trapping division ends the
program. `spibus`: after DBGRECV has deleted the holder of the mutex the console and the new task
may both wait for it for ever, which is the exception that `WriteGetsBus` names.

Fairness. `HostIf` assumes weak fairness of the console task's steps and of each receive task's:
NuttX runs every ready task in the end, and both waits of a command (`mq_timedreceive`,
`sem_timedwait`) have timeouts, so that `PopTimeout` and `EvtTimeout` are steps of the task. No
fairness is assumed of the device, the user, or faults. `SteadySpec`, of which `TokensMatchFrames`
and `FramesAreRead` speak, restricts the steps: INIT comes once and first, no call fails, no task is
replaced, and the device uses UART and the selected bus only. A task replaced between its BUS_REQ
and its read, a pulse before INIT or one of the bus that is not selected (`Pulse`) makes count and
frames disagree. `ChunkedRead` assumes weak fairness of the task and of the device's pulses: the
code waits for chunks without a timeout, and without the pulses nothing could be promised.
`UartReceiver` assumes it of the task's reads and checks, not of a push, which may block. `SpiBus`
assumes that transfers under the lock end, being DMA transfers, and strong fairness of the two
LOCKs: NuttX gives a released mutex to a task that waits for it before the one that released it runs
on. `RawCommands` assumes weak fairness of the console task, whose read has a timeout, and nothing
of the device. `SpiBus` assumes nothing of the chunk loops, whose waits have no timeout.

### Where code and comments disagree

| Run | Finding |
| --- | --- |
| `garbled` | `spi_recv_task` reports "Invalid header.(SPI)" and hands the frame to the command as its response all the same |
| `full_chunk` | I2C: of a frame that ends in a full chunk, other than its first, the last 512 bytes are never read |

Each such run checks only the property that states the comment; the exact quotation is in
`PROJECT.json`. The passing properties say what is left: `ReplyFromReceiver` exempts SPI's invalid
headers and nothing else, `NoDiscardInPop` says that no answer is lost once the command is in pop,
`CheckedIsWhole` that frames are read whole but for the full last chunk.

Seen on the way, without a run: the flag is raised only after the write has returned
(`host_if_uart.c`, 497), so that an answer in between is thrown away, where the comment at 186 says
"OPC type -> Normal response, push to queue."; the response that a command reads "by new
configuration" (`gacrux_cmd.c`, 1087) is the oldest in the queue, another command's if that one left
without it (`PairedReply`, `SuccessMeansAgreement` and `CompletedMeansAccepted` carry this as their
condition); the SPI loop of line 192 (above); a number that stands for no command, which CMD over
SPI lets pass (`gacrux_cmd.c`, 1238: -99 is negative) and then sends an uninitialized buffer for;
the header and the operands of a command that SPI sends in two writes (`gacrux_cmd.c`, 1257 and
1266), which nothing on the wire pairs, so that one command's header may get another's operands; the
gap of `OprLength` from 0x8a to 0x99, whose entries are 0 and not -99; the unsigned `res_len` of
1016 and 1213, after which only the response's length check stops a failed read; and the comments on
TOTAL_PKT_NUM_TYPE_SHIFT_PLUS and _MINUS (`gacrux_cmd.c`, 63-64), exchanged with respect to
1535-1542.

## 4. The proofs

Nothing is assumed but the named ASSUMEs on constants: `Ifs` is a nonempty set of the interfaces and
`MqMax >= 1`; `Lens` are lengths up to 4090; `HeaderSize` is positive and fits the buffer; `Word`,
`Byte` and `BinDiv` are positive, division sizes are below `Word`; `MaxChunks` and `MaxTries` are
positive, `Lens` of `RawCommands` are numbers; and bounds are numbers.

| Theorem | Inductive invariant |
| --- | --- |
| `HostIfProof!TypeCorrect` | `TypeInv`: the types; a running command has a number (`Running`); a task in `got` or `send` has a frame in its buffer (`Loaded`), without which `Head` has no type |
| `HostIfProof!RepliesChecked` | `ReplyInv`: what is in the queue (`Queued`) or being sent (`Sending`) has passed the checks |
| `HostIfProof!BuffersOwned`, `LinesKept` | `BufInv`: `TypeInv`, ownership and lines together |
| `HostIfProof!ChannelImplemented` | `ChannelInv`, below |
| `HostIfProof!RepliesInOrder` | `InAir`, of `ReplyChannel`; carried over to `HostIf` by `ChannelImplemented` |
| `HostIfProof!AnswersPaired`, `AnswersWaitedFor` | `AnswerInv`, below |
| `HostIfProof!TokensCounted` | `SteadyInv`, of `SteadySpec`, below |
| `ConfCommandsProof!SuccessAgrees`, `ReissueMends` | `ConfInv`, below |
| `ChunkedReadProof!TypeCorrect`, `BufferKept`, `NothingUnannounced`, `WholeFrames`, `RequestsCounted`, `LongSpiFramesStick` | `Progress`, below |
| `UartReceiverProof!TypeCorrect`, `NeverFullIdly`, `WholeFramesHandled` | `Inv`, below |
| `UartReceiverProof!StreamKept`, `OnlyDamageDropped` | `Inv` and `CleanInv`, below |
| `SpiBusProof!TypeCorrect`, `LockHeldByUser`, `BusExclusive` | `HeldInv`: `HeldWhereUsed`, and no task runs while the console restarts it |
| `TransferProof!TypeCorrect`, `CompletedCopies`, `EndMarked`, `Implements` | `CopyInv`, below |
| `TransferProof!CompletedAccepted`, `EchoStops` | `AnswerInv`, below |
| `RawCommandsProof!TakenIsCalled`, `NotTakenTwice`, `SplitAnswersKept` | `IInv`, below |
| `LifecycleProof!` all six | `IInv`, below |
| `HostIfProof!CommandIsFinite`, `ChunkedReadProof!FrameIsFinite`, `RawCommandsProof!CommandIsFinite` | none, `Progress`, `IInv`: what liveness rests on, below |

*Ownership* is not inductive by itself: `Admit` adds a buffer, and nothing in it says that the
buffer is new. It is, because it is named after its frame, the frame is at the head of one task's
buffer, and frames stand on their lines in order, on no other line and without a buffer until then
(`LineInv`). Conversely `Send` and `SendFail` need ownership to know that what they pass on is in
the heap and not in the queue. The two are therefore proved together.

*Channel*. `ReplyChannel` has no lines, buffers or queue, so each step of `HostIf` is first
classified by what it does to the frames of a line, which are those on the wire and in the task's
buffer (`StepLines`): they stay or go, one is spoilt, or one comes, and then the step is `Lose`,
`Damage` or `Emit`; the queue grows only by frames that leave a line (`StepQueue`). Only `Pop`
delivers. That nothing older of the same interface is still to come is `QueueInOrder` and
`QueueAhead`: the frames of an interface stand in order in the queue, and all of them before its
line. For a push to keep that, the frame pushed must be the oldest of its line, which `LineInv`
says; for a frame read from I2C or SPI to push nothing out of the buffer, that buffer must be empty
(`BusBuffer`). That a popped frame is gone for good is ownership once more. What `ReplyChannel`
promises is then proved of it alone, four actions in place of thirty: `RepliesInOrder`, that no
response is delivered twice or after a later one.

*Pairing*. `AnswerInv` adds to `ChannelInv`: every answer in the air is to a command still owed one,
and no command has two (`Settled`); a command the device may still answer is owed an answer, has
none in the air and is on one interface only (`AtDevice`); the running command is not owed anything
before its write, nor in a pop with the flag down, which only a failed write leads to (`NotSent`);
nothing has been given to it before its pop (`NoReplyYet`). So if no other command is owed an
answer, what is popped can only answer the running one; and if the flag is down in a pop, no answer
to that command exists that could be discarded. That two answers in the air with one serial number
are one comes from `LineInv` and ownership.

*Steady operation*. `SteadyInv` adds to `BufInv` the count itself, and that no task is in debug
mode: `DbgDump` would take a count and perhaps no frame. One BUS_REQ is posted for each frame put
out, as the device uses the bus that is selected; one is taken for each frame read, before it is
read.

*Settings*. `ConfInv` says what holds together although the two sides change at different moments:
requests are numbered, and the running command's is the last and carries its operand (`Numbered`);
once the device has said that it obeys the running command it has nothing else left to obey
(`Obeyed`), and the host that heard it by the new setting still has its port at it (`Heard`); the
host's variable is set before the read, whatever becomes of the port (`HostSide`). For a command
issued again: whatever the device may still obey asks for what it has already (`Asked`).

*Chunks*. `Progress` says for each place in the loop what `finished`, `num` and `taken` are in terms
of the length: the header's bytes before the first chunk (`Fresh`), `Chunk` times the chunks done
after it (`Chunks`), one BUS_REQ for each but for failed waits (`Requests`), the buffer filled up to
`finished` and, at `check_data`, to the tail (`Tops`). `NumBounds` puts `RecSize` above `Num` full
chunks and at most one more; from there each property is linear arithmetic over two constant chunk
sizes. On SPI `Chunks` also says that the second full chunk is never done with, whence
`LongSpiFramesStick`.

*UART bytes*. The driver always holds the end of what has arrived (`DrvInv`); the buffer holds
positions in order, all in front of that and behind the frames done with (`BufInv`); when
`recv_stat` is "data" the header at the front is good and `opr_len` is its own (`HeadInv`), which is
what makes `opr_len` safe to keep across reads; and what the task leaves behind when it reads is
either less than the frame in hand or a response not yet pushed (`RestInv`), which gives
`FullForAReason`. For an undamaged stream `CleanInv` adds that buffer and driver are one unbroken
piece that begins at a frame (`Boundary`) and that behind each good frame another begins
(`GoodFrom`); then `HeaderOk` and `DataOk` hold of whatever heads the buffer.

*Transfers*. After k packets min(k * part, size) bytes have been counted (`Done`), those and no
others are out, unless the command has failed, and a command returns "ok" only after `loopNum`
packets. `PacketsCover` shows that the quotient, rounded up, is the least k for which k * part
reaches the size; completion and the end mark both follow, for files and packets of any size.
`Implements` maps each action to `Start`, `Copy`, `Finish`, `Fail` or a stutter of `FileCopy`. The
device's side (`AnswerInv`): if no answer was unread at the start, at most the answer to the packet
in hand is in the air, so that the one popped says whether that packet was taken.

*Raw commands*. What lies in `buf` belongs to a call no later than the running one, and if to that
one it has its operands (`BufInv`); before the piece that completes a command the device has taken
fewer of them than there were tries, and a header that waits for operands completes none
(`CountInv`); when operands are sent, the header that waits for them is this call's, unless one of
this call was skipped (`HeaderInv`); an answer carries a number no later than the running try's, and
if that one's, over SPI with operands, the second piece is out and the flag up (`AnswerInv`).

*Lifecycle*. What is held at each statement (`Holdings`), which interfaces exist there (`Progress`,
by their order), what each owns (`Interfaces`), that tasks belong to interfaces that exist
(`TasksHosted`), and `PidsNameTasks` itself. Without the process ids the rest is not inductive: that
`StopTask` leaves no task to use the buffer freed next rests on the process id being the task's.

*Ends*. Liveness itself is out of the prover's reach, but what it rests on besides fairness is not.
`StepsLeft` counts the steps that a command, a try, or a frame still takes at most; every step of
the one concerned makes it smaller and nobody else's makes it larger. So a command is over after six
steps, a CMD or I2CWRITE after nine for each try, and a frame is at `check_data` after fifteen
unless a chunk of it is read again. What remains to TLC is that these steps are possible and fair
scheduling takes them.

Model-checked only: the liveness properties `CommandReturns`, `FramesAreRead`, `FrameIsChecked`,
`BytesAreRead`, `WriteGetsBus`, `TaskGetsLock` and `CmdReturns`. Every invariant, every action
property and both refinements that the runs check are proved as well.

## 5. Not modelled, and why

- checksum arithmetic, and chance: that damaged bytes pass a check, or that operands look like a
  header. Nothing in the protocol excludes either; a receiver that drops its buffer in the middle of
  a frame has no other way to find the next, so that no promise about recovery holds without chance
  left out;
- queue descriptors that push and pop open for each call, one of which stays open if `clock_gettime`
  fails (`host_if_bs.c`, 168);
- termios flags (`set_baudrate` adds to them what it means to set), target address (SETADDR) and SPI
  clock (SETSPICLK): values nothing else depends on;
- how the device takes a packet of BININPUT apart, whose header comes in a write of its own; the
  fields DBGTXFW sets wrongly on request;
- CMD and I2CWRITE without INIT, which they do not check (`ghifp_main.c`, 254-323): the interface
  objects are NULL then, and what a call through NULL does is not the program's to say;
- contents of the other commands, parsing, help, printing;
- build files and web page: no behaviour of the running program.

## 6. Plan

1. `UartReceiver` and `ChunkedRead` as implementations of the frame-level steps of `HostIf`, by
   refinement mappings.
2. The checksum as a function, and which damage it finds.
3. The way down of INIT and DEINIT (`Lifecycle`) ends, by a count of steps as in section 4.
