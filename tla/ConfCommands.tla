---------------------------- MODULE ConfCommands ----------------------------
(***************************************************************************)
(* UARTCONF, I2CCONF and SPICONF (gacrux_cmd.c): both sides of one         *)
(* interface have a setting, its baud rate, speed or word size, and the    *)
(* command is to change both.  The host changes its own between the write  *)
(* and the read, whatever becomes of them.  A setting is the number that   *)
(* the commands carry.  The device is external: it may be late, refuse, or *)
(* be reset, and answers by its new setting.                               *)
(***************************************************************************)
EXTENDS Integers, Sequences

CONSTANTS
  Buses,    \* of UART, I2C, SPI
  Codes,    \* the operands that are tried
  Flows,    \* and those for the flow control
  MaxCmds   \* bound: configuration commands

\* The last operand of the protocol, and of those the host can set itself to.
OprMax   == [UART |-> 19, I2C |-> 2, SPI |-> 2]
SpeedMax == [UART |-> 10, I2C |-> 1, SPI |-> 1]

\* conv_uart_speed_number, conv_i2c_speed_number, conv_spi_dfs_number: 14400
\* bits per second is not supported.
Supported(b) == 0 .. SpeedMax[b] \ IF b = "UART" THEN {2} ELSE {}

VARIABLES
  bus,      \* g_hif_type
  conf,     \* g_uart_baudrate, g_i2c_freq or g_spi_dfs
  line,     \* what the host's hardware is set to
  dev,      \* the device's setting
  pc,       \* where the command is
  code,     \* its operand
  flow,     \* UARTCONF's other one
  ret,      \* its ret
  n,        \* commands sent
  wait,     \* g_host_if_state is WAIT_RESPONSE
  reqs,     \* commands the device has received and not yet obeyed
  wire,     \* its answer, on the way: none or one
  replies,  \* answers in the queue
  reset,    \* ghost: the device was reset since the command was sent
  same      \* ghost: the command asks for what the device had when nothing was under way

cmdVars == <<code, flow, n, same>>
vars == <<bus, conf, line, dev, pc, ret, wait, reqs, wire, replies, reset, cmdVars>>

Init ==
  /\ bus \in Buses /\ conf \in Codes \cap Supported(bus) /\ line = conf /\ dev = conf
  /\ pc = "idle" /\ code = conf /\ flow = 0 /\ ret = "ok" /\ n = 0
  /\ wait = FALSE /\ reqs = <<>> /\ wire = {} /\ replies = <<>>
  /\ reset = FALSE /\ same = FALSE

-----------------------------------------------------------------------------
(* The command.                                                            *)

\* uart_open sets the port to g_uart_baudrate and flushes what has arrived;
\* the other interfaces take their setting with each transfer, or as it changes.
Open(setting) ==
  IF bus = "UART" THEN line' = setting /\ wire' \in {wire, {}}
                  ELSE line' = line /\ UNCHANGED wire

\* The command is written "by old configuration".  It may be lost, and is on
\* UART if the device has another speed.
Write ==
  /\ pc = "idle" /\ n < MaxCmds
  /\ \E c \in Codes, f \in Flows :
       /\ bus = "UART" \/ f = 0
       /\ code' = c /\ flow' = f
       /\ same' = (c = dev /\ reqs = <<>>)
       /\ \/ reqs' = reqs
          \/ (bus = "UART" => conf = dev) /\ reqs' = Append(reqs, [to |-> n + 1, code |-> c])
  /\ Open(conf)
  /\ n' = n + 1 /\ pc' = "apply" /\ ret' = "ok" /\ wait' = TRUE /\ reset' = FALSE
  /\ UNCHANGED <<bus, conf, dev, replies>>

\* The port cannot be opened or the transfer fails.
WriteFails ==
  /\ pc = "idle" /\ ret' = "err"
  /\ UNCHANGED <<bus, conf, line, dev, pc, wait, reqs, wire, replies, reset, cmdVars>>

ValidOpr == code <= OprMax[bus] /\ flow <= 1

\* "Invalid OPR, Not change the internal setting."
InvalidOpr ==
  /\ pc = "apply" /\ ~ValidOpr
  /\ pc' = "read"
  /\ UNCHANGED <<bus, conf, line, dev, ret, wait, reqs, wire, replies, reset, cmdVars>>

\* set_config does not know the setting, and the command goes on to read.
Unsupported ==
  /\ pc = "apply" /\ ValidOpr /\ code \notin Supported(bus)
  /\ pc' = "read" /\ ret' = "err"
  /\ UNCHANGED <<bus, conf, line, dev, wait, reqs, wire, replies, reset, cmdVars>>

\* Mutant: the variable is set only if the port could be opened.
ChangeOpenFirst ==
  /\ pc = "apply" /\ ValidOpr /\ code \in Supported(bus)
  /\ pc' = "read"
  /\ IF bus = "UART"
     THEN \/ conf' = code /\ Open(code) /\ ret' = "ok"
          \/ ret' = "err" /\ UNCHANGED <<conf, line, wire>>
     ELSE conf' = code /\ line' = code /\ ret' = "ok" /\ UNCHANGED wire
  /\ UNCHANGED <<bus, dev, wait, reqs, replies, reset, cmdVars>>

\* change_baudrate, change_speed, change_dfs.  On UART the variable is changed
\* before the port is opened with it, which may fail.
Change ==
  /\ pc = "apply" /\ ValidOpr /\ code \in Supported(bus)
  /\ pc' = "read"
  /\ conf' = code
  /\ IF bus = "UART"
     THEN \/ Open(code) /\ ret' = "ok"
          \/ ret' = "err" /\ UNCHANGED <<line, wire>>
     ELSE line' = code /\ ret' = "ok" /\ UNCHANGED wire
  /\ UNCHANGED <<bus, dev, wait, reqs, replies, reset, cmdVars>>

\* "Read response by new configuration": the oldest in the queue.
Read ==
  /\ pc = "read" /\ replies # <<>>
  /\ ret' = IF Head(replies).ok THEN "ok" ELSE "err"
  /\ replies' = Tail(replies)
  /\ pc' = "idle" /\ wait' = FALSE
  /\ UNCHANGED <<bus, conf, line, dev, reqs, wire, reset, cmdVars>>

\* Mutant: after a failed read ret is that of set_config.
ReadFailsUnnoticed ==
  /\ pc = "read"
  /\ pc' = "idle" /\ wait' = FALSE
  /\ UNCHANGED <<bus, conf, line, dev, ret, reqs, wire, replies, reset, cmdVars>>

\* The pop times out or fails, or what it finds is the answer to another kind of
\* command.  Of res_len < 0, where res_len is unsigned, only the
\* *_res_check notices that it has no response's length.
ReadFails ==
  /\ pc = "read" /\ ret' = "err"
  /\ pc' = "idle" /\ wait' = FALSE
  /\ UNCHANGED <<bus, conf, line, dev, reqs, wire, replies, reset, cmdVars>>

\* SETDFS (change_dfs_old) changes the host alone.
SetDfs ==
  /\ pc = "idle" /\ bus = "SPI"
  /\ conf' \in {0, 1} /\ line' = conf'
  /\ UNCHANGED <<bus, dev, pc, ret, wait, reqs, wire, replies, reset, cmdVars>>

\* Another command is written (HostIf).
OtherWrite ==
  /\ pc = "idle" /\ bus = "UART"
  /\ Open(conf)
  /\ UNCHANGED <<bus, conf, dev, pc, ret, wait, reqs, replies, reset, cmdVars>>

-----------------------------------------------------------------------------
(* The receive task and the device.                                        *)

\* A response is queued if the host waits for one.  It may be lost, and is on
\* UART if the host has another speed.
Receive ==
  /\ \E r \in wire :
       \/ /\ wait /\ (bus = "UART" => line = r.at)
          /\ replies' = Append(replies, r)
       \/ UNCHANGED replies
  /\ wire' = {}
  /\ UNCHANGED <<bus, conf, line, dev, pc, ret, wait, reqs, reset, cmdVars>>

Answer(accepted) ==
  /\ reqs # <<>> /\ wire = {}
  /\ LET q == Head(reqs)
     IN  /\ dev' = IF accepted THEN q.code ELSE dev
         /\ wire' = {[to |-> q.to, ok |-> accepted, at |-> dev']}
  /\ reqs' = Tail(reqs)
  /\ UNCHANGED <<bus, conf, line, pc, ret, wait, replies, reset, cmdVars>>

Obey == Answer(TRUE)
Refuse == Answer(FALSE)

Reset ==
  /\ dev' \in Codes \cap Supported(bus)
  /\ reqs' = <<>> /\ wire' = {} /\ reset' = TRUE
  /\ UNCHANGED <<bus, conf, line, pc, ret, wait, replies, cmdVars>>

-----------------------------------------------------------------------------

Next ==
  \/ Write \/ WriteFails \/ InvalidOpr \/ Unsupported \/ Change \/ Read \/ ReadFails
  \/ SetDfs \/ OtherWrite
  \/ Receive \/ Obey \/ Refuse \/ Reset

Spec == Init /\ [][Next]_vars

-----------------------------------------------------------------------------
(* Properties.                                                             *)

Returns == pc = "read" /\ pc' = "idle"
Settable == ValidOpr /\ code \in Supported(bus)

\* A configuration command that returns 0 for a setting the host supports leaves
\* the host's variable, its hardware and the device with that setting, although
\* nothing is rolled back and ret is overwritten twice on the way: unless the
\* device was reset meanwhile, or the answer popped is an earlier command's.
SuccessMeansAgreement ==
  [][Returns /\ ret' = "ok" /\ Settable /\ ~reset
       /\ (replies # <<>> => Head(replies).to = n)
     => conf = code /\ line = code /\ dev = code]_vars

\* Whatever a lost answer, a refusal, a reset or SETDFS has left behind, a command
\* for the setting the device has puts it right, even if the device cannot
\* read it, nothing comes back, or the port cannot be opened for the change:
\* the next write is by that setting.
ReissueAgrees ==
  [][Returns /\ same /\ Settable /\ ~reset => conf = dev]_vars
=============================================================================
