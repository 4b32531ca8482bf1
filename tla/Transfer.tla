------------------------------ MODULE Transfer ------------------------------
(***************************************************************************)
(* TXFW, DBGTXFW and BININPUT (gacrux_cmd.c) cut a file into packets and   *)
(* send each in a transaction.  Sizes, counts and the fields of a packet   *)
(* are the code's, the contents of the file are left out.  The device and  *)
(* what HostIf says of a transaction are external: a packet may be         *)
(* refused before it is sent, lost, taken or refused by the device, and    *)
(* its answer lost, late, or read by a later packet.  No other command     *)
(* runs meanwhile.                                                         *)
(***************************************************************************)
EXTENDS Integers, Sequences

CONSTANTS
  Sizes,      \* file sizes
  Divs,       \* division sizes that SETDIVSZ and DBGTXFW are given
  MaxSize,    \* the largest file size
  BinDiv,     \* BIN_INPUT_ONE_PACKET_SZ
  Word,       \* the numbers of a uint16_t, 2^16
  Byte,       \* the numbers of a uint8_t, 2^8
  MaxAnswers  \* bound: answers not yet read

ASSUME WidthAssumption == Word \in Nat \ {0} /\ Byte \in 1 .. Word
ASSUME SizeAssumption ==
  MaxSize \in Nat /\ Sizes \subseteq 0 .. MaxSize /\ Divs \subseteq 0 .. Word - 1
ASSUME BinDivAssumption == BinDiv \in Nat \ {0}
ASSUME AnswerAssumption == MaxAnswers \in Nat \ {0}

Cmds == {"TXFW", "DBGTXFW", "BININPUT"}

TXFW_OPC   == 1
TX_BIN_OPC == 7

\* Mutant: a firmware packet has the opcode that tx_fw_res_check expects.
OpcTxfw(c) == IF c = "BININPUT" THEN TX_BIN_OPC ELSE TXFW_OPC

\* The opcode of each command's packets.
Opc(c) == IF c = "DBGTXFW" THEN TXFW_OPC ELSE TX_BIN_OPC

\* What an unsigned type of w numbers makes of n.
Low(n, w) == IF n < w THEN n ELSE n % w

\* Mutant: a last packet that is full counts as one more.
PacketsRoundedUp(n, d) == IF d = 0 THEN 1 ELSE n \div d + 1

\* Packets that n bytes take; dividing by 0 gives 0 on this processor unless
\* it traps.
Packets(n, d) ==
  IF d = 0 THEN (IF n = 0 THEN 0 ELSE 1)
  ELSE n \div d + (IF n % d = 0 THEN 0 ELSE 1)

\* gacrux_cmd_debug_tx_fw counts in a uint16_t, and sends two packets more if
\* pkt_no_type is PKT_NO_TYPE_OVER_TOTAL_NUM.
LoopNum(c, n, d, over) ==
  IF c = "DBGTXFW" THEN Low(Packets(n, d), Word) + (IF over THEN 2 ELSE 0)
  ELSE Packets(n, d)

Answers == [taken : BOOLEAN, opc : {TXFW_OPC, TX_BIN_OPC}]

VARIABLES
  div,     \* g_tx_fw_one_packet_sz
  echoes,  \* the device answers with the opcode of the packet, always
  pc,      \* where the command is
  cmd,     \* which one it is
  size,    \* file_sz, virtual_file_sz
  part,    \* the division size it uses
  loopNum, \* loop_num
  i,       \* packets done
  total,   \* total_tx_len
  pktLen,  \* pkt_len
  ret,     \* ret; "unset" before the first assignment
  air,     \* answers not yet read, oldest first
  out,     \* ghost: bytes put on the bus in order, from the file's first on
  refused, \* ghost: a packet of the transfer was lost or not taken
  late     \* ghost: when it began, an answer to an earlier command was unread

vars == <<div, echoes, pc, cmd, size, part, loopNum, i, total, pktLen, ret, air,
          out, refused, late>>
callVars == <<cmd, size, part, loopNum, late>>
devVars == <<air, out, refused>>

Pcs == {"idle", "loop", "packet", "pop", "crashed"}

TypeOK ==
  /\ div \in 0 .. Word - 1 /\ echoes \in BOOLEAN
  /\ pc \in Pcs /\ cmd \in Cmds
  /\ size \in Nat /\ part \in Nat
  /\ loopNum \in Nat /\ i \in 0 .. loopNum
  /\ total \in 0 .. size /\ pktLen \in 0 .. size
  /\ ret \in {"unset", "ok", "error"}
  /\ air \in Seq(Answers) /\ Len(air) <= MaxAnswers
  /\ out \in 0 .. size /\ refused \in BOOLEAN /\ late \in BOOLEAN

Init ==
  /\ div \in Divs /\ echoes \in BOOLEAN
  /\ pc = "idle" /\ cmd = "TXFW" /\ size = 0 /\ part = 1
  /\ loopNum = 0 /\ i = 0 /\ total = 0 /\ pktLen = 0 /\ ret = "error"
  /\ air = <<>> /\ out = 0 /\ refused = FALSE /\ late = FALSE

-----------------------------------------------------------------------------

\* SETDIVSZ: a size that makes packets too long is warned of and kept.
SetDivisionSize ==
  /\ pc = "idle"
  /\ div' \in Divs
  /\ UNCHANGED <<echoes, pc, callVars, i, total, pktLen, ret, devVars>>

\* The division size of a command: DBGTXFW is given its own.
Division(c) == CASE c = "TXFW" -> {div} [] c = "DBGTXFW" -> Divs [] OTHER -> {BinDiv}

\* The file is measured and opened and the command's buffer allocated.
Call ==
  /\ pc = "idle" /\ pc' = "loop"
  /\ cmd' \in Cmds /\ size' \in Sizes
  /\ part' \in Division(cmd')
  /\ \E over \in BOOLEAN : loopNum' = LoopNum(cmd', size', part', over)
  /\ i' = 0 /\ total' = 0 /\ pktLen' = 0 /\ ret' = "unset"
  /\ out' = 0 /\ refused' = FALSE /\ late' = (air # <<>>)
  /\ UNCHANGED <<div, echoes, air>>

\* One of the three failed: nothing is sent.
CallFails ==
  /\ pc = "idle"
  /\ ret' = "error"
  /\ UNCHANGED <<div, echoes, pc, callVars, i, total, pktLen, devVars>>

\* The division by zero traps.
DivisionTraps ==
  /\ pc = "idle"
  /\ \E c \in Cmds : 0 \in Division(c)
  /\ pc' = "crashed"
  /\ UNCHANGED <<div, echoes, callVars, i, total, pktLen, ret, devVars>>

\* pkt_len
NextLen == IF part < size - total THEN part ELSE size - total

\* Mutant: a packet that cannot be read is skipped.
ReadFailSkips ==
  /\ pc = "loop" /\ i < loopNum /\ cmd # "DBGTXFW"
  /\ i' = i + 1
  /\ UNCHANGED <<div, echoes, pc, callVars, total, pktLen, ret, devVars>>

\* The file cannot be read.  BININPUT has sent the header of the packet by then.
ReadFail ==
  /\ pc = "loop" /\ i < loopNum /\ cmd # "DBGTXFW"
  /\ ret' = "error" /\ pc' = "idle"
  /\ UNCHANGED <<div, echoes, callVars, i, total, pktLen, devVars>>

\* Mutant: total_tx_len is not advanced.
BuildPacketUncounted ==
  /\ pc = "loop" /\ i < loopNum
  /\ pktLen' = NextLen
  /\ pc' = "packet"
  /\ UNCHANGED <<div, echoes, callVars, i, total, ret, devVars>>

\* The packet is read and counted as transferred.  BININPUT has put its header
\* on the bus by a write of its own, whose result is lost.
BuildPacket ==
  /\ pc = "loop" /\ i < loopNum
  /\ pktLen' = NextLen
  /\ total' = total + NextLen
  /\ pc' = "packet"
  /\ UNCHANGED <<div, echoes, callVars, i, ret, devVars>>

\* The frame is refused or the write fails.  The part of a packet that BININPUT
\* sends after its header is no frame, and only SPI sends it.
Refuse ==
  /\ pc = "packet"
  /\ ret' = "error" /\ pc' = "idle"
  /\ UNCHANGED <<div, echoes, callVars, i, total, pktLen, devVars>>

\* The fields of the packet: its number and the number of packets.  BININPUT
\* writes 16 bits of the first and then reads the file over the upper 8.
FieldWidth == IF cmd = "BININPUT" THEN Byte ELSE Word
PktNum == Low(i + 1, FieldWidth)
TotalPktNum == Low(loopNum, FieldWidth)

\* Answers the device may give to a packet that it takes or does not.
Replies(took) ==
  [taken : {took}, opc : IF echoes THEN {Opc(cmd)} ELSE {TXFW_OPC, TX_BIN_OPC}]

\* The packet goes out; it begins where total_tx_len stood.  The device takes
\* it or not, and answers or not.
Transmit ==
  /\ pc = "packet"
  /\ out' = IF out = total - pktLen THEN total ELSE out
  /\ \E took \in BOOLEAN :
       /\ refused' = (refused \/ ~took)
       /\ \/ UNCHANGED air
          \/ Len(air) < MaxAnswers /\ \E a \in Replies(took) : air' = Append(air, a)
  /\ pc' = "pop"
  /\ UNCHANGED <<div, echoes, callVars, i, total, pktLen, ret>>

\* Nothing comes in time, whatever is on its way.
Timeout ==
  /\ pc = "pop"
  /\ ret' = "error" /\ pc' = "idle"
  /\ UNCHANGED <<div, echoes, callVars, i, total, pktLen, devVars>>

\* Mutant: the error code of the response is not looked at.
ResCheckOpcOnly(a) == a.opc = TXFW_OPC

\* tx_fw_res_check
ResCheck(a) == a.opc = TXFW_OPC /\ a.taken

\* The response popped is the oldest that was not thrown away.  BININPUT does
\* not look at it.
Pop ==
  /\ pc = "pop"
  /\ \E k \in 1 .. Len(air) :
       /\ air' = SubSeq(air, k + 1, Len(air))
       /\ IF cmd = "BININPUT" \/ ResCheck(air[k])
          THEN ret' = "ok" /\ pc' = "loop" /\ i' = i + 1
          ELSE ret' = "error" /\ pc' = "idle" /\ UNCHANGED i
  /\ UNCHANGED <<div, echoes, callVars, total, pktLen, out, refused>>

\* After the last packet; the result of no packets is what ret happened to be.
Return ==
  /\ pc = "loop" /\ i = loopNum
  /\ pc' = "idle"
  /\ UNCHANGED <<div, echoes, callVars, i, total, pktLen, ret, devVars>>

Next ==
  \/ SetDivisionSize \/ Call \/ CallFails \/ DivisionTraps
  \/ ReadFail \/ BuildPacket \/ Refuse \/ Transmit \/ Timeout \/ Pop \/ Return

Spec == Init /\ [][Next]_vars

-----------------------------------------------------------------------------
(* Properties.                                                             *)

\* DBGTXFW keeps the number of packets in a uint16_t.
Truncated == cmd = "DBGTXFW" /\ Packets(size, part) >= Word

\* "Completed all transfers!!" is printed, and 0 returned, only when every byte
\* of the file has been put on the bus, once and in order, whatever packet could
\* not be read, was refused or timed out; unless DBGTXFW lost count of the
\* packets or the division size is 0 (gacrux_cmd_tx_fw and its two copies).
CompletedMeansCopied ==
  pc = "idle" /\ ret = "ok" => out = size \/ part = 0 \/ Truncated

\* And only when the device has taken every packet, unless an answer to an
\* earlier command was still on its way when this one began: that one is taken
\* for the answer to the first packet, and the last packet's is never read.
\* BININPUT does not look at the answers (tx_fw_res_check, bin_input_res_check).
CompletedMeansAccepted ==
  pc = "idle" /\ ret = "ok" /\ cmd # "BININPUT" /\ ~late => ~refused

\* The packet whose number is the announced total is the one that ends the file,
\* and no other is, as long as the total fits its field: 16 bits for TXFW, 8 for
\* BININPUT.
EndIsMarked ==
  pc = "pop" /\ cmd # "DBGTXFW" /\ part # 0 /\ TotalPktNum = loopNum =>
    (PktNum = TotalPktNum <=> total = size)

\* A device that answers with the opcode it was sent, as bin_input_res_check
\* takes for granted, never lets a TXFW complete: its packets are sent with
\* TX_BIN_OPC and tx_fw_res_check wants TXFW_OPC.
EchoStopsTransfer == echoes /\ cmd = "TXFW" /\ ~late => ret # "ok"

\* The bytes that loopNum packets hold, at most those of the file.
Goal == IF loopNum * part < size THEN loopNum * part ELSE size

Result ==
  IF pc \in {"loop", "packet", "pop"} THEN "none"
  ELSE [ok |-> "completed", error |-> "failed", unset |-> "unknown"][ret]

Copy == INSTANCE FileCopy WITH goal <- Goal, copied <- out, result <- Result

\* The three commands implement FileCopy: no byte is sent before those in front
\* of it, twice or beyond the end, and each command completes or fails.
ImplementsCopy == Copy!Spec
=============================================================================
