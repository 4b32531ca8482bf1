----------------------------- MODULE RawCommands -----------------------------
(***************************************************************************)
(* I2CWRITE, and CMD over I2C and SPI (ghifp_main.c, gacrux_cmd.c): a      *)
(* command of the user's own, checked against the table OprLength, built   *)
(* on the stack, written in one piece or, over SPI, in up to three, and    *)
(* read for an answer whatever became of it.  Over SPI the command that    *)
(* wakes the device is tried again while none comes.  (CMD over UART is a  *)
(* DBGSEND: HostIf.)  The device is external: any piece may be lost on it, *)
(* as when it sleeps, and it answers what it took at most once, or never.  *)
(***************************************************************************)
EXTENDS Integers, Sequences, FiniteSets

CONSTANTS
  Lens,      \* numbers of operands given
  MaxTries,  \* one more than the tries the loop of CMD adds
  MaxCalls   \* bound: commands in a behaviour

ASSUME LensAssumption == Lens \subseteq Nat
ASSUME TriesAssumption == MaxTries \in Nat \ {0}

\* OprLength: how many operands a command takes, -1 for any number, -99 for a
\* command there is not.  A number in the gap of the table has 0; one beyond
\* its end has what stands there in memory.
Unused == -99
OprLength ==
  [chgstat |-> {1}, plain |-> {0}, pair |-> {2}, text |-> {-1}, unused |-> {Unused},
   gap |-> {0}, beyond |-> {Unused, -1, 0, 2}]

\* What the buffer on the stack can hold.
Junk == [call |-> 0, op |-> "junk", len |-> 0]

VARIABLES
  path,    \* "whole": gacrux_cmd_i2cwrite, "split": gacrux_cmd_spiwrite
  op,      \* bin_cmd
  entry,   \* its entry in the table
  len,     \* opr_len
  wakes,   \* opr[0] == 2
  buf,     \* buf, and what a call leaves of it on the stack
  pc,      \* where the command is
  k,       \* which piece of the frame is next
  tries,   \* gacrux_cmd_*write called so often
  found,   \* the read returned a response
  flag,    \* g_host_if_state is WAIT_RESPONSE
  replies, \* the queue
  n,       \* commands called
  part,    \* device: the header whose operands are to come, or Junk
  reqs,    \* device: commands taken and not yet answered
  wire,    \* device: its answer, on the way: none or one
  did,     \* ghost: what the device has taken since the call
  skipped  \* ghost: since the call a header was lost on the device while it
           \* still had an earlier call's

callVars == <<path, op, entry, len, wakes, n>>
devVars  == <<part, reqs, wire, did, skipped>>
vars == <<callVars, buf, pc, k, tries, found, flag, replies, devVars>>

Init ==
  /\ path = "whole" /\ op = "plain" /\ entry = 0 /\ len = 0 /\ wakes = FALSE /\ n = 0
  /\ buf = Junk /\ pc = "idle" /\ k = 1 /\ tries = 0 /\ found = FALSE
  /\ flag = FALSE /\ replies = <<>>
  /\ part = Junk /\ reqs = {} /\ wire = {} /\ did = <<>>
  /\ skipped = FALSE

-----------------------------------------------------------------------------
(* The command.                                                            *)

\* Without operands opr[0] is no element of opr and may be anything.
Call ==
  /\ pc = "idle" /\ n < MaxCalls
  /\ path' \in {"whole", "split"}
  /\ op' \in DOMAIN OprLength
  /\ entry' \in OprLength[op']
  /\ len' \in Lens
  /\ wakes' \in BOOLEAN
  /\ n' = n + 1 /\ pc' = "check" /\ tries' = 1 /\ did' = <<>> /\ skipped' = FALSE
  /\ UNCHANGED <<buf, k, found, flag, replies, part, reqs, wire>>

\* Mutant: over I2C, too, any negative entry will do.
AcceptedIfNegative == entry = len \/ entry < 0

\* "OPR Length does not match with the command" otherwise.  Over SPI the entry
\* of a command that there is not passes, too.
Accepted == entry = len \/ entry = -1 \/ (path = "split" /\ entry < 0)

\* The command is refused, but read for an answer like any other.
Refuse ==
  /\ pc = "check" /\ ~Accepted
  /\ pc' = "read"
  /\ UNCHANGED <<callVars, buf, k, tries, found, flag, replies, devVars>>

\* cmd_create.  Its refusal of a command that there is not goes unnoticed, and
\* buf, which nobody has initialized, is sent as it is: what an earlier command
\* has left there or anything else.
Create ==
  /\ pc = "check" /\ Accepted
  /\ buf' \in IF entry = Unused THEN {buf, Junk} ELSE {[call |-> n, op |-> op, len |-> len]}
  /\ pc' = "send" /\ k' = 1
  /\ UNCHANGED <<callVars, tries, found, flag, replies, devVars>>

\* host->write is called for each of these.
Pieces ==
  CASE path = "whole" -> <<"frame">>
    [] path = "split" /\ len = 0 -> <<"header">>
    [] path = "split" /\ len > 0 /\ op = "chgstat" /\ wakes -> <<"header", "body", "wake">>
    [] OTHER -> <<"header", "body">>

\* What the device takes for a command: a frame, a header without operands, or
\* operands as many as the header it has announced, whichever call that was of:
\* they bring nothing but a checksum of their own.  Anything else is lost on it.
Complete(piece) ==
  /\ buf # Junk
  /\ \/ piece = "frame"
     \/ piece = "header" /\ buf.len = 0
     \/ piece = "body" /\ part # Junk /\ part.len = len /\ buf.len = len

\* The header that the piece completes, or is.
HeaderOf(piece) == IF piece = "body" THEN part ELSE buf

Take(piece) ==
  /\ part' = IF piece = "header" /\ buf.len > 0 THEN buf ELSE Junk
  /\ IF Complete(piece)
     THEN /\ reqs' = reqs \cup {[to |-> buf.call, try |-> tries]}
          /\ did' = Append(did, [header |-> HeaderOf(piece), oprs |-> buf.call])
     ELSE UNCHANGED <<reqs, did>>
  /\ UNCHANGED <<wire, skipped>>

Lose(piece) ==
  /\ skipped' = (skipped \/ (piece = "header" /\ part # Junk /\ part.call # n))
  /\ UNCHANGED <<part, reqs, wire, did>>

\* One host->write up to where the bytes are out.
Send ==
  /\ pc = "send"
  /\ Take(Pieces[k]) \/ Lose(Pieces[k])
  /\ pc' = "raise"
  /\ UNCHANGED <<callVars, buf, k, tries, found, flag, replies>>

\* Mutant: the flag is raised once, with the last piece.
RaiseLast ==
  /\ pc = "raise"
  /\ flag' = (flag \/ k = Len(Pieces))
  /\ IF k < Len(Pieces) THEN k' = k + 1 /\ pc' = "send" ELSE k' = k /\ pc' = "read"
  /\ UNCHANGED <<callVars, buf, tries, found, replies, devVars>>

\* Each host->write ends by set_host_if_state(HOST_IF_STATE_WAIT_RESPONSE).
Raise ==
  /\ pc = "raise"
  /\ flag' = TRUE
  /\ IF k < Len(Pieces) THEN k' = k + 1 /\ pc' = "send" ELSE k' = k /\ pc' = "read"
  /\ UNCHANGED <<callVars, buf, tries, found, replies, devVars>>

\* The transfer fails; over SPI nobody would notice.
WriteFails ==
  /\ pc = "send" /\ path = "whole"
  /\ pc' = "read"
  /\ UNCHANGED <<callVars, buf, k, tries, found, flag, replies, devVars>>

\* pop_dataframe.
Pop ==
  /\ pc = "read" /\ replies # <<>>
  /\ replies' = Tail(replies)
  /\ found' = TRUE /\ pc' = "lower"
  /\ UNCHANGED <<callVars, buf, k, tries, flag, devVars>>

\* It times out, or fails for another reason.
PopFails ==
  /\ pc = "read"
  /\ found' = FALSE /\ pc' = "lower"
  /\ UNCHANGED <<callVars, buf, k, tries, flag, replies, devVars>>

\* Mutant: whatever finds no answer is tried again.
AgainAnything == path = "split" /\ ~found /\ tries < MaxTries

\* "RETRY"
Again == path = "split" /\ op = "chgstat" /\ wakes /\ ~found /\ tries < MaxTries

\* Mutant: tries are not counted.
LowerUncounted ==
  /\ pc = "lower"
  /\ flag' = FALSE
  /\ pc' = IF Again THEN "check" ELSE "idle"
  /\ UNCHANGED <<callVars, buf, k, tries, found, replies, devVars>>

\* set_host_if_state(HOST_IF_STATE_IDLE); the command ends or is tried again.
Lower ==
  /\ pc = "lower"
  /\ flag' = FALSE
  /\ IF Again THEN tries' = tries + 1 /\ pc' = "check" ELSE tries' = tries /\ pc' = "idle"
  /\ UNCHANGED <<callVars, buf, k, found, replies, devVars>>

-----------------------------------------------------------------------------
(* The device and the receive task.                                        *)

Answer ==
  /\ wire = {}
  /\ \E q \in reqs : wire' = {q} /\ reqs' = reqs \ {q}
  /\ UNCHANGED <<callVars, buf, pc, k, tries, found, flag, replies, part, did, skipped>>

\* A response is queued if the flag says so and thrown away if not.
Receive ==
  /\ \E r \in wire : replies' = IF flag THEN Append(replies, r) ELSE replies
  /\ wire' = {}
  /\ UNCHANGED <<callVars, buf, pc, k, tries, found, flag, part, reqs, did, skipped>>

-----------------------------------------------------------------------------

Console == Refuse \/ Create \/ Send \/ Raise \/ WriteFails \/ Pop \/ PopFails \/ Lower

Next == Call \/ Console \/ Answer \/ Receive

Spec == Init /\ [][Next]_vars

\* The console task runs, and its read has a timeout.
FairSpec == Spec /\ WF_vars(Console)

-----------------------------------------------------------------------------
(* Properties.                                                             *)

\* Whatever is lost of a frame that goes out in pieces, and however often it is
\* tried, the device takes nothing but the command called, with as many operands
\* as the table wants: except that
\*  - the operands may follow an earlier call's header that announces as many, if
\*    the device had one left without operands and has since lost a header of this
\*    call: it then carries out the earlier command on this one's operands;
\*  - over SPI a command that there is not sends what lies on the stack, which may
\*    be an earlier command anew.
TakenAsCalled ==
  \A i \in DOMAIN did :
    \/ /\ did[i].oprs = n /\ did[i].header.len = len /\ (entry = len \/ entry = -1)
       /\ did[i].header.call = n \/ (path = "split" /\ len > 0 /\ skipped)
    \/ path = "split" /\ entry = Unused

\* A command whose answer is late or lost is not carried out again, but for the
\* one that wakes the device, and that once for each time it is tried.
TakenOnce ==
  Len(did) <= IF path = "split" /\ op = "chgstat" /\ wakes THEN tries ELSE 1

\* The flag goes up with the header, before the device has the operands, so that
\* over SPI the answer to a command with operands is never too early: while the
\* command runs, none to its present try is thrown away.
SplitAnswerKept ==
  [][\A r \in wire \ wire' :
       path = "split" /\ len > 0 /\ pc # "idle" /\ r = [to |-> n, try |-> tries]
         => replies' = Append(replies, r)]_vars

\* A command returns, also one that is refused and retried because of what stands
\* where it has no operand.
CmdReturns == pc = "check" ~> pc = "idle"
=============================================================================
