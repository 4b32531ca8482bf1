-------------------------- MODULE RawCommandsProof --------------------------
(***************************************************************************)
(* CMD and I2CWRITE, for any numbers of operands, of tries and of          *)
(* commands: what the device takes is what was called, and how often; no   *)
(* answer over SPI comes too early; and a command ends.                    *)
(***************************************************************************)
EXTENDS RawCommands, TLAPS, SequenceTheorems

USE LensAssumption, TriesAssumption

\* What stands in a buffer, what the device answers, and what it has taken.
Command == [call : Nat, op : DOMAIN OprLength \cup {"junk"}, len : Nat]
Request == [to : Nat, try : Nat]
Taken == [header : Command, oprs : Nat]

Types ==
  /\ path \in {"whole", "split"} /\ op \in DOMAIN OprLength /\ wakes \in BOOLEAN
  /\ entry \in {Unused, -1, 0, 1, 2} /\ len \in Nat /\ n \in Nat
  /\ buf \in Command /\ part \in Command
  /\ pc \in {"idle", "check", "send", "raise", "read", "lower"}
  /\ k \in {1, 2, 3} /\ tries \in Nat /\ flag \in BOOLEAN
  /\ reqs \subseteq Request /\ wire \subseteq Request
  /\ did \in Seq(Taken) /\ skipped \in BOOLEAN

\* What the buffer holds of the command that runs is that command's; what is
\* sent was accepted, and is either that or what lay on the stack.
BufInv ==
  /\ n = 0 => pc = "idle"
  /\ buf.call <= n
  /\ buf.call = n /\ n > 0 => buf.len = len /\ entry # Unused
  /\ pc \in {"send", "raise"} =>
       Accepted /\ (buf.call = n \/ (path = "split" /\ entry = Unused))

\* Only SPI writes a second piece, and only of a command with operands; the flag
\* is up by then.
Waking == path = "split" /\ op = "chgstat" /\ wakes
PieceInv ==
  /\ pc \in {"send", "raise"} => k <= Len(Pieces)
  /\ pc \in {"send", "raise"} /\ k > 1 => flag
  /\ tries > 1 => Waking

\* One try completes one command at most: as header or frame if it has no
\* operands, or with the operands that follow it.
CountInv ==
  /\ pc # "idle" => tries > 0
  /\ Len(did) <= tries
  /\ pc = "check" => Len(did) < tries
  /\ pc = "send" /\ k = 1 => Len(did) < tries
  /\ pc = "send" /\ k = 2 /\ buf.len > 0 => Len(did) < tries
  /\ pc = "raise" /\ k = 1 /\ path = "split" /\ buf.len > 0 => Len(did) < tries
  /\ part = Junk \/ part.len > 0

\* A header that waits on the device when operands are sent is the running call's,
\* unless one of this call was lost where an earlier one's waited.
HeaderInv ==
  path = "split" /\ entry # Unused /\ (pc = "raise" \/ (pc = "send" /\ k > 1)) =>
    part = Junk \/ part.call = n \/ skipped

\* A try is answered under its own number; that of a command with operands, over
\* SPI, not before the second piece is out.
Present == [to |-> n, try |-> tries]
AnswerInv ==
  /\ \A q \in reqs \cup wire : q.to <= n /\ (q.to = n => q.try <= tries)
  /\ \A q, r \in wire : q = r
  /\ Present \in reqs \cup wire /\ path = "split" /\ len > 0 /\ pc # "idle" =>
       /\ flag
       /\ pc \in {"read", "lower"} \/ (pc \in {"send", "raise"} /\ k > 1)

IInv ==
  Types /\ BufInv /\ PieceInv /\ CountInv /\ HeaderInv /\ AnswerInv /\ TakenAsCalled

-----------------------------------------------------------------------------

LEMMA PieceFacts ==
  ASSUME Types
  PROVE  /\ Len(Pieces) \in {1, 2, 3}
         /\ path = "whole" => Len(Pieces) = 1 /\ Pieces[1] = "frame"
         /\ path = "split" => Pieces[1] = "header"
         /\ path = "split" /\ len > 0 => Len(Pieces) > 1
         /\ Len(Pieces) > 1 => path = "split" /\ len > 0 /\ Pieces[2] = "body"
         /\ Len(Pieces) = 3 => Pieces[3] = "wake"
<1> USE DEF Types, Pieces
<1>1. CASE path = "whole" BY <1>1
<1>2. CASE path = "split" /\ len = 0 BY <1>2
<1>3. CASE path = "split" /\ len > 0 /\ op = "chgstat" /\ wakes BY <1>3
<1>4. CASE path = "split" /\ len > 0 /\ ~(op = "chgstat" /\ wakes) BY <1>4
<1> QED BY <1>1, <1>2, <1>3, <1>4

LEMMA SameCall ==
  UNCHANGED callVars => Pieces' = Pieces /\ Accepted' = Accepted /\ (Waking <=> Waking')
BY DEF callVars, Pieces, Accepted, Waking

\* The table has no entry below -1 but that of a command that there is not.
LEMMA Entries ==
  ASSUME NEW o \in DOMAIN OprLength, NEW e \in OprLength[o]
  PROVE  e \in {Unused, -1, 0, 1, 2}
BY DEF OprLength

\* What Send leaves, whether the device gets the piece or not.
LEMMA SendEffect ==
  ASSUME Types, BufInv, PieceInv, CountInv, Send
  PROVE  /\ UNCHANGED <<callVars, buf, k, tries, found, flag, replies, wire>>
         /\ pc' = "raise" /\ part' \in {part, buf, Junk} /\ skipped' \in BOOLEAN
         /\ part' = Junk \/ part'.len > 0
         /\ \/ UNCHANGED <<reqs, did>>
            \/ /\ reqs' = reqs \cup {[to |-> buf.call, try |-> tries]}
               /\ \E h \in {part, buf} :
                    /\ did' = Append(did, [header |-> h, oprs |-> buf.call])
                    /\ \/ path = "whole" /\ h = buf
                       \/ path = "split" /\ k = 1 /\ buf.len = 0 /\ h = buf
                       \/ /\ path = "split" /\ k = 2 /\ len > 0 /\ h = part
                          /\ part # Junk /\ part.len = len /\ buf.len = len
<1>1. /\ k \in 1 .. Len(Pieces) /\ Pieces[k] \in {"frame", "header", "body", "wake"}
      /\ path \in {"whole", "split"} /\ len \in Nat
      /\ Pieces[k] = "frame" => path = "whole"
      /\ Pieces[k] = "header" => path = "split" /\ k = 1
      /\ Pieces[k] = "body" => path = "split" /\ k = 2 /\ len > 0
  BY PieceFacts DEF Send, Types, PieceInv
<1>2. CASE Lose(Pieces[k]) BY <1>2 DEF Send, Lose, CountInv, Types
<1>3. CASE Take(Pieces[k])
  <2>1. /\ part' \in {buf, Junk} /\ (part' = Junk \/ part'.len > 0) /\ wire' = wire
        /\ skipped' \in BOOLEAN
    BY <1>3 DEF Take, Types
  <2>2. CASE ~Complete(Pieces[k]) BY <1>3, <2>1, <2>2 DEF Take, Send
  <2>3. CASE Complete(Pieces[k])
    <3> DEFINE h == HeaderOf(Pieces[k])
    <3>1. h \in {part, buf} BY DEF HeaderOf
    <3>2. \/ path = "whole" /\ h = buf
          \/ path = "split" /\ k = 1 /\ buf.len = 0 /\ h = buf
          \/ /\ path = "split" /\ k = 2 /\ len > 0 /\ h = part
             /\ part # Junk /\ part.len = len /\ buf.len = len
      BY <1>1, <2>3 DEF Complete, HeaderOf
    <3>3. /\ reqs' = reqs \cup {[to |-> buf.call, try |-> tries]}
          /\ did' = Append(did, [header |-> h, oprs |-> buf.call])
      BY <1>3, <2>3 DEF Take
    <3> HIDE DEF h
    <3> QED BY <2>1, <3>1, <3>2, <3>3 DEF Send
  <2> QED BY <2>2, <2>3
<1> QED BY <1>2, <1>3 DEF Send

LEMMA TypesStep == IInv /\ [Next]_vars => Types'
<1> SUFFICES ASSUME IInv, [Next]_vars PROVE Types'
  OBVIOUS
<1>0. Types /\ BufInv /\ PieceInv /\ CountInv BY DEF IInv
<1>9. Len(Pieces) \in {1, 2, 3} BY <1>0, PieceFacts
<1>10. Send => /\ UNCHANGED <<callVars, buf, k, tries, found, flag, replies, wire>>
               /\ pc' = "raise" /\ part' \in {part, buf, Junk} /\ skipped' \in BOOLEAN
               /\ \/ UNCHANGED <<reqs, did>>
                  \/ /\ reqs' = reqs \cup {[to |-> buf.call, try |-> tries]}
                     /\ \E h \in {part, buf} :
                          did' = Append(did, [header |-> h, oprs |-> buf.call])
  BY <1>0, SendEffect
<1> USE <1>0 DEF Types, callVars, devVars
<1>1. CASE Call
  <2>1. op' \in DOMAIN OprLength /\ entry' \in OprLength[op'] BY <1>1 DEF Call
  <2>2. entry' \in {Unused, -1, 0, 1, 2} BY <2>1, Entries
  <2>3. len' \in Nat /\ n' \in Nat /\ path' \in {"whole", "split"} /\ wakes' \in BOOLEAN
    BY <1>1 DEF Call
  <2>4. did' \in Seq(Taken) /\ tries' \in Nat /\ pc' = "check" BY <1>1 DEF Call
  <2>5. skipped' \in BOOLEAN BY <1>1 DEF Call
  <2> QED BY <1>1, <2>1, <2>2, <2>3, <2>4, <2>5 DEF Call
<1>2. CASE Create
  <2>1. Junk \in Command /\ [call |-> n, op |-> op, len |-> len] \in Command
    BY DEF Junk, Command
  <2> QED BY <1>2, <2>1 DEF Create
<1>3. CASE Send
  <2>1. Junk \in Command BY DEF Junk, Command
  <2>2. part' \in Command BY <1>3, <1>10, <2>1
  <2>3. [to |-> buf.call, try |-> tries] \in Request BY DEF Command, Request
  <2>4. \A h \in {part, buf} : Append(did, [header |-> h, oprs |-> buf.call]) \in Seq(Taken)
    <3>1. \A h \in {part, buf} : [header |-> h, oprs |-> buf.call] \in Taken
      BY DEF Taken, Command
    <3> QED BY <3>1, AppendProperties
  <2>5. reqs' \subseteq Request /\ did' \in Seq(Taken)
    BY <1>3, <1>10, <2>3, <2>4
  <2> QED BY <1>3, <1>10, <2>2, <2>5
<1>4. CASE Raise
  <2>1. \A x, y \in {1, 2, 3} : x < y => x + 1 \in {1, 2, 3} OBVIOUS
  <2>2. k < Len(Pieces) => k + 1 \in {1, 2, 3} BY <1>9, <2>1
  <2>3. k' \in {1, 2, 3} /\ pc' \in {"send", "read"} BY <1>4, <2>2 DEF Raise
  <2>4. UNCHANGED <<callVars, buf, tries, devVars>> BY <1>4 DEF Raise
  <2>5. flag' \in BOOLEAN BY <1>4 DEF Raise
  <2>6. path' \in {"whole", "split"} /\ op' \in DOMAIN OprLength /\ wakes' \in BOOLEAN BY <2>4
  <2>7. pc' \in {"idle", "check", "send", "raise", "read", "lower"} BY <2>3
  <2> QED BY <2>3, <2>4, <2>5, <2>6, <2>7
<1>5. CASE Refuse \/ WriteFails \/ Pop \/ PopFails
  BY <1>5 DEF Refuse, WriteFails, Pop, PopFails
<1>11. CASE Lower
  <2>1. UNCHANGED <<callVars, buf, k, devVars>> BY <1>11 DEF Lower
  <2>2. tries' \in Nat /\ pc' \in {"check", "idle"} BY <1>11 DEF Lower
  <2>3. flag' \in BOOLEAN BY <1>11 DEF Lower
  <2> QED BY <2>1, <2>2, <2>3
<1>6. CASE Answer BY <1>6 DEF Answer
<1>7. CASE Receive BY <1>7 DEF Receive
<1>8. CASE UNCHANGED vars BY <1>8 DEF vars
<1> QED BY <1>1, <1>2, <1>3, <1>4, <1>5, <1>6, <1>7, <1>8, <1>11 DEF Next, Console

LEMMA BufStep == IInv /\ [Next]_vars => BufInv'
<1> SUFFICES ASSUME IInv, [Next]_vars PROVE BufInv'
  OBVIOUS
<1> USE DEF IInv, Types, BufInv, callVars, devVars
<1>1. CASE Call BY <1>1 DEF Call, Command
<1>2. CASE Create
  <2>1. CASE entry = Unused
    <3>1. buf.call # n BY <1>2, <2>1 DEF Create
    <3>2. path = "split" BY <1>2, <2>1 DEF Create, Accepted, Unused
    <3>3. Junk.call = 0 /\ n # 0 BY <1>2 DEF Create, Junk
    <3> QED BY <1>2, <2>1, <3>1, <3>2, <3>3, SameCall DEF Create, Command
  <2>2. CASE entry # Unused BY <1>2, <2>2, SameCall DEF Create
  <2> QED BY <2>1, <2>2
<1>3. CASE Send BY <1>3, SendEffect, SameCall DEF Send
<1>4. CASE Refuse \/ Raise \/ WriteFails \/ Pop \/ PopFails \/ Lower
  BY <1>4, SameCall DEF Refuse, Raise, WriteFails, Pop, PopFails, Lower
<1>5. CASE Answer \/ Receive BY <1>5, SameCall DEF Answer, Receive
<1>6. CASE UNCHANGED vars BY <1>6, SameCall DEF vars
<1> QED BY <1>1, <1>2, <1>3, <1>4, <1>5, <1>6 DEF Next, Console

LEMMA PieceStep == IInv /\ [Next]_vars => PieceInv'
<1> SUFFICES ASSUME IInv, [Next]_vars PROVE PieceInv'
  OBVIOUS
<1> USE DEF IInv, Types, PieceInv, callVars, devVars
<1>1. CASE Call BY <1>1 DEF Call
<1>2. CASE Create BY <1>2, SameCall, PieceFacts DEF Create
<1>3. CASE Send BY <1>3, SendEffect, SameCall DEF Send
<1>4. CASE Raise BY <1>4, SameCall, PieceFacts DEF Raise
<1>5. CASE Refuse \/ WriteFails \/ Pop \/ PopFails
  BY <1>5, SameCall DEF Refuse, WriteFails, Pop, PopFails
<1>6. CASE Lower BY <1>6, SameCall DEF Lower, Again, Waking
<1>7. CASE Answer \/ Receive BY <1>7, SameCall DEF Answer, Receive
<1>8. CASE UNCHANGED vars BY <1>8, SameCall DEF vars
<1> QED BY <1>1, <1>2, <1>3, <1>4, <1>5, <1>6, <1>7, <1>8 DEF Next, Console

LEMMA CountStep == IInv /\ [Next]_vars => CountInv'
<1> SUFFICES ASSUME IInv, [Next]_vars PROVE CountInv'
  OBVIOUS
<1>0. Types /\ BufInv /\ PieceInv /\ CountInv BY DEF IInv
<1>9. Len(did) \in Nat BY <1>0, LenProperties DEF Types
<1> USE <1>0, <1>9 DEF Types, CountInv, callVars, devVars
<1>1. CASE Call
  <2>1. did' = <<>> /\ tries' = 1 /\ pc' = "check" /\ part' = part BY <1>1 DEF Call
  <2> QED BY <2>1
<1>2. CASE Create BY <1>2 DEF Create
<1>3. CASE Send
  <2>1. \A h \in {part, buf} :
          Len(Append(did, [header |-> h, oprs |-> buf.call])) = Len(did) + 1
    <3>1. \A h \in {part, buf} : [header |-> h, oprs |-> buf.call] \in Taken
      BY DEF Taken, Command
    <3> QED BY <3>1, AppendProperties
  <2>2. pc = "send" /\ pc' = "raise" /\ k' = k /\ tries' = tries /\ buf' = buf /\ path' = path
    BY <1>3, SendEffect DEF Send
  <2>3. part' = Junk \/ part'.len > 0 BY <1>3, SendEffect
  <2>4. \/ did' = did
        \/ /\ Len(did') = Len(did) + 1
           /\ path = "whole" \/ (k = 1 /\ buf.len = 0) \/ (k = 2 /\ buf.len > 0)
    BY <1>3, <2>1, SendEffect
  <2>5. path = "whole" => k = 1 BY <2>2, PieceFacts DEF PieceInv
  <2> QED BY <2>1, <2>2, <2>3, <2>4, <2>5
<1>4. CASE Raise
  <2>1. k < Len(Pieces) => path = "split" /\ len > 0 BY PieceFacts
  <2>2. k < Len(Pieces) /\ k = 1 /\ buf.len > 0 => Len(did) < tries BY <1>4, <2>1 DEF Raise
  <2>3. UNCHANGED <<path, buf, tries, did, part>> BY <1>4 DEF Raise
  <2>4. pc = "raise" /\ (pc' = "read" \/ (pc' = "send" /\ k' = k + 1 /\ k < Len(Pieces)))
    BY <1>4 DEF Raise
  <2>5. buf.len \in Nat BY DEF Command
  <2> QED BY <2>2, <2>3, <2>4, <2>5
<1>5. CASE Refuse \/ WriteFails \/ Pop \/ PopFails
  BY <1>5 DEF Refuse, WriteFails, Pop, PopFails
<1>6. CASE Lower BY <1>6 DEF Lower
<1>7. CASE Answer \/ Receive BY <1>7 DEF Answer, Receive
<1>8. CASE UNCHANGED vars BY <1>8 DEF vars
<1> QED BY <1>1, <1>2, <1>3, <1>4, <1>5, <1>6, <1>7, <1>8 DEF Next, Console

LEMMA HeaderStep == IInv /\ [Next]_vars => HeaderInv'
<1> SUFFICES ASSUME IInv, [Next]_vars PROVE HeaderInv'
  OBVIOUS
<1>0. Types /\ BufInv /\ PieceInv /\ CountInv /\ HeaderInv BY DEF IInv
<1> USE <1>0 DEF callVars, devVars
<1>1. CASE Call BY <1>1 DEF Call, HeaderInv
<1>2. CASE Create BY <1>2 DEF Create, HeaderInv, Types
<1>3. CASE Send
  <2>1. /\ UNCHANGED <<path, entry, n, k, len, buf>> /\ pc = "send" /\ pc' = "raise"
    BY <1>3, SendEffect DEF Send
  <2>2. entry # Unused => buf.call = n
    BY <2>1 DEF BufInv
  <2>3. CASE Take(Pieces[k])
    <3>1. part' \in {buf, Junk} BY <2>3 DEF Take
    <3> QED BY <2>1, <2>2, <3>1 DEF HeaderInv
  <2>4. CASE Lose(Pieces[k])
    <3>1. part' = part /\ (skipped => skipped') BY <2>4 DEF Lose, Types
    <3>2. CASE path = "split" /\ k = 1
      <4>1. Pieces[k] = "header" BY <3>2, PieceFacts
      <4>2. part = Junk \/ part.call = n \/ skipped' BY <2>4, <4>1 DEF Lose
      <4> QED BY <2>1, <3>1, <4>2 DEF HeaderInv
    <3>3. CASE path = "split" /\ k > 1 BY <2>1, <3>1, <3>3 DEF HeaderInv
    <3>4. CASE path # "split" BY <2>1, <3>4 DEF HeaderInv
    <3> QED BY <3>2, <3>3, <3>4 DEF Types
  <2> QED BY <1>3, <2>3, <2>4 DEF Send
<1>4. CASE Raise BY <1>4 DEF Raise, HeaderInv
<1>5. CASE Refuse \/ WriteFails \/ Pop \/ PopFails \/ Lower
  BY <1>5 DEF Refuse, WriteFails, Pop, PopFails, Lower, HeaderInv
<1>6. CASE Answer \/ Receive BY <1>6 DEF Answer, Receive, HeaderInv
<1>7. CASE UNCHANGED vars BY <1>7 DEF vars, HeaderInv
<1> QED BY <1>1, <1>2, <1>3, <1>4, <1>5, <1>6, <1>7 DEF Next, Console

LEMMA TakenStep == IInv /\ [Next]_vars => TakenAsCalled'
<1> SUFFICES ASSUME IInv, [Next]_vars PROVE TakenAsCalled'
  OBVIOUS
<1>0. Types /\ BufInv /\ PieceInv /\ CountInv /\ HeaderInv /\ TakenAsCalled BY DEF IInv
<1> USE <1>0 DEF callVars, devVars
<1>1. CASE Call BY <1>1 DEF Call, TakenAsCalled
<1>2. CASE Send
  <2>1. UNCHANGED callVars BY <1>2, SendEffect
  <2>2. skipped => skipped' BY <1>2 DEF Send, Take, Lose, Types
  <2>3. CASE did' = did BY <2>1, <2>2, <2>3 DEF TakenAsCalled
  <2>4. CASE did' # did
    <3>1. PICK h \in {part, buf} :
            /\ did' = Append(did, [header |-> h, oprs |-> buf.call])
            /\ \/ path = "whole" /\ h = buf
               \/ path = "split" /\ k = 1 /\ buf.len = 0 /\ h = buf
               \/ /\ path = "split" /\ k = 2 /\ len > 0 /\ h = part
                  /\ part # Junk /\ part.len = len /\ buf.len = len
      BY <1>2, <2>4, SendEffect
    <3>2. pc = "send" /\ n > 0 /\ n \in Nat BY <1>2 DEF Send, BufInv, Types
    <3>3. \/ buf.call = n /\ buf.len = len /\ (entry = len \/ entry = -1) /\ entry # Unused
          \/ path = "split" /\ entry = Unused
      BY <3>2 DEF BufInv, Accepted, Types, Unused
    <3>4. \/ /\ buf.call = n /\ h.len = len /\ (entry = len \/ entry = -1)
             /\ h.call = n \/ (path = "split" /\ len > 0 /\ skipped)
          \/ path = "split" /\ entry = Unused
      BY <3>1, <3>2, <3>3 DEF HeaderInv
    <3>5. \A i \in DOMAIN did' :
            \/ i \in DOMAIN did /\ did'[i] = did[i]
            \/ did'[i] = [header |-> h, oprs |-> buf.call]
      <4>1. [header |-> h, oprs |-> buf.call] \in Taken BY DEF Types, Taken, Command
      <4> QED BY <3>1, <4>1, AppendProperties DEF Types
    <3> QED BY <2>1, <2>2, <3>4, <3>5 DEF TakenAsCalled
  <2> QED BY <2>3, <2>4
<1>3. CASE UNCHANGED <<callVars, did, skipped>> BY <1>3 DEF TakenAsCalled
<1> QED
  BY <1>1, <1>2, <1>3 DEF Next, Console, Refuse, Create, Raise, WriteFails, Pop, PopFails,
     Lower, Answer, Receive, vars

LEMMA AnswerStep == IInv /\ [Next]_vars => AnswerInv'
<1> SUFFICES ASSUME IInv, [Next]_vars PROVE AnswerInv'
  OBVIOUS
<1>0. Types /\ BufInv /\ PieceInv /\ CountInv /\ AnswerInv BY DEF IInv
<1>9. \A q \in reqs \cup wire : q \in Request BY <1>0 DEF Types
<1> USE <1>0, <1>9 DEF Types, AnswerInv, Present, callVars, devVars, Request
<1>1. CASE Call
  <2>1. n' = n + 1 /\ UNCHANGED <<reqs, wire>> BY <1>1 DEF Call
  <2>2. Present' \notin reqs' \cup wire' BY <2>1
  <2> QED BY <2>1, <2>2
<1>2. CASE Create
  <2>1. Present \notin reqs \cup wire \/ path # "split" \/ len = 0 BY <1>2 DEF Create
  <2> QED BY <1>2, <2>1 DEF Create
<1>3. CASE Send
  <2> DEFINE q == [to |-> buf.call, try |-> tries]
  <2>1. /\ UNCHANGED <<path, len, n, tries, k, flag, wire>> /\ pc = "send" /\ pc' = "raise"
        /\ reqs' = reqs \/ reqs' = reqs \cup {q}
    BY <1>3, SendEffect DEF Send
  <2>2. q.to <= n /\ q.try <= tries BY DEF BufInv, Command
  <2>3. q \in reqs' /\ q \notin reqs /\ q.to = n /\ path = "split" /\ len > 0 => k > 1
    BY <1>3, <2>1, SendEffect DEF BufInv
  <2>4. k > 1 => flag BY <2>1 DEF PieceInv
  <2>5. Present' = Present BY <2>1
  <2>6. Present \in reqs' \cup wire' /\ path = "split" /\ len > 0 => flag /\ k > 1
    BY <2>1, <2>3, <2>4
  <2>7. \A r \in reqs' \cup wire' : r.to <= n /\ (r.to = n => r.try <= tries)
    BY <2>1, <2>2
  <2> QED BY <2>1, <2>5, <2>6, <2>7
<1>4. CASE Raise
  <2>1. UNCHANGED <<path, len, n, tries, reqs, wire>> /\ flag'
    BY <1>4 DEF Raise
  <2>2. pc = "raise" /\ (pc' = "read" \/ (pc' = "send" /\ k' = k + 1))
    BY <1>4 DEF Raise
  <2> QED BY <2>1, <2>2
<1>5. CASE Refuse \/ WriteFails \/ Pop \/ PopFails
  BY <1>5 DEF Refuse, WriteFails, Pop, PopFails
<1>6. CASE Lower BY <1>6 DEF Lower
<1>7. CASE Answer
  <2>1. PICK q \in reqs : wire' = {q} /\ reqs' = reqs \ {q} BY <1>7 DEF Answer
  <2>2. reqs' \cup wire' = reqs BY <2>1
  <2>3. \A r, s \in wire' : r = s BY <2>1
  <2>4. UNCHANGED <<path, len, n, tries, pc, k, flag>> BY <1>7 DEF Answer
  <2> QED BY <2>2, <2>3, <2>4
<1>8. CASE Receive
  <2>1. wire' = {} /\ UNCHANGED <<reqs, path, len, n, tries, pc, k, flag>> BY <1>8 DEF Receive
  <2> QED BY <2>1
<1>10. CASE UNCHANGED vars BY <1>10 DEF vars
<1> QED BY <1>1, <1>2, <1>3, <1>4, <1>5, <1>6, <1>7, <1>8, <1>10 DEF Next, Console

-----------------------------------------------------------------------------

LEMMA Invariance == Spec => []IInv
<1>1. Init => IInv
  <2>1. ASSUME Init PROVE Types
    <3>1. Junk \in Command BY DEF Junk, Command
    <3>2. op \in DOMAIN OprLength BY <2>1 DEF Init, OprLength
    <3>3. wakes \in BOOLEAN /\ flag \in BOOLEAN /\ skipped \in BOOLEAN BY <2>1 DEF Init
    <3>4. entry \in {Unused, -1, 0, 1, 2} /\ did \in Seq(Taken) BY <2>1 DEF Init
    <3> QED BY <2>1, <3>1, <3>2, <3>3, <3>4 DEF Init, Types
  <2>2. Init => BufInv /\ PieceInv /\ AnswerInv
    BY DEF Init, BufInv, PieceInv, AnswerInv, Junk
  <2>3. Init => CountInv /\ HeaderInv /\ TakenAsCalled
    BY DEF Init, CountInv, HeaderInv, TakenAsCalled, Junk
  <2> QED BY <2>1, <2>2, <2>3 DEF IInv
<1>2. IInv /\ [Next]_vars => IInv'
  BY TypesStep, BufStep, PieceStep, CountStep, HeaderStep, AnswerStep, TakenStep
     DEF IInv
<1> QED BY <1>1, <1>2, PTL DEF Spec

\* What the device carries out has the operands of the command called, as many as the
\* table wants, and its opcode, unless a header of the call was lost where an earlier
\* call's still waited, or SPI was given a command that there is not (cmd_create,
\* gacrux_cmd_spiwrite).
THEOREM TakenIsCalled == Spec => []TakenAsCalled
<1>1. IInv => TakenAsCalled BY DEF IInv
<1> QED BY <1>1, Invariance, PTL

\* No command is carried out twice but the one that wakes the device, and that no
\* more often than CMD tries it.
THEOREM NotTakenTwice == Spec => []TakenOnce
<1>1. IInv => TakenOnce
  <2>1. ASSUME IInv PROVE Len(did) <= tries /\ (tries > 1 => Waking)
                      /\ Len(did) \in Nat /\ tries \in Nat
    BY <2>1, LenProperties DEF IInv, CountInv, PieceInv, Types
  <2> QED BY <2>1 DEF TakenOnce, Waking
<1> QED BY <1>1, Invariance, PTL

\* Over SPI the answer to a command with operands is never thrown away while the
\* command is at the try it answers.
THEOREM SplitAnswersKept == Spec => SplitAnswerKept
<1>1. ASSUME IInv, Next,
             NEW r \in wire \ wire', path = "split", len > 0, pc # "idle", r = Present
      PROVE  replies' = Append(replies, r)
  <2>1. flag /\ \A q \in wire : q = r
    BY <1>1 DEF IInv, AnswerInv
  <2>2. Receive
    <3>1. wire' # wire OBVIOUS
    <3>2. wire # {} /\ ~Answer BY DEF Answer
    <3>3. Send => wire' = wire BY <1>1, SendEffect DEF IInv
    <3> QED
      BY <1>1, <3>1, <3>2, <3>3 DEF Next, Console, Call, Refuse, Create, Raise, WriteFails,
         Pop, PopFails, Lower, devVars
  <2> QED BY <2>1, <2>2 DEF Receive
<1>2. IInv /\ [Next]_vars =>
        [\A r \in wire \ wire' :
           path = "split" /\ len > 0 /\ pc # "idle" /\ r = [to |-> n, try |-> tries]
             => replies' = Append(replies, r)]_vars
  BY <1>1 DEF Present
<1> QED BY <1>2, Invariance, PTL DEF Spec, SplitAnswerKept
-----------------------------------------------------------------------------
(* How long a command takes (CmdReturns).                                  *)

\* Steps that a try still takes at most, and all tries.
TryLeft ==
  CASE pc = "check" -> 9
    [] pc = "send"  -> 10 - 2 * k
    [] pc = "raise" -> 9 - 2 * k
    [] pc = "read"  -> 2
    [] pc = "lower" -> 1
    [] OTHER        -> 0
StepsLeft == IF pc = "idle" THEN 0 ELSE 9 * (MaxTries - tries) + TryLeft

TriesBounded == pc # "idle" => tries \in 1 .. MaxTries

LEMMA TriesStep == IInv /\ TriesBounded /\ [Next]_vars => TriesBounded'
<1> SUFFICES ASSUME IInv, TriesBounded, [Next]_vars PROVE TriesBounded'
  OBVIOUS
<1>1. Types BY DEF IInv
<1> USE DEF TriesBounded
<1>2. CASE Call BY <1>2 DEF Call
<1>3. CASE Lower BY <1>1, <1>3 DEF Lower, Again, Types
<1>4. CASE pc # "idle" /\ tries' = tries BY <1>4
<1>5. CASE UNCHANGED <<pc, tries>> BY <1>5
<1> QED
  BY <1>2, <1>3, <1>4, <1>5 DEF Next, Console, Refuse, Create, Send, Raise, WriteFails, Pop,
     PopFails, Answer, Receive, vars

LEMMA TryBounds ==
  ASSUME IInv, TriesBounded
  PROVE  /\ TryLeft \in 0 .. 9 /\ (TryLeft = 0 <=> pc = "idle")
         /\ StepsLeft \in 0 .. 9 * MaxTries /\ (StepsLeft = 0 <=> pc = "idle")
<1>1. /\ pc \in {"idle", "check", "send", "raise", "read", "lower"} /\ k \in {1, 2, 3}
      /\ tries \in Nat
  BY DEF IInv, Types
<1>2. TryLeft \in 0 .. 9 /\ (TryLeft = 0 <=> pc = "idle")
  BY <1>1 DEF TryLeft
<1> QED BY <1>1, <1>2 DEF StepsLeft, TriesBounded

\* A step of the command within a try brings the try nearer to its end.
LEMMA TryStep ==
  ASSUME IInv, Console, ~Lower
  PROVE  /\ UNCHANGED tries /\ pc # "idle" /\ pc' # "idle"
         /\ TryLeft' < TryLeft
<1>1. k \in {1, 2, 3} /\ Len(Pieces) \in {1, 2, 3} BY PieceFacts DEF IInv, Types
<1>2. CASE Refuse BY <1>2 DEF Refuse, TryLeft
<1>3. CASE Create BY <1>3 DEF Create, TryLeft
<1>4. CASE Send BY <1>1, <1>4 DEF Send, TryLeft
<1>5. CASE Raise BY <1>1, <1>5 DEF Raise, TryLeft
<1>6. CASE WriteFails BY <1>1, <1>6 DEF WriteFails, TryLeft
<1>7. CASE Pop \/ PopFails BY <1>7 DEF Pop, PopFails, TryLeft
<1> QED BY <1>2, <1>3, <1>4, <1>5, <1>6, <1>7 DEF Console

\* What is true without any assumption about the scheduler, and what CmdReturns
\* needs besides it: a command is over after at most nine steps for each of its
\* tries, whatever is lost or late; neither the device nor the receive task adds
\* one (the RETRY loop of CMD, gacrux_cmd_*write).
THEOREM CommandIsFinite ==
  Spec => /\ [](StepsLeft \in 0 .. 9 * MaxTries /\ (StepsLeft = 0 <=> pc = "idle"))
          /\ [][/\ Console => StepsLeft' < StepsLeft
                /\ Answer \/ Receive => StepsLeft' = StepsLeft]_vars
<1> DEFINE Inv == IInv /\ TriesBounded
<1>1. Init => TriesBounded BY DEF Init, TriesBounded
<1>2. Spec => []Inv BY <1>1, TriesStep, Invariance, PTL DEF Spec
<1>3. Inv => StepsLeft \in 0 .. 9 * MaxTries /\ (StepsLeft = 0 <=> pc = "idle")
  BY TryBounds
<1>4. ASSUME Inv, Console PROVE StepsLeft' < StepsLeft
  <2>1. tries \in Nat /\ tries \in 1 .. MaxTries /\ TryLeft \in 0 .. 9 /\ pc # "idle"
    <3>1. tries \in Nat BY <1>4 DEF IInv, Types
    <3>2. pc # "idle"
      BY <1>4 DEF Console, Refuse, Create, Send, Raise, WriteFails, Pop, PopFails, Lower
    <3> QED BY <1>4, <3>1, <3>2, TryBounds DEF TriesBounded
  <2>2. CASE Lower
    <3>1. StepsLeft = 9 * (MaxTries - tries) + 1 BY <2>2 DEF Lower, StepsLeft, TryLeft
    <3>2. CASE Again
      <4>1. tries < MaxTries BY <3>2 DEF Again
      <4>2. StepsLeft' = 9 * (MaxTries - (tries + 1)) + 9
        BY <2>2, <3>2 DEF Lower, StepsLeft, TryLeft
      <4> QED BY <2>1, <3>1, <4>1, <4>2
    <3>3. CASE ~Again
      <4>1. StepsLeft' = 0 BY <2>2, <3>3 DEF Lower, StepsLeft
      <4> QED BY <2>1, <3>1, <4>1
    <3> QED BY <3>2, <3>3
  <2>3. CASE ~Lower
    <3>1. tries' = tries /\ pc' # "idle" /\ TryLeft' < TryLeft BY <1>4, <2>3, TryStep
    <3>2. TryLeft' \in Int
      <4>1. k' \in {1, 2, 3} BY <1>4, TypesStep DEF Types, Next
      <4> QED BY <4>1 DEF TryLeft
    <3>3. StepsLeft = 9 * (MaxTries - tries) + TryLeft BY <2>1 DEF StepsLeft
    <3>4. StepsLeft' = 9 * (MaxTries - tries) + TryLeft' BY <3>1 DEF StepsLeft
    <3>5. \A a, b, c \in Int : b < c => a + b < a + c OBVIOUS
    <3>6. 9 * (MaxTries - tries) \in Int /\ TryLeft \in Int BY <2>1
    <3> QED BY <3>1, <3>2, <3>3, <3>4, <3>5, <3>6
  <2> QED BY <2>2, <2>3
<1>5. ASSUME Answer \/ Receive PROVE StepsLeft' = StepsLeft
  BY <1>5 DEF Answer, Receive, StepsLeft, TryLeft
<1>6. Inv /\ [Next]_vars =>
        [/\ Console => StepsLeft' < StepsLeft
         /\ Answer \/ Receive => StepsLeft' = StepsLeft]_vars
  BY <1>4, <1>5
<1> QED BY <1>2, <1>3, <1>6, PTL DEF Spec
=============================================================================
