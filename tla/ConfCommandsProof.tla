-------------------------- MODULE ConfCommandsProof -------------------------
(***************************************************************************)
(* ConfCommands for every set of operands and any number of commands: what *)
(* a configuration command that returns 0 has brought about, and what the  *)
(* same command again puts right (SuccessMeansAgreement, ReissueAgrees).   *)
(***************************************************************************)
EXTENDS ConfCommands, SequenceTheorems, TLAPS

Request == [to : Nat, code : Codes]
Reply == [to : Nat, ok : BOOLEAN, at : Codes]

Types ==
  /\ bus \in Buses /\ pc \in {"idle", "apply", "read"}
  /\ conf \in Codes \cup {0, 1} /\ line \in Codes \cup {0, 1}
  /\ dev \in Codes /\ code \in Codes
  /\ ret \in {"ok", "err"} /\ n \in Nat
  /\ wait \in BOOLEAN /\ reset \in BOOLEAN /\ same \in BOOLEAN
  /\ reqs \in Seq(Request) /\ wire \in SUBSET Reply /\ replies \in Seq(Reply)

\* The answers that have not been popped.
Answers == wire \cup {replies[k] : k \in DOMAIN replies}

\* No request or answer is to a command yet to come, and the running command's
\* request, which is the last, carries its operand.
Numbered ==
  /\ \A k \in DOMAIN reqs :
       /\ reqs[k].to <= n
       /\ reqs[k].to = n => k = Len(reqs) /\ reqs[k].code = code
  /\ \A r \in Answers : r.to <= n

\* Once the device has said that it obeys the running command it has nothing
\* else to obey, and only a reset can take the setting away again.
Obeyed ==
  ~reset => \A r \in Answers :
              r.to = n /\ r.ok => reqs = <<>> /\ dev = code /\ r.at = code

\* An answer by the new setting was heard by it, and the port has kept it since.
Heard ==
  bus = "UART" /\ ~reset /\ pc # "idle" =>
    \A k \in DOMAIN replies : replies[k].to = n /\ replies[k].ok => line = code

\* The host's side: the variable is set whatever becomes of the port, and only
\* the UART has a port that can be out of step with it.
HostSide ==
  /\ pc = "read" /\ Settable => conf = code
  /\ bus # "UART" => line = conf

\* A command for the setting that the device has leaves nothing else to obey.
Asked == same /\ ~reset => dev = code /\ \A k \in DOMAIN reqs : reqs[k].code = code

ConfInv == Types /\ Numbered /\ Obeyed /\ Heard /\ HostSide /\ Asked

-----------------------------------------------------------------------------

LEMMA TailFacts ==
  ASSUME NEW S, NEW s \in Seq(S), s # <<>>
  PROVE  /\ Head(s) = s[1] /\ 1 \in DOMAIN s /\ Tail(s) \in Seq(S) /\ Len(s) \in Nat \ {0}
         /\ DOMAIN s = 1 .. Len(s) /\ Len(Tail(s)) = Len(s) - 1
         /\ \A k \in DOMAIN Tail(s) : k + 1 \in DOMAIN s /\ Tail(s)[k] = s[k + 1]
         /\ Len(s) = 1 => Tail(s) = <<>>
<1>1. /\ Tail(s) \in Seq(S) /\ Head(s) = s[1] /\ Len(s) \in Nat \ {0} /\ DOMAIN s = 1 .. Len(s)
      /\ Len(Tail(s)) = Len(s) - 1 /\ DOMAIN Tail(s) = 1 .. Len(s) - 1
      /\ \A k \in 1 .. Len(s) - 1 : Tail(s)[k] = s[k + 1]
  BY HeadTailProperties
<1>2. \A k \in DOMAIN Tail(s) : k + 1 \in DOMAIN s BY <1>1
<1>3. Len(s) = 1 => Tail(s) = <<>> BY <1>1, EmptySeq
<1> QED BY <1>1, <1>2, <1>3

LEMMA AppendFacts ==
  ASSUME NEW S, NEW s \in Seq(S), NEW e \in S
  PROVE  /\ Append(s, e) \in Seq(S) /\ DOMAIN s = 1 .. Len(s)
         /\ Len(s) \in Nat /\ Len(Append(s, e)) = Len(s) + 1
         /\ DOMAIN Append(s, e) = 1 .. Len(s) + 1 /\ Append(s, e)[Len(s) + 1] = e
         /\ \A k \in DOMAIN s : Append(s, e)[k] = s[k]
BY AppendProperties

LEMMA ElementTypes ==
  ASSUME Types
  PROVE  /\ Answers \subseteq Reply /\ \A r \in Answers : r.to \in Nat
         /\ \A k \in DOMAIN reqs : reqs[k] \in Request /\ reqs[k].to \in Nat
<1>1. \A k \in DOMAIN replies : replies[k] \in Reply BY ElementOfSeq DEF Types
<1>2. Answers \subseteq Reply BY <1>1 DEF Answers, Types
<1>3. \A k \in DOMAIN reqs : reqs[k] \in Request BY ElementOfSeq DEF Types
<1>4. \A r \in Reply : r.to \in Nat BY DEF Reply
<1>5. \A q \in Request : q.to \in Nat BY DEF Request
<1> QED BY <1>2, <1>3, <1>4, <1>5

LEMMA ConfInit == Init => ConfInv
<1> SUFFICES ASSUME Init PROVE ConfInv OBVIOUS
<1> USE DEF Init
<1>1. reqs \in Seq(Request) /\ replies \in Seq(Reply) /\ wire \in SUBSET Reply
  OBVIOUS
<1>2. Types BY <1>1 DEF Types
<1>3. Answers = {} BY DEF Answers
<1>4. Numbered /\ Obeyed /\ Heard /\ HostSide /\ Asked
  BY <1>3 DEF Numbered, Obeyed, Heard, HostSide, Asked
<1> QED BY <1>2, <1>4 DEF ConfInv

-----------------------------------------------------------------------------
\* The steps.

\* What the requests, the answers and the device have to do with the running
\* command does not change as answers go.
LEMMA Keep ==
  ASSUME ConfInv, Answers' \subseteq Answers, UNCHANGED <<reqs, dev, reset, cmdVars>>
  PROVE  Numbered' /\ Obeyed' /\ Asked'
<1> USE DEF ConfInv, cmdVars
<1>1. Numbered' BY DEF Numbered
<1>2. Obeyed' BY DEF Obeyed
<1>3. Asked' BY DEF Asked
<1> QED BY <1>1, <1>2, <1>3

\* The command is written: it is the last, and no answer is to it.
LEMMA WriteStep == ASSUME ConfInv, Write PROVE ConfInv'
<1> USE DEF ConfInv
<1>1. PICK c \in Codes :
        /\ code' = c /\ same' = (c = dev /\ reqs = <<>>)
        /\ reqs' = reqs \/ reqs' = Append(reqs, [to |-> n + 1, code |-> c])
  BY DEF Write
<1>2. /\ n' = n + 1 /\ pc' = "apply" /\ ret' = "ok" /\ wait' = TRUE /\ reset' = FALSE
      /\ UNCHANGED <<bus, conf, dev, replies>>
      /\ bus = "UART" => line' = conf /\ wire' \in {wire, {}}
      /\ bus # "UART" => line' = line /\ wire' = wire
  BY DEF Write, Open
<1> DEFINE q == [to |-> n + 1, code |-> c]
<1>3. q \in Request BY DEF Types, Request
<1>4. reqs \in Seq(Request) /\ DOMAIN reqs = 1 .. Len(reqs) /\ Len(reqs) \in Nat
  BY DEF Types
<1>5. /\ reqs' \in Seq(Request)
      /\ \A k \in DOMAIN reqs' :
           \/ k \in DOMAIN reqs /\ reqs'[k] = reqs[k]
           \/ k = Len(reqs') /\ reqs'[k] = q
  <2>1. CASE reqs' = reqs BY <2>1, <1>4
  <2>2. CASE reqs' = Append(reqs, q)
    <3> HIDE DEF q
    <3>1. /\ reqs' \in Seq(Request) /\ Len(reqs') = Len(reqs) + 1
          /\ DOMAIN reqs' = 1 .. Len(reqs) + 1 /\ reqs'[Len(reqs) + 1] = q
          /\ \A k \in DOMAIN reqs : reqs'[k] = reqs[k]
      BY <1>3, <1>4, <2>2, AppendFacts
    <3> QED BY <1>4, <3>1
  <2> QED BY <1>1, <2>1, <2>2
<1>6. Answers' \subseteq Answers /\ n \in Nat BY <1>2 DEF Answers, Types
<1>7. \A r \in Answers' : r.to < n' BY <1>2, <1>6, ElementTypes DEF Numbered
<1>8. Types'
  <2>1. line' \in Codes \cup {0, 1} BY <1>2 DEF Types
  <2>2. wire' \in SUBSET Reply BY <1>2 DEF Types
  <2>3. same' \in BOOLEAN BY <1>1
  <2>4. n' \in Nat BY <1>2, <1>6
  <2> QED BY <1>1, <1>2, <1>5, <2>1, <2>2, <2>3, <2>4 DEF Types
<1>9. Numbered'
  <2>1. \A k \in DOMAIN reqs : reqs[k].to \in Nat /\ reqs[k].to < n'
    BY <1>2, <1>6, ElementTypes DEF Numbered
  <2>2. \A k \in DOMAIN reqs' :
          /\ reqs'[k].to <= n'
          /\ reqs'[k].to = n' => k = Len(reqs') /\ reqs'[k].code = code'
    BY <1>1, <1>2, <1>5, <1>6, <2>1
  <2>3. \A r \in Answers' : r.to <= n' BY <1>2, <1>6, ElementTypes DEF Numbered
  <2> QED BY <2>2, <2>3 DEF Numbered
<1>10. Obeyed'
  <2>1. n' \in Nat /\ \A r \in Answers' : r.to \in Nat BY <1>2, <1>6, ElementTypes
  <2>2. \A r \in Answers' : r.to # n' BY <1>7, <2>1
  <2> QED BY <2>2 DEF Obeyed
<1>11. Heard'
  <2>1. \A k \in DOMAIN replies' : replies'[k] \in Answers' BY DEF Answers
  <2>2. \A k \in DOMAIN replies' : replies'[k].to < n' /\ replies'[k].to \in Nat
    BY <1>6, <1>7, <2>1, ElementTypes
  <2> QED BY <1>2, <1>6, <2>2 DEF Heard
<1>12. HostSide' BY <1>2 DEF HostSide
<1>13. Asked'
  <2> SUFFICES ASSUME same' PROVE dev' = code' /\ \A k \in DOMAIN reqs' : reqs'[k].code = code'
    BY DEF Asked
  <2>1. same' = (c = dev /\ reqs = <<>>) BY <1>1
  <2>2. c = dev /\ reqs = <<>> BY <2>1, ZenonT(30)
  <2>3. dev' = code' /\ DOMAIN reqs = {} BY <1>1, <1>2, <2>2
  <2>4. \A k \in DOMAIN reqs' : reqs'[k] = q BY <1>5, <2>3
  <2> QED BY <1>1, <2>3, <2>4
<1> QED BY <1>8, <1>9, <1>10, <1>11, <1>12, <1>13

\* Between the write and the read only the host's side changes.
LEMMA ApplyStep ==
  ASSUME ConfInv, InvalidOpr \/ Unsupported \/ Change PROVE ConfInv'
<1> USE DEF ConfInv, cmdVars
<1>1. /\ pc = "apply" /\ pc' = "read" /\ wire' \subseteq wire
      /\ UNCHANGED <<bus, dev, wait, reqs, replies, reset, code, flow, n, same>>
  BY DEF InvalidOpr, Unsupported, Change, Open
<1>2. Answers' \subseteq Answers BY <1>1 DEF Answers
<1>3. Numbered' /\ Obeyed' /\ Asked' BY <1>1, <1>2, Keep
<1>4. /\ conf' \in {conf, code} /\ line' \in {line, code}
      /\ Settable => conf' = code
      /\ bus # "UART" => line' = conf'
      /\ ret' \in {"ok", "err"}
  BY DEF InvalidOpr, Unsupported, Change, Open, Settable, HostSide, Types
<1>5. Types' BY <1>1, <1>4 DEF Types
<1>6. HostSide' BY <1>1, <1>4 DEF HostSide, Settable, ValidOpr
<1>7. Heard' BY <1>1, <1>4 DEF Heard
<1> QED BY <1>3, <1>5, <1>6, <1>7

\* The command returns; between commands only the host's side changes.
LEMMA IdleStep ==
  ASSUME ConfInv, WriteFails \/ Read \/ ReadFails \/ SetDfs \/ OtherWrite PROVE ConfInv'
<1> USE DEF ConfInv, cmdVars
<1>1. /\ pc' = "idle" /\ wire' \subseteq wire
      /\ UNCHANGED <<bus, dev, reqs, reset, code, flow, n, same>>
  BY DEF WriteFails, Read, ReadFails, SetDfs, OtherWrite, Open
<1>2. /\ replies' \in Seq(Reply)
      /\ \A k \in DOMAIN replies' : \E j \in DOMAIN replies : replies'[k] = replies[j]
  <2>1. replies \in Seq(Reply) BY DEF Types
  <2>2. CASE replies' = replies BY <2>1, <2>2
  <2>3. CASE replies # <<>> /\ replies' = Tail(replies) BY <2>1, <2>3, TailFacts
  <2> QED BY <2>2, <2>3 DEF WriteFails, Read, ReadFails, SetDfs, OtherWrite
<1>3. Answers' \subseteq Answers BY <1>1, <1>2 DEF Answers
<1>4. Numbered' /\ Obeyed' /\ Asked' BY <1>1, <1>3, Keep
<1>5. /\ conf' \in {conf, 0, 1} /\ line' \in {line, conf'}
      /\ bus # "UART" => line' = conf'
      /\ ret' \in {"ok", "err"} /\ wait' \in BOOLEAN
  BY DEF WriteFails, Read, ReadFails, SetDfs, OtherWrite, Open, HostSide, Types
<1>6. Types' BY <1>1, <1>2, <1>5 DEF Types
<1>7. HostSide' BY <1>1, <1>5 DEF HostSide
<1>8. Heard' BY <1>1 DEF Heard
<1> QED BY <1>4, <1>6, <1>7, <1>8

\* The receive task queues the answer, or it is lost.
LEMMA ReceiveStep == ASSUME ConfInv, Receive PROVE ConfInv'
<1> USE DEF ConfInv, cmdVars
<1>1. PICK r \in wire :
        \/ wait /\ (bus = "UART" => line = r.at) /\ replies' = Append(replies, r)
        \/ replies' = replies
  BY DEF Receive
<1>2. /\ wire' = {}
      /\ UNCHANGED <<bus, conf, line, dev, pc, ret, wait, reqs, reset, code, flow, n, same>>
  BY DEF Receive
<1>3. r \in Reply /\ r \in Answers BY DEF Types, Answers
<1>4. /\ replies' \in Seq(Reply)
      /\ \A k \in DOMAIN replies' :
           \/ k \in DOMAIN replies /\ replies'[k] = replies[k]
           \/ replies'[k] = r /\ (bus = "UART" => line = r.at)
  <2>1. replies \in Seq(Reply) BY DEF Types
  <2>2. CASE replies' = replies BY <2>1, <2>2
  <2>3. CASE (bus = "UART" => line = r.at) /\ replies' = Append(replies, r)
    BY <1>3, <2>1, <2>3, AppendFacts
  <2> QED BY <1>1, <2>2, <2>3
<1>5. Answers' \subseteq Answers BY <1>2, <1>3, <1>4 DEF Answers
<1>6. Numbered' /\ Obeyed' /\ Asked' BY <1>2, <1>5, Keep
<1>7. Types' BY <1>2, <1>4 DEF Types
<1>8. HostSide' BY <1>2 DEF HostSide, Settable, ValidOpr
<1>9. Heard' BY <1>2, <1>3, <1>4 DEF Heard, Obeyed
<1> QED BY <1>6, <1>7, <1>8, <1>9

\* The device obeys or refuses the oldest request it has.  If that is the
\* running command's it was the last.
LEMMA AnswerStep == ASSUME ConfInv, NEW accepted \in BOOLEAN, Answer(accepted) PROVE ConfInv'
<1> USE DEF ConfInv, cmdVars
<1> DEFINE q == Head(reqs)
           r == [to |-> q.to, ok |-> accepted, at |-> dev']
<1>1. /\ reqs # <<>> /\ wire = {} /\ reqs' = Tail(reqs) /\ wire' = {r}
      /\ dev' = (IF accepted THEN q.code ELSE dev)
      /\ UNCHANGED <<bus, conf, line, pc, ret, wait, replies, reset, code, flow, n, same>>
  BY DEF Answer
<1>2. /\ q = reqs[1] /\ 1 \in DOMAIN reqs /\ Tail(reqs) \in Seq(Request)
      /\ Len(reqs) \in Nat \ {0} /\ Len(Tail(reqs)) = Len(reqs) - 1
      /\ \A k \in DOMAIN Tail(reqs) : k + 1 \in DOMAIN reqs /\ Tail(reqs)[k] = reqs[k + 1]
      /\ Len(reqs) = 1 => Tail(reqs) = <<>>
      /\ DOMAIN Tail(reqs) \subseteq Nat
  <2>1. reqs \in Seq(Request) BY DEF Types
  <2>2. \A k \in DOMAIN Tail(reqs) : k \in Nat BY <1>1, <2>1, TailFacts, LenProperties
  <2> QED BY <1>1, <2>1, <2>2, TailFacts
<1>3. q \in Request BY <1>2, ElementTypes
<1>4. dev' \in Codes BY <1>1, <1>3 DEF Types, Request
<1>5. r \in Reply /\ r.to = q.to /\ r.ok = accepted /\ r.at = dev'
  BY <1>3, <1>4 DEF Request, Reply
<1>6. Answers' \subseteq Answers \cup {r} BY <1>1 DEF Answers
<1>7. q.to = n => reqs' = <<>> /\ q.code = code BY <1>1, <1>2 DEF Numbered
<1> HIDE DEF q, r
<1>8. Types' BY <1>1, <1>2, <1>4, <1>5 DEF Types
<1>9. Numbered'
  <2>1. q.to <= n BY <1>2 DEF Numbered
  <2>2. \A a \in Answers' : a.to <= n' BY <1>1, <1>5, <1>6, <2>1 DEF Numbered
  <2>3. ASSUME NEW k \in DOMAIN reqs'
        PROVE  /\ reqs'[k].to <= n'
               /\ reqs'[k].to = n' => k = Len(reqs') /\ reqs'[k].code = code'
    <3>1. /\ k \in Nat /\ k + 1 \in DOMAIN reqs /\ reqs'[k] = reqs[k + 1]
          /\ Len(reqs') = Len(reqs) - 1
      BY <1>1, <1>2
    <3> QED BY <1>1, <1>2, <3>1 DEF Numbered
  <2> QED BY <2>2, <2>3 DEF Numbered
<1>10. Obeyed'
  <2> SUFFICES ASSUME ~reset, NEW a \in Answers', a.to = n, a.ok
               PROVE  reqs' = <<>> /\ dev' = code /\ a.at = code
    BY <1>1 DEF Obeyed
  <2>1. a \notin Answers BY <1>1 DEF Obeyed
  <2>2. a = r BY <1>6, <2>1
  <2> QED BY <1>1, <1>5, <1>7, <2>2
<1>11. Heard' BY <1>1 DEF Heard
<1>12. HostSide' BY <1>1 DEF HostSide, Settable, ValidOpr
<1>13. Asked' BY <1>1, <1>2 DEF Asked
<1> QED BY <1>8, <1>9, <1>10, <1>11, <1>12, <1>13

LEMMA ResetStep == ASSUME ConfInv, Reset PROVE ConfInv'
<1> USE DEF ConfInv, cmdVars
<1>1. /\ dev' \in Codes /\ reqs' = <<>> /\ wire' = {} /\ reset' = TRUE
      /\ UNCHANGED <<bus, conf, line, pc, ret, wait, replies, code, flow, n, same>>
  BY DEF Reset
<1>2. Answers' \subseteq Answers BY <1>1 DEF Answers
<1>3. Types'
  <2>1. reqs' \in Seq(Request) /\ wire' \in SUBSET Reply BY <1>1
  <2> QED BY <1>1, <2>1 DEF Types
<1>4. Numbered' BY <1>1, <1>2 DEF Numbered
<1>5. Obeyed' /\ Heard' /\ Asked' BY <1>1 DEF Obeyed, Heard, Asked
<1>6. HostSide' BY <1>1 DEF HostSide, Settable, ValidOpr
<1> QED BY <1>3, <1>4, <1>5, <1>6

LEMMA ConfStep == ConfInv /\ [Next]_vars => ConfInv'
<1> SUFFICES ASSUME ConfInv, [Next]_vars PROVE ConfInv' OBVIOUS
<1>1. CASE Obey \/ Refuse BY <1>1, AnswerStep DEF Obey, Refuse
<1>2. CASE UNCHANGED vars
  BY <1>2 DEF vars, cmdVars, ConfInv, Types, Answers, Numbered, Obeyed, Heard, HostSide,
     Settable, ValidOpr, Asked
<1> QED
  BY <1>1, <1>2, WriteStep, ApplyStep, IdleStep, ReceiveStep, ResetStep DEF Next

-----------------------------------------------------------------------------

\* A configuration command that returns 0 for a setting the host supports has
\* left the host's variable, its hardware and the device with it, unless the
\* device was reset meanwhile or the answer is an earlier command's (UARTCONF,
\* I2CCONF and SPICONF of gacrux_cmd.c, for any operands).
THEOREM SuccessAgrees == Spec => SuccessMeansAgreement
<1>1. ASSUME ConfInv, [Next]_vars
      PROVE  [Returns /\ ret' = "ok" /\ Settable /\ ~reset
                /\ (replies # <<>> => Head(replies).to = n)
              => conf = code /\ line = code /\ dev = code]_vars
  <2> USE <1>1 DEF ConfInv
  <2> SUFFICES ASSUME Returns, ret' = "ok", Settable, ~reset,
                      replies # <<>> => Head(replies).to = n
               PROVE  conf = code /\ line = code /\ dev = code
    OBVIOUS
  <2>1. pc = "read" /\ replies # <<>> /\ Head(replies).ok
    BY DEF Returns, Next, vars, Write, WriteFails, InvalidOpr, Unsupported, Change, Read,
       ReadFails, SetDfs, OtherWrite, Receive, Obey, Refuse, Answer, Reset
  <2>2. 1 \in DOMAIN replies /\ Head(replies) = replies[1] BY <2>1, TailFacts DEF Types
  <2>3. Head(replies) \in Answers BY <2>2 DEF Answers
  <2>4. dev = code BY <2>1, <2>3 DEF Obeyed
  <2>5. conf = code BY <2>1 DEF HostSide
  <2>6. line = code BY <2>1, <2>2, <2>5 DEF Heard, HostSide
  <2> QED BY <2>4, <2>5, <2>6
<1> QED BY <1>1, ConfInit, ConfStep, PTL DEF Spec, SuccessMeansAgreement

\* The same command again, for the setting the device has, puts the host's side
\* right whatever was lost, refused or reset before it.
THEOREM ReissueMends == Spec => ReissueAgrees
<1>1. ASSUME ConfInv
      PROVE  Returns /\ same /\ Settable /\ ~reset => conf = dev
  BY <1>1 DEF ConfInv, Returns, HostSide, Asked
<1> QED BY <1>1, ConfInit, ConfStep, PTL DEF Spec, ReissueAgrees
=============================================================================
