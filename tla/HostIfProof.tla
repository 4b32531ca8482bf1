----------------------------- MODULE HostIfProof ----------------------------
(***************************************************************************)
(* HostIf, for every set of interfaces, queue length and bound: its types; *)
(* that a command is given only what passed the checks; who owns each      *)
(* dataframe buffer, and the order of the frames on each line              *)
(* (BufferOwnership and LineInv); that it implements ReplyChannel, and     *)
(* what follows from that; how long a command takes; whose answer it is    *)
(* given (PairedReply and NoDiscardInPop); and, in steady operation, the   *)
(* count of the BUS_REQ semaphore.                                         *)
(***************************************************************************)
EXTENDS HostIf, TLAPS, SequenceTheorems

\* TypeOK needs two more facts to be inductive: a command that runs has an id,
\* and a task that handles a frame has one.
Running == pc # "idle" => cur \in 1 .. MaxCmds
Loaded == \A i \in Ifs : rpc[i] \in {"got", "send"} => rbuf[i] # <<>>
TypeInv == TypeOK /\ Running /\ Loaded

LEMMA HeadTail ==
  ASSUME NEW s \in Seq(Frame), s # <<>>
  PROVE  Head(s) \in Frame /\ Tail(s) \in Seq(Frame)
BY HeadTailProperties

LEMMA SpoiltType == ASSUME NEW f \in Frame PROVE Spoilt(f) \in Frame
BY BoundsAssumption DEF Spoilt, Frame, FrameKinds

\* What uart_open leaves is a later part of what was there, perhaps behind the
\* remains of its first frame.
LEMMA FlushedCut ==
  ASSUME NEW s \in Seq(Frame), NEW u \in Flushed(s)
  PROVE  \E k \in 0 .. Len(s) :
            \/ u = SubSeq(s, k + 1, Len(s))
            \/ k >= 1 /\ s # <<>> /\ u = <<Spoilt(Head(s))>> \o SubSeq(s, k + 1, Len(s))
BY DEF Flushed

LEMMA FlushedType ==
  ASSUME NEW s \in Seq(Frame), NEW u \in Flushed(s) PROVE u \in Seq(Frame)
<1>1. PICK k \in 0 .. Len(s) :
         \/ u = SubSeq(s, k + 1, Len(s))
         \/ k >= 1 /\ s # <<>> /\ u = <<Spoilt(Head(s))>> \o SubSeq(s, k + 1, Len(s))
  BY FlushedCut
<1>2. SubSeq(s, k + 1, Len(s)) \in Seq(Frame) BY SubSeqProperties
<1>3. s # <<>> => <<Spoilt(Head(s))>> \in Seq(Frame)
  <2>1. s # <<>> => Spoilt(Head(s)) \in Frame BY HeadTail, SpoiltType
  <2> QED BY <2>1
<1> QED BY <1>1, <1>2, <1>3, ConcatProperties

LEMMA OpenedLine ==
  ASSUME TypeOK, NEW w \in Opened(wire)
  PROVE  /\ w \in [Ifs -> Seq(Frame)]
         /\ \A i \in Ifs \ {hifType} : w[i] = wire[i]
         /\ w[hifType] = wire[hifType] \/ w[hifType] \in Flushed(wire[hifType])
<1> USE DEF TypeOK
<1>1. CASE hifType = "UART"
  <2>1. PICK u \in Flushed(wire[hifType]) : w = [wire EXCEPT ![hifType] = u]
    BY <1>1 DEF Opened
  <2>2. wire[hifType] \in Seq(Frame) OBVIOUS
  <2>3. u \in Seq(Frame) BY <2>1, <2>2, FlushedType
  <2> QED BY <2>1, <2>3
<1>2. CASE hifType # "UART" BY <1>2 DEF Opened
<1> QED BY <1>1, <1>2

LEMMA TypeInit == Init => TypeInv
<1> SUFFICES ASSUME Init PROVE TypeInv OBVIOUS
<1> USE IfsAssumption, BoundsAssumption, MqMaxAssumption DEF Init
<1>1. mq \in Seq(Frame) /\ heap \subseteq 1 .. MaxFrames /\ lost \subseteq 1 .. MaxFrames OBVIOUS
<1>2. rpc \in [Ifs -> RecvPcs] BY DEF RecvPcs
<1>3. rbuf \in [Ifs -> Seq(Frame)] OBVIOUS
<1>4. wire \in [Ifs -> Seq(Frame)] OBVIOUS
<1>5. pending \in [Ifs -> SUBSET (1 .. MaxCmds)] OBVIOUS
<1>6. busReq \in [BusIfs -> Nat] /\ dbgRecv \in [Ifs -> BOOLEAN] OBVIOUS
<1>7. pc \in MainPcs /\ kind \in CmdKinds BY DEF MainPcs, CmdKinds
<1>8. cur \in 0 .. MaxCmds /\ owed \subseteq 1 .. MaxCmds /\ nextSn \in 1 .. MaxFrames + 1 OBVIOUS
<1>9. inited \in BOOLEAN /\ hifType \in Ifs /\ hifState \in {"IDLE", "WAIT"} OBVIOUS
<1>10. reply \in Frame \cup {NoFrame} OBVIOUS
<1>11. Running /\ Loaded BY DEF Running, Loaded
<1> QED
  BY <1>1, <1>2, <1>3, <1>4, <1>5, <1>6, <1>7, <1>8, <1>9, <1>10, <1>11 DEF TypeOK, TypeInv


LEMMA EmitType ==
  ASSUME TypeOK, NEW i \in Ifs, NEW k \in FrameKinds, NEW c \in 0 .. MaxCmds, Emit(i, k, c)
  PROVE  /\ wire' \in [Ifs -> Seq(Frame)]
         /\ nextSn' \in 1 .. MaxFrames + 1
         /\ busReq' \in [BusIfs -> Nat]
<1> USE BoundsAssumption
<1> DEFINE f == [sn |-> nextSn, kind |-> k, cmd |-> c, hif |-> i]
<1>1. f \in Frame BY DEF TypeOK, Emit, Frame
<1>2. wire[i] \in Seq(Frame) BY DEF TypeOK
<1>3. Append(wire[i], f) \in Seq(Frame) BY <1>1, <1>2, AppendProperties
<1>4. wire' \in [Ifs -> Seq(Frame)] BY <1>3 DEF Emit, TypeOK
<1>5. nextSn' \in 1 .. MaxFrames + 1 BY DEF Emit, TypeOK
<1>6. busReq' \in [BusIfs -> Nat] BY DEF Emit, Pulse, TypeOK
<1> QED BY <1>4, <1>5, <1>6

LEMMA TypeStep == TypeInv /\ [Next]_vars => TypeInv'
<1> SUFFICES ASSUME TypeInv, [Next]_vars PROVE TypeInv' OBVIOUS
<1> USE DEF TypeInv, TypeOK, Running, Loaded, mainVars, setVars, mqVars, recvVars, devVars
<1> USE IfsAssumption, BoundsAssumption, MqMaxAssumption
<1> USE DEF MainPcs, RecvPcs, CmdKinds
<1>1. ASSUME NEW k \in CmdKinds, Call(k) PROVE TypeInv'
  BY <1>1 DEF Call
<1>2. CASE WriteHeader \/ WriteOk \/ WriteFail \/ ApplyConf
  <2>1. wire' \in Opened(wire) BY <1>2 DEF WriteHeader, WriteOk, WriteFail, ApplyConf
  <2>2. wire' \in [Ifs -> Seq(Frame)] BY <2>1, OpenedLine
  <2>3. CASE WriteHeader BY <2>2, <2>3 DEF WriteHeader
  <2>4. CASE WriteOk BY <2>2, <2>4 DEF WriteOk
  <2>5. CASE WriteFail BY <2>2, <2>5 DEF WriteFail
  <2>6. CASE ApplyConf BY <2>2, <2>6 DEF ApplyConf
  <2> QED BY <1>2, <2>3, <2>4, <2>5, <2>6
<1>3. CASE BodyRefused BY <1>3 DEF BodyRefused
<1>4. CASE SetWait BY <1>4 DEF SetWait, AfterWrite
<1>5. CASE EvtTimeout BY <1>5 DEF EvtTimeout
<1>6. CASE Pop BY <1>6, HeadTail DEF Pop, Frame
<1>7. CASE PopTimeout BY <1>7 DEF PopTimeout
<1>8. CASE PopError BY <1>8 DEF PopError
<1>9. CASE SetIdle BY <1>9 DEF SetIdle
<1>10. ASSUME NEW i \in Ifs, ChgIf(i) PROVE TypeInv' BY <1>10 DEF ChgIf
<1>11. ASSUME NEW on \in BOOLEAN, DbgRecv(on) PROVE TypeInv'
  <2>1. rpc[hifType] = "send" => Head(rbuf[hifType]).sn \in 1 .. MaxFrames
    BY HeadTail DEF Frame
  <2>2. wire' \in [Ifs -> Seq(Frame)] BY <1>11 DEF DbgRecv
  <2>3. rbuf' \in [Ifs -> Seq(Frame)] BY <1>11 DEF DbgRecv
  <2>4. rpc' \in [Ifs -> RecvPcs] /\ lost' \subseteq 1 .. MaxFrames
    BY <1>11, <2>1 DEF DbgRecv, Started
  <2>5. Loaded' BY <1>11 DEF DbgRecv, Started
  <2> QED BY <1>11, <2>2, <2>3, <2>4, <2>5 DEF DbgRecv
<1>12. CASE CmdDeinit
  <2>1. rpc' \in [Ifs -> RecvPcs] /\ Loaded' BY <1>12 DEF CmdDeinit
  <2>2. rbuf' \in [Ifs -> Seq(Frame)] BY <1>12 DEF CmdDeinit
  <2>3. wire' \in [Ifs -> Seq(Frame)] BY <1>12 DEF CmdDeinit
  <2>4. busReq' \in [BusIfs -> Nat] /\ mq' \in Seq(Frame) BY <1>12 DEF CmdDeinit
  <2> QED BY <1>12, <2>1, <2>2, <2>3, <2>4 DEF CmdDeinit
<1>13. CASE CmdInit BY <1>13 DEF CmdInit, Started
<1>14. ASSUME NEW i \in Ifs, TakeToken(i) PROVE TypeInv'
  <2>1. busReq' \in [BusIfs -> Nat] BY <1>14 DEF TakeToken
  <2> QED BY <1>14, <2>1 DEF TakeToken
<1>15. ASSUME NEW i \in Ifs, BusRead(i) PROVE TypeInv' BY <1>15, HeadTail DEF BusRead
<1>16. ASSUME NEW i \in Ifs, SpiReadIdle(i) PROVE TypeInv'
  <2>1. [sn |-> nextSn, kind |-> "badhdr", cmd |-> 0, hif |-> i] \in Frame
    BY <1>16 DEF SpiReadIdle, Frame, FrameKinds
  <2>2. rbuf' \in [Ifs -> Seq(Frame)] BY <1>16, <2>1 DEF SpiReadIdle
  <2>3. rpc' \in [Ifs -> RecvPcs] /\ nextSn' \in 1 .. MaxFrames + 1 BY <1>16 DEF SpiReadIdle
  <2>4. Loaded' BY <1>16 DEF SpiReadIdle
  <2> QED BY <1>16, <2>2, <2>3, <2>4 DEF SpiReadIdle
<1>17. ASSUME NEW i \in Ifs, UartRead(i) PROVE TypeInv'
  <2>1. PICK k \in 0 .. Len(wire[i]) :
          /\ rbuf' = [rbuf EXCEPT ![i] = @ \o SubSeq(wire[i], 1, k)]
          /\ wire' = [wire EXCEPT ![i] = SubSeq(@, k + 1, Len(@))]
    BY <1>17 DEF UartRead
  <2>2. SubSeq(wire[i], 1, k) \in Seq(Frame) /\ SubSeq(wire[i], k + 1, Len(wire[i])) \in Seq(Frame)
    BY SubSeqProperties
  <2>3. rbuf' \in [Ifs -> Seq(Frame)] /\ wire' \in [Ifs -> Seq(Frame)]
    BY <2>1, <2>2, ConcatProperties
  <2>4. rpc' \in [Ifs -> RecvPcs] BY <1>17 DEF UartRead
  <2>5. Loaded'
    <3> SUFFICES ASSUME NEW j \in Ifs, rpc'[j] \in {"got", "send"} PROVE rbuf'[j] # <<>>
      OBVIOUS
    <3>1. rpc' = [rpc EXCEPT ![i] = IF rbuf'[i] = <<>> THEN "read" ELSE "got"]
      BY <1>17 DEF UartRead
    <3>2. CASE j = i BY <3>1, <3>2
    <3>3. CASE j # i BY <2>1, <3>1, <3>3
    <3> QED BY <3>2, <3>3
  <2> QED BY <1>17, <2>3, <2>4, <2>5 DEF UartRead
<1>18. ASSUME NEW i \in Ifs, DbgDump(i) PROVE TypeInv' BY <1>18, HeadTail DEF DbgDump, Fetching
<1>19. ASSUME NEW i \in Ifs, Reject(i) PROVE TypeInv'
  <2>1. ASSUME wire[i] # <<>>
        PROVE  <<Spoilt(Head(wire[i]))>> \o Tail(wire[i]) \in Seq(Frame)
    <3>1. Spoilt(Head(wire[i])) \in Frame BY <2>1, HeadTail, SpoiltType
    <3>2. <<Spoilt(Head(wire[i]))>> \in Seq(Frame) BY <3>1
    <3>3. Tail(wire[i]) \in Seq(Frame) BY <2>1, HeadTail
    <3> HIDE DEF TypeInv, TypeOK
    <3> QED BY <3>2, <3>3, ConcatProperties
  <2>2. wire' \in [Ifs -> Seq(Frame)]
    <3> DEFINE left == <<Spoilt(Head(wire[i]))>> \o Tail(wire[i])
    <3>1. wire' = wire \/ (wire[i] # <<>> /\ wire' = [wire EXCEPT ![i] = left])
      BY <1>19 DEF Reject
    <3>2. wire[i] # <<>> => left \in Seq(Frame) BY <2>1
    <3> HIDE DEF left
    <3> QED BY <3>1, <3>2
  <2>3. rbuf' \in [Ifs -> Seq(Frame)]
    <3>1. rbuf' = [rbuf EXCEPT ![i] = <<>>] BY <1>19 DEF Reject
    <3>2. <<>> \in Seq(Frame) OBVIOUS
    <3> QED BY <3>1, <3>2
  <2>4. rpc' \in [Ifs -> RecvPcs] /\ Loaded' BY <1>19 DEF Reject, Fetching
  <2> QED BY <1>19, <2>2, <2>3, <2>4 DEF Reject
<1>20. ASSUME NEW i \in Ifs, Notify(i) PROVE TypeInv' BY <1>20, HeadTail DEF Notify, Consume, Fetching
<1>21. ASSUME NEW i \in Ifs, Discard(i) PROVE TypeInv' BY <1>21, HeadTail DEF Discard, Consume, Fetching
<1>22. ASSUME NEW i \in Ifs, Admit(i) PROVE TypeInv'
  <2>1. Head(rbuf[i]).sn \in 1 .. MaxFrames BY <1>22, HeadTail DEF Admit, Frame
  <2>2. heap' \subseteq 1 .. MaxFrames /\ rpc' \in [Ifs -> RecvPcs] BY <1>22, <2>1 DEF Admit
  <2>3. Loaded' BY <1>22 DEF Admit
  <2> QED BY <1>22, <2>2, <2>3 DEF Admit
<1>23. ASSUME NEW i \in Ifs, AdmitFail(i) PROVE TypeInv'
  <2>1. rbuf' \in [Ifs -> Seq(Frame)] BY <1>23 DEF AdmitFail, KeepOrDrop
  <2>2. rpc' \in [Ifs -> RecvPcs] /\ Loaded' BY <1>23 DEF AdmitFail, KeepOrDrop, Fetching
  <2> QED BY <1>23, <2>1, <2>2 DEF AdmitFail, KeepOrDrop
<1>24. ASSUME NEW i \in Ifs, Send(i) PROVE TypeInv'
  <2>1. Head(rbuf[i]) \in Frame /\ Tail(rbuf[i]) \in Seq(Frame) BY <1>24, HeadTail DEF Send
  <2>2. mq' \in Seq(Frame) BY <1>24, <2>1, AppendProperties DEF Send
  <2>3. rbuf' \in [Ifs -> Seq(Frame)] BY <1>24, <2>1 DEF Send, Consume
  <2>4. rpc' \in [Ifs -> RecvPcs] /\ Loaded' BY <1>24 DEF Send, Consume, Fetching
  <2> QED BY <1>24, <2>2, <2>3, <2>4 DEF Send
<1>25. ASSUME NEW i \in Ifs, SendFail(i) PROVE TypeInv'
  <2>1. rbuf' \in [Ifs -> Seq(Frame)] BY <1>25 DEF SendFail, KeepOrDrop
  <2>2. rpc' \in [Ifs -> RecvPcs] /\ Loaded' BY <1>25 DEF SendFail, KeepOrDrop, Fetching
  <2> QED BY <1>25, <2>1, <2>2 DEF SendFail, KeepOrDrop
<1>26. ASSUME NEW i \in Ifs, Respond(i) PROVE TypeInv'
  <2>1. PICK k \in FrameKinds, c \in 0 .. MaxCmds : Emit(i, k, c)
    BY <1>26 DEF Respond, FrameKinds
  <2>2. wire' \in [Ifs -> Seq(Frame)] /\ nextSn' \in 1 .. MaxFrames + 1 /\ busReq' \in [BusIfs -> Nat]
    BY <2>1, EmitType
  <2>3. pending' \in [Ifs -> SUBSET (1 .. MaxCmds)] BY <1>26 DEF Respond
  <2> QED BY <2>1, <2>2, <2>3 DEF Emit
<1>27. ASSUME NEW i \in Ifs, Noise(i) PROVE TypeInv'
  <2>1. PICK k \in FrameKinds, c \in 0 .. MaxCmds : Emit(i, k, c)
    BY <1>27 DEF Noise, FrameKinds
  <2>2. wire' \in [Ifs -> Seq(Frame)] /\ nextSn' \in 1 .. MaxFrames + 1 /\ busReq' \in [BusIfs -> Nat]
    BY <2>1, EmitType
  <2>3. pending' \in [Ifs -> SUBSET (1 .. MaxCmds)] BY <1>27 DEF Noise
  <2> QED BY <2>1, <2>2, <2>3 DEF Emit
<1>28. CASE UNCHANGED vars BY <1>28 DEF vars
<1> QED
  BY <1>1, <1>2, <1>3, <1>4, <1>5, <1>6, <1>7, <1>8, <1>9, <1>10, <1>11, <1>12, <1>13,
     <1>14, <1>15, <1>16, <1>17, <1>18, <1>19, <1>20, <1>21, <1>22, <1>23, <1>24, <1>25,
     <1>26, <1>27, <1>28
     DEF Next, MainStep, MainFault, Console, RecvStep, RecvFault, Device

\* Every variable keeps its type (all of HostIf).
THEOREM TypeCorrect == Spec => []TypeOK
<1>1. Init => TypeInv BY TypeInit
<1>2. TypeInv /\ [Next]_vars => TypeInv' BY TypeStep
<1>3. TypeInv => TypeOK BY DEF TypeInv
<1> QED BY <1>1, <1>2, <1>3, PTL DEF Spec

-----------------------------------------------------------------------------
(* What a command is given (ReplyFromReceiver): the checks of the receive   *)
(* task hold for the frame all the way through the queue.                   *)

\* Every frame in the queue, or in a task's mq_send, was taken as a response.
Queued == \A k \in DOMAIN mq : AsResponse(mq[k])
Sending == \A i \in Senders : AsResponse(Head(rbuf[i]))

ReplyInv == TypeInv /\ Queued /\ Sending /\ ReplyFromReceiver

LEMMA QueuedTail ==
  ASSUME NEW s \in Seq(Frame), s # <<>>, \A k \in DOMAIN s : AsResponse(s[k])
  PROVE  AsResponse(Head(s)) /\ \A k \in DOMAIN Tail(s) : AsResponse(Tail(s)[k])
<1>1. /\ Len(s) \in Nat \ {0} /\ DOMAIN s = 1 .. Len(s) /\ Head(s) = s[1]
      /\ DOMAIN Tail(s) = 1 .. Len(s) - 1
      /\ \A k \in 1 .. Len(s) - 1 : Tail(s)[k] = s[k + 1]
  BY HeadTailProperties
<1>2. \A k \in DOMAIN Tail(s) : k + 1 \in DOMAIN s BY <1>1
<1> QED BY <1>1, <1>2

LEMMA QueuedAppend ==
  ASSUME NEW s \in Seq(Frame), NEW f \in Frame, AsResponse(f),
         \A k \in DOMAIN s : AsResponse(s[k])
  PROVE  \A k \in DOMAIN Append(s, f) : AsResponse(Append(s, f)[k])
<1>1. /\ Len(s) \in Nat /\ DOMAIN s = 1 .. Len(s)
      /\ DOMAIN Append(s, f) = 1 .. Len(s) + 1 /\ Append(s, f)[Len(s) + 1] = f
      /\ \A k \in 1 .. Len(s) : Append(s, f)[k] = s[k]
  BY AppendProperties
<1> QED BY <1>1

\* A step that touches neither the queue nor a frame being sent, and lets no
\* task into mq_send.
LEMMA ReplyQuiet ==
  ASSUME ReplyInv, UNCHANGED mq, reply' \in {reply, NoFrame}, Senders' \subseteq Senders,
         \A i \in Senders' : rbuf'[i] = rbuf[i]
  PROVE  Queued' /\ Sending' /\ ReplyFromReceiver'
<1>1. Queued' BY DEF ReplyInv, Queued
<1>2. Sending' BY DEF ReplyInv, Sending
<1>3. ReplyFromReceiver' BY DEF ReplyInv, ReplyFromReceiver
<1> QED BY <1>1, <1>2, <1>3

\* The same for a receive task's step: only its own buffer changes.
LEMMA ReplyTask ==
  ASSUME ReplyInv, NEW i \in Ifs, UNCHANGED <<mq, reply>>, rpc'[i] # "send",
         \A j \in Ifs \ {i} : rpc'[j] = rpc[j] /\ rbuf'[j] = rbuf[j]
  PROVE  Queued' /\ Sending' /\ ReplyFromReceiver'
<1>1. Senders' \subseteq Senders /\ i \notin Senders' BY DEF Senders
<1>2. \A j \in Senders' : rbuf'[j] = rbuf[j] BY <1>1 DEF Senders
<1> QED BY <1>1, <1>2, ReplyQuiet

LEMMA ReplyInit == Init => ReplyInv
<1> SUFFICES ASSUME Init PROVE Queued /\ Sending /\ ReplyFromReceiver BY TypeInit DEF ReplyInv
<1> QED BY DEF Init, Queued, Sending, Senders, ReplyFromReceiver

LEMMA ReplyStep == ReplyInv /\ [Next]_vars => ReplyInv'
<1> SUFFICES ASSUME ReplyInv, [Next]_vars PROVE Queued' /\ Sending' /\ ReplyFromReceiver'
  BY TypeStep DEF ReplyInv
<1> USE DEF mainVars, setVars, mqVars, recvVars, devVars
<1>1. ASSUME UNCHANGED <<mq, rpc, rbuf>>, reply' \in {reply, NoFrame}
      PROVE  Queued' /\ Sending' /\ ReplyFromReceiver'
  <2>1. Senders' = Senders BY <1>1 DEF Senders
  <2> QED BY <1>1, <2>1, ReplyQuiet
<1>2. CASE \/ WriteHeader \/ BodyRefused \/ WriteOk \/ WriteFail \/ SetWait \/ ApplyConf
            \/ EvtTimeout \/ PopTimeout \/ PopError \/ SetIdle
  BY <1>1, <1>2 DEF WriteHeader, BodyRefused, WriteOk, WriteFail, SetWait, ApplyConf,
     EvtTimeout, PopTimeout, PopError, SetIdle
<1>3. CASE (\E k \in CmdKinds : Call(k)) \/ (\E i \in Ifs : ChgIf(i))
  BY <1>1, <1>3 DEF Call, ChgIf
<1>4. CASE Pop
  <2>1. mq \in Seq(Frame) /\ mq # <<>> BY <1>4 DEF Pop, ReplyInv, TypeInv, TypeOK
  <2>2. Queued' /\ AsResponse(Head(mq)) BY <1>4, <2>1, QueuedTail DEF Pop, ReplyInv, Queued
  <2>3. ReplyFromReceiver' BY <1>4, <2>2 DEF Pop, ReplyFromReceiver, AsResponse
  <2>4. Sending' BY <1>4 DEF Pop, ReplyInv, Sending, Senders
  <2> QED BY <2>2, <2>3, <2>4
<1>5. ASSUME NEW on \in BOOLEAN, DbgRecv(on) PROVE Queued' /\ Sending' /\ ReplyFromReceiver'
  <2>1. PICK i \in Ifs : i = hifType BY DEF ReplyInv, TypeInv, TypeOK
  <2>2. rpc'[i] # "send" /\ \A j \in Ifs \ {i} : rpc'[j] = rpc[j] /\ rbuf'[j] = rbuf[j]
    BY <1>5, <2>1 DEF DbgRecv, Started, ReplyInv, TypeInv, TypeOK
  <2> QED BY <1>5, <2>2, ReplyTask DEF DbgRecv
<1>6. CASE CmdDeinit
  <2>1. mq' = <<>> /\ Senders' = {} BY <1>6 DEF CmdDeinit, Senders
  <2> QED BY <1>6, <2>1 DEF CmdDeinit, ReplyInv, Queued, Sending, ReplyFromReceiver
<1>7. CASE CmdInit
  <2>1. \A i \in Ifs : rpc'[i] # "send" BY <1>7 DEF CmdInit, Started
  <2>2. Senders' = {} BY <2>1 DEF Senders
  <2> QED BY <1>7, <2>2, ReplyQuiet DEF CmdInit
<1>8. ASSUME NEW i \in Ifs,
             TakeToken(i) \/ BusRead(i) \/ SpiReadIdle(i) \/ UartRead(i) \/ DbgDump(i)
               \/ Reject(i) \/ Notify(i) \/ Discard(i) \/ RecvFault(i)
      PROVE  Queued' /\ Sending' /\ ReplyFromReceiver'
  <2> USE DEF ReplyInv, TypeInv, TypeOK
  <2>1. UNCHANGED <<mq, reply>>
    BY <1>8 DEF TakeToken, BusRead, SpiReadIdle, UartRead, DbgDump, Reject, Notify, Discard,
       RecvFault, AdmitFail, SendFail
  <2>2. rpc'[i] # "send" /\ \A j \in Ifs \ {i} : rpc'[j] = rpc[j]
    BY <1>8 DEF TakeToken, BusRead, SpiReadIdle, UartRead, DbgDump, Reject, Notify, Discard,
       RecvFault, AdmitFail, SendFail, KeepOrDrop, Consume, Fetching
  <2>3. \A j \in Ifs \ {i} : rbuf'[j] = rbuf[j]
    BY <1>8 DEF TakeToken, BusRead, SpiReadIdle, UartRead, DbgDump, Reject, Notify, Discard,
       RecvFault, AdmitFail, SendFail, KeepOrDrop, Consume
  <2> HIDE DEF ReplyInv
  <2> QED BY <2>1, <2>2, <2>3, ReplyTask
<1>9. ASSUME NEW i \in Ifs, Admit(i) PROVE Queued' /\ Sending' /\ ReplyFromReceiver'
  <2>1. Senders' = Senders \cup {i} /\ rbuf' = rbuf /\ AsResponse(Head(rbuf[i]))
    BY <1>9 DEF Admit, Senders, ReplyInv, TypeInv, TypeOK
  <2>2. Sending' BY <2>1 DEF ReplyInv, Sending
  <2> QED BY <1>9, <2>2 DEF Admit, ReplyInv, Queued, ReplyFromReceiver
<1>10. ASSUME NEW i \in Ifs, Send(i) PROVE Queued' /\ Sending' /\ ReplyFromReceiver'
  <2> USE DEF ReplyInv, TypeInv, TypeOK
  <2>1. /\ i \in Senders /\ Senders' = Senders \ {i} /\ mq' = Append(mq, Head(rbuf[i]))
        /\ reply' = reply /\ \A j \in Ifs \ {i} : rbuf'[j] = rbuf[j]
    BY <1>10 DEF Send, Consume, Fetching, Senders
  <2>2. Head(rbuf[i]) \in Frame BY <1>10, HeadTail DEF Send, Loaded
  <2>3. AsResponse(Head(rbuf[i])) BY <2>1 DEF Sending
  <2> HIDE DEF TypeInv, TypeOK
  <2>4. Queued' BY <2>1, <2>2, <2>3, QueuedAppend DEF Queued, TypeInv, TypeOK
  <2>5. Sending' BY <2>1 DEF Sending, Senders
  <2> QED BY <2>1, <2>4, <2>5 DEF ReplyFromReceiver
<1>11. ASSUME NEW i \in Ifs, Device(i) PROVE Queued' /\ Sending' /\ ReplyFromReceiver'
  BY <1>1, <1>11 DEF Device, Respond, Noise, Emit
<1>12. CASE UNCHANGED vars BY <1>1, <1>12 DEF vars
<1> QED
  BY <1>2, <1>3, <1>4, <1>5, <1>6, <1>7, <1>8, <1>9, <1>10, <1>11, <1>12
     DEF Next, MainStep, MainFault, Console, RecvStep, RecvFault

\* pop_dataframe never hands a command an event or a frame whose data failed
\* its check, and a frame with an invalid header only if it came by SPI.
THEOREM RepliesChecked == Spec => []ReplyFromReceiver
<1>1. ReplyInv => ReplyFromReceiver BY DEF ReplyInv
<1> QED BY <1>1, ReplyInit, ReplyStep, PTL DEF Spec

-----------------------------------------------------------------------------
(* Buffers and lines.                                                      *)

LEMMA SnsEmpty == Sns(<<>>) = {} /\ InOrder(<<>>)
BY DEF Sns, InOrder

LEMMA SnsOne == ASSUME NEW f \in Frame PROVE Sns(<<f>>) = {f.sn} /\ InOrder(<<f>>)
BY DEF Sns, InOrder

LEMMA SnsTail ==
  ASSUME NEW s \in Seq(Frame), s # <<>>
  PROVE  Sns(s) = {Head(s).sn} \cup Sns(Tail(s))
<1>1. /\ Len(s) \in Nat \ {0} /\ DOMAIN s = 1 .. Len(s) /\ Head(s) = s[1]
      /\ DOMAIN Tail(s) = 1 .. Len(s) - 1
      /\ \A k \in 1 .. Len(s) - 1 : Tail(s)[k] = s[k + 1]
  BY HeadTailProperties
<1>2. \A k \in DOMAIN s : k = 1 \/ (k - 1 \in DOMAIN Tail(s) /\ s[k] = Tail(s)[k - 1])
  BY <1>1
<1>3. Sns(s) \subseteq {Head(s).sn} \cup Sns(Tail(s))
  <2> SUFFICES ASSUME NEW k \in DOMAIN s, k # 1 PROVE s[k].sn \in Sns(Tail(s)) BY <1>1 DEF Sns
  <2>1. k - 1 \in DOMAIN Tail(s) /\ s[k] = Tail(s)[k - 1] BY <1>2
  <2> QED BY <2>1 DEF Sns
<1>4. Head(s).sn \in Sns(s) BY <1>1 DEF Sns
<1>5. Sns(Tail(s)) \subseteq Sns(s)
  <2> SUFFICES ASSUME NEW j \in DOMAIN Tail(s) PROVE Tail(s)[j].sn \in Sns(s) BY DEF Sns
  <2>1. j + 1 \in DOMAIN s /\ Tail(s)[j] = s[j + 1] BY <1>1
  <2> QED BY <2>1 DEF Sns
<1> QED BY <1>3, <1>4, <1>5

LEMMA OrderTail ==
  ASSUME NEW s \in Seq(Frame), s # <<>>, InOrder(s)
  PROVE  InOrder(Tail(s)) /\ \A b \in Sns(Tail(s)) : Head(s).sn < b
BY DEF Sns, InOrder

LEMMA SnsAppend ==
  ASSUME NEW s \in Seq(Frame), NEW f \in Frame
  PROVE  Sns(Append(s, f)) = Sns(s) \cup {f.sn}
BY DEF Sns

LEMMA OrderAppend ==
  ASSUME NEW s \in Seq(Frame), NEW f \in Frame, InOrder(s), \A a \in Sns(s) : a < f.sn
  PROVE  InOrder(Append(s, f))
BY DEF Sns, InOrder

LEMMA SnsSplit ==
  ASSUME NEW s \in Seq(Frame), NEW w \in Seq(Frame), NEW k \in 0 .. Len(w)
  PROVE  /\ Sns(s \o SubSeq(w, 1, k)) \cup Sns(SubSeq(w, k + 1, Len(w))) \subseteq Sns(s) \cup Sns(w)
BY DEF Sns

LEMMA OrderSplit ==
  ASSUME NEW s \in Seq(Frame), NEW w \in Seq(Frame), NEW k \in 0 .. Len(w),
         InOrder(s), InOrder(w), \A a \in Sns(s), b \in Sns(w) : a < b
  PROVE  /\ InOrder(s \o SubSeq(w, 1, k)) /\ InOrder(SubSeq(w, k + 1, Len(w)))
         /\ \A a \in Sns(s \o SubSeq(w, 1, k)), b \in Sns(SubSeq(w, k + 1, Len(w))) : a < b
<1> DEFINE l == s \o SubSeq(w, 1, k)
           r == SubSeq(w, k + 1, Len(w))
<1>1. /\ DOMAIN l = 1 .. Len(s) + k
      /\ \A j \in 1 .. Len(s) : l[j] = s[j]
      /\ \A j \in Len(s) + 1 .. Len(s) + k : j - Len(s) \in 1 .. Len(w) /\ l[j] = w[j - Len(s)]
  OBVIOUS
<1>2. /\ DOMAIN r = 1 .. Len(w) - k
      /\ \A j \in 1 .. Len(w) - k : j + k \in 1 .. Len(w) /\ r[j] = w[j + k]
  OBVIOUS
<1>3. DOMAIN s = 1 .. Len(s) /\ DOMAIN w = 1 .. Len(w) /\ Len(s) \in Nat /\ Len(w) \in Nat
  OBVIOUS
<1>4. \A j \in DOMAIN s, m \in DOMAIN w : s[j].sn < w[m].sn BY DEF Sns
<1> HIDE DEF l, r
<1>5. InOrder(l)
  <2> SUFFICES ASSUME NEW j \in DOMAIN l, NEW m \in DOMAIN l, j < m
               PROVE  l[j].sn < l[m].sn
    BY DEF InOrder
  <2>1. CASE m <= Len(s) BY <1>1, <1>3, <2>1 DEF InOrder
  <2>2. CASE j <= Len(s) /\ m > Len(s)
    <3>1. j \in DOMAIN s /\ l[j] = s[j] BY <1>1, <1>3, <2>2
    <3>2. m - Len(s) \in DOMAIN w /\ l[m] = w[m - Len(s)] BY <1>1, <1>3, <2>2
    <3> QED BY <1>4, <3>1, <3>2
  <2>3. CASE j > Len(s)
    <3>1. j - Len(s) \in DOMAIN w /\ m - Len(s) \in DOMAIN w /\ j - Len(s) < m - Len(s)
      BY <1>1, <1>3, <2>3
    <3> QED BY <1>1, <1>3, <2>3, <3>1 DEF InOrder
  <2> QED BY <1>1, <1>3, <2>1, <2>2, <2>3
<1>6. InOrder(r)
  <2> SUFFICES ASSUME NEW j \in DOMAIN r, NEW m \in DOMAIN r, j < m
               PROVE  r[j].sn < r[m].sn
    BY DEF InOrder
  <2>1. /\ j + k \in DOMAIN w /\ m + k \in DOMAIN w /\ j + k < m + k
        /\ r[j] = w[j + k] /\ r[m] = w[m + k]
    BY <1>2, <1>3
  <2> QED BY <2>1 DEF InOrder
<1>7. ASSUME NEW j \in DOMAIN l, NEW m \in DOMAIN r PROVE l[j].sn < r[m].sn
  <2>1. m + k \in DOMAIN w /\ r[m] = w[m + k] BY <1>2, <1>3
  <2>2. CASE j <= Len(s) BY <1>1, <1>3, <1>4, <2>1, <2>2
  <2>3. CASE j > Len(s)
    <3>1. j - Len(s) \in DOMAIN w /\ l[j] = w[j - Len(s)] /\ j - Len(s) < m + k
      BY <1>1, <1>2, <1>3, <2>3
    <3> QED BY <2>1, <3>1 DEF InOrder
  <2> QED BY <1>1, <1>3, <2>2, <2>3
<1>8. \A a \in Sns(l), b \in Sns(r) : a < b BY <1>7 DEF Sns
<1> QED BY <1>5, <1>6, <1>8 DEF l, r

\* Damage changes neither the serial numbers nor their order.
LEMMA SnsSpoilt ==
  ASSUME NEW s \in Seq(Frame), s # <<>>
  PROVE  LET left == <<Spoilt(Head(s))>> \o Tail(s)
         IN  Sns(left) = Sns(s) /\ (InOrder(s) => InOrder(left))
<1> DEFINE left == <<Spoilt(Head(s))>> \o Tail(s)
<1>1. DOMAIN s = 1 .. Len(s) /\ Len(s) \in Nat \ {0} OBVIOUS
<1>2. DOMAIN left = 1 .. Len(s) /\ left[1] = Spoilt(s[1]) OBVIOUS
<1>3. \A k \in 2 .. Len(s) : left[k] = s[k] OBVIOUS
<1>4. \A k \in 1 .. Len(s) : left[k].sn = s[k].sn BY <1>1, <1>2, <1>3 DEF Spoilt
<1> HIDE DEF left
<1>5. Sns(left) = Sns(s) BY <1>1, <1>2, <1>4 DEF Sns
<1>6. InOrder(s) => InOrder(left) BY <1>1, <1>2, <1>4 DEF InOrder
<1> QED BY <1>5, <1>6 DEF left

\* Nor does opening the port, which also drops frames.
LEMMA SnsFlushed ==
  ASSUME NEW s \in Seq(Frame), NEW u \in Flushed(s)
  PROVE  Sns(u) \subseteq Sns(s) /\ (InOrder(s) => InOrder(u))
<1>1. PICK k \in 0 .. Len(s) :
         \/ u = SubSeq(s, k + 1, Len(s))
         \/ k >= 1 /\ s # <<>> /\ u = <<Spoilt(Head(s))>> \o SubSeq(s, k + 1, Len(s))
  BY FlushedCut
<1>2. DOMAIN s = 1 .. Len(s) /\ Len(s) \in Nat OBVIOUS
<1>3. CASE u = SubSeq(s, k + 1, Len(s))
  <2>1. DOMAIN u = 1 .. Len(s) - k /\ \A j \in 1 .. Len(s) - k : u[j] = s[j + k] BY <1>3
  <2>2. \A j \in DOMAIN u : j + k \in DOMAIN s BY <1>2, <2>1
  <2>3. Sns(u) \subseteq Sns(s) BY <2>1, <2>2 DEF Sns
  <2>4. InOrder(s) => InOrder(u) BY <1>2, <2>1, <2>2 DEF InOrder
  <2> QED BY <2>3, <2>4
<1>4. CASE k >= 1 /\ s # <<>> /\ u = <<Spoilt(Head(s))>> \o SubSeq(s, k + 1, Len(s))
  <2> DEFINE at(j) == IF j = 1 THEN 1 ELSE j + k - 1
  <2>1. DOMAIN u = 1 .. Len(s) - k + 1 /\ u[1] = Spoilt(s[1]) BY <1>4
  <2>2. \A j \in 2 .. Len(s) - k + 1 : u[j] = s[j + k - 1] BY <1>4
  <2>3. u[1].sn = s[1].sn BY <2>1 DEF Spoilt
  <2>4. ASSUME NEW j \in DOMAIN u PROVE at(j) \in DOMAIN s /\ u[j].sn = s[at(j)].sn
    <3>1. CASE j = 1 BY <1>2, <1>4, <2>3, <3>1
    <3>2. CASE j # 1
      <4>1. j \in 2 .. Len(s) - k + 1 BY <1>2, <2>1, <3>2
      <4>2. at(j) = j + k - 1 /\ at(j) \in DOMAIN s BY <1>2, <1>4, <3>2, <4>1
      <4> QED BY <2>2, <4>1, <4>2
    <3> QED BY <3>1, <3>2
  <2>5. \A i, j \in DOMAIN u : i < j => at(i) < at(j) BY <1>4, <2>1
  <2> HIDE DEF at
  <2>6. Sns(u) \subseteq Sns(s) BY <2>4 DEF Sns
  <2>7. InOrder(s) => InOrder(u) BY <2>4, <2>5 DEF InOrder
  <2> QED BY <2>6, <2>7
<1> QED BY <1>1, <1>3, <1>4

LEMMA DistinctTail ==
  ASSUME NEW s \in Seq(Frame), s # <<>>, Distinct(s)
  PROVE  Distinct(Tail(s)) /\ Head(s).sn \notin Sns(Tail(s))
<1>1. /\ Len(s) \in Nat \ {0} /\ DOMAIN s = 1 .. Len(s) /\ Head(s) = s[1]
      /\ DOMAIN Tail(s) = 1 .. Len(s) - 1
      /\ \A k \in 1 .. Len(s) - 1 : Tail(s)[k] = s[k + 1]
  BY HeadTailProperties
<1>2. \A k \in DOMAIN Tail(s) : k + 1 \in DOMAIN s /\ k + 1 # 1 BY <1>1
<1>3. Head(s).sn \notin Sns(Tail(s)) BY <1>1, <1>2 DEF Distinct, Sns
<1>4. Distinct(Tail(s)) BY <1>1, <1>2 DEF Distinct
<1> QED BY <1>3, <1>4

LEMMA DistinctAppend ==
  ASSUME NEW s \in Seq(Frame), NEW f \in Frame, Distinct(s), f.sn \notin Sns(s)
  PROVE  Distinct(Append(s, f))
<1>1. /\ Len(s) \in Nat /\ DOMAIN s = 1 .. Len(s)
      /\ DOMAIN Append(s, f) = 1 .. Len(s) + 1 /\ Append(s, f)[Len(s) + 1] = f
      /\ \A k \in 1 .. Len(s) : Append(s, f)[k] = s[k]
  BY AppendProperties
<1>2. \A k \in 1 .. Len(s) : Append(s, f)[k].sn # f.sn BY <1>1 DEF Sns
<1> QED BY <1>1, <1>2 DEF Distinct

LEMMA DistinctEmpty == Distinct(<<>>)
BY DEF Distinct

-----------------------------------------------------------------------------

\* After DEINIT no task is left, so INIT deletes none in mq_send.
Stopped == ~inited => \A i \in Ifs : rpc[i] = "off"

BufInv == TypeInv /\ Stopped /\ BufferOwnership /\ LineInv

\* The order on one line, and what a task in mq_send holds.
LineOrder(i) ==
  /\ InOrder(rbuf[i]) /\ InOrder(wire[i])
  /\ \A a \in Sns(rbuf[i]), b \in Sns(wire[i]) : a < b

\* Nothing the buffers and the lines are made of changes.
LEMMA QuietStep ==
  ASSUME BufferOwnership, LineInv, Senders' = Senders, UNCHANGED <<mq, heap, lost, rbuf, wire, nextSn>>
  PROVE  BufferOwnership' /\ LineInv'
<1>1. \A i \in Ifs : SendingSn(i)' = SendingSn(i) /\ OnLine(i)' = OnLine(i)
  BY DEF SendingSn, OnLine
<1>2. BufferOwnership' BY <1>1 DEF BufferOwnership, Senders
<1>3. LinesInOrder' BY DEF LineInv, LinesInOrder
<1>4. LinesApart' BY <1>1 DEF LineInv, LinesApart
<1>5. NoBufferYet' BY <1>1 DEF LineInv, NoBufferYet
<1> QED BY <1>2, <1>3, <1>4, <1>5 DEF LineInv

\* Serial numbers below the counter are none of those it is about to give.
LEMMA Fresh ==
  ASSUME NEW n \in Nat, NEW m \in {n, n + 1}
  PROVE  1 .. n - 1 \subseteq 1 .. m - 1 /\ (1 .. n - 1) \cap (n .. m - 1) = {}
<1>1. 1 .. n - 1 \subseteq 1 .. m - 1 OBVIOUS
<1>2. (1 .. n - 1) \cap (n .. m - 1) = {}
  <2> SUFFICES ASSUME NEW x \in 1 .. n - 1, x \in n .. m - 1 PROVE FALSE OBVIOUS
  <2> QED OBVIOUS
<1> QED BY <1>1, <1>2

\* A line loses frames, or gains new ones, but not the one being sent.
LEMMA LineStep ==
  ASSUME BufInv, NEW i \in Ifs, UNCHANGED <<mq, heap, lost>>,
         \A j \in Ifs \ {i} : rbuf'[j] = rbuf[j] /\ wire'[j] = wire[j],
         Senders' = Senders, i \in Senders => rbuf'[i] = rbuf[i],
         LineOrder(i)',
         OnLine(i)' \subseteq OnLine(i) \cup (nextSn .. nextSn' - 1),
         nextSn' \in {nextSn, nextSn + 1}
  PROVE  BufferOwnership' /\ LineInv'
<1>2. \A j \in Senders : SendingSn(j)' = SendingSn(j) BY DEF SendingSn, Senders
<1>3. BufferOwnership' BY <1>2 DEF BufInv, BufferOwnership
<1>4. \A j \in Ifs \ {i} : OnLine(j)' = OnLine(j) BY DEF OnLine
<1>5. LinesInOrder' BY DEF BufInv, LineInv, LinesInOrder, LineOrder
<1>6. nextSn \in Nat BY DEF BufInv, TypeInv, TypeOK
<1>7. LinesApart'
  <2>1. \A j \in Ifs : OnLine(j) \subseteq 1 .. nextSn - 1 BY DEF BufInv, LineInv, LinesApart
  <2>2. nextSn >= 1 BY DEF BufInv, TypeInv, TypeOK
  <2>3. \A j \in Ifs : OnLine(j)' \subseteq 1 .. nextSn' - 1 BY <1>4, <1>6, <2>1, <2>2
  <2>4. \A j \in Ifs : OnLine(j) \cap (nextSn .. nextSn' - 1) = {}
    <3>1. (1 .. nextSn - 1) \cap (nextSn .. nextSn' - 1) = {} BY <1>6, Fresh
    <3> QED BY <2>1, <3>1
  <2>5. \A j, k \in Ifs : j # k => OnLine(j) \cap OnLine(k) = {} BY DEF BufInv, LineInv, LinesApart
  <2>6. \A j, k \in Ifs : j # k => OnLine(j)' \cap OnLine(k)' = {} BY <1>4, <2>4, <2>5
  <2> QED BY <2>3, <2>6 DEF LinesApart
<1>8. NoBufferYet'
  <2>1. heap' = heap /\ heap \subseteq 1 .. nextSn - 1 BY DEF BufInv, LineInv, NoBufferYet
  <2>2. heap' \subseteq 1 .. nextSn' - 1 /\ heap \cap (nextSn .. nextSn' - 1) = {}
    BY <1>6, <2>1, Fresh
  <2>3. ASSUME NEW j \in Ifs
        PROVE  OnLine(j) \cap heap \subseteq (IF j \in Senders' THEN {SendingSn(j)'} ELSE {})
    BY <1>2 DEF BufInv, LineInv, NoBufferYet
  <2>4. OnLine(i)' \cap heap' \subseteq OnLine(i) \cap heap BY <2>1, <2>2
  <2>5. \A j \in Ifs : OnLine(j)' \cap heap' \subseteq OnLine(j) \cap heap BY <1>4, <2>1, <2>4
  <2> QED BY <2>2, <2>3, <2>5 DEF NoBufferYet
<1> QED BY <1>3, <1>5, <1>7, <1>8 DEF LineInv

-----------------------------------------------------------------------------
\* The receive tasks and the device.

LEMMA LineFacts ==
  ASSUME BufInv, NEW i \in Ifs
  PROVE  /\ rbuf[i] \in Seq(Frame) /\ wire[i] \in Seq(Frame)
         /\ LineOrder(i) /\ nextSn \in Nat
BY DEF BufInv, TypeInv, TypeOK, LineInv, LinesInOrder, LineOrder

\* The console opens the port of the selected interface.
LEMMA OpenStep ==
  ASSUME BufInv, wire' \in Opened(wire), UNCHANGED <<mq, heap, lost, rpc, rbuf, nextSn>>
  PROVE  BufferOwnership' /\ LineInv'
<1>1. PICK i \in Ifs : i = hifType BY DEF BufInv, TypeInv, TypeOK
<1>2. /\ \A j \in Ifs \ {i} : wire'[j] = wire[j]
      /\ wire'[i] = wire[i] \/ wire'[i] \in Flushed(wire[i])
  BY <1>1, OpenedLine DEF BufInv, TypeInv
<1>3. Senders' = Senders BY DEF Senders
<1>4. Sns(wire'[i]) \subseteq Sns(wire[i]) /\ InOrder(wire'[i])
  BY <1>2, LineFacts, SnsFlushed DEF LineOrder
<1>5. LineOrder(i)' BY <1>4, LineFacts DEF LineOrder
<1>6. OnLine(i)' \subseteq OnLine(i) BY <1>4 DEF OnLine
<1> QED BY <1>2, <1>3, <1>5, <1>6, LineStep

\* The frame in the receive buffer is done with and nobody sends.
LEMMA ConsumeStep ==
  ASSUME BufInv, NEW i \in Ifs, rpc[i] = "got", Consume(i), UNCHANGED <<mqVars, devVars>>
  PROVE  BufferOwnership' /\ LineInv'
<1> USE DEF mqVars, devVars
<1>1. rbuf[i] # <<>> /\ rbuf[i] \in Seq(Frame) BY DEF BufInv, TypeInv, TypeOK, Loaded
<1>2. rbuf'[i] = Tail(rbuf[i]) /\ wire' = wire BY DEF Consume, BufInv, TypeInv, TypeOK
<1>3. LineOrder(i)' BY <1>1, <1>2, LineFacts, OrderTail, SnsTail DEF LineOrder
<1>4. OnLine(i)' \subseteq OnLine(i) BY <1>1, <1>2, SnsTail DEF OnLine
<1>5. Senders' = Senders /\ i \notin Senders
  BY DEF Senders, Consume, Fetching, BufInv, TypeInv, TypeOK
<1>6. \A j \in Ifs \ {i} : rbuf'[j] = rbuf[j] /\ wire'[j] = wire[j]
  BY DEF Consume, BufInv, TypeInv, TypeOK
<1> QED BY <1>3, <1>4, <1>5, <1>6, LineStep

LEMMA BusReadStep ==
  ASSUME BufInv, NEW i \in Ifs, BusRead(i) PROVE BufferOwnership' /\ LineInv'
<1> USE DEF BusRead, BufInv, TypeInv, TypeOK, mqVars
<1>1. rbuf'[i] = <<Head(wire[i])>> /\ wire'[i] = Tail(wire[i]) OBVIOUS
<1>2. Head(wire[i]) \in Frame BY HeadTail
<1>3. Senders' = Senders /\ i \notin Senders BY DEF Senders
<1>4. \A j \in Ifs \ {i} : rbuf'[j] = rbuf[j] /\ wire'[j] = wire[j] OBVIOUS
<1>5. LineOrder(i)' BY <1>1, <1>2, LineFacts, OrderTail, SnsOne DEF LineOrder
<1>6. OnLine(i)' \subseteq OnLine(i) BY <1>1, <1>2, LineFacts, SnsTail, SnsOne DEF OnLine
<1>7. UNCHANGED <<mq, heap, lost, nextSn>> OBVIOUS
<1> HIDE DEF BufInv
<1> QED BY <1>3, <1>4, <1>5, <1>6, <1>7, LineStep

LEMMA SpiReadIdleStep ==
  ASSUME BufInv, NEW i \in Ifs, SpiReadIdle(i) PROVE BufferOwnership' /\ LineInv'
<1> USE DEF BufInv, TypeInv, TypeOK
<1> DEFINE f == [sn |-> nextSn, kind |-> "badhdr", cmd |-> 0, hif |-> i]
<1>1. rbuf'[i] = <<f>> /\ wire'[i] = <<>> /\ nextSn' = nextSn + 1
  BY DEF SpiReadIdle
<1>2. f \in Frame /\ f.sn = nextSn
  <2>1. nextSn \in 1 .. MaxFrames BY DEF SpiReadIdle
  <2> HIDE DEF BufInv, TypeInv, TypeOK
  <2> QED BY <2>1, BoundsAssumption DEF Frame, FrameKinds
<1>3. Senders' = Senders /\ i \notin Senders BY DEF SpiReadIdle, Senders
<1>4. \A j \in Ifs \ {i} : rbuf'[j] = rbuf[j] /\ wire'[j] = wire[j] BY DEF SpiReadIdle
<1>5. UNCHANGED <<mq, heap, lost>> BY DEF SpiReadIdle, mqVars
<1> HIDE DEF f, BufInv
<1>6. LineOrder(i)' BY <1>1, <1>2, SnsOne, SnsEmpty DEF LineOrder
<1>7. OnLine(i)' = {nextSn}
  <2>1. Sns(rbuf'[i]) = {nextSn} BY <1>1, <1>2, SnsOne
  <2>2. Sns(wire'[i]) = {} BY <1>1, SnsEmpty
  <2> QED BY <2>1, <2>2 DEF OnLine
<1>8. nextSn \in nextSn .. nextSn' - 1 BY <1>1, LineFacts
<1> QED BY <1>1, <1>3, <1>4, <1>5, <1>6, <1>7, <1>8, LineStep

LEMMA UartReadStep ==
  ASSUME BufInv, NEW i \in Ifs, UartRead(i) PROVE BufferOwnership' /\ LineInv'
<1>1. PICK k \in 0 .. Len(wire[i]) :
        /\ rbuf' = [rbuf EXCEPT ![i] = @ \o SubSeq(wire[i], 1, k)]
        /\ wire' = [wire EXCEPT ![i] = SubSeq(@, k + 1, Len(@))]
  BY DEF UartRead
<1>2. /\ rbuf'[i] = rbuf[i] \o SubSeq(wire[i], 1, k)
      /\ wire'[i] = SubSeq(wire[i], k + 1, Len(wire[i]))
      /\ \A j \in Ifs \ {i} : rbuf'[j] = rbuf[j] /\ wire'[j] = wire[j]
  BY <1>1 DEF BufInv, TypeInv, TypeOK
<1>3. Senders' = Senders /\ i \notin Senders
  BY DEF UartRead, Senders, BufInv, TypeInv, TypeOK
<1>4. UNCHANGED <<mq, heap, lost, nextSn>> BY DEF UartRead, mqVars
<1>5. LineOrder(i)' BY <1>2, LineFacts, OrderSplit DEF LineOrder
<1>6. OnLine(i)' \subseteq OnLine(i) BY <1>2, LineFacts, SnsSplit DEF OnLine
<1> QED BY <1>2, <1>3, <1>4, <1>5, <1>6, LineStep

LEMMA DbgDumpStep ==
  ASSUME BufInv, NEW i \in Ifs, DbgDump(i) PROVE BufferOwnership' /\ LineInv'
<1> USE DEF BufInv, TypeInv, TypeOK
<1>1. wire'[i] = wire[i] \/ (wire[i] # <<>> /\ wire'[i] = Tail(wire[i]))
  BY DEF DbgDump
<1>2. rbuf' = rbuf /\ \A j \in Ifs \ {i} : wire'[j] = wire[j] BY DEF DbgDump
<1>3. Senders' = Senders /\ i \notin Senders BY DEF DbgDump, Senders, Fetching
<1>4. UNCHANGED <<mq, heap, lost, nextSn>> BY DEF DbgDump, mqVars
<1> HIDE DEF BufInv
<1>5. LineOrder(i)' BY <1>1, <1>2, LineFacts, OrderTail, SnsTail DEF LineOrder
<1>6. OnLine(i)' \subseteq OnLine(i) BY <1>1, <1>2, LineFacts, SnsTail DEF OnLine
<1> QED BY <1>2, <1>3, <1>4, <1>5, <1>6, LineStep

LEMMA RejectStep ==
  ASSUME BufInv, NEW i \in Ifs, Reject(i) PROVE BufferOwnership' /\ LineInv'
<1> USE DEF BufInv, TypeInv, TypeOK
<1> DEFINE left == <<Spoilt(Head(wire[i]))>> \o Tail(wire[i])
<1>1. wire'[i] = wire[i] \/ (wire[i] # <<>> /\ wire'[i] = left) BY DEF Reject
<1>2. rbuf'[i] = <<>> /\ \A j \in Ifs \ {i} : rbuf'[j] = rbuf[j] /\ wire'[j] = wire[j]
  BY DEF Reject
<1>3. Senders' = Senders /\ i \notin Senders BY DEF Reject, Senders, Fetching
<1>4. UNCHANGED <<mq, heap, lost, nextSn>> BY DEF Reject, mqVars
<1> HIDE DEF BufInv
<1>5. wire[i] # <<>> => Sns(left) = Sns(wire[i]) /\ (InOrder(wire[i]) => InOrder(left))
  BY LineFacts, SnsSpoilt
<1> HIDE DEF left
<1>6. LineOrder(i)' BY <1>1, <1>2, <1>5, LineFacts, SnsEmpty DEF LineOrder
<1>7. OnLine(i)' \subseteq OnLine(i) BY <1>1, <1>2, <1>5, SnsEmpty DEF OnLine
<1> QED BY <1>2, <1>3, <1>4, <1>6, <1>7, LineStep

LEMMA AdmitFailStep ==
  ASSUME BufInv, NEW i \in Ifs, AdmitFail(i) PROVE BufferOwnership' /\ LineInv'
<1> USE DEF BufInv, TypeInv, TypeOK
<1>1. rbuf'[i] = rbuf[i] \/ rbuf'[i] = <<>> BY DEF AdmitFail, KeepOrDrop
<1>2. wire' = wire /\ \A j \in Ifs \ {i} : rbuf'[j] = rbuf[j]
  BY DEF AdmitFail, KeepOrDrop, devVars
<1>3. Senders' = Senders /\ i \notin Senders BY DEF AdmitFail, KeepOrDrop, Senders, Fetching
<1>4. UNCHANGED <<mq, heap, lost, nextSn>> BY DEF AdmitFail, mqVars, devVars
<1> HIDE DEF BufInv
<1>5. LineOrder(i)' BY <1>1, <1>2, LineFacts, SnsEmpty DEF LineOrder
<1>6. OnLine(i)' \subseteq OnLine(i) BY <1>1, <1>2, SnsEmpty DEF OnLine
<1> QED BY <1>2, <1>3, <1>4, <1>5, <1>6, LineStep

\* A frame put out is newer than any other, so it goes behind those of its line.
LEMMA EmitStep ==
  ASSUME BufInv, NEW i \in Ifs, NEW k \in FrameKinds, NEW c \in 0 .. MaxCmds, Emit(i, k, c)
  PROVE  BufferOwnership' /\ LineInv'
<1> DEFINE f == [sn |-> nextSn, kind |-> k, cmd |-> c, hif |-> i]
<1>1. f \in Frame /\ f.sn = nextSn BY DEF Emit, Frame, BufInv, TypeInv, TypeOK
<1>2. /\ wire'[i] = wire[i] \/ wire'[i] = Append(wire[i], f)
      /\ \A j \in Ifs \ {i} : wire'[j] = wire[j]
  BY DEF Emit, BufInv, TypeInv, TypeOK
<1>3. UNCHANGED <<mq, heap, lost, rbuf, rpc>> /\ nextSn' = nextSn + 1
  BY DEF Emit, mqVars, recvVars
<1>4. Senders' = Senders BY <1>3 DEF Senders
<1> HIDE DEF f
<1>5. OnLine(i) \subseteq 1 .. nextSn - 1 /\ nextSn \in Nat
  BY LineFacts DEF BufInv, LineInv, LinesApart
<1>6. \A a \in Sns(rbuf[i]) \cup Sns(wire[i]) : a < nextSn BY <1>5 DEF OnLine
<1>7. /\ Sns(Append(wire[i], f)) = Sns(wire[i]) \cup {nextSn}
      /\ InOrder(Append(wire[i], f))
  BY <1>1, <1>6, LineFacts, SnsAppend, OrderAppend DEF LineOrder
<1>8. LineOrder(i)' BY <1>2, <1>3, <1>6, <1>7, LineFacts DEF LineOrder
<1>9. nextSn \in nextSn .. nextSn' - 1 BY <1>3, <1>5
<1>10. OnLine(i)' \subseteq OnLine(i) \cup (nextSn .. nextSn' - 1)
  BY <1>2, <1>3, <1>7, <1>9 DEF OnLine
<1> QED BY <1>2, <1>3, <1>4, <1>8, <1>10, LineStep

-----------------------------------------------------------------------------
\* push_dataframe, pop_dataframe, and the commands that replace tasks or queue.

\* The first frame in a receive buffer, apart from what follows it on the line.
LEMMA HeadFacts ==
  ASSUME BufInv, NEW i \in Ifs, rpc[i] \in {"got", "send"}
  PROVE  /\ Head(rbuf[i]) \in Frame
         /\ SendingSn(i) = Head(rbuf[i]).sn /\ SendingSn(i) \in Sns(rbuf[i])
         /\ Sns(rbuf[i]) = {SendingSn(i)} \cup Sns(Tail(rbuf[i]))
         /\ SendingSn(i) \notin Sns(Tail(rbuf[i])) \cup Sns(wire[i])
         /\ SendingSn(i) \in OnLine(i) /\ SendingSn(i) \in 1 .. nextSn - 1
<1>1. rbuf[i] \in Seq(Frame) /\ rbuf[i] # <<>> /\ wire[i] \in Seq(Frame)
  BY DEF BufInv, TypeInv, TypeOK, Loaded
<1>2. Head(rbuf[i]) \in Frame /\ Tail(rbuf[i]) \in Seq(Frame) BY <1>1, HeadTail
<1>3. SendingSn(i) = Head(rbuf[i]).sn BY DEF SendingSn
<1>4. Sns(rbuf[i]) = {SendingSn(i)} \cup Sns(Tail(rbuf[i])) BY <1>1, <1>3, SnsTail
<1>5. SendingSn(i) \in 1 .. MaxFrames BY <1>2, <1>3 DEF Frame
<1>6. \A b \in Sns(Tail(rbuf[i])) : SendingSn(i) < b
  BY <1>1, <1>3, OrderTail, LineFacts DEF LineOrder
<1>7. \A b \in Sns(wire[i]) : SendingSn(i) < b BY <1>4, LineFacts DEF LineOrder
<1>8. SendingSn(i) \notin Sns(Tail(rbuf[i])) \cup Sns(wire[i]) BY <1>5, <1>6, <1>7
<1>9. SendingSn(i) \in OnLine(i) BY <1>4 DEF OnLine
<1>10. SendingSn(i) \in 1 .. nextSn - 1 BY <1>9 DEF BufInv, LineInv, LinesApart
<1> QED BY <1>2, <1>3, <1>4, <1>8, <1>9, <1>10

LEMMA AdmitStep ==
  ASSUME BufInv, NEW i \in Ifs, Admit(i) PROVE BufferOwnership' /\ LineInv'
<1>1. /\ heap' = heap \cup {SendingSn(i)} /\ Senders' = Senders \cup {i}
      /\ UNCHANGED <<mq, lost, rbuf, wire, nextSn>>
  BY DEF Admit, SendingSn, Senders, devVars, BufInv, TypeInv, TypeOK
<1>2. i \notin Senders /\ rpc[i] = "got" BY DEF Admit, Senders
<1>3. \A j \in Ifs : OnLine(j)' = OnLine(j) /\ SendingSn(j)' = SendingSn(j)
  BY <1>1 DEF OnLine, SendingSn
<1>4. SendingSn(i) \notin heap
  BY <1>2, HeadFacts DEF BufInv, LineInv, NoBufferYet
<1>5. \A j \in Senders : SendingSn(j) # SendingSn(i)
  BY <1>2, HeadFacts DEF BufInv, LineInv, LinesApart, Senders
<1>6. BufferOwnership'
  <2> USE DEF BufInv, BufferOwnership
  <2>1. heap' = Sns(mq') \cup {SendingSn(j)' : j \in Senders'} \cup lost'
    <3>1. {SendingSn(j)' : j \in Senders'} = {SendingSn(j) : j \in Senders} \cup {SendingSn(i)}
      BY <1>1, <1>3 DEF Senders
    <3> QED BY <1>1, <3>1
  <2>2. SendingSn(i) \notin Sns(mq) \cup lost BY <1>4
  <2>3. \A j, k \in Senders' : SendingSn(j)' = SendingSn(k)' => j = k BY <1>1, <1>3, <1>5 DEF Senders
  <2>4. \A j \in Senders' : SendingSn(j)' \notin Sns(mq)' \cup lost'
    BY <1>1, <1>3, <2>2 DEF Senders
  <2> QED BY <1>1, <2>1, <2>3, <2>4
<1>7. LinesInOrder' BY <1>1 DEF BufInv, LineInv, LinesInOrder
<1>8. LinesApart' BY <1>1, <1>3 DEF BufInv, LineInv, LinesApart
<1>9. NoBufferYet'
  <2> USE DEF BufInv, LineInv, NoBufferYet
  <2>1. heap' \subseteq 1 .. nextSn' - 1 BY <1>1, <1>2, HeadFacts
  <2>2. OnLine(i)' \cap heap' \subseteq {SendingSn(i)'} BY <1>1, <1>2, <1>3
  <2>3. ASSUME NEW j \in Ifs \ {i}
        PROVE  OnLine(j)' \cap heap' \subseteq (IF j \in Senders' THEN {SendingSn(j)'} ELSE {})
    <3>1. SendingSn(i) \notin OnLine(j) BY <1>2, HeadFacts DEF LinesApart
    <3> QED BY <1>1, <1>3, <3>1
  <2> QED BY <1>1, <2>1, <2>2, <2>3
<1> QED BY <1>6, <1>7, <1>8, <1>9 DEF LineInv

LEMMA PopStep == ASSUME BufInv, Pop PROVE BufferOwnership' /\ LineInv'
<1> DEFINE h == Head(mq).sn
<1>1. /\ mq \in Seq(Frame) /\ mq # <<>> /\ mq' = Tail(mq) /\ heap' = heap \ {h}
      /\ UNCHANGED <<lost, rbuf, rpc, wire, nextSn>>
  BY DEF Pop, recvVars, devVars, BufInv, TypeInv, TypeOK
<1> HIDE DEF h
<1>2. Sns(mq) = {h} \cup Sns(mq') /\ h \notin Sns(mq') /\ Distinct(mq')
  BY <1>1, SnsTail, DistinctTail DEF h, BufInv, BufferOwnership
<1>3. Senders' = Senders /\ \A j \in Ifs : OnLine(j)' = OnLine(j) /\ SendingSn(j)' = SendingSn(j)
  BY <1>1 DEF OnLine, SendingSn, Senders
<1>4. BufferOwnership'
  <2> USE DEF BufInv, BufferOwnership
  <2>1. \A j \in Senders : SendingSn(j) # h BY <1>2
  <2>2. heap' = Sns(mq') \cup {SendingSn(j)' : j \in Senders'} \cup lost'
    BY <1>1, <1>2, <1>3, <2>1 DEF Senders
  <2> QED BY <1>1, <1>2, <1>3, <2>2 DEF Senders
<1>5. LinesInOrder' BY <1>1 DEF BufInv, LineInv, LinesInOrder
<1>6. LinesApart' BY <1>1, <1>3 DEF BufInv, LineInv, LinesApart
<1>7. NoBufferYet' BY <1>1, <1>3 DEF BufInv, LineInv, NoBufferYet
<1> QED BY <1>4, <1>5, <1>6, <1>7 DEF LineInv

\* A task leaves mq_send, or is deleted in it: its frame is off the line, or
\* has no buffer any more.
LEMMA ReleaseLine ==
  ASSUME BufInv, NEW i \in Ifs, Senders' = Senders \ {i}, nextSn' = nextSn,
         \A j \in Ifs \ {i} : rbuf'[j] = rbuf[j] /\ wire'[j] = wire[j],
         LineOrder(i)', OnLine(i)' \subseteq OnLine(i),
         heap' \subseteq heap, OnLine(i)' \cap heap' = {}
  PROVE  LineInv'
<1>1. \A j \in Ifs \ {i} : OnLine(j)' = OnLine(j) /\ SendingSn(j)' = SendingSn(j)
  BY DEF OnLine, SendingSn
<1>2. LinesInOrder' BY DEF BufInv, LineInv, LinesInOrder, LineOrder
<1>3. LinesApart' BY <1>1 DEF BufInv, LineInv, LinesApart
<1>4. NoBufferYet'
  <2> USE DEF BufInv, LineInv, NoBufferYet
  <2>1. \A j \in Ifs \ {i} :
          OnLine(j)' \cap heap' \subseteq (IF j \in Senders' THEN {SendingSn(j)'} ELSE {})
    BY <1>1
  <2> QED BY <2>1
<1> QED BY <1>2, <1>3, <1>4 DEF LineInv

\* Its buffer goes to the queue, or to free, or to nobody.
LEMMA ReleaseBuffer ==
  ASSUME BufInv, NEW i \in Senders, Senders' = Senders \ {i},
         \A j \in Ifs \ {i} : rbuf'[j] = rbuf[j],
         \/ mq' = Append(mq, Head(rbuf[i])) /\ heap' = heap /\ lost' = lost
         \/ mq' = mq /\ heap' = heap \ {SendingSn(i)} /\ lost' = lost
         \/ mq' = mq /\ heap' = heap /\ lost' = lost \cup {SendingSn(i)}
  PROVE  BufferOwnership'
<1> DEFINE s == SendingSn(i)
           others == {SendingSn(j) : j \in Senders \ {i}}
<1>1. i \in Ifs /\ Senders \subseteq Ifs /\ rpc[i] = "send" BY DEF Senders
<1>2. \A j \in Senders \ {i} : SendingSn(j)' = SendingSn(j) BY <1>1 DEF SendingSn
<1>3. others = {SendingSn(j)' : j \in Senders'} BY <1>2
<1>4. /\ heap = Sns(mq) \cup {s} \cup others \cup lost /\ Sns(mq) \cap lost = {}
      /\ s \notin Sns(mq) \cup others \cup lost
      /\ others \cap (Sns(mq) \cup lost) = {}
  <2> USE DEF BufInv, BufferOwnership
  <2>1. {SendingSn(j) : j \in Senders} = {s} \cup others OBVIOUS
  <2>2. s \notin others OBVIOUS
  <2> QED BY <2>1, <2>2
<1>5. mq \in Seq(Frame) /\ Head(rbuf[i]) \in Frame /\ Head(rbuf[i]).sn = s
  BY <1>1, HeadFacts DEF BufInv, TypeInv, TypeOK
<1>6. \A j, k \in Senders' : SendingSn(j)' = SendingSn(k)' => j = k
  BY <1>2 DEF BufInv, BufferOwnership
<1>7. Distinct(mq) BY DEF BufInv, BufferOwnership
<1> HIDE DEF s, others
<1>8. CASE mq' = Append(mq, Head(rbuf[i])) /\ heap' = heap /\ lost' = lost
  <2>1. Sns(mq') = Sns(mq) \cup {s} BY <1>5, <1>8, SnsAppend
  <2>2. Distinct(mq') BY <1>4, <1>5, <1>7, <1>8, DistinctAppend
  <2>3. \A j \in Senders' : SendingSn(j)' \notin Sns(mq') \cup lost'
    BY <1>3, <1>4, <1>8, <2>1
  <2> QED BY <1>3, <1>4, <1>6, <1>8, <2>1, <2>2, <2>3 DEF BufferOwnership
<1>9. CASE mq' = mq /\ heap' = heap \ {s} /\ lost' = lost
  <2>1. \A j \in Senders' : SendingSn(j)' \notin Sns(mq') \cup lost' BY <1>3, <1>4, <1>9
  <2> QED BY <1>3, <1>4, <1>6, <1>7, <1>9, <2>1 DEF BufferOwnership
<1>10. CASE mq' = mq /\ heap' = heap /\ lost' = lost \cup {s}
  <2>1. \A j \in Senders' : SendingSn(j)' \notin Sns(mq') \cup lost' BY <1>3, <1>4, <1>10
  <2> QED BY <1>3, <1>4, <1>6, <1>7, <1>10, <2>1 DEF BufferOwnership
<1> QED BY <1>8, <1>9, <1>10 DEF s

LEMMA SendStep ==
  ASSUME BufInv, NEW i \in Ifs, Send(i) PROVE BufferOwnership' /\ LineInv'
<1>1. /\ i \in Senders /\ rpc[i] = "send" /\ Senders' = Senders \ {i}
      /\ mq' = Append(mq, Head(rbuf[i])) /\ rbuf'[i] = Tail(rbuf[i])
      /\ \A j \in Ifs \ {i} : rbuf'[j] = rbuf[j]
      /\ UNCHANGED <<heap, lost, wire, nextSn>>
  BY DEF Send, Consume, Fetching, Senders, devVars, BufInv, TypeInv, TypeOK
<1>2. OnLine(i) \cap heap \subseteq {SendingSn(i)}
  BY <1>1 DEF BufInv, LineInv, NoBufferYet
<1>3. OnLine(i)' \subseteq OnLine(i) \ {SendingSn(i)} BY <1>1, HeadFacts DEF OnLine
<1>4. rbuf[i] # <<>> BY <1>1 DEF BufInv, TypeInv, Loaded
<1>5. LineOrder(i)' BY <1>1, <1>4, LineFacts, OrderTail, SnsTail DEF LineOrder
<1> QED BY <1>1, <1>2, <1>3, <1>5, ReleaseLine, ReleaseBuffer

LEMMA SendFailStep ==
  ASSUME BufInv, NEW i \in Ifs, SendFail(i) PROVE BufferOwnership' /\ LineInv'
<1>1. /\ i \in Senders /\ rpc[i] = "send" /\ Senders' = Senders \ {i}
      /\ heap' = heap \ {SendingSn(i)} /\ (rbuf'[i] = rbuf[i] \/ rbuf'[i] = <<>>)
      /\ \A j \in Ifs \ {i} : rbuf'[j] = rbuf[j]
      /\ UNCHANGED <<mq, lost, wire, nextSn>>
  BY DEF SendFail, KeepOrDrop, Fetching, SendingSn, Senders, devVars, BufInv, TypeInv, TypeOK
<1>2. OnLine(i) \cap heap \subseteq {SendingSn(i)}
  BY <1>1 DEF BufInv, LineInv, NoBufferYet
<1>3. OnLine(i)' \subseteq OnLine(i) BY <1>1, SnsEmpty DEF OnLine
<1>4. LineOrder(i)' BY <1>1, LineFacts, SnsEmpty DEF LineOrder
<1> QED BY <1>1, <1>2, <1>3, <1>4, ReleaseLine, ReleaseBuffer

LEMMA DbgRecvStep ==
  ASSUME BufInv, NEW on \in BOOLEAN, DbgRecv(on) PROVE BufferOwnership' /\ LineInv'
<1>0. PICK i \in Ifs : i = hifType BY DEF BufInv, TypeInv, TypeOK
<1>1. /\ Senders' = Senders \ {i} /\ rbuf'[i] = <<>>
      /\ (wire'[i] = wire[i] \/ wire'[i] = <<>>)
      /\ \A j \in Ifs \ {i} : rbuf'[j] = rbuf[j] /\ wire'[j] = wire[j]
      /\ UNCHANGED <<mq, heap, nextSn>>
  BY <1>0 DEF DbgRecv, Started, Senders, BufInv, TypeInv, TypeOK
<1>2. lost' = IF i \in Senders THEN lost \cup {SendingSn(i)} ELSE lost
  BY <1>0, <1>1 DEF DbgRecv, SendingSn, Senders
<1>3. OnLine(i) \cap heap \subseteq (IF i \in Senders THEN {SendingSn(i)} ELSE {})
  BY <1>1 DEF BufInv, LineInv, NoBufferYet
<1>4. OnLine(i)' \subseteq Sns(wire[i]) /\ Sns(wire[i]) \subseteq OnLine(i)
  BY <1>1, SnsEmpty DEF OnLine
<1>5. i \in Senders => SendingSn(i) \notin Sns(wire[i])
  BY <1>1, HeadFacts DEF Senders
<1>6. LineOrder(i)' BY <1>1, LineFacts, SnsEmpty DEF LineOrder
<1>7. LineInv' BY <1>1, <1>3, <1>4, <1>5, <1>6, ReleaseLine
<1>8. CASE i \in Senders
  <2>1. \A j \in Ifs \ {i} : rbuf'[j] = rbuf[j] BY <1>1
  <2>2. \/ mq' = Append(mq, Head(rbuf[i])) /\ heap' = heap /\ lost' = lost
        \/ mq' = mq /\ heap' = heap \ {SendingSn(i)} /\ lost' = lost
        \/ mq' = mq /\ heap' = heap /\ lost' = lost \cup {SendingSn(i)}
    BY <1>1, <1>2, <1>8
  <2>3. Senders' = Senders \ {i} BY <1>1
  <2> QED BY <1>7, <1>8, <2>1, <2>2, <2>3, ReleaseBuffer
<1>9. CASE i \notin Senders
  <2>1. Senders' = Senders /\ lost' = lost BY <1>1, <1>2, <1>9
  <2>2. \A j \in Senders : SendingSn(j)' = SendingSn(j) BY <1>1, <1>9 DEF SendingSn, Senders
  <2>3. {SendingSn(j)' : j \in Senders'} = {SendingSn(j) : j \in Senders} BY <2>1, <2>2
  <2>4. mq' = mq /\ heap' = heap BY <1>1
  <2> USE DEF BufInv, BufferOwnership
  <2>5. heap' = Sns(mq') \cup {SendingSn(j)' : j \in Senders'} \cup lost' BY <2>1, <2>3, <2>4
  <2>6. \A j, k \in Senders' : SendingSn(j)' = SendingSn(k)' => j = k BY <2>1, <2>2
  <2>7. \A j \in Senders' : SendingSn(j)' \notin Sns(mq') \cup lost' BY <2>1, <2>2, <2>4
  <2> QED BY <1>7, <2>1, <2>4, <2>5, <2>6, <2>7
<1> QED BY <1>8, <1>9

LEMMA DeinitStep == ASSUME BufInv, CmdDeinit PROVE BufferOwnership' /\ LineInv'
<1>1. Senders' = {} /\ mq' = <<>> /\ lost' = heap /\ heap' = heap /\ nextSn' = nextSn
  BY DEF CmdDeinit, Senders
<1>2. ASSUME NEW i \in Ifs
      PROVE  /\ LineOrder(i)' /\ OnLine(i)' \subseteq OnLine(i)
             /\ OnLine(i)' \cap heap' = {}
  <2>1. rbuf'[i] = <<>> /\ (wire'[i] = wire[i] \/ wire'[i] = <<>>) BY DEF CmdDeinit
  <2>2. OnLine(i)' \subseteq Sns(wire[i]) /\ Sns(wire[i]) \subseteq OnLine(i)
    BY <2>1, SnsEmpty DEF OnLine
  <2>3. OnLine(i) \cap heap \subseteq (IF i \in Senders THEN {SendingSn(i)} ELSE {})
    BY DEF BufInv, LineInv, NoBufferYet
  <2>4. i \in Senders => SendingSn(i) \notin Sns(wire[i]) BY HeadFacts DEF Senders
  <2>5. LineOrder(i)' BY <2>1, LineFacts, SnsEmpty DEF LineOrder
  <2> QED BY <1>1, <2>2, <2>3, <2>4, <2>5
<1>3. BufferOwnership' BY <1>1, SnsEmpty, DistinctEmpty DEF BufferOwnership
<1>4. LinesInOrder' BY <1>2 DEF LinesInOrder, LineOrder
<1>5. LinesApart'
  <2>1. \A i \in Ifs : OnLine(i)' \subseteq OnLine(i) BY <1>2
  <2> QED BY <1>1, <2>1 DEF BufInv, LineInv, LinesApart
<1>6. NoBufferYet' BY <1>1, <1>2 DEF BufInv, LineInv, NoBufferYet
<1> QED BY <1>3, <1>4, <1>5, <1>6 DEF LineInv

-----------------------------------------------------------------------------

LEMMA StoppedStep == BufInv /\ [Next]_vars => Stopped'
<1> SUFFICES ASSUME BufInv, [Next]_vars, ~inited' PROVE \A i \in Ifs : rpc'[i] = "off"
  BY DEF Stopped
<1> USE DEF BufInv, TypeInv, TypeOK, Stopped, mainVars, setVars, recvVars
<1>1. CASE inited /\ CmdDeinit BY <1>1 DEF CmdDeinit
<1>2. ASSUME ~inited, UNCHANGED rpc PROVE \A i \in Ifs : rpc'[i] = "off" BY <1>2
<1>3. ASSUME NEW i \in Ifs, RecvStep(i) \/ RecvFault(i) PROVE inited
  BY <1>3 DEF RecvStep, RecvFault, TakeToken, BusRead, SpiReadIdle, UartRead, DbgDump,
     Reject, Notify, Discard, Admit, Send, AdmitFail, SendFail
<1>4. ASSUME NEW i \in Ifs, RecvStep(i) \/ RecvFault(i) PROVE inited' = inited
  BY <1>4 DEF RecvStep, RecvFault, TakeToken, BusRead, SpiReadIdle, UartRead, DbgDump,
     Reject, Notify, Discard, Admit, Send, AdmitFail, SendFail
<1>5. CASE MainStep \/ MainFault
  BY <1>5 DEF MainStep, MainFault, WriteHeader, BodyRefused, WriteOk, WriteFail, SetWait,
     ApplyConf, EvtTimeout, Pop, PopTimeout, PopError, SetIdle
<1>6. CASE Console BY <1>6 DEF Console, Call, ChgIf, DbgRecv, CmdDeinit, CmdInit
<1>7. ASSUME NEW i \in Ifs, Device(i) PROVE UNCHANGED <<inited, rpc>>
  BY <1>7 DEF Device, Respond, Noise, Emit
<1>8. CASE UNCHANGED vars BY <1>8 DEF vars
<1> QED BY <1>3, <1>4, <1>5, <1>6, <1>7, <1>8 DEF Next

LEMMA BufStep == BufInv /\ [Next]_vars => BufInv'
<1> SUFFICES ASSUME BufInv, [Next]_vars PROVE BufferOwnership' /\ LineInv'
  BY TypeStep, StoppedStep DEF BufInv
<1> USE DEF mqVars, recvVars, devVars
<1>1. ASSUME UNCHANGED <<mq, heap, lost, rpc, rbuf, wire, nextSn>>
      PROVE  BufferOwnership' /\ LineInv'
  <2>1. Senders' = Senders BY <1>1 DEF Senders
  <2> QED BY <1>1, <2>1, QuietStep DEF BufInv
<1>2. CASE WriteHeader \/ WriteOk \/ WriteFail \/ ApplyConf
  BY <1>2, OpenStep DEF WriteHeader, WriteOk, WriteFail, ApplyConf
<1>13. CASE BodyRefused \/ SetWait \/ EvtTimeout \/ PopTimeout \/ PopError \/ SetIdle
  BY <1>1, <1>13 DEF BodyRefused, SetWait, EvtTimeout, PopTimeout, PopError, SetIdle
<1>3. CASE (\E k \in CmdKinds : Call(k)) \/ (\E i \in Ifs : ChgIf(i))
  BY <1>1, <1>3 DEF Call, ChgIf
<1>4. CASE Pop BY <1>4, PopStep
<1>5. ASSUME NEW on \in BOOLEAN, DbgRecv(on) PROVE BufferOwnership' /\ LineInv'
  BY <1>5, DbgRecvStep
<1>6. CASE CmdDeinit BY <1>6, DeinitStep
<1>7. CASE CmdInit
  <2>1. \A i \in Ifs : rpc[i] = "off" BY <1>7 DEF CmdInit, BufInv, Stopped
  <2>2. \A i \in Ifs : rpc'[i] # "send" BY <1>7 DEF CmdInit, Started
  <2>3. Senders' = Senders BY <2>1, <2>2 DEF Senders
  <2> QED BY <1>7, <2>3, QuietStep DEF CmdInit, BufInv
<1>8. ASSUME NEW i \in Ifs, TakeToken(i) PROVE BufferOwnership' /\ LineInv'
  <2>1. Senders' = Senders BY <1>8 DEF TakeToken, Senders, BufInv, TypeInv, TypeOK
  <2> QED BY <1>8, <2>1, QuietStep DEF TakeToken, BufInv
<1>9. ASSUME NEW i \in Ifs, Notify(i) \/ Discard(i) PROVE BufferOwnership' /\ LineInv'
  BY <1>9, ConsumeStep DEF Notify, Discard
<1>10. ASSUME NEW i \in Ifs, RecvStep(i) \/ RecvFault(i) PROVE BufferOwnership' /\ LineInv'
  BY <1>8, <1>9, <1>10, BusReadStep, SpiReadIdleStep, UartReadStep, DbgDumpStep, RejectStep,
     AdmitStep, AdmitFailStep, SendStep, SendFailStep
     DEF RecvStep, RecvFault
<1>11. ASSUME NEW i \in Ifs, Device(i) PROVE BufferOwnership' /\ LineInv'
  <2>1. PICK k \in FrameKinds, c \in 0 .. MaxCmds : Emit(i, k, c)
    BY <1>11, BoundsAssumption DEF Device, Respond, Noise, FrameKinds, BufInv, TypeInv, TypeOK
  <2> QED BY <2>1, EmitStep
<1>12. CASE UNCHANGED vars BY <1>1, <1>12 DEF vars
<1> QED
  BY <1>2, <1>3, <1>4, <1>5, <1>6, <1>7, <1>10, <1>11, <1>12, <1>13
     DEF Next, MainStep, MainFault, Console

LEMMA BufInit == Init => BufInv
<1> SUFFICES ASSUME Init PROVE Stopped /\ BufferOwnership /\ LineInv
  BY TypeInit DEF BufInv
<1>1. Senders = {} /\ mq = <<>> /\ heap = {} /\ lost = {} /\ nextSn = 1
  BY DEF Init, Senders
<1>2. \A i \in Ifs : rbuf[i] = <<>> /\ wire[i] = <<>> /\ OnLine(i) = {}
  BY SnsEmpty DEF Init, OnLine
<1>3. Stopped BY DEF Init, Stopped
<1>4. BufferOwnership BY <1>1, SnsEmpty, DistinctEmpty DEF BufferOwnership
<1>5. LinesInOrder BY <1>2, SnsEmpty DEF LinesInOrder
<1>6. LinesApart BY <1>2 DEF LinesApart
<1>7. NoBufferYet BY <1>1, <1>2 DEF NoBufferYet
<1> QED BY <1>3, <1>4, <1>5, <1>6, <1>7 DEF LineInv

\* Every malloc'd dataframe buffer has exactly one owner at every moment,
\* whatever fails and whenever tasks and queue are replaced (push_dataframe and
\* pop_dataframe of host_if_bs.c with the receive tasks around them).
THEOREM BuffersOwned == Spec => []BufferOwnership
<1>1. BufInv => BufferOwnership BY DEF BufInv
<1> QED BY <1>1, BufInit, BufStep, PTL DEF Spec

\* The frames of each interface stay in the order the device put them out, and
\* no two interfaces hold the same one.
THEOREM LinesKept == Spec => []LineInv
<1>1. BufInv => LineInv BY DEF BufInv
<1> QED BY <1>1, BufInit, BufStep, PTL DEF Spec

-----------------------------------------------------------------------------
(* The channel (ImplementsChannel).  The frames in the air are taken as one *)
(* set; that no two of them share a serial number comes from the lines.    *)

\* The frames between the device and the queue, on one interface.
LineFrames(i) == ToSet(rbuf[i]) \cup ToSet(wire[i])

\* A line holds its own frames only.
Labelled == \A i \in Ifs : \A f \in LineFrames(i) : f.hif = i

\* The frames of one interface stand in the queue in the order they were put
\* out, and before all that are still on its line.
QueueInOrder ==
  \A j, k \in DOMAIN mq : j < k /\ mq[j].hif = mq[k].hif => mq[j].sn < mq[k].sn
QueueAhead == \A f \in ToSet(mq) : \A b \in OnLine(f.hif) : f.sn < b

\* The I2C and SPI tasks keep one frame, and only while they work on it.
BusBuffer ==
  \A i \in BusIfs : rbuf[i] = <<>> \/ (rpc[i] \in {"got", "send"} /\ Len(rbuf[i]) = 1)

ChannelInv == BufInv /\ Labelled /\ QueueInOrder /\ QueueAhead /\ BusBuffer

\* What the sequence operations do to the set of frames.

LEMMA SetTail ==
  ASSUME NEW s \in Seq(Frame), s # <<>>
  PROVE  ToSet(Tail(s)) \subseteq ToSet(s) /\ Head(s) \in ToSet(s)
<1>1. /\ Len(s) \in Nat \ {0} /\ DOMAIN s = 1 .. Len(s) /\ Head(s) = s[1]
      /\ DOMAIN Tail(s) = 1 .. Len(s) - 1
      /\ \A k \in 1 .. Len(s) - 1 : Tail(s)[k] = s[k + 1]
  BY HeadTailProperties
<1>2. \A k \in DOMAIN Tail(s) : k + 1 \in DOMAIN s /\ Tail(s)[k] = s[k + 1] BY <1>1
<1> QED BY <1>1, <1>2 DEF ToSet

LEMMA SetAppend ==
  ASSUME NEW s \in Seq(Frame), NEW f \in Frame
  PROVE  ToSet(Append(s, f)) = ToSet(s) \cup {f}
<1>1. /\ Len(s) \in Nat /\ DOMAIN s = 1 .. Len(s)
      /\ DOMAIN Append(s, f) = 1 .. Len(s) + 1 /\ Append(s, f)[Len(s) + 1] = f
      /\ \A k \in 1 .. Len(s) : Append(s, f)[k] = s[k]
  BY AppendProperties
<1> QED BY <1>1 DEF ToSet

LEMMA SetSplit ==
  ASSUME NEW s \in Seq(Frame), NEW w \in Seq(Frame), NEW k \in 0 .. Len(w)
  PROVE  /\ ToSet(s \o SubSeq(w, 1, k)) \subseteq ToSet(s) \cup ToSet(w)
         /\ ToSet(SubSeq(w, k + 1, Len(w))) \subseteq ToSet(w)
BY DEF ToSet

LEMMA SetSmall == ToSet(<<>>) = {} /\ \A f \in Frame : ToSet(<<f>>) = {f}
BY DEF ToSet

LEMMA SetSns == \A s \in Seq(Frame) : \A f \in ToSet(s) : f.sn \in Sns(s)
BY DEF ToSet, Sns

\* The frames a receive task works on have their types.
LEMMA LineTypes ==
  ASSUME BufInv, NEW i \in Ifs
  PROVE  /\ rbuf[i] \in Seq(Frame) /\ wire[i] \in Seq(Frame) /\ mq \in Seq(Frame)
         /\ rpc[i] \in {"got", "send"} => rbuf[i] # <<>>
BY DEF BufInv, TypeInv, TypeOK, Loaded

-----------------------------------------------------------------------------
\* What a step may do to the lines: frames go, one is spoilt, or one comes.

Kept(i) == LineFrames(i)' \subseteq LineFrames(i)

SpoiltHead(i) ==
  /\ wire[i] # <<>>
  /\ LineFrames(i)' \subseteq
       (LineFrames(i) \ {Head(wire[i])}) \cup {Spoilt(Head(wire[i]))}

Gains(i, f) ==
  /\ f \in Frame /\ f.sn = nextSn /\ f.hif = i
  /\ LineFrames(i)' \in {LineFrames(i), LineFrames(i) \cup {f}}
  /\ \A j \in Ifs \ {i} : LineFrames(j)' = LineFrames(j)
  /\ UNCHANGED <<mq, reply>> /\ nextSn' = nextSn + 1

LinesLose == nextSn' = nextSn /\ \A i \in Ifs : Kept(i)
LineSpoilt ==
  /\ UNCHANGED <<mq, reply, nextSn>>
  /\ \E i \in Ifs : SpoiltHead(i) /\ \A j \in Ifs \ {i} : Kept(j)
LineGains == \E i \in Ifs, f \in Frame : Gains(i, f)

LEMMA FrameSn == \A f \in Frame : f.sn \in Nat
BY BoundsAssumption DEF Frame

\* The head of a line stands there once.
LEMMA HeadOnce ==
  ASSUME BufInv, NEW i \in Ifs, wire[i] # <<>>
  PROVE  /\ \A f \in ToSet(Tail(wire[i])) \cup ToSet(rbuf[i]) : f # Head(wire[i])
         /\ Head(wire[i]) \in Frame /\ Head(wire[i]) \in ToSet(wire[i])
         /\ Tail(wire[i]) \in Seq(Frame)
<1>1. /\ wire[i] \in Seq(Frame) /\ rbuf[i] \in Seq(Frame) /\ LineOrder(i) BY LineFacts
<1>2. Head(wire[i]) \in Frame /\ Tail(wire[i]) \in Seq(Frame) BY <1>1, HeadTail
<1>3. Head(wire[i]) \in ToSet(wire[i]) BY <1>1, SetTail
<1>4. Head(wire[i]).sn \in Sns(wire[i]) /\ Head(wire[i]).sn \in Nat
  BY <1>1, <1>2, <1>3, SetSns, FrameSn
<1>5. \A f \in ToSet(rbuf[i]) : f.sn < Head(wire[i]).sn
  BY <1>1, <1>4, SetSns DEF LineOrder
<1>6. \A f \in ToSet(Tail(wire[i])) : Head(wire[i]).sn < f.sn
  BY <1>1, <1>2, OrderTail, SetSns DEF LineOrder
<1>7. \A m \in Nat : ~(m < m) OBVIOUS
<1>8. \A f \in ToSet(Tail(wire[i])) \cup ToSet(rbuf[i]) : f # Head(wire[i])
  BY <1>4, <1>5, <1>6, <1>7
<1> QED BY <1>2, <1>3, <1>8

\* uart_open drops frames from the front, and may spoil the last of those.
LEMMA FlushedFrames ==
  ASSUME NEW s \in Seq(Frame), NEW u \in Flushed(s)
  PROVE  \/ ToSet(u) \subseteq ToSet(s)
         \/ s # <<>> /\ ToSet(u) \subseteq ToSet(Tail(s)) \cup {Spoilt(Head(s))}
<1>1. PICK k \in 0 .. Len(s) :
         \/ u = SubSeq(s, k + 1, Len(s))
         \/ k >= 1 /\ s # <<>> /\ u = <<Spoilt(Head(s))>> \o SubSeq(s, k + 1, Len(s))
  BY FlushedCut
<1> DEFINE r == SubSeq(s, k + 1, Len(s))
<1>2. r \in Seq(Frame) BY SubSeqProperties
<1>3. ToSet(r) \subseteq ToSet(s)
  <2>1. ToSet(SubSeq(s, k + 1, Len(s))) \subseteq ToSet(s) BY SetSplit
  <2> QED BY <2>1
<1>4. CASE u = r BY <1>3, <1>4
<1>5. CASE k >= 1 /\ s # <<>> /\ u = <<Spoilt(Head(s))>> \o r
  <2>1. \A j \in DOMAIN r : j + k - 1 \in DOMAIN Tail(s) /\ r[j] = Tail(s)[j + k - 1]
    BY <1>5
  <2> HIDE DEF r
  <2>2. DOMAIN u = 1 .. Len(r) + 1 /\ u[1] = Spoilt(Head(s)) BY <1>2, <1>5
  <2>3. \A j \in 2 .. Len(r) + 1 : j - 1 \in DOMAIN r /\ u[j] = r[j - 1] BY <1>2, <1>5
  <2>4. \A j \in DOMAIN u : j = 1 \/ j \in 2 .. Len(r) + 1 BY <1>2, <2>2
  <2>5. \A j \in DOMAIN r : r[j] \in ToSet(Tail(s)) BY <2>1 DEF ToSet
  <2>6. \A j \in DOMAIN u : u[j] = Spoilt(Head(s)) \/ u[j] \in ToSet(Tail(s))
    BY <2>2, <2>3, <2>4, <2>5
  <2>7. ToSet(u) \subseteq ToSet(Tail(s)) \cup {Spoilt(Head(s))} BY <2>6 DEF ToSet
  <2> QED BY <1>5, <2>7
<1> HIDE DEF r
<1> QED BY <1>1, <1>4, <1>5 DEF r

LEMMA OpenLines ==
  ASSUME BufInv, wire' \in Opened(wire), UNCHANGED <<mq, rbuf, reply, nextSn>>
  PROVE  LinesLose \/ LineSpoilt
<1>1. PICK i \in Ifs :
        /\ \A j \in Ifs \ {i} : wire'[j] = wire[j]
        /\ wire'[i] = wire[i] \/ wire'[i] \in Flushed(wire[i])
  BY OpenedLine DEF BufInv, TypeInv, TypeOK
<1>2. \A j \in Ifs \ {i} : Kept(j) BY <1>1 DEF Kept, LineFrames
<1>3. CASE ToSet(wire'[i]) \subseteq ToSet(wire[i])
  <2>1. Kept(i) BY <1>3 DEF Kept, LineFrames
  <2> QED BY <1>2, <2>1 DEF LinesLose
<1>4. CASE wire[i] # <<>> /\ ToSet(wire'[i])
                               \subseteq ToSet(Tail(wire[i])) \cup {Spoilt(Head(wire[i]))}
  <2> DEFINE h == Head(wire[i])
  <2>1. /\ \A f \in ToSet(Tail(wire[i])) \cup ToSet(rbuf[i]) : f # h
        /\ ToSet(Tail(wire[i])) \subseteq ToSet(wire[i])
    BY <1>4, HeadOnce, SetTail, LineTypes
  <2> HIDE DEF h
  <2>2. LineFrames(i)' \subseteq (LineFrames(i) \ {h}) \cup {Spoilt(h)}
    BY <1>4, <2>1 DEF LineFrames, h
  <2>3. SpoiltHead(i) BY <1>4, <2>2 DEF SpoiltHead, h
  <2> QED BY <1>2, <2>3 DEF LineSpoilt
<1> QED BY <1>1, <1>3, <1>4, LineTypes, FlushedFrames

LEMMA RejectLines ==
  ASSUME BufInv, NEW i \in Ifs, Reject(i) PROVE LinesLose \/ LineSpoilt
<1> DEFINE h == Head(wire[i])
           left == <<Spoilt(h)>> \o Tail(wire[i])
<1>1. /\ wire'[i] = wire[i] \/ (wire[i] # <<>> /\ wire'[i] = left)
      /\ rbuf'[i] = <<>> /\ UNCHANGED <<mq, reply, nextSn>>
      /\ \A j \in Ifs \ {i} : rbuf'[j] = rbuf[j] /\ wire'[j] = wire[j]
  BY DEF Reject, mqVars, mainVars, BufInv, TypeInv, TypeOK
<1>2. \A j \in Ifs \ {i} : Kept(j) BY <1>1 DEF Kept, LineFrames
<1>3. CASE wire'[i] = wire[i]
  <2>1. Kept(i) BY <1>1, <1>3, SetSmall DEF Kept, LineFrames
  <2> QED BY <1>1, <1>2, <2>1 DEF LinesLose
<1>4. CASE wire[i] # <<>> /\ wire'[i] = left
  <2>1. /\ \A f \in ToSet(Tail(wire[i])) : f # h
        /\ ToSet(Tail(wire[i])) \subseteq ToSet(wire[i]) /\ Tail(wire[i]) \in Seq(Frame)
    BY <1>4, HeadOnce, SetTail, LineTypes
  <2> HIDE DEF h
  <2>2. /\ Len(Tail(wire[i])) \in Nat /\ DOMAIN Tail(wire[i]) = 1 .. Len(Tail(wire[i]))
        /\ DOMAIN left = 1 .. Len(Tail(wire[i])) + 1 /\ left[1] = Spoilt(h)
        /\ \A k \in 2 .. Len(Tail(wire[i])) + 1 :
             k - 1 \in DOMAIN Tail(wire[i]) /\ left[k] = Tail(wire[i])[k - 1]
    BY <2>1
  <2> HIDE DEF left
  <2>3. \A k \in DOMAIN left : k = 1 \/ k \in 2 .. Len(Tail(wire[i])) + 1 BY <2>2
  <2>4. \A k \in DOMAIN Tail(wire[i]) : Tail(wire[i])[k] \in ToSet(Tail(wire[i]))
    BY DEF ToSet
  <2>5. \A k \in DOMAIN left : left[k] = Spoilt(h) \/ left[k] \in ToSet(Tail(wire[i]))
    BY <2>2, <2>3, <2>4
  <2>6. ToSet(left) \subseteq ToSet(Tail(wire[i])) \cup {Spoilt(h)} BY <2>5 DEF ToSet
  <2>7. LineFrames(i)' \subseteq (LineFrames(i) \ {h}) \cup {Spoilt(h)}
    BY <1>1, <1>4, <2>1, <2>6, SetSmall DEF LineFrames
  <2>8. SpoiltHead(i) BY <1>4, <2>7 DEF SpoiltHead, h
  <2> QED BY <1>1, <1>2, <2>8 DEF LineSpoilt
<1> QED BY <1>1, <1>3, <1>4

LEMMA IdleReadLines ==
  ASSUME ChannelInv, NEW i \in Ifs, SpiReadIdle(i)
  PROVE  \E f \in Frame : Gains(i, f) /\ f.kind = "badhdr" /\ f.cmd = 0
<1>1. PICK f : f = [sn |-> nextSn, kind |-> "badhdr", cmd |-> 0, hif |-> i] OBVIOUS
<1>2. f \in Frame
  BY <1>1, BoundsAssumption
     DEF SpiReadIdle, Frame, FrameKinds, ChannelInv, BufInv, TypeInv, TypeOK
<1>3. rbuf[i] = <<>> BY DEF ChannelInv, BusBuffer, BusIfs, SpiReadIdle
<1>4. /\ rbuf'[i] = <<f>> /\ wire' = wire /\ UNCHANGED <<mq, reply>> /\ nextSn' = nextSn + 1
      /\ \A j \in Ifs \ {i} : rbuf'[j] = rbuf[j]
  BY <1>1 DEF SpiReadIdle, mqVars, mainVars, ChannelInv, BufInv, TypeInv, TypeOK
<1>5. LineFrames(i)' = LineFrames(i) \cup {f}
  BY <1>2, <1>3, <1>4, SetSmall DEF LineFrames
<1>6. \A j \in Ifs \ {i} : LineFrames(j)' = LineFrames(j) BY <1>4 DEF LineFrames
<1> QED BY <1>1, <1>2, <1>4, <1>5, <1>6 DEF Gains

LEMMA EmitLines ==
  ASSUME BufInv, NEW i \in Ifs, NEW k \in FrameKinds, NEW c \in 0 .. MaxCmds, Emit(i, k, c),
         NEW f, f = [sn |-> nextSn, kind |-> k, cmd |-> c, hif |-> i]
  PROVE  Gains(i, f)
<1>1. f \in Frame BY DEF Emit, Frame, BufInv, TypeInv, TypeOK
<1>2. /\ wire'[i] = wire[i] \/ wire'[i] = Append(wire[i], f)
      /\ \A j \in Ifs \ {i} : wire'[j] = wire[j]
      /\ UNCHANGED <<mq, rbuf, reply>> /\ nextSn' = nextSn + 1
  BY DEF Emit, mqVars, recvVars, mainVars, BufInv, TypeInv, TypeOK
<1>3. \A j \in Ifs \ {i} : LineFrames(j)' = LineFrames(j) BY <1>2 DEF LineFrames
<1>4. ToSet(wire'[i]) \in {ToSet(wire[i]), ToSet(wire[i]) \cup {f}}
  BY <1>1, <1>2, LineTypes, SetAppend
<1>5. LineFrames(i)' \in {LineFrames(i), LineFrames(i) \cup {f}}
  BY <1>2, <1>4 DEF LineFrames
<1> QED BY <1>1, <1>2, <1>3, <1>5 DEF Gains

\* A task's step on frames it has moves or drops them.
LEMMA RecvLines ==
  ASSUME ChannelInv, NEW i \in Ifs, RecvStep(i) \/ RecvFault(i)
  PROVE  LinesLose \/ LineSpoilt \/ SpiReadIdle(i)
<1> USE DEF ChannelInv
<1>1. /\ rbuf \in [Ifs -> Seq(Frame)] /\ wire \in [Ifs -> Seq(Frame)]
      /\ rpc[i] \in {"got", "send"} => rbuf[i] # <<>>
  BY LineTypes DEF BufInv, TypeInv, TypeOK
<1>2. ASSUME nextSn' = nextSn, \A j \in Ifs \ {i} : rbuf'[j] = rbuf[j] /\ wire'[j] = wire[j],
             ToSet(rbuf'[i]) \cup ToSet(wire'[i]) \subseteq ToSet(rbuf[i]) \cup ToSet(wire[i])
      PROVE  LinesLose
  BY <1>2 DEF LinesLose, Kept, LineFrames
<1>3. CASE TakeToken(i) \/ Admit(i)
  <2>1. UNCHANGED <<rbuf, wire, nextSn>> BY <1>3 DEF TakeToken, Admit, devVars
  <2> QED BY <1>2, <2>1
<1>4. CASE BusRead(i)
  <2>1. /\ wire[i] # <<>> /\ rbuf'[i] = <<Head(wire[i])>> /\ wire'[i] = Tail(wire[i])
        /\ \A j \in Ifs \ {i} : rbuf'[j] = rbuf[j] /\ wire'[j] = wire[j]
        /\ nextSn' = nextSn
    BY <1>1, <1>4 DEF BusRead
  <2>2. ToSet(rbuf'[i]) = {Head(wire[i])} BY <1>1, <2>1, HeadTail, SetSmall
  <2> QED BY <1>1, <1>2, <2>1, <2>2, SetTail
<1>5. CASE UartRead(i)
  <2>1. PICK k \in 0 .. Len(wire[i]) :
          /\ rbuf' = [rbuf EXCEPT ![i] = @ \o SubSeq(wire[i], 1, k)]
          /\ wire' = [wire EXCEPT ![i] = SubSeq(@, k + 1, Len(@))]
    BY <1>5 DEF UartRead
  <2>2. /\ rbuf'[i] = rbuf[i] \o SubSeq(wire[i], 1, k)
        /\ wire'[i] = SubSeq(wire[i], k + 1, Len(wire[i]))
        /\ \A j \in Ifs \ {i} : rbuf'[j] = rbuf[j] /\ wire'[j] = wire[j]
        /\ nextSn' = nextSn
    BY <1>1, <1>5, <2>1 DEF UartRead
  <2>3. rbuf[i] \in Seq(Frame) /\ wire[i] \in Seq(Frame) BY <1>1
  <2> QED BY <1>2, <2>2, <2>3, SetSplit
<1>6. CASE DbgDump(i)
  <2>1. /\ rbuf' = rbuf /\ nextSn' = nextSn /\ \A j \in Ifs \ {i} : wire'[j] = wire[j]
        /\ wire'[i] = wire[i] \/ (wire[i] # <<>> /\ wire'[i] = Tail(wire[i]))
    BY <1>1, <1>6 DEF DbgDump
  <2> QED BY <1>1, <1>2, <2>1, SetTail
<1>7. CASE Notify(i) \/ Discard(i) \/ Send(i)
  <2>1. /\ rbuf[i] # <<>> /\ rbuf'[i] = Tail(rbuf[i]) /\ UNCHANGED <<wire, nextSn>>
        /\ \A j \in Ifs \ {i} : rbuf'[j] = rbuf[j]
    BY <1>1, <1>7 DEF Notify, Discard, Send, Consume, devVars
  <2> QED BY <1>1, <1>2, <2>1, SetTail
<1>8. CASE RecvFault(i)
  <2>1. /\ rbuf'[i] = rbuf[i] \/ rbuf'[i] = <<>>
        /\ UNCHANGED <<wire, nextSn>> /\ \A j \in Ifs \ {i} : rbuf'[j] = rbuf[j]
    BY <1>1, <1>8 DEF RecvFault, AdmitFail, SendFail, KeepOrDrop, devVars
  <2> QED BY <1>2, <2>1, SetSmall
<1> QED
  BY <1>3, <1>4, <1>5, <1>6, <1>7, <1>8, RejectLines DEF RecvStep

\* The console's steps drop frames at most, or spoil one.
LEMMA HostLines ==
  ASSUME ChannelInv, MainStep \/ MainFault \/ Console
  PROVE  LinesLose \/ LineSpoilt
<1> USE DEF ChannelInv
<1>1. ASSUME UNCHANGED <<rbuf, wire, nextSn>> PROVE LinesLose
  BY <1>1 DEF LinesLose, Kept, LineFrames
<1>2. CASE WriteHeader \/ WriteOk \/ WriteFail \/ ApplyConf
  <2>1. wire' \in Opened(wire) /\ UNCHANGED <<mq, rbuf, reply, nextSn>>
    BY <1>2 DEF WriteHeader, WriteOk, WriteFail, ApplyConf, mqVars, recvVars
  <2> QED BY <2>1, OpenLines
<1>3. CASE BodyRefused \/ SetWait \/ EvtTimeout \/ Pop \/ PopTimeout \/ PopError \/ SetIdle
  <2>1. UNCHANGED <<rbuf, wire, nextSn>>
    BY <1>3 DEF BodyRefused, SetWait, EvtTimeout, Pop, PopTimeout, PopError, SetIdle,
       recvVars, devVars
  <2> QED BY <1>1, <2>1
<1>4. CASE Console
  <2>1. CASE (\E k \in CmdKinds : Call(k)) \/ (\E i \in Ifs : ChgIf(i)) \/ CmdInit
    <3>1. UNCHANGED <<rbuf, wire, nextSn>>
      BY <2>1 DEF Call, ChgIf, CmdInit, recvVars, devVars
    <3> QED BY <1>1, <3>1
  <2>2. CASE CmdDeinit \/ \E on \in BOOLEAN : DbgRecv(on)
    <3>1. /\ nextSn' = nextSn
          /\ \A i \in Ifs : rbuf'[i] \in {rbuf[i], <<>>} /\ wire'[i] \in {wire[i], <<>>}
      BY <2>2 DEF CmdDeinit, DbgRecv, BufInv, TypeInv, TypeOK
    <3> QED BY <3>1, SetSmall DEF LinesLose, Kept, LineFrames
  <2> QED BY <1>4, <2>1, <2>2 DEF Console
<1> QED BY <1>2, <1>3, <1>4 DEF MainStep, MainFault

\* Every step, on the lines.
LEMMA StepLines ==
  ASSUME ChannelInv, [Next]_vars
  PROVE  LinesLose \/ LineSpoilt \/ LineGains
<1>1. ASSUME NEW i \in Ifs, RecvStep(i) \/ RecvFault(i)
      PROVE  LinesLose \/ LineSpoilt \/ LineGains
  BY <1>1, RecvLines, IdleReadLines DEF LineGains
<1>2. ASSUME NEW i \in Ifs, Device(i) PROVE LineGains
  <2>1. PICK k \in FrameKinds, c \in 0 .. MaxCmds : Emit(i, k, c)
    <3>1. CASE Respond(i)
      <4>1. PICK c \in pending[i] : Emit(i, "res", c) BY <3>1 DEF Respond
      <4>2. c \in 0 .. MaxCmds /\ "res" \in FrameKinds
        BY BoundsAssumption DEF FrameKinds, ChannelInv, BufInv, TypeInv, TypeOK
      <4> QED BY <4>1, <4>2
    <3>2. CASE Noise(i) BY <3>2, BoundsAssumption DEF Noise
    <3> QED BY <1>2, <3>1, <3>2 DEF Device
  <2>2. PICK f : f = [sn |-> nextSn, kind |-> k, cmd |-> c, hif |-> i] OBVIOUS
  <2>3. Gains(i, f) BY <2>1, <2>2, EmitLines DEF ChannelInv
  <2> QED BY <2>3 DEF LineGains, Gains
<1>3. CASE UNCHANGED vars BY <1>3 DEF vars, LinesLose, Kept, LineFrames
<1> QED BY <1>1, <1>2, <1>3, HostLines DEF Next

LEMMA ReplyChanges ==
  ASSUME [Next]_vars PROVE reply' = reply \/ Pop \/ \E k \in CmdKinds : Call(k)
BY DEF Next, MainStep, MainFault, Console, WriteHeader, BodyRefused, WriteOk, WriteFail,
   SetWait, ApplyConf, EvtTimeout, PopTimeout, PopError, SetIdle, ChgIf, DbgRecv, CmdDeinit,
   CmdInit, RecvStep, RecvFault, TakeToken, BusRead, SpiReadIdle, UartRead, DbgDump, Reject,
   Notify, Discard, Admit, Send, AdmitFail, SendFail, Device, Respond, Noise, Emit,
   mainVars, vars

\* Every step, on the queue and on what the command is given.
LEMMA StepQueue ==
  ASSUME BufInv, [Next]_vars
  PROVE  \/ mq' \in {mq, <<>>} /\ reply' \in {reply, NoFrame}
         \/ Pop
         \/ reply' = reply /\ \E i \in Ifs : Send(i)
<1> USE DEF mqVars, mainVars
<1>1. CASE MainStep \/ MainFault
  BY <1>1 DEF MainStep, MainFault, WriteHeader, BodyRefused, WriteOk, WriteFail, SetWait,
     ApplyConf, EvtTimeout, PopTimeout, PopError, SetIdle
<1>2. CASE Console BY <1>2 DEF Console, Call, ChgIf, DbgRecv, CmdDeinit, CmdInit
<1>3. ASSUME NEW i \in Ifs, RecvStep(i) \/ RecvFault(i) \/ Device(i)
      PROVE  UNCHANGED <<mq, reply>> \/ (reply' = reply /\ Send(i))
  BY <1>3 DEF RecvStep, RecvFault, TakeToken, BusRead, SpiReadIdle, UartRead, DbgDump,
     Reject, Notify, Discard, Admit, Send, AdmitFail, SendFail, Device, Respond, Noise, Emit
<1>4. CASE UNCHANGED vars BY <1>4 DEF vars
<1> QED BY <1>1, <1>2, <1>3, <1>4 DEF Next

-----------------------------------------------------------------------------
\* The invariant.

LEMMA LineSns ==
  ASSUME NEW r \in Seq(Frame), NEW w \in Seq(Frame), NEW n
  PROVE  n \in Sns(r) \cup Sns(w) <=> \E f \in ToSet(r) \cup ToSet(w) : f.sn = n
BY DEF Sns, ToSet

\* Whatever happens, a line holds what it held, spoilt or not, and the frame
\* the device puts out.
LEMMA LineOrigin ==
  ASSUME ChannelInv, [Next]_vars, NEW i \in Ifs, NEW f \in LineFrames(i)'
  PROVE  f.hif = i /\ (f.sn = nextSn \/ \E g \in LineFrames(i) : g.sn = f.sn)
<1> USE DEF ChannelInv
<1>1. f \in LineFrames(i) => f.hif = i BY DEF Labelled
<1>2. CASE Kept(i) BY <1>1, <1>2 DEF Kept
<1>3. CASE SpoiltHead(i)
  <2>1. Head(wire[i]) \in LineFrames(i)
    BY <1>3, HeadOnce DEF SpoiltHead, LineFrames
  <2>2. f \in LineFrames(i) \/ f = Spoilt(Head(wire[i])) BY <1>3 DEF SpoiltHead
  <2>3. Head(wire[i]).hif = i BY <2>1 DEF Labelled
  <2> QED BY <1>1, <2>1, <2>2, <2>3 DEF Spoilt
<1>4. ASSUME NEW g, Gains(i, g) PROVE f \in LineFrames(i) \/ (f.hif = i /\ f.sn = nextSn)
  BY <1>4 DEF Gains
<1>5. CASE LineFrames(i)' = LineFrames(i) BY <1>1, <1>5
<1> QED
  BY <1>1, <1>2, <1>3, <1>4, <1>5, StepLines DEF LinesLose, LineSpoilt, LineGains, Gains

LEMMA LabelledStep == ASSUME ChannelInv, [Next]_vars PROVE Labelled'
BY LineOrigin DEF Labelled

LEMMA QueueOrderTail ==
  ASSUME ChannelInv, mq # <<>>, mq' = Tail(mq) PROVE QueueInOrder'
<1>1. mq \in Seq(Frame) BY DEF ChannelInv, BufInv, TypeInv, TypeOK
<1>2. \A k \in DOMAIN mq' : k \in Nat /\ k + 1 \in DOMAIN mq /\ mq'[k] = mq[k + 1]
  BY <1>1, HeadTailProperties
<1>3. \A j, k \in DOMAIN mq' : j < k => j + 1 < k + 1 BY <1>2
<1> QED BY <1>2, <1>3 DEF ChannelInv, QueueInOrder

\* The queue keeps its order, and stays ahead of the lines, while it grows by
\* no frame.
LEMMA QueueKeeps ==
  ASSUME ChannelInv, BufInv', [Next]_vars,
         mq' = mq \/ mq' = <<>> \/ (mq # <<>> /\ mq' = Tail(mq))
  PROVE  QueueInOrder' /\ QueueAhead'
<1> USE DEF ChannelInv
<1>1. mq \in Seq(Frame) /\ nextSn \in Nat BY DEF BufInv, TypeInv, TypeOK
<1>2. QueueInOrder'
  <2>1. CASE mq' = mq BY <2>1 DEF QueueInOrder
  <2>2. CASE mq' = <<>> BY <2>2 DEF QueueInOrder
  <2> QED BY <2>1, <2>2, QueueOrderTail
<1>3. QueueAhead'
  <2> SUFFICES ASSUME NEW f \in ToSet(mq'), NEW b \in OnLine(f.hif)' PROVE f.sn < b
    BY DEF QueueAhead
  <2>1. f \in ToSet(mq) BY <1>1, SetTail, SetSmall
  <2>2. f \in Frame /\ f.hif \in Ifs
    <3>1. f \in Frame BY <1>1, <2>1 DEF ToSet
    <3> QED BY <3>1 DEF Frame
  <2>3. f.sn < nextSn
    <3>1. f.sn \in Sns(mq) BY <1>1, <2>1, SetSns
    <3>2. f.sn \in 1 .. nextSn - 1
      BY <3>1 DEF BufInv, BufferOwnership, LineInv, NoBufferYet
    <3> QED BY <1>1, <3>2
  <2> DEFINE i == f.hif
  <2>4. /\ rbuf[i] \in Seq(Frame) /\ wire[i] \in Seq(Frame)
        /\ rbuf'[i] \in Seq(Frame) /\ wire'[i] \in Seq(Frame)
    BY <2>2 DEF BufInv, TypeInv, TypeOK
  <2> HIDE DEF i
  <2>5. PICK g \in LineFrames(i)' : g.sn = b BY <2>4, LineSns DEF OnLine, LineFrames, i
  <2>6. b = nextSn \/ \E h \in LineFrames(i) : h.sn = b
    BY <2>2, <2>5, LineOrigin DEF i
  <2>7. b = nextSn \/ b \in OnLine(i) BY <2>4, <2>6, LineSns DEF OnLine, LineFrames
  <2> QED BY <2>1, <2>3, <2>7 DEF QueueAhead, i
<1> QED BY <1>2, <1>3

\* The frame that joins the queue is the oldest of its line.
LEMMA QueueGrows ==
  ASSUME ChannelInv, NEW i \in Ifs, Send(i) PROVE QueueInOrder' /\ QueueAhead'
<1> USE DEF ChannelInv
<1> DEFINE h == Head(rbuf[i])
<1>1. /\ rpc[i] = "send" /\ rbuf[i] # <<>> /\ rbuf[i] \in Seq(Frame) /\ mq \in Seq(Frame)
      /\ wire[i] \in Seq(Frame)
  BY LineTypes DEF Send, BufInv, TypeInv, TypeOK
<1>2. /\ mq' = Append(mq, h) /\ rbuf'[i] = Tail(rbuf[i]) /\ wire' = wire
      /\ \A j \in Ifs \ {i} : rbuf'[j] = rbuf[j]
  BY DEF Send, Consume, devVars, BufInv, TypeInv, TypeOK
<1>3. h \in Frame /\ h \in LineFrames(i) /\ h.hif = i /\ h.sn \in OnLine(i) /\ h.sn \in Nat
  <2>1. h \in Frame /\ h.sn \in OnLine(i)
    BY <1>1, HeadFacts
  <2>2. h \in LineFrames(i) BY <1>1, SetTail DEF LineFrames
  <2> QED BY <2>1, <2>2, FrameSn DEF Labelled
<1>4. LineOrder(i) BY LineFacts
<1>5. \A b \in OnLine(i)' : h.sn < b /\ b \in OnLine(i)
  <2>1. Sns(rbuf[i]) = {h.sn} \cup Sns(Tail(rbuf[i])) BY <1>1, SnsTail
  <2>2. \A b \in Sns(Tail(rbuf[i])) : h.sn < b BY <1>1, <1>4, OrderTail DEF LineOrder
  <2>3. \A b \in Sns(wire[i]) : h.sn < b BY <1>4, <2>1 DEF LineOrder
  <2> HIDE DEF h
  <2> QED BY <1>2, <2>1, <2>2, <2>3 DEF OnLine
<1>6. \A j \in Ifs \ {i} : OnLine(j)' = OnLine(j) BY <1>2 DEF OnLine
<1>7. ToSet(mq') = ToSet(mq) \cup {h} BY <1>1, <1>2, <1>3, SetAppend
<1>8. \A f \in ToSet(mq) : f.hif \in Ifs
  <2>1. \A f \in ToSet(mq) : f \in Frame BY <1>1 DEF ToSet
  <2> QED BY <2>1 DEF Frame
<1> HIDE DEF h
<1>9. QueueAhead'
  <2> SUFFICES ASSUME NEW f \in ToSet(mq'), NEW b \in OnLine(f.hif)' PROVE f.sn < b
    BY DEF QueueAhead
  <2>1. CASE f = h BY <1>3, <1>5, <2>1
  <2>2. CASE f \in ToSet(mq)
    <3>1. b \in OnLine(f.hif) BY <1>5, <1>6, <1>8, <2>2
    <3> QED BY <2>2, <3>1 DEF QueueAhead
  <2> QED BY <1>7, <2>1, <2>2
<1>10. QueueInOrder'
  <2>1. /\ Len(mq) \in Nat /\ DOMAIN mq = 1 .. Len(mq) /\ DOMAIN mq' = 1 .. Len(mq) + 1
        /\ mq'[Len(mq) + 1] = h /\ \A k \in DOMAIN mq : mq'[k] = mq[k] /\ mq[k] \in ToSet(mq)
    BY <1>1, <1>2, <1>3, AppendProperties DEF ToSet
  <2> SUFFICES ASSUME NEW j \in DOMAIN mq', NEW k \in DOMAIN mq', j < k, mq'[j].hif = mq'[k].hif
               PROVE  mq'[j].sn < mq'[k].sn
    BY DEF QueueInOrder
  <2>2. j \in DOMAIN mq BY <2>1
  <2>3. CASE k \in DOMAIN mq BY <2>1, <2>2, <2>3 DEF QueueInOrder
  <2>4. CASE k = Len(mq) + 1 BY <1>3, <2>1, <2>2, <2>4 DEF QueueAhead
  <2> QED BY <2>1, <2>3, <2>4
<1> QED BY <1>9, <1>10

LEMMA TailOfOne == ASSUME NEW s \in Seq(Frame), Len(s) = 1 PROVE Tail(s) = <<>>
<1>1. s # <<>> /\ Tail(s) \in Seq(Frame) /\ Len(Tail(s)) = 0
  <2>1. s # <<>> BY EmptySeq
  <2> QED BY <2>1, HeadTailProperties
<1> QED BY <1>1, EmptySeq

LEMMA BusBufferStep == ASSUME ChannelInv, [Next]_vars PROVE BusBuffer'
<1> USE DEF ChannelInv
<1> DEFINE Small(j) == rbuf[j] = <<>> \/ (rpc[j] \in {"got", "send"} /\ Len(rbuf[j]) = 1)
<1>1. /\ rbuf \in [Ifs -> Seq(Frame)] /\ rpc \in [Ifs -> RecvPcs] /\ BusIfs \subseteq Ifs
      /\ \A j \in BusIfs : j # "UART" /\ Small(j)
  BY DEF BufInv, TypeInv, TypeOK, BusBuffer, BusIfs
<1>2. SUFFICES ASSUME NEW j \in BusIfs PROVE Small(j)' BY DEF BusBuffer
<1>3. ASSUME rbuf'[j] = <<>> PROVE Small(j)' BY <1>3
<1>4. ASSUME rbuf'[j] = rbuf[j], rpc'[j] = rpc[j] PROVE Small(j)' BY <1>1, <1>4
<1>5. CASE MainStep \/ MainFault
  <2>1. UNCHANGED <<rbuf, rpc>>
    BY <1>5 DEF MainStep, MainFault, WriteHeader, BodyRefused, WriteOk, WriteFail, SetWait,
       ApplyConf, EvtTimeout, Pop, PopTimeout, PopError, SetIdle, recvVars
  <2> QED BY <1>4, <2>1
<1>6. CASE Console
  <2>1. CASE (\E k \in CmdKinds : Call(k)) \/ (\E i \in Ifs : ChgIf(i))
    BY <1>4, <2>1 DEF Call, ChgIf, recvVars
  <2>2. CASE CmdDeinit BY <1>1, <1>3, <2>2 DEF CmdDeinit
  <2>3. CASE CmdInit
    <3>1. rpc[j] = "off" /\ rbuf' = rbuf
      BY <1>1, <2>3 DEF CmdInit, BufInv, Stopped
    <3> QED BY <1>1, <1>3, <3>1
  <2>4. ASSUME NEW on \in BOOLEAN, DbgRecv(on) PROVE Small(j)'
    <3>1. rbuf'[j] = <<>> \/ (rbuf'[j] = rbuf[j] /\ rpc'[j] = rpc[j])
      BY <1>1, <2>4 DEF DbgRecv
    <3> QED BY <1>3, <1>4, <3>1
  <2> QED BY <1>6, <2>1, <2>2, <2>3, <2>4 DEF Console
<1>7. ASSUME NEW i \in Ifs, RecvStep(i) \/ RecvFault(i) PROVE Small(j)'
  <2>1. i # j => rbuf'[j] = rbuf[j] /\ rpc'[j] = rpc[j]
    BY <1>1, <1>7 DEF RecvStep, RecvFault, TakeToken, BusRead, SpiReadIdle, UartRead, DbgDump,
       Reject, Notify, Discard, Admit, Send, AdmitFail, SendFail, Consume, KeepOrDrop
  <2> SUFFICES ASSUME i = j PROVE Small(j)' BY <1>4, <2>1
  <2>2. CASE TakeToken(i) \/ DbgDump(i)
    <3>1. rbuf' = rbuf /\ rpc[j] \notin {"got", "send"} BY <2>2 DEF TakeToken, DbgDump
    <3> QED BY <1>1, <1>3, <3>1
  <2>3. CASE BusRead(i) \/ SpiReadIdle(i)
    <3>1. rpc'[j] = "got" /\ Len(rbuf'[j]) = 1 BY <1>1, <2>3 DEF BusRead, SpiReadIdle
    <3> QED BY <3>1
  <2>4. CASE UartRead(i) BY <1>1, <2>4 DEF UartRead
  <2>5. CASE Reject(i) BY <1>1, <1>3, <2>5 DEF Reject
  <2>6. CASE Notify(i) \/ Discard(i) \/ Send(i)
    <3>1. rpc[j] \in {"got", "send"} /\ rbuf'[j] = Tail(rbuf[j])
      BY <1>1, <2>6 DEF Notify, Discard, Send, Consume
    <3>2. rbuf[j] # <<>> /\ rbuf[j] \in Seq(Frame)
      BY <3>1, <1>1 DEF BufInv, TypeInv, Loaded
    <3>3. Len(rbuf[j]) = 1 BY <1>1, <3>2
    <3> QED BY <1>3, <3>1, <3>2, <3>3, TailOfOne
  <2>7. CASE Admit(i)
    <3>1. rpc[j] = "got" /\ rpc'[j] = "send" /\ rbuf' = rbuf BY <1>1, <2>7 DEF Admit
    <3> QED BY <1>1, <3>1
  <2>8. CASE RecvFault(i)
    <3>1. rbuf'[j] = <<>> BY <1>1, <2>8 DEF RecvFault, AdmitFail, SendFail, KeepOrDrop
    <3> QED BY <1>3, <3>1
  <2> QED BY <1>7, <2>2, <2>3, <2>4, <2>5, <2>6, <2>7, <2>8 DEF RecvStep
<1>8. ASSUME NEW i \in Ifs, Device(i) PROVE Small(j)'
  BY <1>4, <1>8 DEF Device, Respond, Noise, Emit, recvVars
<1>9. CASE UNCHANGED vars BY <1>4, <1>9 DEF vars
<1> QED BY <1>5, <1>6, <1>7, <1>8, <1>9 DEF Next

LEMMA ChannelStart == Init => ChannelInv
<1> SUFFICES ASSUME Init PROVE Labelled /\ QueueInOrder /\ QueueAhead /\ BusBuffer
  BY BufInit DEF ChannelInv
<1>1. ToSet(mq) = {} /\ \A i \in Ifs : LineFrames(i) = {} BY SetSmall DEF Init, LineFrames
<1>2. QueueInOrder BY DEF QueueInOrder, Init
<1>3. BusBuffer BY DEF BusBuffer, BusIfs, Init
<1> QED BY <1>1, <1>2, <1>3 DEF Labelled, QueueAhead

LEMMA ChannelStep == ChannelInv /\ [Next]_vars => ChannelInv'
<1> SUFFICES ASSUME ChannelInv, [Next]_vars PROVE ChannelInv' OBVIOUS
<1>1. BufInv' BY BufStep DEF ChannelInv
<1>2. QueueInOrder' /\ QueueAhead'
  <2>1. Pop => mq # <<>> /\ mq' = Tail(mq) BY DEF Pop
  <2> QED BY <1>1, <2>1, StepQueue, QueueKeeps, QueueGrows DEF ChannelInv
<1> QED BY <1>1, <1>2, LabelledStep, BusBufferStep DEF ChannelInv

-----------------------------------------------------------------------------
\* The refinement: each step of HostIf is one of ReplyChannel, or a stutter.

LEMMA AirLines ==
  ASSUME NEW f
  PROVE  /\ f \in Air <=> (\E j \in Ifs : f \in LineFrames(j)) \/ f \in ToSet(mq)
         /\ f \in Air' <=> (\E j \in Ifs : f \in LineFrames(j)') \/ f \in ToSet(mq')
<1>1. f \in Air <=> (\E j \in Ifs : f \in LineFrames(j)) \/ f \in ToSet(mq)
  BY DEF Air, LineFrames
<1>2. f \in Air' <=> (\E j \in Ifs : f \in LineFrames(j)') \/ f \in ToSet(mq')
  BY DEF Air, LineFrames
<1> QED BY <1>1, <1>2

\* The queue takes frames from the lines only.
LEMMA QueueFrames ==
  ASSUME BufInv, [Next]_vars, NEW f \in ToSet(mq') PROVE f \in Air
<1>1. CASE mq' \in {mq, <<>>} BY <1>1, SetSmall, AirLines
<1>2. CASE Pop
  <2>1. mq \in Seq(Frame) /\ mq # <<>> /\ mq' = Tail(mq)
    BY <1>2 DEF Pop, BufInv, TypeInv, TypeOK
  <2> QED BY <2>1, SetTail, AirLines
<1>3. ASSUME NEW i \in Ifs, Send(i) PROVE f \in Air
  <2>1. /\ rbuf[i] \in Seq(Frame) /\ rbuf[i] # <<>> /\ mq \in Seq(Frame)
        /\ mq' = Append(mq, Head(rbuf[i]))
    BY <1>3, LineTypes DEF Send
  <2>2. Head(rbuf[i]) \in Frame /\ Head(rbuf[i]) \in LineFrames(i)
    BY <2>1, HeadTail, SetTail DEF LineFrames
  <2>3. ToSet(mq') = ToSet(mq) \cup {Head(rbuf[i])} BY <2>1, <2>2, SetAppend
  <2> QED BY <2>2, <2>3, AirLines
<1> QED BY <1>1, <1>2, <1>3, StepQueue

LEMMA LoseStep == ASSUME BufInv, [Next]_vars, LinesLose PROVE Air' \subseteq Air
BY QueueFrames, AirLines DEF LinesLose, Kept

\* What waits on a line is neither in the queue nor on another line.
LEMMA HeadApart ==
  ASSUME ChannelInv, NEW i \in Ifs, wire[i] # <<>>
  PROVE  /\ Head(wire[i]) \notin ToSet(mq)
         /\ \A j \in Ifs \ {i} : Head(wire[i]) \notin LineFrames(j)
<1> USE DEF ChannelInv
<1> DEFINE h == Head(wire[i])
<1>1. h \in ToSet(wire[i]) /\ h.hif = i
  BY HeadOnce DEF Labelled, LineFrames
<1>2. h.sn \in OnLine(i) /\ h.sn \in Nat
  BY <1>1, HeadOnce, LineTypes, SetSns, FrameSn DEF OnLine
<1> HIDE DEF h
<1>3. h \notin ToSet(mq)
  <2>1. \A m \in Nat : ~(m < m) OBVIOUS
  <2> QED BY <1>1, <1>2, <2>1 DEF QueueAhead
<1>4. \A j \in Ifs \ {i} : h \notin LineFrames(j) BY <1>1 DEF Labelled
<1> QED BY <1>3, <1>4 DEF h

LEMMA SpoiltIs ==
  ASSUME NEW f \in Frame PROVE Spoilt(f) = [f EXCEPT !.kind = "badhdr", !.cmd = 0]
<1>1. [f EXCEPT !.kind = "badhdr", !.cmd = 0] =
        [x \in {"sn", "kind", "cmd", "hif"} |->
           IF x = "kind" THEN "badhdr" ELSE IF x = "cmd" THEN 0 ELSE f[x]]
  BY DEF Frame
<1>2. Spoilt(f) =
        [x \in {"sn", "kind", "cmd", "hif"} |->
           IF x = "kind" THEN "badhdr" ELSE IF x = "cmd" THEN 0 ELSE f[x]]
  BY DEF Spoilt
<1> QED BY <1>1, <1>2

LEMMA DamageStep ==
  ASSUME ChannelInv, LineSpoilt PROVE Channel!Lose \/ Channel!Damage
<1> USE DEF ChannelInv
<1>1. PICK i \in Ifs : SpoiltHead(i) /\ \A j \in Ifs \ {i} : Kept(j) BY DEF LineSpoilt
<1>2. UNCHANGED <<mq, reply, nextSn>> BY DEF LineSpoilt
<1> DEFINE h == Head(wire[i])
<1>3. wire[i] # <<>> /\ LineFrames(i)' \subseteq (LineFrames(i) \ {h}) \cup {Spoilt(h)}
  BY <1>1 DEF SpoiltHead
<1>4. h \in Frame /\ h \in LineFrames(i) /\ h \in Air
  BY <1>3, HeadOnce, AirLines DEF LineFrames
<1>5. h \notin ToSet(mq) /\ \A j \in Ifs \ {i} : h \notin LineFrames(j) BY <1>3, HeadApart
<1>6. Spoilt(h) = [h EXCEPT !.kind = "badhdr", !.cmd = 0] BY <1>4, SpoiltIs
<1> HIDE DEF h
<1>7. \A f \in Air' : f = Spoilt(h) \/ (f \in Air /\ f # h)
  BY <1>1, <1>2, <1>3, <1>5, AirLines DEF Kept
<1>8. CASE Spoilt(h) \in Air'
  <2> DEFINE rest == Air' \ {Spoilt(h)}
  <2>1. rest \in SUBSET (Air \ {h}) /\ Air' = rest \cup {Spoilt(h)} BY <1>7, <1>8
  <2> HIDE DEF rest
  <2> QED BY <1>2, <1>4, <1>6, <2>1 DEF Channel!Damage
<1>9. CASE Spoilt(h) \notin Air'
  <2>1. Air' \in SUBSET Air BY <1>7, <1>9
  <2> QED BY <1>2, <2>1 DEF Channel!Lose
<1> QED BY <1>8, <1>9

LEMMA GainedAir ==
  ASSUME NEW i \in Ifs, NEW f, Gains(i, f) PROVE Air' \in {Air, Air \cup {f}}
<1> USE DEF Gains
<1>1. CASE LineFrames(i)' = LineFrames(i)
  <2>1. \A g : g \in Air' <=> g \in Air BY <1>1, AirLines
  <2> QED BY <2>1
<1>2. CASE LineFrames(i)' = LineFrames(i) \cup {f}
  <2>1. \A g : g \in Air' <=> g \in Air \cup {f} BY <1>2, AirLines
  <2> QED BY <2>1
<1> QED BY <1>1, <1>2

LEMMA GainStep == ASSUME LineGains PROVE Channel!Emit
<1>1. PICK i \in Ifs, f \in Frame : Gains(i, f) BY DEF LineGains
<1>2. Air' \in {Air, Air \cup {f}} BY <1>1, GainedAir
<1>3. f \in Channel!Frame BY DEF Frame, Channel!Frame
<1> QED BY <1>1, <1>2, <1>3 DEF Channel!Emit, Gains

LEMMA PoppedIsGone ==
  ASSUME BufInv, Pop
  PROVE  Head(mq) \in Air /\ \A f \in Air' : f \in Air /\ f.sn # Head(mq).sn
<1> DEFINE h == Head(mq)
<1>1. /\ mq \in Seq(Frame) /\ mq # <<>> /\ mq' = Tail(mq) /\ UNCHANGED <<rbuf, wire>>
      /\ mq' \in Seq(Frame)
  BY HeadTail DEF Pop, recvVars, devVars, BufInv, TypeInv, TypeOK
<1>2. Sns(mq) = {h.sn} \cup Sns(mq') /\ h.sn \notin Sns(mq')
  BY <1>1, SnsTail, DistinctTail DEF BufInv, BufferOwnership
<1>3. h \in ToSet(mq) /\ ToSet(mq') \subseteq ToSet(mq) BY <1>1, SetTail
<1>4. ASSUME NEW i \in Ifs PROVE h.sn \notin OnLine(i)
  <2>1. h.sn \in heap BY <1>2 DEF BufInv, BufferOwnership
  <2>2. OnLine(i) \cap heap \subseteq (IF i \in Senders THEN {SendingSn(i)} ELSE {})
    BY DEF BufInv, LineInv, NoBufferYet
  <2>3. i \in Senders => SendingSn(i) # h.sn
    BY <1>2 DEF BufInv, BufferOwnership
  <2> QED BY <2>1, <2>2, <2>3
<1> HIDE DEF h
<1>5. ASSUME NEW f \in Air' PROVE f \in Air /\ f.sn # h.sn
  <2>1. CASE f \in ToSet(mq')
    <3>1. f.sn \in Sns(mq') BY <1>1, <2>1, SetSns
    <3> QED BY <1>2, <1>3, <2>1, <3>1, AirLines
  <2>2. ASSUME NEW j \in Ifs, f \in ToSet(wire[j]) \cup ToSet(rbuf[j])
        PROVE  f \in Air /\ f.sn # h.sn
    <3>1. f.sn \in OnLine(j) BY <2>2, LineTypes, SetSns DEF OnLine
    <3> QED BY <1>4, <2>2, <3>1, AirLines DEF LineFrames
  <2> QED BY <1>1, <2>1, <2>2, AirLines DEF LineFrames
<1>6. h \in Air BY <1>3, AirLines
<1> QED BY <1>5, <1>6 DEF h

\* The frame popped is the oldest of its interface in the air.
LEMMA DeliverStep == ASSUME ChannelInv, Pop PROVE Channel!Deliver
<1> USE DEF ChannelInv
<1> DEFINE h == Head(mq)
<1>1. /\ mq \in Seq(Frame) /\ mq # <<>> /\ mq' = Tail(mq) /\ reply' = h
      /\ UNCHANGED <<rbuf, wire, nextSn>>
  BY DEF Pop, recvVars, devVars, BufInv, TypeInv, TypeOK
<1>2. h \in Air /\ \A f \in Air' : f \in Air /\ f.sn # h.sn BY PoppedIsGone
<1>3. /\ h \in Frame /\ h \in ToSet(mq) /\ h = mq[1] /\ 1 \in DOMAIN mq
      /\ DOMAIN mq \subseteq Nat /\ \A k \in DOMAIN mq : k = 1 \/ (1 < k /\ Tail(mq)[k - 1] = mq[k]
                                                    /\ k - 1 \in DOMAIN Tail(mq))
  BY <1>1, HeadTailProperties DEF ToSet
<1> HIDE DEF h
<1>4. h.sn \in Nat BY <1>3, FrameSn
<1>5. \A f \in Air \ {h} : f \in Air'
  <2> SUFFICES ASSUME NEW f \in Air, f # h PROVE f \in Air' OBVIOUS
  <2>1. CASE f \in ToSet(mq)
    <3>1. PICK k \in DOMAIN mq : f = mq[k] BY <2>1 DEF ToSet
    <3>2. k - 1 \in DOMAIN mq' /\ f = mq'[k - 1] BY <1>1, <1>3, <3>1
    <3> QED BY <3>2, AirLines DEF ToSet
  <2>2. ASSUME NEW j \in Ifs, f \in LineFrames(j) PROVE f \in Air'
    <3>1. f \in LineFrames(j)' BY <1>1, <2>2 DEF LineFrames
    <3> QED BY <3>1, AirLines
  <2> QED BY <2>1, <2>2, AirLines
<1>6. Air' = Air \ {h} BY <1>2, <1>5
<1>7. \A g \in Air : g.hif = h.hif => g.sn >= h.sn
  <2> SUFFICES ASSUME NEW g \in Air, g.hif = h.hif PROVE g.sn >= h.sn OBVIOUS
  <2>1. CASE g \in ToSet(mq)
    <3>1. PICK k \in DOMAIN mq : g = mq[k] BY <2>1 DEF ToSet
    <3>2. k = 1 \/ h.sn < g.sn BY <1>3, <3>1 DEF QueueInOrder
    <3>3. g \in Frame BY <1>1, <3>1
    <3> QED BY <1>3, <1>4, <3>1, <3>2, <3>3, FrameSn
  <2>2. ASSUME NEW j \in Ifs, g \in LineFrames(j) PROVE g.sn >= h.sn
    <3>1. g.hif = j BY <2>2 DEF Labelled
    <3>2. g.sn \in OnLine(j) /\ g \in Frame
      <4>1. rbuf[j] \in Seq(Frame) /\ wire[j] \in Seq(Frame) BY LineTypes
      <4> QED BY <2>2, <4>1, LineSns DEF OnLine, LineFrames, ToSet
    <3>3. h.sn < g.sn BY <1>3, <3>1, <3>2 DEF QueueAhead
    <3> QED BY <1>4, <3>2, <3>3, FrameSn
  <2> QED BY <2>1, <2>2, AirLines
<1> QED BY <1>1, <1>2, <1>6, <1>7 DEF Channel!Deliver

LEMMA ClearStep ==
  ASSUME UNCHANGED <<mq, rbuf, wire, nextSn>>, reply' = NoFrame PROVE Channel!Clear
<1>1. Air' = Air BY DEF Air
<1> QED BY <1>1 DEF Channel!Clear

LEMMA ImplementsStep ==
  ASSUME ChannelInv, [Next]_vars PROVE [Channel!Next]_Channel!vars
<1> USE DEF Channel!Next
<1>1. CASE Pop BY <1>1, DeliverStep
<1>2. ASSUME NEW k \in CmdKinds, Call(k) PROVE Channel!Next
  BY <1>2, ClearStep DEF Call, mqVars, recvVars, devVars
<1>3. CASE LineGains BY <1>3, GainStep
<1>4. CASE LineSpoilt BY <1>4, DamageStep
<1>5. ASSUME LinesLose, reply' = reply PROVE Channel!Next
  <2>1. Air' \in SUBSET Air BY <1>5, LoseStep DEF ChannelInv
  <2> QED BY <1>5, <2>1 DEF Channel!Lose, LinesLose
<1>6. reply' = reply \/ Pop \/ \E k \in CmdKinds : Call(k) BY ReplyChanges
<1> QED
  BY <1>1, <1>2, <1>3, <1>4, <1>5, <1>6, StepLines

\* Wire, receive tasks, queue and pop_dataframe together give each frame to a
\* command at most once, none of them made up, and those of an interface in the
\* order they were put out (host_if_bs.c, the receive tasks of host_if_uart.c,
\* host_if_i2c.c and host_if_spi.c).
THEOREM ChannelImplemented == Spec => ImplementsChannel
<1>1. Init => Channel!Init
  <2> SUFFICES ASSUME Init PROVE Channel!Init OBVIOUS
  <2>1. \A f : f \notin Air BY SetSmall, AirLines DEF Init, LineFrames
  <2> QED BY <2>1 DEF Init, Channel!Init
<1> QED
  BY <1>1, ChannelStart, ChannelStep, ImplementsStep, PTL
     DEF Spec, ImplementsChannel, Channel!Spec

\* What ReplyChannel says of the frames in the air: they have different serial
\* numbers, and none of an interface is as old as the last one it delivered.
InAir ==
  /\ nextSn \in Nat /\ Air \subseteq Frame
  /\ \A f \in Air : f.sn < nextSn
  /\ \A f, g \in Air : f.sn = g.sn => f = g
  /\ reply # NoFrame =>
       /\ reply \in Frame /\ reply.sn < nextSn
       /\ \A f \in Air : f.hif = reply.hif => f.sn > reply.sn

\* Frames that were in the air before, except that f is new or has been damaged.
LEMMA InAirFrame ==
  ASSUME InAir, NEW f \in Frame, NEW rest \in SUBSET Air, Air' \subseteq rest \cup {f},
         reply' = reply, nextSn' \in Nat, nextSn <= nextSn', f.sn < nextSn',
         \/ nextSn <= f.sn
         \/ \E g \in Air \ rest : f.sn = g.sn /\ f.hif = g.hif
  PROVE  InAir'
<1> USE DEF InAir
<1>1. \A g \in Frame : g.sn \in Nat BY FrameSn
<1>2. \A g \in rest : g.sn # f.sn
  <2>1. CASE nextSn <= f.sn BY <1>1, <2>1
  <2>2. CASE \E g \in Air \ rest : f.sn = g.sn /\ f.hif = g.hif BY <2>2
  <2> QED BY <2>1, <2>2
<1>3. Air' \subseteq Frame OBVIOUS
<1>4. \A g \in Air' : g.sn < nextSn' BY <1>1
<1>5. \A g, h \in Air' : g.sn = h.sn => g = h BY <1>2
<1>6. ASSUME reply # NoFrame, NEW g \in Air', g.hif = reply.hif PROVE g.sn > reply.sn
  <2>1. reply.sn \in Nat /\ reply.sn < nextSn BY <1>1, <1>6
  <2>2. CASE g \in rest BY <1>6, <2>2
  <2>3. CASE g = f BY <1>1, <1>6, <2>1, <2>3
  <2> QED BY <2>2, <2>3
<1>7. reply # NoFrame => reply \in Frame /\ reply.sn < nextSn' BY <1>1
<1> QED BY <1>3, <1>4, <1>5, <1>6, <1>7

LEMMA InAirStep == InAir /\ [Channel!Next]_(Channel!vars) => InAir'
<1> SUFFICES ASSUME InAir, [Channel!Next]_(Channel!vars) PROVE InAir'
  OBVIOUS
<1>1. CASE Channel!Emit
  <2>1. PICK f \in Frame : f.sn = nextSn /\ Air' \in {Air, Air \cup {f}}
    BY <1>1 DEF Channel!Emit, Channel!Frame, Frame
  <2>2. nextSn' = nextSn + 1 /\ reply' = reply BY <1>1 DEF Channel!Emit
  <2>3. nextSn' \in Nat /\ nextSn < nextSn' BY <2>2 DEF InAir
  <2>4. Air' \subseteq Air \cup {f} BY <2>1
  <2> QED BY <2>1, <2>2, <2>3, <2>4, InAirFrame DEF InAir
<1>2. CASE Channel!Lose
  BY <1>2 DEF Channel!Lose, InAir
<1>3. CASE Channel!Damage
  <2>1. PICK g \in Air : \E rest \in SUBSET (Air \ {g}) :
          Air' = rest \cup {[g EXCEPT !.kind = "badhdr", !.cmd = 0]}
    BY <1>3 DEF Channel!Damage
  <2>2. PICK rest \in SUBSET (Air \ {g}) :
          Air' = rest \cup {[g EXCEPT !.kind = "badhdr", !.cmd = 0]}
    BY <2>1
  <2> DEFINE f == [g EXCEPT !.kind = "badhdr", !.cmd = 0]
  <2>3. g \in Frame BY <2>1 DEF InAir
  <2>4. f \in Frame /\ f.sn = g.sn /\ f.hif = g.hif
    <3>1. f = Spoilt(g) BY <2>3, SpoiltIs
    <3> HIDE DEF f
    <3> QED BY <2>3, <3>1, BoundsAssumption DEF Spoilt, Frame, FrameKinds
  <2>5. UNCHANGED <<reply, nextSn>> BY <1>3 DEF Channel!Damage
  <2>6. f.sn < nextSn' /\ nextSn' \in Nat /\ nextSn <= nextSn' BY <2>1, <2>4, <2>5 DEF InAir
  <2> HIDE DEF f
  <2>7. Air' \subseteq rest \cup {f} BY <2>2 DEF f
  <2>8. rest \in SUBSET Air /\ g \in Air \ rest BY <2>1, <2>2
  <2> QED BY <2>4, <2>5, <2>6, <2>7, <2>8, InAirFrame
<1>4. CASE Channel!Deliver
  <2>1. PICK f \in Air : /\ \A g \in Air : g.hif = f.hif => g.sn >= f.sn
                         /\ reply' = f /\ Air' = Air \ {f} /\ UNCHANGED nextSn
    BY <1>4 DEF Channel!Deliver
  <2>2. \A g \in Frame : g.sn \in Nat BY FrameSn
  <2>3. f \in Frame /\ f.sn < nextSn BY <2>1 DEF InAir
  <2>4. ASSUME NEW g \in Air', g.hif = f.hif PROVE g.sn > f.sn
    <3>1. g \in Air /\ g # f /\ g \in Frame BY <2>1 DEF InAir
    <3>2. g.sn # f.sn BY <2>1, <3>1 DEF InAir
    <3> QED BY <2>1, <2>2, <2>3, <2>4, <3>1, <3>2
  <2> QED BY <2>1, <2>3, <2>4 DEF InAir
<1>5. CASE Channel!Clear
  BY <1>5 DEF Channel!Clear, InAir
<1>6. CASE UNCHANGED Channel!vars
  BY <1>6 DEF Channel!vars, InAir
<1> QED BY <1>1, <1>2, <1>3, <1>4, <1>5, <1>6 DEF Channel!Next

\* While a command has its response in hand no frame as old as that is still to
\* come on the interface, on the line, in the task's buffer or in the queue: no
\* response is delivered twice, and none after a later one.  It holds of whatever
\* implements ReplyChannel, and so of the receive tasks, push and pop.
THEOREM RepliesInOrder ==
  Spec => [](reply # NoFrame => \A f \in Air : f.hif = reply.hif => f.sn > reply.sn)
<1>1. Channel!Init => InAir
  BY DEF Channel!Init, InAir
<1>2. InAir => (reply # NoFrame => \A f \in Air : f.hif = reply.hif => f.sn > reply.sn)
  BY DEF InAir
<1> QED
  BY <1>1, <1>2, InAirStep, ChannelImplemented, PTL DEF ImplementsChannel, Channel!Spec

-----------------------------------------------------------------------------
(* How long a command takes (CommandReturns).                              *)

\* Steps that a command takes at most from here on.
StepsLeft ==
  [idle |-> 0, unflag |-> 1, pop |-> 2, conf |-> 3, sem |-> 3, flag |-> 4,
   body |-> 5, write |-> 6][pc]

\* What CommandReturns needs besides fairness: no command goes back to where it
\* was, on no path through open, write, flag and pop and whatever fails, so that
\* it is over after six steps; and nothing the receive tasks, the device or the
\* interrupt do sets it back.
THEOREM CommandIsFinite ==
  Spec => [][/\ MainStep \/ MainFault => StepsLeft' < StepsLeft
             /\ pc # "idle" /\ ~(MainStep \/ MainFault) => StepsLeft' = StepsLeft]_vars
<1> USE DEF StepsLeft
<1>1. ASSUME MainStep PROVE StepsLeft' < StepsLeft
  BY <1>1 DEF MainStep, WriteHeader, BodyRefused, WriteOk, SetWait, AfterWrite, ApplyConf,
     EvtTimeout, Pop, PopTimeout, SetIdle
<1>2. ASSUME MainFault PROVE StepsLeft' < StepsLeft
  BY <1>2 DEF MainFault, WriteFail, PopError
<1>3. ASSUME [Next]_vars, pc # "idle", ~(MainStep \/ MainFault) PROVE StepsLeft' = StepsLeft
  <2>1. ~Console BY <1>3 DEF Console, Call, ChgIf, DbgRecv, CmdDeinit, CmdInit
  <2>2. CASE UNCHANGED vars BY <2>2 DEF vars
  <2>3. CASE \E i \in Ifs : RecvStep(i) \/ RecvFault(i) \/ Device(i)
    BY <2>3 DEF RecvStep, RecvFault, Device, TakeToken, BusRead, SpiReadIdle, UartRead, DbgDump,
       Reject, Notify, Discard, Admit, Send, AdmitFail, SendFail, Respond, Noise, Emit, mainVars
  <2> QED BY <1>3, <2>1, <2>2, <2>3 DEF Next
<1>4. [Next]_vars => [/\ MainStep \/ MainFault => StepsLeft' < StepsLeft
                      /\ pc # "idle" /\ ~(MainStep \/ MainFault) => StepsLeft' = StepsLeft]_vars
  BY <1>1, <1>2, <1>3
<1> QED BY <1>4, PTL DEF Spec

-----------------------------------------------------------------------------
(* Whose answer a command is given (PairedReply and NoDiscardInPop).       *)

Answers == {f \in Air : f.kind = "res"}

\* A command sent is with the device, in the air as one answer, or settled.
Settled ==
  /\ \A f \in Answers : f.cmd \in owed
  /\ \A f, g \in Answers : f.cmd = g.cmd => f.sn = g.sn
  /\ \A f \in Air : f.kind # "res" => f.cmd = 0
AtDevice ==
  /\ \A i \in Ifs : pending[i] \subseteq owed
  /\ \A i \in Ifs, f \in Answers : f.cmd \notin pending[i]
  /\ \A i, j \in Ifs : i # j => pending[i] \cap pending[j] = {}
\* The running command has not been sent: before the write, and after one that
\* failed, which is the only way into pop_dataframe with the flag down.
NotSent ==
  /\ owed \subseteq 1 .. cur
  /\ pc \in {"write", "body"} => cur \notin owed
  /\ pc \in {"conf", "pop"} /\ hifState = "IDLE" => cur \notin owed

\* No command has a reply before its pop.
NoReplyYet ==
  pc \in {"write", "body", "flag", "conf", "sem", "pop"} => reply = NoFrame

AnswerInv == ChannelInv /\ Settled /\ AtDevice /\ NotSent /\ NoReplyYet

\* What a frame without a command is.
Unanswering(f) == f.kind # "res" /\ f.cmd = 0

\* Frames may go, or frames that answer nothing come.
LEMMA AirSettled ==
  ASSUME AnswerInv, \A f \in Air' : f \in Air \/ Unanswering(f), UNCHANGED <<pending, owed>>
  PROVE  Settled' /\ AtDevice'
<1> USE DEF AnswerInv
<1>1. Answers' \subseteq Answers BY DEF Answers, Unanswering
<1>2. Settled' BY <1>1 DEF Settled, Unanswering
<1>3. AtDevice' BY <1>1 DEF AtDevice
<1> QED BY <1>2, <1>3

LEMMA AirShrinks ==
  ASSUME AnswerInv, \A f \in Air' : f \in Air \/ Unanswering(f), UNCHANGED <<pending, mainVars>>,
         hifState' = hifState
  PROVE  Settled' /\ AtDevice' /\ NotSent'
<1>1. Settled' /\ AtDevice' BY AirSettled DEF mainVars
<1>2. NotSent' BY DEF AnswerInv, NotSent, mainVars
<1> QED BY <1>1, <1>2

LEMMA SpoiltUnanswering == ASSUME NEW f PROVE Unanswering(Spoilt(f))
BY DEF Spoilt, Unanswering

\* What a console or a task does to the lines brings nobody an answer.
LEMMA AirOld ==
  ASSUME ChannelInv, [Next]_vars, LinesLose \/ LineSpoilt, NEW f \in Air'
  PROVE  f \in Air \/ Unanswering(f)
<1>1. CASE LinesLose BY <1>1, LoseStep DEF ChannelInv
<1>2. CASE LineSpoilt
  <2>1. PICK i \in Ifs : SpoiltHead(i) /\ \A j \in Ifs \ {i} : Kept(j) BY <1>2 DEF LineSpoilt
  <2>2. ASSUME NEW j \in Ifs, f \in LineFrames(j)' PROVE f \in Air \/ Unanswering(f)
    <3>1. f \in LineFrames(j) \/ f = Spoilt(Head(wire[j])) BY <2>1, <2>2 DEF SpoiltHead, Kept
    <3> QED BY <3>1, SpoiltUnanswering, AirLines
  <2> QED BY <2>2, QueueFrames, AirLines DEF ChannelInv
<1> QED BY <1>1, <1>2

LEMMA HostAir ==
  ASSUME AnswerInv, MainStep \/ MainFault \/ Console, NEW f \in Air'
  PROVE  f \in Air \/ Unanswering(f)
BY HostLines, AirOld DEF AnswerInv, Next

LEMMA ConsoleAnswer ==
  ASSUME AnswerInv, Console PROVE Settled' /\ AtDevice' /\ NotSent'
<1>1. pending' = pending /\ owed' = owed
  BY DEF Console, Call, ChgIf, DbgRecv, CmdDeinit, CmdInit, mainVars, devVars
<1>2. Settled' /\ AtDevice' BY <1>1, HostAir, AirSettled
<1>3. NotSent'
  <2> USE DEF NotSent, AnswerInv
  <2>1. cur \in Nat /\ owed \subseteq 1 .. cur
    BY DEF ChannelInv, BufInv, TypeInv, TypeOK
  <2>2. cur + 1 \notin owed /\ owed \subseteq 1 .. cur + 1 BY <2>1
  <2>3. ASSUME NEW k \in CmdKinds, Call(k) PROVE NotSent' BY <1>1, <2>2, <2>3 DEF Call
  <2>4. CASE ~\E k \in CmdKinds : Call(k)
    <3>1. UNCHANGED <<mainVars, hifState>>
      BY <2>4 DEF Console, ChgIf, DbgRecv, CmdDeinit, CmdInit
    <3> QED BY <3>1 DEF mainVars
  <2> QED BY <2>3, <2>4
<1> QED BY <1>2, <1>3

\* The steps of a command that neither send it nor take an answer.
LEMMA WaitAnswer ==
  ASSUME AnswerInv,
         \/ WriteHeader \/ WriteFail \/ ApplyConf \/ BodyRefused \/ SetWait \/ EvtTimeout
         \/ PopTimeout \/ PopError \/ SetIdle
  PROVE  Settled' /\ AtDevice' /\ NotSent'
<1>1. UNCHANGED <<pending, owed, cur>>
  BY DEF WriteHeader, WriteFail, ApplyConf, BodyRefused, SetWait, EvtTimeout, PopTimeout,
     PopError, SetIdle, devVars
<1>2. Settled' /\ AtDevice' BY <1>1, HostAir, AirSettled DEF MainStep, MainFault
<1>3. NotSent'
  <2> USE <1>1 DEF NotSent, AnswerInv
  <2>1. CASE WriteHeader BY <2>1 DEF WriteHeader
  <2>2. CASE WriteFail
    <3>1. pc \in {"write", "body"} /\ pc' \in {"idle", "pop"} BY <2>2 DEF WriteFail
    <3>2. cur \notin owed BY <3>1
    <3> QED BY <3>1, <3>2
  <2>3. CASE ApplyConf BY <2>3 DEF ApplyConf
  <2>4. CASE BodyRefused BY <2>4 DEF BodyRefused
  <2>5. CASE SetWait BY <2>5 DEF SetWait, AfterWrite
  <2>6. CASE EvtTimeout \/ PopTimeout \/ PopError \/ SetIdle
    BY <2>6 DEF EvtTimeout, PopTimeout, PopError, SetIdle
  <2> QED BY <2>1, <2>2, <2>3, <2>4, <2>5, <2>6
<1> QED BY <1>2, <1>3

LEMMA WriteOkAnswer == ASSUME AnswerInv, WriteOk PROVE Settled' /\ AtDevice' /\ NotSent'
<1> USE DEF AnswerInv
<1>1. Answers' \subseteq Answers /\ \A f \in Air' : f \in Air \/ Unanswering(f)
  <2>1. \A f \in Air' : f \in Air \/ Unanswering(f) BY HostAir DEF MainStep
  <2> QED BY <2>1 DEF Answers, Unanswering
<1>2. owed' = owed \cup {cur} /\ cur \notin owed /\ cur' = cur /\ pc' \in {"idle", "flag"}
  BY DEF WriteOk, NotSent
<1>3. Settled' BY <1>1, <1>2 DEF Settled, Unanswering
<1>4. /\ \A i \in Ifs : pending'[i] \subseteq pending[i] \cup {cur}
      /\ \A i \in Ifs : i # hifType => pending'[i] = pending[i]
  BY DEF WriteOk, ChannelInv, BufInv, TypeInv, TypeOK
<1>5. AtDevice'
  <2> USE DEF AtDevice
  <2>1. \A i \in Ifs : pending'[i] \subseteq owed' BY <1>2, <1>4
  <2>2. \A i \in Ifs, f \in Answers : f.cmd \notin pending'[i] BY <1>2, <1>4 DEF Settled
  <2>3. ASSUME NEW i \in Ifs, NEW j \in Ifs, i # j PROVE pending'[i] \cap pending'[j] = {}
    <3>1. pending[i] \cap pending[j] = {} /\ cur \notin pending[i] /\ cur \notin pending[j]
      BY <1>2, <2>3
    <3> QED BY <1>4, <2>3, <3>1
  <2> QED BY <1>1, <2>1, <2>2, <2>3
<1>6. NotSent'
  <2>1. cur \in 1 .. cur BY DEF WriteOk, ChannelInv, BufInv, TypeInv, TypeOK, Running
  <2> QED BY <1>2, <2>1 DEF NotSent
<1> QED BY <1>3, <1>5, <1>6

LEMMA PopAnswer == ASSUME AnswerInv, Pop PROVE Settled' /\ AtDevice' /\ NotSent'
<1> DEFINE h == Head(mq)
<1> USE DEF AnswerInv
<1>1. /\ owed' = owed \ {h.cmd} /\ pending' = pending /\ cur' = cur /\ pc' = "unflag"
  BY DEF Pop, devVars
<1>2. h \in Air /\ \A f \in Air' : f \in Air /\ f.sn # h.sn BY PoppedIsGone DEF ChannelInv
<1> HIDE DEF h
<1>3. \A f \in Answers' : f \in Answers /\ f.sn # h.sn BY <1>2 DEF Answers
<1>4. 0 \notin owed BY DEF NotSent
<1>5. \A f \in Answers' : f.cmd # h.cmd
  <2>1. CASE h.kind = "res" BY <1>2, <1>3, <2>1 DEF Settled, Answers
  <2>2. CASE h.kind # "res" BY <1>2, <1>3, <1>4, <2>2 DEF Settled
  <2> QED BY <2>1, <2>2
<1>6. \A i \in Ifs : h.cmd \notin pending[i]
  <2>1. CASE h.kind = "res" BY <1>2, <2>1 DEF AtDevice, Answers
  <2>2. CASE h.kind # "res" BY <1>2, <1>4, <2>2 DEF Settled, AtDevice
  <2> QED BY <2>1, <2>2
<1>7. Settled' BY <1>1, <1>2, <1>3, <1>5 DEF Settled
<1>8. AtDevice' BY <1>1, <1>3, <1>6 DEF AtDevice
<1>9. NotSent' BY <1>1 DEF NotSent
<1> QED BY <1>7, <1>8, <1>9

LEMMA RecvAnswer ==
  ASSUME AnswerInv, NEW i \in Ifs, RecvStep(i) \/ RecvFault(i)
  PROVE  Settled' /\ AtDevice' /\ NotSent'
<1>1. UNCHANGED <<pending, mainVars, hifState>>
  BY DEF RecvStep, RecvFault, TakeToken, BusRead, SpiReadIdle, UartRead, DbgDump, Reject,
     Notify, Discard, Admit, Send, AdmitFail, SendFail, devVars
<1>2. CASE LinesLose \/ LineSpoilt
  <2>1. \A f \in Air' : f \in Air \/ Unanswering(f) BY <1>2, AirOld DEF AnswerInv, Next
  <2> QED BY <1>1, <2>1, AirShrinks
<1>3. CASE SpiReadIdle(i)
  <2>1. PICK f \in Frame : Gains(i, f) /\ Unanswering(f)
    BY <1>3, IdleReadLines DEF AnswerInv, Unanswering
  <2> QED BY <1>1, <2>1, GainedAir, AirShrinks
<1> QED BY <1>2, <1>3, RecvLines DEF AnswerInv

LEMMA NoiseAnswer ==
  ASSUME AnswerInv, NEW i \in Ifs, Noise(i) PROVE Settled' /\ AtDevice' /\ NotSent'
<1>1. PICK k \in FrameKinds \ {"res"} : Emit(i, k, 0) BY DEF Noise
<1> DEFINE f == [sn |-> nextSn, kind |-> k, cmd |-> 0, hif |-> i]
<1>2. Unanswering(f) BY DEF Unanswering
<1>3. 0 \in 0 .. MaxCmds BY BoundsAssumption
<1>4. PICK g : g = f OBVIOUS
<1>5. Air' \subseteq Air \cup {g} /\ UNCHANGED <<mainVars, hifState>>
  BY <1>1, <1>3, <1>4, EmitLines, GainedAir DEF AnswerInv, ChannelInv, Emit
<1> QED BY <1>2, <1>4, <1>5, AirShrinks DEF Noise

LEMMA RespondAnswer ==
  ASSUME AnswerInv, NEW i \in Ifs, Respond(i) PROVE Settled' /\ AtDevice' /\ NotSent'
<1> USE DEF AnswerInv
<1>1. PICK c \in pending[i] : Emit(i, "res", c) /\ pending' = [pending EXCEPT ![i] = @ \ {c}]
  BY DEF Respond
<1>2. c \in 0 .. MaxCmds /\ "res" \in FrameKinds
  BY BoundsAssumption DEF FrameKinds, ChannelInv, BufInv, TypeInv, TypeOK
<1>3. PICK f : f = [sn |-> nextSn, kind |-> "res", cmd |-> c, hif |-> i] OBVIOUS
<1>4. Air' \subseteq Air \cup {f} /\ UNCHANGED <<mainVars, hifState>> 
  BY <1>1, <1>2, <1>3, EmitLines, GainedAir DEF ChannelInv, Emit
<1>5. f.kind = "res" /\ f.cmd = c BY <1>3
<1>6. Answers' \subseteq Answers \cup {f} BY <1>4 DEF Answers
<1>7. c \in owed /\ \A g \in Answers : g.cmd # c BY DEF AtDevice
<1>8. UNCHANGED <<pc, cur, owed>> BY <1>4 DEF mainVars
<1>9. Settled' BY <1>4, <1>5, <1>6, <1>7, <1>8 DEF Settled
<1>10. /\ \A j \in Ifs : pending'[j] \subseteq pending[j]
       /\ \A j \in Ifs : c \notin pending'[j]
  <2>1. \A j \in Ifs \ {i} : pending'[j] = pending[j] /\ c \notin pending[j]
    BY <1>1 DEF AtDevice, ChannelInv, BufInv, TypeInv, TypeOK
  <2>2. pending'[i] = pending[i] \ {c} BY <1>1 DEF ChannelInv, BufInv, TypeInv, TypeOK
  <2> QED BY <2>1, <2>2
<1>11. AtDevice'
  <2> USE DEF AtDevice
  <2>1. \A j \in Ifs : pending'[j] \subseteq owed' BY <1>8, <1>10
  <2>2. \A j \in Ifs, g \in Answers' : g.cmd \notin pending'[j] BY <1>5, <1>6, <1>10
  <2>3. \A j, k \in Ifs : j # k => pending'[j] \cap pending'[k] = {} BY <1>10
  <2> QED BY <2>1, <2>2, <2>3
<1>12. NotSent' BY <1>4, <1>8 DEF NotSent
<1> QED BY <1>9, <1>11, <1>12

LEMMA AnswerInit == Init => AnswerInv
<1> SUFFICES ASSUME Init PROVE Settled /\ AtDevice /\ NotSent /\ NoReplyYet
  BY ChannelStart DEF AnswerInv
<1>1. Air = {} /\ Answers = {}
  <2>1. \A f : f \notin Air BY SetSmall, AirLines DEF Init, LineFrames
  <2> QED BY <2>1 DEF Answers
<1>2. Settled BY <1>1 DEF Settled
<1>3. AtDevice BY <1>1 DEF AtDevice, Init
<1>4. NotSent /\ NoReplyYet BY DEF NotSent, NoReplyYet, Init
<1> QED BY <1>2, <1>3, <1>4

LEMMA NoReplyYetStep == AnswerInv /\ [Next]_vars => NoReplyYet'
<1> SUFFICES ASSUME AnswerInv, [Next]_vars PROVE NoReplyYet' OBVIOUS
<1> USE DEF AnswerInv, NoReplyYet
<1>1. ASSUME UNCHANGED <<pc, reply>> PROVE NoReplyYet' BY <1>1
<1>2. ASSUME NEW i \in Ifs, RecvStep(i) \/ RecvFault(i) \/ Device(i) PROVE NoReplyYet'
  <2>1. UNCHANGED <<pc, reply>>
    BY <1>2 DEF RecvStep, RecvFault, TakeToken, BusRead, SpiReadIdle, UartRead, DbgDump,
       Reject, Notify, Discard, Admit, Send, AdmitFail, SendFail, Device, Respond, Noise,
       Emit, mainVars
  <2> QED BY <1>1, <2>1
<1>3. CASE MainStep \/ MainFault
  BY <1>3 DEF MainStep, MainFault, WriteHeader, BodyRefused, WriteOk, WriteFail, SetWait,
     AfterWrite, ApplyConf, EvtTimeout, Pop, PopTimeout, PopError, SetIdle
<1>4. CASE Console BY <1>4 DEF Console, Call, ChgIf, DbgRecv, CmdDeinit, CmdInit, mainVars
<1>5. CASE UNCHANGED vars BY <1>5 DEF vars
<1> QED BY <1>2, <1>3, <1>4, <1>5 DEF Next

LEMMA AnswerStep == AnswerInv /\ [Next]_vars => AnswerInv'
<1> SUFFICES ASSUME AnswerInv, [Next]_vars PROVE Settled' /\ AtDevice' /\ NotSent'
  BY ChannelStep, NoReplyYetStep DEF AnswerInv
<1>1. ASSUME NEW i \in Ifs, Device(i) PROVE Settled' /\ AtDevice' /\ NotSent'
  BY <1>1, NoiseAnswer, RespondAnswer DEF Device
<1>2. CASE UNCHANGED vars BY <1>2, AirShrinks DEF vars, mainVars, Air
<1> QED
  BY <1>1, <1>2, ConsoleAnswer, WaitAnswer, WriteOkAnswer, PopAnswer, RecvAnswer
     DEF Next, MainStep, MainFault

\* If every other command that was sent has had its answer popped, a response
\* popped now answers the running command (pop_dataframe of host_if_bs.c, the
\* receive tasks, the transaction functions).
THEOREM AnswersPaired == Spec => PairedReply
<1>1. ASSUME AnswerInv, [Next]_vars
      PROVE  [pc = "pop" /\ reply'.kind = "res" /\ owed \subseteq {cur} => reply'.cmd = cur]_vars
  <2> SUFFICES ASSUME pc = "pop", reply'.kind = "res", owed \subseteq {cur} PROVE reply'.cmd = cur
    OBVIOUS
  <2>1. CASE Pop
    <3>1. reply' = Head(mq) /\ Head(mq) \in Air BY <1>1, <2>1, PoppedIsGone DEF Pop, AnswerInv, ChannelInv
    <3> QED BY <1>1, <3>1 DEF AnswerInv, Settled, Answers
  <2>2. CASE reply' = reply BY <1>1, <2>2 DEF AnswerInv, NoReplyYet, NoFrame
  <2> QED BY <1>1, <2>1, <2>2, ReplyChanges DEF Call
<1> QED BY <1>1, AnswerInit, AnswerStep, PTL DEF Spec, PairedReply

\* A receive task does not drop the answer of a command that is blocked in
\* pop_dataframe: the flag is down there only if the write failed (the
\* transaction functions and write, of host_if_uart.c and host_if_i2c.c).
THEOREM AnswersWaitedFor == Spec => NoDiscardInPop
<1>1. ASSUME AnswerInv
      PROVE  \A i \in Ifs :
               rpc[i] = "got" /\ Head(rbuf[i]).kind = "res" /\ Head(rbuf[i]).cmd = cur
                 /\ pc = "pop" => ~Discard(i)
  <2> SUFFICES ASSUME NEW i \in Ifs, rpc[i] = "got", Head(rbuf[i]).kind = "res",
                      Head(rbuf[i]).cmd = cur, pc = "pop", Discard(i)
               PROVE  FALSE
    OBVIOUS
  <2>1. Head(rbuf[i]) \in ToSet(rbuf[i])
    BY <1>1, LineTypes, SetTail DEF AnswerInv, ChannelInv
  <2>2. Head(rbuf[i]) \in Answers BY <2>1, AirLines DEF Answers, LineFrames
  <2> QED BY <1>1, <2>2 DEF AnswerInv, Settled, NotSent, Discard
<1> QED BY <1>1, AnswerInit, AnswerStep, PTL DEF Spec, NoDiscardInPop

-----------------------------------------------------------------------------
(* Steady operation: the count of the BUS_REQ semaphore (TokensMatchFrames). *)

\* No debug mode is on, since only DBGRECV turns one on.
SteadyInv == BufInv /\ TokensMatchFrames /\ \A i \in Ifs : ~dbgRecv[i]

LEMMA SteadySteps == SteadyNext => Next
BY DEF SteadyNext, Next, Console

\* What the count is about, for one interface.
Tokens(i) == Len(wire[i]) = busReq[i] + (IF rpc[i] = "read" THEN 1 ELSE 0)

LEMMA SteadyTypes ==
  ASSUME SteadyInv
  PROVE  /\ BusIfs \subseteq Ifs /\ "UART" \notin BusIfs
         /\ busReq \in [BusIfs -> Nat] /\ rpc \in [Ifs -> RecvPcs] /\ wire \in [Ifs -> Seq(Frame)]
         /\ \A i \in BusIfs : Tokens(i)
BY DEF SteadyInv, BufInv, TypeInv, TypeOK, BusIfs, TokensMatchFrames, Tokens

LEMMA TokensQuiet ==
  ASSUME SteadyInv, busReq' = busReq, NEW i \in BusIfs,
         wire'[i] = wire[i], rpc'[i] = rpc[i] \/ (rpc[i] # "read" /\ rpc'[i] # "read")
  PROVE  Tokens(i)'
BY SteadyTypes DEF Tokens

LEMMA TokensHost ==
  ASSUME SteadyInv, MainStep \/ (\E k \in CmdKinds : Call(k)) \/ CmdInit, NEW i \in BusIfs
  PROVE  Tokens(i)'
<1>1. busReq' = busReq
  BY DEF MainStep, WriteHeader, BodyRefused, WriteOk, SetWait, ApplyConf, EvtTimeout, Pop,
     PopTimeout, SetIdle, Call, CmdInit
<1>2. wire'[i] = wire[i]
  <2>1. wire' \in Opened(wire) => wire'[i] = wire[i]
    BY SteadyTypes DEF Opened
  <2> QED
    BY <2>1 DEF MainStep, WriteHeader, BodyRefused, WriteOk, SetWait, ApplyConf, EvtTimeout,
       Pop, PopTimeout, SetIdle, Call, CmdInit, devVars
<1>3. rpc'[i] = rpc[i] \/ (rpc[i] # "read" /\ rpc'[i] # "read")
  <2>1. CASE CmdInit
    <3>1. rpc[i] = "off" BY <2>1, SteadyTypes DEF CmdInit, SteadyInv, BufInv, Stopped
    <3>2. rpc'[i] = "wait" BY <2>1, SteadyTypes DEF CmdInit, Started
    <3> QED BY <3>1, <3>2
  <2>2. CASE MainStep \/ \E k \in CmdKinds : Call(k)
    BY <2>2 DEF MainStep, WriteHeader, BodyRefused, WriteOk, SetWait, ApplyConf, EvtTimeout,
       Pop, PopTimeout, SetIdle, Call, recvVars
  <2> QED BY <2>1, <2>2
<1> QED BY <1>1, <1>2, <1>3, TokensQuiet

LEMMA TokensRecv ==
  ASSUME SteadyInv, NEW j \in Ifs, RecvStep(j), NEW i \in BusIfs PROVE Tokens(i)'
<1>1. CASE i # j
  <2>1. wire'[i] = wire[i] /\ rpc'[i] = rpc[i] /\ (busReq' = busReq \/ busReq'[i] = busReq[i])
    BY <1>1, SteadyTypes DEF RecvStep, TakeToken, BusRead, SpiReadIdle, UartRead, DbgDump,
       Reject, Notify, Discard, Admit, Send, Consume, devVars
  <2> QED BY <2>1, SteadyTypes DEF Tokens
<1> SUFFICES ASSUME i = j PROVE Tokens(i)' BY <1>1
<1>2. CASE TakeToken(i)
  <2>1. /\ busReq[i] \in Nat /\ busReq[i] > 0 /\ busReq'[i] = busReq[i] - 1
        /\ rpc[i] = "wait" /\ rpc'[i] = "read" /\ wire' = wire
    BY <1>2, SteadyTypes DEF TakeToken, devVars
  <2>2. Len(wire[i]) = busReq[i] BY <2>1, SteadyTypes DEF Tokens
  <2> QED BY <2>1, <2>2 DEF Tokens
<1>3. CASE BusRead(i)
  <2>1. /\ wire[i] \in Seq(Frame) /\ wire[i] # <<>> /\ wire'[i] = Tail(wire[i])
        /\ rpc[i] = "read" /\ rpc'[i] = "got" /\ busReq' = busReq
    BY <1>3, SteadyTypes DEF BusRead
  <2>2. Len(wire[i]) = busReq[i] + 1 /\ busReq[i] \in Nat BY <2>1, SteadyTypes DEF Tokens
  <2>3. Len(wire'[i]) = Len(wire[i]) - 1 BY <2>1, HeadTailProperties
  <2> QED BY <2>1, <2>2, <2>3 DEF Tokens
<1>4. ~SpiReadIdle(i)
  <2> SUFFICES ASSUME SpiReadIdle(i) PROVE FALSE OBVIOUS
  <2>1. Len(wire[i]) = 0 /\ rpc[i] = "read" BY EmptySeq DEF SpiReadIdle
  <2>2. busReq[i] \in Nat BY SteadyTypes
  <2> QED BY <2>1, <2>2, SteadyTypes DEF Tokens
<1>5. ~UartRead(i) /\ ~DbgDump(i)
  BY SteadyTypes DEF UartRead, DbgDump, SteadyInv
<1>6. CASE Reject(i) \/ Notify(i) \/ Discard(i) \/ Admit(i) \/ Send(i)
  <2>1. /\ busReq' = busReq /\ rpc[i] \in {"got", "send"} /\ i # "UART"
    BY <1>6, SteadyTypes DEF Reject, Notify, Discard, Admit, Send
  <2>2. rpc'[i] \in {"wait", "send"}
    BY <1>6, <2>1, SteadyTypes DEF Reject, Notify, Discard, Admit, Send, Consume, Fetching
  <2>3. wire'[i] = wire[i]
    BY <1>6, <2>1 DEF Reject, Notify, Discard, Admit, Send, devVars
  <2> QED BY <2>1, <2>2, <2>3, TokensQuiet
<1> QED BY <1>2, <1>3, <1>4, <1>5, <1>6 DEF RecvStep

LEMMA TokensDevice ==
  ASSUME SteadyInv, inited, NEW j \in Ifs, j \in {"UART", hifType}, Device(j), NEW i \in BusIfs
  PROVE  Tokens(i)'
<1>1. PICK k, c : Emit(j, k, c) BY DEF Device, Respond, Noise
<1>2. rpc' = rpc /\ (j \in BusIfs <=> j # "UART") BY <1>1 DEF Emit, recvVars, BusIfs
<1>3. CASE j = "UART" \/ i # j
  <2>1. wire'[i] = wire[i] BY <1>1, <1>3, SteadyTypes DEF Emit
  <2>2. busReq'[i] = busReq[i] BY <1>1, <1>2, <1>3, SteadyTypes DEF Emit, Pulse
  <2> QED BY <1>2, <2>1, <2>2, SteadyTypes DEF Tokens
<1>4. CASE j # "UART" /\ i = j
  <2>1. PICK f : wire' = [wire EXCEPT ![i] = Append(@, f)]
    BY <1>1, <1>4 DEF Emit
  <2>2. wire'[i] = Append(wire[i], f) /\ wire[i] \in Seq(Frame) BY <2>1, SteadyTypes
  <2>3. Len(wire'[i]) = Len(wire[i]) + 1 BY <2>2
  <2>4. busReq'[i] = busReq[i] + 1 /\ busReq[i] \in Nat
    BY <1>1, <1>2, <1>4, SteadyTypes DEF Emit, Pulse
  <2> QED BY <1>2, <2>3, <2>4, SteadyTypes DEF Tokens
<1> QED BY <1>3, <1>4

LEMMA SteadyStep == SteadyInv /\ [SteadyNext]_vars => SteadyInv'
<1> SUFFICES ASSUME SteadyInv, [SteadyNext]_vars PROVE SteadyInv' OBVIOUS
<1>1. BufInv' BY SteadySteps, BufStep DEF SteadyInv
<1>2. \A i \in Ifs : ~dbgRecv'[i]
  <2>1. dbgRecv' = dbgRecv
    BY DEF SteadyNext, MainStep, WriteHeader, BodyRefused, WriteOk, SetWait, ApplyConf,
       EvtTimeout, Pop, PopTimeout, SetIdle, Call, CmdInit, RecvStep, TakeToken, BusRead,
       SpiReadIdle, UartRead, DbgDump, Reject, Notify, Discard, Admit, Send, Device, Respond,
       Noise, Emit, setVars, vars
  <2> QED BY <2>1 DEF SteadyInv
<1>3. TokensMatchFrames'
  <2>1. ASSUME NEW i \in BusIfs PROVE Tokens(i)'
    <3>1. CASE UNCHANGED vars BY <3>1, TokensQuiet DEF vars
    <3> QED BY <3>1, TokensHost, TokensRecv, TokensDevice DEF SteadyNext
  <2> QED BY <2>1 DEF TokensMatchFrames, Tokens
<1> QED BY <1>1, <1>2, <1>3 DEF SteadyInv

\* While no task is replaced and the device keeps to the selected bus, the
\* semaphore that bus_req_handler posts counts the frames that wait, so that
\* i2c_recv_task and spi_recv_task neither sleep on one nor read where there is
\* none (bus_req_wait_i2c, bus_req_wait_spi).
THEOREM TokensCounted == SteadySpec => []TokensMatchFrames
<1>1. Init => SteadyInv
  <2> SUFFICES ASSUME Init PROVE TokensMatchFrames /\ \A i \in Ifs : ~dbgRecv[i]
    BY BufInit DEF SteadyInv
  <2>1. Len(<<>>) = 0 BY EmptySeq
  <2> QED BY <2>1 DEF Init, TokensMatchFrames, BusIfs
<1>2. SteadyInv => TokensMatchFrames BY DEF SteadyInv
<1> QED BY <1>1, <1>2, SteadyStep, PTL DEF SteadySpec
=============================================================================
