--------------------------- MODULE TransferProof ---------------------------
(***************************************************************************)
(* Transfer for every set of file and division sizes and every width of    *)
(* the packet fields.  The argument: after k packets min(k * part, size)   *)
(* bytes are sent (Done), and Packets(size, part) is the least k for which *)
(* that is the file (PacketsCover).                                        *)
(***************************************************************************)
EXTENDS Transfer, TLAPS

-----------------------------------------------------------------------------
(* Arithmetic.                                                             *)

LEMMA MulZero ==
  ASSUME NEW x \in Nat
  PROVE  0 * x = 0
  OBVIOUS

LEMMA MulMonotone ==
  ASSUME NEW a \in Nat, NEW b \in Nat, NEW d \in Nat, a <= b
  PROVE  a * d <= b * d
<1>1. b * d = a * d + (b - a) * d
  OBVIOUS
<1>2. (b - a) \in Nat
  OBVIOUS
<1>3. (b - a) * d \in Nat
  BY <1>2
<1>4. a * d \in Nat /\ b * d \in Nat
  OBVIOUS
<1> QED BY <1>1, <1>3, <1>4

LEMMA DivType ==
  ASSUME NEW n \in Nat, NEW d \in Nat \ {0}
  PROVE  n \div d \in Nat /\ n % d \in 0 .. d - 1
<1>1. n \div d \in Nat
  OBVIOUS
<1>2. n % d \in 0 .. d - 1
  OBVIOUS
<1> QED BY <1>1, <1>2

\* The quotient and the remainder have names here: the provers know them as
\* terms of their own only so.
LEMMA DivMod ==
  ASSUME NEW n \in Nat, NEW d \in Nat \ {0},
         NEW q \in Int, q = n \div d, NEW r \in Int, r = n % d
  PROVE  n = q * d + r
  OBVIOUS

LEMMA LowType ==
  ASSUME NEW n \in Nat, NEW w \in Nat \ {0}
  PROVE  Low(n, w) \in Nat /\ Low(n, w) < w
<1>1. n % w \in 0 .. w - 1
  BY DivType
<1> QED BY <1>1 DEF Low

LEMMA PacketsType ==
  ASSUME NEW n \in Nat, NEW d \in Nat
  PROVE  Packets(n, d) \in Nat
<1>1. CASE d = 0
  BY <1>1 DEF Packets
<1>2. CASE d # 0
  <2>1. n \div d \in Nat
    BY <1>2, DivType
  <2> QED BY <1>2, <2>1 DEF Packets
<1> QED BY <1>1, <1>2

\* Packets(n, d) is the least number of packets of d bytes that hold n bytes.
LEMMA PacketsCover ==
  ASSUME NEW n \in Nat, NEW d \in Nat \ {0}, NEW k \in Nat
  PROVE  n <= k * d <=> Packets(n, d) <= k
<1> DEFINE q == n \div d
           r == n % d
<1>1. q \in Nat /\ r \in 0 .. d - 1 /\ q = n \div d /\ r = n % d
  BY DivType
<1>2. Packets(n, d) = IF r = 0 THEN q ELSE q + 1
  BY DEF Packets
<1> HIDE DEF q, r
<1>3. n = q * d + r
  <2>1. q \in Int /\ r \in Int
    BY <1>1
  <2> QED BY <1>1, <2>1, DivMod
<1>4. k * d \in Nat /\ q * d \in Nat
  BY <1>1
<1>5. CASE k < q
  <2>1. (k + 1) * d <= q * d
    BY <1>1, <1>5, MulMonotone
  <2>2. (k + 1) * d = k * d + d
    OBVIOUS
  <2>3. k * d < n
    BY <1>1, <1>3, <1>4, <2>1, <2>2
  <2> QED BY <1>1, <1>2, <1>4, <1>5, <2>3
<1>6. CASE k = q
  <2>1. k * d = q * d
    BY <1>6
  <2> QED BY <1>1, <1>2, <1>3, <1>4, <1>6, <2>1
<1>7. CASE k > q
  <2>1. (q + 1) * d <= k * d
    BY <1>1, <1>7, MulMonotone
  <2>2. (q + 1) * d = q * d + d
    BY <1>1
  <2>3. n <= k * d
    BY <1>1, <1>3, <1>4, <2>1, <2>2
  <2> QED BY <1>1, <1>2, <1>4, <1>7, <2>3
<1> QED BY <1>1, <1>5, <1>6, <1>7

LEMMA LoopNumType ==
  ASSUME NEW c, NEW n \in Nat, NEW d \in Nat, NEW over \in BOOLEAN
  PROVE  LoopNum(c, n, d, over) \in Nat
<1>1. Packets(n, d) \in Nat
  BY PacketsType
<1>2. Low(Packets(n, d), Word) \in Nat
  BY <1>1, LowType, WidthAssumption
<1> QED BY <1>1, <1>2 DEF LoopNum

LEMMA DivisionType ==
  ASSUME TypeOK, NEW c \in Cmds, NEW d \in Division(c)
  PROVE  d \in Nat
  BY WidthAssumption, SizeAssumption, BinDivAssumption DEF TypeOK, Cmds, Division

-----------------------------------------------------------------------------
(* Types.                                                                  *)

\* A packet is under way only in the loop.
Running == pc \in {"packet", "pop"} => i < loopNum

TypeInv == TypeOK /\ Running

LEMMA NextLenType ==
  ASSUME TypeOK
  PROVE  NextLen \in Nat /\ total + NextLen <= size /\ NextLen <= size
  BY DEF TypeOK, NextLen

LEMMA TypeStep == TypeInv /\ [Next]_vars => TypeInv'
<1> SUFFICES ASSUME TypeInv, [Next]_vars PROVE TypeInv'
  OBVIOUS
<1> USE DEF callVars, devVars, TypeInv, Running
<1>1. CASE SetDivisionSize
  BY <1>1, SizeAssumption DEF SetDivisionSize, TypeOK
<1>2. CASE Call
  <2>1. size' \in Nat /\ part' \in Nat /\ cmd' \in Cmds
    BY <1>2, SizeAssumption, DivisionType DEF Call
  <2>2. loopNum' \in Nat
    BY <1>2, <2>1, LoopNumType DEF Call
  <2>3. late' \in BOOLEAN /\ ret' \in {"unset", "ok", "error"} /\ refused' \in BOOLEAN
    BY <1>2 DEF Call
  <2>4. /\ i' = 0 /\ total' = 0 /\ pktLen' = 0 /\ out' = 0 /\ pc' = "loop"
        /\ UNCHANGED <<div, echoes, air>>
    BY <1>2 DEF Call
  <2> QED BY <2>1, <2>2, <2>3, <2>4 DEF TypeOK, Pcs
<1>3. CASE CallFails
  BY <1>3 DEF CallFails, TypeOK
<1>4. CASE DivisionTraps
  BY <1>4 DEF DivisionTraps, TypeOK, Pcs
<1>5. CASE ReadFail
  BY <1>5 DEF ReadFail, TypeOK, Pcs
<1>6. CASE BuildPacket
  BY <1>6, NextLenType DEF BuildPacket, TypeOK, Pcs
<1>7. CASE Refuse
  BY <1>7 DEF Refuse, TypeOK, Pcs
<1>8. CASE Transmit
  <2>1. air' \in Seq(Answers) /\ Len(air') <= MaxAnswers
    <3>1. CASE UNCHANGED air
      BY <3>1 DEF TypeOK
    <3>2. CASE Len(air) < MaxAnswers
               /\ \E took \in BOOLEAN : \E a \in Replies(took) : air' = Append(air, a)
      <4>1. PICK took \in BOOLEAN : \E a \in Replies(took) : air' = Append(air, a)
        BY <3>2
      <4>2. PICK a \in Replies(took) : air' = Append(air, a)
        BY <4>1
      <4>3. a \in Answers
        BY <4>2 DEF Replies, Answers, Opc
      <4> QED BY <3>2, <4>2, <4>3, AnswerAssumption DEF TypeOK
    <3> QED BY <1>8, <3>1, <3>2 DEF Transmit
  <2>2. out' \in 0 .. size /\ refused' \in BOOLEAN
    BY <1>8 DEF Transmit, TypeOK
  <2> QED BY <1>8, <2>1, <2>2 DEF Transmit, TypeOK, Pcs
<1>9. CASE Timeout
  BY <1>9 DEF Timeout, TypeOK, Pcs
<1>10. CASE Pop
  <2>1. PICK k \in 1 .. Len(air) : air' = SubSeq(air, k + 1, Len(air))
    BY <1>10 DEF Pop
  <2>2. air' \in Seq(Answers) /\ Len(air') <= MaxAnswers
    BY <2>1, AnswerAssumption DEF TypeOK
  <2> QED BY <1>10, <2>2 DEF Pop, TypeOK, Pcs
<1>11. CASE Return
  BY <1>11 DEF Return, TypeOK, Pcs
<1>12. CASE UNCHANGED vars
  BY <1>12 DEF vars, TypeOK
<1> HIDE DEF callVars, devVars, TypeInv, Running
<1> QED
  BY <1>1, <1>2, <1>3, <1>4, <1>5, <1>6, <1>7, <1>8, <1>9, <1>10, <1>11, <1>12
     DEF Next
LEMMA TypeInit == Init => TypeInv
<1> SUFFICES ASSUME Init PROVE TypeInv
  OBVIOUS
<1>1. div \in 0 .. Word - 1 /\ echoes \in BOOLEAN
  BY SizeAssumption DEF Init
<1>2. air \in Seq(Answers) /\ Len(air) <= MaxAnswers
  BY AnswerAssumption DEF Init
<1>3. /\ size = 0 /\ part = 1 /\ loopNum = 0 /\ i = 0 /\ total = 0 /\ pktLen = 0
      /\ out = 0
  BY DEF Init
<1>4. /\ pc \in Pcs /\ pc = "idle" /\ cmd \in Cmds /\ ret \in {"unset", "ok", "error"}
      /\ refused \in BOOLEAN /\ late \in BOOLEAN
  BY DEF Init, Pcs, Cmds
<1>5. TypeOK
  BY <1>1, <1>2, <1>3, <1>4 DEF TypeOK
<1>6. Running
  BY <1>4 DEF Running
<1> QED BY <1>5, <1>6 DEF TypeInv

\* Every variable of Transfer keeps its type; no packet is longer than what is
\* left of the file, and no more are sent than were counted.
THEOREM TypeCorrect == Spec => []TypeOK
<1>1. TypeInv => TypeOK
  BY DEF TypeInv
<1> QED BY <1>1, TypeInit, TypeStep, PTL DEF Spec

-----------------------------------------------------------------------------
(* Bytes.                                                                  *)

\* Bytes of the file that k packets hold.
Done(k) == IF k * part < size THEN k * part ELSE size

LEMMA DoneStep ==
  ASSUME TypeOK, NEW k \in Nat, total = Done(k)
  PROVE  total + NextLen = Done(k + 1)
<1>1. (k + 1) * part = k * part + part
  BY DEF TypeOK
<1>2. k * part \in Nat /\ (k + 1) * part \in Nat /\ part \in Nat /\ size \in Nat
  BY DEF TypeOK
<1> QED BY <1>1, <1>2 DEF Done, NextLen

\* Where the command is, and what is sent by then.
Sent ==
  /\ pc = "loop" => total = Done(i) /\ out = total
  /\ pc = "packet" => total = Done(i + 1) /\ out = total - pktLen
  /\ pc = "pop" => total = Done(i + 1) /\ out = total
  /\ pc = "idle" /\ ret # "error" => out = Done(loopNum)

\* ret has a value after the first packet, and that of a failure nowhere in the
\* loop.
Returns ==
  /\ pc \in {"loop", "packet", "pop"} => ret # "error"
  /\ pc # "crashed" /\ ret = "unset" => i = 0
  /\ pc = "idle" /\ ret = "unset" => loopNum = 0

\* The number of packets is that of the file, or one that DBGTXFW makes of it.
Counted ==
  /\ cmd # "DBGTXFW" => loopNum = Packets(size, part)
  /\ cmd = "DBGTXFW" /\ Packets(size, part) < Word => loopNum >= Packets(size, part)

CopyInv == TypeInv /\ Sent /\ Returns /\ Counted

LEMMA CopyInit == Init => CopyInv
<1> SUFFICES ASSUME Init PROVE CopyInv
  OBVIOUS
<1>1. TypeInv
  BY TypeInit
<1>2. Sent /\ Returns
  BY DEF Init, Sent, Returns
<1>3. Packets(0, 1) = 0
  <2>1. 0 <= 0 * 1
    OBVIOUS
  <2> QED BY <2>1, PacketsCover, PacketsType
<1> QED BY <1>1, <1>2, <1>3 DEF Init, CopyInv, Counted

LEMMA CountedStep == CopyInv /\ [Next]_vars => Counted'
<1> SUFFICES ASSUME CopyInv, [Next]_vars PROVE Counted'
  OBVIOUS
<1>1. CASE Call
  <2>1. PICK over \in BOOLEAN : loopNum' = LoopNum(cmd', size', part', over)
    BY <1>1 DEF Call
  <2>2. size' \in Nat /\ part' \in Nat
    BY <1>1, SizeAssumption, DivisionType DEF Call, CopyInv, TypeInv
  <2>3. Packets(size', part') \in Nat
    BY <2>2, PacketsType
  <2> QED BY <2>1, <2>3, WidthAssumption DEF LoopNum, Low, Counted
<1>2. CASE UNCHANGED callVars
  BY <1>2 DEF callVars, CopyInv, Counted
<1> QED
  BY <1>1, <1>2 DEF Next, SetDivisionSize, CallFails, DivisionTraps, ReadFail,
     BuildPacket, Refuse, Transmit, Timeout, Pop, Return, vars, callVars

LEMMA ReturnsStep == CopyInv /\ [Next]_vars => Returns'
<1> SUFFICES ASSUME CopyInv, [Next]_vars PROVE Returns'
  OBVIOUS
<1> USE DEF CopyInv, Returns, callVars, devVars
<1>1. CASE SetDivisionSize BY <1>1 DEF SetDivisionSize
<1>2. CASE Call BY <1>2 DEF Call
<1>3. CASE CallFails BY <1>3 DEF CallFails
<1>4. CASE DivisionTraps BY <1>4 DEF DivisionTraps
<1>5. CASE ReadFail BY <1>5 DEF ReadFail
<1>6. CASE BuildPacket BY <1>6 DEF BuildPacket
<1>7. CASE Refuse BY <1>7 DEF Refuse
<1>8. CASE Transmit BY <1>8 DEF Transmit
<1>9. CASE Timeout BY <1>9 DEF Timeout
<1>10. CASE Pop BY <1>10 DEF Pop
<1>11. CASE Return BY <1>11 DEF Return
<1>12. CASE UNCHANGED vars BY <1>12 DEF vars
<1> HIDE DEF CopyInv, Returns, callVars, devVars
<1> QED
  BY <1>1, <1>2, <1>3, <1>4, <1>5, <1>6, <1>7, <1>8, <1>9, <1>10, <1>11, <1>12
     DEF Next

LEMMA SentStep == CopyInv /\ [Next]_vars => Sent'
<1> SUFFICES ASSUME CopyInv, [Next]_vars PROVE Sent'
  OBVIOUS
<1> USE DEF CopyInv, Sent, callVars, devVars
<1>1. CASE SetDivisionSize BY <1>1 DEF SetDivisionSize, Done
<1>2. CASE Call
  <2>1. size' \in Nat /\ part' \in Nat
    BY <1>2, SizeAssumption, DivisionType DEF Call, TypeInv
  <2>2. Done(0)' = 0
    <3> DEFINE none == 0 * part'
    <3>1. none = 0
      BY <2>1, MulZero
    <3>2. Done(0)' = IF none < size' THEN none ELSE size'
      BY DEF Done
    <3> HIDE DEF none
    <3> QED BY <2>1, <3>1, <3>2
  <2>3. i' = 0 /\ total' = 0 /\ out' = 0 /\ pc' = "loop"
    BY <1>2 DEF Call
  <2>4. Done(i)' = Done(0)'
    BY <2>3 DEF Done
  <2> QED BY <2>2, <2>3, <2>4
<1>3. CASE CallFails BY <1>3 DEF CallFails
<1>4. CASE DivisionTraps BY <1>4 DEF DivisionTraps
<1>5. CASE ReadFail BY <1>5 DEF ReadFail
<1>6. CASE BuildPacket
  <2>1. i \in Nat /\ total \in Nat /\ NextLen \in Nat
    BY NextLenType DEF TypeOK, TypeInv
  <2>2. total' = Done(i + 1)
    BY <1>6, <2>1, DoneStep DEF BuildPacket, TypeInv
  <2>3. Done(i + 1)' = Done(i + 1)
    BY <1>6 DEF BuildPacket, Done
  <2>4. out' = total' - pktLen'
    BY <1>6, <2>1 DEF BuildPacket
  <2> QED BY <1>6, <2>2, <2>3, <2>4 DEF BuildPacket
<1>7. CASE Refuse BY <1>7 DEF Refuse
<1>8. CASE Transmit
  <2>1. Done(i + 1)' = Done(i + 1)
    BY <1>8 DEF Transmit, Done
  <2> QED BY <1>8, <2>1 DEF Transmit
<1>9. CASE Timeout BY <1>9 DEF Timeout
<1>10. CASE Pop
  <2>1. CASE pc' = "loop" /\ i' = i + 1
    <3>1. Done(i)' = Done(i + 1)
      BY <1>10, <2>1 DEF Pop, Done
    <3> QED BY <1>10, <2>1, <3>1 DEF Pop
  <2>2. CASE pc' = "idle" /\ ret' = "error"
    BY <2>2
  <2> QED BY <1>10, <2>1, <2>2 DEF Pop
<1>11. CASE Return
  <2>1. Done(loopNum)' = Done(i)
    BY <1>11 DEF Return, Done
  <2> QED BY <1>11, <2>1 DEF Return
<1>12. CASE UNCHANGED vars BY <1>12 DEF vars, Done
<1> HIDE DEF CopyInv, Sent, callVars, devVars
<1> QED
  BY <1>1, <1>2, <1>3, <1>4, <1>5, <1>6, <1>7, <1>8, <1>9, <1>10, <1>11, <1>12
     DEF Next

LEMMA CopyAlways == Spec => []CopyInv
<1>1. CopyInv /\ [Next]_vars => CopyInv'
  BY TypeStep, SentStep, ReturnsStep, CountedStep DEF CopyInv
<1> QED BY <1>1, CopyInit, PTL DEF Spec

\* Done is the file exactly from its number of packets on.
LEMMA DoneAll ==
  ASSUME TypeOK, part # 0, NEW k \in Nat
  PROVE  Done(k) = size <=> Packets(size, part) <= k
<1>1. part \in Nat \ {0} /\ size \in Nat /\ k * part \in Nat
  BY DEF TypeOK
<1>2. size <= k * part <=> Packets(size, part) <= k
  BY <1>1, PacketsCover
<1> QED BY <1>1, <1>2 DEF Done

\* A transfer that completes has sent the whole file, for every file size and
\* division size.
THEOREM CompletedCopies == Spec => []CompletedMeansCopied
<1>1. CopyInv => CompletedMeansCopied
  <2> SUFFICES ASSUME CopyInv, pc = "idle", ret = "ok", part # 0, ~Truncated
               PROVE  out = size
    BY DEF CompletedMeansCopied
  <2>1. TypeOK /\ loopNum \in Nat
    BY DEF CopyInv, TypeInv, TypeOK
  <2>2. out = Done(loopNum)
    BY DEF CopyInv, Sent
  <2>3. Packets(size, part) \in Nat
    BY <2>1, PacketsType DEF TypeOK
  <2>4. Packets(size, part) <= loopNum
    BY <2>1, <2>3, WidthAssumption DEF CopyInv, Counted, Truncated
  <2> QED BY <2>1, <2>2, <2>4, DoneAll
<1> QED BY <1>1, CopyAlways, PTL

\* The last packet is known by its number, whenever the total fits its field.
THEOREM EndMarked == Spec => []EndIsMarked
<1>1. CopyInv => EndIsMarked
  <2> SUFFICES ASSUME CopyInv, pc = "pop", cmd # "DBGTXFW", part # 0,
                      TotalPktNum = loopNum
               PROVE  PktNum = TotalPktNum <=> total = size
    BY DEF EndIsMarked
  <2>1. TypeOK /\ i \in Nat /\ loopNum \in Nat /\ i < loopNum
    BY DEF CopyInv, TypeInv, TypeOK, Running
  <2>2. total = Done(i + 1) /\ loopNum = Packets(size, part)
    BY DEF CopyInv, Sent, Counted
  <2>3. total = size <=> loopNum <= i + 1
    BY <2>1, <2>2, DoneAll
  <2>4. loopNum < FieldWidth
    BY <2>1, LowType, WidthAssumption DEF TotalPktNum, FieldWidth
  <2>5. PktNum = i + 1
    BY <2>1, <2>4, WidthAssumption DEF PktNum, FieldWidth, Low
  <2> QED BY <2>1, <2>3, <2>5
<1> QED BY <1>1, CopyAlways, PTL

-----------------------------------------------------------------------------
(* Answers.                                                                *)

\* Unless an answer was on its way when the command began, there is none but
\* to the packet it waits for, and every packet before that one was taken.
AnswerInv ==
  /\ ~late /\ pc \in {"loop", "packet"} => Len(air) = 0
  /\ ~late /\ pc = "pop" => Len(air) <= 1
  /\ ~late /\ pc = "pop" /\ Len(air) = 1 /\ echoes => air[1].opc = Opc(cmd)
  /\ ~late /\ cmd # "BININPUT" =>
       /\ pc \in {"loop", "packet"} => ~refused
       /\ pc = "pop" /\ Len(air) = 1 /\ air[1].taken => ~refused
       /\ pc = "idle" /\ ret = "ok" => ~refused
  /\ ~late /\ cmd = "TXFW" /\ echoes => ret # "ok"

LEMMA AnswerStep == TypeInv /\ AnswerInv /\ [Next]_vars => AnswerInv'
<1> SUFFICES ASSUME TypeInv, AnswerInv, [Next]_vars PROVE AnswerInv'
  OBVIOUS
<1>0. air \in Seq(Answers) /\ refused \in BOOLEAN /\ late \in BOOLEAN
  BY DEF TypeInv, TypeOK
<1> USE DEF AnswerInv, callVars, devVars
<1>1. CASE SetDivisionSize BY <1>1 DEF SetDivisionSize
<1>2. CASE Call
  <2>1. ~late' => Len(air') = 0
    BY <1>0, <1>2 DEF Call
  <2>2. pc' = "loop" /\ ret' = "unset" /\ refused' = FALSE
    BY <1>2 DEF Call
  <2> QED BY <2>1, <2>2
<1>3. CASE CallFails BY <1>3 DEF CallFails
<1>4. CASE DivisionTraps BY <1>4 DEF DivisionTraps
<1>5. CASE ReadFail BY <1>5 DEF ReadFail
<1>6. CASE BuildPacket BY <1>6 DEF BuildPacket
<1>7. CASE Refuse BY <1>7 DEF Refuse
<1>8. CASE Transmit
  <2>1. PICK took \in BOOLEAN :
          /\ refused' = (refused \/ ~took)
          /\ \/ UNCHANGED air
             \/ Len(air) < MaxAnswers /\ \E a \in Replies(took) : air' = Append(air, a)
    BY <1>8 DEF Transmit
  <2>2. pc = "packet" /\ pc' = "pop" /\ UNCHANGED <<echoes, cmd, late, ret>>
    BY <1>8 DEF Transmit
  <2>3. CASE UNCHANGED air
    BY <2>2, <2>3
  <2>4. CASE \E a \in Replies(took) : air' = Append(air, a)
    <3>1. PICK a \in Replies(took) : air' = Append(air, a)
      BY <2>4
    <3>2. a \in Answers /\ a.taken = took /\ (echoes => a.opc = Opc(cmd))
      BY <3>1 DEF Replies, Answers, Opc
    <3>3. ~late => Len(air') = 1 /\ air'[1] = a
      BY <1>0, <2>2, <3>1, <3>2
    <3>4. ~late /\ cmd # "BININPUT" /\ took => ~refused'
      BY <2>1, <2>2
    <3>5. Opc(cmd)' = Opc(cmd)
      BY <2>2 DEF Opc
    <3>6. CASE late
      BY <2>2, <3>6
    <3>7. CASE ~late
      <4>1. Len(air') = 1 /\ air'[1].taken = took /\ (echoes' => air'[1].opc = Opc(cmd)')
        BY <2>2, <3>2, <3>3, <3>5, <3>7
      <4>2. cmd' # "BININPUT" /\ air'[1].taken => ~refused'
        BY <2>2, <3>4, <3>7, <4>1
      <4> HIDE DEF Opc
      <4> QED BY <2>2, <3>7, <4>1, <4>2
    <3> QED BY <3>6, <3>7
  <2> QED BY <2>1, <2>3, <2>4
<1>9. CASE Timeout BY <1>9 DEF Timeout
<1>10. CASE Pop
  <2>1. PICK k \in 1 .. Len(air) :
          /\ air' = SubSeq(air, k + 1, Len(air))
          /\ IF cmd = "BININPUT" \/ ResCheck(air[k])
             THEN ret' = "ok" /\ pc' = "loop" /\ i' = i + 1
             ELSE ret' = "error" /\ pc' = "idle" /\ UNCHANGED i
    BY <1>10 DEF Pop
  <2>2. pc = "pop" /\ UNCHANGED <<echoes, cmd, late, refused>>
    BY <1>10 DEF Pop
  <2>3. ~late => k = 1 /\ Len(air) = 1 /\ Len(air') = 0
    <3> SUFFICES ASSUME ~late PROVE k = 1 /\ Len(air) = 1 /\ Len(air') = 0
      OBVIOUS
    <3>1. Len(air) <= 1 /\ Len(air) \in Nat
      BY <1>0, <2>2
    <3>2. k = 1 /\ Len(air) = 1
      <4>1. k \in Nat /\ 1 <= k /\ k <= Len(air)
        BY <3>1
      <4> QED BY <3>1, <4>1
    <3>3. air' = SubSeq(air, 2, 1)
      BY <2>1, <3>2
    <3> QED BY <1>0, <3>2, <3>3
  <2>4. CASE cmd # "BININPUT" /\ ~ResCheck(air[k])
    BY <2>1, <2>2, <2>4
  <2>5. CASE cmd = "BININPUT"
    BY <2>1, <2>2, <2>3, <2>5
  <2>6. CASE cmd # "BININPUT" /\ ResCheck(air[k])
    <3>1. ~late => air[1].opc = TXFW_OPC /\ air[1].taken
      BY <2>3, <2>6 DEF ResCheck
    <3>2. ~late => ~refused
      BY <2>2, <2>3, <2>6, <3>1
    <3>3. ~late /\ cmd = "TXFW" => ~echoes
      BY <2>2, <2>3, <3>1 DEF Opc, TXFW_OPC, TX_BIN_OPC
    <3> QED BY <2>1, <2>2, <2>3, <2>6, <3>2, <3>3
  <2> QED BY <2>4, <2>5, <2>6
<1>11. CASE Return BY <1>11 DEF Return
<1>12. CASE UNCHANGED vars
  <2>1. Opc(cmd)' = Opc(cmd)
    BY <1>12 DEF vars, Opc
  <2> QED BY <1>12, <2>1 DEF vars
<1> HIDE DEF AnswerInv, callVars, devVars
<1> QED
  BY <1>1, <1>2, <1>3, <1>4, <1>5, <1>6, <1>7, <1>8, <1>9, <1>10, <1>11, <1>12
     DEF Next

LEMMA AnswersAlways == Spec => [](TypeInv /\ AnswerInv)
<1>1. Init => AnswerInv
  BY DEF Init, AnswerInv
<1> QED BY <1>1, TypeInit, TypeStep, AnswerStep, PTL DEF Spec

\* A firmware transfer that completes was taken packet by packet, unless it began
\* with an answer outstanding.
THEOREM CompletedAccepted == Spec => []CompletedMeansAccepted
<1>1. AnswerInv => CompletedMeansAccepted
  BY DEF AnswerInv, CompletedMeansAccepted
<1> QED BY <1>1, AnswersAlways, PTL

\* No TXFW completes with a device that echoes opcodes.
THEOREM EchoStops == Spec => []EchoStopsTransfer
<1>1. AnswerInv => EchoStopsTransfer
  BY DEF AnswerInv, EchoStopsTransfer
<1> QED BY <1>1, AnswersAlways, PTL

-----------------------------------------------------------------------------
(* Transfer implements FileCopy.                                           *)

LEMMA GoalType == TypeOK => Goal \in Nat /\ Goal <= size
<1> SUFFICES ASSUME TypeOK PROVE Goal \in Nat /\ Goal <= size
  OBVIOUS
<1>1. loopNum * part \in Nat /\ size \in Nat
  BY DEF TypeOK
<1> QED BY <1>1 DEF Goal

LEMMA MulNat == \A a, b \in Nat : a * b \in Nat
OBVIOUS

\* The goal changes only with the file and the packets it is cut into.
LEMMA GoalKept ==
  ASSUME UNCHANGED <<size, part, loopNum>> PROVE Goal' = Goal
BY Zenon DEF Goal

LEMMA ResultRunning ==
  ASSUME pc' \in {"loop", "packet", "pop"} PROVE Result' = "none"
BY DEF Result

\* What is sent within the loop is no more than what will be.
LEMMA DoneInGoal ==
  ASSUME TypeOK, NEW k \in Nat, k <= loopNum
  PROVE  Done(k) \in Nat /\ Done(k) <= Goal
<1>1. part \in Nat /\ loopNum \in Nat /\ size \in Nat
  BY DEF TypeOK
<1>2. k * part <= loopNum * part
  BY <1>1, MulMonotone
<1>3. k * part \in Nat /\ loopNum * part \in Nat
  BY <1>1
<1> QED BY <1>1, <1>2, <1>3 DEF Done, Goal

LEMMA CopyStep == CopyInv /\ CopyInv' /\ [Next]_vars => [Copy!Next]_(Copy!vars)
<1> SUFFICES ASSUME CopyInv, CopyInv', [Next]_vars PROVE [Copy!Next]_(Copy!vars)
  OBVIOUS
<1>0. TypeOK /\ TypeOK'
  BY DEF CopyInv, TypeInv
<1> USE DEF Copy!vars, Copy!Next
<1>1. CASE SetDivisionSize
  BY <1>1 DEF SetDivisionSize, callVars, devVars, Goal, Result
<1>2. CASE Call
  <2>1. Goal' \in 0 .. MaxSize
    <3>1. Goal' \in Nat /\ Goal' <= size'
      <4>1. loopNum' * part' \in Nat /\ size' \in Nat
        <5>1. loopNum' \in Nat /\ part' \in Nat /\ size' \in Nat
          BY <1>0 DEF TypeOK
        <5> QED BY <5>1, MulNat
      <4> QED BY <4>1 DEF Goal
    <3>2. size' \in 0 .. MaxSize
      BY <1>2, SizeAssumption DEF Call
    <3> QED BY <3>1, <3>2, SizeAssumption
  <2>2. Result # "none" /\ Result' = "none" /\ out' = 0
    <3>1. pc = "idle" /\ pc' = "loop" /\ out' = 0 /\ ret \in {"unset", "ok", "error"}
      BY <1>0, <1>2 DEF Call, TypeOK
    <3>2. Result # "none"
      BY <3>1 DEF Result
    <3> QED BY <3>1, <3>2, ResultRunning
  <2> QED BY <2>1, <2>2 DEF Copy!Start
<1>3. CASE CallFails
  BY <1>3 DEF CallFails, callVars, devVars, Goal, Result, Copy!Fail
<1>4. CASE DivisionTraps
  BY <1>4 DEF DivisionTraps, callVars, devVars, Goal, Result
<1>5. CASE ReadFail
  BY <1>5 DEF ReadFail, callVars, devVars, Goal, Result, Copy!Fail
<1>6. CASE BuildPacket
  BY <1>6 DEF BuildPacket, callVars, devVars, Goal, Result
<1>7. CASE Refuse
  BY <1>7 DEF Refuse, callVars, devVars, Goal, Result, Copy!Fail
<1>8. CASE Transmit
  <2>0. pc = "packet" /\ pc' = "pop" /\ UNCHANGED <<size, part, loopNum>>
    BY <1>8 DEF Transmit, callVars
  <2>1. Result = "none" /\ Result' = "none" /\ Goal' = Goal
    BY <2>0, GoalKept, ResultRunning DEF Result
  <2>2. out = total - pktLen /\ out' = total /\ pktLen \in Nat /\ total \in Nat
    BY <1>0, <1>8 DEF Transmit, CopyInv, Sent, TypeOK
  <2>3. total <= Goal
    <3>1. i + 1 \in Nat /\ i + 1 <= loopNum /\ total = Done(i + 1)
      BY <1>0, <1>8 DEF Transmit, CopyInv, TypeInv, Running, Sent, TypeOK
    <3> QED BY <1>0, <3>1, DoneInGoal
  <2>4. Goal \in Nat
    BY <1>0, GoalType
  <2>5. CASE pktLen = 0
    BY <2>1, <2>2, <2>5
  <2>6. CASE pktLen > 0
    <3>1. out' \in out + 1 .. Goal
      BY <2>2, <2>3, <2>4, <2>6
    <3> QED BY <2>1, <3>1 DEF Copy!Copy
  <2> QED BY <2>2, <2>5, <2>6
<1>9. CASE Timeout
  BY <1>9 DEF Timeout, callVars, devVars, Goal, Result, Copy!Fail
<1>10. CASE Pop
  <2>1. pc = "pop" /\ UNCHANGED <<size, part, loopNum, out>>
    BY <1>10 DEF Pop, callVars
  <2>2. Goal' = Goal /\ Result = "none"
    BY <2>1, GoalKept DEF Result
  <2>3. CASE pc' = "loop"
    <3>1. Result' = "none"
      BY <2>3, ResultRunning
    <3> QED BY <2>1, <2>2, <3>1
  <2>4. CASE pc' = "idle" /\ ret' = "error"
    <3>1. Result' = "failed"
      BY <2>4 DEF Result
    <3> QED BY <2>1, <2>2, <3>1 DEF Copy!Fail
  <2> QED BY <1>10, <2>3, <2>4 DEF Pop
<1>11. CASE Return
  <2>0. pc = "loop" /\ UNCHANGED <<size, part, loopNum, out>>
    BY <1>11 DEF Return, callVars, devVars
  <2>1. Result = "none" /\ Goal' = Goal /\ UNCHANGED out
    BY <2>0, GoalKept DEF Result
  <2>2. out = Goal
    BY <1>11 DEF Return, CopyInv, Sent, Done, Goal
  <2>3. ret # "error" /\ (ret = "unset" => i = 0)
    BY <1>11 DEF Return, CopyInv, Returns
  <2>4. ret = "unset" => Goal = 0
    <3> SUFFICES ASSUME ret = "unset" PROVE Goal = 0
      OBVIOUS
    <3> DEFINE none == loopNum * part
    <3>1. loopNum = 0 /\ part \in Nat /\ size \in Nat
      BY <1>0, <1>11, <2>3 DEF Return, TypeOK
    <3>2. none = 0
      BY <3>1, MulZero
    <3>3. Goal = IF none < size THEN none ELSE size
      BY DEF Goal
    <3> HIDE DEF none
    <3> QED BY <3>1, <3>2, <3>3
  <2>5. Result' = IF ret = "unset" THEN "unknown" ELSE "completed"
    BY <1>0, <1>11, <2>3 DEF Return, Result, TypeOK
  <2> QED BY <2>1, <2>2, <2>4, <2>5 DEF Copy!Finish
<1>12. CASE UNCHANGED vars
  BY <1>12 DEF vars, Goal, Result
<1> HIDE DEF Copy!vars, Copy!Next
<1> QED
  BY <1>1, <1>2, <1>3, <1>4, <1>5, <1>6, <1>7, <1>8, <1>9, <1>10, <1>11, <1>12
     DEF Next

\* Every command puts the file on the bus as FileCopy says, for all sizes.
THEOREM Implements == Spec => ImplementsCopy
<1>1. Init => Copy!Init
  <2> SUFFICES ASSUME Init PROVE Copy!Init
    OBVIOUS
  <2>1. Goal = 0
    BY DEF Init, Goal
  <2>2. Result = "failed" /\ out = 0
    BY DEF Init, Result
  <2> QED BY <2>1, <2>2 DEF Copy!Init
<1> QED BY <1>1, CopyStep, CopyAlways, PTL DEF Spec, ImplementsCopy, Copy!Spec
=============================================================================
