------------------------- MODULE UartReceiverProof --------------------------
(***************************************************************************)
(* Proofs about UartReceiver, for every size of header and buffer, set of  *)
(* operand lengths and length of stream.  What the driver holds is always  *)
(* the end of what has arrived; what the buffer holds is in order and in   *)
(* front of it; recv_stat and opr_len are those of the frame at the head.  *)
(***************************************************************************)
EXTENDS UartReceiver, TLAPS, SequenceTheorems

DrvInv ==
  /\ Len(drv) <= arrived
  /\ \A j \in 1 .. Len(drv) : drv[j] = arrived - Len(drv) + j

BufInv ==
  /\ next <= arrived - Len(drv) + 1
  /\ \A j \in 1 .. Len(buf) : next <= buf[j] /\ buf[j] <= arrived - Len(drv)
  /\ \A j, k \in 1 .. Len(buf) : j < k => buf[j] < buf[k]

\* recv_stat and opr_len belong to the frame at the head of the buffer.
HeadInv ==
  stat = "data" =>
    Len(buf) >= HeaderSize /\ HeaderOk /\ oprLen = stream[buf[1]].oprLen

\* What the task has left in the buffer when it reads.
RestInv ==
  pc # "check" =>
    /\ stat = "header" => Len(buf) < BufSz
    /\ stat = "data" => Len(buf) < FrameSize(oprLen) \/ Complete("res")

Inv == TypeOK /\ DrvInv /\ BufInv /\ HeadInv /\ RestInv

-----------------------------------------------------------------------------

LEMMA FrameSizeType ==
  ASSUME NEW n \in Nat
  PROVE  FrameSize(n) \in Nat /\ FrameSize(n) >= HeaderSize /\ FrameSize(n) >= 1
BY SizeAssumption DEF FrameSize

LEMMA FramesType ==
  ASSUME NEW f \in Frames PROVE f # Inside /\ f.oprLen \in Nat
<1>1. f.kind \in {"res", "evt", "badhdr", "baddata"} /\ f.oprLen \in OprLens
  BY DEF Frames
<1>2. Inside.kind = "inside"
  BY DEF Inside
<1> QED BY <1>1, <1>2, OprLensAssumption

\* Splitting a sequence of positions, and putting a part behind another.
LEMMA Split ==
  ASSUME NEW s \in Seq(Positions), NEW k \in 0 .. Len(s)
  PROVE  /\ SubSeq(s, 1, k) \in Seq(Positions) /\ Len(SubSeq(s, 1, k)) = k
         /\ \A j \in 1 .. k : SubSeq(s, 1, k)[j] = s[j]
         /\ SubSeq(s, k + 1, Len(s)) \in Seq(Positions)
         /\ Len(SubSeq(s, k + 1, Len(s))) = Len(s) - k
         /\ \A j \in 1 .. Len(s) - k : SubSeq(s, k + 1, Len(s))[j] = s[k + j]
<1>1. Len(s) \in Nat /\ k \in Nat
  OBVIOUS
<1>2. SubSeq(s, 1, k) \in Seq(Positions) /\ Len(SubSeq(s, 1, k)) = k
  BY <1>1, SubSeqProperties
<1>3. \A j \in 1 .. k : SubSeq(s, 1, k)[j] = s[j]
  BY <1>1, SubSeqProperties
<1>4. SubSeq(s, k + 1, Len(s)) \in Seq(Positions)
      /\ Len(SubSeq(s, k + 1, Len(s))) = Len(s) - k
  BY <1>1, SubSeqProperties
<1>5. \A j \in 1 .. Len(s) - k : SubSeq(s, k + 1, Len(s))[j] = s[k + j]
  BY <1>1, SubSeqProperties
<1> QED BY <1>2, <1>3, <1>4, <1>5

LEMMA Joined ==
  ASSUME NEW S, NEW s \in Seq(S), NEW t \in Seq(S)
  PROVE  /\ s \o t \in Seq(S) /\ Len(s \o t) = Len(s) + Len(t)
         /\ \A j \in 1 .. Len(s) : (s \o t)[j] = s[j]
         /\ \A j \in 1 .. Len(t) : (s \o t)[Len(s) + j] = t[j]
BY ConcatProperties

\* The stream with one more frame.
LEMMA Longer ==
  ASSUME TypeOK, NEW f \in Frames,
         stream' = stream \o
           [j \in 1 .. FrameSize(f.oprLen) |-> IF j = 1 THEN f ELSE Inside]
  PROVE  /\ stream' \in Seq(Frames \cup {Inside})
         /\ Len(stream') = Len(stream) + FrameSize(f.oprLen)
         /\ \A p \in 1 .. Len(stream) : stream'[p] = stream[p]
         /\ stream'[Len(stream) + 1] = f
         /\ \A p \in Len(stream) + 2 .. Len(stream') : stream'[p] = Inside
<1> DEFINE n == FrameSize(f.oprLen)
           t == [j \in 1 .. n |-> IF j = 1 THEN f ELSE Inside]
           S == Frames \cup {Inside}
<1>1. n \in Nat /\ n >= 1
  BY FramesType, FrameSizeType
<1>2. stream' = stream \o t
  OBVIOUS
<1>3. stream \in Seq(S) /\ f \in S /\ Inside \in S
  BY DEF TypeOK
<1> HIDE DEF n, S
<1>4. t \in Seq(S) /\ Len(t) = n
  <2>1. t \in [1 .. n -> S]
    BY <1>3
  <2> QED BY <1>1, <2>1
<1>5. t[1] = f /\ \A j \in 2 .. n : t[j] = Inside
  BY <1>1
<1> HIDE DEF t
<1> DEFINE m == Len(stream)
<1>6. m \in Nat
  BY <1>3
<1>7. stream' \in Seq(S) /\ Len(stream') = m + n
  BY <1>2, <1>3, <1>4, Joined
<1>8. \A p \in 1 .. m : stream'[p] = stream[p]
  BY <1>2, <1>3, <1>4, Joined
<1>9. \A j \in 1 .. n : stream'[m + j] = t[j]
  <2>1. \A j \in 1 .. Len(t) : (stream \o t)[Len(stream) + j] = t[j]
    BY <1>3, <1>4, Joined
  <2> QED BY <1>2, <1>4, <2>1
<1> HIDE DEF m
<1>10. stream'[m + 1] = f
  <2>1. 1 \in 1 .. n
    BY <1>1
  <2> QED BY <1>5, <1>9, <2>1
<1>11. ASSUME NEW p \in m + 2 .. m + n PROVE stream'[p] = Inside
  <2>1. p - m \in 2 .. n /\ p - m \in 1 .. n /\ p = m + (p - m)
    BY <1>1, <1>6
  <2>2. t[p - m] = Inside /\ stream'[m + (p - m)] = t[p - m]
    BY <1>5, <1>9, <2>1
  <2> QED BY <2>1, <2>2
<1> QED BY <1>7, <1>8, <1>10, <1>11 DEF m, n, S

-----------------------------------------------------------------------------
(* Inv holds at first, and every step keeps it.                            *)

LEMMA InvInit == Init => Inv
BY SizeAssumption, StreamAssumption
   DEF Init, Inv, TypeOK, DrvInv, BufInv, HeadInv, RestInv, Reading, Positions

\* What the invariant says of numbers.
LEMMA Numbers ==
  ASSUME Inv
  PROVE  /\ Len(buf) \in Nat /\ Len(drv) \in Nat /\ arrived \in Nat /\ Len(stream) \in Nat
         /\ next \in Nat /\ next >= 1
         /\ Len(drv) <= arrived /\ arrived <= Len(stream) /\ next <= arrived - Len(drv) + 1
         /\ \A j \in 1 .. Len(buf) :
              buf[j] \in Nat /\ next <= buf[j] /\ buf[j] <= arrived - Len(drv)
<1>1. Len(buf) \in Nat /\ Len(drv) \in Nat /\ Len(stream) \in Nat
  BY DEF Inv, TypeOK
<1>2. arrived \in Nat /\ arrived <= Len(stream) /\ next \in Nat /\ next >= 1
  BY <1>1 DEF Inv, TypeOK
<1>3. Len(drv) <= arrived /\ next <= arrived - Len(drv) + 1
  BY DEF Inv, DrvInv, BufInv
<1>4. \A j \in 1 .. Len(buf) : buf[j] \in Nat
  BY StreamAssumption DEF Inv, TypeOK, Positions
<1>5. \A j \in 1 .. Len(buf) : next <= buf[j] /\ buf[j] <= arrived - Len(drv)
  BY DEF Inv, BufInv
<1> QED BY <1>1, <1>2, <1>3, <1>4, <1>5

\* The first byte in the buffer is one of the stream's.
LEMMA FirstType ==
  ASSUME Inv, Len(buf) >= HeaderSize PROVE buf[1] \in 1 .. Len(stream)
<1>1. 1 \in 1 .. Len(buf)
  BY Numbers, SizeAssumption
<1>2. buf[1] \in Nat /\ next <= buf[1] /\ buf[1] <= arrived - Len(drv)
  BY <1>1, Numbers
<1> QED BY <1>2, Numbers

\* The header of a frame is looked at within what has arrived.
LEMMA HeadType ==
  ASSUME Inv, stat = "data"
  PROVE  /\ buf[1] \in 1 .. Len(stream) /\ stream[buf[1]] \in Frames
         /\ oprLen \in Nat /\ FrameSize(oprLen) \in Nat /\ FrameSize(oprLen) >= 1
<1>1. Len(buf) >= HeaderSize /\ HeaderOk
  BY DEF Inv, HeadInv
<1>2. buf[1] \in 1 .. Len(stream)
  BY <1>1, FirstType
<1>3. stream[buf[1]] \in Frames \cup {Inside} /\ oprLen \in Nat
  BY <1>2 DEF Inv, TypeOK
<1> QED BY <1>1, <1>2, <1>3, FrameSizeType DEF HeaderOk

\* Steps of the task that leave buffer, driver and device alone.
LEMMA LookStep ==
  ASSUME Inv, ShortHeader \/ GoodHeader \/ ShortData \/ PushFail
  PROVE  Inv'
<1>1. UNCHANGED <<stream, arrived, drv, buf, next, clean, dbg>>
  BY DEF ShortHeader, GoodHeader, ShortData, PushFail, devVars
<1>2. DrvInv' /\ BufInv'
  BY <1>1 DEF Inv, DrvInv, BufInv
<1>3. ASSUME ShortHeader PROVE TypeOK' /\ HeadInv' /\ RestInv'
  BY <1>1, <1>3, SizeAssumption
     DEF ShortHeader, Inv, TypeOK, HeadInv, HeaderOk, Consecutive, RestInv, Reading
<1>4. ASSUME GoodHeader PROVE TypeOK' /\ HeadInv' /\ RestInv'
  <2>1. /\ pc = "check" /\ Len(buf) >= HeaderSize /\ HeaderOk
        /\ stat' = "data" /\ oprLen' = stream[buf[1]].oprLen /\ pc' = "check"
    BY <1>4 DEF GoodHeader
  <2>2. HeadInv'
    BY <1>1, <2>1 DEF HeadInv, HeaderOk, Consecutive
  <2>3. stream[buf[1]] \in Frames
    <3>1. buf[1] \in 1 .. Len(stream)
      BY <2>1, FirstType
    <3> QED BY <2>1, <3>1 DEF HeaderOk, Inv, TypeOK
  <2>4. TypeOK'
    BY <1>1, <2>1, <2>3, FramesType DEF Inv, TypeOK
  <2> QED BY <2>1, <2>2, <2>4 DEF RestInv
<1>5. ASSUME ShortData PROVE TypeOK' /\ HeadInv' /\ RestInv'
  BY <1>1, <1>5
     DEF ShortData, Inv, TypeOK, HeadInv, HeaderOk, Consecutive, RestInv, Reading
<1>6. ASSUME PushFail PROVE TypeOK' /\ HeadInv' /\ RestInv'
  <2>1. pc' = Reading(dbg) /\ UNCHANGED <<stat, oprLen>> /\ Complete("res")
    BY <1>6 DEF PushFail
  <2>2. Complete("res")' /\ stat' = "data"
    BY <1>1, <2>1 DEF Complete, DataOk, Consecutive
  <2> QED
    BY <1>1, <2>1, <2>2
       DEF Inv, TypeOK, HeadInv, HeaderOk, Consecutive, RestInv, Reading
<1> QED BY <1>2, <1>3, <1>4, <1>5, <1>6 DEF Inv

\* Steps after which the buffer is empty.
LEMMA EmptyStep ==
  ASSUME Inv, UNCHANGED devVars, buf' = <<>>, stat' = "header", oprLen' \in Nat,
         pc' \in {"read", "dump"}, dbg' \in BOOLEAN, clean' \in BOOLEAN,
         drv' \in {drv, <<>>}, next' = arrived + 1 - Len(drv')
  PROVE  Inv'
<1>1. Len(drv) \in Nat /\ Len(drv) <= arrived /\ arrived \in Nat
  BY DEF Inv, TypeOK, DrvInv
<1>2. Len(drv') \in Nat /\ Len(drv') <= arrived
  BY <1>1
<1>3. TypeOK'
  <2>1. drv' \in Seq(Positions) /\ buf' \in Seq(Positions) /\ Len(buf') = 0
    <3>1. drv \in Seq(Positions) /\ <<>> \in Seq(Positions)
      BY DEF Inv, TypeOK
    <3>2. drv' \in Seq(Positions)
      BY <3>1
    <3> QED BY <3>1, <3>2
  <2>2. next' \in Nat \ {0}
    BY <1>1, <1>2
  <2> QED BY <2>1, <2>2, SizeAssumption DEF Inv, TypeOK, devVars
<1>4. DrvInv'
  BY <1>1 DEF Inv, DrvInv, devVars
<1>5. BufInv'
  BY <1>1, <1>2 DEF BufInv, devVars
<1>6. HeadInv' /\ RestInv'
  <2>1. Len(buf') = 0 /\ 0 < BufSz
    BY SizeAssumption
  <2> QED BY <2>1 DEF HeadInv, RestInv
<1> QED BY <1>3, <1>4, <1>5, <1>6 DEF Inv

\* read() moves bytes from the driver to the end of the buffer.
LEMMA ReadFacts ==
  ASSUME Inv, Read
  PROVE  \E k \in 1 .. Len(drv) :
           /\ Len(buf) + k <= BufSz
           /\ buf' \in Seq(Positions) /\ Len(buf') = Len(buf) + k
           /\ \A j \in 1 .. Len(buf) : buf'[j] = buf[j]
           /\ \A j \in Len(buf) + 1 .. Len(buf) + k :
                buf'[j] = arrived - Len(drv) + (j - Len(buf))
           /\ drv' \in Seq(Positions) /\ Len(drv') = Len(drv) - k
           /\ \A j \in 1 .. Len(drv) - k : drv'[j] = arrived - (Len(drv) - k) + j
<1>1. PICK k \in 1 .. Len(drv) :
        /\ k <= BufSz - Len(buf)
        /\ buf' = buf \o SubSeq(drv, 1, k)
        /\ drv' = SubSeq(drv, k + 1, Len(drv))
  BY DEF Read
<1> DEFINE b == Len(buf)
           d == Len(drv)
           t == SubSeq(drv, 1, k)
<1>2. b \in Nat /\ d \in Nat /\ k \in 1 .. d /\ k \in Nat /\ b + k <= BufSz
      /\ arrived \in Nat /\ d <= arrived
  BY <1>1, Numbers, SizeAssumption
<1>3. /\ t \in Seq(Positions) /\ Len(t) = k /\ \A j \in 1 .. k : t[j] = drv[j]
      /\ drv' \in Seq(Positions) /\ Len(drv') = d - k
      /\ \A j \in 1 .. d - k : drv'[j] = drv[k + j]
  BY <1>1, <1>2, Split DEF Inv, TypeOK
<1>4. buf \in Seq(Positions) /\ buf' = buf \o t
  BY <1>1 DEF Inv, TypeOK
<1> HIDE DEF b, d, t
<1>5. /\ buf' \in Seq(Positions) /\ Len(buf') = b + k
      /\ \A j \in 1 .. b : buf'[j] = buf[j]
      /\ \A j \in 1 .. k : buf'[b + j] = drv[j]
  <2>1. buf \o t \in Seq(Positions) /\ Len(buf \o t) = Len(buf) + Len(t)
    BY <1>3, <1>4, Joined
  <2>2. \A j \in 1 .. Len(buf) : (buf \o t)[j] = buf[j]
    BY <1>3, <1>4, Joined
  <2>3. \A j \in 1 .. Len(t) : (buf \o t)[Len(buf) + j] = t[j]
    BY <1>3, <1>4, Joined
  <2> QED BY <1>3, <1>4, <2>1, <2>2, <2>3 DEF b
<1>6. \A j \in 1 .. d : drv[j] = arrived - d + j
  BY DEF Inv, DrvInv, d
<1>7. ASSUME NEW j \in 1 .. d - k PROVE drv'[j] = arrived - (d - k) + j
  <2>1. k + j \in 1 .. d /\ j \in Int
    BY <1>2
  <2>2. drv'[j] = arrived - d + (k + j)
    BY <1>3, <1>6, <2>1
  <2> QED BY <1>2, <2>1, <2>2
<1>8. ASSUME NEW j \in b + 1 .. b + k PROVE buf'[j] = arrived - d + (j - b)
  <2>1. j - b \in 1 .. k /\ j - b \in 1 .. d /\ j = b + (j - b)
    BY <1>2
  <2> QED BY <1>5, <1>6, <2>1
<1> QED BY <1>2, <1>3, <1>5, <1>7, <1>8 DEF b, d

LEMMA ReadStep ==
  ASSUME Inv, Read PROVE Inv'
<1> DEFINE b == Len(buf)
           d == Len(drv)
<1>1. PICK k \in 1 .. d :
        /\ b + k <= BufSz
        /\ buf' \in Seq(Positions) /\ Len(buf') = b + k
        /\ \A j \in 1 .. b : buf'[j] = buf[j]
        /\ \A j \in b + 1 .. b + k : buf'[j] = arrived - d + (j - b)
        /\ drv' \in Seq(Positions) /\ Len(drv') = d - k
        /\ \A j \in 1 .. d - k : drv'[j] = arrived - (d - k) + j
  BY ReadFacts
<1>2. /\ pc = "read" /\ pc' = "check"
      /\ UNCHANGED <<stat, oprLen, next, clean, stream, arrived, dbg>>
  BY DEF Read, devVars
<1>3. b \in Nat /\ d \in Nat /\ k \in Nat /\ k <= d /\ arrived \in Nat /\ d <= arrived
  BY Numbers
<1> HIDE DEF b, d
<1>4. TypeOK'
  BY <1>1, <1>2, <1>3 DEF Inv, TypeOK
<1>5. DrvInv'
  BY <1>1, <1>2, <1>3 DEF DrvInv
<1>6. BufInv'
  <2>1. /\ next <= arrived - d + 1
        /\ \A j \in 1 .. b : next <= buf[j] /\ buf[j] <= arrived - d
        /\ \A j, l \in 1 .. b : j < l => buf[j] < buf[l]
        /\ next \in Nat /\ \A j \in 1 .. b : buf[j] \in Nat
    BY Numbers DEF Inv, BufInv, b, d
  <2>2. ASSUME NEW j \in 1 .. b + k
        PROVE  next <= buf'[j] /\ buf'[j] <= arrived - (d - k)
    <3>1. CASE j \in 1 .. b
      <4>1. buf'[j] = buf[j] /\ buf[j] \in Nat /\ next <= buf[j] /\ buf[j] <= arrived - d
        BY <1>1, <2>1, <3>1
      <4> QED BY <1>3, <2>1, <4>1
    <3>2. CASE j \in b + 1 .. b + k
      <4>1. buf'[j] = arrived - d + (j - b) /\ j \in Int
        BY <1>1, <3>2
      <4> QED BY <1>3, <2>1, <3>2, <4>1
    <3> QED BY <1>3, <3>1, <3>2
  <2>3. ASSUME NEW j \in 1 .. b + k, NEW l \in 1 .. b + k, j < l
        PROVE  buf'[j] < buf'[l]
    <3>1. CASE l \in 1 .. b
      <4>1. j \in 1 .. b BY <1>3, <2>3, <3>1
      <4> QED BY <1>1, <2>1, <2>3, <3>1, <4>1
    <3>2. CASE j \in 1 .. b /\ l \in b + 1 .. b + k
      <4>1. buf'[j] = buf[j] /\ buf[j] \in Nat /\ buf[j] <= arrived - d
        BY <1>1, <2>1, <3>2
      <4>2. buf'[l] = arrived - d + (l - b) /\ l \in Int
        BY <1>1, <3>2
      <4> QED BY <1>3, <3>2, <4>1, <4>2
    <3>3. CASE j \in b + 1 .. b + k
      <4>1. l \in b + 1 .. b + k BY <1>3, <2>3, <3>3
      <4>2. buf'[j] = arrived - d + (j - b) /\ buf'[l] = arrived - d + (l - b)
        BY <1>1, <3>3, <4>1
      <4> QED BY <1>3, <2>3, <4>1, <4>2
    <3> QED BY <1>3, <3>1, <3>2, <3>3
  <2>4. next <= arrived - (d - k) + 1
    BY <1>3, <2>1
  <2> QED BY <1>1, <1>2, <2>2, <2>3, <2>4 DEF BufInv
<1>7. HeadInv'
  <2> SUFFICES ASSUME stat = "data" PROVE HeadInv'
    BY <1>2 DEF HeadInv
  <2>1. b >= HeaderSize /\ HeaderOk /\ oprLen = stream[buf[1]].oprLen
    BY DEF Inv, HeadInv, b
  <2>2. \A j \in 1 .. HeaderSize : buf'[j] = buf[j]
    BY <1>1, <1>3, <2>1, SizeAssumption
  <2>3. buf'[1] = buf[1]
    BY <2>2, SizeAssumption
  <2>4. HeaderOk'
    BY <1>2, <2>1, <2>2, <2>3 DEF HeaderOk, Consecutive
  <2>5. Len(buf') >= HeaderSize
    BY <1>1, <1>3, <2>1, SizeAssumption
  <2> QED BY <1>2, <2>1, <2>3, <2>4, <2>5 DEF HeadInv
<1>8. RestInv'
  BY <1>2 DEF RestInv
<1> QED BY <1>4, <1>5, <1>6, <1>7, <1>8 DEF Inv

\* The frame taken out of the buffer is whole.
LEMMA WholeFrame ==
  ASSUME Inv, stat = "data", Len(buf) >= FrameSize(oprLen), DataOk
  PROVE  Consecutive(FrameSize(oprLen))
<1>1. CASE oprLen = 0
  BY <1>1 DEF FrameSize, Inv, HeadInv, HeaderOk
<1>2. CASE oprLen # 0
  BY <1>2 DEF DataOk
<1> QED BY <1>1, <1>2

\* A frame leaves the buffer.
LEMMA RemoveStep ==
  ASSUME Inv, stat = "data", Len(buf) >= FrameSize(oprLen), DataOk, Remove
  PROVE  Inv'
<1> DEFINE b == Len(buf)
           f == FrameSize(oprLen)
<1>1. /\ next' = buf[1] + f /\ buf' = SubSeq(buf, f + 1, b)
      /\ stat' = "header" /\ oprLen' = 0 /\ pc' = Reading(dbg)
      /\ UNCHANGED <<stream, arrived, drv, clean, dbg>>
  BY DEF Remove, devVars
<1>2. b \in Nat /\ f \in Nat /\ f >= 1 /\ f <= b
  BY HeadType, Numbers
<1>3. \A j \in 1 .. f : buf[j] = buf[1] + j - 1
  BY WholeFrame DEF Consecutive
<1>4. b <= BufSz /\ BufSz \in Nat /\ buf \in Seq(Positions)
  BY SizeAssumption DEF Inv, TypeOK
<1> DEFINE e == arrived - Len(drv)
<1>5. /\ e \in Nat
      /\ \A j \in 1 .. b : buf[j] \in Nat /\ buf[j] >= 1 /\ buf[j] <= e
      /\ \A j, k \in 1 .. b : j < k => buf[j] < buf[k]
  <2>1. \A j \in 1 .. b : buf[j] \in Nat /\ buf[j] >= 1 /\ buf[j] <= e
    <3> SUFFICES ASSUME NEW j \in 1 .. b PROVE buf[j] \in Nat /\ buf[j] >= 1 /\ buf[j] <= e
      OBVIOUS
    <3>1. buf[j] \in Nat /\ next <= buf[j] /\ buf[j] <= e
      BY Numbers
    <3> QED BY <3>1, Numbers
  <2>2. e \in Nat
    BY Numbers
  <2> QED BY <2>1, <2>2 DEF Inv, BufInv
<1>6. /\ buf' \in Seq(Positions) /\ Len(buf') = b - f
      /\ \A j \in 1 .. b - f : buf'[j] = buf[f + j]
  <2>1. f \in 0 .. b
    BY <1>2
  <2> QED BY <1>1, <1>4, <2>1, Split
<1> HIDE DEF b, f, e
<1>7. f \in 1 .. b /\ buf[f] = buf[1] + f - 1 /\ buf[1] \in Nat /\ buf[f] <= e
  <2>1. f \in 1 .. f /\ f \in 1 .. b /\ 1 \in 1 .. b
    BY <1>2
  <2> QED BY <1>3, <1>5, <2>1
<1>8. next' \in Nat /\ next' >= 1 /\ next' <= e + 1
  BY <1>1, <1>2, <1>5, <1>7
<1>9. TypeOK'
  <2>1. Len(buf') <= BufSz
    BY <1>2, <1>4, <1>6
  <2> QED BY <1>1, <1>6, <1>8, <2>1 DEF Inv, TypeOK, Reading
<1>10. DrvInv'
  BY <1>1 DEF Inv, DrvInv
<1>11. BufInv'
  <2>1. ASSUME NEW j \in 1 .. b - f PROVE next' <= buf'[j] /\ buf'[j] <= e
    <3>1. f + j \in 1 .. b /\ f < f + j
      BY <1>2
    <3>2. buf[f] < buf[f + j] /\ buf[f + j] \in Nat /\ buf[f + j] <= e
      BY <1>5, <1>7, <3>1
    <3> QED BY <1>1, <1>2, <1>6, <1>7, <3>2
  <2>2. ASSUME NEW j \in 1 .. b - f, NEW k \in 1 .. b - f, j < k PROVE buf'[j] < buf'[k]
    <3>1. f + j \in 1 .. b /\ f + k \in 1 .. b /\ f + j < f + k
      BY <1>2, <2>2
    <3> QED BY <1>5, <1>6, <3>1
  <2> QED BY <1>1, <1>6, <1>8, <2>1, <2>2 DEF BufInv, e
<1>12. HeadInv'
  BY <1>1 DEF HeadInv
<1>13. RestInv'
  <2>1. Len(buf') < BufSz
    BY <1>2, <1>4, <1>6
  <2> QED BY <1>1, <2>1 DEF RestInv
<1> QED BY <1>9, <1>10, <1>11, <1>12, <1>13 DEF Inv

\* The driver loses bytes, from the front or all.
LEMMA FlushStep ==
  ASSUME Inv, Dump \/ Open PROVE Inv'
<1>1. UNCHANGED <<stream, arrived, buf, stat, oprLen, next, dbg>> /\ clean' = FALSE
  BY DEF Dump, Open, taskVars, devVars
<1>2. /\ drv' \in Seq(Positions) /\ Len(drv') \in Nat /\ Len(drv') <= Len(drv)
      /\ \A j \in 1 .. Len(drv') : drv'[j] = arrived - Len(drv') + j
  <2>1. CASE Dump
    <3>1. PICK k \in 1 .. Len(drv) : drv' = SubSeq(drv, k + 1, Len(drv))
      BY <2>1 DEF Dump
    <3> DEFINE d == Len(drv)
    <3>2. d \in Nat /\ arrived \in Nat /\ k \in 0 .. d /\ drv \in Seq(Positions)
      BY Numbers DEF Inv, TypeOK
    <3>3. /\ drv' \in Seq(Positions) /\ Len(drv') = d - k
          /\ \A j \in 1 .. d - k : drv'[j] = drv[k + j]
      BY <3>1, <3>2, Split
    <3>4. \A j \in 1 .. d : drv[j] = arrived - d + j
      BY DEF Inv, DrvInv
    <3> HIDE DEF d
    <3>5. ASSUME NEW j \in 1 .. d - k PROVE drv'[j] = arrived - (d - k) + j
      <4>1. k + j \in 1 .. d
        BY <3>2
      <4>2. drv'[j] = arrived - d + (k + j)
        BY <3>3, <3>4, <4>1
      <4> QED BY <3>2, <4>2
    <3> QED BY <3>2, <3>3, <3>5 DEF d
  <2>2. CASE Open
    BY <2>2, Numbers DEF Open, Inv, TypeOK
  <2> QED BY <2>1, <2>2
<1>3. pc' \in {"read", "dump", "check"} /\ (pc' # "check" => pc # "check")
  BY DEF Dump, Open, taskVars, Inv, TypeOK, Reading
<1>4. TypeOK'
  BY <1>1, <1>2, <1>3 DEF Inv, TypeOK
<1>5. DrvInv'
  <2>1. Len(drv') <= arrived
    BY <1>2, Numbers
  <2> QED BY <1>1, <1>2, <2>1 DEF DrvInv
<1>6. BufInv'
  <2>1. ASSUME NEW j \in 1 .. Len(buf)
        PROVE  next <= buf[j] /\ buf[j] <= arrived - Len(drv')
    <3>1. buf[j] \in Nat /\ next <= buf[j] /\ buf[j] <= arrived - Len(drv)
      BY Numbers
    <3> QED BY <1>2, <3>1, Numbers
  <2>2. next <= arrived - Len(drv') + 1
    BY <1>2, Numbers
  <2> QED BY <1>1, <2>1, <2>2 DEF Inv, BufInv
<1>7. HeadInv' /\ RestInv'
  BY <1>1, <1>3
     DEF Inv, HeadInv, HeaderOk, Consecutive, RestInv, Complete, DataOk
<1> QED BY <1>4, <1>5, <1>6, <1>7 DEF Inv

\* The device begins a frame: what is in the buffer stands where it stood.
LEMMA EmitStep ==
  ASSUME Inv, Emit PROVE Inv'
<1>1. PICK f \in Frames :
        /\ Len(stream) + FrameSize(f.oprLen) <= MaxStream
        /\ stream' = stream \o
             [j \in 1 .. FrameSize(f.oprLen) |-> IF j = 1 THEN f ELSE Inside]
        /\ clean' = (clean /\ f.kind \in {"res", "evt"})
  BY DEF Emit
<1>2. UNCHANGED <<arrived, drv, buf, stat, oprLen, pc, next, dbg>>
  BY DEF Emit, taskVars
<1>3. /\ stream' \in Seq(Frames \cup {Inside})
      /\ Len(stream') = Len(stream) + FrameSize(f.oprLen)
      /\ \A p \in 1 .. Len(stream) : stream'[p] = stream[p]
  BY <1>1, Longer DEF Inv
<1>4. FrameSize(f.oprLen) \in Nat
  BY FramesType, FrameSizeType
<1>5. TypeOK'
  <2>1. clean' \in BOOLEAN
    BY <1>1
  <2>2. arrived \in 0 .. Len(stream') /\ Len(stream') <= MaxStream
    BY <1>1, <1>3, <1>4, Numbers
  <2> QED BY <1>2, <1>3, <2>1, <2>2 DEF Inv, TypeOK
<1>6. DrvInv' /\ BufInv'
  BY <1>2 DEF Inv, DrvInv, BufInv
<1>7. stat = "data" => stream'[buf[1]] = stream[buf[1]]
  BY <1>3, HeadType
<1>8. HeadInv' /\ RestInv'
  BY <1>2, <1>7
     DEF Inv, HeadInv, HeaderOk, Consecutive, RestInv, Complete, DataOk
<1> QED BY <1>5, <1>6, <1>8 DEF Inv

LEMMA ArriveStep ==
  ASSUME Inv, Arrive PROVE Inv'
<1>1. /\ arrived # Len(stream) /\ arrived' = arrived + 1
      /\ drv' = Append(drv, arrived + 1)
      /\ UNCHANGED <<stream, buf, stat, oprLen, pc, next, clean, dbg>>
  BY DEF Arrive, AtBoundary, taskVars
<1> DEFINE d == Len(drv)
<1>2. d \in Nat /\ arrived \in Nat /\ arrived + 1 <= Len(stream) /\ Len(stream) \in Nat
  BY <1>1, Numbers
<1>3. arrived + 1 \in Positions /\ drv \in Seq(Positions)
  BY <1>2, StreamAssumption DEF Inv, TypeOK, Positions
<1>4. /\ drv' \in Seq(Positions) /\ Len(drv') = d + 1
      /\ \A j \in 1 .. d : drv'[j] = drv[j]
      /\ drv'[d + 1] = arrived + 1
  <2>1. /\ Append(drv, arrived + 1) \in Seq(Positions)
        /\ Len(Append(drv, arrived + 1)) = Len(drv) + 1
        /\ \A j \in 1 .. Len(drv) : Append(drv, arrived + 1)[j] = drv[j]
        /\ Append(drv, arrived + 1)[Len(drv) + 1] = arrived + 1
    BY <1>3, AppendProperties
  <2> QED BY <1>1, <2>1
<1>5. \A j \in 1 .. d : drv[j] = arrived - d + j
  BY DEF Inv, DrvInv
<1> HIDE DEF d
<1>6. TypeOK'
  BY <1>1, <1>2, <1>4 DEF Inv, TypeOK
<1>7. DrvInv'
  <2>1. ASSUME NEW j \in 1 .. d + 1 PROVE drv'[j] = arrived + 1 - (d + 1) + j
    <3>1. CASE j \in 1 .. d
      BY <1>2, <1>4, <1>5, <3>1
    <3>2. CASE j = d + 1
      BY <1>2, <1>4, <3>2
    <3> QED BY <1>2, <3>1, <3>2
  <2>2. d + 1 <= arrived + 1
    BY <1>2, Numbers DEF d
  <2>3. \A j \in 1 .. Len(drv') : drv'[j] = arrived' - Len(drv') + j
    <3> SUFFICES ASSUME NEW j \in 1 .. Len(drv')
                 PROVE  drv'[j] = arrived' - Len(drv') + j
      OBVIOUS
    <3>1. Len(drv') = d + 1 /\ arrived' = arrived + 1
      BY <1>1, <1>4
    <3>2. j \in 1 .. d + 1
      BY <3>1
    <3>3. drv'[j] = arrived + 1 - (d + 1) + j
      BY <2>1, <3>2
    <3>4. arrived' - Len(drv') + j = arrived + 1 - (d + 1) + j
      BY <1>2, <3>1, <3>2
    <3> QED BY <3>3, <3>4
  <2> QED BY <1>1, <1>4, <2>2, <2>3 DEF DrvInv
<1>8. BufInv'
  <2>1. arrived' - Len(drv') = arrived - Len(drv)
    BY <1>1, <1>2, <1>4 DEF d
  <2> QED BY <1>1, <2>1 DEF Inv, BufInv
<1>9. HeadInv' /\ RestInv'
  BY <1>1 DEF Inv, HeadInv, HeaderOk, Consecutive, RestInv, Complete, DataOk
<1> QED BY <1>6, <1>7, <1>8, <1>9 DEF Inv

LEMMA InvStep == Inv /\ [Next]_vars => Inv'
<1> SUFFICES ASSUME Inv, [Next]_vars PROVE Inv'
  OBVIOUS
<1>1. dbg \in BOOLEAN /\ oprLen \in Nat /\ AtBoundary \in BOOLEAN
  BY DEF Inv, TypeOK, AtBoundary
<1>2. CASE Read BY <1>2, ReadStep
<1>3. CASE ShortHeader \/ GoodHeader \/ ShortData \/ PushFail BY <1>3, LookStep
<1>4. CASE BadHeader \/ BadData
  <2>1. DropAll
    BY <1>4 DEF BadHeader, BadData
  <2>2. /\ UNCHANGED devVars /\ buf' = <<>> /\ stat' = "header"
        /\ oprLen' = oprLen /\ dbg' = dbg /\ drv' = drv
        /\ pc' = Reading(dbg) /\ next' = arrived + 1 - Len(drv)
        /\ clean' = (AtBoundary /\ drv = <<>>)
    BY <2>1 DEF DropAll
  <2>3. clean' \in BOOLEAN /\ pc' \in {"read", "dump"}
    BY <2>2 DEF Reading
  <2> QED BY <1>1, <2>2, <2>3, EmptyStep
<1>5. CASE DbgRecv
  <2>1. /\ UNCHANGED devVars /\ buf' = <<>> /\ stat' = "header" /\ oprLen' = 0
        /\ dbg' \in BOOLEAN /\ drv' = <<>> /\ pc' = Reading(dbg')
        /\ next' = arrived + 1 /\ clean' = AtBoundary
    BY <1>5 DEF DbgRecv
  <2>2. next' = arrived + 1 - Len(drv') /\ clean' \in BOOLEAN /\ pc' \in {"read", "dump"}
    BY <1>1, <2>1, Numbers DEF Reading
  <2> QED BY <2>1, <2>2, EmptyStep
<1>6. CASE Notify \/ Respond
  BY <1>6, RemoveStep DEF Notify, Respond, Complete
<1>7. CASE Dump \/ Open BY <1>7, FlushStep
<1>8. CASE Emit BY <1>8, EmitStep
<1>9. CASE Arrive BY <1>9, ArriveStep
<1>10. CASE UNCHANGED vars
  BY <1>10 DEF vars, Inv, TypeOK, DrvInv, BufInv, HeadInv, HeaderOk, Consecutive,
               RestInv, Complete, DataOk
<1> QED
  BY <1>2, <1>3, <1>4, <1>5, <1>6, <1>7, <1>8, <1>9, <1>10 DEF Next, Scan

LEMMA InvAlways == Spec => []Inv
BY InvInit, InvStep, PTL DEF Spec

\* The buffer is never read into beyond its end, and so on.
THEOREM TypeCorrect == Spec => []TypeOK
<1>1. Inv => TypeOK BY DEF Inv
<1> QED BY <1>1, InvAlways, PTL

\* A full buffer has one of the two reasons, for every size of buffer and frames.
THEOREM NeverFullIdly == Spec => []FullForAReason
<1>1. Inv => FullForAReason
  <2> SUFFICES ASSUME Inv, pc = "read", Len(buf) = BufSz PROVE TooLong \/ Unpushed
    BY DEF FullForAReason
  <2>1. stat = "data" /\ (Len(buf) < FrameSize(oprLen) \/ Complete("res"))
    BY SizeAssumption DEF Inv, TypeOK, RestInv
  <2> QED BY <2>1, HeadType, SizeAssumption DEF TooLong, Unpushed
<1> QED BY <1>1, InvAlways, PTL

\* Only whole frames are handled, each once and in order.
THEOREM WholeFramesHandled == Spec => HandlesWholeFrames
<1>1. Inv /\ [Next]_vars =>
        [Notify \/ Respond =>
           LET f == stream[buf[1]]
           IN  /\ f.kind \in {"res", "evt"} /\ oprLen = f.oprLen
               /\ Consecutive(FrameSize(f.oprLen))
               /\ next <= buf[1]]_vars
  <2> SUFFICES ASSUME Inv, Notify \/ Respond
               PROVE  /\ stream[buf[1]].kind \in {"res", "evt"}
                      /\ oprLen = stream[buf[1]].oprLen
                      /\ Consecutive(FrameSize(oprLen))
                      /\ next <= buf[1]
    OBVIOUS
  <2>1. stat = "data" /\ Len(buf) >= FrameSize(oprLen) /\ DataOk
    BY DEF Notify, Respond, Complete
  <2>2. oprLen = stream[buf[1]].oprLen /\ HeaderOk /\ Len(buf) >= HeaderSize
    BY <2>1 DEF Inv, HeadInv
  <2>3. Consecutive(FrameSize(oprLen))
    BY <2>1, WholeFrame
  <2>4. 1 \in 1 .. Len(buf)
    BY <2>2, Numbers, SizeAssumption
  <2>5. stream[buf[1]].kind \in {"res", "evt"}
    BY <2>1, <2>2, HeadType DEF DataOk, HeaderOk, Frames
  <2> QED BY <2>2, <2>3, <2>4, <2>5, Numbers
<1> QED BY <1>1, InvAlways, PTL DEF Spec, HandlesWholeFrames

-----------------------------------------------------------------------------
(* A stream that nobody has damaged or dropped from.                       *)

\* A frame begins at p, or will with the byte the device sends next.
Boundary(s, p) ==
  p = Len(s) + 1 \/ (p \in 1 .. Len(s) /\ s[p] # Inside)

GoodFrom(s, p) ==
  \A q \in p .. Len(s) :
    s[q] # Inside =>
      s[q].kind \in {"res", "evt"} /\ Boundary(s, q + FrameSize(s[q].oprLen))

CleanInv ==
  clean =>
    /\ Len(buf) + Len(drv) = arrived + 1 - next
    /\ \A j \in 1 .. Len(buf) : buf[j] = next + j - 1
    /\ Boundary(stream, next) /\ GoodFrom(stream, next)

\* Then the frame at the head of the buffer passes its checks.
LEMMA CleanPasses ==
  ASSUME Inv, CleanInv, clean PROVE ~BadHeader /\ ~BadData
<1>1. ASSUME Len(buf) >= HeaderSize
      PROVE  /\ buf[1] = next /\ stream[next] # Inside
             /\ stream[next].kind \in {"res", "evt"}
  <2>1. 1 \in 1 .. Len(buf)
    BY <1>1, Numbers, SizeAssumption
  <2>2. buf[1] = next
    <3>1. buf[1] = next + 1 - 1
      BY <2>1 DEF CleanInv
    <3> QED BY <3>1, Numbers
  <2>3. next \in 1 .. Len(stream)
    BY <1>1, <2>2, FirstType
  <2>4. stream[next] # Inside
    BY <2>3, Numbers DEF CleanInv, Boundary
  <2>5. next \in next .. Len(stream)
    BY <2>3
  <2> QED BY <2>2, <2>4, <2>5 DEF CleanInv, GoodFrom
<1>2. ASSUME NEW n \in Nat, n <= Len(buf), Len(buf) >= HeaderSize PROVE Consecutive(n)
  <2> SUFFICES ASSUME NEW j \in 1 .. n PROVE buf[j] = buf[1] + j - 1
    BY DEF Consecutive
  <2>1. j \in 1 .. Len(buf)
    BY <1>2, Numbers
  <2> QED BY <1>1, <1>2, <2>1 DEF CleanInv
<1>3. ~BadHeader
  <2> SUFFICES ASSUME Len(buf) >= HeaderSize PROVE HeaderOk
    BY DEF BadHeader
  <2>1. Consecutive(HeaderSize)
    BY <1>2, SizeAssumption
  <2> QED BY <1>1, <2>1 DEF HeaderOk
<1>4. ~BadData
  <2> SUFFICES ASSUME stat = "data", Len(buf) >= FrameSize(oprLen) PROVE DataOk
    BY DEF BadData
  <2>1. Len(buf) >= HeaderSize
    BY DEF Inv, HeadInv
  <2>2. Consecutive(FrameSize(oprLen))
    BY <1>2, <2>1, HeadType
  <2> QED BY <1>1, <2>1, <2>2 DEF DataOk
<1> QED BY <1>3, <1>4

LEMMA CleanRead ==
  ASSUME Inv, CleanInv, Read PROVE CleanInv'
<1> DEFINE b == Len(buf)
           d == Len(drv)
<1>1. PICK k \in 1 .. d :
        /\ Len(buf') = b + k
        /\ \A j \in 1 .. b : buf'[j] = buf[j]
        /\ \A j \in b + 1 .. b + k : buf'[j] = arrived - d + (j - b)
        /\ Len(drv') = d - k
  BY ReadFacts
<1>2. UNCHANGED <<next, clean, stream, arrived>>
  BY DEF Read, devVars
<1>3. b \in Nat /\ d \in Nat /\ k \in Nat /\ arrived \in Nat /\ next \in Nat
  BY Numbers
<1> SUFFICES ASSUME clean PROVE CleanInv'
  BY <1>2 DEF CleanInv
<1>4. b + d = arrived + 1 - next /\ \A j \in 1 .. b : buf[j] = next + j - 1
  BY DEF CleanInv
<1> HIDE DEF b, d
<1>5. \A j \in 1 .. b + k : buf'[j] = next + j - 1
  <2> SUFFICES ASSUME NEW j \in 1 .. b + k PROVE buf'[j] = next + j - 1
    OBVIOUS
  <2>1. CASE j \in 1 .. b
    BY <1>1, <1>4, <2>1
  <2>2. CASE j \in b + 1 .. b + k
    <3>1. buf'[j] = arrived - d + (j - b) /\ j \in Int
      BY <1>1, <2>2
    <3> QED BY <1>3, <1>4, <3>1
  <2> QED BY <1>3, <2>1, <2>2
<1>6. (b + k) + (d - k) = arrived + 1 - next
  BY <1>3, <1>4
<1>7. (Boundary(stream, next) /\ GoodFrom(stream, next))'
  BY <1>2 DEF CleanInv, Boundary, GoodFrom
<1> QED BY <1>1, <1>2, <1>5, <1>6, <1>7 DEF CleanInv

LEMMA CleanRemove ==
  ASSUME Inv, CleanInv, stat = "data", Len(buf) >= FrameSize(oprLen), DataOk, Remove
  PROVE  CleanInv'
<1> DEFINE b == Len(buf)
           f == FrameSize(oprLen)
<1>1. /\ next' = buf[1] + f /\ buf' = SubSeq(buf, f + 1, b)
      /\ UNCHANGED <<stream, arrived, drv, clean>>
  BY DEF Remove, devVars
<1> SUFFICES ASSUME clean PROVE CleanInv'
  BY <1>1 DEF CleanInv
<1>2. /\ b \in Nat /\ f \in Nat /\ f >= 1 /\ f <= b /\ next \in Nat
      /\ arrived \in Nat /\ Len(drv) \in Nat
  BY HeadType, Numbers
<1>3. buf[1] = next
  <2>1. buf[1] = next + 1 - 1
    BY <1>2 DEF CleanInv
  <2> QED BY <1>2, <2>1
<1>4. Len(buf') = b - f /\ \A j \in 1 .. b - f : buf'[j] = buf[f + j]
  <2>1. f \in 0 .. b /\ buf \in Seq(Positions)
    BY <1>2 DEF Inv, TypeOK
  <2> QED BY <1>1, <2>1, Split
<1>5. b + Len(drv) = arrived + 1 - next /\ \A j \in 1 .. b : buf[j] = next + j - 1
  BY DEF CleanInv
<1> HIDE DEF b, f
<1>6. (b - f) + Len(drv) = arrived + 1 - (next + f)
  BY <1>2, <1>5
<1>7. \A j \in 1 .. b - f : buf'[j] = (next + f) + j - 1
  <2> SUFFICES ASSUME NEW j \in 1 .. b - f PROVE buf'[j] = (next + f) + j - 1
    OBVIOUS
  <2>1. f + j \in 1 .. b
    BY <1>2
  <2>2. buf'[j] = next + (f + j) - 1
    BY <1>4, <1>5, <2>1
  <2> QED BY <1>2, <2>2
<1>8. stream[next] # Inside /\ oprLen = stream[next].oprLen /\ next \in 1 .. Len(stream)
  BY <1>3, HeadType DEF Inv, HeadInv, HeaderOk
<1>9. Boundary(stream, next + f)
  <2>1. next \in next .. Len(stream)
    BY <1>8
  <2> QED BY <1>8, <2>1 DEF CleanInv, GoodFrom, f
<1>10. GoodFrom(stream, next + f)
  <2>1. \A q \in next + f .. Len(stream) : q \in next .. Len(stream)
    BY <1>2
  <2> QED BY <2>1 DEF CleanInv, GoodFrom
<1>11. (Boundary(stream, next) /\ GoodFrom(stream, next))'
  BY <1>1, <1>3, <1>9, <1>10 DEF Boundary, GoodFrom, f
<1> QED BY <1>1, <1>3, <1>4, <1>6, <1>7, <1>11 DEF CleanInv, f

LEMMA CleanEmit ==
  ASSUME Inv, CleanInv, Emit PROVE CleanInv'
<1>1. PICK f \in Frames :
        /\ stream' = stream \o
             [j \in 1 .. FrameSize(f.oprLen) |-> IF j = 1 THEN f ELSE Inside]
        /\ clean' = (clean /\ f.kind \in {"res", "evt"})
  BY DEF Emit
<1>2. UNCHANGED <<arrived, drv, buf, next>>
  BY DEF Emit, taskVars
<1> SUFFICES ASSUME clean, f.kind \in {"res", "evt"} PROVE CleanInv'
  BY <1>1 DEF CleanInv
<1> DEFINE m == Len(stream)
           n == FrameSize(f.oprLen)
<1>3. /\ Len(stream') = m + n
      /\ \A p \in 1 .. m : stream'[p] = stream[p]
      /\ stream'[m + 1] = f
      /\ \A p \in m + 2 .. Len(stream') : stream'[p] = Inside
  BY <1>1, Longer DEF Inv
<1>4. m \in Nat /\ n \in Nat /\ n >= 1 /\ next \in Nat /\ next >= 1 /\ f # Inside
  BY FramesType, FrameSizeType, Numbers
<1> HIDE DEF n
<1>5. ASSUME NEW p, Boundary(stream, p) PROVE Boundary(stream', p)
  <2>1. CASE p = m + 1
    <3>1. p \in 1 .. m + n /\ stream'[p] # Inside
      BY <1>3, <1>4, <2>1
    <3> QED BY <1>3, <3>1 DEF Boundary
  <2>2. CASE p \in 1 .. m /\ stream[p] # Inside
    <3>1. p \in 1 .. m + n /\ stream'[p] # Inside
      BY <1>3, <1>4, <2>2
    <3> QED BY <1>3, <3>1 DEF Boundary
  <2> QED BY <1>5, <2>1, <2>2 DEF Boundary
<1>6. GoodFrom(stream', next')
  <2> SUFFICES ASSUME NEW q \in next .. m + n, stream'[q] # Inside
               PROVE  /\ stream'[q].kind \in {"res", "evt"}
                      /\ Boundary(stream', q + FrameSize(stream'[q].oprLen))
    BY <1>2, <1>3 DEF GoodFrom
  <2>1. CASE q \in 1 .. m
    <3>1. q \in next .. m /\ stream'[q] = stream[q]
      BY <1>3, <2>1
    <3>2. /\ stream[q].kind \in {"res", "evt"}
          /\ Boundary(stream, q + FrameSize(stream[q].oprLen))
      BY <3>1 DEF CleanInv, GoodFrom
    <3> QED BY <1>5, <3>1, <3>2
  <2>2. CASE q = m + 1
    <3>1. stream'[q] = f /\ q + n = (m + n) + 1
      BY <1>3, <1>4, <2>2
    <3>2. Boundary(stream', q + n)
      BY <1>3, <3>1 DEF Boundary
    <3> QED BY <3>1, <3>2 DEF n
  <2>3. CASE q \in m + 2 .. m + n
    BY <1>3, <2>3
  <2> QED BY <1>4, <2>1, <2>2, <2>3
<1>7. Boundary(stream', next')
  <2>1. Boundary(stream, next) BY DEF CleanInv
  <2>2. Boundary(stream', next') <=> next = Len(stream') + 1
                            \/ (next \in 1 .. Len(stream') /\ stream'[next] # Inside)
    BY <1>2 DEF Boundary
  <2> QED BY <1>2, <1>5, <2>1
<1> QED BY <1>2, <1>6, <1>7 DEF CleanInv

\* Where the stream ends, nothing is left over.
LEMMA CleanFresh ==
  ASSUME Inv, UNCHANGED devVars, buf' = <<>>, Len(drv') = 0, AtBoundary,
         next' = arrived + 1
  PROVE  CleanInv'
<1>1. next' = Len(stream) + 1 /\ Len(stream) \in Nat /\ arrived \in Nat
  BY Numbers DEF AtBoundary
<1>2. Len(buf') = 0 /\ Len(stream') = Len(stream) /\ arrived' = arrived
  BY DEF devVars
<1>3. Boundary(stream', next')
  BY <1>1, <1>2 DEF Boundary
<1>4. GoodFrom(stream', next')
  <2>1. next' .. Len(stream') = {}
    BY <1>1, <1>2
  <2> QED BY <2>1 DEF GoodFrom
<1>5. 0 + 0 = arrived' + 1 - next'
  BY <1>1, <1>2
<1> QED BY <1>2, <1>3, <1>4, <1>5 DEF CleanInv

LEMMA CleanStep == Inv /\ Inv' /\ CleanInv /\ [Next]_vars => CleanInv'
<1> SUFFICES ASSUME Inv, Inv', CleanInv, [Next]_vars PROVE CleanInv'
  OBVIOUS
<1>1. CASE Read BY <1>1, CleanRead
<1>2. CASE ShortHeader \/ GoodHeader \/ ShortData \/ PushFail \/ UNCHANGED vars
  <2>1. UNCHANGED <<stream, arrived, drv, buf, next, clean>>
    BY <1>2 DEF ShortHeader, GoodHeader, ShortData, PushFail, vars, devVars
  <2> QED BY <2>1 DEF CleanInv, Boundary, GoodFrom
<1>3. CASE BadHeader \/ BadData
  <2>1. DropAll
    BY <1>3 DEF BadHeader, BadData
  <2> SUFFICES ASSUME clean' PROVE CleanInv'
    BY DEF CleanInv
  <2>2. /\ UNCHANGED devVars /\ buf' = <<>> /\ drv' = drv /\ drv = <<>> /\ AtBoundary
        /\ next' = arrived + 1 - Len(drv)
    BY <2>1 DEF DropAll
  <2>3. Len(drv') = 0 /\ next' = arrived + 1
    BY <2>2, Numbers
  <2> QED BY <2>2, <2>3, CleanFresh
<1>4. CASE DbgRecv
  <2> SUFFICES ASSUME clean' PROVE CleanInv'
    BY DEF CleanInv
  <2>1. /\ UNCHANGED devVars /\ buf' = <<>> /\ drv' = <<>> /\ AtBoundary
        /\ next' = arrived + 1
    BY <1>4 DEF DbgRecv
  <2> QED BY <2>1, CleanFresh
<1>5. CASE Notify \/ Respond
  BY <1>5, CleanRemove DEF Notify, Respond, Complete
<1>6. CASE Dump \/ Open
  BY <1>6 DEF Dump, Open, CleanInv
<1>7. CASE Emit BY <1>7, CleanEmit
<1>8. CASE Arrive
  <2>1. arrived' = arrived + 1 /\ drv' = Append(drv, arrived + 1)
        /\ UNCHANGED <<stream, buf, next, clean>>
    BY <1>8 DEF Arrive, taskVars
  <2>2. Len(drv') = Len(drv) + 1
    BY <2>1 DEF Inv, TypeOK
  <2>3. (Boundary(stream, next) /\ GoodFrom(stream, next))' <=> Boundary(stream, next) /\ GoodFrom(stream, next)
    BY <2>1 DEF Boundary, GoodFrom
  <2> QED BY <2>1, <2>2, <2>3, Numbers DEF CleanInv
<1> QED
  BY <1>1, <1>2, <1>3, <1>4, <1>5, <1>6, <1>7, <1>8 DEF Next, Scan

LEMMA CleanAlways == Spec => [](Inv /\ CleanInv)
<1>1. Init => CleanInv
  BY DEF Init, CleanInv, Boundary, GoodFrom
<1> QED BY <1>1, InvInit, InvStep, CleanStep, PTL DEF Spec

\* An undamaged stream is in the buffer and the driver without a gap.
THEOREM StreamKept == Spec => []NothingLost
<1>1. Inv /\ CleanInv => NothingLost
  <2> SUFFICES ASSUME Inv, CleanInv, clean
               PROVE  /\ Len(buf) + Len(drv) = arrived + 1 - next
                      /\ \A j \in 1 .. Len(buf) : buf[j] = next + j - 1
                      /\ \A j \in 1 .. Len(drv) : drv[j] = next + Len(buf) + j - 1
    BY DEF NothingLost
  <2>1. /\ Len(buf) + Len(drv) = arrived + 1 - next
        /\ \A j \in 1 .. Len(buf) : buf[j] = next + j - 1
    BY DEF CleanInv
  <2>2. ASSUME NEW j \in 1 .. Len(drv) PROVE drv[j] = next + Len(buf) + j - 1
    <3>1. drv[j] = arrived - Len(drv) + j
      BY DEF Inv, DrvInv
    <3> QED BY <2>1, <3>1, Numbers
  <2> QED BY <2>1, <2>2
<1> QED BY <1>1, CleanAlways, PTL

\* And no check ever fails on it, however it is cut.
THEOREM OnlyDamageDropped == Spec => DropsOnlyDamage
<1>1. Inv /\ CleanInv => (clean => ~(BadHeader \/ BadData))
  BY CleanPasses
<1>2. Inv /\ CleanInv /\ [Next]_vars => [clean => ~(BadHeader \/ BadData)]_vars
  BY <1>1
<1> QED BY <1>2, CleanAlways, PTL DEF Spec, DropsOnlyDamage
=============================================================================
