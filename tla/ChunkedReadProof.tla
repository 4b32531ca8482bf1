-------------------------- MODULE ChunkedReadProof --------------------------
(***************************************************************************)
(* The chunk arithmetic of ChunkedRead is right for both buses and every   *)
(* set of lengths up to GHIFP_OPR_LEN_MAX.  The inductive invariant is     *)
(* Progress: how many chunks and BUS_REQs finished_size stands for, and    *)
(* what has been read when check_data is called; how long that takes, and  *)
(* which frames never get there, follow from it.                           *)
(***************************************************************************)
EXTENDS ChunkedRead, TLAPS

\* Where the bytes of the header end.
HeaderEnd == IF bus = "I2C" THEN {5} ELSE {5, 6}

Reading == pc \in {"chunk", "ask", "tail", "check"}

\* Between TakeFrame and the header.
Fresh ==
  pc = "header" =>
    /\ first /\ finished = 0 /\ taken = 1 /\ top = 0 /\ ~hurried /\ ~skew

\* Before the first chunk, and after it; the second is never done with on SPI.
Chunks ==
  Reading =>
    /\ num \in 0 .. Num(bus, len)
    /\ first => num = Num(bus, len) /\ finished \in HeaderEnd /\ taken = 1
    /\ ~first => num < Num(bus, len) /\ finished = Chunk(bus) * (Num(bus, len) - num)
    /\ ~first /\ bus = "SPI" => num = Num(bus, len) - 1
    /\ pc = "chunk" => num > 0
    /\ pc = "ask" => ~first
    /\ pc \in {"tail", "check"} => num = 0
    /\ pc = "tail" /\ first => Num(bus, len) = 0

\* One BUS_REQ before each chunk, but for the waits that failed.
Requests ==
  Reading /\ ~hurried /\ ~first =>
    taken = Num(bus, len) - num + (IF pc = "ask" THEN 0 ELSE 1)

\* The buffer ends where the task has counted to; at check_data also the tail
\* is in it, and perhaps the byte that rounds it up.
Tops ==
  /\ pc \in {"chunk", "ask", "tail"} /\ ~skew => top = finished
  /\ pc = "check" /\ ~skew =>
       /\ top >= finished + TailRead
       /\ top <= finished + TailRead + (IF bus = "SPI" THEN 1 ELSE 0)
  /\ skew => bus = "SPI" /\ top <= 4 * Chunk(bus)

Progress == TypeOK /\ Fresh /\ Chunks /\ Requests /\ Tops /\ ReadsInBuffer /\ ReadsAnnounced

\* rec_size is more than the full chunks and at most one chunk more.
LEMMA NumBounds ==
  ASSUME NEW n \in 0 .. OprLenMax
  PROVE  /\ Num(bus, n) \in 0 .. 7
         /\ Chunk(bus) * Num(bus, n) < RecSize(bus, n)
         /\ RecSize(bus, n) <= Chunk(bus) * Num(bus, n) + Chunk(bus)
<1>1. CASE bus = "I2C"
  BY <1>1, SMT DEF OprLenMax, Num, RecSize, Chunk, DataSize, HeaderSize
<1>2. CASE bus = "SPI"
  BY <1>2, SMT DEF OprLenMax, Num, RecSize, Chunk, DataSize, HeaderSize
<1>3. CASE bus \notin {"I2C", "SPI"}
  BY <1>3, SMT DEF OprLenMax, Num, RecSize, Chunk, DataSize, HeaderSize
<1>. QED BY <1>1, <1>2, <1>3

\* The remainder, once the number of full chunks before it is known.
LEMMA LastPartI2c ==
  ASSUME NEW r \in 0 .. 5000, NEW q \in 0 .. 7, 512 * q < r, r <= 512 * q + 512
  PROVE  r % 512 = IF r = 512 * q + 512 THEN 0 ELSE r - 512 * q
BY SMT

LEMMA LastPartSpi ==
  ASSUME NEW r \in 0 .. 5000, NEW q \in 0 .. 7, 1024 * q < r, r <= 1024 * q + 1024
  PROVE  r % 1024 = IF r = 1024 * q + 1024 THEN 0 ELSE r - 1024 * q
BY SMT

\* What is left after the full chunks: all of it, unless the last is full too.
LEMMA TailBounds ==
  ASSUME TypeOK, Chunks, pc \in {"tail", "check"}
  PROVE  /\ finished \in Nat /\ TailRead \in 0 .. Chunk(bus) - 1
         /\ finished + TailRead <= RecSize(bus, len)
         /\ ~LastChunkLost(bus, len) => finished + TailRead = RecSize(bus, len)
<1>1. /\ len \in 0 .. OprLenMax
      /\ Num(bus, len) \in 0 .. 7
      /\ Chunk(bus) * Num(bus, len) < RecSize(bus, len)
      /\ RecSize(bus, len) <= Chunk(bus) * Num(bus, len) + Chunk(bus)
  BY NumBounds DEF TypeOK
<1>2. /\ num = 0
      /\ first => Num(bus, len) = 0 /\ finished \in HeaderEnd
      /\ ~first => 0 < Num(bus, len) /\ finished = Chunk(bus) * Num(bus, len)
      /\ ~first /\ bus = "SPI" => Num(bus, len) = 1
  <2>. DEFINE q == Num(bus, len)
  <2>1. q \in 0 .. 7 /\ (bus = "I2C" => Chunk(bus) = 512) /\ (bus = "SPI" => Chunk(bus) = 1024)
    BY <1>1 DEF Chunk
  <2>. QED BY <1>1, <2>1, BusAssumption DEF Chunks, Reading
<1>3. CASE bus = "I2C"
  <2>1. /\ Chunk(bus) = 512 /\ RecSize(bus, len) = len + 6
        /\ HeaderEnd = {5} /\ len \in 0 .. 4090
    BY <1>3, <1>1 DEF Chunk, RecSize, DataSize, HeaderSize, HeaderEnd, OprLenMax
  <2>2. 512 * Num(bus, len) < len + 6 /\ len + 6 <= 512 * Num(bus, len) + 512
    BY <1>1, <2>1
  <2>3. CASE first
    <3>1. finished = 5 /\ Num(bus, len) = 0
      BY <1>2, <2>1, <2>3
    <3>2. len \in 0 .. 506
      <4>1. 512 * 0 + 512 = 512 OBVIOUS
      <4>2. len + 6 <= 512 BY <2>2, <3>1, <4>1
      <4>3. len \in 0 .. 4090 BY <2>1
      <4>. QED BY <4>2, <4>3
    <3>3. TailRead = (len + 1) % 512
      <4>1. TailRead = (len + 6 - 5) % 512 BY <2>1, <2>3, <3>1 DEF TailRead
      <4>2. len + 6 - 5 = len + 1 BY <3>2
      <4>. QED BY <4>1, <4>2
    <3>4. (len + 1) % 512 = len + 1
      <4> DEFINE r == len + 1
      <4>1. r \in 1 .. 507 BY <3>2
      <4> HIDE DEF r
      <4>2. r \in 0 .. 5000 /\ 512 * 0 < r /\ r <= 512 * 0 + 512 BY <4>1
      <4>3. r % 512 = IF r = 512 * 0 + 512 THEN 0 ELSE r - 512 * 0 BY <4>2, LastPartI2c
      <4>4. r # 512 * 0 + 512 /\ r - 512 * 0 = r BY <4>1
      <4>. QED BY <4>3, <4>4 DEF r
    <3>. QED BY <2>1, <3>1, <3>2, <3>3, <3>4
  <2>4. CASE ~first
    <3>1. TailRead = (len + 6) % 512 /\ finished = 512 * Num(bus, len) /\ Num(bus, len) \in 1 .. 7
      BY <1>1, <1>2, <2>1, <2>4 DEF TailRead
    <3>2. (len + 6) % 512 = IF len + 6 = 512 * Num(bus, len) + 512 THEN 0 ELSE len + 6 - 512 * Num(bus, len)
      BY <2>1, <2>2, <3>1, LastPartI2c
    <3>3. LastChunkLost(bus, len) <=> (len + 6) % 512 = 0 /\ len + 6 > 512
      BY <2>1 DEF LastChunkLost
    <3>. QED BY <2>1, <2>2, <3>1, <3>2, <3>3
  <2>. QED BY <2>3, <2>4
<1>4. CASE bus = "SPI"
  <2>1. /\ Chunk(bus) = 1024 /\ RecSize(bus, len) = len + 7
        /\ HeaderEnd = {5, 6} /\ len \in 0 .. 4090
    BY <1>4, <1>1 DEF Chunk, RecSize, DataSize, HeaderSize, HeaderEnd, OprLenMax
  <2>2. 1024 * Num(bus, len) < len + 7 /\ len + 7 <= 1024 * Num(bus, len) + 1024
    BY <1>1, <2>1
  <2>3. CASE first
    <3>1. TailRead = (len + 7 - finished) % 1024 /\ finished \in {5, 6} /\ Num(bus, len) = 0
      BY <1>2, <2>1, <2>3 DEF TailRead
    <3>2. /\ len + 7 - finished \in 0 .. 1023
          /\ finished \in Nat
      BY <2>1, <2>2, <3>1
    <3>3. TailRead = len + 7 - finished
      BY <3>1, <3>2, SMT
    <3>. QED BY <2>1, <3>2, <3>3
  <2>4. CASE ~first
    <3>1. TailRead = (len + 7) % 1024 /\ finished = 1024 * Num(bus, len) /\ Num(bus, len) \in 1 .. 7
      BY <1>1, <1>2, <2>1, <2>4 DEF TailRead
    <3>2. (len + 7) % 1024 = IF len + 7 = 1024 * Num(bus, len) + 1024 THEN 0 ELSE len + 7 - 1024 * Num(bus, len)
      BY <2>1, <2>2, <3>1, LastPartSpi
    <3>3. LastChunkLost(bus, len) <=> (len + 7) % 1024 = 0 /\ len + 7 > 1024
      BY <2>1 DEF LastChunkLost
    <3>. QED BY <2>1, <2>2, <3>1, <3>2, <3>3
  <2>. QED BY <2>3, <2>4
<1>. QED BY <1>3, <1>4, BusAssumption DEF TypeOK

LEMMA ProgressInit == Init => Progress
<1>. SUFFICES ASSUME Init PROVE Progress
  OBVIOUS
<1>1. TypeOK
  <2>1. first \in BOOLEAN /\ hurried \in BOOLEAN /\ skew \in BOOLEAN
    BY Zenon DEF Init
  <2>2. pc \in Pcs /\ dfs \in Dfs /\ dfs = 8 /\ tokens \in 0 .. MaxTokens
    BY TokensAssumption DEF Init, Pcs, Dfs
  <2>3. len \in 0 .. OprLenMax /\ num \in Nat /\ finished \in Nat /\ taken \in Nat /\ top \in Nat
    BY DEF Init, OprLenMax
  <2>4. bus \in Buses
    BY DEF Init
  <2>. QED BY <2>1, <2>2, <2>3, <2>4 DEF TypeOK
<1>2. Fresh /\ Chunks /\ Requests /\ Tops
  BY DEF Init, Fresh, Chunks, Reading, Requests, Tops
<1>3. ReadsInBuffer /\ ReadsAnnounced
  BY DEF Init, ReadsInBuffer, ReadsAnnounced, LocalBuffSz, Chunk
<1>. QED BY <1>1, <1>2, <1>3 DEF Progress

\* A header has been read: of a frame with n operands, or, on SPI, of none.
LEMMA PlanStep ==
  ASSUME Progress, pc = "header", NEW n \in 0 .. OprLenMax, Plan(n)
  PROVE  Progress'
<1>1. Num(bus, n) \in 0 .. 7
  BY NumBounds
<1>2. /\ Moved(HeaderSize) \in HeaderEnd /\ Moved(HeaderSize) \in {5, 6}
      /\ Chunk(bus) \in {512, 1024}
  BY BusAssumption DEF Progress, TypeOK, Dfs, Moved, HeaderSize, HeaderEnd, Chunk
<1>3. TypeOK'
  BY <1>1, <1>2 DEF Plan, Progress, TypeOK, Pcs
<1>4. Chunks' /\ Requests' /\ Fresh'
  BY <1>1, <1>2, SMT DEF Plan, Progress, TypeOK, Fresh, Chunks, Reading, Requests, HeaderEnd, Num, RecSize, Chunk
<1>5. Tops'
  BY <1>2 DEF Plan, Progress, TypeOK, Fresh, Tops
<1>6. ReadsInBuffer' /\ ReadsAnnounced'
  BY <1>2, SMT DEF Plan, Progress, TypeOK, Fresh, ReadsInBuffer, ReadsAnnounced, LocalBuffSz, Chunk
<1>. QED BY <1>3, <1>4, <1>5, <1>6 DEF Progress

\* A full chunk has been read, or read again.
LEMMA ChunkStep ==
  ASSUME Progress, ReadChunk \/ RereadChunk
  PROVE  Progress'
<1>1. /\ Chunk(bus) \in {512, 1024} /\ (bus = "I2C" => Chunk(bus) = 512) /\ (bus = "SPI" => Chunk(bus) = 1024)
      /\ HeaderEnd \subseteq {5, 6}
  BY DEF Chunk, HeaderEnd
<1>2. /\ TypeOK /\ pc = "chunk"
      /\ num \in 1 .. Num(bus, len) /\ Num(bus, len) \in 1 .. 7
      /\ first => num = Num(bus, len) /\ finished \in HeaderEnd /\ taken = 1
      /\ ~first => num < Num(bus, len) /\ finished = Chunk(bus) * (Num(bus, len) - num)
      /\ ~first /\ bus = "SPI" => num = Num(bus, len) - 1
      /\ ~first /\ ~hurried => taken = Num(bus, len) - num + 1
      /\ ~skew => top = finished
      /\ skew => bus = "SPI" /\ top <= 4 * Chunk(bus)
  BY NumBounds DEF ReadChunk, RereadChunk, Progress, TypeOK, Chunks, Reading, Requests, Tops
<1>3. ASSUME ReadChunk PROVE Progress'
  <2>1. /\ pc' = "ask" /\ ~first' /\ num' = num - 1 /\ finished' = finished + ChunkRead
        /\ top' = IF top < finished + ChunkRead THEN finished + ChunkRead ELSE top
        /\ UNCHANGED <<bus, dfs, tokens, len, taken, hurried, skew>>
        /\ bus = "SPI" => first
        /\ first' \in BOOLEAN
    BY <1>3 DEF ReadChunk, Filled
  <2>2. finished + ChunkRead = Chunk(bus) * (Num(bus, len) - (num - 1)) /\ finished + ChunkRead \in Nat
    <3>1. CASE first
      BY <1>1, <1>2, <3>1 DEF ChunkRead, TypeOK
    <3>2. CASE ~first
      BY <1>1, <1>2, <3>2 DEF ChunkRead, TypeOK
    <3>. QED BY <3>1, <3>2
  <2>3. TypeOK'
    BY <1>2, <2>1, <2>2 DEF TypeOK, Pcs
  <2>4. Fresh' /\ Chunks' /\ Requests'
    BY <1>1, <1>2, <2>1, <2>2 DEF Progress, TypeOK, Fresh, Chunks, Reading, Requests, Num, RecSize, Chunk
  <2>5. Tops'
    BY <1>1, <1>2, <2>1, <2>2 DEF TypeOK, Tops
  <2>6. ReadsInBuffer' /\ ReadsAnnounced'
    <3>1. ASSUME ~hurried PROVE finished + ChunkRead = Chunk(bus) * taken
      BY <1>2, <2>2, <3>1 DEF TypeOK
    <3>2. ReadsAnnounced'
      BY <1>1, <1>2, <2>1, <2>2, <3>1, BusAssumption DEF TypeOK, ReadsAnnounced
    <3>3. ReadsInBuffer'
      <4>1. finished + ChunkRead <= 3584
        BY <1>1, <1>2, <2>1, <2>2, BusAssumption DEF TypeOK
      <4>. QED BY <1>2, <2>1, <2>2, <4>1 DEF Progress, TypeOK, ReadsInBuffer, LocalBuffSz
    <3>. QED BY <3>2, <3>3
  <2>. QED BY <2>3, <2>4, <2>5, <2>6 DEF Progress
<1>4. ASSUME RereadChunk PROVE Progress'
  <2>1. /\ bus = "SPI" /\ skew' /\ skew' \in BOOLEAN
        /\ top' = IF top < finished + Moved(ChunkRead) THEN finished + Moved(ChunkRead) ELSE top
        /\ UNCHANGED <<bus, pc, dfs, tokens, len, num, first, finished, taken, hurried>>
    BY <1>4 DEF RereadChunk, Filled
  <2>2. finished \in 0 .. 1024 /\ ChunkRead \in 1018 .. 1024 /\ finished + ChunkRead <= 2048
    <3>1. Chunk(bus) = 1024 BY <1>1, <2>1
    <3>2. CASE first
      <4>1. finished \in HeaderEnd BY <1>2, <3>2, Zenon
      <4>2. finished = 5 \/ finished = 6 BY <1>1, <4>1
      <4>3. ChunkRead = 1024 - finished BY <3>1, <3>2 DEF ChunkRead
      <4>. QED BY <4>2, <4>3
    <3>3. CASE ~first
      <4>1. Num(bus, len) - num = 1 /\ finished = Chunk(bus) * (Num(bus, len) - num) BY <1>2, <2>1, <3>3
      <4>2. finished = 1024 BY <3>1, <4>1
      <4>3. ChunkRead = 1024 BY <3>1, <3>3 DEF ChunkRead
      <4>. QED BY <4>2, <4>3
    <3>. QED BY <3>2, <3>3
  <2>3. top' \in 0 .. 4096
    <3>1. top \in 0 .. 4096
      <4>1. skew => top <= 4 * 1024 BY <1>1, <1>2, <2>1
      <4>2. ~skew => top = finished BY <1>2
      <4>3. top \in Nat /\ skew \in BOOLEAN BY <1>2 DEF TypeOK
      <4>. QED BY <2>2, <4>1, <4>2, <4>3
    <3>2. Moved(ChunkRead) = ChunkRead \/ Moved(ChunkRead) = ChunkRead + 1 BY Zenon DEF Moved
    <3>3. finished + Moved(ChunkRead) \in 0 .. 2049
      <4>1. CASE Moved(ChunkRead) = ChunkRead BY <2>2, <4>1
      <4>2. CASE Moved(ChunkRead) = ChunkRead + 1 BY <2>2, <4>2
      <4>. QED BY <3>2, <4>1, <4>2
    <3>. QED BY <2>1, <3>1, <3>3
  <2>4. TypeOK'
    BY <1>2, <2>1, <2>3 DEF TypeOK
  <2>5. Fresh' /\ Chunks' /\ Requests'
    <3>1. Chunks /\ Requests
      BY DEF Progress
    <3>2. Chunks' /\ Requests'
      BY <2>1, <3>1 DEF Chunks, Reading, Requests, HeaderEnd
    <3>. QED BY <1>2, <2>1, <3>2 DEF Fresh
  <2>6. Tops'
    <3>1. pc' = "chunk" /\ skew' /\ bus = "SPI" /\ Chunk(bus) = 1024
      BY <1>1, <1>2, <2>1
    <3>2. bus' = "SPI" /\ Chunk(bus') = 1024
      BY <2>1, <3>1 DEF Chunk
    <3>3. top' <= 4 * Chunk(bus')
      <4> DEFINE c == Chunk(bus')
      <4>1. c = 1024 /\ 4 * 1024 = 4096 BY <3>2
      <4> HIDE DEF c
      <4>2. top' <= 4 * c BY <2>3, <4>1
      <4>. QED BY <4>2 DEF c
    <3>. QED BY <3>1, <3>2, <3>3, Zenon DEF Tops
  <2>7. ReadsInBuffer'
    BY <2>3 DEF ReadsInBuffer, LocalBuffSz
  <2>8. ReadsAnnounced'
    <3>1. skew'
      BY <2>1
    <3>. QED BY <3>1, Zenon DEF ReadsAnnounced
  <2>. QED BY <2>4, <2>5, <2>6, <2>7, <2>8 DEF Progress
<1>. QED BY <1>3, <1>4

\* The wait between two chunks is over, with a BUS_REQ or without.
LEMMA AskStep ==
  ASSUME Progress, TakeChunk \/ AskFails
  PROVE  Progress'
<1>1. Chunk(bus) \in {512, 1024}
  BY DEF Chunk
<1>2. /\ TypeOK /\ pc = "ask" /\ num \in 0 .. Num(bus, len) /\ Num(bus, len) \in 0 .. 7 /\ ~first
      /\ num < Num(bus, len) /\ finished = Chunk(bus) * (Num(bus, len) - num)
      /\ bus = "SPI" => num = Num(bus, len) - 1
      /\ ~hurried => taken = Num(bus, len) - num
  BY NumBounds DEF TakeChunk, AskFails, Progress, TypeOK, Chunks, Reading, Requests
<1>3. /\ pc' = AfterAsk /\ pc' \in {"chunk", "tail"}
      /\ UNCHANGED <<bus, dfs, len, num, first, finished, top, skew>>
      /\ \/ tokens > 0 /\ tokens' = tokens - 1 /\ taken' = taken + 1 /\ hurried' = hurried
         \/ tokens' = tokens /\ taken' = taken /\ hurried'
  BY DEF TakeChunk, AskFails, AfterAsk
<1>4. TypeOK'
  <2>1. hurried' \in BOOLEAN
    <3>1. hurried \in BOOLEAN
      BY <1>2 DEF TypeOK
    <3>. QED BY <3>1, Zenon DEF TakeChunk, AskFails
  <2>. QED BY <1>2, <1>3, <2>1, TokensAssumption DEF TypeOK, Pcs
<1>5. Fresh' /\ Chunks' /\ Requests'
  BY <1>1, <1>2, <1>3 DEF AfterAsk, TypeOK, Fresh, Chunks, Reading, Requests
<1>6. Tops'
  BY <1>2, <1>3 DEF Progress, Tops
<1>7. ReadsInBuffer' /\ ReadsAnnounced'
  BY <1>1, <1>2, <1>3 DEF Progress, TypeOK, ReadsInBuffer, ReadsAnnounced
<1>. QED BY <1>4, <1>5, <1>6, <1>7 DEF Progress

\* What was left has been read.
LEMMA TailStep ==
  ASSUME Progress, ReadTail
  PROVE  Progress'
<1>1. /\ Chunk(bus) \in {512, 1024} /\ (bus = "I2C" => Chunk(bus) = 512) /\ (bus = "SPI" => Chunk(bus) = 1024)
      /\ HeaderEnd \subseteq {5, 6}
  BY DEF Chunk, HeaderEnd
<1>2. /\ TypeOK /\ Chunks /\ pc = "tail" /\ num = 0 /\ Num(bus, len) \in 0 .. 7
      /\ first => Num(bus, len) = 0 /\ finished \in HeaderEnd /\ taken = 1
      /\ ~first => finished = Chunk(bus) * Num(bus, len) /\ (bus = "SPI" => Num(bus, len) = 1)
      /\ ~first /\ ~hurried => taken = Num(bus, len) + 1
      /\ RecSize(bus, len) <= Chunk(bus) * Num(bus, len) + Chunk(bus)
      /\ ~skew => top = finished
      /\ skew => bus = "SPI" /\ top <= 4 * Chunk(bus)
  <2>1. /\ num = 0 /\ Num(bus, len) \in 0 .. 7 /\ RecSize(bus, len) <= Chunk(bus) * Num(bus, len) + Chunk(bus)
        /\ TypeOK /\ Chunks /\ pc = "tail"
    BY NumBounds DEF ReadTail, Progress, TypeOK, Chunks, Reading
  <2>. QED BY <2>1, <1>1 DEF Progress, TypeOK, Chunks, Reading, Requests, Tops
<1>3. /\ finished \in Nat /\ TailRead \in 0 .. Chunk(bus) - 1
      /\ finished + TailRead <= RecSize(bus, len)
  BY <1>2, TailBounds
<1>4. /\ pc' = "check"
      /\ top' = IF top < finished + Moved(TailRead) THEN finished + Moved(TailRead) ELSE top
      /\ UNCHANGED <<bus, dfs, tokens, len, num, first, finished, taken, hurried, skew>>
      /\ TailRead' = TailRead
  BY DEF ReadTail, Filled, TailRead, RecSize, Chunk
<1>5. /\ Moved(TailRead) \in {TailRead, TailRead + 1}
      /\ bus = "I2C" => Moved(TailRead) = TailRead
  BY <1>2 DEF Moved, TypeOK
<1>6. TypeOK'
  BY <1>1, <1>2, <1>3, <1>4, <1>5 DEF TypeOK, Pcs
<1>7. Fresh' /\ Chunks' /\ Requests'
  BY <1>2, <1>4 DEF Progress, TypeOK, Fresh, Chunks, Reading, Requests, HeaderEnd
<1>8. Tops'
  <2>1. CASE skew
    <3>1. bus = "SPI" /\ finished <= 1024 /\ TailRead <= 1023
      BY <1>1, <1>2, <1>3, <2>1 DEF TypeOK
    <3>. QED BY <1>1, <1>2, <1>3, <1>4, <1>5, <2>1, <3>1 DEF Tops, TypeOK
  <2>2. CASE ~skew
    BY <1>1, <1>2, <1>3, <1>4, <1>5, <2>2, BusAssumption DEF Tops, TypeOK
  <2>. QED BY <2>1, <2>2
<1>9. ReadsInBuffer' /\ ReadsAnnounced'
  <2>1. finished + Moved(TailRead) <= LocalBuffSz
    <3>1. RecSize(bus, len) <= 4097
      BY <1>2 DEF RecSize, DataSize, HeaderSize, TypeOK, OprLenMax
    <3>. QED BY <1>3, <1>5, <3>1, <1>1, <1>2 DEF RecSize, DataSize, HeaderSize, TypeOK, OprLenMax, LocalBuffSz
  <2>2. ReadsInBuffer'
    BY <1>2, <1>4, <2>1, <1>3, <1>5, <1>1 DEF Progress, ReadsInBuffer, TypeOK, LocalBuffSz
  <2>3. ASSUME ~hurried, ~skew PROVE RecSize(bus, len) <= Chunk(bus) * taken
    BY <1>1, <1>2, <2>3 DEF TypeOK, RecSize, DataSize, HeaderSize, OprLenMax
  <2>4. ReadsAnnounced'
    <3>1. CASE ~hurried /\ ~skew
      <4>1. top' <= RecSize(bus, len) + (IF bus = "SPI" THEN 1 ELSE 0)
        BY <1>1, <1>2, <1>3, <1>4, <1>5, <3>1, BusAssumption
           DEF TypeOK, RecSize, DataSize, HeaderSize, OprLenMax
      <4>2. RecSize(bus, len) <= Chunk(bus) * taken /\ Chunk(bus) * taken \in Nat /\ RecSize(bus, len) \in Nat
        BY <1>1, <1>2, <2>3, <3>1 DEF TypeOK, RecSize, DataSize, HeaderSize, OprLenMax
      <4>3. top' \in Nat /\ taken' = taken
        BY <1>4, <1>6 DEF TypeOK
      <4>. QED BY <1>4, <4>1, <4>2, <4>3 DEF ReadsAnnounced
    <3>2. CASE hurried \/ skew
      BY <1>4, <3>2 DEF ReadsAnnounced
    <3>. QED BY <3>1, <3>2
  <2>. QED BY <2>2, <2>4
<1>. QED BY <1>6, <1>7, <1>8, <1>9 DEF Progress

LEMMA ProgressNext == Progress /\ [Next]_vars => Progress'
<1>. SUFFICES ASSUME Progress, [Next]_vars PROVE Progress'
  OBVIOUS
<1>1. CASE TakeFrame
  <2>1. TypeOK'
    <3>1. first' \in BOOLEAN /\ hurried' \in BOOLEAN /\ skew' \in BOOLEAN
      BY <1>1, Zenon DEF TakeFrame
    <3>. QED BY <1>1, <3>1, TokensAssumption DEF TakeFrame, Progress, TypeOK, Pcs, OprLenMax
  <2>2. Fresh' /\ Chunks' /\ Requests' /\ Tops'
    BY <1>1 DEF TakeFrame, Fresh, Chunks, Reading, Requests, Tops
  <2>3. ReadsInBuffer' /\ ReadsAnnounced'
    BY <1>1 DEF TakeFrame, ReadsInBuffer, ReadsAnnounced, LocalBuffSz, Chunk
  <2>. QED BY <2>1, <2>2, <2>3 DEF Progress
<1>2. CASE ReadHeader
  BY <1>2, PlanStep, LensAssumption DEF ReadHeader
<1>3. CASE BadHeader
  <2>1. CASE Plan(0)
    BY <1>3, <2>1, PlanStep DEF BadHeader, OprLenMax
  <2>2. CASE pc' = "wait" /\ UNCHANGED <<bus, dfs, tokens, frameVars>>
    BY <2>2 DEF frameVars, Progress, TypeOK, Pcs, Fresh, Chunks, Reading, Requests, Tops,
                ReadsInBuffer, ReadsAnnounced
  <2>. QED BY <1>3, <2>1, <2>2 DEF BadHeader
<1>4. CASE ReadChunk \/ RereadChunk
  BY <1>4, ChunkStep
<1>5. CASE TakeChunk \/ AskFails
  BY <1>5, AskStep
<1>6. CASE ReadTail
  BY <1>6, TailStep
<1>7. CASE Check
  BY <1>7 DEF Check, frameVars, Progress, TypeOK, Pcs, Fresh, Chunks, Reading, Requests, Tops,
              ReadsInBuffer, ReadsAnnounced
<1>8. CASE Post \/ SetDfs \/ UNCHANGED vars
  <2>1. UNCHANGED <<bus, pc, frameVars>> /\ TypeOK'
    BY <1>8, TokensAssumption, BusAssumption DEF Post, SetDfs, vars, frameVars, Progress, TypeOK
  <2>. QED BY <2>1 DEF frameVars, Progress, Fresh, Chunks, Reading, Requests, Tops, TailRead, HeaderEnd,
                       ReadsInBuffer, ReadsAnnounced
<1>. QED BY <1>1, <1>2, <1>3, <1>4, <1>5, <1>6, <1>7, <1>8 DEF Next, RecvStep

LEMMA ProgressAlways == Spec => []Progress
<1>1. Init => Progress
  BY ProgressInit
<1>2. Progress /\ [Next]_vars => Progress'
  BY ProgressNext
<1>. QED BY <1>1, <1>2, PTL DEF Spec

\* The task's variables keep their types: the count of full chunks never goes
\* below 0, and only SPI ever transfers 16-bit words.
THEOREM TypeCorrect == Spec => []TypeOK
<1>1. Progress => TypeOK
  BY DEF Progress
<1>. QED BY <1>1, ProgressAlways, PTL

\* No read of either task goes past the local buffer, for any length up to
\* GHIFP_OPR_LEN_MAX and wherever SPICONF changes the word size.
THEOREM BufferKept == Spec => []ReadsInBuffer
<1>1. Progress => ReadsInBuffer
  BY DEF Progress
<1>. QED BY <1>1, ProgressAlways, PTL

\* The tasks read no more than the BUS_REQs they have taken stand for.
THEOREM NothingUnannounced == Spec => []ReadsAnnounced
<1>1. Progress => ReadsAnnounced
  BY DEF Progress
<1>. QED BY <1>1, ProgressAlways, PTL

\* check_data is given whole frames, but for those whose last chunk is full
\* and those of which something was read twice.
THEOREM WholeFrames == Spec => []CheckedIsWhole
<1>1. Progress => CheckedIsWhole
  <2>1. SUFFICES ASSUME Progress, pc = "check", ~skew, ~LastChunkLost(bus, len)
                 PROVE  top >= FrameSize(len)
    BY DEF CheckedIsWhole
  <2>2. finished \in Nat /\ TailRead \in Nat /\ finished + TailRead = RecSize(bus, len)
    <3>1. finished \in Nat /\ TailRead \in 0 .. Chunk(bus) - 1 /\ finished + TailRead = RecSize(bus, len)
      BY <2>1, TailBounds DEF Progress
    <3>. QED BY <3>1 DEF Chunk
  <2>3. top >= RecSize(bus, len) /\ len \in Nat /\ top \in Nat
    BY <2>1, <2>2 DEF Progress, Tops, TypeOK, OprLenMax
  <2>4. RecSize(bus, len) >= FrameSize(len) /\ FrameSize(len) \in Nat
    BY <2>3 DEF RecSize, FrameSize, DataSize, HeaderSize
  <2>. QED BY <2>2, <2>3, <2>4
<1>. QED BY <1>1, ProgressAlways, PTL

\* A frame takes one BUS_REQ for each of its chunks, unless a wait failed.
THEOREM RequestsCounted == Spec => []OneRequestPerChunk
<1>1. Progress => OneRequestPerChunk
  <2>1. SUFFICES ASSUME Progress, pc = "check", ~hurried
                 PROVE  /\ Chunk(bus) * (taken - 1) < RecSize(bus, len)
                        /\ RecSize(bus, len) <= Chunk(bus) * taken
    BY DEF OneRequestPerChunk
  <2>2. /\ Num(bus, len) \in 0 .. 7
        /\ Chunk(bus) * Num(bus, len) < RecSize(bus, len)
        /\ RecSize(bus, len) <= Chunk(bus) * Num(bus, len) + Chunk(bus)
    BY <2>1, NumBounds DEF Progress, TypeOK
  <2>3. taken = Num(bus, len) + 1
    BY <2>1, <2>2 DEF Progress, TypeOK, Chunks, Requests, Reading
  <2>4. Chunk(bus) \in Nat
    BY DEF Chunk
  <2>. QED BY <2>2, <2>3, <2>4 DEF Chunk
<1>. QED BY <1>1, ProgressAlways, PTL

\* No SPI frame of more than two chunks ever gets as far as check_data: the loop
\* of its second full chunk waits for spi_read to return 0 (host_if_spi.c, 192).
\* So the longest response or event SPI can deliver is 2047 bytes long, about
\* half of what the header allows.
THEOREM LongSpiFramesStick ==
  Spec => [](bus = "SPI" /\ pc \in {"tail", "check"} => FrameSize(len) <= 2 * Chunk(bus) - 1)
<1>1. ASSUME Progress, bus = "SPI", pc \in {"tail", "check"}
      PROVE  FrameSize(len) <= 2 * Chunk(bus) - 1
  <2>1. Num(bus, len) <= 1
    BY <1>1, NumBounds DEF Progress, TypeOK, Chunks, Reading
  <2>2. /\ Num(bus, len) \in 0 .. 7 /\ len \in 0 .. OprLenMax
        /\ RecSize(bus, len) <= Chunk(bus) * Num(bus, len) + Chunk(bus)
    BY <1>1, NumBounds DEF Progress, TypeOK
  <2>3. Chunk(bus) = 1024 /\ RecSize(bus, len) = len + 7
    BY <1>1, <2>2 DEF Chunk, RecSize, DataSize, HeaderSize, OprLenMax
  <2>4. len + 7 <= 2048
    BY <2>1, <2>2, <2>3
  <2>5. FrameSize(len) <= len + 6
    BY <2>2 DEF FrameSize, DataSize, HeaderSize, OprLenMax
  <2>. QED BY <2>2, <2>3, <2>4, <2>5 DEF FrameSize, DataSize, HeaderSize, OprLenMax
<1>2. Progress => (bus = "SPI" /\ pc \in {"tail", "check"} => FrameSize(len) <= 2 * Chunk(bus) - 1)
  BY <1>1
<1>. QED BY <1>2, ProgressAlways, PTL

-----------------------------------------------------------------------------
(* How long a frame takes (FrameIsChecked).                                *)

\* Steps of the task between a frame's header and its check.
StepsLeft ==
  CASE pc = "chunk" -> 2 * num + 1
    [] pc = "ask"   -> 2 * num + 2
    [] pc = "tail"  -> 1
    [] OTHER        -> 0

InFrame == pc \in {"chunk", "ask", "tail"}

\* What FrameIsChecked needs besides fairness: as long as no chunk is read again,
\* each step of the task, also past a wait that fails, brings the frame nearer to
\* check_data, of which it is never more than 15 steps away, and neither BUS_REQs
\* nor SPICONF set it back.
THEOREM FrameIsFinite ==
  Spec => /\ [](StepsLeft \in 0 .. 15 /\ (InFrame => StepsLeft > 0))
          /\ [][InFrame /\ ~skew' =>
                  IF RecvStep \/ AskFails THEN StepsLeft' < StepsLeft
                  ELSE StepsLeft' = StepsLeft]_vars
<1>1. ASSUME Progress
      PROVE  /\ StepsLeft \in 0 .. 15 /\ (InFrame => StepsLeft > 0)
             /\ InFrame => num \in 0 .. 7 /\ (pc = "chunk" => num > 0)
  <2>1. InFrame => num \in 0 .. Num(bus, len) /\ (pc = "chunk" => num > 0)
                   /\ (pc = "ask" => num < Num(bus, len))
    BY <1>1 DEF Progress, Chunks, Reading, InFrame
  <2>2. Num(bus, len) \in 0 .. 7
    BY <1>1, NumBounds DEF Progress, TypeOK
  <2>3. InFrame => num \in 0 .. 7 /\ (pc = "chunk" => num > 0) /\ (pc = "ask" => num < 7)
    BY <2>1, <2>2
  <2>. QED BY <2>3 DEF InFrame, StepsLeft
<1>2. ASSUME Progress, InFrame, ~skew', RecvStep \/ AskFails PROVE StepsLeft' < StepsLeft
  <2>1. num \in 0 .. 7 /\ (pc = "chunk" => num > 0)
    BY <1>1, <1>2
  <2>2. ~(TakeFrame \/ ReadHeader \/ BadHeader \/ Check)
    BY <1>2 DEF InFrame, TakeFrame, ReadHeader, BadHeader, Check
  <2>3. ~RereadChunk
    BY <1>2 DEF RereadChunk
  <2>4. CASE ReadChunk
    BY <2>1, <2>4 DEF ReadChunk, StepsLeft
  <2>5. CASE TakeChunk \/ AskFails
    BY <2>1, <2>5 DEF TakeChunk, AskFails, AfterAsk, StepsLeft
  <2>6. CASE ReadTail
    BY <2>6 DEF ReadTail, StepsLeft
  <2>. QED BY <1>2, <2>2, <2>3, <2>4, <2>5, <2>6 DEF RecvStep
<1>3. ASSUME [Next]_vars, ~(RecvStep \/ AskFails) PROVE StepsLeft' = StepsLeft
  <2>1. UNCHANGED <<pc, num>>
    BY <1>3 DEF Next, Post, SetDfs, vars, frameVars
  <2>. QED BY <2>1 DEF StepsLeft
<1>4. Progress => StepsLeft \in 0 .. 15 /\ (InFrame => StepsLeft > 0)
  BY <1>1
<1>5. Progress /\ [Next]_vars =>
        [InFrame /\ ~skew' =>
           IF RecvStep \/ AskFails THEN StepsLeft' < StepsLeft ELSE StepsLeft' = StepsLeft]_vars
  BY <1>2, <1>3
<1>. QED BY <1>4, <1>5, ProgressAlways, PTL DEF Spec
=============================================================================
