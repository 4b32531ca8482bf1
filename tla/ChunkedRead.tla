---------------------------- MODULE ChunkedRead ----------------------------
(***************************************************************************)
(* How i2c_recv_task and spi_recv_task read one frame: the header on one   *)
(* BUS_REQ, then the rest in chunks of 512 (I2C) or 1024 (SPI) bytes, each *)
(* on a BUS_REQ of its own.  Sizes are the code's.  A transfer that fails  *)
(* is repeated at the same place and is no step here.  The device is       *)
(* external: it announces chunks, and its headers say any legal length.    *)
(* HostIf takes the whole of this for one step (BusRead).                  *)
(***************************************************************************)
EXTENDS Integers

CONSTANTS
  Buses,     \* the interfaces: I2C, SPI
  Lens,      \* the operand lengths the device sends
  MaxTokens  \* bound: BUS_REQ pulses not yet waited for

HeaderSize == 5       \* GHIFP_HEADER_SIZE
OprLenMax == 4090     \* GHIFP_OPR_LEN_MAX
LocalBuffSz == 4112   \* LOCAL_BUFF_SZ
Dfs == {8, 16}        \* SPI word sizes, in bits

ASSUME BusAssumption == Buses \subseteq {"I2C", "SPI"}
ASSUME LensAssumption == Lens \subseteq 0 .. OprLenMax
ASSUME TokensAssumption == MaxTokens \in Nat \ {0}

\* GHIFP_DATA_SIZE, GHIFP_FRAME_SIZE: a frame without operands has no checksum.
DataSize(n) == n + 1
FrameSize(n) == IF n = 0 THEN HeaderSize ELSE HeaderSize + DataSize(n)

Chunk(b) == IF b = "I2C" THEN 512 ELSE 1024

\* rec_size: on SPI one byte more than the frame.
RecSize(b, n) == DataSize(n) + HeaderSize + (IF b = "SPI" THEN 1 ELSE 0)

\* Mutant: a last chunk that is full counts as one more.
NumNoFullChunk(b, n) == RecSize(b, n) \div Chunk(b)

\* Mutant: the last chunk, full or not, is counted with the full ones.
NumRoundedUp(b, n) == RecSize(b, n) \div Chunk(b) + 1

\* Full chunks to read before the last one.
Num(b, n) == RecSize(b, n) \div Chunk(b) + (IF RecSize(b, n) % Chunk(b) # 0 THEN 0 ELSE -1)

VARIABLES
  bus,      \* the interface the task is of
  pc,       \* where the receive task is
  dfs,      \* g_spi_dfs; 8 on I2C
  tokens,   \* g_i2c_bus_req_sem or g_spi_bus_req_sem
  len,      \* opr_len
  num,      \* full chunks still to read
  first,    \* the next chunk read is the frame's first
  finished, \* finished_size: where the next chunk goes in the local buffer
  taken,    \* ghost: BUS_REQs taken for this frame
  top,      \* ghost: one past the last byte of the buffer it was read into
  hurried,  \* ghost: a wait for one of its chunks failed
  skew      \* ghost: bytes of it were read that the task did not count

frameVars == <<len, num, first, finished, taken, top, hurried, skew>>
vars == <<bus, pc, dfs, tokens, frameVars>>

Pcs == {"wait", "header", "chunk", "ask", "tail", "check"}

TypeOK ==
  /\ bus \in Buses
  /\ pc \in Pcs
  /\ dfs \in Dfs /\ (bus = "I2C" => dfs = 8)
  /\ tokens \in 0 .. MaxTokens
  /\ len \in 0 .. OprLenMax
  /\ num \in Nat
  /\ first \in BOOLEAN
  /\ finished \in Nat
  /\ taken \in Nat
  /\ top \in Nat
  /\ hurried \in BOOLEAN
  /\ skew \in BOOLEAN

Init ==
  /\ bus \in Buses
  /\ pc = "wait" /\ dfs = 8 /\ tokens = 0
  /\ len = 0 /\ num = 0 /\ first = TRUE /\ finished = 0
  /\ taken = 0 /\ top = 0 /\ hurried = FALSE /\ skew = FALSE

\* Bytes that spi_read moves, and returns, when asked for n; i2c_read moves n.
Moved(n) == IF dfs = 16 /\ n % 2 = 1 THEN n + 1 ELSE n

\* The buffer is filled from where up to where + n, if it was not before.
Filled(where, n) == IF top < where + n THEN where + n ELSE top

-----------------------------------------------------------------------------

\* bus_req_wait_i2c, bus_req_wait_spi: the wait for a frame.  It is repeated
\* if it fails.
TakeFrame ==
  /\ pc = "wait" /\ tokens > 0
  /\ tokens' = tokens - 1
  /\ pc' = "header"
  /\ len' = 0 /\ num' = 0 /\ first' = TRUE /\ finished' = 0
  /\ taken' = 1 /\ top' = 0 /\ hurried' = FALSE /\ skew' = FALSE
  /\ UNCHANGED <<bus, dfs>>

\* The header has been read and says n operands: what is left to read.
Plan(n) ==
  /\ len' = n
  /\ num' = Num(bus, n)
  /\ finished' = Moved(HeaderSize)
  /\ top' = Moved(HeaderSize)
  /\ pc' = IF Num(bus, n) = 0 THEN "tail" ELSE "chunk"
  /\ UNCHANGED <<bus, dfs, tokens, first, taken, hurried, skew>>

ReadHeader == pc = "header" /\ \E n \in Lens : Plan(n)

\* check_header fails: I2C waits for the next frame, SPI goes on with the
\* opr_len = 0 it had set.
BadHeader ==
  /\ pc = "header"
  /\ \/ bus = "SPI" /\ Plan(0)
     \/ bus = "I2C" /\ pc' = "wait" /\ UNCHANGED <<bus, dfs, tokens, frameVars>>

\* Mutant: the header is not taken off the first chunk.
ChunkReadFull == Chunk(bus)

\* The size asked for when a full chunk is read: the header was the beginning
\* of the first one.
ChunkRead == IF first THEN Chunk(bus) - finished ELSE Chunk(bus)

\* Mutant: I2C takes the transfer's result for a failure, as SPI does.
ReadChunkAgain == pc = "chunk" /\ UNCHANGED vars

\* The chunk is read and counted.
ReadChunk ==
  /\ pc = "chunk"
  /\ bus = "SPI" => first /\ Moved(ChunkRead) = ChunkRead
  /\ top' = Filled(finished, ChunkRead)
  /\ finished' = finished + ChunkRead
  /\ first' = FALSE
  /\ num' = num - 1
  /\ pc' = "ask"
  /\ UNCHANGED <<bus, dfs, tokens, len, taken, hurried, skew>>

\* spi_read returns another size than the loop around it expects (of the
\* second chunk: 0, of the first: the size asked for, which 16-bit words may
\* round up): the task reads again, at the same place.
RereadChunk ==
  /\ pc = "chunk" /\ bus = "SPI"
  /\ first => Moved(ChunkRead) # ChunkRead
  /\ top' = Filled(finished, Moved(ChunkRead))
  /\ skew' = TRUE
  /\ UNCHANGED <<bus, pc, dfs, tokens, len, num, first, finished, taken, hurried>>

AfterAsk == IF num = 0 THEN "tail" ELSE "chunk"

\* The wait for the next chunk.
TakeChunk ==
  /\ pc = "ask" /\ tokens > 0
  /\ tokens' = tokens - 1
  /\ taken' = taken + 1
  /\ pc' = AfterAsk
  /\ UNCHANGED <<bus, dfs, len, num, first, finished, top, hurried, skew>>

\* That wait fails, and "continue" goes on to the next chunk.
AskFails ==
  /\ pc = "ask"
  /\ hurried' = TRUE
  /\ pc' = AfterAsk
  /\ UNCHANGED <<bus, dfs, tokens, len, num, first, finished, taken, top, skew>>

\* Mutant: what is left is computed as if there had always been full chunks.
TailReadWhole == RecSize(bus, len) % Chunk(bus)

\* What is left after the full chunks; if there were none, the header counts.
TailRead == IF first THEN (RecSize(bus, len) - finished) % Chunk(bus) ELSE RecSize(bus, len) % Chunk(bus)

ReadTail ==
  /\ pc = "tail"
  /\ top' = Filled(finished, Moved(TailRead))
  /\ pc' = "check"
  /\ UNCHANGED <<bus, dfs, tokens, len, num, first, finished, taken, hurried, skew>>

\* check_data and what is done with the frame (HostIf): then the next frame.
Check == pc = "check" /\ pc' = "wait" /\ UNCHANGED <<bus, dfs, tokens, frameVars>>

-----------------------------------------------------------------------------

\* A BUS_REQ pulse (bus_req_handler).
Post ==
  /\ tokens < MaxTokens
  /\ tokens' = tokens + 1
  /\ UNCHANGED <<bus, pc, dfs, frameVars>>

\* SPICONF (change_dfs), in the console task, at any moment.
SetDfs ==
  /\ bus = "SPI"
  /\ \E d \in Dfs : dfs' = d
  /\ UNCHANGED <<bus, pc, tokens, frameVars>>

RecvStep ==
  \/ TakeFrame \/ ReadHeader \/ BadHeader \/ ReadChunk \/ RereadChunk
  \/ TakeChunk \/ ReadTail \/ Check

Next == RecvStep \/ AskFails \/ Post \/ SetDfs

Spec == Init /\ [][Next]_vars

\* The task runs, and the device announces every chunk: the code waits for it
\* without a timeout.
FairSpec == Spec /\ WF_vars(RecvStep) /\ WF_vars(Post)

-----------------------------------------------------------------------------
(* Properties.                                                             *)

\* The chunk arithmetic and the word rounding never make the task write past
\* its local buffer (LOCAL_BUFF_SZ), for any length up to GHIFP_OPR_LEN_MAX
\* and wherever SPICONF changes the word size.
ReadsInBuffer == top <= LocalBuffSz

\* The last chunk is full and not the first: no read is left for it.
LastChunkLost(b, n) == RecSize(b, n) % Chunk(b) = 0 /\ RecSize(b, n) > Chunk(b)

\* When check_data is called the buffer holds the whole frame, unless its last
\* chunk is full, or bytes were read without being counted.
CheckedIsWhole ==
  pc = "check" /\ ~skew /\ ~LastChunkLost(bus, len) => top >= FrameSize(len)

\* Nothing is read that the device has not announced, but for the byte that
\* 16-bit words may round up to, unless a wait failed or chunks are reread.
ReadsAnnounced ==
  ~hurried /\ ~skew => top <= Chunk(bus) * taken + (IF bus = "SPI" THEN 1 ELSE 0)

\* As many BUS_REQs are taken as rec_size bytes have chunks, no more and no
\* fewer: the next frame's BUS_REQ is still there for it.
OneRequestPerChunk ==
  pc = "check" /\ ~hurried =>
    Chunk(bus) * (taken - 1) < RecSize(bus, len) /\ RecSize(bus, len) <= Chunk(bus) * taken

\* A frame the task has begun to read is handed to check_data in the end,
\* unless the task reads one of its chunks again: on I2C it never does, on SPI
\* it does so for ever with the second chunk of every frame, and with the first
\* for as long as 16-bit words make its size odd.
FrameIsChecked == pc \in {"chunk", "ask", "tail"} ~> pc = "check" \/ skew

\* "Read data." ... "Check data" (host_if_i2c.c:201, 279): what is checked has
\* been read.
CheckedFrameIsRead == pc = "check" => top >= FrameSize(len)
=============================================================================
