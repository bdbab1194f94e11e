------------------------ MODULE ChunkTransferProofs ------------------------
(***************************************************************************)
(* Proofs about ChunkAssembly and ChunkTransfer, for any number of         *)
(* devices, sets, sizes and chunks.  Of ChunkAssembly: types, bytes at     *)
(* their places, and nothing received is lost.  Of ChunkTransfer: the      *)
(* engine keeps no buffer that belongs to nobody, and what it hands over   *)
(* is what the senders sent (ChunkTransfer implements BlobTransfer), with  *)
(* any number of transfers and connections that break at any point.        *)
(***************************************************************************)
EXTENDS ChunkTransfer, SequenceTheorems, TLAPS

(* The chunks of ChunkNext.                                                *)
SomeChunk ==
  {Chunk(set, start, size, total, src) :
     set \in SetId, start \in 0 .. MaxTotal, size \in 0 .. MaxTotal,
     total \in 0 .. MaxTotal, src \in Source}

AnyChunk == {c \in SomeChunk : End(c) <= MaxTotal}

(* A chunk says where its bytes go, and its data are the bytes of there.   *)
LEMMA ChunkFields ==
  ASSUME NEW c \in AnyChunk
  PROVE  /\ c.set_id \in SetId
         /\ c.start_byte \in Nat /\ c.chunk_size \in Nat /\ End(c) \in 0 .. MaxTotal
         /\ End(c) = c.start_byte + c.chunk_size
         /\ c.total_size \in 0 .. MaxTotal
         /\ \A i \in 1 .. c.chunk_size :
              /\ c.data[i] \in Byte
              /\ c.data[i].set = c.set_id /\ c.data[i].at = c.start_byte + i
<1>1. PICK set \in SetId, start \in 0 .. MaxTotal, size \in 0 .. MaxTotal,
           total \in 0 .. MaxTotal, src \in Source :
        c = Chunk(set, start, size, total, src)
  BY DEF AnyChunk, SomeChunk
<1>2. start + size <= MaxTotal
  BY <1>1 DEF AnyChunk, End, Chunk
<1>3. /\ c.set_id = set /\ c.start_byte = start /\ c.chunk_size = size
      /\ c.total_size = total
      /\ c.data = [i \in 1 .. size |-> [set |-> set, at |-> start + i, of |-> src]]
  BY <1>1 DEF Chunk
<1>4. \A i \in 1 .. size : start + i \in 1 .. MaxTotal
  BY <1>2, ChunkAssumption
<1> QED
  BY <1>2, <1>3, <1>4, ChunkAssumption DEF End, Byte

(* A run of zeros is a sequence of cells.                                  *)
LEMMA ZerosType ==
  ASSUME NEW n \in Nat
  PROVE  Zeros(n) \in Seq(Cell) /\ Len(Zeros(n)) = n /\ \A i \in 1 .. n : Zeros(n)[i] = Zero
BY DEF Zeros, Cell

Old(c) == IF chunk_buffers[c.set_id] = NoBuffer THEN <<>> ELSE chunk_buffers[c.set_id]

(* The buffer a chunk is written to: long enough for its total, no longer  *)
(* than allowed, and with all the bytes the old one had, where they were.  *)
LEMMA BufferKeeps ==
  ASSUME ChunkTypeOK, NEW c \in AnyChunk
  PROVE  /\ Buffer(c) \in Seq(Cell)
         /\ Len(Buffer(c)) = IF Len(Old(c)) < c.total_size THEN c.total_size ELSE Len(Old(c))
         /\ c.total_size <= Len(Buffer(c)) /\ Len(Buffer(c)) <= MaxTotal
         /\ Old(c) \in Seq(Cell) /\ Len(Old(c)) <= Len(Buffer(c))
         /\ \A i \in 1 .. Len(Buffer(c)) :
              Buffer(c)[i] = IF i <= Len(Old(c)) THEN Old(c)[i] ELSE Zero
<1> DEFINE old == Old(c)
           more == c.total_size - Len(old)
<1>1. c.set_id \in SetId /\ c.total_size \in 0 .. MaxTotal
  BY ChunkFields
<1>2. old \in Seq(Cell) /\ Len(old) <= MaxTotal
  BY <1>1, ChunkAssumption DEF ChunkTypeOK, Old
<1>3. Len(old) \in Nat
  BY <1>2
<1>4. Buffer(c) = IF Len(old) < c.total_size THEN old \o Zeros(more) ELSE old
  BY DEF Buffer, Old
<1> HIDE DEF old
<1>5. CASE Len(old) < c.total_size
  <2>1. more \in Nat
    BY <1>1, <1>3, <1>5, ChunkAssumption
  <2>2. Zeros(more) \in Seq(Cell) /\ Len(Zeros(more)) = more
        /\ \A i \in 1 .. more : Zeros(more)[i] = Zero
    BY <2>1, ZerosType
  <2> HIDE DEF more
  <2>3. Buffer(c) = old \o Zeros(more)
    BY <1>4, <1>5
  <2>4. Len(old) + more = c.total_size
    BY <1>1, <1>3, ChunkAssumption DEF more
  <2>5. Buffer(c) \in Seq(Cell) /\ Len(Buffer(c)) = c.total_size
    <3>1. /\ old \o Zeros(more) \in Seq(Cell)
          /\ Len(old \o Zeros(more)) = Len(old) + Len(Zeros(more))
      BY <1>2, <2>2, ConcatProperties
    <3> QED
      BY <2>2, <2>3, <2>4, <3>1
  <2>6. ASSUME NEW i \in 1 .. Len(Buffer(c))
        PROVE  Buffer(c)[i] = IF i <= Len(old) THEN old[i] ELSE Zero
    <3>1. CASE i <= Len(old)
      BY <1>2, <2>2, <2>3, <3>1
    <3>2. CASE ~(i <= Len(old))
      <4>1. i - Len(old) \in 1 .. more
        BY <1>1, <1>3, <2>1, <2>4, <2>5, <3>2, ChunkAssumption
      <4>2. Buffer(c)[i] = Zeros(more)[i - Len(old)]
        BY <1>2, <2>1, <2>2, <2>3, <2>5, <3>2, <4>1
      <4> QED
        BY <2>2, <3>2, <4>1, <4>2
    <3> QED
      BY <3>1, <3>2
  <2>7. /\ c.total_size <= Len(Buffer(c)) /\ Len(Buffer(c)) <= MaxTotal
        /\ Len(old) <= Len(Buffer(c))
    BY <1>1, <1>3, <1>5, <2>5, ChunkAssumption
  <2> QED
    BY <1>2, <1>5, <2>5, <2>6, <2>7 DEF old
<1>6. CASE ~(Len(old) < c.total_size)
  BY <1>1, <1>2, <1>3, <1>4, <1>6, ChunkAssumption DEF old
<1> QED
  BY <1>5, <1>6

Inv == ChunkTypeOK /\ BytesInPlace

(* A buffer an entry already had, or the empty one, has bytes in place.    *)
LEMMA BufferInPlace ==
  ASSUME Inv, NEW c \in AnyChunk
  PROVE  InPlace(Buffer(c), c.set_id)
<1>1. c.set_id \in SetId
  BY ChunkFields
<1>2. InPlace(Old(c), c.set_id)
  BY <1>1 DEF Inv, BytesInPlace, InPlace, Old
<1>3. Len(Old(c)) \in Nat /\ Len(Buffer(c)) \in Nat
  BY BufferKeeps DEF Inv
<1>4. \A i \in 1 .. Len(Buffer(c)) :
        Buffer(c)[i] = IF i <= Len(Old(c)) THEN Old(c)[i] ELSE Zero
  BY BufferKeeps DEF Inv
<1> QED
  BY <1>2, <1>3, <1>4 DEF InPlace

(* What a chunk within bounds makes of its buffer: the same length, cells  *)
(* in place, and a byte wherever there was one.                            *)
LEMMA WrittenKeeps ==
  ASSUME NEW c \in AnyChunk, NEW buffer \in Seq(Cell), InPlace(buffer, c.set_id)
  PROVE  /\ Written(buffer, c) \in Seq(Cell)
         /\ Len(Written(buffer, c)) = Len(buffer)
         /\ InPlace(Written(buffer, c), c.set_id)
         /\ \A i \in 1 .. Len(buffer) : buffer[i] # Zero => Written(buffer, c)[i] # Zero
<1> DEFINE w == Written(buffer, c)
           cell(i) == IF c.start_byte < i /\ i <= End(c)
                      THEN c.data[i - c.start_byte] ELSE buffer[i]
<1>1. Len(buffer) \in Nat /\ \A i \in 1 .. Len(buffer) : buffer[i] \in Cell
  BY ElementOfSeq, LenProperties
<1>2. w = [i \in 1 .. Len(buffer) |-> cell(i)]
  BY DEF Written
<1>3. ASSUME NEW i \in 1 .. Len(buffer), c.start_byte < i, i <= End(c)
      PROVE  /\ cell(i) \in Byte
             /\ cell(i).set = c.set_id /\ cell(i).at = i
  <2>1. c.start_byte \in Nat /\ c.chunk_size \in Nat /\ End(c) = c.start_byte + c.chunk_size
    BY ChunkFields
  <2>2. i - c.start_byte \in 1 .. c.chunk_size /\ c.start_byte + (i - c.start_byte) = i
    BY <1>1, <1>3, <2>1
  <2> QED
    BY <1>3, <2>2, ChunkFields
<1>4. ASSUME NEW i \in 1 .. Len(buffer), ~(c.start_byte < i /\ i <= End(c))
      PROVE  cell(i) = buffer[i]
  BY <1>4
<1> HIDE DEF cell
<1>5. \A i \in 1 .. Len(buffer) : cell(i) \in Cell
  BY <1>1, <1>3, <1>4 DEF Cell
<1>6. w \in Seq(Cell) /\ Len(w) = Len(buffer)
  BY <1>1, <1>2, <1>5, IsASeq
<1>7. ASSUME NEW i \in 1 .. Len(buffer)
      PROVE  /\ w[i] # Zero => w[i].set = c.set_id /\ w[i].at = i
             /\ buffer[i] # Zero => w[i] # Zero
  <2>1. w[i] = cell(i)
    BY <1>2
  <2>2. CASE c.start_byte < i /\ i <= End(c)
    BY <1>3, <2>1, <2>2, ChunkAssumption
  <2>3. CASE ~(c.start_byte < i /\ i <= End(c))
    BY <1>4, <2>1, <2>3 DEF InPlace
  <2> QED
    BY <2>2, <2>3
<1> QED
  BY <1>6, <1>7 DEF InPlace

(* The bytes of set s that were held before a call are held after it, or   *)
(* in the blob the call hands over.                                        *)
Kept(s) ==
  chunk_buffers[s] # NoBuffer =>
    LET now == IF chunk_buffers'[s] # NoBuffer THEN chunk_buffers'[s]
               ELSE out'[Len(out')].blob
    IN  \A i \in 1 .. Len(chunk_buffers[s]) :
          chunk_buffers[s][i] # Zero => i <= Len(now) /\ now[i] # Zero

(* The reports of a call are reports, and name what they are about.        *)
LEMMA ReportTypes ==
  ASSUME NEW d \in Device, NEW c \in AnyChunk, NEW blob \in Seq(Cell)
  PROVE  /\ <<ErrorLog>> \in Seq(Report)
         /\ <<Progress(d, c)>> \in Seq(Report)
         /\ <<Progress(d, c), Complete(d, c, blob)>> \in Seq(Report)
BY ChunkFields DEF Report, ErrorLog, Progress, Complete

(* handle_chunk, whatever the chunk: its three outcomes keep the buffers   *)
(* typed and in place and lose nothing.                                    *)
LEMMA HandleStep ==
  ASSUME Inv, NEW d \in Device, NEW c \in AnyChunk, HandleChunk(d, c)
  PROVE  Inv' /\ \A s \in SetId : Kept(s)
<1> DEFINE b == Buffer(c)
           w == Written(b, c)
           old == Old(c)
<1>1. c.set_id \in SetId /\ End(c) \in 0 .. MaxTotal /\ c.total_size \in 0 .. MaxTotal
  BY ChunkFields
<1>2. /\ b \in Seq(Cell) /\ Len(b) <= MaxTotal
      /\ old \in Seq(Cell) /\ Len(old) <= Len(b)
      /\ \A i \in 1 .. Len(b) : b[i] = IF i <= Len(old) THEN old[i] ELSE Zero
  BY BufferKeeps DEF Inv
<1>3. InPlace(b, c.set_id)
  BY BufferInPlace
<1>4. /\ w \in Seq(Cell) /\ Len(w) = Len(b) /\ InPlace(w, c.set_id)
      /\ \A i \in 1 .. Len(b) : b[i] # Zero => w[i] # Zero
  BY <1>2, <1>3, WrittenKeeps
<1>5. b # NoBuffer /\ w # NoBuffer
  BY <1>2, <1>4, ChunkAssumption
<1>6. chunk_buffers[c.set_id] # NoBuffer => old = chunk_buffers[c.set_id]
  BY DEF Old
<1>7. \A i \in 1 .. Len(old) : old[i] # Zero => i <= Len(b) /\ b[i] # Zero /\ w[i] # Zero
  <2>1. Len(old) \in Nat /\ Len(b) \in Nat
    BY <1>2
  <2> QED
    BY <1>2, <1>4, <2>1
<1>8. /\ <<ErrorLog>> \in Seq(Report)
      /\ <<Progress(d, c)>> \in Seq(Report)
      /\ <<Progress(d, c), Complete(d, c, w)>> \in Seq(Report)
  BY <1>4, ReportTypes
<1>9. /\ chunk_buffers \in [SetId -> Seq(Cell) \cup {NoBuffer}]
      /\ \A s \in SetId : chunk_buffers[s] # NoBuffer =>
           Len(chunk_buffers[s]) <= MaxTotal /\ InPlace(chunk_buffers[s], s)
  BY DEF Inv, ChunkTypeOK, BytesInPlace
<1> HIDE DEF b, w, old
(* A call that leaves a good buffer for the set, and reports no blob.      *)
<1>10. ASSUME NEW after \in Seq(Cell), Len(after) = Len(b), InPlace(after, c.set_id),
              \A i \in 1 .. Len(old) : old[i] # Zero => after[i] # Zero,
              chunk_buffers' = [chunk_buffers EXCEPT ![c.set_id] = after],
              out' \in Seq(Report),
              \A n \in 1 .. Len(out') : out'[n].kind # "ChunkSetComplete"
       PROVE  Inv' /\ \A s \in SetId : Kept(s)
  <2>1. chunk_buffers'[c.set_id] = after /\ after # NoBuffer
    BY <1>1, <1>9, <1>10, ChunkAssumption
  <2>2. \A s \in SetId \ {c.set_id} : chunk_buffers'[s] = chunk_buffers[s]
    BY <1>9, <1>10
  <2>3. ChunkTypeOK'
    BY <1>2, <1>9, <1>10, <2>1, <2>2 DEF ChunkTypeOK
  <2>4. BytesInPlace'
    BY <1>9, <1>10, <2>1, <2>2 DEF BytesInPlace, InPlace
  <2>5. ASSUME NEW s \in SetId PROVE Kept(s)
    <3>1. CASE s = c.set_id
      BY <1>6, <1>7, <1>10, <2>1, <3>1 DEF Kept
    <3>2. CASE s # c.set_id /\ chunk_buffers[s] # NoBuffer
      <4>1. chunk_buffers[s] \in Seq(Cell)
        BY <1>9, <3>2
      <4>2. Len(chunk_buffers[s]) \in Nat
        BY <4>1
      <4> QED
        BY <2>2, <3>2, <4>2 DEF Kept
    <3> QED
      BY <3>1, <3>2 DEF Kept
  <2> QED
    BY <2>3, <2>4, <2>5 DEF Inv
<1>11. CASE ChunkOutOfBounds(d, c)
  <2>1. chunk_buffers' = [chunk_buffers EXCEPT ![c.set_id] = b] /\ out' = <<ErrorLog>>
    BY <1>11 DEF ChunkOutOfBounds, b
  <2>2. \A n \in 1 .. Len(out') : out'[n].kind # "ChunkSetComplete"
    BY <2>1 DEF ErrorLog
  <2> QED
    BY <1>2, <1>3, <1>7, <1>8, <1>10, <2>1, <2>2
<1>12. CASE ChunkStored(d, c)
  <2>1. chunk_buffers' = [chunk_buffers EXCEPT ![c.set_id] = w] /\ out' = <<Progress(d, c)>>
    BY <1>12 DEF ChunkStored, w, b
  <2>2. \A n \in 1 .. Len(out') : out'[n].kind # "ChunkSetComplete"
    BY <2>1 DEF Progress
  <2> QED
    BY <1>4, <1>7, <1>8, <1>10, <2>1, <2>2
<1>13. CASE ChunkCompletes(d, c)
  <2>1. /\ chunk_buffers' = [chunk_buffers EXCEPT ![c.set_id] = NoBuffer]
        /\ out' = <<Progress(d, c), Complete(d, c, w)>>
    BY <1>13 DEF ChunkCompletes, w, b
  <2>2. chunk_buffers'[c.set_id] = NoBuffer
        /\ \A s \in SetId \ {c.set_id} : chunk_buffers'[s] = chunk_buffers[s]
    BY <1>1, <1>9, <2>1
  <2>3. ChunkTypeOK'
    BY <1>8, <1>9, <2>1, <2>2 DEF ChunkTypeOK
  <2>4. BytesInPlace'
    <3>1. \A n \in 1 .. Len(out') :
            out'[n].kind = "ChunkSetComplete" =>
              out'[n].blob = w /\ out'[n].set_id = c.set_id
      BY <2>1 DEF Progress, Complete
    <3>2. \A n \in 1 .. Len(out') :
            out'[n].kind = "ChunkSetComplete" => InPlace(out'[n].blob, out'[n].set_id)
      BY <1>4, <3>1
    <3>3. \A s \in SetId : chunk_buffers'[s] # NoBuffer => InPlace(chunk_buffers'[s], s)
      BY <1>9, <2>2
    <3> QED
      BY <3>2, <3>3 DEF BytesInPlace
  <2>5. ASSUME NEW s \in SetId PROVE Kept(s)
    <3>1. CASE s = c.set_id
      <4>1. out'[Len(out')].blob = w
        BY <2>1 DEF Complete
      <4> QED
        BY <1>4, <1>6, <1>7, <2>2, <3>1, <4>1 DEF Kept
    <3>2. CASE s # c.set_id /\ chunk_buffers[s] # NoBuffer
      <4>1. chunk_buffers[s] \in Seq(Cell)
        BY <1>9, <3>2
      <4>2. Len(chunk_buffers[s]) \in Nat
        BY <4>1
      <4> QED
        BY <2>2, <3>2, <4>2 DEF Kept
    <3> QED
      BY <3>1, <3>2 DEF Kept
  <2> QED
    BY <2>3, <2>4, <2>5 DEF Inv
<1> QED
  BY <1>11, <1>12, <1>13 DEF HandleChunk

(* A new engine holds no bytes.                                            *)
LEMMA InvInit == ChunkInit => Inv
<1> SUFFICES ASSUME ChunkInit PROVE Inv
  OBVIOUS
<1>1. out \in Seq(Report) /\ Len(out) = 0
  BY DEF ChunkInit
<1> QED
  BY <1>1 DEF ChunkInit, Inv, ChunkTypeOK, BytesInPlace

(* Every chunk of ChunkNext is a chunk of HandleStep.                      *)
LEMMA NextHandles ==
  ASSUME ChunkNext
  PROVE  \E d \in Device, c \in AnyChunk : HandleChunk(d, c)
<1>1. PICK d \in Device, set \in SetId, src \in Source, total \in 0 .. MaxTotal,
           start \in 0 .. MaxTotal, size \in 0 .. MaxTotal :
        start + size <= MaxTotal /\ HandleChunk(d, Chunk(set, start, size, total, src))
  BY DEF ChunkNext
<1>2. Chunk(set, start, size, total, src) \in AnyChunk
  <2>1. Chunk(set, start, size, total, src) \in SomeChunk
    BY DEF SomeChunk
  <2>2. End(Chunk(set, start, size, total, src)) = start + size
    BY DEF End, Chunk
  <2> QED
    BY <1>1, <2>1, <2>2 DEF AnyChunk
<1> QED
  BY <1>1, <1>2

(* Nothing happens, nothing is lost.                                       *)
LEMMA StutterKeeps ==
  ASSUME Inv, UNCHANGED chunkVars
  PROVE  Inv' /\ \A s \in SetId : Kept(s)
<1>1. chunk_buffers' = chunk_buffers /\ out' = out
  BY DEF chunkVars
<1>2. \A s \in SetId : chunk_buffers[s] # NoBuffer => Len(chunk_buffers[s]) \in Nat
  BY DEF Inv, ChunkTypeOK
<1> QED
  BY <1>1, <1>2 DEF Inv, ChunkTypeOK, BytesInPlace, InPlace, Kept

(* Whatever chunks arrive, of whatever set, size, total and order: types,  *)
(* and every byte held or handed over is where its sender put it, in the   *)
(* set it was sent for (BytesInPlace).                                     *)
THEOREM ChunksInPlace == ChunkSpec => [](ChunkTypeOK /\ BytesInPlace)
<1>1. Inv /\ [ChunkNext]_chunkVars => Inv'
  BY NextHandles, HandleStep, StutterKeeps
<1>2. Inv => ChunkTypeOK /\ BytesInPlace
  BY DEF Inv
<1> QED
  BY <1>1, <1>2, InvInit, PTL DEF ChunkSpec

(* ... and no byte received is lost to anything but a later chunk for the  *)
(* same place (ReceivedBytesStay).                                         *)
THEOREM ChunksStay == ChunkSpec => ReceivedBytesStay
<1>1. Inv /\ [ChunkNext]_chunkVars => Inv' /\ [\A s \in SetId : Kept(s)]_chunkVars
  BY NextHandles, HandleStep, StutterKeeps
<1> QED
  BY <1>1, InvInit, PTL DEF ChunkSpec, ReceivedBytesStay, Kept

-----------------------------------------------------------------------------
(* The senders and their links.                                            *)

Set(t) == offer[t].set
Total(t) == offer[t].total
Offered(t) == offer[t] # NotOffered

Item == [of : Transfer, chunk : AnyChunk]
Position(d) == 1 .. Len(link[d])

Sends(d, t) == sending[d] # Idle /\ sending[d].of = t
Last(x) == End(x.chunk) = x.chunk.total_size

(* A transfer of which the engine may still see a chunk.                   *)
Pending(t) == Sends(t[1], t) \/ \E n \in Position(t[1]) : link[t[1]][n].of = t

(* An item on the link of d is a chunk of a transfer of d.                 *)
ItemOK(d, x) ==
  /\ x.of[1] = d /\ Offered(x.of)
  /\ \E start \in 0 .. MaxTotal, size \in 1 .. MaxTotal :
       /\ start + size <= Total(x.of)
       /\ x.chunk = Chunk(Set(x.of), start, size, Total(x.of), x.of)

Types ==
  /\ offer \in [Transfer -> [set : SetId \ StraySet, total : 1 .. MaxTotal] \cup {NotOffered}]
  /\ sending \in [Device -> [of : Transfer, sent : 0 .. MaxTotal] \cup {Idle}]
  /\ link \in [Device -> Seq(Item)]
  /\ broken \in SUBSET Transfer
  /\ \A d \in Device : sending[d] # Idle =>
       /\ sending[d].of[1] = d /\ Offered(sending[d].of)
       /\ sending[d].sent < Total(sending[d].of)
  /\ \A d \in Device : \A n \in Position(d) : ItemOK(d, link[d][n])
  /\ \A t \in broken : Offered(t)

(* Transfers are started, sent and read in the order of their numbers, and *)
(* the chunks of each in the order of their bytes, without a gap.          *)
Precedes(x, t, start) ==
  /\ x.of[2] <= t[2]
  /\ x.of = t => End(x.chunk) <= start

Follows(x, t, start) == IF x.of = t THEN start = End(x.chunk) ELSE start = 0

Ordered ==
  /\ \A t \in Transfer : Offered(t) => \A j \in 1 .. t[2] : Offered(<<t[1], j>>)
  /\ \A t \in Transfer, d \in Device : sending[d] # Idle /\ t[1] = d /\ Offered(t) =>
       t[2] <= sending[d].of[2]
  /\ \A d \in Device : \A n, m \in Position(d) : n < m =>
       Precedes(link[d][n], link[d][m].of, link[d][m].chunk.start_byte)
  /\ \A d \in Device : sending[d] # Idle => \A n \in Position(d) :
       Precedes(link[d][n], sending[d].of, sending[d].sent)

Gapless ==
  /\ \A d \in Device : \A n \in Position(d) : n + 1 \in Position(d) =>
       Follows(link[d][n], link[d][n + 1].of, link[d][n + 1].chunk.start_byte)
  /\ \A d \in Device : sending[d] # Idle /\ link[d] # <<>> =>
       Follows(link[d][Len(link[d])], sending[d].of, sending[d].sent)

(* Of a broken transfer the end will not come, of any other it will.       *)
Accounted ==
  /\ \A t \in broken : ~Open(t)
  /\ \A t \in Transfer : Pending(t) => Open(t) \/ t \in broken

(* A set is used by one device at a time; what follows a broken transfer   *)
(* in its set is not shorter.                                              *)
Earlier(t, u) == t[1] # u[1] \/ t[2] < u[2]

Exclusive ==
  \A t, u \in Transfer : Pending(t) /\ Pending(u) /\ Set(t) = Set(u) => t[1] = u[1]

Heirs ==
  \A t \in broken, u \in Transfer :
    Pending(u) /\ Set(t) = Set(u) /\ Earlier(t, u) => Total(t) <= Total(u)

(* A buffer has the length of the transfer that wrote to it last.          *)
Owns(t, s) ==
  /\ Offered(t) /\ Set(t) = s
  /\ Open(t) \/ t \in broken
  /\ Len(chunk_buffers[s]) = Total(t)
  /\ \A u \in Transfer : Pending(u) /\ Set(u) = s => u = t \/ Earlier(t, u)

Owned ==
  \A s \in SetId \ StraySet : chunk_buffers[s] # NoBuffer => \E t \in Transfer : Owns(t, s)

(* The bytes before the next chunk to be read have arrived.                *)
Sent(s, i, t) == [set |-> s, at |-> i, of |-> t]

Arrived(t, upto) ==
  upto > 0 => /\ chunk_buffers[Set(t)] # NoBuffer
              /\ upto <= Len(chunk_buffers[Set(t)])
              /\ \A i \in 1 .. upto : chunk_buffers[Set(t)][i] = Sent(Set(t), i, t)

Contents ==
  \A d \in Device :
    /\ link[d] # <<>> => Arrived(Head(link[d]).of, Head(link[d]).chunk.start_byte)
    /\ link[d] = <<>> /\ sending[d] # Idle => Arrived(sending[d].of, sending[d].sent)

(* What was handed over last, if not by the stranger, was a whole blob.    *)
Delivered ==
  LET last == out[Len(out)]
  IN  out # <<>> /\ last.kind = "ChunkSetComplete" /\ last.device_id # Stranger =>
        \E t \in Transfer : /\ Offered(t)
                           /\ last.device_id = t[1] /\ last.set_id = Set(t)
                           /\ last.blob = BlobOf(t)

TransferInv ==
  /\ Inv /\ Types /\ Ordered /\ Gapless /\ Accounted /\ Exclusive /\ Heirs
  /\ Owned /\ Contents /\ Delivered
-----------------------------------------------------------------------------
(* Transfers and items.                                                    *)

LEMMA TransferFacts ==
  /\ \A t \in Transfer : /\ t[1] \in Device /\ t[1] # Stranger /\ t = <<t[1], t[2]>>
                         /\ t[2] \in Nat /\ t[2] >= 1 /\ t[2] <= MaxTransfers[t[1]]
  /\ \A d \in Device : \A k \in 1 .. MaxTransfers[d] : <<d, k>> \in Transfer
  /\ \A d \in Device : MaxTransfers[d] \in Nat
<1>1. \A d \in Device : MaxTransfers[d] \in Nat
  BY TransferAssumption
<1>2. ASSUME NEW t \in Transfer
      PROVE  /\ t[1] \in Device /\ t[1] # Stranger /\ t = <<t[1], t[2]>>
             /\ t[2] \in Nat /\ t[2] >= 1 /\ t[2] <= MaxTransfers[t[1]]
  <2>1. PICK d \in Device : t \in {d} \X (1 .. MaxTransfers[d])
    BY DEF Transfer
  <2> QED
    BY <1>1, <2>1, TransferAssumption
<1>3. ASSUME NEW d \in Device, NEW k \in 1 .. MaxTransfers[d] PROVE <<d, k>> \in Transfer
  BY DEF Transfer
<1> QED
  BY <1>1, <1>2, <1>3

(* What the engine may rely on in a chunk from the link of d.              *)
ItemFacts(d, x) ==
  /\ x.of \in Transfer /\ x.of[1] = d /\ Offered(x.of) /\ x.chunk \in AnyChunk
  /\ Set(x.of) \in SetId \ StraySet /\ x.chunk.set_id = Set(x.of)
  /\ Total(x.of) \in 1 .. MaxTotal /\ x.chunk.total_size = Total(x.of)
  /\ x.chunk.start_byte \in Nat /\ End(x.chunk) \in Nat
  /\ x.chunk.start_byte < End(x.chunk) /\ End(x.chunk) <= Total(x.of)
  /\ \A i \in 1 .. Total(x.of) : x.chunk.start_byte < i /\ i <= End(x.chunk) =>
       x.chunk.data[i - x.chunk.start_byte] = Sent(Set(x.of), i, x.of)

LEMMA OfferFacts ==
  ASSUME Types, NEW t \in Transfer, Offered(t)
  PROVE  /\ offer[t] = [set |-> Set(t), total |-> Total(t)]
         /\ Set(t) \in SetId \ StraySet /\ Total(t) \in 1 .. MaxTotal
BY DEF Types, Offered, Set, Total

LEMMA OneItem ==
  ASSUME Types, NEW d, NEW x \in Item, ItemOK(d, x)
  PROVE  ItemFacts(d, x)
<1>1. PICK start \in 0 .. MaxTotal, size \in 1 .. MaxTotal :
        /\ start + size <= Total(x.of)
        /\ x.chunk = Chunk(Set(x.of), start, size, Total(x.of), x.of)
  BY DEF ItemOK
<1>2. x.of \in Transfer /\ x.of[1] = d /\ Offered(x.of) /\ x.chunk \in AnyChunk
  BY DEF ItemOK, Item
<1>3. Set(x.of) \in SetId \ StraySet /\ Total(x.of) \in 1 .. MaxTotal
  BY <1>2, OfferFacts
<1>4. /\ x.chunk.set_id = Set(x.of) /\ x.chunk.total_size = Total(x.of)
      /\ x.chunk.start_byte = start /\ End(x.chunk) = start + size
      /\ x.chunk.data = [i \in 1 .. size |-> Sent(Set(x.of), start + i, x.of)]
  BY <1>1 DEF Chunk, End, Sent
<1>5. ASSUME NEW i \in 1 .. Total(x.of), start < i, i <= start + size
      PROVE  x.chunk.data[i - start] = Sent(Set(x.of), i, x.of)
  <2>1. i - start \in 1 .. size /\ start + (i - start) = i
    BY <1>3, <1>5
  <2> QED
    BY <1>4, <2>1
<1>6. start \in Nat /\ size \in Nat /\ size >= 1
  BY ChunkAssumption
<1> QED
  BY <1>1, <1>2, <1>3, <1>4, <1>5, <1>6 DEF ItemFacts

LEMMA Items ==
  ASSUME Types, NEW d \in Device
  PROVE  /\ link[d] \in Seq(Item) /\ Len(link[d]) \in Nat
         /\ \A n \in Position(d) : link[d][n] \in Item /\ ItemFacts(d, link[d][n])
<1>1. link[d] \in Seq(Item)
  BY DEF Types
<1>2. Len(link[d]) \in Nat /\ \A n \in Position(d) : link[d][n] \in Item
  BY <1>1, ElementOfSeq, LenProperties DEF Position
<1>3. \A n \in Position(d) : ItemOK(d, link[d][n])
  BY DEF Types
<1> QED
  BY <1>1, <1>2, <1>3, OneItem

LEMMA Sendings ==
  ASSUME Types, NEW d \in Device, sending[d] # Idle
  PROVE  /\ sending[d] = [of |-> sending[d].of, sent |-> sending[d].sent]
         /\ sending[d].of \in Transfer /\ sending[d].of[1] = d /\ Offered(sending[d].of)
         /\ sending[d].sent \in Nat /\ sending[d].sent < Total(sending[d].of)
BY ChunkAssumption DEF Types

(* A chunk of a sender is one the engine can handle.                       *)
LEMMA ChunkIsAny ==
  ASSUME NEW set \in SetId, NEW start \in 0 .. MaxTotal, NEW size \in 0 .. MaxTotal,
         NEW total \in 0 .. MaxTotal, NEW src \in Source, start + size <= MaxTotal
  PROVE  Chunk(set, start, size, total, src) \in AnyChunk
<1>1. Chunk(set, start, size, total, src) \in SomeChunk
  BY DEF SomeChunk
<1>2. End(Chunk(set, start, size, total, src)) = start + size
  BY DEF End, Chunk
<1> QED
  BY <1>1, <1>2 DEF AnyChunk

LEMMA OpenIsPending ==
  ASSUME NEW t, Open(t)
  PROVE  Pending(t)
BY DEF Open, Pending, Sends, Position

LEMMA PendingIsOffered ==
  ASSUME Types, NEW t \in Transfer, Pending(t)
  PROVE  Offered(t) /\ UsedBy(t[1], Set(t))
<1>1. t[1] \in Device
  BY TransferFacts
<1>2. CASE Sends(t[1], t)
  BY <1>1, <1>2, Sendings DEF Sends, UsedBy, Set
<1>3. CASE \E n \in Position(t[1]) : link[t[1]][n].of = t
  <2>1. PICK n \in Position(t[1]) : link[t[1]][n].of = t
    BY <1>3
  <2>2. ItemFacts(t[1], link[t[1]][n])
    BY <1>1, Items
  <2>3. Offered(t) /\ link[t[1]][n].chunk.set_id = Set(t)
    BY <2>1, <2>2 DEF ItemFacts
  <2> QED
    BY <2>3 DEF UsedBy, Position
<1> QED
  BY <1>2, <1>3 DEF Pending
-----------------------------------------------------------------------------
LEMMA TransferInvInit == TransferInit => TransferInv
<1> SUFFICES ASSUME TransferInit PROVE TransferInv
  OBVIOUS
<1>1. /\ \A t \in Transfer : offer[t] = NotOffered
      /\ \A d \in Device : sending[d] = Idle /\ link[d] = <<>> /\ Len(link[d]) = 0
      /\ broken = {}
      /\ \A s \in SetId : chunk_buffers[s] = NoBuffer
      /\ out = <<>>
  BY DEF TransferInit, ChunkInit
<1>2. Inv
  BY InvInit DEF TransferInit
<1>3. Types
  BY <1>1 DEF TransferInit, Types, Position
<1>4. \A t \in Transfer : ~Offered(t) /\ ~Pending(t)
  BY <1>1, TransferFacts DEF Offered, Pending, Sends, Position
<1>5. Ordered /\ Gapless
  BY <1>1, <1>4 DEF Ordered, Gapless, Position
<1>6. Accounted /\ Exclusive /\ Heirs
  BY <1>1, <1>4 DEF Accounted, Exclusive, Heirs
<1>7. Owned /\ Contents /\ Delivered
  BY <1>1 DEF Owned, Contents, Delivered
<1> QED
  BY <1>2, <1>3, <1>5, <1>6, <1>7 DEF TransferInv

-----------------------------------------------------------------------------
(* StartTransfer.                                                          *)

LEMMA StartKeeps ==
  ASSUME TransferInv, NEW d \in Device, NEW set \in SetId \ StraySet,
         NEW total \in 1 .. MaxTotal, StartTransfer(d, set, total)
  PROVE  /\ TransferInv'
         /\ \E t \in Transfer :
              /\ ~Offered(t) /\ Offered(t)' /\ Open(t)'
              /\ \A u \in Transfer : u # t =>
                   /\ offer'[u] = offer[u] /\ (Open(u)' <=> Open(u))
              /\ UNCHANGED <<broken, out>>
<1>1. PICK k \in 1 .. MaxTransfers[d] :
        /\ offer[<<d, k>>] = NotOffered
        /\ \A j \in 1 .. k - 1 : offer[<<d, j>>] # NotOffered
        /\ offer' = [offer EXCEPT ![<<d, k>>] = [set |-> set, total |-> total]]
        /\ sending' = [sending EXCEPT ![d] = [of |-> <<d, k>>, sent |-> 0]]
  BY DEF StartTransfer
<1> DEFINE t == <<d, k>>
<1>2. t \in Transfer /\ t[1] = d /\ t[2] = k /\ k \in Nat /\ k >= 1
  BY TransferFacts
<1> HIDE DEF t
<1>3. /\ sending[d] = Idle /\ SetIsFree(d, set, total)
      /\ UNCHANGED <<chunk_buffers, out, link, broken>>
      /\ ~Offered(t)
  BY <1>1 DEF StartTransfer, chunkVars, t, Offered
<1>4. /\ Inv /\ Types /\ Ordered /\ Gapless /\ Accounted /\ Exclusive /\ Heirs
      /\ Owned /\ Contents /\ Delivered
  BY DEF TransferInv
<1>5. /\ offer'[t] = [set |-> set, total |-> total]
      /\ Offered(t)' /\ Set(t)' = set /\ Total(t)' = total
  BY <1>1, <1>2, <1>4, TransferAssumption DEF Types, Offered, Set, Total, t
<1>6. \A u \in Transfer : u # t =>
        /\ offer'[u] = offer[u] /\ (Offered(u)' <=> Offered(u))
        /\ Set(u)' = Set(u) /\ Total(u)' = Total(u)
  BY <1>1, <1>4 DEF Types, Offered, Set, Total, t
<1>7. /\ sending'[d] # Idle /\ sending'[d].of = t /\ sending'[d].sent = 0
      /\ \A e \in Device : e # d => sending'[e] = sending[e]
  <2>1. [of |-> t, sent |-> 0] # Idle
    BY <1>2, TransferAssumption
  <2> QED
    BY <1>1, <1>4, <2>1 DEF Types, t
<1>8. \A e \in Device : Position(e)' = Position(e)
  BY <1>3 DEF Position
<1>9. \A e \in Device : \A n \in Position(e) : link[e][n].of # t
  BY <1>3, <1>4, Items DEF ItemFacts
<1>10. ASSUME NEW u \in Transfer
       PROVE  /\ Pending(u)' <=> Pending(u) \/ u = t
              /\ Open(u)' <=> Open(u) \/ u = t
  <2>1. u[1] \in Device /\ u = <<u[1], u[2]>>
    BY TransferFacts
  <2>2. Sends(u[1], u)' <=> Sends(u[1], u) \/ u = t
    BY <1>2, <1>3, <1>7, <2>1 DEF Sends
  <2> QED
    BY <1>2, <1>3, <2>1, <2>2 DEF Pending, Open, Sends, Position
<1>11. \A u \in Transfer : Pending(u) => Offered(u) /\ UsedBy(u[1], Set(u))
  BY <1>4, PendingIsOffered
<1>12. Types'
  <2>1. offer' \in [Transfer -> [set : SetId \ StraySet, total : 1 .. MaxTotal] \cup {NotOffered}]
    BY <1>1, <1>2, <1>4 DEF Types, t
  <2>2. sending' \in [Device -> [of : Transfer, sent : 0 .. MaxTotal] \cup {Idle}]
    <3>1. [of |-> t, sent |-> 0] \in [of : Transfer, sent : 0 .. MaxTotal]
      BY <1>2, ChunkAssumption
    <3> QED
      BY <1>1, <1>4, <3>1 DEF Types, t
  <2>3. link' \in [Device -> Seq(Item)] /\ broken' \in SUBSET Transfer
    BY <1>3, <1>4 DEF Types
  <2>4. ASSUME NEW e \in Device, sending'[e] # Idle
        PROVE  /\ sending'[e].of[1] = e /\ Offered(sending[e].of)'
               /\ sending'[e].sent < Total(sending[e].of)'
    <3>1. CASE e = d
      BY <1>2, <1>5, <1>7, <3>1
    <3>2. CASE e # d
      <4>1. sending'[e] = sending[e] /\ sending[e].of \in Transfer /\ Offered(sending[e].of)
            /\ sending[e].of[1] = e /\ sending[e].sent < Total(sending[e].of)
        BY <1>4, <1>7, <2>4, <3>2, Sendings
      <4> QED
        BY <1>3, <1>6, <4>1
    <3> QED
      BY <3>1, <3>2
  <2>5. ASSUME NEW e \in Device, NEW n \in Position(e) PROVE ItemOK(e, link[e][n])'
    <3>1. ItemOK(e, link[e][n]) /\ link[e][n].of \in Transfer /\ link[e][n].of # t
      BY <1>4, <1>9, Items DEF Types, ItemFacts
    <3> QED
      BY <1>3, <1>6, <3>1 DEF ItemOK
  <2>6. \A u \in broken' : Offered(u)'
    BY <1>3, <1>4, <1>6 DEF Types
  <2> QED
    BY <1>8, <2>1, <2>2, <2>3, <2>4, <2>5, <2>6 DEF Types
(* The new transfer is the last of its device.                             *)
<1>13. \A u \in Transfer : Offered(u)' /\ u[1] = d => u = t \/ u[2] < k
  <2> SUFFICES ASSUME NEW u \in Transfer, Offered(u), u[1] = d, u # t PROVE u[2] < k
    BY <1>6
  <2>1. u[2] \in Nat /\ u = <<d, u[2]>>
    BY TransferFacts
  <2>2. u[2] # k
    BY <2>1 DEF t
  <2>3. ~(k \in 1 .. u[2])
    BY <1>3, <1>4, <2>1 DEF Ordered, t
  <2> QED
    BY <1>2, <2>1, <2>2, <2>3
<1>14. Ordered'
  <2>1. ASSUME NEW u \in Transfer, Offered(u)', NEW j \in 1 .. u[2]
        PROVE  Offered(<<u[1], j>>)'
    <3>1. u[2] \in Nat /\ u = <<u[1], u[2]>> /\ u[1] \in Device /\ u[2] <= MaxTransfers[u[1]]
          /\ MaxTransfers[u[1]] \in Nat
      BY TransferFacts
    <3>2. <<u[1], j>> \in Transfer
      BY <3>1, TransferFacts
    <3>3. CASE u = t
      BY <1>1, <1>2, <1>5, <1>6, <3>2, <3>3 DEF Offered, t
    <3>4. CASE u # t
      BY <1>4, <1>5, <1>6, <2>1, <3>2, <3>4 DEF Ordered
    <3> QED
      BY <3>3, <3>4
  <2>2. ASSUME NEW u \in Transfer, NEW e \in Device, sending'[e] # Idle, u[1] = e, Offered(u)'
        PROVE  u[2] <= sending'[e].of[2]
    <3>1. CASE e = d
      BY <1>2, <1>7, <1>13, <2>2, <3>1, TransferFacts
    <3>2. CASE e # d
      BY <1>2, <1>4, <1>6, <1>7, <2>2, <3>2 DEF Ordered
    <3> QED
      BY <3>1, <3>2
  <2>3. ASSUME NEW e \in Device, NEW n \in Position(e), NEW m \in Position(e), n < m
        PROVE  Precedes(link[e][n], link[e][m].of, link[e][m].chunk.start_byte)
    BY <1>4, <2>3 DEF Ordered
  <2>4. ASSUME NEW e \in Device, sending'[e] # Idle, NEW n \in Position(e)
        PROVE  Precedes(link[e][n], sending'[e].of, sending'[e].sent)
    <3>1. CASE e = d
      <4>1. PICK u \in Transfer : u = link[d][n].of
        BY <1>4, <3>1, Items DEF ItemFacts
      <4>2. u[1] = d /\ Offered(u) /\ u # t
        BY <1>4, <1>9, <3>1, <4>1, Items DEF ItemFacts
      <4>3. u[2] < k /\ u[2] \in Nat
        BY <1>6, <1>13, <4>2, TransferFacts
      <4> QED
        BY <1>2, <1>7, <3>1, <4>1, <4>2, <4>3 DEF Precedes
    <3>2. CASE e # d
      BY <1>4, <1>7, <2>4, <3>2 DEF Ordered
    <3> QED
      BY <3>1, <3>2
  <2> QED
    BY <1>3, <1>8, <2>1, <2>2, <2>3, <2>4 DEF Ordered, Precedes
<1>15. Gapless'
  <2>1. ASSUME NEW e \in Device, sending'[e] # Idle, link[e] # <<>>
        PROVE  Follows(link[e][Len(link[e])], sending'[e].of, sending'[e].sent)
    <3>1. CASE e = d
      <4>1. Len(link[d]) \in Position(d)
        BY <1>4, <2>1, <3>1, Items, EmptySeq DEF Position
      <4> QED
        BY <1>7, <1>9, <3>1, <4>1 DEF Follows
    <3>2. CASE e # d
      BY <1>4, <1>7, <2>1, <3>2 DEF Gapless
    <3> QED
      BY <3>1, <3>2
  <2> QED
    BY <1>3, <1>4, <1>8, <2>1 DEF Gapless, Follows
<1>16. Accounted'
  BY <1>2, <1>3, <1>4, <1>10 DEF Accounted, Types
<1>17. \A u \in Transfer : Pending(u) /\ Set(u) = set => u[1] = d
  <2> SUFFICES ASSUME NEW u \in Transfer, Pending(u), Set(u) = set, u[1] # d PROVE FALSE
    OBVIOUS
  <2> QED
    BY <1>3, <1>11, TransferFacts DEF SetIsFree
<1>18. Exclusive'
  BY <1>2, <1>5, <1>6, <1>10, <1>17, <1>4 DEF Exclusive
<1>19. Heirs'
  <2> SUFFICES ASSUME NEW u \in broken, NEW v \in Transfer, Pending(v)', Set(u)' = Set(v)',
                      Earlier(u, v)
               PROVE  Total(u)' <= Total(v)'
    BY <1>3 DEF Heirs, Earlier
  <2>1. u \in Transfer /\ Offered(u) /\ u # t
    BY <1>3, <1>4 DEF Types
  <2>2. CASE v = t
    BY <1>3, <1>5, <1>6, <2>1, <2>2 DEF SetIsFree, Set, Total
  <2>3. CASE v # t
    BY <1>4, <1>6, <1>10, <2>1, <2>3 DEF Heirs
  <2> QED
    BY <2>2, <2>3
<1>20. Owned'
  <2> SUFFICES ASSUME NEW s \in SetId \ StraySet, chunk_buffers[s] # NoBuffer
               PROVE  \E u \in Transfer : Owns(u, s)'
    BY <1>3 DEF Owned
  <2>1. PICK u \in Transfer : Owns(u, s)
    BY <1>4 DEF Owned
  <2>2. u # t /\ Offered(u)
    BY <1>3, <2>1 DEF Owns
  <2>3. ASSUME NEW v \in Transfer, Pending(v)', Set(v)' = s PROVE v = u \/ Earlier(u, v)
    <3>1. CASE v = t
      BY <1>2, <1>6, <1>13, <2>2, <3>1 DEF Earlier
    <3>2. CASE v # t
      BY <1>6, <1>10, <2>1, <2>3, <3>2 DEF Owns
    <3> QED
      BY <3>1, <3>2
  <2>4. Owns(u, s)'
    BY <1>3, <1>6, <1>10, <2>1, <2>2, <2>3 DEF Owns, Earlier
  <2> QED
    BY <2>4
<1>21. Contents'
  <2> SUFFICES ASSUME NEW e \in Device
               PROVE  /\ link[e] # <<>> =>
                           Arrived(Head(link[e]).of, Head(link[e]).chunk.start_byte)'
                      /\ link[e] = <<>> /\ sending'[e] # Idle =>
                           Arrived(sending[e].of, sending[e].sent)'
    BY <1>3 DEF Contents
  <2>1. CASE link[e] # <<>>
    <3>1. 1 \in Position(e) /\ Head(link[e]) = link[e][1]
      BY <1>4, <2>1, Items, EmptySeq DEF Position
    <3>2. Head(link[e]).of \in Transfer /\ Head(link[e]).of # t
      BY <1>4, <1>9, <3>1, Items DEF ItemFacts
    <3>3. Arrived(Head(link[e]).of, Head(link[e]).chunk.start_byte)
      BY <1>4, <2>1 DEF Contents
    <3> QED
      BY <1>3, <1>6, <2>1, <3>2, <3>3 DEF Arrived
  <2>2. CASE link[e] = <<>> /\ e = d
    BY <1>7, <2>2 DEF Arrived
  <2>3. CASE link[e] = <<>> /\ e # d /\ sending[e] # Idle
    <3>1. sending'[e] = sending[e] /\ sending[e].of \in Transfer /\ sending[e].of # t
      BY <1>3, <1>4, <1>7, <2>3, Sendings
    <3>2. Arrived(sending[e].of, sending[e].sent)
      BY <1>4, <2>3 DEF Contents
    <3> QED
      BY <1>3, <1>6, <2>3, <3>1, <3>2 DEF Arrived
  <2> QED
    BY <1>7, <2>1, <2>2, <2>3
<1>22. Delivered'
  <2> DEFINE last == out[Len(out)]
  <2> SUFFICES ASSUME out # <<>>, last.kind = "ChunkSetComplete", last.device_id # Stranger
               PROVE  \E u \in Transfer :
                        (/\ Offered(u)
                         /\ last.device_id = u[1] /\ last.set_id = Set(u)
                         /\ last.blob = BlobOf(u))'
    BY <1>3 DEF Delivered
  <2>1. PICK u \in Transfer : /\ Offered(u)
                              /\ last.device_id = u[1] /\ last.set_id = Set(u)
                              /\ last.blob = BlobOf(u)
    BY <1>4 DEF Delivered
  <2>2. u # t
    BY <1>3, <2>1
  <2> QED
    BY <1>3, <1>6, <2>1, <2>2 DEF BlobOf
<1>23. Inv'
  BY <1>3, <1>4, StutterKeeps DEF chunkVars
<1>24. TransferInv'
  BY <1>12, <1>14, <1>15, <1>16, <1>18, <1>19, <1>20, <1>21, <1>22, <1>23 DEF TransferInv
<1>25. Open(t)' /\ \A u \in Transfer : u # t => offer'[u] = offer[u] /\ (Open(u)' <=> Open(u))
  BY <1>2, <1>6, <1>10
<1> QED
  BY <1>2, <1>3, <1>5, <1>24, <1>25
-----------------------------------------------------------------------------
(* SendChunk: the same transfers are open and pending as before.           *)

LEMMA SendKeeps ==
  ASSUME TransferInv, NEW d \in Device, NEW size \in 1 .. MaxTotal, SendChunk(d, size)
  PROVE  /\ TransferInv'
         /\ \A u \in Transfer : Open(u)' <=> Open(u)
         /\ UNCHANGED <<offer, broken, out>>
<1> DEFINE t     == sending[d].of
           start == sending[d].sent
           x     == [of |-> t, chunk |-> Chunk(Set(t), start, size, Total(t), t)]
           L     == Len(link[d])
<1>1. /\ Inv /\ Types /\ Ordered /\ Gapless /\ Accounted /\ Exclusive /\ Heirs
      /\ Owned /\ Contents /\ Delivered
  BY DEF TransferInv
<1>2. /\ sending[d] # Idle /\ start + size <= Total(t)
      /\ link' = [link EXCEPT ![d] = Append(@, x)]
      /\ sending' = [sending EXCEPT ![d] =
           IF start + size = Total(t) THEN Idle ELSE [@ EXCEPT !.sent = start + size]]
      /\ UNCHANGED <<chunk_buffers, out, offer, broken>>
  BY DEF SendChunk, chunkVars, Set, Total
<1>3. /\ sending[d] = [of |-> t, sent |-> start]
      /\ t \in Transfer /\ t[1] = d /\ Offered(t) /\ start \in Nat /\ start < Total(t)
  BY <1>1, <1>2, Sendings
<1>4. Set(t) \in SetId \ StraySet /\ Total(t) \in 1 .. MaxTotal
  BY <1>1, <1>3, OfferFacts
<1>5. \A u : Set(u)' = Set(u) /\ Total(u)' = Total(u) /\ (Offered(u)' <=> Offered(u))
  BY <1>2 DEF Set, Total, Offered
<1>6. x \in Item
  <2>1. Set(t) \in SetId /\ t \in Source
    BY <1>3, <1>4, TransferAssumption
  <2>2. /\ start \in 0 .. MaxTotal /\ size \in 0 .. MaxTotal /\ Total(t) \in 0 .. MaxTotal
        /\ start + size <= MaxTotal
    BY <1>2, <1>3, <1>4, ChunkAssumption
  <2> HIDE DEF t, start
  <2>3. Chunk(Set(t), start, size, Total(t), t) \in AnyChunk
    BY <2>1, <2>2, ChunkIsAny
  <2> QED
    BY <1>3, <2>3 DEF Item
<1>7. /\ x.of = t /\ x.chunk.start_byte = start /\ End(x.chunk) = start + size
      /\ x.chunk.total_size = Total(t) /\ x.chunk.set_id = Set(t)
  BY DEF Chunk, End
<1>8. ItemOK(d, x)
  <2>1. start \in 0 .. MaxTotal
    BY <1>3, <1>4, ChunkAssumption
  <2> QED
    BY <1>2, <1>3, <1>7, <2>1 DEF ItemOK
<1> HIDE DEF x
<1>9. /\ link[d] \in Seq(Item) /\ L \in Nat
      /\ link'[d] = Append(link[d], x) /\ \A e \in Device : e # d => link'[e] = link[e]
  BY <1>1, <1>2, Items DEF Types
<1>10. /\ Len(link'[d]) = L + 1 /\ link'[d][L + 1] = x
       /\ \A n \in 1 .. L : link'[d][n] = link[d][n]
  BY <1>6, <1>9, AppendProperties
<1>11. /\ \A e \in Device : e # d => Position(e)' = Position(e)
       /\ Position(d) = 1 .. L
       /\ \A n : n \in Position(d)' <=> n \in Position(d) \/ n = L + 1
  BY <1>9, <1>10 DEF Position
<1>12. /\ \A e \in Device : e # d => sending'[e] = sending[e]
       /\ IF start + size = Total(t) THEN sending'[d] = Idle
          ELSE sending'[d] = [of |-> t, sent |-> start + size] /\ sending'[d] # Idle
  <2>1. [of |-> t, sent |-> start + size] # Idle
    BY <1>3, TransferAssumption
  <2> QED
    BY <1>1, <1>2, <1>3, <2>1 DEF Types
<1>13. ASSUME NEW u \in Transfer
       PROVE  /\ Pending(u)' <=> Pending(u)
              /\ Open(u)' <=> Open(u)
  <2>1. u[1] \in Device
    BY TransferFacts
  <2>2. CASE u[1] # d
    BY <1>9, <1>11, <1>12, <2>1, <2>2 DEF Pending, Open, Sends
  <2>3. CASE u[1] = d
    <3>1. Sends(d, u)' => Sends(d, u)
      BY <1>2, <1>3, <1>12 DEF Sends
    <3>2. Sends(d, u) => u = t
      BY DEF Sends
    <3>3. u = t => Sends(d, u)' \/ Last(x)
      BY <1>7, <1>12 DEF Sends, Last
    <3>4. Pending(u)' <=> Sends(d, u)' \/ u = t \/ \E n \in Position(d) : link[d][n].of = u
      BY <1>7, <1>10, <1>11, <2>3 DEF Pending
    <3>5. Open(u)' <=> \/ Sends(d, u)' \/ (u = t /\ Last(x))
                       \/ \E n \in Position(d) : link[d][n].of = u /\ Last(link[d][n])
      BY <1>7, <1>10, <1>11, <2>3 DEF Open, Sends, Last, Position
    <3>6. Open(u) <=> \/ Sends(d, u)
                      \/ \E n \in Position(d) : link[d][n].of = u /\ Last(link[d][n])
      BY <2>3 DEF Open, Sends, Last, Position
    <3>7. Pending(u) <=> Sends(d, u) \/ \E n \in Position(d) : link[d][n].of = u
      BY <2>3 DEF Pending
    <3>8. Sends(d, t)
      BY <1>2 DEF Sends
    <3> QED
      BY <3>1, <3>2, <3>3, <3>4, <3>5, <3>6, <3>7, <3>8
  <2> QED
    BY <2>2, <2>3
<1>14. Types'
  <2>1. sending' \in [Device -> [of : Transfer, sent : 0 .. MaxTotal] \cup {Idle}]
    <3>1. [of |-> t, sent |-> start + size] \in [of : Transfer, sent : 0 .. MaxTotal]
      BY <1>2, <1>3, <1>4, ChunkAssumption
    <3> QED
      BY <1>1, <1>2, <1>3, <3>1 DEF Types
  <2>2. link' \in [Device -> Seq(Item)]
    BY <1>1, <1>2, <1>6, <1>9, AppendProperties DEF Types
  <2>3. ASSUME NEW e \in Device, sending'[e] # Idle
        PROVE  /\ sending'[e].of[1] = e /\ Offered(sending[e].of)'
               /\ sending'[e].sent < Total(sending[e].of)'
    <3>1. CASE e = d
      <4>1. start + size # Total(t) /\ sending'[d] = [of |-> t, sent |-> start + size]
        BY <1>12, <2>3, <3>1
      <4>2. start + size < Total(t)
        BY <1>2, <1>3, <1>4, <4>1
      <4>3. sending'[d].of = t /\ sending'[d].sent = start + size
        BY <4>1
      <4>4. offer'[t] = offer[t]
        BY <1>2
      <4> HIDE DEF t, start
      <4> QED
        BY <1>3, <3>1, <4>2, <4>3, <4>4 DEF Offered, Total
    <3>2. CASE e # d
      <4>1. sending'[e] = sending[e]
        BY <1>12, <3>2
      <4>2. /\ sending[e].of[1] = e /\ Offered(sending[e].of)
            /\ sending[e].sent < Total(sending[e].of)
        BY <1>1, <2>3, <4>1, Sendings
      <4> QED
        BY <1>2, <4>1, <4>2 DEF Offered, Total
    <3> QED
      BY <3>1, <3>2
  <2>4. ASSUME NEW e \in Device, NEW n \in Position(e)' PROVE ItemOK(e, link[e][n])'
    <3>1. \A y : ItemOK(e, y) <=> ItemOK(e, y)'
      BY <1>2, <1>5 DEF ItemOK, Offered, Set, Total
    <3>2. ItemOK(e, link'[e][n])
      BY <1>1, <1>8, <1>9, <1>10, <1>11 DEF Types
    <3> QED
      BY <1>2, <3>2 DEF ItemOK, Offered, Set, Total
  <2> QED
    BY <1>1, <1>2, <1>5, <2>1, <2>2, <2>3, <2>4 DEF Types
<1>15. Ordered'
  <2>1. ASSUME NEW e \in Device, NEW n \in Position(e)', NEW m \in Position(e)', n < m
        PROVE  Precedes(link'[e][n], link'[e][m].of, link'[e][m].chunk.start_byte)
    <3>1. CASE e # d
      BY <1>1, <1>9, <1>11, <2>1, <3>1 DEF Ordered
    <3>2. CASE e = d /\ m \in Position(d)
      BY <1>1, <1>9, <1>10, <1>11, <2>1, <3>2 DEF Ordered
    <3>3. CASE e = d /\ m = L + 1
      <4>1. n \in Position(d)
        BY <1>9, <1>11, <2>1, <3>3
      <4>2. Precedes(link[d][n], t, start)
        BY <1>1, <1>2, <4>1 DEF Ordered
      <4> QED
        BY <1>7, <1>10, <1>11, <3>3, <4>1, <4>2
    <3> QED
      BY <1>11, <2>1, <3>1, <3>2, <3>3
  <2>2. ASSUME NEW e \in Device, sending'[e] # Idle, NEW n \in Position(e)'
        PROVE  Precedes(link'[e][n], sending'[e].of, sending'[e].sent)
    <3>1. CASE e # d
      BY <1>1, <1>9, <1>11, <1>12, <2>2, <3>1 DEF Ordered
    <3>2. CASE e = d
      <4>1. sending'[d].of = t /\ sending'[d].sent = start + size
        BY <1>12, <2>2, <3>2
      <4>2. CASE n \in Position(d)
        <5>1. Precedes(link[d][n], t, start) /\ End(link[d][n].chunk) \in Nat
          BY <1>1, <1>2, <4>2, Items DEF Ordered, ItemFacts
        <5> QED
          BY <1>3, <1>10, <1>11, <3>2, <4>1, <4>2, <5>1 DEF Precedes
      <4>3. CASE n = L + 1
        BY <1>3, <1>7, <1>10, <3>2, <4>1, <4>3, TransferFacts DEF Precedes
      <4> QED
        BY <1>11, <2>2, <3>2, <4>2, <4>3
    <3> QED
      BY <3>1, <3>2
  <2>3. ASSUME NEW u \in Transfer, NEW e \in Device, sending'[e] # Idle, u[1] = e, Offered(u)
        PROVE  u[2] <= sending'[e].of[2]
    <3>1. sending[e] # Idle /\ sending'[e].of = sending[e].of
      BY <1>2, <1>3, <1>12, <2>3
    <3> QED
      BY <1>1, <2>3, <3>1 DEF Ordered
  <2>4. \A u \in Transfer : Offered(u)' => \A j \in 1 .. u[2] : Offered(<<u[1], j>>)'
    BY <1>1, <1>5 DEF Ordered
  <2> QED
    BY <1>5, <2>1, <2>2, <2>3, <2>4 DEF Ordered, Precedes
<1>16. Gapless'
  <2>1. ASSUME NEW e \in Device, NEW n \in Position(e)', n + 1 \in Position(e)'
        PROVE  Follows(link'[e][n], link'[e][n + 1].of, link'[e][n + 1].chunk.start_byte)
    <3>1. CASE e # d
      BY <1>1, <1>9, <1>11, <2>1, <3>1 DEF Gapless
    <3>2. CASE e = d /\ n + 1 \in Position(d)
      <4>1. n \in Position(d)
        BY <1>9, <1>11, <2>1, <3>2
      <4> QED
        BY <1>1, <1>10, <1>11, <3>2, <4>1 DEF Gapless
    <3>3. CASE e = d /\ n + 1 = L + 1
      <4>1. n = L /\ n \in Position(d)
        BY <1>9, <1>11, <2>1, <3>3
      <4>2. Follows(link[d][L], t, start)
        BY <1>1, <1>2, <1>11, <4>1, EmptySeq DEF Gapless
      <4> QED
        BY <1>7, <1>10, <1>11, <3>3, <4>1, <4>2 DEF Follows
    <3> QED
      BY <1>11, <2>1, <3>1, <3>2, <3>3
  <2>2. ASSUME NEW e \in Device, sending'[e] # Idle, link'[e] # <<>>
        PROVE  Follows(link'[e][Len(link'[e])], sending'[e].of, sending'[e].sent)
    <3>1. CASE e # d
      BY <1>1, <1>9, <1>12, <2>2, <3>1 DEF Gapless
    <3>2. CASE e = d
      BY <1>7, <1>10, <1>12, <2>2, <3>2 DEF Follows
    <3> QED
      BY <3>1, <3>2
  <2> QED
    BY <2>1, <2>2 DEF Gapless, Follows
<1>17. Accounted' /\ Exclusive' /\ Heirs'
  <2>1. \A u \in broken : u \in Transfer
    BY <1>1 DEF Types
  <2> QED
    BY <1>1, <1>2, <1>5, <1>13, <2>1 DEF Accounted, Exclusive, Heirs, Earlier
<1>18. Owned'
  <2> SUFFICES ASSUME NEW s \in SetId \ StraySet, chunk_buffers[s] # NoBuffer
               PROVE  \E u \in Transfer : Owns(u, s)'
    BY <1>2 DEF Owned
  <2>1. PICK u \in Transfer : Owns(u, s)
    BY <1>1 DEF Owned
  <2>2. Owns(u, s)'
    BY <1>2, <1>5, <1>13, <2>1 DEF Owns, Earlier
  <2> QED
    BY <2>2
<1>19. Contents'
  <2>1. \A u, n : Arrived(u, n)' <=> Arrived(u, n)
    BY <1>2 DEF Arrived, Set, Sent
  <2>2. ASSUME NEW e \in Device, link'[e] # <<>>
        PROVE  Arrived(Head(link'[e]).of, Head(link'[e]).chunk.start_byte)
    <3>1. CASE e # d
      BY <1>1, <1>9, <2>2, <3>1 DEF Contents
    <3>2. CASE e = d /\ link[d] # <<>>
      <4>1. Head(link'[d]) = Head(link[d])
        BY <1>9, <1>10, <3>2, EmptySeq
      <4> QED
        BY <1>1, <3>2, <4>1 DEF Contents
    <3>3. CASE e = d /\ link[d] = <<>>
      <4>1. Head(link'[d]) = x
        BY <1>9, <1>10, <3>3
      <4> QED
        BY <1>1, <1>2, <1>7, <3>3, <4>1 DEF Contents
    <3> QED
      BY <3>1, <3>2, <3>3
  <2>3. ASSUME NEW e \in Device, link'[e] = <<>>, sending'[e] # Idle
        PROVE  Arrived(sending'[e].of, sending'[e].sent)
    <3>1. e # d
      BY <1>9, <1>10, <2>3, EmptySeq
    <3> QED
      BY <1>1, <1>9, <1>12, <2>3, <3>1 DEF Contents
  <2> QED
    BY <1>2, <2>2, <2>3 DEF Contents, Arrived, Set
<1>20. Delivered'
  BY <1>1, <1>2 DEF Delivered, Offered, Set, BlobOf
<1>21. Inv'
  BY <1>1, <1>2, StutterKeeps DEF chunkVars
<1> QED
  BY <1>2, <1>13, <1>14, <1>15, <1>16, <1>17, <1>18, <1>19, <1>20, <1>21 DEF TransferInv
-----------------------------------------------------------------------------
(* What Receive and Break have in common: of the link of d some items from *)
(* the front go (skip of them), or some from the back and then d sends no  *)
(* more.                                                                   *)

Drains(d, skip) ==
  /\ offer' = offer
  /\ link' \in [Device -> Seq(Item)]
  /\ sending' \in [Device -> [of : Transfer, sent : 0 .. MaxTotal] \cup {Idle}]
  /\ broken' \in SUBSET Transfer /\ \A t \in broken' : Offered(t)
  /\ \A e \in Device : e # d => link'[e] = link[e] /\ sending'[e] = sending[e]
  /\ Len(link'[d]) + skip <= Len(link[d])
  /\ \A n \in 1 .. Len(link'[d]) : link'[d][n] = link[d][n + skip]
  /\ \/ sending'[d] = Idle
     \/ sending'[d] = sending[d] /\ Len(link'[d]) + skip = Len(link[d])

LEMMA DrainKeeps ==
  ASSUME Types, Ordered, Gapless, Exclusive, NEW d \in Device, NEW skip \in Nat, Drains(d, skip)
  PROVE  /\ Types' /\ Ordered' /\ Gapless' /\ Exclusive'
         /\ \A u \in Transfer : /\ Pending(u)' => Pending(u)
                                /\ Open(u)' => Open(u)
                                /\ u[1] # d => (Pending(u)' <=> Pending(u))
                                /\ u[1] # d => (Open(u)' <=> Open(u))
<1> DEFINE L == Len(link[d])
           K == Len(link'[d])
<1>1. /\ offer' = offer
      /\ link' \in [Device -> Seq(Item)]
      /\ sending' \in [Device -> [of : Transfer, sent : 0 .. MaxTotal] \cup {Idle}]
      /\ broken' \in SUBSET Transfer /\ \A t \in broken' : Offered(t)
  BY DEF Drains
<1>2. \A e \in Device : e # d =>
        link'[e] = link[e] /\ sending'[e] = sending[e] /\ Position(e)' = Position(e)
  BY DEF Drains, Position
<1>3. /\ L \in Nat /\ K \in Nat /\ K + skip <= L
      /\ \A n \in 1 .. K : link'[d][n] = link[d][n + skip]
      /\ Position(d)' = 1 .. K /\ Position(d) = 1 .. L
  BY <1>1, Items DEF Drains, Position
<1>4. sending'[d] # Idle => sending'[d] = sending[d] /\ K + skip = L
  BY DEF Drains
<1> HIDE DEF L, K
<1>5. \A n \in Position(d)' : n \in Nat /\ n + skip \in Position(d)
  BY <1>3
<1>6. \A u : Set(u)' = Set(u) /\ Total(u)' = Total(u) /\ (Offered(u)' <=> Offered(u))
  BY <1>1 DEF Set, Total, Offered
<1>7. \A e \in Device : sending'[e] # Idle => sending'[e] = sending[e]
  BY <1>2, <1>4
<1>8. ASSUME NEW u \in Transfer
      PROVE  /\ Pending(u)' => Pending(u)
             /\ Open(u)' => Open(u)
             /\ u[1] # d => (Pending(u)' <=> Pending(u))
             /\ u[1] # d => (Open(u)' <=> Open(u))
  <2>1. u[1] \in Device
    BY TransferFacts
  <2>2. CASE u[1] # d
    BY <1>2, <2>1, <2>2 DEF Pending, Open, Sends, Position
  <2>3. CASE u[1] = d
    <3>1. Sends(d, u)' => Sends(d, u)
      BY <1>7 DEF Sends
    <3>2. ASSUME NEW n \in Position(d)', link'[d][n].of = u
          PROVE  \E m \in Position(d) : link[d][m].of = u /\ link[d][m] = link'[d][n]
      BY <1>3, <1>5, <3>2
    <3>3. Pending(u)' => Pending(u)
      BY <2>3, <3>1, <3>2 DEF Pending
    <3>4. /\ Open(u) <=> \/ Sends(d, u)
                         \/ \E n \in Position(d) : link[d][n].of = u /\ Last(link[d][n])
          /\ Open(u)' <=> \/ Sends(d, u)'
                          \/ \E n \in Position(d)' : link'[d][n].of = u /\ Last(link'[d][n])
      BY <2>3 DEF Open, Sends, Last, Position
    <3>5. Open(u)' => Open(u)
      BY <3>1, <3>2, <3>4
    <3> QED
      BY <2>3, <3>3, <3>5
  <2> QED
    BY <2>2, <2>3
<1>9. Types'
  <2>1. ASSUME NEW e \in Device, sending'[e] # Idle
        PROVE  /\ sending'[e].of[1] = e /\ Offered(sending[e].of)'
               /\ sending'[e].sent < Total(sending[e].of)'
    <3>1. sending'[e] = sending[e]
      BY <1>7, <2>1
    <3>2. /\ sending[e].of[1] = e /\ Offered(sending[e].of)
          /\ sending[e].sent < Total(sending[e].of)
      BY <2>1, <3>1, Sendings
    <3> QED
      BY <1>1, <3>1, <3>2 DEF Offered, Total
  <2>2. ASSUME NEW e \in Device, NEW n \in Position(e)' PROVE ItemOK(e, link[e][n])'
    <3>1. ItemOK(e, link'[e][n])
      <4>1. CASE e = d
        BY <1>3, <1>5, <4>1 DEF Types
      <4>2. CASE e # d
        BY <1>2, <4>2 DEF Types
      <4> QED
        BY <4>1, <4>2
    <3> QED
      BY <1>1, <3>1 DEF ItemOK, Offered, Set, Total
  <2> QED
    BY <1>1, <1>6, <2>1, <2>2 DEF Types
<1>10. Ordered'
  <2>1. ASSUME NEW e \in Device, NEW n \in Position(e)', NEW m \in Position(e)', n < m
        PROVE  Precedes(link'[e][n], link'[e][m].of, link'[e][m].chunk.start_byte)
    <3>1. CASE e # d
      BY <1>2, <2>1, <3>1 DEF Ordered
    <3>2. CASE e = d
      <4>1. /\ n + skip \in Position(d) /\ m + skip \in Position(d) /\ n + skip < m + skip
            /\ link'[d][n] = link[d][n + skip] /\ link'[d][m] = link[d][m + skip]
        BY <1>3, <1>5, <2>1, <3>2
      <4> QED
        BY <3>2, <4>1 DEF Ordered
    <3> QED
      BY <3>1, <3>2
  <2>2. ASSUME NEW e \in Device, sending'[e] # Idle, NEW n \in Position(e)'
        PROVE  Precedes(link'[e][n], sending'[e].of, sending'[e].sent)
    <3>1. CASE e # d
      BY <1>2, <2>2, <3>1 DEF Ordered
    <3>2. CASE e = d
      BY <1>3, <1>5, <1>7, <2>2, <3>2 DEF Ordered
    <3> QED
      BY <3>1, <3>2
  <2>3. \A u \in Transfer, e \in Device : sending'[e] # Idle /\ u[1] = e /\ Offered(u)' =>
          u[2] <= sending'[e].of[2]
    BY <1>6, <1>7 DEF Ordered
  <2>4. \A u \in Transfer : Offered(u)' => \A j \in 1 .. u[2] : Offered(<<u[1], j>>)'
    BY <1>6 DEF Ordered
  <2> QED
    BY <2>1, <2>2, <2>3, <2>4 DEF Ordered, Precedes
<1>11. Gapless'
  <2>1. ASSUME NEW e \in Device, NEW n \in Position(e)', n + 1 \in Position(e)'
        PROVE  Follows(link'[e][n], link'[e][n + 1].of, link'[e][n + 1].chunk.start_byte)
    <3>1. CASE e # d
      BY <1>2, <2>1, <3>1 DEF Gapless
    <3>2. CASE e = d
      <4>1. PICK m \in Position(d) : m = n + skip
        BY <1>5, <2>1, <3>2
      <4>2. m + 1 = (n + 1) + skip /\ m + 1 \in Position(d)
        BY <1>3, <1>5, <2>1, <3>2, <4>1
      <4>3. link'[d][n] = link[d][m] /\ link'[d][n + 1] = link[d][m + 1]
        BY <1>3, <2>1, <3>2, <4>1, <4>2
      <4> QED
        BY <3>2, <4>2, <4>3 DEF Gapless
    <3> QED
      BY <3>1, <3>2
  <2>2. ASSUME NEW e \in Device, sending'[e] # Idle, link'[e] # <<>>
        PROVE  Follows(link'[e][Len(link'[e])], sending'[e].of, sending'[e].sent)
    <3>1. CASE e # d
      BY <1>2, <2>2, <3>1 DEF Gapless
    <3>2. CASE e = d
      <4>1. sending'[d] = sending[d] /\ K + skip = L
        BY <1>4, <2>2, <3>2
      <4>2. K >= 1
        BY <1>1, <1>3, <2>2, <3>2, EmptySeq DEF K
      <4>3. link'[d][K] = link[d][L] /\ link[d] # <<>>
        BY <1>3, <4>1, <4>2, EmptySeq DEF L
      <4> QED
        BY <2>2, <3>2, <4>1, <4>3 DEF Gapless, K, L
    <3> QED
      BY <3>1, <3>2
  <2> QED
    BY <2>1, <2>2 DEF Gapless, Follows
<1>12. Exclusive'
  BY <1>6, <1>8 DEF Exclusive
<1> QED
  BY <1>8, <1>9, <1>10, <1>11, <1>12
-----------------------------------------------------------------------------
(* Break: what the connection loses is accounted as broken.                *)

LEMMA BreakKeeps ==
  ASSUME TransferInv, NEW d \in Device, Break(d)
  PROVE  /\ TransferInv'
         /\ broken' = broken \cup {t \in Transfer : Open(t) /\ ~Open(t)'}
         /\ \A u \in Transfer : Open(u)' => Open(u)
         /\ UNCHANGED <<offer, out>>
<1>1. /\ Inv /\ Types /\ Ordered /\ Gapless /\ Accounted /\ Exclusive /\ Heirs
      /\ Owned /\ Contents /\ Delivered
  BY DEF TransferInv
<1>2. PICK K \in 0 .. Len(link[d]) : link' = [link EXCEPT ![d] = SubSeq(@, 1, K)]
  BY DEF Break
<1>3. /\ sending' = [sending EXCEPT ![d] = Idle]
      /\ broken' = broken \cup {t \in Transfer : Open(t) /\ ~Open(t)'}
      /\ UNCHANGED <<chunk_buffers, out, offer>>
  BY DEF Break, chunkVars
<1>4. /\ link[d] \in Seq(Item) /\ Len(link[d]) \in Nat /\ K \in Nat /\ K <= Len(link[d])
      /\ Position(d) = 1 .. Len(link[d])
  BY <1>1, <1>2, Items DEF Position
<1>5. /\ link'[d] = SubSeq(link[d], 1, K)
      /\ \A e \in Device : e # d => link'[e] = link[e] /\ sending'[e] = sending[e]
      /\ sending'[d] = Idle
  BY <1>1, <1>2, <1>3 DEF Types
<1>6. /\ link'[d] \in Seq(Item) /\ Len(link'[d]) = K
      /\ \A n \in 1 .. K : link'[d][n] = link[d][n]
  BY <1>4, <1>5
<1>7. \A u \in Transfer : Open(u) => Offered(u)
  BY <1>1, OpenIsPending, PendingIsOffered
<1>8. Drains(d, 0)
  <2>1. link' \in [Device -> Seq(Item)]
    BY <1>1, <1>2, <1>5, <1>6 DEF Types
  <2>2. sending' \in [Device -> [of : Transfer, sent : 0 .. MaxTotal] \cup {Idle}]
    BY <1>1, <1>3 DEF Types
  <2>3. broken' \in SUBSET Transfer /\ \A t \in broken' : Offered(t)
    BY <1>1, <1>3, <1>7 DEF Types
  <2> QED
    BY <1>3, <1>4, <1>5, <1>6, <2>1, <2>2, <2>3 DEF Drains
<1>9. /\ Types' /\ Ordered' /\ Gapless' /\ Exclusive'
      /\ \A u \in Transfer : /\ Pending(u)' => Pending(u)
                             /\ Open(u)' => Open(u)
                             /\ u[1] # d => (Open(u)' <=> Open(u))
  BY <1>1, <1>8, DrainKeeps
<1>10. \A u : Set(u)' = Set(u) /\ Total(u)' = Total(u) /\ (Offered(u)' <=> Offered(u))
  BY <1>3 DEF Set, Total, Offered
<1>11. Accounted'
  <2>1. \A t \in broken' : ~Open(t)'
    BY <1>1, <1>3, <1>9 DEF Accounted, Types
  <2>2. \A t \in Transfer : Pending(t)' => Open(t)' \/ t \in broken'
    BY <1>1, <1>3, <1>9 DEF Accounted
  <2> QED
    BY <2>1, <2>2 DEF Accounted
<1>12. Heirs'
  <2> SUFFICES ASSUME NEW t \in broken', NEW u \in Transfer, Pending(u)', Set(t) = Set(u),
                      Earlier(t, u)
               PROVE  Total(t) <= Total(u)
    BY <1>10 DEF Heirs, Earlier
  <2>1. CASE t \in broken
    BY <1>1, <1>9, <2>1 DEF Heirs
  <2>2. CASE t \notin broken
    <3>1. t \in Transfer /\ Open(t) /\ ~Open(t)'
      BY <1>3, <2>2
    <3>2. t[1] = d /\ u[1] = d
      BY <1>1, <1>9, <3>1, OpenIsPending DEF Exclusive
    <3>3. t[2] \in Nat /\ u[2] \in Nat /\ t[2] < u[2]
      BY <3>1, <3>2, TransferFacts DEF Earlier
    <3>4. PICK n \in 1 .. K : link[d][n].of = u
      BY <1>5, <1>6, <3>2 DEF Pending, Sends, Position
    <3>5. n \in Position(d)
      BY <1>4
    <3>6. CASE Sends(d, t)
      BY <1>1, <3>3, <3>4, <3>5, <3>6 DEF Ordered, Precedes, Sends
    <3>7. CASE ~Sends(d, t)
      <4>1. PICK m \in Position(d) : link[d][m].of = t /\ Last(link[d][m])
        BY <3>1, <3>2, <3>7 DEF Open, Sends, Last, Position
      <4>2. ~(m <= K)
        BY <1>4, <1>6, <3>1, <3>2, <4>1 DEF Open, Last
      <4>3. n < m
        BY <1>4, <4>2
      <4> QED
        BY <1>1, <3>3, <3>4, <3>5, <4>1, <4>3 DEF Ordered, Precedes
    <3> QED
      BY <3>6, <3>7
  <2> QED
    BY <2>1, <2>2
<1>13. Owned'
  <2> SUFFICES ASSUME NEW s \in SetId \ StraySet, chunk_buffers[s] # NoBuffer
               PROVE  \E u \in Transfer : Owns(u, s)'
    BY <1>3 DEF Owned
  <2>1. PICK u \in Transfer : Owns(u, s)
    BY <1>1 DEF Owned
  <2>2. Owns(u, s)'
    BY <1>3, <1>9, <1>10, <2>1 DEF Owns, Earlier
  <2> QED
    BY <2>2
<1>14. Contents'
  <2>1. ASSUME NEW e \in Device, link'[e] # <<>>
        PROVE  Arrived(Head(link'[e]).of, Head(link'[e]).chunk.start_byte)
    <3>1. CASE e # d
      BY <1>1, <1>5, <2>1, <3>1 DEF Contents
    <3>2. CASE e = d
      <4>1. K >= 1 /\ link[d] # <<>>
        BY <1>4, <1>6, <2>1, <3>2, EmptySeq
      <4>2. Head(link'[d]) = Head(link[d])
        BY <1>4, <1>6, <2>1, <3>2, <4>1
      <4> QED
        BY <1>1, <3>2, <4>1, <4>2 DEF Contents
    <3> QED
      BY <3>1, <3>2
  <2>2. ASSUME NEW e \in Device, link'[e] = <<>>, sending'[e] # Idle
        PROVE  Arrived(sending'[e].of, sending'[e].sent)
    BY <1>1, <1>5, <2>2 DEF Contents
  <2> QED
    BY <1>3, <2>1, <2>2 DEF Contents, Arrived, Set
<1>15. Delivered'
  BY <1>1, <1>3 DEF Delivered, Offered, Set, BlobOf
<1>16. Inv'
  BY <1>1, <1>3, StutterKeeps DEF chunkVars
<1> QED
  BY <1>3, <1>9, <1>11, <1>12, <1>13, <1>14, <1>15, <1>16 DEF TransferInv
-----------------------------------------------------------------------------
(* Receive: the chunk at the head of a link.                               *)

(* The transfer at the head of a link comes before all the others there.   *)
LEMMA HeadIsFirst ==
  ASSUME Types, Ordered, NEW d \in Device, link[d] # <<>>
  PROVE  /\ 1 \in Position(d) /\ Head(link[d]) = link[d][1]
         /\ ItemFacts(d, link[d][1]) /\ Pending(link[d][1].of)
         /\ \A u \in Transfer : Pending(u) /\ u[1] = d => link[d][1].of[2] <= u[2]
<1>1. 1 \in Position(d) /\ Head(link[d]) = link[d][1]
  BY Items, EmptySeq DEF Position
<1>2. ItemFacts(d, link[d][1])
  BY <1>1, Items
<1>3. Pending(link[d][1].of)
  BY <1>1, <1>2 DEF Pending, ItemFacts
<1>4. ASSUME NEW u \in Transfer, Pending(u), u[1] = d
      PROVE  link[d][1].of[2] <= u[2]
  <2>1. CASE Sends(d, u)
    BY <1>1, <2>1 DEF Ordered, Precedes, Sends
  <2>2. CASE ~Sends(d, u)
    <3>1. PICK n \in Position(d) : link[d][n].of = u
      BY <1>4, <2>2 DEF Pending
    <3>2. CASE n = 1
      BY <1>4, <3>1, <3>2, TransferFacts
    <3>3. CASE n # 1
      <4>1. 1 < n
        BY <3>3, Items DEF Position
      <4> QED
        BY <1>1, <3>1, <4>1 DEF Ordered, Precedes
    <3> QED
      BY <3>2, <3>3
  <2> QED
    BY <2>1, <2>2
<1> QED
  BY <1>1, <1>2, <1>3, <1>4

(* The buffer a sender's chunk is written to is as long as its blob, and   *)
(* up to the end of the chunk it then holds the sender's bytes.            *)
LEMMA ChunkFits ==
  ASSUME TransferInv, NEW d \in Device, link[d] # <<>>, NEW x, x = Head(link[d])
  PROVE  LET w == Written(Buffer(x.chunk), x.chunk)
         IN  /\ Len(Buffer(x.chunk)) = Total(x.of)
             /\ Len(w) = Total(x.of)
             /\ w = [i \in 1 .. Total(x.of) |-> w[i]]
             /\ \A i \in 1 .. End(x.chunk) : w[i] = Sent(Set(x.of), i, x.of)
<1> DEFINE t == x.of
           c == x.chunk
           b == Buffer(c)
           w == Written(b, c)
<1>1. Inv /\ Types /\ Ordered /\ Exclusive /\ Heirs /\ Owned /\ Contents
  BY DEF TransferInv
<1>2. /\ ItemFacts(d, x) /\ Pending(t)
      /\ \A u \in Transfer : Pending(u) /\ u[1] = d => t[2] <= u[2]
  BY <1>1, HeadIsFirst
<1>3. /\ t \in Transfer /\ t[1] = d /\ Offered(t) /\ c \in AnyChunk
      /\ Set(t) \in SetId \ StraySet /\ c.set_id = Set(t)
      /\ Total(t) \in 1 .. MaxTotal /\ c.total_size = Total(t)
      /\ c.start_byte \in Nat /\ End(c) \in Nat
      /\ c.start_byte < End(c) /\ End(c) <= Total(t)
      /\ \A i \in 1 .. Total(t) : c.start_byte < i /\ i <= End(c) =>
           c.data[i - c.start_byte] = Sent(Set(t), i, t)
  BY <1>2 DEF ItemFacts
<1>4. /\ b \in Seq(Cell) /\ Old(c) \in Seq(Cell)
      /\ \A i \in 1 .. Len(b) : b[i] = IF i <= Len(Old(c)) THEN Old(c)[i] ELSE Zero
  BY <1>1, <1>3, BufferKeeps DEF Inv
<1>5. Len(Old(c)) \in Nat /\ Len(Old(c)) <= Total(t)
  <2>1. CASE chunk_buffers[Set(t)] = NoBuffer
    BY <1>3, <2>1 DEF Old
  <2>2. CASE chunk_buffers[Set(t)] # NoBuffer
    <3>1. PICK u \in Transfer : Owns(u, Set(t))
      BY <1>1, <1>3, <2>2 DEF Owned
    <3>2. Len(Old(c)) = Total(u) /\ Set(u) = Set(t)
      BY <1>3, <2>2, <3>1 DEF Old, Owns
    <3>3. CASE t = u
      BY <1>3, <3>2, <3>3
    <3>4. CASE t # u
      <4>1. Earlier(u, t)
        BY <1>2, <1>3, <3>1, <3>4 DEF Owns
      <4>2. ~Pending(u)
        <5> SUFFICES ASSUME Pending(u) PROVE FALSE
          OBVIOUS
        <5>1. u[1] = t[1]
          BY <1>1, <1>2, <1>3, <3>2 DEF Exclusive
        <5>2. t[2] <= u[2] /\ u[2] < t[2]
          BY <1>2, <1>3, <4>1, <5>1 DEF Earlier
        <5> QED
          BY <1>3, <5>2, TransferFacts
      <4>3. u \in broken
        BY <3>1, <4>2, OpenIsPending DEF Owns
      <4>4. Total(u) <= Total(t)
        BY <1>1, <1>2, <1>3, <3>2, <4>1, <4>3 DEF Heirs
      <4> QED
        BY <1>4, <3>2, <4>4
    <3> QED
      BY <3>3, <3>4
  <2> QED
    BY <2>1, <2>2
<1>6. Len(b) = Total(t)
  BY <1>1, <1>3, <1>5, BufferKeeps DEF Inv
<1>7. Len(w) = Total(t)
  BY <1>1, <1>3, <1>4, <1>6, BufferInPlace, WrittenKeeps
<1>8. /\ w = [i \in 1 .. Total(t) |-> w[i]]
      /\ \A i \in 1 .. Total(t) :
           w[i] = IF c.start_byte < i /\ i <= End(c) THEN c.data[i - c.start_byte] ELSE b[i]
  BY <1>6 DEF Written
<1>9. ASSUME NEW i \in 1 .. End(c) PROVE w[i] = Sent(Set(t), i, t)
  <2>1. i \in Nat /\ i >= 1 /\ i <= End(c) /\ i \in 1 .. Total(t)
    BY <1>3
  <2>2. CASE c.start_byte < i
    BY <1>3, <1>8, <2>1, <2>2
  <2>3. CASE i <= c.start_byte
    <3>1. Arrived(t, c.start_byte)
      BY <1>1 DEF Contents
    <3>2. /\ i \in 1 .. c.start_byte /\ c.start_byte > 0
      BY <1>3, <2>1, <2>3
    <3>3. /\ chunk_buffers[Set(t)] # NoBuffer
          /\ c.start_byte <= Len(chunk_buffers[Set(t)])
          /\ chunk_buffers[Set(t)][i] = Sent(Set(t), i, t)
      BY <3>1, <3>2 DEF Arrived
    <3>4. Old(c) = chunk_buffers[Set(t)]
      BY <1>3, <3>3 DEF Old
    <3>5. b[i] = Old(c)[i]
      BY <1>3, <1>4, <1>5, <1>6, <2>1, <2>3, <3>3, <3>4
    <3>6. w[i] = b[i]
      BY <1>3, <1>8, <2>1, <2>3
    <3> QED
      BY <3>3, <3>4, <3>5, <3>6
  <2> QED
    BY <1>3, <2>1, <2>2, <2>3
<1> QED
  BY <1>6, <1>7, <1>8, <1>9
(* What reading the item x of the link of d does to transfers and buffers. *)
Reads(d, x) ==
  LET t == x.of
      w == Written(Buffer(x.chunk), x.chunk)
  IN  /\ UNCHANGED <<offer, sending, broken>>
      /\ \A e \in Device : e # d => link'[e] = link[e]
      /\ \A u \in Transfer : /\ Pending(u)' => Pending(u)
                             /\ Open(u)' => Open(u)
                             /\ Open(u) => Open(u)' \/ (u = t /\ Last(x))
      /\ link'[d] # <<>> =>
           Follows(x, Head(link'[d]).of, Head(link'[d]).chunk.start_byte)
      /\ link'[d] = <<>> /\ sending[d] # Idle =>
           Follows(x, sending[d].of, sending[d].sent)
      /\ \A s \in SetId : s # Set(t) => chunk_buffers'[s] = chunk_buffers[s]
      /\ ~Last(x) => /\ w # NoBuffer /\ chunk_buffers'[Set(t)] = w
                     /\ out' = <<Progress(d, x.chunk)>>
      /\ Last(x) => /\ Open(t) /\ ~Pending(t)'
                    /\ chunk_buffers'[Set(t)] = NoBuffer
                    /\ out' = <<Progress(d, x.chunk), Complete(d, x.chunk, w)>>

LEMMA ReceiveReads ==
  ASSUME TransferInv, NEW d \in Device, Receive(d), NEW x, x = Head(link[d])
  PROVE  Reads(d, x) /\ Inv' /\ Types' /\ Ordered' /\ Gapless' /\ Exclusive'
<1> DEFINE t == x.of
           c == x.chunk
           w == Written(Buffer(c), c)
           L == Len(link[d])
<1>1. Inv /\ Types /\ Ordered /\ Gapless /\ Exclusive
  BY DEF TransferInv
<1>2. /\ link[d] # <<>> /\ HandleChunk(d, c)
      /\ link' = [link EXCEPT ![d] = Tail(@)]
      /\ UNCHANGED <<offer, sending, broken>>
  BY DEF Receive
<1>3. /\ 1 \in Position(d) /\ x = link[d][1] /\ ItemFacts(d, x) /\ Pending(t)
  BY <1>1, <1>2, HeadIsFirst
<1>4. /\ t \in Transfer /\ t[1] = d /\ c \in AnyChunk /\ Set(t) \in SetId /\ c.set_id = Set(t)
      /\ Total(t) \in Nat /\ c.total_size = Total(t)
      /\ c.start_byte \in Nat /\ End(c) \in Nat
      /\ c.start_byte < End(c) /\ End(c) <= Total(t)
  BY <1>3, ChunkAssumption DEF ItemFacts
<1>5. /\ link[d] \in Seq(Item) /\ L \in Nat /\ L >= 1 /\ Position(d) = 1 .. L
      /\ \A e \in Device : e # d => link'[e] = link[e]
      /\ link'[d] = Tail(link[d])
  BY <1>1, <1>2, <1>3, Items DEF Position, Types
<1>6. /\ link'[d] \in Seq(Item) /\ Len(link'[d]) = L - 1
      /\ \A n \in 1 .. L - 1 : link'[d][n] = link[d][n + 1]
  <2>1. /\ Tail(link[d]) \in Seq(Item) /\ Len(Tail(link[d])) = L - 1
        /\ \A n \in 1 .. L - 1 : Tail(link[d])[n] = link[d][n + 1]
    BY <1>2, <1>5, HeadTailProperties
  <2> QED
    BY <1>5, <2>1
<1>7. Drains(d, 1)
  <2>1. link' \in [Device -> Seq(Item)]
    BY <1>1, <1>2, <1>5, <1>6 DEF Types
  <2> QED
    BY <1>1, <1>2, <1>5, <1>6, <2>1 DEF Drains, Types
<1>8. /\ Types' /\ Ordered' /\ Gapless' /\ Exclusive'
      /\ \A u \in Transfer : /\ Pending(u)' => Pending(u)
                             /\ Open(u)' => Open(u)
                             /\ u[1] # d => (Open(u)' <=> Open(u))
  BY <1>1, <1>7, DrainKeeps
<1>9. Inv'
  BY <1>1, <1>2, <1>4, HandleStep
<1>10. ASSUME NEW u \in Transfer, Open(u) PROVE Open(u)' \/ (u = t /\ Last(x))
  <2>a. u[1] # d => Open(u)'
    BY <1>8, <1>10
  <2>b. u[1] = d /\ Sends(d, u) => Open(u)'
    BY <1>2 DEF Open, Sends
  <2> SUFFICES ASSUME u[1] = d, ~Sends(d, u), ~(u = t /\ Last(x)) PROVE Open(u)'
    BY <2>a, <2>b
  <2>1. PICK n \in 1 .. L : link[d][n].of = u /\ Last(link[d][n])
    BY <1>10 DEF Open, Sends, Last
  <2>2. n # 1
    BY <1>3, <2>1
  <2>3. n - 1 \in 1 .. L - 1 /\ link'[d][n - 1] = link[d][n]
    BY <1>5, <1>6, <2>1, <2>2
  <2> QED
    BY <1>6, <2>1, <2>3 DEF Open, Last
<1>11. link'[d] # <<>> => Follows(x, Head(link'[d]).of, Head(link'[d]).chunk.start_byte)
  <2> SUFFICES ASSUME link'[d] # <<>>
               PROVE  Follows(x, Head(link'[d]).of, Head(link'[d]).chunk.start_byte)
    OBVIOUS
  <2>1. L >= 2
    BY <1>5, <1>6, EmptySeq
  <2>2. Head(link'[d]) = link[d][2]
    BY <1>5, <1>6, <2>1
  <2>3. 1 + 1 \in Position(d)
    BY <1>5, <2>1
  <2> QED
    BY <1>1, <1>3, <2>2, <2>3 DEF Gapless
<1>12. link'[d] = <<>> /\ sending[d] # Idle => Follows(x, sending[d].of, sending[d].sent)
  <2> SUFFICES ASSUME link'[d] = <<>>, sending[d] # Idle
               PROVE  Follows(x, sending[d].of, sending[d].sent)
    OBVIOUS
  <2>1. L = 1
    BY <1>5, <1>6, EmptySeq
  <2> QED
    BY <1>1, <1>2, <1>3, <2>1 DEF Gapless
<1>13. Last(x) => Open(t) /\ ~Pending(t)'
  <2> SUFFICES ASSUME Last(x) PROVE Open(t) /\ ~Pending(t)'
    OBVIOUS
  <2>1. Open(t)
    BY <1>3, <1>4, <1>5 DEF Open, Last
  <2>2. ~Sends(d, t)
    <3> SUFFICES ASSUME sending[d] # Idle, sending[d].of = t PROVE FALSE
      BY DEF Sends
    <3>1. End(c) <= sending[d].sent
      BY <1>1, <1>3 DEF Ordered, Precedes
    <3>2. sending[d].sent \in Nat /\ sending[d].sent < Total(t)
      BY <1>1, Sendings
    <3> QED
      BY <1>4, <3>1, <3>2 DEF Last
  <2>3. ASSUME NEW n \in Position(d), n > 1, link[d][n].of = t PROVE FALSE
    <3>1. /\ ItemFacts(d, link[d][n]) /\ End(c) <= link[d][n].chunk.start_byte
      BY <1>1, <1>3, <2>3, Items DEF Ordered, Precedes
    <3>2. /\ link[d][n].chunk.start_byte \in Nat /\ End(link[d][n].chunk) \in Nat
          /\ link[d][n].chunk.start_byte < End(link[d][n].chunk)
          /\ End(link[d][n].chunk) <= Total(t)
      BY <2>3, <3>1 DEF ItemFacts
    <3> QED
      BY <1>4, <3>1, <3>2 DEF Last
  <2>4. \A n \in 1 .. L - 1 : link'[d][n].of # t
    <3> SUFFICES ASSUME NEW n \in 1 .. L - 1, link'[d][n].of = t PROVE FALSE
      OBVIOUS
    <3>1. n + 1 \in Position(d) /\ n + 1 > 1
      BY <1>5
    <3> QED
      BY <1>6, <2>3, <3>1
  <2> QED
    BY <1>2, <1>4, <1>6, <2>1, <2>2, <2>4 DEF Pending, Sends, Position
<1>14. Len(Buffer(c)) = Total(t) /\ (Last(x) <=> IsLast(c))
  <2>1. Len(Buffer(c)) = Total(t)
    BY <1>2, ChunkFits
  <2>2. Last(x) <=> IsLast(c)
    BY <1>4 DEF Last, IsLast
  <2> QED
    BY <2>1, <2>2
<1>15. ~ChunkOutOfBounds(d, c)
  BY <1>4, <1>14 DEF ChunkOutOfBounds
<1>16. chunk_buffers \in [SetId -> Seq(Cell) \cup {NoBuffer}]
  BY <1>1 DEF Inv, ChunkTypeOK
<1>17. w \in Seq(Cell)
  BY <1>1, <1>4, BufferKeeps, BufferInPlace, WrittenKeeps DEF Inv
<1> HIDE DEF w
<1>18. w # NoBuffer
  BY <1>17, ChunkAssumption
<1>19. /\ \A s \in SetId : s # Set(t) => chunk_buffers'[s] = chunk_buffers[s]
       /\ ~Last(x) => chunk_buffers'[Set(t)] = w /\ out' = <<Progress(d, c)>>
       /\ Last(x) => /\ chunk_buffers'[Set(t)] = NoBuffer
                     /\ out' = <<Progress(d, c), Complete(d, c, w)>>
  BY <1>2, <1>4, <1>14, <1>15, <1>16 DEF HandleChunk, ChunkStored, ChunkCompletes, w
<1> QED
  BY <1>2, <1>5, <1>8, <1>9, <1>10, <1>11, <1>12, <1>13, <1>18, <1>19 DEF Reads, w
LEMMA BlobBytes ==
  ASSUME Types, NEW t \in Transfer, Offered(t)
  PROVE  BlobOf(t) = [i \in 1 .. Total(t) |-> Sent(Set(t), i, t)]
<1>1. BlobOf(t) = [i \in 1 .. Total(t) |-> Sent(Set(t), 0 + i, t)]
  BY DEF BlobOf, Chunk, Set, Total, Sent
<1>2. \A i \in 1 .. Total(t) : 0 + i = i
  BY OfferFacts
<1> QED
  BY <1>1, <1>2

(* A chunk that is not the last leaves the transfers as they are; the last *)
(* one hands over the blob of its transfer, which was open.                *)
HandsOver(t) ==
  /\ t \in Transfer /\ Offered(t) /\ Open(t) /\ ~Open(t)'
  /\ \A u \in Transfer : u # t => (Open(u)' <=> Open(u))
  /\ Len(out') = 2 /\ out' # <<>> /\ out'[2].kind = "ChunkSetComplete"
  /\ out'[2].device_id = t[1] /\ out'[2].set_id = Set(t) /\ out'[2].blob = BlobOf(t)

HandsNothing ==
  /\ \A u \in Transfer : Open(u)' <=> Open(u)
  /\ Len(out') = 1 /\ out' # <<>> /\ out'[1].kind # "ChunkSetComplete"

LEMMA ReceiveOutcome ==
  ASSUME TransferInv, NEW d \in Device, Receive(d)
  PROVE  HandsNothing \/ \E t \in Transfer : HandsOver(t)
<1>0. PICK x : x = Head(link[d])
  OBVIOUS
<1> DEFINE t == x.of
           c == x.chunk
           w == Written(Buffer(c), c)
<1>1. Types /\ Ordered /\ link[d] # <<>>
  BY DEF TransferInv, Receive
<1>2. ItemFacts(d, x)
  BY <1>0, <1>1, HeadIsFirst
<1>3. Reads(d, x)
  BY <1>0, ReceiveReads
<1>4. t \in Transfer /\ t[1] = d /\ Offered(t) /\ c.set_id = Set(t) /\ c.total_size = Total(t)
  BY <1>2 DEF ItemFacts
<1>5. CASE ~Last(x)
  <2>1. out' = <<Progress(d, c)>> /\ \A u \in Transfer : Open(u)' <=> Open(u)
    BY <1>3, <1>5 DEF Reads
  <2>2. Progress(d, c).kind # "ChunkSetComplete"
    BY DEF Progress
  <2> HIDE DEF c
  <2> QED
    BY <2>1, <2>2 DEF HandsNothing
<1>6. CASE Last(x)
  <2>1. /\ out' = <<Progress(d, c), Complete(d, c, w)>>
        /\ Open(t) /\ ~Pending(t)'
        /\ \A u \in Transfer : Open(u)' => Open(u)
        /\ \A u \in Transfer : Open(u) => Open(u)' \/ u = t
    BY <1>3, <1>6 DEF Reads
  <2>2. w = BlobOf(t)
    <3>1. w = [i \in 1 .. Total(t) |-> w[i]]
          /\ \A i \in 1 .. End(c) : w[i] = Sent(Set(t), i, t)
      BY <1>0, <1>1, ChunkFits
    <3>2. End(c) = Total(t)
      BY <1>4, <1>6 DEF Last
    <3>3. w = [i \in 1 .. Total(t) |-> Sent(Set(t), i, t)]
      BY <3>1, <3>2, Zenon
    <3> QED
      BY <1>1, <1>4, <3>3, BlobBytes
  <2>3. ~Open(t)'
    BY <2>1 DEF Open, Pending, Sends, Position
  <2>4. /\ Complete(d, c, w).kind = "ChunkSetComplete" /\ Complete(d, c, w).device_id = d
        /\ Complete(d, c, w).set_id = c.set_id /\ Complete(d, c, w).blob = w
    BY DEF Complete
  <2> HIDE DEF t, c, w
  <2>5. Len(out') = 2 /\ out' # <<>> /\ out'[2] = Complete(d, c, w)
    BY <2>1
  <2> QED
    BY <1>4, <2>1, <2>2, <2>3, <2>4, <2>5 DEF HandsOver
<1> QED
  BY <1>5, <1>6

LEMMA ReceiveKeeps ==
  ASSUME TransferInv, NEW d \in Device, Receive(d)
  PROVE  TransferInv' /\ UNCHANGED <<offer, broken>>
<1>0. PICK x : x = Head(link[d])
  OBVIOUS
<1> DEFINE t == x.of
           c == x.chunk
           w == Written(Buffer(c), c)
<1>1. /\ Inv /\ Types /\ Ordered /\ Accounted /\ Exclusive /\ Heirs
      /\ Owned /\ Contents /\ Delivered
  BY DEF TransferInv
<1>2. link[d] # <<>>
  BY DEF Receive
<1>3. /\ ItemFacts(d, x) /\ Pending(t)
      /\ \A u \in Transfer : Pending(u) /\ u[1] = d => t[2] <= u[2]
  BY <1>0, <1>1, <1>2, HeadIsFirst
<1>4. /\ t \in Transfer /\ t[1] = d /\ Offered(t) /\ Set(t) \in SetId \ StraySet
      /\ Total(t) \in Nat /\ End(c) \in Nat /\ End(c) <= Total(t) /\ c.total_size = Total(t)
      /\ c.start_byte < End(c) /\ c.start_byte \in Nat
  BY <1>3, ChunkAssumption DEF ItemFacts
<1>5. Inv' /\ Types' /\ Ordered' /\ Gapless' /\ Exclusive' /\ Reads(d, x)
  BY <1>0, ReceiveReads
<1> HIDE DEF w
<1>6. /\ UNCHANGED <<offer, sending, broken>>
      /\ \A e \in Device : e # d => link'[e] = link[e]
      /\ \A u \in Transfer : /\ Pending(u)' => Pending(u)
                             /\ Open(u)' => Open(u)
                             /\ Open(u) => Open(u)' \/ (u = t /\ Last(x))
      /\ \A s \in SetId : s # Set(t) => chunk_buffers'[s] = chunk_buffers[s]
      /\ ~Last(x) => w # NoBuffer /\ chunk_buffers'[Set(t)] = w
      /\ Last(x) => Open(t) /\ ~Pending(t)' /\ chunk_buffers'[Set(t)] = NoBuffer
  BY <1>5 DEF Reads, w
<1>7. \A u : Set(u)' = Set(u) /\ Total(u)' = Total(u) /\ (Offered(u)' <=> Offered(u))
  BY <1>6 DEF Set, Total, Offered
<1>8. /\ Len(w) = Total(t)
      /\ \A i \in 1 .. End(c) : w[i] = Sent(Set(t), i, t)
  BY <1>0, <1>2, ChunkFits DEF w
<1>9. Accounted'
  <2>1. \A u \in broken' : ~Open(u)'
    BY <1>1, <1>6 DEF Accounted, Types
  <2>2. ASSUME NEW u \in Transfer, Pending(u)' PROVE Open(u)' \/ u \in broken'
    <3>1. Open(u) \/ u \in broken
      BY <1>1, <1>6, <2>2 DEF Accounted
    <3>2. ~(u = t /\ Last(x))
      BY <1>6, <2>2
    <3> QED
      BY <1>6, <3>1, <3>2
  <2> QED
    BY <2>1, <2>2 DEF Accounted
<1>10. Heirs'
  BY <1>1, <1>6, <1>7 DEF Heirs, Earlier
<1>11. Owned'
  <2> SUFFICES ASSUME NEW s \in SetId \ StraySet, chunk_buffers'[s] # NoBuffer
               PROVE  \E u \in Transfer : Owns(u, s)'
    BY DEF Owned
  <2>1. CASE s # Set(t)
    <3>1. chunk_buffers'[s] = chunk_buffers[s]
      BY <1>6, <2>1
    <3>2. PICK u \in Transfer : Owns(u, s)
      BY <1>1, <3>1 DEF Owned
    <3>3. u # t
      BY <2>1, <3>2 DEF Owns
    <3>4. Owns(u, s)'
      BY <1>6, <1>7, <3>1, <3>2, <3>3 DEF Owns, Earlier
    <3> QED
      BY <3>4
  <2>2. CASE s = Set(t)
    <3>1. ~Last(x) /\ chunk_buffers'[s] = w
      BY <1>6, <2>2
    <3>2. Open(t)' \/ t \in broken'
      BY <1>1, <1>3, <1>4, <1>6, <3>1 DEF Accounted
    <3>3. ASSUME NEW u \in Transfer, Pending(u)', Set(u) = s PROVE u = t \/ Earlier(t, u)
      <4>1. u[1] = d
        BY <1>1, <1>3, <1>4, <1>6, <2>2, <3>3 DEF Exclusive
      <4>2. t[2] <= u[2] /\ t[2] \in Nat /\ u[2] \in Nat
        BY <1>3, <1>4, <1>6, <3>3, <4>1, TransferFacts
      <4>3. u = <<d, u[2]>> /\ t = <<d, t[2]>>
        BY <1>4, <4>1, TransferFacts
      <4> QED
        BY <4>2, <4>3 DEF Earlier
    <3>4. Owns(t, s)'
      BY <1>4, <1>6, <1>7, <1>8, <2>2, <3>1, <3>2, <3>3 DEF Owns, Earlier
    <3> QED
      BY <1>4, <3>4
  <2> QED
    BY <2>1, <2>2
<1>12. Contents'
  <2>1. ASSUME NEW e \in Device, e # d, NEW u \in Transfer, NEW n \in Nat, u[1] = e,
               Pending(u), Arrived(u, n)
        PROVE  Arrived(u, n)'
    <3>1. Set(u) # Set(t)
      BY <1>1, <1>3, <1>4, <2>1 DEF Exclusive
    <3>2. Set(u) \in SetId
      BY <1>1, <2>1, PendingIsOffered, OfferFacts
    <3>3. chunk_buffers'[Set(u)] = chunk_buffers[Set(u)]
      BY <1>6, <3>1, <3>2
    <3> QED
      BY <1>7, <2>1, <3>3 DEF Arrived, Sent
  <2>2. ASSUME NEW u, NEW n \in Nat, Follows(x, u, n), Last(x) => u # t
        PROVE  Arrived(u, n)'
    <3>1. CASE u # t
      BY <2>2, <3>1 DEF Follows, Arrived
    <3>2. CASE u = t
      <4>1. ~Last(x) /\ n = End(c)
        BY <2>2, <3>2 DEF Follows
      <4>2. chunk_buffers'[Set(t)] = w /\ w # NoBuffer
        BY <1>6, <4>1
      <4> QED
        BY <1>4, <1>7, <1>8, <3>2, <4>1, <4>2 DEF Arrived, Sent
    <3> QED
      BY <3>1, <3>2
  <2>3. ASSUME NEW e \in Device, link'[e] # <<>>
        PROVE  Arrived(Head(link[e]).of, Head(link[e]).chunk.start_byte)'
    <3>1. PICK y : y = Head(link'[e])
      OBVIOUS
    <3>2. y \in Item /\ y = link'[e][1] /\ 1 \in Position(e)' /\ y.of[1] = e
      <4>1. link'[e] \in Seq(Item)
        BY <1>5 DEF Types
      <4>2. y \in Item /\ y = link'[e][1] /\ 1 \in Position(e)'
        BY <2>3, <3>1, <4>1, EmptySeq DEF Position
      <4> QED
        BY <1>5, <4>2 DEF Types, ItemOK
    <3>3. y.of \in Transfer /\ y.of[1] = e /\ y.chunk.start_byte \in Nat /\ Pending(y.of)'
      BY <3>2, ChunkFields DEF Item, Pending
    <3>4. CASE e # d
      <4>1. Arrived(y.of, y.chunk.start_byte)
        BY <1>1, <1>6, <2>3, <3>1, <3>4 DEF Contents
      <4>2. Arrived(y.of, y.chunk.start_byte)'
        BY <1>6, <2>1, <3>3, <3>4, <4>1
      <4> QED
        BY <3>1, <4>2
    <3>5. CASE e = d
      <4>1. Follows(x, y.of, y.chunk.start_byte)
        BY <1>5, <2>3, <3>1, <3>5 DEF Reads
      <4>2. Last(x) => y.of # t
        BY <1>6, <3>3
      <4>3. Arrived(y.of, y.chunk.start_byte)'
        BY <2>2, <3>3, <4>1, <4>2
      <4> QED
        BY <3>1, <4>3
    <3> QED
      BY <3>4, <3>5
  <2>4. ASSUME NEW e \in Device, link'[e] = <<>>, sending'[e] # Idle
        PROVE  Arrived(sending[e].of, sending[e].sent)'
    <3>1. PICK u, n : u = sending[e].of /\ n = sending[e].sent
      OBVIOUS
    <3>2. sending'[e] = sending[e] /\ sending[e] # Idle
      BY <1>6, <2>4
    <3>3. u \in Transfer /\ u[1] = e /\ n \in Nat /\ Sends(e, u)
      BY <1>1, <3>1, <3>2, Sendings DEF Sends
    <3>4. Pending(u) /\ Pending(u)'
      BY <1>6, <3>3 DEF Pending, Sends
    <3>5. CASE e # d
      <4>1. Arrived(u, n)
        BY <1>1, <1>6, <2>4, <3>1, <3>5 DEF Contents
      <4>2. Arrived(u, n)'
        BY <2>1, <3>3, <3>4, <3>5, <4>1
      <4> QED
        BY <3>1, <3>2, <4>2
    <3>6. CASE e = d
      <4>1. Follows(x, u, n)
        BY <1>5, <2>4, <3>1, <3>2, <3>6 DEF Reads
      <4>2. Arrived(u, n)'
        BY <1>6, <2>2, <3>3, <3>4, <4>1
      <4> QED
        BY <3>1, <3>2, <4>2
    <3> QED
      BY <3>5, <3>6
  <2> QED
    BY <2>3, <2>4 DEF Contents
<1>13. Delivered'
  <2>1. HandsNothing \/ \E u \in Transfer : HandsOver(u)
    BY ReceiveOutcome
  <2>2. CASE HandsNothing
    BY <2>2 DEF HandsNothing, Delivered
  <2>3. ASSUME NEW u \in Transfer, HandsOver(u) PROVE Delivered'
    <3>1. /\ Offered(u)' /\ out'[Len(out')].device_id = u[1]
          /\ out'[Len(out')].set_id = Set(u)' /\ out'[Len(out')].blob = BlobOf(u)'
      BY <1>6, <1>7, <2>3 DEF HandsOver, BlobOf
    <3> QED
      BY <3>1 DEF Delivered
  <2> QED
    BY <2>1, <2>2, <2>3
<1> QED
  BY <1>5, <1>6, <1>9, <1>10, <1>11, <1>12, <1>13 DEF TransferInv
-----------------------------------------------------------------------------
(* Interfere: only the stranger's buffers and reports.                     *)

StrangerReported ==
  /\ \A u \in Transfer : Open(u)' <=> Open(u)
  /\ out' # <<>>
  /\ \/ out'[Len(out')].kind # "ChunkSetComplete"
     \/ out'[Len(out')].device_id = Stranger

LEMMA InterfereKeeps ==
  ASSUME TransferInv, NEW set \in StraySet, NEW start \in 0 .. MaxStray,
         NEW total \in 0 .. MaxStray, NEW size \in 1 .. MaxStray,
         Interfere(set, start, size, total)
  PROVE  TransferInv' /\ UNCHANGED <<offer, broken>> /\ StrangerReported
<1> DEFINE c == Chunk(set, start, size, total, Stranger)
           w == Written(Buffer(c), c)
<1>1. /\ Inv /\ Types /\ Ordered /\ Gapless /\ Accounted /\ Exclusive /\ Heirs
      /\ Owned /\ Contents
  BY DEF TransferInv
<1>2. /\ start + size <= MaxStray /\ HandleChunk(Stranger, c)
      /\ UNCHANGED <<offer, sending, link, broken>>
  BY DEF Interfere
<1>3. Stranger \in Device /\ Stranger \in Source /\ set \in SetId
  BY TransferAssumption
<1>4. c \in AnyChunk /\ c.set_id = set
  <2>1. /\ start \in 0 .. MaxTotal /\ size \in 0 .. MaxTotal /\ total \in 0 .. MaxTotal
        /\ start + size <= MaxTotal
    BY <1>2, ChunkAssumption, TransferAssumption
  <2> QED
    BY <1>3, <2>1, ChunkIsAny DEF Chunk
<1>5. Inv'
  BY <1>1, <1>2, <1>3, <1>4, HandleStep
<1> HIDE DEF c, w
<1>6. \A s \in SetId : s # set => chunk_buffers'[s] = chunk_buffers[s]
  <2>1. chunk_buffers \in [SetId -> Seq(Cell) \cup {NoBuffer}]
    BY <1>1 DEF Inv, ChunkTypeOK
  <2> QED
    BY <1>2, <1>4, <2>1 DEF HandleChunk, ChunkOutOfBounds, ChunkStored, ChunkCompletes
<1>7. \/ out' = <<ErrorLog>> \/ out' = <<Progress(Stranger, c)>>
      \/ out' = <<Progress(Stranger, c), Complete(Stranger, c, w)>>
  BY <1>2 DEF HandleChunk, ChunkOutOfBounds, ChunkStored, ChunkCompletes, w
<1>8. /\ out' # <<>>
      /\ \/ out'[Len(out')].kind # "ChunkSetComplete"
         \/ out'[Len(out')].device_id = Stranger
  <2>1. /\ ErrorLog.kind # "ChunkSetComplete" /\ Progress(Stranger, c).kind # "ChunkSetComplete"
        /\ Complete(Stranger, c, w).device_id = Stranger
    BY DEF ErrorLog, Progress, Complete
  <2> QED
    BY <1>7, <2>1
<1>9. /\ \A u : /\ Set(u)' = Set(u) /\ Total(u)' = Total(u)
                /\ (Offered(u)' <=> Offered(u))
      /\ \A u : (Pending(u)' <=> Pending(u)) /\ (Open(u)' <=> Open(u))
      /\ \A e : Position(e)' = Position(e)
  BY <1>2 DEF Set, Total, Offered, Pending, Sends, Open, Position
<1>10. Types'
  BY <1>1, <1>2, <1>9 DEF Types, ItemOK
<1>11. Ordered' /\ Gapless'
  BY <1>1, <1>2, <1>9 DEF Ordered, Gapless, Precedes, Follows
<1>12. Accounted' /\ Exclusive' /\ Heirs'
  BY <1>1, <1>2, <1>9 DEF Accounted, Exclusive, Heirs, Earlier
<1>13. Owned'
  <2> SUFFICES ASSUME NEW s \in SetId \ StraySet, chunk_buffers'[s] # NoBuffer
               PROVE  \E u \in Transfer : Owns(u, s)'
    BY DEF Owned
  <2>1. chunk_buffers'[s] = chunk_buffers[s]
    BY <1>6
  <2>2. PICK u \in Transfer : Owns(u, s)
    BY <1>1, <2>1 DEF Owned
  <2>3. Owns(u, s)'
    BY <1>2, <1>9, <2>1, <2>2 DEF Owns, Earlier
  <2> QED
    BY <2>3
<1>14. Contents'
  <2>1. ASSUME NEW u \in Transfer, NEW n, Offered(u), Arrived(u, n) PROVE Arrived(u, n)'
    <3>1. chunk_buffers'[Set(u)] = chunk_buffers[Set(u)]
      BY <1>1, <1>6, <2>1, OfferFacts
    <3> QED
      BY <1>9, <2>1, <3>1 DEF Arrived, Sent
  <2>2. ASSUME NEW e \in Device, link[e] # <<>>
        PROVE  Arrived(Head(link[e]).of, Head(link[e]).chunk.start_byte)'
    <3>1. PICK y : y = Head(link[e])
      OBVIOUS
    <3>2. y.of \in Transfer /\ Offered(y.of)
      BY <1>1, <2>2, <3>1, HeadIsFirst DEF ItemFacts
    <3>3. Arrived(y.of, y.chunk.start_byte)'
      BY <1>1, <2>1, <2>2, <3>1, <3>2 DEF Contents
    <3> QED
      BY <1>2, <3>1, <3>3
  <2>3. ASSUME NEW e \in Device, link[e] = <<>>, sending[e] # Idle
        PROVE  Arrived(sending[e].of, sending[e].sent)'
    <3>1. PICK u, n : u = sending[e].of /\ n = sending[e].sent
      OBVIOUS
    <3>2. Arrived(u, n)'
      BY <1>1, <2>1, <2>3, <3>1, Sendings DEF Contents
    <3> QED
      BY <1>2, <3>1, <3>2
  <2> QED
    BY <1>2, <2>2, <2>3 DEF Contents
<1>15. Delivered'
  BY <1>8 DEF Delivered
<1> QED
  BY <1>2, <1>5, <1>8, <1>9, <1>10, <1>11, <1>12, <1>13, <1>14, <1>15
  DEF TransferInv, StrangerReported
-----------------------------------------------------------------------------
(* The transfer reported: a blob names the transfer its bytes belong to.   *)

Hands(u) ==
  LET last == out[Len(out)]
  IN  /\ out # <<>> /\ last.kind = "ChunkSetComplete"
      /\ last.device_id = u[1] /\ last.set_id = Set(u) /\ last.blob = BlobOf(u)

HandsToNobody ==
  LET last == out[Len(out)]
  IN  out = <<>> \/ last.kind # "ChunkSetComplete" \/ last.device_id = Stranger

ReportRule ==
  Types => /\ \A u \in Transfer : Offered(u) /\ Hands(u) => Reported = u
           /\ HandsToNobody => Reported = Nothing

LEMMA BlobsDiffer ==
  ASSUME Types, NEW t \in Transfer, NEW u \in Transfer, Offered(t), Offered(u),
         BlobOf(t) = BlobOf(u)
  PROVE  t = u
<1>1. 1 \in 1 .. Total(t) /\ 1 \in 1 .. Total(u)
  <2>1. Total(t) \in 1 .. MaxTotal /\ Total(u) \in 1 .. MaxTotal
    BY OfferFacts
  <2> QED
    BY <2>1, ChunkAssumption
<1>2. BlobOf(t)[1] = Sent(Set(t), 1, t) /\ BlobOf(u)[1] = Sent(Set(u), 1, u)
  BY <1>1, BlobBytes
<1>3. Sent(Set(t), 1, t).of = t /\ Sent(Set(u), 1, u).of = u
  BY DEF Sent
<1> QED
  BY <1>2, <1>3

LEMMA ReportRuleHolds == ReportRule
<1> SUFFICES ASSUME Types PROVE /\ \A u \in Transfer : Offered(u) /\ Hands(u) => Reported = u
                                /\ HandsToNobody => Reported = Nothing
  BY DEF ReportRule
<1>1. ASSUME NEW u \in Transfer, Offered(u), Hands(u) PROVE Reported = u
  <2> DEFINE last == out[Len(out)]
             same == {t \in Started : last.device_id = t[1] /\ last.set_id = offer[t].set
                                        /\ last.blob = BlobOf(t)}
  <2>1. out # <<>> /\ last.kind = "ChunkSetComplete" /\ last.device_id # Stranger
    BY <1>1, TransferFacts DEF Hands
  <2>2. u \in same
    BY <1>1 DEF Hands, Started, Offered, Set
  <2>3. \A t \in same : t = u
    BY <1>1, BlobsDiffer DEF Hands, Started, Offered
  <2>4. Reported = IF same = {} THEN Garbled ELSE CHOOSE t \in same : TRUE
    BY <2>1 DEF Reported
  <2> HIDE DEF same
  <2> QED
    BY <2>2, <2>3, <2>4
<1>2. HandsToNobody => Reported = Nothing
  BY DEF HandsToNobody, Reported
<1> QED
  BY <1>1, <1>2

LEMMA ReportRuleNext == ReportRule'
BY ReportRuleHolds, PTL
-----------------------------------------------------------------------------
(* Every step, as BlobTransfer sees it.                                    *)

StatusOf(t) == IF offer[t] = NotOffered THEN "new"
               ELSE IF Open(t) THEN "open"
               ELSE IF t \in broken THEN "lost" ELSE "over"

Status == [t \in Transfer |-> StatusOf(t)]

BlobStep ==
  \/ \E t \in Transfer : /\ Status[t] = "new"
                         /\ Status' = [Status EXCEPT ![t] = "open"]
                         /\ Reported' = Reported
  \/ \E t \in Transfer : /\ Status[t] = "open"
                         /\ Status' = [Status EXCEPT ![t] = "over"]
                         /\ Reported' = t
  \/ \E T \in SUBSET Transfer : /\ \A t \in T : Status[t] = "open"
                                /\ Status' = [t \in Transfer |->
                                     IF t \in T THEN "lost" ELSE Status[t]]
                                /\ Reported' = Reported
  \/ Reported' = Nothing /\ Status' = Status
  \/ Reported' = Reported /\ Status' = Status

LEMMA BlobStepIsBlobNext == BlobStep => [Blobs!BlobNext]_(Blobs!blobVars)
BY DEF BlobStep, Status, StatusOf, Blobs!BlobNext, Blobs!blobVars, Blobs!Offer,
       Blobs!HandOver, Blobs!GiveUp, Blobs!Acknowledge

(* What was reported stays so until the next call.                         *)
LEMMA ReportStays ==
  ASSUME TransferInv, TransferInv', out' = out,
         \A u \in Transfer : Offered(u) => offer'[u] = offer[u]
  PROVE  Reported' = Reported
<1>1. ReportRule /\ ReportRule' /\ Types /\ Types' /\ Delivered
  BY ReportRuleHolds, ReportRuleNext DEF TransferInv
<1>2. CASE HandsToNobody
  <2>1. HandsToNobody'
    BY <1>2 DEF HandsToNobody
  <2> QED
    BY <1>1, <1>2, <2>1 DEF ReportRule
<1>3. CASE ~HandsToNobody
  <2>1. PICK u \in Transfer : Offered(u) /\ Hands(u)
    BY <1>1, <1>3 DEF HandsToNobody, Delivered, Hands
  <2>2. Offered(u)' /\ Hands(u)'
    BY <2>1 DEF Offered, Hands, Set, BlobOf
  <2>3. Reported = u /\ Reported' = u
    BY <1>1, <2>1, <2>2 DEF ReportRule
  <2> QED
    BY <2>3
<1> QED
  BY <1>2, <1>3

LEMMA TransferStep ==
  ASSUME TransferInv, [TransferNext]_transferVars
  PROVE  TransferInv' /\ BlobStep
<1>0. Types /\ Accounted
  BY DEF TransferInv
<1>1. ASSUME NEW d \in Device, NEW set \in SetId \ StraySet, NEW total \in 1 .. MaxTotal,
             StartTransfer(d, set, total)
      PROVE  TransferInv' /\ BlobStep
  <2>1. TransferInv'
    BY <1>1, StartKeeps
  <2>2. PICK t \in Transfer :
          /\ ~Offered(t) /\ Offered(t)' /\ Open(t)'
          /\ \A u \in Transfer : u # t =>
               /\ offer'[u] = offer[u] /\ (Open(u)' <=> Open(u))
          /\ UNCHANGED <<broken, out>>
    BY <1>1, StartKeeps
  <2>3. Reported' = Reported
    BY <2>1, <2>2, ReportStays
  <2>4. Status[t] = "new" /\ Status' = [Status EXCEPT ![t] = "open"]
    BY <2>2 DEF Status, StatusOf, Offered
  <2> QED
    BY <2>1, <2>3, <2>4 DEF BlobStep
<1>2. ASSUME NEW d \in Device, NEW n \in 1 .. MaxTotal, SendChunk(d, n)
      PROVE  TransferInv' /\ BlobStep
  <2>1. /\ TransferInv' /\ UNCHANGED <<offer, broken, out>>
        /\ \A u \in Transfer : Open(u)' <=> Open(u)
    BY <1>2, SendKeeps
  <2>2. Reported' = Reported
    BY <2>1, ReportStays
  <2>3. Status' = Status
    BY <2>1 DEF Status, StatusOf
  <2> QED
    BY <2>1, <2>2, <2>3 DEF BlobStep
<1>3. ASSUME NEW d \in Device, Receive(d) PROVE TransferInv' /\ BlobStep
  <2>1. TransferInv' /\ Types' /\ Accounted' /\ UNCHANGED <<offer, broken>>
    BY <1>3, ReceiveKeeps DEF TransferInv
  <2>2. ReportRule'
    BY ReportRuleNext
  <2>3. CASE HandsNothing
    <3>1. HandsToNobody'
      BY <2>3 DEF HandsNothing, HandsToNobody
    <3>2. Reported' = Nothing
      BY <2>1, <2>2, <3>1 DEF ReportRule
    <3>3. Status' = Status
      BY <2>1, <2>3 DEF HandsNothing, Status, StatusOf
    <3> QED
      BY <2>1, <3>2, <3>3 DEF BlobStep
  <2>4. ASSUME NEW t \in Transfer, HandsOver(t) PROVE BlobStep
    <3>1. Offered(t)' /\ Hands(t)'
      BY <2>1, <2>4 DEF HandsOver, Hands, Offered, Set, BlobOf
    <3>2. Reported' = t
      BY <2>1, <2>2, <3>1 DEF ReportRule
    <3>3. t \notin broken
      BY <1>0, <2>4 DEF HandsOver, Accounted
    <3>4. Status[t] = "open" /\ Status' = [Status EXCEPT ![t] = "over"]
      BY <2>1, <2>4, <3>3 DEF HandsOver, Status, StatusOf, Offered
    <3> QED
      BY <3>2, <3>4 DEF BlobStep
  <2> QED
    BY <1>3, <2>1, <2>3, <2>4, ReceiveOutcome
<1>4. ASSUME NEW d \in Device, Break(d) PROVE TransferInv' /\ BlobStep
  <2>1. /\ TransferInv' /\ UNCHANGED <<offer, out>>
        /\ broken' = broken \cup {t \in Transfer : Open(t) /\ ~Open(t)'}
        /\ \A u \in Transfer : Open(u)' => Open(u)
    BY <1>4, BreakKeeps
  <2>2. Reported' = Reported
    BY <2>1, ReportStays
  <2> DEFINE T == {t \in Transfer : Open(t) /\ ~Open(t)'}
  <2>3. \A t \in Transfer : t \in T <=> Open(t) /\ ~Open(t)'
    OBVIOUS
  <2>4. broken' = broken \cup T /\ T \in SUBSET Transfer
    BY <2>1
  <2> HIDE DEF T
  <2>5. \A t \in T : Status[t] = "open" /\ offer[t] # NotOffered
    <3> SUFFICES ASSUME NEW t \in T PROVE Status[t] = "open" /\ offer[t] # NotOffered
      OBVIOUS
    <3>1. t \in Transfer /\ Open(t)
      BY <2>3, <2>4
    <3>2. Offered(t)
      BY <1>0, <3>1, OpenIsPending, PendingIsOffered
    <3> QED
      BY <3>1, <3>2 DEF Status, StatusOf, Offered
  <2>6. ASSUME NEW t \in Transfer
        PROVE  StatusOf(t)' = IF t \in T THEN "lost" ELSE Status[t]
    <3>1. CASE t \in T
      BY <2>1, <2>3, <2>4, <2>5, <3>1 DEF StatusOf
    <3>2. CASE t \notin T
      <4>1. (Open(t)' <=> Open(t)) /\ (t \in broken' <=> t \in broken)
        BY <2>1, <2>3, <2>4, <3>2
      <4> QED
        BY <2>1, <3>2, <4>1 DEF Status, StatusOf
    <3> QED
      BY <3>1, <3>2
  <2>7. Status' = [t \in Transfer |-> IF t \in T THEN "lost" ELSE Status[t]]
    BY <2>6 DEF Status
  <2> QED
    BY <2>1, <2>2, <2>4, <2>5, <2>7 DEF BlobStep
<1>5. ASSUME NEW set \in StraySet, NEW start \in 0 .. MaxStray, NEW total \in 0 .. MaxStray,
             NEW size \in 1 .. MaxStray, Interfere(set, start, size, total)
      PROVE  TransferInv' /\ BlobStep
  <2>1. TransferInv' /\ UNCHANGED <<offer, broken>> /\ StrangerReported
    BY <1>5, InterfereKeeps
  <2>2. HandsToNobody'
    BY <2>1 DEF StrangerReported, HandsToNobody
  <2>3. Reported' = Nothing
    BY <2>1, <2>2, ReportRuleNext DEF ReportRule, TransferInv
  <2>4. Status' = Status
    BY <2>1 DEF StrangerReported, Status, StatusOf
  <2> QED
    BY <2>1, <2>3, <2>4 DEF BlobStep
<1>6. CASE UNCHANGED transferVars
  <2>1. UNCHANGED <<chunk_buffers, out, offer, sending, link, broken>>
    BY <1>6 DEF transferVars, chunkVars
  <2>2. Status' = Status /\ Reported' = Reported
    BY <2>1 DEF Status, StatusOf, Open, Reported, Started, BlobOf
  <2>3. Types' /\ Ordered' /\ Gapless'
    BY <2>1 DEF TransferInv, Types, Ordered, Gapless, Precedes, Follows, ItemOK, Offered, Set,
                Total, Position
  <2>4. Accounted' /\ Exclusive' /\ Heirs'
    BY <2>1 DEF TransferInv, Accounted, Exclusive, Heirs, Earlier, Pending, Open, Sends, Set,
                Total, Position
  <2>5. Owned' /\ Contents' /\ Delivered'
    BY <2>1 DEF TransferInv, Owned, Owns, Contents, Delivered, Offered, Open, Pending, Sends,
                Arrived, Sent, Set, Total, Position, Earlier, BlobOf
  <2>6. Inv'
    BY <1>6, StutterKeeps DEF TransferInv, transferVars
  <2> QED
    BY <2>2, <2>3, <2>4, <2>5, <2>6 DEF TransferInv, BlobStep
<1> QED
  BY <1>1, <1>2, <1>3, <1>4, <1>5, <1>6 DEF TransferNext
-----------------------------------------------------------------------------
LEMMA TransferInvAlways == TransferSpec => []TransferInv
BY TransferInvInit, TransferStep, PTL DEF TransferSpec

(* However the chunks of different devices are mixed on their way to the   *)
(* engine, and wherever their connections break, every buffer is held for  *)
(* a transfer that is still open or for one that was broken.               *)
THEOREM BuffersHaveOwners == TransferSpec => []BuffersAccounted
<1>1. TransferInv => BuffersAccounted
  BY DEF TransferInv, Owned, Owns, BuffersAccounted, Started, Offered, Set
<1> QED
  BY <1>1, TransferInvAlways, PTL

(* Every call of handle_chunk made here is one ChunkAssembly allows.       *)
LEMMA TransferLosesNothing ==
  ASSUME TransferInv, [TransferNext]_transferVars
  PROVE  UNCHANGED chunkVars \/ \A s \in SetId : Kept(s)
<1>0. Inv /\ Types /\ Ordered
  BY DEF TransferInv
<1>1. ASSUME NEW d \in Device, Receive(d) PROVE \A s \in SetId : Kept(s)
  <2>1. link[d] # <<>> /\ HandleChunk(d, Head(link[d]).chunk)
    BY <1>1 DEF Receive
  <2>2. Head(link[d]).chunk \in AnyChunk
    BY <1>0, <2>1, HeadIsFirst DEF ItemFacts
  <2> QED
    BY <1>0, <2>1, <2>2, HandleStep
<1>2. ASSUME NEW set \in StraySet, NEW start \in 0 .. MaxStray, NEW total \in 0 .. MaxStray,
             NEW size \in 1 .. MaxStray, Interfere(set, start, size, total)
      PROVE  \A s \in SetId : Kept(s)
  <2> DEFINE c == Chunk(set, start, size, total, Stranger)
  <2>1. start + size <= MaxStray /\ HandleChunk(Stranger, c)
    BY <1>2 DEF Interfere
  <2>2. Stranger \in Device /\ Stranger \in Source /\ set \in SetId
    BY TransferAssumption
  <2>3. /\ start \in 0 .. MaxTotal /\ size \in 0 .. MaxTotal /\ total \in 0 .. MaxTotal
        /\ start + size <= MaxTotal
    BY <2>1, ChunkAssumption, TransferAssumption
  <2>4. c \in AnyChunk
    BY <2>2, <2>3, ChunkIsAny
  <2> HIDE DEF c
  <2> QED
    BY <1>0, <2>1, <2>2, <2>4, HandleStep
<1>3. ASSUME NEW d \in Device, NEW set, NEW total, NEW n,
             StartTransfer(d, set, total) \/ SendChunk(d, n) \/ Break(d)
      PROVE  UNCHANGED chunkVars
  BY <1>3 DEF StartTransfer, SendChunk, Break
<1>4. UNCHANGED transferVars => UNCHANGED chunkVars
  BY DEF transferVars
<1> QED
  BY <1>1, <1>2, <1>3, <1>4 DEF TransferNext

(* Under these senders too the buffers are typed and their bytes in place, *)
(* and a byte received is lost to nothing but a later chunk for its place. *)
THEOREM TransfersInPlace ==
  TransferSpec => [](ChunkTypeOK /\ BytesInPlace) /\ ReceivedBytesStay
<1>1. TransferInv => ChunkTypeOK /\ BytesInPlace
  BY DEF TransferInv, Inv
<1>2. TransferInv /\ [TransferNext]_transferVars => [\A s \in SetId : Kept(s)]_chunkVars
  BY TransferLosesNothing
<1> QED
  BY <1>1, <1>2, TransferInvAlways, PTL DEF TransferSpec, ReceivedBytesStay, Kept

(* The engine implements BlobTransfer: whatever it hands over in the name  *)
(* of a sender is the whole of one transfer of it, never twice, never of a *)
(* transfer that was cut off, and with the bytes of no other.              *)
THEOREM BlobsAreHandedOver == TransferSpec => BlobsHandedOver
<1>1. TransferInit => Blobs!BlobInit
  BY DEF TransferInit, ChunkInit, Blobs!BlobInit, Reported
<1>2. TransferInv /\ [TransferNext]_transferVars => [Blobs!BlobNext]_(Blobs!blobVars)
  BY TransferStep, BlobStepIsBlobNext
<1> QED
  BY <1>1, <1>2, TransferInvAlways, PTL DEF TransferSpec, BlobsHandedOver, Blobs!BlobSpec
=============================================================================
