---------------------------- MODULE ChunkAssembly ----------------------------
(***************************************************************************)
(* The reassembly of byte chunks in an Engine (handle_chunk of             *)
(* engine/processing.rs): one buffer per set id, whichever device the      *)
(* chunk comes from, handed over when a chunk reaches the end of its set.  *)
(* A transfer is complete when its last byte arrives, not when all have:   *)
(* what that gives under arbitrary chunks is stated here, what it gives    *)
(* under well-behaved senders in module ChunkTransfer.                     *)
(*                                                                         *)
(* Abstracted: a byte is a record of the place its sender gave it (set and *)
(* position) and of the transmission it belongs to.  Decoding has already  *)
(* refused a chunk whose data is not chunk_size bytes long (read_from), so *)
(* sizes are natural numbers; total_size and start_byte are not negative.  *)
(***************************************************************************)
EXTENDS Integers, Sequences

CONSTANTS
  Device,     \* senders
  SetId,      \* names of blobs
  Source,     \* transmissions bytes may belong to
  MaxTotal,   \* bound: the largest total_size and chunk end
  Zero,       \* a byte nobody sent
  NoBuffer    \* no entry in chunk_buffers

VARIABLES
  chunk_buffers,   \* Engine::chunk_buffers
  out              \* the Action values the last call returned

chunkVars == <<chunk_buffers, out>>

Byte == [set : SetId, at : 1 .. MaxTotal, of : Source]
Cell == Byte \cup {Zero}
Report ==
  [kind : {"Log"}]
  \cup [kind : {"ChunkProgress"}, device_id : Device, set_id : SetId,
        current : 0 .. MaxTotal, total : 0 .. MaxTotal]
  \cup [kind : {"ChunkSetComplete"}, device_id : Device, set_id : SetId, blob : Seq(Cell)]

ASSUME ChunkAssumption ==
  /\ MaxTotal \in Nat
  /\ Zero \notin Byte
  /\ NoBuffer \notin Seq(Cell)

(* BMByteChunk: bytes start .. start + size - 1 of a blob of total bytes.  *)
Chunk(set, start, size, total, src) ==
  [set_id |-> set, start_byte |-> start, chunk_size |-> size, total_size |-> total,
   data |-> [i \in 1 .. size |-> [set |-> set, at |-> start + i, of |-> src]]]

ChunkInit ==
  /\ chunk_buffers = [s \in SetId |-> NoBuffer]
  /\ out = <<>>

-----------------------------------------------------------------------------
Zeros(n) == [i \in 1 .. n |-> Zero]

(* Mutation of Buffer: an entry that exists is taken as it is.             *)
BufferNotGrown(c) ==
  IF chunk_buffers[c.set_id] = NoBuffer THEN Zeros(c.total_size)
  ELSE chunk_buffers[c.set_id]

(* Mutation of Buffer: every chunk starts a new buffer.                    *)
BufferAnew(c) == Zeros(c.total_size)

(* Mutation of Buffer: grown by the total instead of to it.                *)
BufferGrownBy(c) ==
  LET old == IF chunk_buffers[c.set_id] = NoBuffer THEN <<>> ELSE chunk_buffers[c.set_id]
  IN  IF Len(old) < c.total_size THEN old \o Zeros(c.total_size) ELSE old

(* The entry of the set, created full of zeros, and grown but never shrunk *)
(* to the total this chunk announces.                                      *)
Buffer(c) ==
  LET old == IF chunk_buffers[c.set_id] = NoBuffer THEN <<>> ELSE chunk_buffers[c.set_id]
  IN  IF Len(old) < c.total_size THEN old \o Zeros(c.total_size - Len(old)) ELSE old

End(c) == c.start_byte + c.chunk_size

(* Mutation of IsLast: the end must lie past the total.                    *)
IsLastPastEnd(c) == End(c) > c.total_size

IsLast(c) == End(c) >= c.total_size

(* Mutation of Written: one byte too far.                                  *)
WrittenOneLate(buffer, c) ==
  [i \in 1 .. Len(buffer) |->
     IF c.start_byte + 1 < i /\ i <= End(c) THEN c.data[i - c.start_byte - 1] ELSE buffer[i]]

(* copy_from_slice into start .. end.                                      *)
Written(buffer, c) ==
  [i \in 1 .. Len(buffer) |->
     IF c.start_byte < i /\ i <= End(c) THEN c.data[i - c.start_byte] ELSE buffer[i]]

Progress(d, c) == [kind |-> "ChunkProgress", device_id |-> d, set_id |-> c.set_id,
                   current |-> End(c), total |-> c.total_size]
Complete(d, c, blob) == [kind |-> "ChunkSetComplete", device_id |-> d,
                         set_id |-> c.set_id, blob |-> blob]
ErrorLog == [kind |-> "Log"]

(* A chunk past the end of the buffer: reported, and the buffer, possibly  *)
(* just created, stays.                                                    *)
ChunkOutOfBounds(d, c) ==
  /\ End(c) > Len(Buffer(c))
  /\ chunk_buffers' = [chunk_buffers EXCEPT ![c.set_id] = Buffer(c)]
  /\ out' = <<ErrorLog>>

ChunkStored(d, c) ==
  /\ End(c) <= Len(Buffer(c)) /\ ~IsLast(c)
  /\ chunk_buffers' = [chunk_buffers EXCEPT ![c.set_id] = Written(Buffer(c), c)]
  /\ out' = <<Progress(d, c)>>

(* Mutation of ChunkCompletes: the buffer is copied, not removed.          *)
ChunkCompletesKept(d, c) ==
  /\ End(c) <= Len(Buffer(c)) /\ IsLast(c)
  /\ chunk_buffers' = [chunk_buffers EXCEPT ![c.set_id] = Written(Buffer(c), c)]
  /\ out' = <<Progress(d, c), Complete(d, c, Written(Buffer(c), c))>>

ChunkCompletes(d, c) ==
  /\ End(c) <= Len(Buffer(c)) /\ IsLast(c)
  /\ chunk_buffers' = [chunk_buffers EXCEPT ![c.set_id] = NoBuffer]
  /\ out' = <<Progress(d, c), Complete(d, c, Written(Buffer(c), c))>>

HandleChunk(d, c) == ChunkOutOfBounds(d, c) \/ ChunkStored(d, c) \/ ChunkCompletes(d, c)

-----------------------------------------------------------------------------
(* Any device sends any chunk: of any set, in any order, any number of     *)
(* times, with totals that change between the chunks of a set.             *)
ChunkNext ==
  \E d \in Device, set \in SetId, src \in Source, total \in 0 .. MaxTotal,
     start \in 0 .. MaxTotal, size \in 0 .. MaxTotal :
    start + size <= MaxTotal /\ HandleChunk(d, Chunk(set, start, size, total, src))

ChunkSpec == ChunkInit /\ [][ChunkNext]_chunkVars

-----------------------------------------------------------------------------
(* Properties.                                                             *)

ChunkTypeOK ==
  /\ chunk_buffers \in [SetId -> Seq(Cell) \cup {NoBuffer}]
  /\ \A s \in SetId : chunk_buffers[s] # NoBuffer => Len(chunk_buffers[s]) <= MaxTotal
  /\ out \in Seq(Report)

(* Every byte a buffer holds or a report hands over is one that its sender *)
(* put at that place of that set, or was sent by nobody: offsets are right *)
(* and sets never mix, whatever sizes the chunks announce.                 *)
InPlace(buffer, s) ==
  \A i \in 1 .. Len(buffer) : buffer[i] # Zero => buffer[i].set = s /\ buffer[i].at = i

BytesInPlace ==
  /\ \A s \in SetId : chunk_buffers[s] # NoBuffer => InPlace(chunk_buffers[s], s)
  /\ \A n \in 1 .. Len(out) :
       out[n].kind = "ChunkSetComplete" => InPlace(out[n].blob, out[n].set_id)

(* A byte once received is lost to nothing but a later chunk that covers   *)
(* its place: not to an oversized chunk, a smaller or larger total, or     *)
(* another set; it leaves the buffer only inside the blob handed over.     *)
ReceivedBytesStay ==
  [][\A s \in SetId : chunk_buffers[s] # NoBuffer =>
       LET now == IF chunk_buffers'[s] # NoBuffer THEN chunk_buffers'[s]
                  ELSE out'[Len(out')].blob
       IN  \A i \in 1 .. Len(chunk_buffers[s]) :
             chunk_buffers[s][i] # Zero => i <= Len(now) /\ now[i] # Zero]_chunkVars
=============================================================================
