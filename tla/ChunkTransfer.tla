---------------------------- MODULE ChunkTransfer ----------------------------
(***************************************************************************)
(* Devices that send blobs in chunks to one Engine.  Each connection is a  *)
(* FIFO (the Bytes channel is reliable by default); when it breaks, the    *)
(* engine may still read a part of what was sent.  Nothing tells the       *)
(* engine: drop_device does not touch chunk_buffers.                       *)
(*                                                                         *)
(* The senders are not in this repository, which has no builder for        *)
(* chunks: they are modelled as what handle_chunk expects.  They cut a     *)
(* blob into consecutive chunks and do not use a set id that is being used *)
(* by somebody else, nor one of a broken transfer for a shorter blob.  A   *)
(* stranger sends any chunks whatever, but of other sets.                  *)
(***************************************************************************)
EXTENDS ChunkAssembly

CONSTANTS
  MaxTransfers,   \* bound: transfers per device
  Stranger,       \* a device that does as it likes, and its transmission
  StraySet,       \* the sets it sends
  MaxStray,       \* bound: its largest total_size and chunk end
  NotOffered,     \* a transfer not started yet
  Idle,           \* a device that sends nothing
  Nothing, Garbled

VARIABLES
  offer,     \* set id and total of each transfer started
  sending,   \* the transfer a device is sending and the bytes sent of it
  link,      \* chunks on their way, per device
  broken     \* transfers cut off by a broken connection

transferVars == <<chunkVars, offer, sending, link, broken>>

Transfer == UNION {{d} \X (1 .. MaxTransfers[d]) : d \in Device}

ASSUME TransferAssumption ==
  /\ MaxTransfers \in [Device -> Nat]
  /\ Stranger \in Device => MaxTransfers[Stranger] = 0
  /\ StraySet \subseteq SetId /\ (StraySet # {} => Stranger \in Device)
  /\ MaxStray \in 0 .. MaxTotal
  /\ Source = Transfer \cup {Stranger}
  /\ NotOffered \notin [set : SetId, total : 1 .. MaxTotal]
  /\ Idle \notin [of : Transfer, sent : Nat]
  /\ Nothing \notin Transfer \cup {Garbled} /\ Garbled \notin Transfer

TransferInit ==
  /\ ChunkInit
  /\ offer = [t \in Transfer |-> NotOffered]
  /\ sending = [d \in Device |-> Idle]
  /\ link = [d \in Device |-> <<>>]
  /\ broken = {}

Started == {t \in Transfer : offer[t] # NotOffered}

(* A transfer that can still be completed: not all of it is sent, or its   *)
(* last chunk is on its way.                                               *)
Open(t) ==
  \/ sending[t[1]] # Idle /\ sending[t[1]].of = t
  \/ \E n \in 1 .. Len(link[t[1]]) :
       LET c == link[t[1]][n].chunk
       IN  link[t[1]][n].of = t /\ End(c) = c.total_size

UsedBy(d, set) ==
  \/ sending[d] # Idle /\ offer[sending[d].of].set = set
  \/ \E n \in 1 .. Len(link[d]) : link[d][n].chunk.set_id = set

SetIsFree(d, set, total) ==
  /\ \A e \in Device \ {d} : ~UsedBy(e, set)
  /\ \A t \in broken : offer[t].set = set => total >= offer[t].total

StartTransfer(d, set, total) ==
  /\ sending[d] = Idle
  /\ SetIsFree(d, set, total)
  /\ \E k \in 1 .. MaxTransfers[d] :
       /\ offer[<<d, k>>] = NotOffered
       /\ \A j \in 1 .. k - 1 : offer[<<d, j>>] # NotOffered
       /\ offer' = [offer EXCEPT ![<<d, k>>] = [set |-> set, total |-> total]]
       /\ sending' = [sending EXCEPT ![d] = [of |-> <<d, k>>, sent |-> 0]]
  /\ UNCHANGED <<chunkVars, link, broken>>

(* The next n bytes.                                                       *)
SendChunk(d, n) ==
  /\ sending[d] # Idle
  /\ LET t     == sending[d].of
         start == sending[d].sent
         total == offer[t].total
     IN  /\ start + n <= total
         /\ link' = [link EXCEPT ![d] =
              Append(@, [of |-> t, chunk |-> Chunk(offer[t].set, start, n, total, t)])]
         /\ sending' = [sending EXCEPT ![d] =
              IF start + n = total THEN Idle ELSE [@ EXCEPT !.sent = start + n]]
  /\ UNCHANGED <<chunkVars, offer, broken>>

Receive(d) ==
  /\ link[d] # <<>>
  /\ HandleChunk(d, Head(link[d]).chunk)
  /\ link' = [link EXCEPT ![d] = Tail(@)]
  /\ UNCHANGED <<offer, sending, broken>>

(* A transfer is broken when the rest of it will never come.               *)
Break(d) ==
  /\ sending[d] # Idle \/ link[d] # <<>>
  /\ sending' = [sending EXCEPT ![d] = Idle]
  /\ \E n \in 0 .. Len(link[d]) : link' = [link EXCEPT ![d] = SubSeq(@, 1, n)]
  /\ broken' = broken \cup {t \in Transfer : Open(t) /\ ~Open(t)'}
  /\ UNCHANGED <<chunkVars, offer>>

(* A chunk of the stranger, of any size but 0, any place and any total.    *)
Interfere(set, start, size, total) ==
  /\ start + size <= MaxStray
  /\ HandleChunk(Stranger, Chunk(set, start, size, total, Stranger))
  /\ UNCHANGED <<offer, sending, link, broken>>

TransferNext ==
  \/ \E d \in Device :
       \/ \E set \in SetId \ StraySet, total \in 1 .. MaxTotal : StartTransfer(d, set, total)
       \/ \E n \in 1 .. MaxTotal : SendChunk(d, n)
       \/ Receive(d)
       \/ Break(d)
  \/ \E set \in StraySet, start, total \in 0 .. MaxStray, size \in 1 .. MaxStray :
       Interfere(set, start, size, total)

TransferSpec == TransferInit /\ [][TransferNext]_transferVars

(* A sender goes on and the application reads.                             *)
TransferFairness ==
  \A d \in Device : /\ WF_transferVars(\E n \in 1 .. MaxTotal : SendChunk(d, n))
                    /\ WF_transferVars(Receive(d))

FairTransfer == TransferSpec /\ TransferFairness

-----------------------------------------------------------------------------
(* Properties.                                                             *)

(* The transfer that the last call handed over: the one whose sender, set  *)
(* id, length and every byte are those reported.  (The stranger's are      *)
(* nobody's.)                                                              *)
BlobOf(t) == Chunk(offer[t].set, 0, offer[t].total, offer[t].total, t).data

Reported ==
  LET last == out[Len(out)]
      same == {t \in Started : last.device_id = t[1] /\ last.set_id = offer[t].set
                                 /\ last.blob = BlobOf(t)}
  IN  IF out = <<>> THEN Nothing
      ELSE IF last.kind # "ChunkSetComplete" THEN Nothing
      ELSE IF last.device_id = Stranger THEN Nothing
      ELSE IF same = {} THEN Garbled ELSE CHOOSE t \in same : TRUE

Blobs == INSTANCE BlobTransfer WITH
  report <- Reported,
  status <- [t \in Transfer |-> IF offer[t] = NotOffered THEN "new"
                                ELSE IF Open(t) THEN "open"
                                ELSE IF t \in broken THEN "lost" ELSE "over"]

(* Every blob handed over is the whole of what one sender sent, in its     *)
(* name, exactly once, and nothing is handed over for a transfer that was  *)
(* cut off (handle_chunk compares the end of a chunk with the total and    *)
(* never asks which bytes arrived; buffers of broken transfers are reused).*)
BlobsHandedOver == Blobs!BlobSpec

(* A buffer is held for a transfer that is still open, or is what a broken *)
(* one left behind, or the stranger's: with unbroken connections           *)
(* chunk_buffers is empty again when all is sent and read.                 *)
BuffersAccounted ==
  \A s \in SetId \ StraySet : chunk_buffers[s] # NoBuffer =>
    \E t \in Started : offer[t].set = s /\ (Open(t) \/ t \in broken)

(* A transfer whose connection holds is handed over.                       *)
TransfersConclude ==
  \A t \in Transfer : Open(t) ~> (Reported = t \/ t \in broken)
=============================================================================
