----------------------------- MODULE BlobTransfer -----------------------------
(***************************************************************************)
(* What the chunk mechanism promises to a host application: each transfer  *)
(* a sender goes through with is handed over, once and as it was sent; one *)
(* that is given up may go missing and is never handed over in part.       *)
(***************************************************************************)
CONSTANTS
  Transfer,   \* everything that may be sent, each at most once
  Nothing     \* no report

VARIABLES
  status,     \* of each transfer: new, open, over or lost
  report      \* the transfer the last call handed over, if it did

blobVars == <<status, report>>

BlobInit ==
  /\ status = [t \in Transfer |-> "new"]
  /\ report = Nothing

Offer(t) ==
  /\ status[t] = "new"
  /\ status' = [status EXCEPT ![t] = "open"]
  /\ UNCHANGED report

HandOver(t) ==
  /\ status[t] = "open"
  /\ status' = [status EXCEPT ![t] = "over"]
  /\ report' = t

GiveUp(T) ==
  /\ \A t \in T : status[t] = "open"
  /\ status' = [t \in Transfer |-> IF t \in T THEN "lost" ELSE status[t]]
  /\ UNCHANGED report

(* A call that hands nothing over.                                         *)
Acknowledge ==
  /\ report' = Nothing
  /\ UNCHANGED status

BlobNext ==
  \/ \E t \in Transfer : Offer(t) \/ HandOver(t)
  \/ \E T \in SUBSET Transfer : GiveUp(T)
  \/ Acknowledge

BlobSpec == BlobInit /\ [][BlobNext]_blobVars
=============================================================================
