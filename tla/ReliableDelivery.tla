--------------------------- MODULE ReliableDelivery -------------------------
(***************************************************************************)
(* What the DART line promises the controller, without the line: the       *)
(* payloads a pump queues are applied to the session in the order they     *)
(* were queued, none twice, and none skipped unless the pump was           *)
(* interrupted.  The n-th payload is n.                                    *)
(***************************************************************************)
EXTENDS Naturals, Sequences

VARIABLES
  queued,      \* how many payloads the pump has queued
  applied,     \* the payloads the session has applied
  interrupted  \* the pump has been restarted or taken from the line

LastApplied == IF applied = <<>> THEN 0 ELSE applied[Len(applied)]

Init == queued = 0 /\ applied = <<>> /\ interrupted = FALSE

Queue == queued' = queued + 1 /\ UNCHANGED <<applied, interrupted>>

Deliver(n) ==
  /\ n = LastApplied + 1 \/ interrupted
  /\ applied' = Append(applied, n)
  /\ UNCHANGED <<queued, interrupted>>

Interrupt == interrupted' = TRUE /\ UNCHANGED <<queued, applied>>

Next == Queue \/ Interrupt \/ \E n \in LastApplied + 1 .. queued : Deliver(n)

Spec == Init /\ [][Next]_<<queued, applied, interrupted>>

=============================================================================
