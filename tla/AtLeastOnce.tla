----------------------------- MODULE AtLeastOnce ----------------------------
(***************************************************************************)
(* What the sync queue promises the cloud, without leases, retries and the *)
(* network: an entry that was accepted waits until it is confirmed or      *)
(* given up, for good; one sent with an acknowledgement is confirmed only  *)
(* after it has arrived.  It may arrive more than once, and after it was   *)
(* given up.                                                               *)
(***************************************************************************)
EXTENDS Naturals, Sequences

VARIABLES
  qos,       \* of each entry, in the order they were accepted
  verdict,   \* of each entry: "waiting", "confirmed" or "abandoned"
  arrived    \* the entries the broker has received

Init == qos = <<>> /\ verdict = <<>> /\ arrived = {}

Accept ==
  /\ \E q \in {0, 1} : qos' = Append(qos, q)
  /\ verdict' = Append(verdict, "waiting")
  /\ UNCHANGED arrived

Arrive(k) == arrived' = arrived \union {k} /\ UNCHANGED <<qos, verdict>>

Settle(k, v) ==
  /\ verdict[k] = "waiting"
  /\ verdict' = [verdict EXCEPT ![k] = v]
  /\ UNCHANGED <<qos, arrived>>

Confirm(k) == (qos[k] = 1 => k \in arrived) /\ Settle(k, "confirmed")

Abandon(k) == Settle(k, "abandoned")

Next == Accept \/ \E k \in DOMAIN verdict : Arrive(k) \/ Confirm(k) \/ Abandon(k)

Spec == Init /\ [][Next]_<<qos, verdict, arrived>>

=============================================================================
