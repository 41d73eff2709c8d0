------------------------------ MODULE Delivery ------------------------------
(***************************************************************************)
(* What the transactional outbox promises to the rest of the system: an    *)
(* event whose business transaction committed is handed to the dispatcher, *)
(* possibly more than once, and is acknowledged (published_at is set) only *)
(* after a dispatch of it succeeded.  Acknowledgements are never taken     *)
(* back.  Module Outbox is shown to implement this specification.          *)
(***************************************************************************)

CONSTANT Records          \* identities of outbox records

VARIABLES accepted,       \* records whose business transaction committed
          delivered,      \* records some dispatch of which succeeded
          acknowledged    \* records with a non-null published_at

dvars == <<accepted, delivered, acknowledged>>

DInit ==
  /\ accepted = {}
  /\ delivered = {}
  /\ acknowledged = {}

Accept(r) ==
  /\ r \notin accepted
  /\ accepted' = accepted \cup {r}
  /\ UNCHANGED <<delivered, acknowledged>>

Deliver(r) ==
  /\ r \in accepted
  /\ delivered' = delivered \cup {r}
  /\ UNCHANGED <<accepted, acknowledged>>

Acknowledge(r) ==
  /\ r \in delivered
  /\ acknowledged' = acknowledged \cup {r}
  /\ UNCHANGED <<accepted, delivered>>

DNext == \E r \in Records : Accept(r) \/ Deliver(r) \/ Acknowledge(r)

DSpec == DInit /\ [][DNext]_dvars
=============================================================================
