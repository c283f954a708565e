----------------------------- MODULE MailQueue -----------------------------
(***************************************************************************)
(* What the e-mail outbox promises, without leases, back-off, batches or   *)
(* order.  A message is queued, handed to workers as long as nobody has    *)
(* confirmed it, perhaps to several, and confirmed for good by one of them *)
(* after the transport has accepted a copy: delivery is at least once, and *)
(* no message is taken for sent that was not.                              *)
(***************************************************************************)
CONSTANTS Workers, Emails

VARIABLES
  queued,     \* messages that were put into the outbox
  held,       \* held[e]: the workers that are about to deliver e
  delivered,  \* messages of which the transport has accepted a copy
  confirmed   \* messages that are done

absVars == <<queued, held, delivered, confirmed>>

AbsInit ==
  /\ queued = {}
  /\ held = [e \in Emails |-> {}]
  /\ delivered = {}
  /\ confirmed = {}

Queue(e) ==
  /\ e \notin queued
  /\ queued' = queued \cup {e}
  /\ UNCHANGED <<held, delivered, confirmed>>

(* An idle worker takes some messages that are not done. *)
Take(w, S) ==
  /\ \A e \in Emails : w \notin held[e]
  /\ S \subseteq queued \ confirmed
  /\ held' = [e \in Emails |-> IF e \in S THEN held[e] \cup {w} ELSE held[e]]
  /\ UNCHANGED <<queued, delivered, confirmed>>

HandOver(w, e) ==
  /\ w \in held[e]
  /\ delivered' = delivered \cup {e}
  /\ UNCHANGED <<queued, held, confirmed>>

Confirm(w, e) ==
  /\ w \in held[e] /\ e \in delivered
  /\ confirmed' = confirmed \cup {e}
  /\ held' = [held EXCEPT ![e] = @ \ {w}]
  /\ UNCHANGED <<queued, delivered>>

(* A worker gives some messages up: refused, crashed, or its mark was lost. *)
Release(w, S) ==
  /\ held' = [e \in Emails |-> IF e \in S THEN held[e] \ {w} ELSE held[e]]
  /\ UNCHANGED <<queued, delivered, confirmed>>

AbsNext ==
  \/ \E e \in Emails : Queue(e)
  \/ \E w \in Workers, e \in Emails : HandOver(w, e) \/ Confirm(w, e)
  \/ \E w \in Workers, S \in SUBSET Emails : Take(w, S) \/ Release(w, S)

AbsSpec == AbsInit /\ [][AbsNext]_absVars
=============================================================================
