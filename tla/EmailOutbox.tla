---------------------------- MODULE EmailOutbox ----------------------------
(***************************************************************************)
(* The transactional email outbox: EmailOutboxWorker (service/email.rs)    *)
(* over the table dpop_email_outbox (store/repo/email.rs).                 *)
(*                                                                         *)
(* Several worker processes poll one table.  A worker claims a batch,      *)
(* spawns a task for each row of it and waits for all of them before it    *)
(* claims again.  A claim is a lease: after ReclaimAfter it is taken for   *)
(* abandoned.  Time is kept relative (how long a row is still to wait, how *)
(* old a lease is), so it needs no bound.                                  *)
(***************************************************************************)
EXTENDS Integers, FiniteSets

CONSTANTS
  Workers,       \* worker processes
  Emails,        \* rows
  MaxAttempts,   \* max_attempts
  BatchSize,     \* batch_size
  BackoffBase,   \* BACKOFF_BASE_SECS
  BackoffMax,    \* BACKOFF_MAX_SECS
  ReclaimAfter,  \* reclaim_after_secs
  MaxFaults      \* bound: crashes and lost marks

ASSUME OutboxAssumption ==
  /\ IsFiniteSet(Workers) /\ Workers # {} /\ IsFiniteSet(Emails)
  /\ MaxAttempts \in Nat /\ BatchSize \in Nat /\ BackoffBase \in Nat
  /\ BackoffMax \in Nat /\ ReclaimAfter \in Nat /\ MaxFaults \in Nat

VARIABLES
  created,   \* rank of created_at among the rows, 0 for no row
  sent,      \* rows with a sent_at
  attempts,  \* the attempts column
  wait,      \* time left until available_at
  lease,     \* time since locked_at, or Unlocked
  task,      \* task[w][e]: what worker w's task for e is doing
  snap,      \* snap[w][e]: the attempts column when w claimed e
  due,       \* due[w][e]: time left until the available_at it has computed
  copies,    \* history: deliveries the transport accepted, up to 2
  reclaimed, \* history: rows claimed while another claim stood
  faults     \* crashes and lost marks so far

rowVars == <<created, sent, attempts, wait, lease>>
history == <<copies, reclaimed>>
vars == <<created, sent, attempts, wait, lease, task, snap, due,
          copies, reclaimed, faults>>

-----------------------------------------------------------------------------
Unlocked == -1
Phases == {"none", "sending", "delivered", "refused"}

TypeOK ==
  /\ created \in [Emails -> Nat]
  /\ sent \subseteq Emails
  /\ attempts \in [Emails -> Nat]
  /\ wait \in [Emails -> 0..BackoffMax]
  /\ lease \in [Emails -> Unlocked..(ReclaimAfter + 1)]
  /\ task \in [Workers -> [Emails -> Phases]]
  /\ snap \in [Workers -> [Emails -> Nat]]
  /\ due \in [Workers -> [Emails -> 0..BackoffMax]]
  /\ copies \in [Emails -> 0..2]
  /\ reclaimed \subseteq Emails
  /\ faults \in Nat

Init ==
  /\ created = [e \in Emails |-> 0]
  /\ sent = {}
  /\ attempts = [e \in Emails |-> 0]
  /\ wait = [e \in Emails |-> 0]
  /\ lease = [e \in Emails |-> Unlocked]
  /\ task = [w \in Workers |-> [e \in Emails |-> "none"]]
  /\ snap = [w \in Workers |-> [e \in Emails |-> 0]]
  /\ due = [w \in Workers |-> [e \in Emails |-> 0]]
  /\ copies = [e \in Emails |-> 0]
  /\ reclaimed = {}
  /\ faults = 0

-----------------------------------------------------------------------------
AtMost(n, m) == IF n <= m THEN n ELSE m

(* Faulty variants: OpNoX is Op with one plausible mistake.  Nothing uses    *)
(* them; each is put in the place of the definition that follows it to see   *)
(* that a property notices.                                                  *)

(* The minimum with BACKOFF_MAX_SECS is missing. *)
ComputeBackoffNoCap(a) ==
  BackoffBase * 2^(IF a < 0 THEN 0 ELSE AtMost(a, 16))

(* compute_backoff_secs: BASE * 2^attempts, clamped and capped. *)
Shift(a) == IF a < 0 THEN 0 ELSE AtMost(a, 16)
ComputeBackoff(a) == AtMost(BackoffBase * 2^Shift(a), BackoffMax)

Working(e) == {w \in Workers : task[w][e] # "none"}

(* "attempts < max_attempts" is missing. *)
ClaimableNoLimit ==
  {e \in Emails : /\ created[e] # 0
                  /\ e \notin sent
                  /\ lease[e] = Unlocked \/ lease[e] > ReclaimAfter
                  /\ wait[e] = 0}

(* Abandoned rows are not reclaimed. *)
ClaimableNoReclaim ==
  {e \in Emails : /\ created[e] # 0
                  /\ e \notin sent
                  /\ lease[e] = Unlocked
                  /\ wait[e] = 0
                  /\ attempts[e] < MaxAttempts}

(* The WHERE clause of claim_pending_emails. *)
Claimable ==
  {e \in Emails : /\ created[e] # 0
                  /\ e \notin sent
                  /\ lease[e] = Unlocked \/ lease[e] > ReclaimAfter
                  /\ wait[e] = 0
                  /\ attempts[e] < MaxAttempts}

(* ORDER BY created_at LIMIT batch_size. *)
IsBatch(S) ==
  /\ S \subseteq Claimable
  /\ Cardinality(S) = AtMost(Cardinality(Claimable), BatchSize)
  /\ \A e \in S, f \in Claimable \ S : created[e] < created[f]

-----------------------------------------------------------------------------
(* enqueue_email commits with the business transaction.  created_at is when  *)
(* that transaction began, so rows need not appear in its order.             *)
Enqueue(e) ==
  /\ created[e] = 0
  /\ \E k \in 1..Cardinality(Emails) :
       /\ \A f \in Emails : created[f] # k
       /\ created' = [created EXCEPT ![e] = k]
  /\ UNCHANGED <<sent, attempts, wait, lease, task, snap, due, history, faults>>

(* The batch is selected and locked_at is not set. *)
ClaimNoLease(w) ==
  /\ \A e \in Emails : task[w][e] = "none"
  /\ \E S \in SUBSET Emails :
       /\ S # {}
       /\ IsBatch(S)
       /\ task' = [task EXCEPT ![w] = [e \in Emails |->
                     IF e \in S THEN "sending" ELSE "none"]]
       /\ snap' = [snap EXCEPT ![w] = [e \in Emails |->
                     IF e \in S THEN attempts[e] ELSE 0]]
       /\ reclaimed' = reclaimed \cup {e \in S : lease[e] # Unlocked}
  /\ UNCHANGED <<created, sent, attempts, wait, lease, due, copies, faults>>

(* process_batch claims when the tasks of the last batch are done.  A row    *)
(* another statement holds is skipped; once that statement is done the row   *)
(* is sent, leased or waiting, so skipping it is claiming after it.          *)
Claim(w) ==
  /\ \A e \in Emails : task[w][e] = "none"
  /\ \E S \in SUBSET Emails :
       /\ S # {}
       /\ IsBatch(S)
       /\ lease' = [e \in Emails |-> IF e \in S THEN 0 ELSE lease[e]]
       /\ task' = [task EXCEPT ![w] = [e \in Emails |->
                     IF e \in S THEN "sending" ELSE "none"]]
       /\ snap' = [snap EXCEPT ![w] = [e \in Emails |->
                     IF e \in S THEN attempts[e] ELSE 0]]
       /\ reclaimed' = reclaimed \cup {e \in S : lease[e] # Unlocked}
  /\ UNCHANGED <<created, sent, attempts, wait, due, copies, faults>>

(* sender.send returns Ok. *)
Deliver(w, e) ==
  /\ task[w][e] = "sending"
  /\ task' = [task EXCEPT ![w][e] = "delivered"]
  /\ copies' = [copies EXCEPT ![e] = AtMost(@ + 1, 2)]
  /\ UNCHANGED <<rowVars, snap, due, reclaimed, faults>>

(* It returns Err: the next attempt is scheduled from the attempts the claim *)
(* returned.                                                                 *)
Refuse(w, e) ==
  /\ task[w][e] = "sending"
  /\ task' = [task EXCEPT ![w][e] = "refused"]
  /\ due' = [due EXCEPT ![w][e] = ComputeBackoff(snap[w][e])]
  /\ UNCHANGED <<rowVars, snap, history, faults>>

(* The task ends. *)
Finish(w, e) ==
  /\ task' = [task EXCEPT ![w][e] = "none"]
  /\ snap' = [snap EXCEPT ![w][e] = 0]
  /\ due' = [due EXCEPT ![w][e] = 0]

(* The result of send is not looked at. *)
MarkSentNoResult(w, e) ==
  /\ task[w][e] \in {"delivered", "refused"}
  /\ Finish(w, e)
  /\ sent' = sent \cup {e}
  /\ lease' = [lease EXCEPT ![e] = Unlocked]
  /\ UNCHANGED <<created, attempts, wait, history, faults>>

(* mark_email_sent. *)
MarkSent(w, e) ==
  /\ task[w][e] = "delivered"
  /\ Finish(w, e)
  /\ sent' = sent \cup {e}
  /\ lease' = [lease EXCEPT ![e] = Unlocked]
  /\ UNCHANGED <<created, attempts, wait, history, faults>>

(* The UPDATE also resets sent_at. *)
MarkFailedNoSent(w, e) ==
  /\ task[w][e] = "refused"
  /\ Finish(w, e)
  /\ attempts' = [attempts EXCEPT ![e] = @ + 1]
  /\ wait' = [wait EXCEPT ![e] = due[w][e]]
  /\ lease' = [lease EXCEPT ![e] = Unlocked]
  /\ sent' = sent \ {e}
  /\ UNCHANGED <<created, history, faults>>

(* mark_email_failed. *)
MarkFailed(w, e) ==
  /\ task[w][e] = "refused"
  /\ Finish(w, e)
  /\ attempts' = [attempts EXCEPT ![e] = @ + 1]
  /\ wait' = [wait EXCEPT ![e] = due[w][e]]
  /\ lease' = [lease EXCEPT ![e] = Unlocked]
  /\ UNCHANGED <<created, sent, history, faults>>

(* The pool has no connection, the UPDATE fails or the task panics: errors   *)
(* are ignored, and the row stays as it was.                                 *)
MarkLost(w, e) ==
  /\ task[w][e] # "none"
  /\ faults < MaxFaults
  /\ Finish(w, e)
  /\ faults' = faults + 1
  /\ UNCHANGED <<rowVars, history>>

(* A worker process dies and is started again. *)
Crash(w) ==
  /\ \E e \in Emails : task[w][e] # "none"
  /\ faults < MaxFaults
  /\ task' = [task EXCEPT ![w] = [e \in Emails |-> "none"]]
  /\ snap' = [snap EXCEPT ![w] = [e \in Emails |-> 0]]
  /\ due' = [due EXCEPT ![w] = [e \in Emails |-> 0]]
  /\ faults' = faults + 1
  /\ UNCHANGED <<rowVars, history>>

Less(n) == IF n = 0 THEN 0 ELSE n - 1

Tick ==
  /\ wait' = [e \in Emails |-> Less(wait[e])]
  /\ due' = [w \in Workers |-> [e \in Emails |-> Less(due[w][e])]]
  /\ lease' = [e \in Emails |-> IF lease[e] = Unlocked THEN Unlocked
                                ELSE AtMost(lease[e] + 1, ReclaimAfter + 1)]
  /\ UNCHANGED <<created, sent, attempts, task, snap, history, faults>>

Sends(w, e) == Deliver(w, e) \/ Refuse(w, e)

Next ==
  \/ \E e \in Emails : Enqueue(e)
  \/ \E w \in Workers : Claim(w) \/ Crash(w)
  \/ \E w \in Workers, e \in Emails :
        Sends(w, e) \/ MarkSent(w, e) \/ MarkFailed(w, e) \/ MarkLost(w, e)
  \/ Tick

Spec == Init /\ [][Next]_vars

(* start polls every 2 seconds for as long as its process runs; a task runs  *)
(* until send has returned and the row is marked; time passes.               *)
Fairness ==
  /\ WF_vars(Tick)
  /\ \A w \in Workers :
       /\ WF_vars(Claim(w))
       /\ \A e \in Emails : /\ WF_vars(Sends(w, e))
                            /\ WF_vars(MarkSent(w, e))
                            /\ WF_vars(MarkFailed(w, e))

FairSpec == Spec /\ Fairness

-----------------------------------------------------------------------------
(* Properties *)

(* An email is delivered once, by one worker at a time, unless a lease has   *)
(* run out on a worker that was slow, had crashed or had lost its mark.      *)
OnceUnlessReclaimed ==
  \A e \in Emails \ reclaimed :
     /\ copies[e] <= 1
     /\ \A v, w \in Working(e) : v = w

(* The attempts column may pass max_attempts, when several workers hold a    *)
(* row whose leases ran out, but by less than the number of workers: the     *)
(* late failures of one row never add up to more.                            *)
AttemptsOvershoot ==
  \A e \in Emails :
     attempts[e] >= MaxAttempts =>
        attempts[e] + Cardinality(Working(e)) < MaxAttempts + Cardinality(Workers)

(* mark_email_sent retires a row for good: neither the failure a slower      *)
(* worker reports afterwards nor an expired lease brings it back.            *)
SentIsFinal ==
  [][\A e \in sent : /\ e \in sent'
                     /\ Working(e)' \subseteq Working(e)]_vars

Settled(e) == e \in sent \/ attempts[e] >= MaxAttempts

(* Every queued email is sent or has used up its attempts, although workers  *)
(* crash, marks are lost and leases run out, if faults are finitely many.    *)
EveryEmailSettles == \A e \in Emails : created[e] # 0 ~> Settled(e)

-----------------------------------------------------------------------------
(* Refinement *)

Mail == INSTANCE MailQueue WITH
  queued    <- {e \in Emails : created[e] # 0},
  held      <- [e \in Emails |-> Working(e)],
  delivered <- {e \in Emails : copies[e] # 0},
  confirmed <- sent

(* The outbox, with its leases, retries, crashes and lost marks, implements  *)
(* the queue of MailQueue: only queued e-mails that are not sent are         *)
(* claimed, none is marked sent by mark_email_sent before the transport has  *)
(* accepted it, and a sent one stays so, whatever slower workers report.     *)
ImplementsQueue == Mail!AbsSpec

-----------------------------------------------------------------------------
(* The inductive invariant behind OnceUnlessReclaimed: until a lease runs    *)
(* out, a row has one worker at most, a row being worked on is leased and    *)
(* not sent, and a row the transport has taken is sent or leased.            *)
LeaseInv(e) ==
  e \notin reclaimed =>
     /\ copies[e] <= 1
     /\ \A v, w \in Working(e) : v = w
     /\ \A w \in Working(e) : lease[e] # Unlocked /\ e \notin sent
     /\ copies[e] # 0 => /\ e \in sent \/ lease[e] # Unlocked
                         /\ \A w \in Working(e) : task[w][e] = "delivered"

IInv == TypeOK /\ \A e \in Emails : LeaseInv(e)
=============================================================================
