------------------------- MODULE EmailOutboxProofs -------------------------
(* Theorems about EmailOutbox, for any number of workers and emails and any  *)
(* attempt limit, batch size, backoff and lease time.                        *)
EXTENDS EmailOutbox, FiniteSetTheorems, TLAPS

(* 1 << n is a natural number for every shift compute_backoff_secs makes. *)
LEMMA PowerOfTwo == ASSUME NEW n \in 0..16 PROVE 2^n \in Nat
<1>0. CASE n = 0  BY <1>0
<1>1. CASE n = 1  BY <1>1
<1>2. CASE n = 2  BY <1>2
<1>3. CASE n = 3  BY <1>3
<1>4. CASE n = 4  BY <1>4
<1>5. CASE n = 5  BY <1>5
<1>6. CASE n = 6  BY <1>6
<1>7. CASE n = 7  BY <1>7
<1>8. CASE n = 8  BY <1>8
<1>9. CASE n = 9  BY <1>9
<1>10. CASE n = 10  BY <1>10
<1>11. CASE n = 11  BY <1>11
<1>12. CASE n = 12  BY <1>12
<1>13. CASE n = 13  BY <1>13
<1>14. CASE n = 14  BY <1>14
<1>15. CASE n = 15  BY <1>15
<1>16. CASE n = 16  BY <1>16
<1> QED BY <1>0, <1>1, <1>2, <1>3, <1>4, <1>5, <1>6, <1>7, <1>8,
           <1>9, <1>10, <1>11, <1>12, <1>13, <1>14, <1>15, <1>16

(* compute_backoff_secs stays between 0 and BACKOFF_MAX_SECS. *)
LEMMA BackoffBounded ==
  ASSUME NEW a \in Nat PROVE ComputeBackoff(a) \in 0..BackoffMax
<1>1. Shift(a) \in 0..16  BY DEF Shift, AtMost
<1>2. 2^Shift(a) \in Nat  BY <1>1, PowerOfTwo
<1>3. BackoffBase * 2^Shift(a) \in Nat
  <2> DEFINE p == 2^Shift(a)
  <2>1. p \in Nat  BY <1>2
  <2> HIDE DEF p
  <2>2. BackoffBase * p \in Nat  BY <2>1, OutboxAssumption
  <2> QED BY <2>2 DEF p
<1> DEFINE b == BackoffBase * 2^Shift(a)
<1>4. b \in Nat  BY <1>3
<1> HIDE DEF b
<1>5. AtMost(b, BackoffMax) \in 0..BackoffMax  BY <1>4, OutboxAssumption DEF AtMost
<1> QED BY <1>5 DEF b, ComputeBackoff

LEMMA LessBounded == \A n \in 0..BackoffMax : Less(n) \in 0..BackoffMax
BY OutboxAssumption DEF Less

-----------------------------------------------------------------------------
(* Type correctness *)

LEMMA TypeInit == Init => TypeOK
BY OutboxAssumption DEF Init, TypeOK, Unlocked, Phases

LEMMA TypeStep == TypeOK /\ [Next]_vars => TypeOK'
<1> SUFFICES ASSUME TypeOK, [Next]_vars PROVE TypeOK'  OBVIOUS
<1> USE OutboxAssumption DEF TypeOK, Unlocked, Phases, rowVars, history
<1>1. ASSUME NEW e \in Emails, Enqueue(e) PROVE TypeOK'
  BY <1>1 DEF Enqueue
<1>2. ASSUME NEW w \in Workers, Claim(w) PROVE TypeOK'
  <2> PICK S \in SUBSET Emails :
        /\ lease' = [e \in Emails |-> IF e \in S THEN 0 ELSE lease[e]]
        /\ task' = [task EXCEPT ![w] = [e \in Emails |->
                      IF e \in S THEN "sending" ELSE "none"]]
        /\ snap' = [snap EXCEPT ![w] = [e \in Emails |->
                      IF e \in S THEN attempts[e] ELSE 0]]
        /\ reclaimed' = reclaimed \cup {e \in S : lease[e] # Unlocked}
    BY <1>2 DEF Claim
  <2>1. lease' \in [Emails -> Unlocked..(ReclaimAfter + 1)]  OBVIOUS
  <2>2. task' \in [Workers -> [Emails -> Phases]]  OBVIOUS
  <2>3. snap' \in [Workers -> [Emails -> Nat]]  OBVIOUS
  <2>5. UNCHANGED <<created, sent, attempts, wait, due, copies, faults>>
    BY <1>2 DEF Claim
  <2> QED BY <2>1, <2>2, <2>3, <2>5
<1>3. ASSUME NEW w \in Workers, Crash(w) PROVE TypeOK'
  BY <1>3 DEF Crash
<1>4. ASSUME NEW w \in Workers, NEW e \in Emails, Deliver(w, e) PROVE TypeOK'
  <2>1. AtMost(copies[e] + 1, 2) \in 0..2  BY DEF AtMost
  <2>2. copies' \in [Emails -> 0..2]  BY <1>4, <2>1 DEF Deliver
  <2> QED BY <1>4, <2>2 DEF Deliver
<1>5. ASSUME NEW w \in Workers, NEW e \in Emails, Refuse(w, e) PROVE TypeOK'
  <2>1. ComputeBackoff(snap[w][e]) \in 0..BackoffMax  BY BackoffBounded
  <2> QED BY <1>5, <2>1 DEF Refuse
<1>6. ASSUME NEW w \in Workers, NEW e \in Emails, MarkSent(w, e) PROVE TypeOK'
  BY <1>6 DEF MarkSent, Finish
<1>7. ASSUME NEW w \in Workers, NEW e \in Emails, MarkFailed(w, e) PROVE TypeOK'
  BY <1>7 DEF MarkFailed, Finish
<1>8. ASSUME NEW w \in Workers, NEW e \in Emails, MarkLost(w, e) PROVE TypeOK'
  BY <1>8 DEF MarkLost, Finish
<1>9. CASE Tick
  <2>1. wait' \in [Emails -> 0..BackoffMax]  BY <1>9, LessBounded DEF Tick
  <2>2. due' \in [Workers -> [Emails -> 0..BackoffMax]]  BY <1>9, LessBounded DEF Tick
  <2>3. lease' \in [Emails -> Unlocked..(ReclaimAfter + 1)]
    BY <1>9 DEF Tick, AtMost
  <2> QED BY <1>9, <2>1, <2>2, <2>3 DEF Tick
<1>10. CASE UNCHANGED vars
  BY <1>10 DEF vars
<1> QED BY <1>1, <1>2, <1>3, <1>4, <1>5, <1>6, <1>7, <1>8, <1>9, <1>10
        DEF Next, Sends

-----------------------------------------------------------------------------
(* One delivery per lease *)

LEMMA InvInit == Init => IInv
BY TypeInit, OutboxAssumption DEF Init, IInv, LeaseInv, Working

(* A row whose columns, tasks and history a step leaves alone keeps its      *)
(* invariant.                                                                *)
LEMMA RowFrame ==
  ASSUME NEW e \in Emails, LeaseInv(e),
         e \notin reclaimed' => e \notin reclaimed,
         copies'[e] = copies[e], e \in sent' <=> e \in sent,
         lease'[e] # Unlocked <=> lease[e] # Unlocked,
         \A w \in Workers : task'[w][e] = task[w][e]
  PROVE  LeaseInv(e)'
BY DEF LeaseInv, Working

(* Every step keeps the invariant, row by row.                               *)
LEMMA InvStep == IInv /\ [Next]_vars => IInv'
<1> SUFFICES ASSUME IInv, [Next]_vars PROVE IInv'  OBVIOUS
<1>t. TypeOK'  BY TypeStep DEF IInv
<1> SUFFICES ASSUME NEW f \in Emails PROVE LeaseInv(f)'  BY <1>t DEF IInv
<1>f. LeaseInv(f)  BY DEF IInv
<1> USE OutboxAssumption DEF TypeOK, IInv, Unlocked, Phases, rowVars, history
<1>1. ASSUME NEW e \in Emails, Enqueue(e) PROVE LeaseInv(f)'
  BY <1>1, <1>f, RowFrame DEF Enqueue
<1>2. ASSUME NEW w \in Workers, Claim(w) PROVE LeaseInv(f)'
  <2> PICK S \in SUBSET Emails :
        /\ IsBatch(S)
        /\ lease' = [e \in Emails |-> IF e \in S THEN 0 ELSE lease[e]]
        /\ task' = [task EXCEPT ![w] = [e \in Emails |->
                      IF e \in S THEN "sending" ELSE "none"]]
        /\ reclaimed' = reclaimed \cup {e \in S : lease[e] # Unlocked}
    BY <1>2 DEF Claim
  <2>1. UNCHANGED <<sent, copies>> /\ task[w][f] = "none"  BY <1>2 DEF Claim
  <2>2. \A v \in Workers : v # w => task'[v][f] = task[v][f]  OBVIOUS
  <2>3. CASE f \notin S
    <3>1. task'[w][f] = "none" /\ lease'[f] = lease[f]  BY <2>3
    <3>2. f \notin reclaimed' => f \notin reclaimed  OBVIOUS
    <3> QED BY <2>1, <2>2, <3>1, <3>2, <1>f, RowFrame
  <2>4. CASE f \in S
    <3>1. f \notin sent  BY <2>4 DEF IsBatch, Claimable
    <3>2. task'[w][f] = "sending" /\ lease'[f] = 0  BY <2>4
    <3>3. f \notin reclaimed' => lease[f] = Unlocked /\ f \notin reclaimed  BY <2>4
    <3>4. f \notin reclaimed' => \A v \in Workers : v # w => task'[v][f] = "none"
      BY <2>2, <3>3, <1>f DEF LeaseInv, Working
    <3>5. f \notin reclaimed' => copies'[f] = 0
      BY <2>1, <3>1, <3>3, <1>f DEF LeaseInv, Working
    <3> QED BY <2>1, <3>1, <3>2, <3>4, <3>5 DEF LeaseInv, Working
  <2> QED BY <2>3, <2>4
<1>3. ASSUME NEW w \in Workers, Crash(w) PROVE LeaseInv(f)'
  <2>1. UNCHANGED <<sent, copies, lease, reclaimed>>  BY <1>3 DEF Crash
  <2>2. \A v \in Workers : task'[v][f] = task[v][f] \/ task'[v][f] = "none"
    BY <1>3 DEF Crash
  <2> QED BY <2>1, <2>2, <1>f DEF LeaseInv, Working
<1>4. ASSUME NEW w \in Workers, NEW e \in Emails, Deliver(w, e) PROVE LeaseInv(f)'
  <2>1. UNCHANGED <<sent, lease, reclaimed>> /\ task[w][e] = "sending"
    BY <1>4 DEF Deliver
  <2>2. CASE f # e
    BY <1>4, <2>1, <2>2, <1>f, RowFrame DEF Deliver
  <2>3. CASE f = e
    <3>1. task'[w][f] = "delivered" /\ \A v \in Workers : v # w => task'[v][f] = task[v][f]
      BY <1>4, <2>3 DEF Deliver
    <3>2. f \notin reclaimed => copies[f] = 0
      BY <2>1, <2>3, <1>f DEF LeaseInv, Working
    <3>3. copies'[f] = AtMost(copies[f] + 1, 2)  BY <1>4, <2>3 DEF Deliver
    <3>4. f \notin reclaimed => copies'[f] = 1  BY <3>2, <3>3 DEF AtMost
    <3>5. f \notin reclaimed => lease[f] # Unlocked /\ f \notin sent
      BY <2>1, <2>3, <1>f DEF LeaseInv, Working
    <3>6. f \notin reclaimed => \A v \in Workers : task'[v][f] # "none" => v = w
      BY <2>1, <2>3, <3>1, <1>f DEF LeaseInv, Working
    <3> QED BY <2>1, <3>1, <3>4, <3>5, <3>6 DEF LeaseInv, Working
  <2> QED BY <2>2, <2>3
<1>5. ASSUME NEW w \in Workers, NEW e \in Emails, Refuse(w, e) PROVE LeaseInv(f)'
  <2>1. UNCHANGED <<sent, lease, reclaimed, copies>> /\ task[w][e] = "sending"
    BY <1>5 DEF Refuse
  <2>2. \A v \in Workers : task'[v][f] # task[v][f] => task[v][f] = "sending"
    BY <1>5 DEF Refuse
  <2>3. \A v \in Workers : task'[v][f] # "none" => task[v][f] # "none"
    BY <1>5 DEF Refuse
  <2> QED BY <2>1, <2>2, <2>3, <1>f DEF LeaseInv, Working
<1>6. ASSUME NEW w \in Workers, NEW e \in Emails, MarkSent(w, e) PROVE LeaseInv(f)'
  <2>1. UNCHANGED <<reclaimed, copies>> /\ task[w][e] = "delivered"
    BY <1>6 DEF MarkSent
  <2>2. CASE f # e
    BY <1>6, <2>1, <2>2, <1>f, RowFrame DEF MarkSent, Finish
  <2>3. CASE f = e
    <3>1. f \in sent' /\ task'[w][f] = "none"
      BY <1>6, <2>3 DEF MarkSent, Finish
    <3>2. \A v \in Workers : v # w => task'[v][f] = task[v][f]
      BY <1>6, <2>3 DEF MarkSent, Finish
    <3>3. f \notin reclaimed => \A v \in Workers : task'[v][f] = "none"
      BY <2>1, <2>3, <3>1, <3>2, <1>f DEF LeaseInv, Working
    <3> QED BY <2>1, <3>1, <3>3, <1>f DEF LeaseInv, Working
  <2> QED BY <2>2, <2>3
<1>7. ASSUME NEW w \in Workers, NEW e \in Emails, MarkFailed(w, e) PROVE LeaseInv(f)'
  <2>1. UNCHANGED <<reclaimed, copies, sent>> /\ task[w][e] = "refused"
    BY <1>7 DEF MarkFailed
  <2>2. CASE f # e
    BY <1>7, <2>1, <2>2, <1>f, RowFrame DEF MarkFailed, Finish
  <2>3. CASE f = e
    <3>1. task'[w][f] = "none" /\ \A v \in Workers : v # w => task'[v][f] = task[v][f]
      BY <1>7, <2>3 DEF MarkFailed, Finish
    <3>2. f \notin reclaimed => \A v \in Workers : task'[v][f] = "none"
      BY <2>1, <2>3, <3>1, <1>f DEF LeaseInv, Working
    <3>3. f \notin reclaimed => copies[f] = 0
      BY <2>1, <2>3, <1>f DEF LeaseInv, Working
    <3> QED BY <2>1, <3>2, <3>3 DEF LeaseInv, Working
  <2> QED BY <2>2, <2>3
<1>8. ASSUME NEW w \in Workers, NEW e \in Emails, MarkLost(w, e) PROVE LeaseInv(f)'
  <2>1. UNCHANGED <<sent, copies, lease, reclaimed>>  BY <1>8 DEF MarkLost
  <2>2. \A v \in Workers : task'[v][f] = task[v][f] \/ task'[v][f] = "none"
    BY <1>8 DEF MarkLost, Finish
  <2> QED BY <2>1, <2>2, <1>f DEF LeaseInv, Working
<1>9. CASE Tick
  <2>1. UNCHANGED <<sent, copies, task, reclaimed>>  BY <1>9 DEF Tick
  <2>2. lease'[f] # Unlocked <=> lease[f] # Unlocked  BY <1>9 DEF Tick, AtMost
  <2> QED BY <2>1, <2>2, <1>f, RowFrame
<1>10. CASE UNCHANGED vars
  BY <1>10, <1>f, RowFrame DEF vars
<1> QED BY <1>1, <1>2, <1>3, <1>4, <1>5, <1>6, <1>7, <1>8, <1>9, <1>10
        DEF Next, Sends

(* The inductive invariant holds in every reachable state: types, and the    *)
(* connection between leases, tasks and deliveries.                          *)
THEOREM Invariance == Spec => []IInv
<1>1. Init => IInv  BY InvInit
<1>2. IInv /\ [Next]_vars => IInv'  BY InvStep
<1> QED BY <1>1, <1>2, PTL DEF Spec

(* The outbox's columns, tasks and histories keep their types; in particular *)
(* compute_backoff_secs never schedules beyond BACKOFF_MAX_SECS.             *)
THEOREM TypeCorrect == Spec => []TypeOK
<1>1. IInv => TypeOK  BY DEF IInv
<1> QED BY <1>1, Invariance, PTL

(* claim_pending_emails gives each email to one worker and one delivery,     *)
(* until a lease runs out.                                                   *)
THEOREM DeliveredOnce == Spec => []OnceUnlessReclaimed
<1>1. IInv => OnceUnlessReclaimed
  BY DEF IInv, LeaseInv, OnceUnlessReclaimed
<1> QED BY <1>1, Invariance, PTL

(* No late mark_email_failed and no expired lease brings back an email that  *)
(* mark_email_sent has retired.                                              *)
THEOREM SentStaysSent == Spec => SentIsFinal
<1> DEFINE Kept(e) == e \in sent' /\ Working(e)' \subseteq Working(e)
<1>1. TypeOK /\ [Next]_vars => \A e \in sent : Kept(e)
  <2> SUFFICES ASSUME TypeOK, [Next]_vars, NEW f \in sent PROVE Kept(f)
    OBVIOUS
  <2> USE DEF TypeOK, Phases, rowVars, history
  <2>1. ASSUME NEW w \in Workers, Claim(w) PROVE Kept(f)
    <3> PICK S \in SUBSET Emails :
          /\ IsBatch(S)
          /\ task' = [task EXCEPT ![w] = [e \in Emails |->
                        IF e \in S THEN "sending" ELSE "none"]]
      BY <2>1 DEF Claim
    <3>1. f \notin S  BY DEF IsBatch, Claimable
    <3>2. \A v \in Workers : task'[v][f] = "none" \/ task'[v][f] = task[v][f]
      BY <3>1
    <3> QED BY <2>1, <3>2 DEF Claim, Working
  <2>2. ASSUME NEW e \in Emails, Enqueue(e) PROVE Kept(f)
    BY <2>2 DEF Enqueue, Working
  <2>3. ASSUME NEW w \in Workers, Crash(w) PROVE Kept(f)
    BY <2>3 DEF Crash, Working
  <2>4. ASSUME NEW w \in Workers, NEW e \in Emails,
               Sends(w, e) \/ MarkSent(w, e) \/ MarkFailed(w, e) \/ MarkLost(w, e)
        PROVE  Kept(f)
    <3>1. f \in sent'
      BY <2>4 DEF Sends, Deliver, Refuse, MarkSent, MarkFailed, MarkLost
    <3>0. \E p \in Phases : task' = [task EXCEPT ![w][e] = p] /\ task[w][e] # "none"
      BY <2>4 DEF Sends, Deliver, Refuse, MarkSent, MarkFailed, MarkLost, Finish
    <3>2. \A v \in Workers : task'[v][f] # "none" => task[v][f] # "none"
      BY <3>0
    <3> QED BY <3>1, <3>2 DEF Working
  <2>5. CASE Tick \/ UNCHANGED vars
    BY <2>5 DEF Tick, vars, Working
  <2> QED BY <2>1, <2>2, <2>3, <2>4, <2>5 DEF Next
<1>2. TypeOK /\ [Next]_vars =>
        [\A e \in sent : /\ e \in sent'
                         /\ Working(e)' \subseteq Working(e)]_vars
  BY <1>1
<1> QED BY <1>2, TypeCorrect, PTL DEF Spec, SentIsFinal

-----------------------------------------------------------------------------
(* The limit of attempts *)

LEMMA WorkingFinite ==
  ASSUME NEW e
  PROVE  /\ IsFiniteSet(Working(e)) /\ Cardinality(Working(e)) \in Nat
         /\ Cardinality(Workers) \in Nat /\ Cardinality(Working(e)) <= Cardinality(Workers)
BY OutboxAssumption, FS_Subset, FS_CardinalityType DEF Working

LEMMA WorkingFiniteNext ==
  ASSUME NEW e
  PROVE  /\ IsFiniteSet(Working(e)') /\ Cardinality(Working(e)') \in Nat
         /\ Cardinality(Working(e)') <= Cardinality(Workers)
BY OutboxAssumption, FS_Subset, FS_CardinalityType DEF Working

(* What a step does to one row: it leaves the column alone and gives the row *)
(* no worker, claims it below the limit, or counts the failure of a worker   *)
(* that is then done with it.                                                *)
RowStep(f) ==
  \/ attempts'[f] = attempts[f] /\ Working(f)' \subseteq Working(f)
  \/ attempts'[f] = attempts[f] /\ attempts[f] < MaxAttempts
  \/ /\ attempts'[f] = attempts[f] + 1
     /\ \E w \in Working(f) : Working(f)' = Working(f) \ {w}

LEMMA RowSteps ==
  ASSUME TypeOK, [Next]_vars, NEW f \in Emails
  PROVE  RowStep(f)
<1> USE DEF TypeOK, Phases, rowVars, history, RowStep
<1>1. ASSUME NEW w \in Workers, Claim(w) PROVE RowStep(f)
  <2> PICK S \in SUBSET Emails :
        /\ IsBatch(S)
        /\ task' = [task EXCEPT ![w] = [e \in Emails |->
                      IF e \in S THEN "sending" ELSE "none"]]
    BY <1>1 DEF Claim
  <2>1. CASE f \in S
    BY <1>1, <2>1 DEF Claim, IsBatch, Claimable
  <2>2. CASE f \notin S
    <3>1. \A v \in Workers : task'[v][f] = "none" \/ task'[v][f] = task[v][f]
      BY <2>2
    <3> QED
      BY <1>1, <3>1 DEF Claim, Working
  <2> QED
    BY <2>1, <2>2
<1>2. CASE Tick \/ UNCHANGED vars \/ \E e \in Emails : Enqueue(e)
  BY <1>2 DEF Tick, vars, Enqueue, Working
<1>3. ASSUME NEW w \in Workers, Crash(w) PROVE RowStep(f)
  BY <1>3 DEF Crash, Working
<1>4. ASSUME NEW w \in Workers, NEW e \in Emails,
             Sends(w, e) \/ MarkSent(w, e) \/ MarkLost(w, e)
      PROVE  RowStep(f)
  <2>1. attempts'[f] = attempts[f]
    BY <1>4 DEF Sends, Deliver, Refuse, MarkSent, MarkLost
  <2>2. \E p \in Phases : task' = [task EXCEPT ![w][e] = p] /\ task[w][e] # "none"
    BY <1>4 DEF Sends, Deliver, Refuse, MarkSent, MarkLost, Finish
  <2>3. \A v \in Workers : task'[v][f] # "none" => task[v][f] # "none"
    BY <2>2
  <2> QED
    BY <2>1, <2>3 DEF Working
<1>5. ASSUME NEW w \in Workers, NEW e \in Emails, MarkFailed(w, e) PROVE RowStep(f)
  <2>1. task' = [task EXCEPT ![w][e] = "none"] /\ task[w][e] = "refused"
    BY <1>5 DEF MarkFailed, Finish
  <2>2. CASE f = e
    <3>1. attempts'[f] = attempts[f] + 1
      BY <1>5, <2>2 DEF MarkFailed
    <3>2. w \in Working(f) /\ Working(f)' = Working(f) \ {w}
      BY <2>1, <2>2 DEF Working
    <3> QED
      BY <3>1, <3>2
  <2>3. CASE f # e
    <3>1. attempts'[f] = attempts[f]
      BY <1>5, <2>3 DEF MarkFailed
    <3>2. \A v \in Workers : task'[v][f] = task[v][f]
      BY <2>1, <2>3
    <3> QED
      BY <3>1, <3>2 DEF Working
  <2> QED
    BY <2>2, <2>3
<1> QED
  BY <1>1, <1>2, <1>3, <1>4, <1>5 DEF Next

(* The attempts of a row pass max_attempts by less than the number of        *)
(* workers: each late failure takes one of the workers off the row, and no   *)
(* worker claims it again.                                                   *)
THEOREM OvershootBounded == Spec => []AttemptsOvershoot
<1>1. Init => AttemptsOvershoot
  <2> SUFFICES ASSUME Init, NEW e \in Emails PROVE Cardinality(Working(e)) < Cardinality(Workers)
    BY OutboxAssumption, WorkingFinite DEF Init, AttemptsOvershoot
  <2>1. Working(e) = {}
    BY DEF Init, Working
  <2>2. Cardinality(Working(e)) = 0
    BY <2>1, FS_EmptySet
  <2>3. Cardinality(Workers) # 0
    BY OutboxAssumption, FS_EmptySet
  <2> QED
    BY <2>2, <2>3, WorkingFinite
<1>2. TypeOK /\ AttemptsOvershoot /\ [Next]_vars => AttemptsOvershoot'
  <2> SUFFICES ASSUME TypeOK, AttemptsOvershoot, [Next]_vars, NEW e \in Emails,
                      attempts'[e] >= MaxAttempts
               PROVE  attempts'[e] + Cardinality(Working(e)') < MaxAttempts + Cardinality(Workers)
    BY DEF AttemptsOvershoot
  <2>1. PICK a \in Nat : a = attempts[e]
    BY DEF TypeOK
  <2>2. PICK m \in Nat, n \in Nat, k \in Nat :
          m = Cardinality(Working(e)) /\ n = Cardinality(Working(e)') /\ k = Cardinality(Workers)
    BY WorkingFinite, WorkingFiniteNext
  <2>3. m <= k /\ n <= k
    BY <2>2, WorkingFinite, WorkingFiniteNext
  <2>4. a >= MaxAttempts => a + m < MaxAttempts + k
    BY <2>1, <2>2 DEF AttemptsOvershoot
  <2>5. CASE attempts'[e] = a /\ Working(e)' \subseteq Working(e)
    <3>1. n <= m
      BY <2>2, <2>5, WorkingFinite, FS_Subset
    <3> QED
      BY <2>2, <2>4, <2>5, <3>1, OutboxAssumption
  <2>6. CASE attempts'[e] = a /\ a < MaxAttempts
    BY <2>6, OutboxAssumption
  <2>7. ASSUME attempts'[e] = a + 1, NEW w \in Working(e), Working(e)' = Working(e) \ {w}
        PROVE  attempts'[e] + n < MaxAttempts + k
    <3>1. n = m - 1
      BY <2>2, <2>7, WorkingFinite, FS_RemoveElement
    <3> QED
      BY <2>3, <2>4, <2>7, <3>1, OutboxAssumption
  <2> QED
    BY <2>1, <2>2, <2>5, <2>6, <2>7, RowSteps DEF RowStep
<1> QED
  BY <1>1, <1>2, TypeCorrect, PTL DEF Spec
-----------------------------------------------------------------------------
(* Refinement *)

(* A task that reports a delivery has made one, and only rows of the table   *)
(* are worked on.                                                            *)
DeliveredInv ==
  \A w \in Workers, e \in Emails :
    /\ task[w][e] = "delivered" => copies[e] # 0
    /\ task[w][e] # "none" => created[e] # 0

LEMMA DeliveredStep == TypeOK /\ DeliveredInv /\ [Next]_vars => DeliveredInv'
<1> SUFFICES ASSUME TypeOK, DeliveredInv, [Next]_vars PROVE DeliveredInv'  OBVIOUS
<1> USE DEF TypeOK, DeliveredInv, Phases, rowVars, history
<1>1. ASSUME NEW e \in Emails, Enqueue(e) PROVE DeliveredInv'
  BY <1>1 DEF Enqueue
<1>2. ASSUME NEW w \in Workers, Claim(w) PROVE DeliveredInv'
  <2> PICK S \in SUBSET Emails :
        /\ IsBatch(S)
        /\ task' = [task EXCEPT ![w] = [e \in Emails |->
                      IF e \in S THEN "sending" ELSE "none"]]
    BY <1>2 DEF Claim
  <2>1. \A e \in S : created[e] # 0  BY DEF IsBatch, Claimable
  <2>2. UNCHANGED <<created, copies>>  BY <1>2 DEF Claim
  <2> QED BY <2>1, <2>2
<1>3. ASSUME NEW w \in Workers, Crash(w) PROVE DeliveredInv'
  BY <1>3 DEF Crash
<1>4. ASSUME NEW w \in Workers, NEW e \in Emails, Deliver(w, e) PROVE DeliveredInv'
  <2>1. /\ copies' = [copies EXCEPT ![e] = AtMost(copies[e] + 1, 2)]
        /\ copies[e] \in 0..2 /\ copies \in [Emails -> 0..2]
    BY <1>4 DEF Deliver
  <2>2. AtMost(copies[e] + 1, 2) # 0  BY <2>1 DEF AtMost
  <2>3. copies'[e] # 0 /\ \A f \in Emails \ {e} : copies'[f] = copies[f]
    BY <2>1, <2>2
  <2> QED BY <1>4, <2>3 DEF Deliver
<1>5. ASSUME NEW w \in Workers, NEW e \in Emails, Refuse(w, e) PROVE DeliveredInv'
  BY <1>5 DEF Refuse
<1>6. ASSUME NEW w \in Workers, NEW e \in Emails,
             MarkSent(w, e) \/ MarkFailed(w, e) \/ MarkLost(w, e)
      PROVE  DeliveredInv'
  BY <1>6 DEF MarkSent, MarkFailed, MarkLost, Finish
<1>7. CASE Tick
  BY <1>7 DEF Tick
<1>8. CASE UNCHANGED vars
  BY <1>8 DEF vars
<1> QED BY <1>1, <1>2, <1>3, <1>4, <1>5, <1>6, <1>7, <1>8 DEF Next, Sends

(* What is not in the abstract state may change. *)
LEMMA QueueStutters ==
  ASSUME UNCHANGED <<created, sent, copies>>, \A e \in Emails : Working(e)' = Working(e)
  PROVE  UNCHANGED Mail!absVars
BY DEF Mail!absVars

(* A worker ends some of its tasks, and nothing else is visible. *)
LEMMA QueueReleases ==
  ASSUME NEW w \in Workers, NEW S \in SUBSET Emails, UNCHANGED <<created, sent, copies>>,
         \A e \in Emails : Working(e)' = IF e \in S THEN Working(e) \ {w} ELSE Working(e)
  PROVE  Mail!AbsNext
<1>1. Mail!Release(w, S)  BY DEF Mail!Release
<1> QED BY <1>1 DEF Mail!AbsNext

(* Finish takes the worker off the row, and no other off any. *)
LEMMA FinishWorking ==
  ASSUME TypeOK, NEW w \in Workers, NEW e \in Emails, Finish(w, e)
  PROVE  \A f \in Emails : Working(f)' = IF f \in {e} THEN Working(f) \ {w} ELSE Working(f)
BY DEF TypeOK, Finish, Working

LEMMA QueueStep ==
  TypeOK /\ DeliveredInv /\ [Next]_vars => [Mail!AbsNext]_(Mail!absVars)
<1> SUFFICES ASSUME TypeOK, DeliveredInv, [Next]_vars
             PROVE  Mail!AbsNext \/ UNCHANGED Mail!absVars
  OBVIOUS
<1>1. ASSUME NEW e \in Emails, Enqueue(e) PROVE Mail!AbsNext
  <2>1. created[e] = 0 /\ created'[e] # 0 /\ \A f \in Emails \ {e} : created'[f] = created[f]
    BY <1>1 DEF Enqueue, TypeOK
  <2>2. UNCHANGED <<sent, copies, task>>  BY <1>1 DEF Enqueue, history
  <2>3. {f \in Emails : created'[f] # 0} = {f \in Emails : created[f] # 0} \cup {e}
    BY <2>1
  <2>4. \A f \in Emails : Working(f)' = Working(f)  BY <2>2 DEF Working
  <2>5. Mail!Queue(e)  BY <2>1, <2>2, <2>3, <2>4 DEF Mail!Queue
  <2> QED BY <2>5 DEF Mail!AbsNext
<1>2. ASSUME NEW w \in Workers, Claim(w) PROVE Mail!AbsNext
  <2> PICK S \in SUBSET Emails :
        /\ IsBatch(S)
        /\ task' = [task EXCEPT ![w] = [e \in Emails |->
                      IF e \in S THEN "sending" ELSE "none"]]
    BY <1>2 DEF Claim
  <2>1. UNCHANGED <<created, sent, copies>> /\ \A e \in Emails : task[w][e] = "none"
    BY <1>2 DEF Claim
  <2>2. S \subseteq {e \in Emails : created[e] # 0} \ sent
    BY DEF IsBatch, Claimable
  <2>3. \A e \in Emails : Working(e)' = IF e \in S THEN Working(e) \cup {w} ELSE Working(e)
    BY <2>1 DEF TypeOK, Working
  <2>4. \A e \in Emails : w \notin Working(e)  BY <2>1 DEF Working
  <2>5. Mail!Take(w, S)  BY <2>1, <2>2, <2>3, <2>4 DEF Mail!Take
  <2> QED BY <2>5 DEF Mail!AbsNext
<1>3. ASSUME NEW w \in Workers, Crash(w) PROVE Mail!AbsNext
  <2>1. UNCHANGED <<created, sent, copies>>  BY <1>3 DEF Crash, rowVars, history
  <2>2. \A e \in Emails : Working(e)' = Working(e) \ {w}
    BY <1>3 DEF Crash, TypeOK, Working
  <2> QED BY <2>1, <2>2, QueueReleases
<1>4. ASSUME NEW w \in Workers, NEW e \in Emails, Deliver(w, e) PROVE Mail!AbsNext
  <2>1. UNCHANGED <<created, sent>> /\ task[w][e] = "sending"
    BY <1>4 DEF Deliver, rowVars
  <2>2. copies'[e] # 0 /\ \A f \in Emails \ {e} : copies'[f] = copies[f]
    BY <1>4 DEF Deliver, AtMost, TypeOK
  <2>3. {f \in Emails : copies'[f] # 0} = {f \in Emails : copies[f] # 0} \cup {e}
    BY <2>2
  <2>4. \A f \in Emails : Working(f)' = Working(f)
    BY <1>4 DEF Deliver, TypeOK, Working
  <2>5. w \in Working(e)  BY <2>1 DEF Working
  <2>6. Mail!HandOver(w, e)  BY <2>1, <2>3, <2>4, <2>5 DEF Mail!HandOver
  <2> QED BY <2>6 DEF Mail!AbsNext
<1>5. ASSUME NEW w \in Workers, NEW e \in Emails, Refuse(w, e)
      PROVE  UNCHANGED Mail!absVars
  <2>1. UNCHANGED <<created, sent, copies>>  BY <1>5 DEF Refuse, rowVars, history
  <2>2. \A f \in Emails : Working(f)' = Working(f)
    BY <1>5 DEF Refuse, TypeOK, Working
  <2> QED BY <2>1, <2>2, QueueStutters
<1>6. ASSUME NEW w \in Workers, NEW e \in Emails, MarkSent(w, e) PROVE Mail!AbsNext
  <2>1. UNCHANGED <<created, copies>> /\ sent' = sent \cup {e} /\ task[w][e] = "delivered"
    BY <1>6 DEF MarkSent, history
  <2>2. w \in Working(e) /\ copies[e] # 0  BY <2>1 DEF Working, DeliveredInv
  <2>3. \A f \in Emails : Working(f)' = IF f \in {e} THEN Working(f) \ {w} ELSE Working(f)
    BY <1>6, FinishWorking DEF MarkSent
  <2>4. Mail!Confirm(w, e)  BY <2>1, <2>2, <2>3 DEF Mail!Confirm
  <2> QED BY <2>4 DEF Mail!AbsNext
<1>7. ASSUME NEW w \in Workers, NEW e \in Emails, MarkFailed(w, e) \/ MarkLost(w, e)
      PROVE  Mail!AbsNext
  <2>1. UNCHANGED <<created, sent, copies>> /\ Finish(w, e)
    BY <1>7 DEF MarkFailed, MarkLost, rowVars, history
  <2>2. \A f \in Emails : Working(f)' = IF f \in {e} THEN Working(f) \ {w} ELSE Working(f)
    BY <2>1, FinishWorking
  <2>3. {e} \in SUBSET Emails  OBVIOUS
  <2> QED BY <2>1, <2>2, <2>3, QueueReleases
<1>8. CASE Tick \/ UNCHANGED vars
  <2>1. UNCHANGED <<created, sent, copies, task>>  BY <1>8 DEF Tick, vars, history
  <2> QED BY <2>1, QueueStutters DEF Working
<1> QED BY <1>1, <1>2, <1>3, <1>4, <1>5, <1>6, <1>7, <1>8 DEF Next, Sends

(* At-least-once delivery: every step of the workers, their crashes and lost *)
(* marks is a step of the abstract queue or invisible in it.                 *)
THEOREM Refinement == Spec => ImplementsQueue
<1>1. Init => DeliveredInv
  BY DEF Init, DeliveredInv
<1>2. Init => Mail!AbsInit
  <2> SUFFICES ASSUME Init PROVE Mail!AbsInit  OBVIOUS
  <2>1. \A e \in Emails : Working(e) = {}  BY DEF Init, Working
  <2> QED BY <2>1 DEF Init, Mail!AbsInit
<1> QED BY <1>1, <1>2, DeliveredStep, QueueStep, TypeCorrect, PTL
        DEF Spec, ImplementsQueue, Mail!AbsSpec
=============================================================================
