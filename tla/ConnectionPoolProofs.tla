------------------------ MODULE ConnectionPoolProofs ------------------------
(***************************************************************************)
(* Proofs about ConnectionPool, for any number of calls, connections and   *)
(* tenants.  Isolation is not inductive: it rests on what a connection may *)
(* carry (ConnInv), on which calls reach which point (PcInv) and on how    *)
(* many connections they have there (HoldInv).                             *)
(***************************************************************************)
EXTENDS ConnectionPool, TLAPS

(* A connection outside a transaction has no tenant, one inside has at most  *)
(* that of the tenant transaction which owns it; a session never has any.    *)
ConnInv ==
  \A c \in Conns :
    /\ dropped[c] => owner[c] = None
    /\ inTx[c] => dropped[c] \/ owner[c] # None
    /\ session[c] \notin Tenants
    /\ scoped[c] # None =>
         /\ inTx[c]
         /\ \A r \in Reqs : owner[c] = r =>
              kind[r] = "tenant" /\ pc[r] \in {"work", "commit"} /\ scoped[c] = tenant[r]

PcInv ==
  \A r \in Reqs :
    /\ pc[r] = "setting" => kind[r] = "tenant"
    /\ pc[r] = "work" => kind[r] \notin Nested
    /\ pc[r] \in {"check", "verify", "verifying", "second"} => kind[r] \in Nested

(* A call holds one connection at most, but for the step-up check inside     *)
(* disable_2fa and the transactions of confirm_2fa and disable_2fa.          *)
Holds(r) ==
  /\ pc[r] \in {"idle", "first"} => \A c \in Conns : owner[c] # r
  /\ pc[r] = "setting" => \A c \in Conns : owner[c] = r => inTx[c]
  /\ pc[r] \in {"check", "verify", "verifying", "second"} =>
       \A c \in Conns : owner[c] = r => ~inTx[c]
  /\ pc[r] # "verifying" /\ (pc[r] = "commit" => kind[r] \notin Nested)
       => \A c, d \in Conns : owner[c] = r /\ owner[d] = r => c = d
  /\ pc[r] = "verifying" =>
       \E a, b \in Conns : \A c \in Conns : owner[c] = r => c \in {a, b}

HoldInv == \A r \in Reqs : Holds(r)

IInv == TypeOK /\ ConnInv /\ PcInv /\ HoldInv /\ TenantIsolation

-----------------------------------------------------------------------------
LEMMA InitIInv == Init => IInv
<1> SUFFICES ASSUME Init PROVE IInv
  OBVIOUS
<1> USE PoolAssumption DEF Init
<1>1. TypeOK
  BY DEF TypeOK, Kinds, Pcs
<1>2. ConnInv /\ PcInv /\ HoldInv
  BY DEF ConnInv, PcInv, HoldInv, Holds
<1>3. TenantIsolation
  BY DEF TenantIsolation
<1> QED
  BY <1>1, <1>2, <1>3 DEF IInv

(* Taking a connection preserves what is said of connections alone. *)
LEMMA TakeFacts ==
  ASSUME IInv, NEW r \in Reqs, NEW begin \in BOOLEAN, Take(r, begin)
  PROVE  \E c \in Conns :
           /\ owner[c] = None /\ ~dropped[c] /\ ~inTx[c] /\ scoped[c] = None
           /\ owner' = [owner EXCEPT ![c] = r]
           /\ inTx' = [inTx EXCEPT ![c] = begin]
           /\ UNCHANGED <<scoped, session, dropped>>
BY PoolAssumption DEF Take, Idle, IInv, ConnInv, TypeOK

(* Leaving a call, on any path, preserves the invariant. *)
LEMMA LeaveIInv ==
  ASSUME IInv, NEW r \in Reqs, NEW C \in SUBSET Conns,
         \A c \in Conns : owner[c] = r => c \in C,
         \A c \in C : owner[c] = r,
         EndTx(C) \/ Drop(r),
         Goto(r, "idle"), UNCHANGED <<kind, tenant, touched>>
  PROVE  IInv'
<1> USE PoolAssumption DEF IInv
<1>1. TypeOK'
  <2>1. /\ owner' \in [Conns -> Reqs \cup {None}]
        /\ scoped' \in [Conns -> Tenants \cup {None}]
        /\ session' \in [Conns -> Tenants \cup {"unset", "empty"}]
    BY DEF TypeOK, EndTx, Drop, After
  <2>2. inTx' \in [Conns -> BOOLEAN]
    BY DEF TypeOK, EndTx, Drop
  <2>3. dropped' \in [Conns -> BOOLEAN]
    BY DEF TypeOK, EndTx, Drop
  <2> QED
    BY <2>1, <2>2, <2>3 DEF TypeOK, Goto, Pcs
<1>2. ConnInv'
  BY DEF TypeOK, ConnInv, EndTx, Drop, Goto, After
<1>3. PcInv'
  BY DEF TypeOK, PcInv, Goto
<1>4. HoldInv'
  BY DEF TypeOK, HoldInv, Holds, EndTx, Drop, Goto
<1>5. TenantIsolation'
  BY DEF TenantIsolation
<1> QED
  BY <1>1, <1>2, <1>3, <1>4, <1>5

LEMMA BeginIInv ==
  ASSUME IInv, NEW r \in Reqs, Begin(r)
  PROVE  IInv'
<1> USE PoolAssumption DEF IInv, Begin, Goto, conns
<1>1. TypeOK'
  BY DEF TypeOK, Pcs
<1>2. ConnInv'
  BY DEF TypeOK, ConnInv, HoldInv, Holds
<1>3. PcInv'
  BY DEF TypeOK, PcInv
<1>4. HoldInv'
  BY DEF TypeOK, HoldInv, Holds
<1>5. TenantIsolation'
  BY DEF TypeOK, TenantIsolation
<1> QED
  BY <1>1, <1>2, <1>3, <1>4, <1>5

LEMMA AcquireFirstIInv ==
  ASSUME IInv, NEW r \in Reqs, AcquireFirst(r)
  PROVE  IInv'
<1> USE PoolAssumption DEF IInv
<1> DEFINE begin == kind[r] \in {"tx", "tenant"}
<1>b. begin \in BOOLEAN /\ Take(r, begin) /\ (kind[r] = "tenant" => begin)
  BY DEF AcquireFirst
<1> HIDE DEF begin
<1> PICK c \in Conns :
      /\ owner[c] = None /\ ~dropped[c] /\ ~inTx[c] /\ scoped[c] = None
      /\ owner' = [owner EXCEPT ![c] = r]
      /\ inTx' = [inTx EXCEPT ![c] = begin]
      /\ UNCHANGED <<scoped, session, dropped>>
  BY <1>b, TakeFacts
<1> DEFINE l == CASE kind[r] = "tenant" -> "setting"
                  [] kind[r] \in Nested -> "check"
                  [] OTHER -> "work"
<1>0. /\ pc[r] = "first" /\ pc' = [pc EXCEPT ![r] = l]
      /\ UNCHANGED <<kind, tenant, touched>>
  BY DEF AcquireFirst, Goto
<1>l. /\ l \in {"setting", "check", "work"}
      /\ l = "setting" <=> kind[r] = "tenant"
      /\ l = "check" <=> kind[r] \in Nested
  BY DEF Nested
<1> HIDE DEF l
<1>1. TypeOK'
  BY <1>0, <1>b, <1>l DEF TypeOK, Pcs
<1>2. ConnInv'
  BY <1>0, <1>l DEF TypeOK, ConnInv
<1>3. PcInv'
  BY <1>0, <1>l DEF TypeOK, PcInv
<1>n. kind[r] \in Nested => ~begin
  BY DEF Nested, begin
<1>4. HoldInv'
  <2>1. \A d \in Conns : owner'[d] = r <=> d = c
    BY <1>0 DEF TypeOK, HoldInv, Holds
  <2>2. \A s \in Reqs \ {r}, d \in Conns :
          (owner'[d] = s <=> owner[d] = s) /\ (owner[d] = s => inTx'[d] = inTx[d])
    BY DEF TypeOK
  <2>3. inTx'[c] = begin /\ pc'[r] = l /\ \A s \in Reqs \ {r} : pc'[s] = pc[s]
    BY <1>0 DEF TypeOK
  <2>4. Holds(r)'
    BY <1>0, <1>b, <1>l, <1>n, <2>1, <2>3 DEF Holds
  <2>5. ASSUME NEW s \in Reqs \ {r} PROVE Holds(s)'
    <3>1. UNCHANGED <<pc[s], kind[s]>> /\ Holds(s)
      BY <1>0, <2>3 DEF HoldInv
    <3>2. pc[s] = "verifying" =>
            \E a, b \in Conns : \A d \in Conns : owner[d] = s => d \in {a, b}
      BY <3>1 DEF Holds
    <3>3. pc'[s] = "verifying" =>
            \E a, b \in Conns : \A d \in Conns : owner'[d] = s => d \in {a, b}
      BY <2>2, <3>1, <3>2
    <3>4. pc'[s] = pc[s] /\ kind'[s] = kind[s]
      BY <3>1
    <3> QED
      BY <2>2, <3>1, <3>3, <3>4 DEF Holds
  <2> QED
    BY <2>4, <2>5 DEF HoldInv
<1>5. TenantIsolation'
  BY <1>0 DEF TenantIsolation
<1> QED
  BY <1>1, <1>2, <1>3, <1>4, <1>5

LEMMA AcquireMoreIInv ==
  ASSUME IInv, NEW r \in Reqs, AcquireVerify(r) \/ AcquireSecond(r)
  PROVE  IInv'
<1> USE PoolAssumption DEF IInv
<1> DEFINE begin == pc[r] = "second"
<1> PICK c \in Conns :
      /\ owner[c] = None /\ ~dropped[c] /\ ~inTx[c] /\ scoped[c] = None
      /\ owner' = [owner EXCEPT ![c] = r]
      /\ inTx' = [inTx EXCEPT ![c] = begin]
      /\ UNCHANGED <<scoped, session, dropped>>
  <2>1. CASE AcquireVerify(r)
    <3>1. ~begin
      BY <2>1 DEF AcquireVerify
    <3> QED
      BY <2>1, <3>1, TakeFacts DEF AcquireVerify
  <2>2. CASE AcquireSecond(r)
    <3>1. begin
      BY <2>2 DEF AcquireSecond
    <3> QED
      BY <2>2, <3>1, TakeFacts DEF AcquireSecond
  <2> QED
    BY <2>1, <2>2
<1>0. /\ UNCHANGED <<kind, tenant, touched>>
      /\ \/ pc[r] = "verify" /\ pc' = [pc EXCEPT ![r] = "verifying"] /\ ~begin
         \/ pc[r] = "second" /\ pc' = [pc EXCEPT ![r] = "commit"]
  BY DEF AcquireVerify, AcquireSecond, Goto
<1>1. TypeOK'
  BY <1>0 DEF TypeOK, Pcs
<1>2. ConnInv'
  BY <1>0 DEF TypeOK, ConnInv
<1>3. PcInv'
  BY <1>0 DEF TypeOK, PcInv
<1>4. HoldInv'
  <2>1. \A s \in Reqs \ {r} : pc'[s] = pc[s] /\ \A d \in Conns : owner'[d] = s <=> owner[d] = s
    BY <1>0 DEF TypeOK
  <2>2. \A d, e \in Conns : owner[d] = r /\ owner[e] = r => d = e
    BY <1>0 DEF HoldInv, Holds
  <2>3. \E a, b \in Conns : \A d \in Conns : owner'[d] = r => d \in {a, b}
    BY <2>2 DEF TypeOK
  <2>4. kind[r] \in Nested
    BY <1>0 DEF PcInv
  <2> QED
    BY <1>0, <2>1, <2>3, <2>4 DEF TypeOK, HoldInv, Holds
<1>5. TenantIsolation'
  BY <1>0 DEF TenantIsolation
<1> QED
  BY <1>1, <1>2, <1>3, <1>4, <1>5

LEMMA SetTenantIInv ==
  ASSUME IInv, NEW r \in Reqs, SetTenant(r)
  PROVE  IInv'
<1> USE PoolAssumption DEF IInv, SetTenant, Goto
<1>1. TypeOK'
  BY DEF TypeOK, Pcs
<1>2. ConnInv'
  BY DEF TypeOK, ConnInv, PcInv, HoldInv, Holds
<1>3. PcInv'
  BY DEF TypeOK, PcInv, Nested
<1>4. HoldInv'
  BY DEF TypeOK, HoldInv, Holds, PcInv, Nested
<1>5. TenantIsolation'
  BY DEF TenantIsolation
<1> QED
  BY <1>1, <1>2, <1>3, <1>4, <1>5

(* The statement itself: what the policy shows on the connections of a call. *)
LEMMA VisibleIsOwn ==
  ASSUME IInv, NEW r \in Reqs, NEW c \in Held(r)
  PROVE  Visible(c) \subseteq IF kind[r] = "tenant" THEN {tenant[r]} ELSE {}
BY PoolAssumption DEF IInv, TypeOK, ConnInv, Held, Visible, Setting

LEMMA StatementIInv ==
  ASSUME IInv, NEW r \in Reqs, Statement(r)
  PROVE  IInv'
<1> USE PoolAssumption DEF IInv, Statement, Goto, conns
<1>1. \A c \in Held(r) : Visible(c) \subseteq Tenants
  BY DEF Visible
<1>2. UNION {Visible(c) : c \in Held(r)} \subseteq Tenants
  BY <1>1
<1>3. UNION {Visible(c) : c \in Held(r)}
        \subseteq IF kind[r] = "tenant" THEN {tenant[r]} ELSE {}
  BY VisibleIsOwn
<1>4. TypeOK'
  BY <1>2 DEF TypeOK, Pcs
<1>5. ConnInv'
  BY DEF TypeOK, ConnInv
<1>6. PcInv'
  BY DEF TypeOK, PcInv
<1>7. HoldInv'
  BY DEF TypeOK, HoldInv, Holds
<1>8. TenantIsolation'
  <2> DEFINE V == UNION {Visible(c) : c \in Held(r)}
  <2>1. touched' = [touched EXCEPT ![r] = @ \cup V] /\ UNCHANGED <<kind, tenant>>
    OBVIOUS
  <2> HIDE DEF V
  <2> QED
    BY <1>3, <2>1 DEF TypeOK, TenantIsolation, V
<1> QED
  BY <1>4, <1>5, <1>6, <1>7, <1>8

LEMMA MoveIInv ==
  ASSUME IInv, NEW r \in Reqs, More(r) \/ Check(r)
  PROVE  IInv'
<1> USE PoolAssumption DEF IInv, More, Check, Goto, conns
<1>1. TypeOK'
  BY DEF TypeOK, Pcs
<1>2. ConnInv'
  BY DEF TypeOK, ConnInv
<1>3. PcInv'
  BY DEF TypeOK, PcInv
<1>4. HoldInv'
  BY DEF TypeOK, HoldInv, Holds
<1>5. TenantIsolation'
  BY DEF TenantIsolation
<1> QED
  BY <1>1, <1>2, <1>3, <1>4, <1>5

LEMMA VerifiedIInv ==
  ASSUME IInv, NEW r \in Reqs, Verified(r)
  PROVE  IInv'
<1> USE PoolAssumption DEF IInv
<1> PICK c \in Conns : owner[c] = r /\ owner' = [owner EXCEPT ![c] = None]
  BY DEF Verified, Held
<1>0. /\ pc[r] = "verifying" /\ pc' = [pc EXCEPT ![r] = "second"]
      /\ UNCHANGED <<inTx, scoped, session, dropped, kind, tenant, touched>>
  BY DEF Verified, Goto
<1>1. TypeOK'
  BY <1>0 DEF TypeOK, Pcs
<1>2. ~inTx[c]
  BY <1>0 DEF HoldInv, Holds
<1>3. ConnInv'
  BY <1>0, <1>2 DEF TypeOK, ConnInv
<1>4. PcInv'
  BY <1>0 DEF TypeOK, PcInv
<1>5. HoldInv'
  <2>1. \A d \in Conns : owner'[d] = r <=> owner[d] = r /\ d # c
    BY DEF TypeOK
  <2>2. \A s \in Reqs \ {r}, d \in Conns : owner'[d] = s <=> owner[d] = s
    BY DEF TypeOK
  <2>3. pc'[r] = "second" /\ \A s \in Reqs \ {r} : pc'[s] = pc[s]
    BY <1>0 DEF TypeOK
  <2>4. \A d, e \in Conns : owner'[d] = r /\ owner'[e] = r => d = e
    <3>1. PICK a, b \in Conns : \A d \in Conns : owner[d] = r => d \in {a, b}
      BY <1>0 DEF HoldInv, Holds
    <3> QED
      BY <2>1, <3>1
  <2>5. Holds(r)'
    BY <1>0, <2>1, <2>3, <2>4 DEF HoldInv, Holds
  <2>6. ASSUME NEW s \in Reqs \ {r} PROVE Holds(s)'
    <3>1. UNCHANGED <<pc[s], kind[s], inTx>> /\ Holds(s)
      BY <1>0, <2>3 DEF HoldInv
    <3>2. pc[s] = "verifying" =>
            \E a, b \in Conns : \A d \in Conns : owner[d] = s => d \in {a, b}
      BY <3>1 DEF Holds
    <3>3. pc'[s] = "verifying" =>
            \E a, b \in Conns : \A d \in Conns : owner'[d] = s => d \in {a, b}
      BY <2>2, <3>1, <3>2
    <3>4. pc'[s] = pc[s] /\ kind'[s] = kind[s]
      BY <3>1
    <3> QED
      BY <2>2, <3>1, <3>3, <3>4 DEF Holds
  <2> QED
    BY <2>5, <2>6 DEF HoldInv
<1>6. TenantIsolation'
  BY <1>0 DEF TenantIsolation
<1> QED
  BY <1>1, <1>3, <1>4, <1>5, <1>6

LEMMA FinishIInv ==
  ASSUME IInv, NEW r \in Reqs, Finish(r)
  PROVE  IInv'
<1>1. Held(r) \in SUBSET Conns /\ EndTx(Held(r))
  BY DEF Finish, Held
<1>2. \A c \in Conns : owner[c] = r <=> c \in Held(r)
  BY DEF Held
<1>3. Goto(r, "idle") /\ UNCHANGED <<kind, tenant, touched>>
  BY DEF Finish
<1> QED
  BY <1>1, <1>2, <1>3, LeaveIInv DEF Held

LEMMA DropIInv ==
  ASSUME IInv, NEW r \in Reqs, GiveUp(r) \/ Timeout(r)
  PROVE  IInv'
<1>1. Drop(r) /\ Goto(r, "idle") /\ UNCHANGED <<kind, tenant, touched>>
  BY DEF GiveUp, Timeout
<1>2. /\ Held(r) \in SUBSET Conns
      /\ \A c \in Conns : owner[c] = r => c \in Held(r)
      /\ \A c \in Held(r) : owner[c] = r
  BY DEF Held
<1> QED
  BY <1>1, <1>2, LeaveIInv

LEMMA PoolIInv ==
  ASSUME IInv, NEW c \in Conns, RollBack(c) \/ Replace(c)
  PROVE  IInv'
<1> USE PoolAssumption DEF IInv, RollBack, Replace, Idle, After, calls
<1>1. TypeOK'
  BY DEF TypeOK
<1>2. ConnInv'
  BY DEF TypeOK, ConnInv
<1>3. PcInv'
  BY DEF PcInv
<1>4. HoldInv'
  <2>1. \A r \in Reqs, d \in Conns : owner[d] = r => inTx'[d] = inTx[d]
    BY DEF TypeOK, ConnInv
  <2>2. UNCHANGED <<owner, pc, kind>>
    OBVIOUS
  <2> QED
    BY <2>1, <2>2 DEF HoldInv, Holds
<1>5. TenantIsolation'
  BY DEF TenantIsolation
<1> QED
  BY <1>1, <1>2, <1>3, <1>4, <1>5

LEMMA NextIInv == IInv /\ [Next]_vars => IInv'
<1> SUFFICES ASSUME IInv, [Next]_vars PROVE IInv'
  OBVIOUS
<1>1. CASE UNCHANGED vars
  BY <1>1 DEF vars, IInv, TypeOK, ConnInv, PcInv, HoldInv, Holds, TenantIsolation
<1>2. ASSUME NEW r \in Reqs, Begin(r) \/ Step(r) \/ Acquire(r) \/ More(r) \/ GiveUp(r)
      PROVE  IInv'
  BY <1>2, BeginIInv, SetTenantIInv, StatementIInv, FinishIInv, MoveIInv, VerifiedIInv,
     DropIInv, AcquireFirstIInv, AcquireMoreIInv DEF Step, Acquire
<1>3. ASSUME NEW c \in Conns, RollBack(c) \/ Replace(c)
      PROVE  IInv'
  BY <1>3, PoolIInv
<1> QED
  BY <1>1, <1>2, <1>3 DEF Next

(* The invariant above holds of every state the pool and its calls reach. *)
THEOREM Invariance == Spec => []IInv
BY InitIInv, NextIInv, PTL DEF Spec

-----------------------------------------------------------------------------
(* Connections, settings and calls keep their types: in particular, only     *)
(* tenants are ever set for a transaction.                                   *)
THEOREM TypeCorrect == Spec => []TypeOK
<1>1. IInv => TypeOK
  BY DEF IInv
<1> QED
  BY <1>1, Invariance, PTL

(* A call reads and writes rows of its own tenant only, whatever ran before  *)
(* on its connection (TenantTx and the row policy).                          *)
THEOREM TenantsAreIsolated == Spec => []TenantIsolation
<1>1. IInv => TenantIsolation
  BY DEF IInv
<1> QED
  BY <1>1, Invariance, PTL

(* A connection that can be acquired has no transaction and no tenant left:  *)
(* the setting of TenantTx::begin ends with its transaction.                 *)
THEOREM ConnectionsComeBackClean == Spec => []PooledConnsAreClean
<1>1. IInv => PooledConnsAreClean
  BY PoolAssumption DEF IInv, TypeOK, ConnInv, PooledConnsAreClean, Idle
<1> QED
  BY <1>1, Invariance, PTL

(* A call that has returned, by any path, holds no connection. *)
THEOREM NothingIsKept == Spec => []ReturnedCallsHoldNothing
<1>1. IInv => ReturnedCallsHoldNothing
  BY DEF IInv, TypeOK, HoldInv, Holds, ReturnedCallsHoldNothing
<1> QED
  BY <1>1, Invariance, PTL

(* Connections that all belong to waiting calls belong to calls of           *)
(* confirm_2fa and disable_2fa, one each (service/totp.rs, nested            *)
(* acquisitions).                                                            *)
THEOREM StuckMeansSaturated == Spec => []StuckOnlyIfSaturated
<1>1. ASSUME IInv PROVE StuckOnlyIfSaturated
  <2> SUFFICES ASSUME \A c \in Conns : owner[c] # None /\ pc[owner[c]] \in Waiting
               PROVE  /\ \A c \in Conns : kind[owner[c]] \in Nested
                      /\ \A c, d \in Conns : owner[c] = owner[d] => c = d
    BY DEF StuckOnlyIfSaturated
  <2>1. \A c \in Conns : owner[c] \in Reqs
    BY <1>1 DEF IInv, TypeOK
  <2>2. \A c \in Conns : pc[owner[c]] \in {"verify", "second"}
    BY <1>1, <2>1 DEF IInv, HoldInv, Holds, Waiting
  <2>3. \A c \in Conns : kind[owner[c]] \in Nested
    BY <1>1, <2>1, <2>2 DEF IInv, PcInv
  <2>4. \A c, d \in Conns : owner[c] = owner[d] => c = d
    BY <1>1, <2>1, <2>2 DEF IInv, HoldInv, Holds
  <2> QED
    BY <2>3, <2>4
<1> QED
  BY <1>1, Invariance, PTL
=============================================================================
