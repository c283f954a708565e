--------------------------- MODULE ConnectionPool ---------------------------
(***************************************************************************)
(* The connection pool (store/pool.rs), the tenant transactions that run   *)
(* on it (store/tenant.rs), and the calls of the service that take a       *)
(* second connection while they hold a first (service/totp.rs).            *)
(*                                                                         *)
(* A connection outlives the calls that borrow it, and so does what they   *)
(* leave on it: an open transaction, or the setting app.current_tenant.    *)
(* The pool is sqlx's: a call that finds no idle connection waits until    *)
(* acquire_timeout; a transaction that is dropped is rolled back before    *)
(* its connection is idle again.                                           *)
(***************************************************************************)
EXTENDS Integers, FiniteSets

CONSTANTS
  Reqs,       \* concurrent calls
  Conns,      \* the connections: MAX_CONNECTIONS of them
  Tenants,
  None

ASSUME PoolAssumption ==
  /\ None \notin Reqs /\ None \notin Tenants
  /\ "unset" \notin Tenants /\ "empty" \notin Tenants

VARIABLES
  owner,      \* the call that has borrowed each connection
  inTx,       \* it is inside a transaction
  scoped,     \* app.current_tenant set for the transaction, or None
  session,    \* app.current_tenant of the session: unset, empty or a tenant
  dropped,    \* its transaction was dropped and is to be rolled back
  pc,         \* where each call is
  kind,       \* what it does
  tenant,     \* the tenant it names
  touched     \* history: tenants whose rows it has read or written

conns == <<owner, inTx, scoped, session, dropped>>
calls == <<pc, kind, tenant, touched>>
vars  == <<owner, inTx, scoped, session, dropped, pc, kind, tenant, touched>>

-----------------------------------------------------------------------------
(* plain: one connection, statement by statement (login, logout, setup_2fa,  *)
(* verify_2fa_code, the workers).  tx: one transaction (register, refresh).  *)
(* tenant: a TenantTx.  confirm, disable: nested acquisitions.               *)
Kinds == {"plain", "tx", "tenant", "confirm", "disable"}
Nested == {"confirm", "disable"}

Pcs == {"idle", "first", "verify", "second",             \* waiting, but for idle
        "setting", "work", "check", "verifying", "commit"}
Waiting == {"first", "verify", "second"}

Idle(c) == owner[c] = None /\ ~dropped[c]
Held(r) == {c \in Conns : owner[c] = r}

TypeOK ==
  /\ owner \in [Conns -> Reqs \cup {None}]
  /\ inTx \in [Conns -> BOOLEAN]
  /\ scoped \in [Conns -> Tenants \cup {None}]
  /\ session \in [Conns -> Tenants \cup {"unset", "empty"}]
  /\ dropped \in [Conns -> BOOLEAN]
  /\ pc \in [Reqs -> Pcs]
  /\ kind \in [Reqs -> Kinds]
  /\ tenant \in [Reqs -> Tenants]
  /\ touched \in [Reqs -> SUBSET Tenants]

Init ==
  /\ owner = [c \in Conns |-> None]
  /\ inTx = [c \in Conns |-> FALSE]
  /\ scoped = [c \in Conns |-> None]
  /\ session = [c \in Conns |-> "unset"]
  /\ dropped = [c \in Conns |-> FALSE]
  /\ pc = [r \in Reqs |-> "idle"]
  /\ kind = [r \in Reqs |-> "plain"]
  /\ tenant \in [Reqs -> Tenants]
  /\ touched = [r \in Reqs |-> {}]

-----------------------------------------------------------------------------
(* The database                                                              *)

(* current_setting('app.current_tenant', TRUE) *)
Setting(c) == IF scoped[c] # None THEN scoped[c] ELSE session[c]

(* No setting matches every row. *)
VisibleNoDeny(c) == {t \in Tenants : t = Setting(c) \/ Setting(c) = "empty"}

(* The row policy: no setting and the empty setting match no row.            *)
Visible(c) == {t \in Tenants : t = Setting(c)}

Goto(r, l) == pc' = [pc EXCEPT ![r] = l]

(* What a setting local to a transaction leaves when it ends: PostgreSQL     *)
(* keeps the parameter, with an empty value if it had none.                  *)
After(c) == IF scoped[c] # None /\ session[c] = "unset" THEN "empty" ELSE session[c]

(* COMMIT or ROLLBACK on the connections of C, which leave their calls. *)
EndTx(C) ==
  /\ owner' = [c \in Conns |-> IF c \in C THEN None ELSE owner[c]]
  /\ inTx' = [c \in Conns |-> inTx[c] /\ c \notin C]
  /\ session' = [c \in Conns |-> IF c \in C THEN After(c) ELSE session[c]]
  /\ scoped' = [c \in Conns |-> IF c \in C THEN None ELSE scoped[c]]
  /\ UNCHANGED dropped

(* The guards of a call go out of scope: its connections leave it, and those *)
(* with an open transaction are rolled back first.                           *)
Drop(r) ==
  /\ owner' = [c \in Conns |-> IF owner[c] = r THEN None ELSE owner[c]]
  /\ dropped' = [c \in Conns |-> dropped[c] \/ (owner[c] = r /\ inTx[c])]
  /\ UNCHANGED <<inTx, scoped, session>>

(* Acquire from the pool, and BEGIN if `begin`. *)
Take(r, begin) ==
  \E c \in Conns :
    /\ Idle(c)
    /\ owner' = [owner EXCEPT ![c] = r]
    /\ inTx' = [inTx EXCEPT ![c] = begin]
    /\ UNCHANGED <<scoped, session, dropped>>

-----------------------------------------------------------------------------
(* The calls                                                                 *)

Begin(r) ==
  /\ pc[r] = "idle"
  /\ \E k \in Kinds : kind' = [kind EXCEPT ![r] = k]
  /\ \E t \in Tenants : tenant' = [tenant EXCEPT ![r] = t]
  /\ touched' = [touched EXCEPT ![r] = {}]
  /\ Goto(r, "first")
  /\ UNCHANGED conns

(* pool.acquire(), or pool.begin() for the calls that are one transaction. *)
AcquireFirst(r) ==
  /\ pc[r] = "first"
  /\ Take(r, kind[r] \in {"tx", "tenant"})
  /\ Goto(r, CASE kind[r] = "tenant" -> "setting"
               [] kind[r] \in Nested -> "check"
               [] OTHER -> "work")
  /\ UNCHANGED <<kind, tenant, touched>>

(* The setting is made for the session: is_local = false. *)
SetTenantNoLocal(r) ==
  /\ pc[r] = "setting"
  /\ session' = [c \in Conns |-> IF owner[c] = r THEN tenant[r] ELSE session[c]]
  /\ Goto(r, "work")
  /\ UNCHANGED <<owner, inTx, scoped, dropped, kind, tenant, touched>>

(* set_config('app.current_tenant', tenant_id, true), in the transaction. *)
SetTenant(r) ==
  /\ pc[r] = "setting"
  /\ scoped' = [c \in Conns |-> IF owner[c] = r THEN tenant[r] ELSE scoped[c]]
  /\ Goto(r, "work")
  /\ UNCHANGED <<owner, inTx, session, dropped, kind, tenant, touched>>

(* A statement of the call reads or writes rows that the policy lets pass. *)
Statement(r) ==
  /\ pc[r] = "work"
  /\ touched' = [touched EXCEPT ![r] = @ \cup UNION {Visible(c) : c \in Held(r)}]
  /\ Goto(r, "commit")
  /\ UNCHANGED <<conns, kind, tenant>>

(* More statements follow. *)
More(r) ==
  /\ pc[r] = "commit" /\ kind[r] \notin Nested
  /\ Goto(r, "work")
  /\ UNCHANGED <<conns, kind, tenant, touched>>

(* TenantTx::commit and rollback, or the commit of a plain transaction; a    *)
(* confirm or disable gives back its first connection as well.               *)
Finish(r) ==
  /\ pc[r] = "commit"
  /\ EndTx(Held(r))
  /\ Goto(r, "idle")
  /\ UNCHANGED <<kind, tenant, touched>>

(* confirm_2fa and disable_2fa read the user on their first connection.      *)
Check(r) ==
  /\ pc[r] = "check"
  /\ Goto(r, IF kind[r] = "confirm" THEN "second" ELSE "verify")
  /\ UNCHANGED <<conns, kind, tenant, touched>>

(* disable_2fa calls verify_2fa_code, which takes a connection of its own. *)
AcquireVerify(r) ==
  /\ pc[r] = "verify"
  /\ Take(r, FALSE)
  /\ Goto(r, "verifying")
  /\ UNCHANGED <<kind, tenant, touched>>

(* The connection of the step-up check is kept. *)
VerifiedNoRelease(r) ==
  /\ pc[r] = "verifying"
  /\ Goto(r, "second")
  /\ UNCHANGED <<conns, kind, tenant, touched>>

(* verify_2fa_code returns, and its connection goes back. *)
Verified(r) ==
  /\ pc[r] = "verifying"
  /\ \E c \in Held(r) : owner' = [owner EXCEPT ![c] = None]
  /\ Goto(r, "second")
  /\ UNCHANGED <<inTx, scoped, session, dropped, kind, tenant, touched>>

(* pool.begin() of confirm_2fa and disable_2fa, with the first still held. *)
AcquireSecond(r) ==
  /\ pc[r] = "second"
  /\ Take(r, TRUE)
  /\ Goto(r, "commit")
  /\ UNCHANGED <<kind, tenant, touched>>

(* The call returns early: a refusal, a database error, or its future is     *)
(* dropped.                                                                  *)
GiveUp(r) ==
  /\ pc[r] \notin {"idle"} \cup Waiting
  /\ Drop(r)
  /\ Goto(r, "idle")
  /\ UNCHANGED <<kind, tenant, touched>>

(* The call starts over instead of returning. *)
TimeoutNoReturn(r) ==
  /\ pc[r] \in Waiting
  /\ Drop(r)
  /\ Goto(r, "first")
  /\ UNCHANGED <<kind, tenant, touched>>

(* acquire_timeout passes: the call returns Internal. *)
Timeout(r) ==
  /\ pc[r] \in Waiting
  /\ Drop(r)
  /\ Goto(r, "idle")
  /\ UNCHANGED <<kind, tenant, touched>>

-----------------------------------------------------------------------------
(* The pool                                                                  *)

(* The ROLLBACK of a dropped transaction, and the connection is idle. *)
RollBack(c) ==
  /\ dropped[c]
  /\ inTx' = [inTx EXCEPT ![c] = FALSE]
  /\ session' = [session EXCEPT ![c] = After(c)]
  /\ scoped' = [scoped EXCEPT ![c] = None]
  /\ dropped' = [dropped EXCEPT ![c] = FALSE]
  /\ UNCHANGED <<owner, calls>>

(* An idle connection is closed (idle_timeout, max_lifetime) and replaced. *)
Replace(c) ==
  /\ Idle(c) /\ session[c] # "unset"
  /\ session' = [session EXCEPT ![c] = "unset"]
  /\ UNCHANGED <<owner, inTx, scoped, dropped, calls>>

Step(r) ==
  \/ SetTenant(r) \/ Statement(r) \/ Finish(r) \/ Check(r) \/ Verified(r)
  \/ Timeout(r)

Acquire(r) == AcquireFirst(r) \/ AcquireVerify(r) \/ AcquireSecond(r)

Next ==
  \/ \E r \in Reqs : Begin(r) \/ Step(r) \/ Acquire(r) \/ More(r) \/ GiveUp(r)
  \/ \E c \in Conns : RollBack(c) \/ Replace(c)

Spec == Init /\ [][Next]_vars

(* The runtime polls every task, fires its timers and completes rollbacks.   *)
(* Nothing is assumed of waiting calls, and a transaction does not run       *)
(* statements for ever: it finishes infinitely often when it can.            *)
FairSpec ==
  /\ Spec
  /\ \A r \in Reqs : WF_vars(Step(r)) /\ SF_vars(Finish(r))
  /\ \A c \in Conns : WF_vars(RollBack(c))

-----------------------------------------------------------------------------
(* Properties                                                                *)

(* A call sees and writes rows of the tenant it names and of no other, and   *)
(* a call outside a TenantTx none at all, whatever ran before on its         *)
(* connection and however that ended.                                        *)
TenantIsolation ==
  \A r \in Reqs :
    touched[r] \subseteq IF kind[r] = "tenant" THEN {tenant[r]} ELSE {}

(* The tenant setting never outlives its transaction: a connection that a    *)
(* call can take from the pool carries neither a tenant nor a transaction.   *)
PooledConnsAreClean ==
  \A c \in Conns : Idle(c) => ~inTx[c] /\ scoped[c] = None /\ session[c] \notin Tenants

(* The pool is stuck until a timeout only when every connection belongs to a *)
(* confirm_2fa or disable_2fa of its own: as many of these calls as there    *)
(* are connections must be in flight at once.                                *)
StuckOnlyIfSaturated ==
  (\A c \in Conns : owner[c] # None /\ pc[owner[c]] \in Waiting) =>
     /\ \A c \in Conns : kind[owner[c]] \in Nested
     /\ \A c, d \in Conns : owner[c] = owner[d] => c = d

(* No call keeps a connection after it has returned, on any path. *)
ReturnedCallsHoldNothing ==
  \A c \in Conns : owner[c] # None => pc[owner[c]] \notin {"idle", "first"}

(* Every call returns, also when the pool is exhausted by calls that wait    *)
(* for each other.                                                           *)
EveryCallReturns == \A r \in Reqs : pc[r] # "idle" ~> pc[r] = "idle"
=============================================================================
