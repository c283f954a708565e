--------------------------- MODULE RefreshTokens ---------------------------
(***************************************************************************)
(* Refresh-token rotation with reuse detection: AuthService::refresh and   *)
(* AuthService::logout (service/auth.rs) over the table                    *)
(* dpop_refresh_tokens (store/repo/refresh_tokens.rs), and the per-process *)
(* grace cache of service/mod.rs.                                          *)
(*                                                                         *)
(* Requests run concurrently on several nodes against one PostgreSQL       *)
(* database at READ COMMITTED.  An UPDATE takes its snapshot when the      *)
(* statement starts, waits for a row another transaction has updated, and  *)
(* tests the WHERE clause again once that transaction has ended.  The      *)
(* effects of a transaction are visible to the others when it commits.     *)
(***************************************************************************)
EXTENDS Integers, FiniteSets

CONSTANTS
  Nodes,        \* processes, each with an AuthService and its grace cache
  Reqs,         \* concurrent calls into the services
  Tokens,       \* refresh-token secrets (a secret stands for its hash too)
  Families,     \* values of the fam column
  Users,        \* user ids
  Jkts,         \* DPoP key thumbprints
  None,         \* the absent value
  RefreshTTL,   \* config.refresh_token_ttl
  GracePeriod,  \* config.grace_period
  MaxTime       \* bound: the clock stops there

ASSUME NoneAssumption ==
  None \notin Tokens \cup Families \cup Users \cup Jkts \cup Nodes

ASSUME TimeAssumption ==
  /\ RefreshTTL \in Nat
  /\ GracePeriod \in Nat
  /\ MaxTime \in Nat

VARIABLES
  status,   \* committed state of a token's row: "absent", "active", "revoked"
  row,      \* the immutable columns of a stored row
  used,     \* the secrets generated so far, stored or not
  deleted,  \* users the application has soft-deleted
  now,      \* wall clock
  grace,    \* grace[n][t]: node n's cached replacement of token t
  pc,       \* where each request is
  node,     \* the node a request runs on
  tok,      \* the refresh token a request presents
  jkt,      \* the thumbprint of the proof it came with
  new,      \* the secret it has generated and not yet committed
  cand,     \* rows in the snapshot of its multi-row UPDATE
  todo,     \* those of cand the UPDATE has not reached yet
  locks,    \* rows its open transaction has updated
  out       \* its answer

db      == <<status, row, used, deleted>>
reqVars == <<pc, node, tok, jkt, new, cand, todo, locks, out>>
vars    == <<status, row, used, deleted, now, grace,
             pc, node, tok, jkt, new, cand, todo, locks, out>>

-----------------------------------------------------------------------------
(* Types *)

Statuses == {"absent", "active", "revoked"}

(* "parent" is history, not a column: the token a row was rotated from. *)
Row == [fam : Families \cup {None}, user : Users \cup {None},
        jkt : Jkts \cup {None}, exp : Nat, parent : Tokens \cup {None}]
NoRow == [fam |-> None, user |-> None, jkt |-> None, exp |-> 0, parent |-> None]

(* ReplacementTokens: the refresh token, and the key and expiry instant of   *)
(* the cached pair.  An empty slot has repl = None.                          *)
Entry == [repl : Tokens \cup {None}, jkt : Jkts \cup {None}, until : Nat]
NoEntry == [repl |-> None, jkt |-> None, until |-> 0]

(* The last answer that matters to a property: which token and key it was    *)
(* given for ("old", "proof"), the refresh token handed out ("tok") and the  *)
(* key in the cnf claim of the access token handed out with it ("jkt").      *)
(* Failed covers the Unauthorized and Internal errors that reveal nothing.   *)
Kinds == {"none", "rotated", "grace", "reuse", "loggedOut"}
Answer == [kind : Kinds, old : Tokens \cup {None}, proof : Jkts \cup {None},
           tok : Tokens \cup {None}, jkt : Jkts \cup {None}]
Failed == [kind |-> "none", old |-> None, proof |-> None, tok |-> None, jkt |-> None]

(* Program points.  "cas" .. "commit" are inside refresh's transaction.      *)
Pcs == {"idle", "cas", "grace", "reuse", "revoke", "check", "user", "cache",
        "commit", "logout", "revokeAll"}

TypeOK ==
  /\ status \in [Tokens -> Statuses]
  /\ row \in [Tokens -> Row]
  /\ used \subseteq Tokens
  /\ deleted \subseteq Users
  /\ now \in Nat
  /\ grace \in [Nodes -> [Tokens -> Entry]]
  /\ pc \in [Reqs -> Pcs]
  /\ node \in [Reqs -> Nodes \cup {None}]
  /\ tok \in [Reqs -> Tokens \cup {None}]
  /\ jkt \in [Reqs -> Jkts \cup {None}]
  /\ new \in [Reqs -> Tokens \cup {None}]
  /\ cand \in [Reqs -> SUBSET Tokens]
  /\ todo \in [Reqs -> SUBSET Tokens]
  /\ locks \in [Reqs -> SUBSET Tokens]
  /\ out \in [Reqs -> Answer]

Init ==
  /\ status = [t \in Tokens |-> "absent"]
  /\ row = [t \in Tokens |-> NoRow]
  /\ used = {}
  /\ deleted = {}
  /\ now = 0
  /\ grace = [n \in Nodes |-> [t \in Tokens |-> NoEntry]]
  /\ pc = [r \in Reqs |-> "idle"]
  /\ node = [r \in Reqs |-> None]
  /\ tok = [r \in Reqs |-> None]
  /\ jkt = [r \in Reqs |-> None]
  /\ new = [r \in Reqs |-> None]
  /\ cand = [r \in Reqs |-> {}]
  /\ todo = [r \in Reqs |-> {}]
  /\ locks = [r \in Reqs |-> {}]
  /\ out = [r \in Reqs |-> Failed]

-----------------------------------------------------------------------------
(* State helpers *)

Active(t)  == status[t] = "active"
Stored     == {t \in Tokens : status[t] # "absent"}
FamilyOf(f) == {t \in Stored : row[t].fam = f}
LiveOf(f)  == {t \in FamilyOf(f) : Active(t)}
Locked(t, r) == \E s \in Reqs \ {r} : t \in locks[s]

(* Faulty variants: OpNoX is Op with one plausible mistake.  Nothing uses    *)
(* them; each is put in the place of the definition that follows it to see   *)
(* that a property notices.                                                  *)

(* The call returns: its transaction has ended and its answer is a. *)
Return(r, a) ==
  /\ pc' = [pc EXCEPT ![r] = "idle"]
  /\ new' = [new EXCEPT ![r] = None]
  /\ cand' = [cand EXCEPT ![r] = {}]
  /\ todo' = [todo EXCEPT ![r] = {}]
  /\ locks' = [locks EXCEPT ![r] = {}]
  /\ node' = [node EXCEPT ![r] = None]
  /\ tok' = [tok EXCEPT ![r] = None]
  /\ jkt' = [jkt EXCEPT ![r] = None]
  /\ out' = [out EXCEPT ![r] = a]

(* An answer to request r that hands out refresh token t and a token bound   *)
(* to key k.                                                                 *)
Ans(r, kind, t, k) ==
  [kind |-> kind, old |-> tok[r], proof |-> jkt[r], tok |-> t, jkt |-> k]

Goto(r, l) == pc' = [pc EXCEPT ![r] = l]

Begin(r, n, t, k, l) ==
  /\ pc[r] = "idle"
  /\ Goto(r, l)
  /\ node' = [node EXCEPT ![r] = n]
  /\ tok' = [tok EXCEPT ![r] = t]
  /\ jkt' = [jkt EXCEPT ![r] = k]
  /\ out' = [out EXCEPT ![r] = Failed]

-----------------------------------------------------------------------------
(* Sessions *)

(* issue_session, the last step of register and login: a new family.  The    *)
(* user was read before, and may have been deleted since.                    *)
OpenSession(u, k, f, t) ==
  /\ FamilyOf(f) = {}
  /\ t \notin used
  /\ used' = used \cup {t}
  /\ status' = [status EXCEPT ![t] = "active"]
  /\ row' = [row EXCEPT ![t] = [fam |-> f, user |-> u, jkt |-> k,
                                exp |-> now + RefreshTTL, parent |-> None]]
  /\ UNCHANGED <<deleted, now, grace, reqVars>>

-----------------------------------------------------------------------------
(* refresh *)

(* A client may present any secret that has left the service: one that no    *)
(* open transaction still holds.                                             *)
BeginRefresh(r, n, t, k) ==
  /\ t \in used
  /\ \A s \in Reqs : new[s] # t
  /\ Begin(r, n, t, k, "cas")
  /\ UNCHANGED <<db, now, grace, new, cand, todo, locks>>

(* The row is read and written without taking its lock. *)
CasWinNoLock(r) ==
  /\ pc[r] = "cas"
  /\ Active(tok[r])
  /\ locks' = [locks EXCEPT ![r] = {tok[r]}]
  /\ Goto(r, "check")
  /\ UNCHANGED <<db, now, grace, node, tok, jkt, new, cand, todo, out>>

(* "AND revoked_at IS NULL" is missing. *)
CasWinNoGuard(r) ==
  /\ pc[r] = "cas"
  /\ tok[r] \in Stored
  /\ ~Locked(tok[r], r)
  /\ locks' = [locks EXCEPT ![r] = {tok[r]}]
  /\ Goto(r, "check")
  /\ UNCHANGED <<db, now, grace, node, tok, jkt, new, cand, todo, out>>

(* revoke_refresh_token_if_active updates the row: this request has won.     *)
CasWin(r) ==
  /\ pc[r] = "cas"
  /\ Active(tok[r])
  /\ ~Locked(tok[r], r)
  /\ locks' = [locks EXCEPT ![r] = {tok[r]}]
  /\ Goto(r, "check")
  /\ UNCHANGED <<db, now, grace, node, tok, jkt, new, cand, todo, out>>

(* It updates nothing; find_refresh_token_by_hash tells a revoked token from *)
(* an unknown one.  Neither state of a row is ever left, so the two          *)
(* statements see the same row.                                              *)
CasMiss(r) ==
  /\ pc[r] = "cas"
  /\ ~Active(tok[r])
  /\ \/ /\ status[tok[r]] = "revoked"
        /\ Goto(r, "grace")
        /\ UNCHANGED <<node, tok, jkt, new, cand, todo, locks, out>>
     \/ /\ status[tok[r]] = "absent"
        /\ Return(r, Failed)
  /\ UNCHANGED <<db, now, grace>>

Cached(n, t) == grace[n][t].repl # None /\ now < grace[n][t].until

(* grace_cache.get: a cached pair is returned as it is. *)
GraceHit(r) ==
  /\ pc[r] = "grace"
  /\ Cached(node[r], tok[r])
  /\ Return(r, Ans(r, "grace", grace[node[r]][tok[r]].repl,
                              grace[node[r]][tok[r]].jkt))
  /\ UNCHANGED <<db, now, grace>>

GraceMiss(r) ==
  /\ pc[r] = "grace"
  /\ ~Cached(node[r], tok[r])
  /\ Goto(r, "reuse")
  /\ UNCHANGED <<db, now, grace, node, tok, jkt, new, cand, todo, locks, out>>

(* The UPDATE skips rows another transaction has locked. *)
FamilySnapshotNoWait(r) ==
  LET S == {t \in LiveOf(row[tok[r]].fam) : ~Locked(t, r)} IN
  /\ pc[r] = "reuse"
  /\ cand' = [cand EXCEPT ![r] = S]
  /\ todo' = [todo EXCEPT ![r] = S]
  /\ Goto(r, "revoke")
  /\ UNCHANGED <<db, now, grace, node, tok, jkt, new, locks, out>>

(* It revokes by user_id instead of fam. *)
FamilySnapshotNoFam(r) ==
  LET S == {t \in Stored : Active(t) /\ row[t].user = row[tok[r]].user} IN
  /\ pc[r] = "reuse"
  /\ cand' = [cand EXCEPT ![r] = S]
  /\ todo' = [todo EXCEPT ![r] = S]
  /\ Goto(r, "revoke")
  /\ UNCHANGED <<db, now, grace, node, tok, jkt, new, locks, out>>

(* revoke_refresh_token_family starts: the rows its snapshot qualifies. *)
FamilySnapshot(r) ==
  /\ pc[r] = "reuse"
  /\ cand' = [cand EXCEPT ![r] = LiveOf(row[tok[r]].fam)]
  /\ todo' = [todo EXCEPT ![r] = LiveOf(row[tok[r]].fam)]
  /\ Goto(r, "revoke")
  /\ UNCHANGED <<db, now, grace, node, tok, jkt, new, locks, out>>

(* It reaches a row, when no other transaction holds it; a row that is no    *)
(* longer active is skipped.                                                 *)
RevokeRow(r, t) ==
  /\ pc[r] \in {"revoke", "revokeAll"}
  /\ t \in todo[r]
  /\ ~Locked(t, r)
  /\ todo' = [todo EXCEPT ![r] = @ \ {t}]
  /\ locks' = [locks EXCEPT ![r] = IF Active(t) THEN @ \cup {t} ELSE @]
  /\ UNCHANGED <<db, now, grace, pc, node, tok, jkt, new, cand, out>>

(* The statement is done and its transaction commits.  The acknowledgement   *)
(* of a commit may be lost: the call then fails although it took effect.     *)
RevokeCommit(r) ==
  /\ pc[r] \in {"revoke", "revokeAll"}
  /\ todo[r] = {}
  /\ status' = [t \in Tokens |-> IF t \in locks[r] THEN "revoked" ELSE status[t]]
  /\ \/ pc[r] = "revoke" /\ Return(r, Ans(r, "reuse", None, None))
     \/ Return(r, Failed)
  /\ UNCHANGED <<row, used, deleted, now, grace>>

(* The thumbprint is not compared. *)
CheckNoKey(r) ==
  /\ pc[r] = "check"
  /\ IF row[tok[r]].exp <= now
       THEN Return(r, Failed)
       ELSE Goto(r, "user")
            /\ UNCHANGED <<node, tok, jkt, new, cand, todo, locks, out>>
  /\ UNCHANGED <<db, now, grace>>

(* The checks on the row the CAS returned.  Leaving drops the transaction:   *)
(* the revocation is rolled back.                                            *)
Check(r) ==
  /\ pc[r] = "check"
  /\ IF row[tok[r]].exp <= now \/ row[tok[r]].jkt # jkt[r]
       THEN Return(r, Failed)
       ELSE Goto(r, "user")
            /\ UNCHANGED <<node, tok, jkt, new, cand, todo, locks, out>>
  /\ UNCHANGED <<db, now, grace>>

(* find_user_by_id, new_refresh_secret and create_refresh_token.  Running    *)
(* out of secrets is the modelled failure of the entropy source.             *)
Insert(r) ==
  /\ pc[r] = "user"
  /\ \/ /\ row[tok[r]].user \in deleted
        /\ Return(r, Failed)
        /\ UNCHANGED used
     \/ /\ row[tok[r]].user \notin deleted
        /\ used = Tokens
        /\ Return(r, Failed)
        /\ UNCHANGED used
     \/ /\ row[tok[r]].user \notin deleted
        /\ \E t \in Tokens \ used :
             /\ new' = [new EXCEPT ![r] = t]
             /\ used' = used \cup {t}
        /\ Goto(r, "cache")
        /\ UNCHANGED <<node, tok, jkt, cand, todo, locks, out>>
  /\ UNCHANGED <<status, row, deleted, now, grace>>

(* The old refresh token is cached instead of the new one. *)
GraceInsertNoNew(r) ==
  /\ pc[r] = "cache"
  /\ grace' = [grace EXCEPT ![node[r]][tok[r]] =
                 [repl |-> tok[r], jkt |-> jkt[r], until |-> now + GracePeriod]]
  /\ Goto(r, "commit")
  /\ UNCHANGED <<db, now, node, tok, jkt, new, cand, todo, locks, out>>

(* grace_cache.insert, before the commit. *)
GraceInsert(r) ==
  /\ pc[r] = "cache"
  /\ grace' = [grace EXCEPT ![node[r]][tok[r]] =
                 [repl |-> new[r], jkt |-> jkt[r], until |-> now + GracePeriod]]
  /\ Goto(r, "commit")
  /\ UNCHANGED <<db, now, node, tok, jkt, new, cand, todo, locks, out>>

(* Every rotation starts a new TTL. *)
RefreshCommitNoInherit(r) ==
  /\ pc[r] = "commit"
  /\ status' = [status EXCEPT ![tok[r]] = "revoked", ![new[r]] = "active"]
  /\ row' = [row EXCEPT ![new[r]] = [row[tok[r]] EXCEPT !.jkt = jkt[r],
                                                        !.exp = now + RefreshTTL,
                                                        !.parent = tok[r]]]
  /\ \/ Return(r, Ans(r, "rotated", new[r], jkt[r]))
     \/ Return(r, Failed)
  /\ UNCHANGED <<used, deleted, now, grace>>

(* The revocation of the old row is not part of the transaction that commits. *)
RefreshCommitNoRevoke(r) ==
  /\ pc[r] = "commit"
  /\ status' = [status EXCEPT ![new[r]] = "active"]
  /\ row' = [row EXCEPT ![new[r]] = [row[tok[r]] EXCEPT !.jkt = jkt[r],
                                                        !.parent = tok[r]]]
  /\ \/ Return(r, Ans(r, "rotated", new[r], jkt[r]))
     \/ Return(r, Failed)
  /\ UNCHANGED <<used, deleted, now, grace>>

(* tx.commit: the old row is revoked and the new one appears.                *)
RefreshCommit(r) ==
  /\ pc[r] = "commit"
  /\ status' = [status EXCEPT ![tok[r]] = "revoked", ![new[r]] = "active"]
  /\ row' = [row EXCEPT ![new[r]] = [row[tok[r]] EXCEPT !.jkt = jkt[r],
                                                        !.parent = tok[r]]]
  /\ \/ Return(r, Ans(r, "rotated", new[r], jkt[r]))
     \/ Return(r, Failed)
  /\ UNCHANGED <<used, deleted, now, grace>>

-----------------------------------------------------------------------------
(* logout, and the revocations of store/repo an application calls itself *)

BeginLogout(r, n, t) ==
  /\ t \in used
  /\ \A s \in Reqs : new[s] # t
  /\ Begin(r, n, t, None, "logout")
  /\ UNCHANGED <<db, now, grace, new, cand, todo, locks>>

(* The row is overwritten while a rotation of it is under way. *)
LogoutStmtNoLock(r) ==
  /\ pc[r] = "logout"
  /\ status' = IF Active(tok[r]) THEN [status EXCEPT ![tok[r]] = "revoked"]
                                 ELSE status
  /\ Return(r, Ans(r, "loggedOut", None, None)) \/ Return(r, Failed)
  /\ UNCHANGED <<row, used, deleted, now, grace>>

(* A row that is locked is passed over, as by SKIP LOCKED. *)
LogoutStmtNoWait(r) ==
  /\ pc[r] = "logout"
  /\ status' = IF Active(tok[r]) /\ ~Locked(tok[r], r)
               THEN [status EXCEPT ![tok[r]] = "revoked"] ELSE status
  /\ Return(r, Ans(r, "loggedOut", None, None)) \/ Return(r, Failed)
  /\ UNCHANGED <<row, used, deleted, now, grace>>

(* revoke_refresh_token_by_hash (revoke_refresh_token, by id, is the same    *)
(* statement): one UPDATE, committed on its own.                             *)
LogoutStmt(r) ==
  /\ pc[r] = "logout"
  /\ Active(tok[r]) => ~Locked(tok[r], r)
  /\ status' = IF Active(tok[r]) THEN [status EXCEPT ![tok[r]] = "revoked"]
                                 ELSE status
  /\ Return(r, Ans(r, "loggedOut", None, None)) \/ Return(r, Failed)
  /\ UNCHANGED <<row, used, deleted, now, grace>>

(* revoke_all_refresh_tokens_for_user: a multi-row UPDATE like the family's. *)
BeginRevokeAll(r, n, u) ==
  /\ Begin(r, n, None, None, "revokeAll")
  /\ cand' = [cand EXCEPT ![r] = {t \in Stored : Active(t) /\ row[t].user = u}]
  /\ todo' = [todo EXCEPT ![r] = {t \in Stored : Active(t) /\ row[t].user = u}]
  /\ UNCHANGED <<db, now, grace, new, locks>>

-----------------------------------------------------------------------------
(* Failures and the environment *)

(* Requests that hold every row the others of the set still need.            *)
Deadlocked(r) ==
  \E S \in SUBSET Reqs :
     /\ r \in S
     /\ \A s \in S : /\ todo[s] # {}
                     /\ \A t \in todo[s] : \E q \in S \ {s} : t \in locks[q]

(* A transaction the deadlock detector has failed is run again for ever. *)
AbortNoError(r) ==
  /\ pc[r] # "idle"
  /\ IF Deadlocked(r)
     THEN /\ locks' = [locks EXCEPT ![r] = {}]
          /\ todo' = [todo EXCEPT ![r] = cand[r]]
          /\ UNCHANGED <<pc, node, tok, jkt, new, cand, out>>
     ELSE Return(r, Failed)
  /\ UNCHANGED <<db, now, grace>>

(* A statement fails, the connection is lost before the commit, or the       *)
(* caller drops the future: the transaction is rolled back.                  *)
Abort(r) ==
  /\ pc[r] # "idle"
  /\ Return(r, Failed)
  /\ UNCHANGED <<db, now, grace>>

(* A process dies: its open transactions roll back and its cache is gone.    *)
Crash(n) ==
  /\ grace' = [grace EXCEPT ![n] = [t \in Tokens |-> NoEntry]]
  /\ pc' = [r \in Reqs |-> IF node[r] = n THEN "idle" ELSE pc[r]]
  /\ new' = [r \in Reqs |-> IF node[r] = n THEN None ELSE new[r]]
  /\ cand' = [r \in Reqs |-> IF node[r] = n THEN {} ELSE cand[r]]
  /\ todo' = [r \in Reqs |-> IF node[r] = n THEN {} ELSE todo[r]]
  /\ locks' = [r \in Reqs |-> IF node[r] = n THEN {} ELSE locks[r]]
  /\ node' = [r \in Reqs |-> IF node[r] = n THEN None ELSE node[r]]
  /\ tok' = [r \in Reqs |-> IF node[r] = n THEN None ELSE tok[r]]
  /\ jkt' = [r \in Reqs |-> IF node[r] = n THEN None ELSE jkt[r]]
  /\ UNCHANGED <<db, now, out>>

(* The cache is full (GRACE_CAPACITY) and drops an entry. *)
GraceEvict(n, t) ==
  /\ grace[n][t] # NoEntry
  /\ grace' = [grace EXCEPT ![n][t] = NoEntry]
  /\ UNCHANGED <<db, now, reqVars>>

(* The application sets deleted_at; the library only reads it. *)
SoftDelete(u) ==
  /\ u \notin deleted
  /\ deleted' = deleted \cup {u}
  /\ UNCHANGED <<status, row, used, now, grace, reqVars>>

Tick ==
  /\ now < MaxTime
  /\ now' = now + 1
  /\ UNCHANGED <<db, grace, reqVars>>

-----------------------------------------------------------------------------
(* One step of a request that is already running. *)
Step(r) ==
  \/ CasWin(r) \/ CasMiss(r)
  \/ GraceHit(r) \/ GraceMiss(r)
  \/ FamilySnapshot(r) \/ RevokeCommit(r)
  \/ \E t \in Tokens : RevokeRow(r, t)
  \/ Check(r) \/ Insert(r) \/ GraceInsert(r) \/ RefreshCommit(r)
  \/ LogoutStmt(r)

Call(r) ==
  \E n \in Nodes :
     \/ \E t \in Tokens, k \in Jkts : BeginRefresh(r, n, t, k)
     \/ \E t \in Tokens : BeginLogout(r, n, t)
     \/ \E u \in Users : BeginRevokeAll(r, n, u)

Environment ==
  \/ \E u \in Users, k \in Jkts, f \in Families, t \in Tokens :
        OpenSession(u, k, f, t)
  \/ \E n \in Nodes : Crash(n)
  \/ \E n \in Nodes, t \in Tokens : GraceEvict(n, t)
  \/ \E u \in Users : SoftDelete(u)
  \/ Tick

Next ==
  \/ \E r \in Reqs : Call(r) \/ Step(r) \/ Abort(r)
  \/ Environment

Spec == Init /\ [][Next]_vars

(* What the scheduling gives.  The runtime keeps polling a running request.  *)
(* PostgreSQL queues the waiters of a row lock, so a request whose statement *)
(* finds its row free again and again goes on (strong fairness), and its     *)
(* deadlock detector fails one of the transactions of a wait cycle.          *)
Fairness == \A r \in Reqs : SF_vars(Step(r) \/ (Abort(r) /\ Deadlocked(r)))

FairSpec == Spec /\ Fairness

-----------------------------------------------------------------------------
(* Safety *)

(* A family never has two live tokens, whatever the requests racing on it,   *)
(* the lost acknowledgements and the rollbacks: rotation replaces the token. *)
OneActivePerFamily ==
  \A f \in Families : \A t1, t2 \in LiveOf(f) : t1 = t2

(* "Exactly one concurrent request wins this revoke" (refresh): no two       *)
(* stored tokens were rotated from the same token.                           *)
SingleSuccessor ==
  \A t1, t2 \in Stored :
     row[t1].parent # None /\ row[t1].parent = row[t2].parent => t1 = t2

(* Rotation passes on the owner, the DPoP key and the absolute expiry of the *)
(* session: no chain of refreshes moves a session to another key or user or  *)
(* extends it beyond the TTL of the login it started with.                   *)
FamilyUniform ==
  \A t1, t2 \in Stored : row[t1].fam = row[t2].fam =>
     /\ row[t1].user = row[t2].user
     /\ row[t1].jkt = row[t2].jkt
     /\ row[t1].exp = row[t2].exp

(* Every access token refresh hands out, cached ones included, is bound to   *)
(* the key the presented refresh token was issued to.                        *)
AnswersBoundToFamilyKey ==
  \A r \in Reqs : out[r].kind \in {"rotated", "grace"} =>
     out[r].jkt = row[out[r].old].jkt

(* What refresh hands out is the successor of the token presented: stored,   *)
(* and rotated from it.  A pair from the grace cache may also be one whose   *)
(* transaction was rolled back after it was cached; such a token is never    *)
(* stored, so it cannot be a token of another session.                       *)
AnswersAreSuccessors ==
  \A r \in Reqs :
     /\ out[r].kind = "rotated" => /\ out[r].tok \in Stored
                                   /\ row[out[r].tok].parent = out[r].old
     /\ out[r].kind = "grace" /\ out[r].tok \in Stored =>
                                   row[out[r].tok].parent = out[r].old

(* When the family UPDATE of reuse detection finds every row of its snapshot *)
(* still active, nothing of the family outlives the commit: no rotation can  *)
(* have slipped past it.                                                     *)
ReuseKillsFamilyUnlessRaced ==
  \A r \in Reqs :
     pc[r] = "revoke" /\ todo[r] = {} /\ cand[r] = locks[r] =>
        LiveOf(row[tok[r]].fam) \subseteq locks[r]

(* Refresh, reuse detection and logout never hold a row while waiting for    *)
(* another, so they cannot be part of a wait cycle; only the bulk revocation *)
(* of a user's tokens holds and waits.                                       *)
OnlyBulkRevokesHoldAndWait ==
  \A r \in Reqs :
     /\ locks[r] # {}
     /\ pc[r] \in {"cas", "logout"} \/ todo[r] # {}
     => pc[r] = "revokeAll"

(* After a logout the token presented is dead, and so is its session, unless *)
(* a refresh had rotated that token before: then its successor lives on, as  *)
(* logout revokes one row and not the family.                                *)
LogoutEndsSessionUnlessRotated ==
  \A r \in Reqs :
     out[r].kind = "loggedOut" /\ out[r].old \in Stored =>
        /\ status[out[r].old] = "revoked"
        /\ \/ LiveOf(row[out[r].old].fam) = {}
           \/ \E t \in Stored : row[t].parent = out[r].old

(* A family that has lost its live token never has one again: not by a late  *)
(* commit, a retry, a cached pair or a restart.                              *)
DeadFamilyStaysDead ==
  [][\A f \in Families :
       FamilyOf(f) # {} /\ LiveOf(f) = {} => LiveOf(f)' = {}]_vars

(* Every call returns: no refresh, logout or revocation waits forever for a  *)
(* row lock, with crashes, rollbacks and concurrent bulk revocations.        *)
EveryCallReturns == \A r \in Reqs : pc[r] # "idle" ~> pc[r] = "idle"

-----------------------------------------------------------------------------
(* What the documentation says and the code does not do *)

(* "automatic family revocation on reuse" (README): after a request was      *)
(* answered as a reuse, its family has no live token.                        *)
ReuseRevokesWholeFamily ==
  \A r \in Reqs : out[r].kind = "reuse" => LiveOf(row[out[r].old].fam) = {}

-----------------------------------------------------------------------------
(* Refinement *)

HeadOf(f) == IF LiveOf(f) = {} THEN None ELSE CHOOSE t \in Tokens : t \in LiveOf(f)

Sessions == INSTANCE SessionFamilies WITH
  head   <- [f \in Families |-> HeadOf(f)],
  opened <- {f \in Families : FamilyOf(f) # {}},
  past   <- Stored

(* The transactional system, with its races, crashes and cached answers,     *)
(* implements the sessions of SessionFamilies.                               *)
ImplementsSessions == Sessions!AbsSpec

-----------------------------------------------------------------------------
(* The inductive invariant behind the safety properties *)

Revoking == {"revoke", "revokeAll"}              \* a multi-row UPDATE runs
Rotating == {"check", "user", "cache", "commit"} \* the CAS has won
Pending  == {"cache", "commit"}                  \* a new row is inserted

(* What a request at each program point has and knows. *)
RequestInv ==
  \A r \in Reqs :
     /\ pc[r] = "idle" => node[r] = None
     /\ pc[r] # "idle" => node[r] \in Nodes
     /\ pc[r] \notin {"idle", "revokeAll"} => tok[r] \in Tokens
     /\ pc[r] \in {"grace", "reuse", "revoke"} => status[tok[r]] = "revoked"
     /\ pc[r] \in {"user", "cache", "commit"} => jkt[r] = row[tok[r]].jkt

(* Row locks: held on active rows only, by one transaction each. *)
LockInv ==
  /\ \A r \in Reqs : \A t \in locks[r] : status[t] = "active"
  /\ \A r, s \in Reqs : r # s => locks[r] \cap locks[s] = {}
  /\ \A r \in Reqs :
        /\ pc[r] \in Rotating => locks[r] = {tok[r]}
        /\ pc[r] \notin Rotating \cup Revoking => locks[r] = {}

(* The multi-row UPDATEs.  A family's snapshot has at most one row, and when *)
(* it has none the family has no live token.                                 *)
RevokeInv ==
  \A r \in Reqs :
     /\ pc[r] \in Revoking => /\ locks[r] \subseteq cand[r]
                              /\ todo[r] \subseteq cand[r]
                              /\ locks[r] \cap todo[r] = {}
     /\ pc[r] \notin Revoking => todo[r] = {} /\ cand[r] = {}
     /\ pc[r] = "revoke" =>
          /\ \A a, b \in cand[r] : a = b
          /\ \A a \in cand[r] : a \in FamilyOf(row[tok[r]].fam)
          /\ cand[r] = {} => LiveOf(row[tok[r]].fam) = {}

(* Uncommitted rows: generated, not stored, one per request. *)
PendingInv ==
  /\ \A r \in Reqs :
        /\ pc[r] \in Pending => new[r] \in used /\ status[new[r]] = "absent"
        /\ pc[r] \notin Pending => new[r] = None
  /\ \A r, s \in Reqs : new[r] = new[s] /\ new[r] # None => r = s

(* Stored rows: the parent of a row is a revoked row of the same family. *)
RowInv ==
  /\ Stored \subseteq used
  /\ \A t \in Stored :
        /\ row[t].fam \in Families
        /\ row[t].user \in Users
        /\ row[t].jkt \in Jkts
        /\ row[t].parent # None => /\ status[row[t].parent] = "revoked"
                                   /\ row[row[t].parent].fam = row[t].fam

(* t can only ever be stored as the successor of p. *)
SuccessorOrVoid(t, p) ==
  /\ t \in used
  /\ t \in Stored => row[t].parent = p
  /\ \A s \in Reqs : new[s] = t => tok[s] = p

GraceInv ==
  \A n \in Nodes, t \in Tokens : grace[n][t].repl # None =>
     /\ t \in Stored
     /\ grace[n][t].jkt = row[t].jkt
     /\ SuccessorOrVoid(grace[n][t].repl, t)

AnswerInv ==
  \A r \in Reqs : out[r].kind \in {"rotated", "grace"} =>
     /\ out[r].old \in Stored
     /\ out[r].jkt = row[out[r].old].jkt
     /\ SuccessorOrVoid(out[r].tok, out[r].old)
     /\ out[r].kind = "rotated" => out[r].tok \in Stored

(* The conjunction a step preserves. *)
IInv ==
  /\ TypeOK /\ RequestInv /\ LockInv /\ RevokeInv /\ PendingInv
  /\ RowInv /\ OneActivePerFamily /\ SingleSuccessor /\ FamilyUniform
  /\ GraceInv /\ AnswerInv
=============================================================================
