------------------------ MODULE RefreshTokensProofs ------------------------
(***************************************************************************)
(* IInv is an inductive invariant of RefreshTokens, for every number of    *)
(* nodes, requests, tokens, families and keys; the safety properties and   *)
(* the refinement of SessionFamilies follow from it.                       *)
(***************************************************************************)
EXTENDS RefreshTokens, TLAPS

RowsInv == RowInv /\ OneActivePerFamily /\ SingleSuccessor /\ FamilyUniform

(* The initial state satisfies the invariant: nothing is stored, no request  *)
(* runs, every cache is empty.                                               *)
LEMMA InitIInv == Init => IInv
<1> SUFFICES ASSUME Init PROVE IInv
  OBVIOUS
<1> USE NoneAssumption DEF Init, Failed, NoRow, NoEntry
<1>1. TypeOK
  BY DEF TypeOK, Statuses, Row, Entry, Answer, Kinds, Pcs
<1>2. Stored = {} /\ \A f : FamilyOf(f) = {} /\ LiveOf(f) = {}
  BY DEF Stored, FamilyOf, LiveOf
<1>3. RequestInv /\ LockInv /\ RevokeInv /\ PendingInv
  BY DEF RequestInv, LockInv, RevokeInv, PendingInv, Rotating, Revoking, Pending
<1>4. RowsInv
  BY <1>2 DEF RowsInv, RowInv, OneActivePerFamily, SingleSuccessor, FamilyUniform
<1>5. GraceInv /\ AnswerInv
  BY DEF GraceInv, AnswerInv
<1> QED
  BY <1>1, <1>3, <1>4, <1>5 DEF IInv, RowsInv

(* The invariants of the stored rows speak of committed rows only: a step    *)
(* that commits nothing keeps them.                                          *)
LEMMA RowsKept ==
  ASSUME RowsInv, UNCHANGED <<status, row>>, used \subseteq used'
  PROVE  RowsInv'
<1> USE DEF Stored, FamilyOf, LiveOf, Active
<1>1. RowInv'
  BY DEF RowsInv, RowInv
<1>2. OneActivePerFamily' /\ SingleSuccessor' /\ FamilyUniform'
  BY DEF RowsInv, OneActivePerFamily, SingleSuccessor, FamilyUniform
<1> QED
  BY <1>1, <1>2 DEF RowsInv

(* What every step does to the store: rows are never changed or removed, and *)
(* a row that appears is a new secret or the successor its transaction made. *)
StoreStep ==
  /\ used \subseteq used'
  /\ Stored \subseteq Stored'
  /\ \A t \in Stored : row'[t] = row[t]
  /\ \A t \in Stored' \ Stored :
        t \notin used \/ \E s \in Reqs : new[s] = t /\ row'[t].parent = tok[s]

(* What every step does to the uncommitted rows. *)
PendingStep ==
  \A s \in Reqs : \/ new'[s] = None
                  \/ new'[s] = new[s] /\ tok'[s] = tok[s]
                  \/ new'[s] \notin used

(* SuccessorOrVoid in the next state, of values of this or the next state. *)
SuccessorOrVoidNext(t, p) ==
  /\ t \in used'
  /\ t \in Stored' => row'[t].parent = p
  /\ \A s \in Reqs : new'[s] = t => tok'[s] = p

LEMMA VoidKept ==
  ASSUME StoreStep, PendingStep, NEW t, t # None, NEW p, SuccessorOrVoid(t, p)
  PROVE  SuccessorOrVoidNext(t, p)
  BY DEF SuccessorOrVoid, SuccessorOrVoidNext, StoreStep, PendingStep

(* Cached pairs stay right while entries are only dropped. *)
LEMMA GraceKept ==
  ASSUME GraceInv, StoreStep, PendingStep,
         \A n \in Nodes, t \in Tokens : \/ grace'[n][t] = grace[n][t]
                                        \/ grace'[n][t].repl = None
  PROVE  GraceInv'
<1> SUFFICES ASSUME NEW n \in Nodes, NEW t \in Tokens, grace'[n][t].repl # None
             PROVE  /\ t \in Stored' /\ grace'[n][t].jkt = row'[t].jkt
                    /\ SuccessorOrVoidNext(grace'[n][t].repl, t)
  BY DEF GraceInv, SuccessorOrVoid, SuccessorOrVoidNext
<1>1. grace'[n][t] = grace[n][t]
  OBVIOUS
<1> QED
  BY <1>1, VoidKept DEF GraceInv, StoreStep

(* Answers given stay right while none is added. *)
LEMMA AnswersKept ==
  ASSUME TypeOK, AnswerInv, StoreStep, PendingStep,
         \A s \in Reqs : out'[s] = out[s] \/ out'[s].kind \notin {"rotated", "grace"}
  PROVE  AnswerInv'
<1> SUFFICES ASSUME NEW s \in Reqs, out'[s].kind \in {"rotated", "grace"}
             PROVE  /\ out'[s].old \in Stored' /\ out'[s].jkt = row'[out'[s].old].jkt
                    /\ out'[s].kind = "rotated" => out'[s].tok \in Stored'
                    /\ SuccessorOrVoidNext(out'[s].tok, out'[s].old)
  BY DEF AnswerInv, SuccessorOrVoid, SuccessorOrVoidNext
<1>1. out'[s] = out[s]
  OBVIOUS
<1>2. out[s].tok # None
  BY <1>1, NoneAssumption DEF AnswerInv, SuccessorOrVoid, TypeOK
<1> QED
  BY <1>1, <1>2, VoidKept DEF AnswerInv, StoreStep

(* A step that commits nothing. *)
LEMMA NoCommit ==
  ASSUME UNCHANGED <<status, row>>, used \subseteq used'
  PROVE  StoreStep
  BY DEF StoreStep, Stored

(* A multi-row UPDATE is not disturbed by a step that starts, advances or    *)
(* ends none and commits nothing.                                            *)
LEMMA RevokeKept ==
  ASSUME RevokeInv, UNCHANGED <<status, row, cand, todo, locks, tok>>,
         \A s \in Reqs : \/ pc'[s] = pc[s]
                         \/ pc[s] \notin Revoking /\ pc'[s] \notin Revoking
  PROVE  RevokeInv'
<1>1. \A f : FamilyOf(f)' = FamilyOf(f) /\ LiveOf(f)' = LiveOf(f)
  BY DEF Stored, FamilyOf, LiveOf, Active
<1> QED
  BY <1>1 DEF RevokeInv, Revoking

(* A step of request r that stores nothing and does not leave r in a family  *)
(* revocation keeps RevokeInv if it keeps the part about r.                  *)
LEMMA RevokeElsewhere ==
  ASSUME RevokeInv, UNCHANGED <<status, row>>, NEW r \in Reqs,
         \A s \in Reqs \ {r} : /\ pc'[s] = pc[s] /\ tok'[s] = tok[s]
                               /\ cand'[s] = cand[s] /\ todo'[s] = todo[s]
                               /\ locks'[s] = locks[s],
         pc'[r] # "revoke",
         pc'[r] \in Revoking => /\ locks'[r] \subseteq cand'[r]
                                /\ todo'[r] \subseteq cand'[r]
                                /\ locks'[r] \cap todo'[r] = {},
         pc'[r] \notin Revoking => todo'[r] = {} /\ cand'[r] = {}
  PROVE  RevokeInv'
<1>1. ASSUME NEW s \in Reqs, s # r
      PROVE  (/\ pc[s] \in Revoking => /\ locks[s] \subseteq cand[s]
                                       /\ todo[s] \subseteq cand[s]
                                       /\ locks[s] \cap todo[s] = {}
              /\ pc[s] \notin Revoking => todo[s] = {} /\ cand[s] = {}
              /\ pc[s] = "revoke" =>
                   /\ \A a, b \in cand[s] : a = b
                   /\ \A a \in cand[s] : a \in FamilyOf(row[tok[s]].fam)
                   /\ cand[s] = {} => LiveOf(row[tok[s]].fam) = {})'
  BY <1>1 DEF RevokeInv, Revoking, FamilyOf, LiveOf, Stored, Active
<1> QED
  BY <1>1 DEF RevokeInv

(* A request that is not in a call holds no lock and has nothing to revoke. *)
LEMMA IdleHoldsNothing ==
  ASSUME LockInv, RevokeInv, NEW r \in Reqs, pc[r] = "idle"
  PROVE  locks[r] = {} /\ todo[r] = {} /\ cand[r] = {}
<1>1. pc[r] \notin Rotating /\ pc[r] \notin Revoking
  BY DEF Rotating, Revoking
<1> QED
  BY <1>1 DEF LockInv, RevokeInv

(* The invariant, for a step that commits nothing and caches nothing, from   *)
(* its parts about running requests.                                         *)
LEMMA LocalStep ==
  ASSUME IInv, UNCHANGED <<status, row, used, grace>>, PendingStep,
         \A s \in Reqs : out'[s] = out[s] \/ out'[s].kind = "none",
         TypeOK', RequestInv', LockInv', RevokeInv', PendingInv'
  PROVE  IInv'
<1>1. StoreStep
  BY NoCommit
<1>2. RowsInv'
  BY RowsKept DEF IInv, RowsInv
<1>3. GraceInv' /\ AnswerInv'
  BY <1>1, GraceKept, AnswersKept DEF IInv
<1> QED
  BY <1>2, <1>3 DEF IInv, RowsInv

-----------------------------------------------------------------------------
(* One lemma per action: it keeps IInv. *)

(* Leaving a transaction without committing it. *)
LEMMA RollbackKeeps ==
  ASSUME IInv, NEW r \in Reqs, Return(r, Failed), UNCHANGED <<db, now, grace>>
  PROVE  IInv'
<1> USE NoneAssumption DEF IInv, Return, Failed, db
<1>1. TypeOK'
  BY DEF TypeOK, Answer, Kinds, Pcs
<1>2. RequestInv'
  BY DEF TypeOK, RequestInv
<1>3. LockInv'
  BY DEF TypeOK, LockInv, Rotating, Revoking
<1>4. RevokeInv'
  <2>1. /\ pc'[r] = "idle" /\ locks'[r] = {} /\ todo'[r] = {} /\ cand'[r] = {}
        /\ \A s \in Reqs \ {r} : /\ pc'[s] = pc[s] /\ tok'[s] = tok[s]
                                 /\ cand'[s] = cand[s] /\ todo'[s] = todo[s]
                                 /\ locks'[s] = locks[s]
    BY DEF TypeOK, LockInv, RevokeInv, Rotating, Revoking, Goto
  <2> QED
    BY <2>1, RevokeElsewhere DEF Revoking
<1>5. PendingInv' /\ PendingStep
  BY DEF TypeOK, PendingInv, PendingStep, Pending
<1> QED
  BY <1>1, <1>2, <1>3, <1>4, <1>5, LocalStep DEF TypeOK

(* A call begins: nothing is stored, locked or cached. *)
LEMMA BeginRefreshKeeps ==
  ASSUME IInv, NEW r \in Reqs, NEW n \in Nodes, NEW t \in Tokens, NEW k \in Jkts,
         BeginRefresh(r, n, t, k)
  PROVE  IInv'
<1> USE NoneAssumption DEF IInv, BeginRefresh, Begin, Goto, Failed, db
<1>1. TypeOK'
  BY DEF TypeOK, Answer, Kinds, Pcs
<1>2. RequestInv'
  BY DEF TypeOK, RequestInv
<1>3. LockInv'
  BY DEF TypeOK, LockInv, Rotating, Revoking
<1>4. RevokeInv'
  <2>1. /\ pc'[r] = "cas" /\ locks'[r] = {} /\ todo'[r] = {} /\ cand'[r] = {}
        /\ \A s \in Reqs \ {r} : /\ pc'[s] = pc[s] /\ tok'[s] = tok[s]
                                 /\ cand'[s] = cand[s] /\ todo'[s] = todo[s]
                                 /\ locks'[s] = locks[s]
    <3>1. locks[r] = {} /\ todo[r] = {} /\ cand[r] = {}
      BY IdleHoldsNothing
    <3> QED
      BY <3>1 DEF TypeOK
  <2> QED
    BY <2>1, RevokeElsewhere DEF Revoking
<1>5. PendingInv' /\ PendingStep
  BY DEF TypeOK, PendingInv, PendingStep, Pending
<1> QED
  BY <1>1, <1>2, <1>3, <1>4, <1>5, LocalStep DEF TypeOK

LEMMA BeginLogoutKeeps ==
  ASSUME IInv, NEW r \in Reqs, NEW n \in Nodes, NEW t \in Tokens,
         BeginLogout(r, n, t)
  PROVE  IInv'
<1> USE NoneAssumption DEF IInv, BeginLogout, Begin, Goto, Failed, db
<1>1. TypeOK'
  BY DEF TypeOK, Answer, Kinds, Pcs
<1>2. RequestInv'
  BY DEF TypeOK, RequestInv
<1>3. LockInv'
  BY DEF TypeOK, LockInv, Rotating, Revoking
<1>4. RevokeInv'
  <2>1. /\ pc'[r] = "logout" /\ locks'[r] = {} /\ todo'[r] = {} /\ cand'[r] = {}
        /\ \A s \in Reqs \ {r} : /\ pc'[s] = pc[s] /\ tok'[s] = tok[s]
                                 /\ cand'[s] = cand[s] /\ todo'[s] = todo[s]
                                 /\ locks'[s] = locks[s]
    <3>1. locks[r] = {} /\ todo[r] = {} /\ cand[r] = {}
      BY IdleHoldsNothing
    <3> QED
      BY <3>1 DEF TypeOK
  <2> QED
    BY <2>1, RevokeElsewhere DEF Revoking
<1>5. PendingInv' /\ PendingStep
  BY DEF TypeOK, PendingInv, PendingStep, Pending
<1> QED
  BY <1>1, <1>2, <1>3, <1>4, <1>5, LocalStep DEF TypeOK

(* The snapshot of a bulk revocation. *)
LEMMA BeginRevokeAllKeeps ==
  ASSUME IInv, NEW r \in Reqs, NEW n \in Nodes, NEW u \in Users,
         BeginRevokeAll(r, n, u)
  PROVE  IInv'
<1> USE NoneAssumption DEF IInv, BeginRevokeAll, Begin, Goto, Failed, db
<1>1. TypeOK'
  BY DEF TypeOK, Answer, Kinds, Pcs, Stored
<1>2. RequestInv'
  BY DEF TypeOK, RequestInv
<1>3. LockInv'
  BY DEF TypeOK, LockInv, Rotating, Revoking
<1>4. RevokeInv'
  <2>1. /\ pc'[r] = "revokeAll" /\ locks'[r] = {} /\ todo'[r] = cand'[r]
        /\ \A s \in Reqs \ {r} : /\ pc'[s] = pc[s] /\ tok'[s] = tok[s]
                                 /\ cand'[s] = cand[s] /\ todo'[s] = todo[s]
                                 /\ locks'[s] = locks[s]
    <3>1. locks[r] = {} /\ todo[r] = {} /\ cand[r] = {}
      BY IdleHoldsNothing
    <3> QED
      BY <3>1 DEF TypeOK
  <2> QED
    BY <2>1, RevokeElsewhere DEF Revoking
<1>5. PendingInv' /\ PendingStep
  BY DEF TypeOK, PendingInv, PendingStep, Pending
<1> QED
  BY <1>1, <1>2, <1>3, <1>4, <1>5, LocalStep DEF TypeOK

(* The CAS takes a lock no other transaction has, on an active row. *)
LEMMA CasWinKeeps ==
  ASSUME IInv, NEW r \in Reqs, CasWin(r)
  PROVE  IInv'
<1> USE NoneAssumption DEF IInv, CasWin, Goto, db
<1>1. tok[r] \in Tokens /\ locks[r] = {}
  BY DEF RequestInv, LockInv, Rotating, Revoking
<1>2. TypeOK'
  BY <1>1 DEF TypeOK, Pcs
<1>3. RequestInv'
  BY DEF TypeOK, RequestInv
<1>4. LockInv'
  BY <1>1 DEF TypeOK, LockInv, Rotating, Revoking, Active, Locked
<1>5. RevokeInv'
  BY DEF TypeOK, RevokeInv, Revoking, Stored, FamilyOf, LiveOf, Active
<1>6. PendingInv' /\ PendingStep
  BY DEF TypeOK, PendingInv, PendingStep, Pending
<1> QED
  BY <1>2, <1>3, <1>4, <1>5, <1>6, LocalStep

(* A lost CAS, on a token that is revoked or not stored. *)
LEMMA CasMissKeeps ==
  ASSUME IInv, NEW r \in Reqs, CasMiss(r)
  PROVE  IInv'
<1>1. CASE status[tok[r]] = "absent" /\ Return(r, Failed)
  BY <1>1, RollbackKeeps DEF CasMiss
<1>2. CASE /\ status[tok[r]] = "revoked" /\ Goto(r, "grace")
           /\ UNCHANGED <<node, tok, jkt, new, cand, todo, locks, out>>
  <2> USE <1>2, NoneAssumption DEF IInv, CasMiss, Goto, db
  <2>1. TypeOK'
    BY DEF TypeOK, Pcs
  <2>2. RequestInv'
    BY DEF TypeOK, RequestInv
  <2>3. LockInv'
    BY DEF TypeOK, LockInv, Rotating, Revoking
  <2>4. RevokeInv'
    BY DEF TypeOK, RevokeInv, Revoking, Stored, FamilyOf, LiveOf, Active
  <2>5. PendingInv' /\ PendingStep
    BY DEF TypeOK, PendingInv, PendingStep, Pending
  <2> QED
    BY <2>1, <2>2, <2>3, <2>4, <2>5, LocalStep
<1> QED
  BY <1>1, <1>2 DEF CasMiss

LEMMA GraceMissKeeps ==
  ASSUME IInv, NEW r \in Reqs, GraceMiss(r)
  PROVE  IInv'
<1> USE NoneAssumption DEF IInv, GraceMiss, Goto, db
<1>1. TypeOK'
  BY DEF TypeOK, Pcs
<1>2. RequestInv'
  BY DEF TypeOK, RequestInv
<1>3. LockInv'
  BY DEF TypeOK, LockInv, Rotating, Revoking
<1>4. RevokeInv'
  BY DEF TypeOK, RevokeInv, Revoking, Stored, FamilyOf, LiveOf, Active
<1>5. PendingInv' /\ PendingStep
  BY DEF TypeOK, PendingInv, PendingStep, Pending
<1> QED
  BY <1>1, <1>2, <1>3, <1>4, <1>5, LocalStep

(* The snapshot of the family UPDATE has at most one row because the family  *)
(* has at most one live token.                                               *)
LEMMA FamilySnapshotKeeps ==
  ASSUME IInv, NEW r \in Reqs, FamilySnapshot(r)
  PROVE  IInv'
<1> USE NoneAssumption DEF IInv, FamilySnapshot, Goto, db
<1>1. /\ tok[r] \in Stored /\ row[tok[r]].fam \in Families
      /\ LiveOf(row[tok[r]].fam) \subseteq Tokens
  BY DEF RequestInv, RowInv, Stored, LiveOf, FamilyOf
<1>2. TypeOK'
  BY <1>1 DEF TypeOK, Pcs
<1>3. RequestInv'
  BY DEF TypeOK, RequestInv
<1>4. LockInv' /\ locks[r] = {}
  BY DEF TypeOK, LockInv, Rotating, Revoking
<1>5. RevokeInv'
  <2>1. \A a, b \in LiveOf(row[tok[r]].fam) : a = b
    BY <1>1 DEF OneActivePerFamily
  <2>2. \A f : FamilyOf(f)' = FamilyOf(f) /\ LiveOf(f)' = LiveOf(f)
    BY DEF Stored, FamilyOf, LiveOf, Active
  <2>3. \A a \in LiveOf(row[tok[r]].fam) : a \in FamilyOf(row[tok[r]].fam)
    BY DEF LiveOf
  <2> QED
    BY <1>4, <2>1, <2>2, <2>3 DEF TypeOK, RevokeInv, Revoking
<1>6. PendingInv' /\ PendingStep
  BY DEF TypeOK, PendingInv, PendingStep, Pending
<1> QED
  BY <1>2, <1>3, <1>4, <1>5, <1>6, LocalStep

(* A multi-row UPDATE locks an active row nobody holds, or skips the row. *)
LEMMA RevokeRowKeeps ==
  ASSUME IInv, NEW r \in Reqs, NEW t \in Tokens, RevokeRow(r, t)
  PROVE  IInv'
<1> USE NoneAssumption DEF IInv, RevokeRow, db
<1>1. TypeOK'
  BY DEF TypeOK
<1>2. RequestInv'
  BY DEF TypeOK, RequestInv
<1>3. LockInv'
  BY DEF TypeOK, LockInv, Rotating, Revoking, Active, Locked
<1>4. RevokeInv'
  <2>1. \A f : FamilyOf(f)' = FamilyOf(f) /\ LiveOf(f)' = LiveOf(f)
    BY DEF Stored, FamilyOf, LiveOf, Active
  <2>2. ASSUME NEW s \in Reqs, s # r
        PROVE  locks'[s] = locks[s] /\ todo'[s] = todo[s]
    BY <2>2 DEF TypeOK
  <2>3. /\ todo'[r] = todo[r] \ {t}
        /\ locks'[r] = locks[r] \cup {t} \/ locks'[r] = locks[r]
    BY DEF TypeOK
  <2>4. /\ locks'[r] \subseteq cand[r] /\ todo'[r] \subseteq cand[r]
        /\ locks'[r] \cap todo'[r] = {}
    BY <2>3 DEF RevokeInv, Revoking
  <2> QED
    BY <2>1, <2>2, <2>4 DEF RevokeInv, Revoking
<1>5. PendingInv' /\ PendingStep
  BY DEF TypeOK, PendingInv, PendingStep, Pending
<1> QED
  BY <1>1, <1>2, <1>3, <1>4, <1>5, LocalStep

LEMMA CheckKeeps ==
  ASSUME IInv, NEW r \in Reqs, Check(r)
  PROVE  IInv'
<1>1. CASE row[tok[r]].exp <= now \/ row[tok[r]].jkt # jkt[r]
  BY <1>1, RollbackKeeps DEF Check
<1>2. CASE ~(row[tok[r]].exp <= now \/ row[tok[r]].jkt # jkt[r])
  <2> USE <1>2, NoneAssumption DEF IInv, Check, Goto, db
  <2>1. TypeOK'
    BY DEF TypeOK, Pcs
  <2>2. RequestInv'
    BY DEF TypeOK, RequestInv
  <2>3. LockInv'
    BY DEF TypeOK, LockInv, Rotating, Revoking
  <2>4. RevokeInv'
    BY DEF TypeOK, RevokeInv, Revoking, Stored, FamilyOf, LiveOf, Active
  <2>5. PendingInv' /\ PendingStep
    BY DEF TypeOK, PendingInv, PendingStep, Pending
  <2> QED
    BY <2>1, <2>2, <2>3, <2>4, <2>5, LocalStep
<1> QED
  BY <1>1, <1>2

(* The uncommitted row is a secret that was never generated before. *)
LEMMA InsertKeeps ==
  ASSUME IInv, NEW r \in Reqs, Insert(r)
  PROVE  IInv'
<1>1. CASE Return(r, Failed) /\ UNCHANGED used
  BY <1>1, RollbackKeeps DEF Insert, db
<1>2. ASSUME NEW t \in Tokens \ used, pc[r] = "user",
             new' = [new EXCEPT ![r] = t], used' = used \cup {t}, Goto(r, "cache"),
             UNCHANGED <<node, tok, jkt, cand, todo, locks, out>>,
             UNCHANGED <<status, row, deleted, now, grace>>
      PROVE  IInv'
  <2> USE <1>2, NoneAssumption DEF IInv, Goto
  <2>1. TypeOK'
    BY DEF TypeOK, Pcs
  <2>2. RequestInv'
    BY DEF TypeOK, RequestInv
  <2>3. LockInv'
    BY DEF TypeOK, LockInv, Rotating, Revoking
  <2>4. RevokeInv'
    BY DEF TypeOK, RevokeInv, Revoking, Stored, FamilyOf, LiveOf, Active
  <2>5. t \notin Stored /\ status[t] = "absent" /\ \A s \in Reqs : new[s] # t
    BY DEF RowInv, Stored, PendingInv, Pending, TypeOK
  <2>6. PendingInv' /\ PendingStep
    BY <2>5 DEF TypeOK, PendingInv, PendingStep, Pending
  <2>7. StoreStep
    BY NoCommit
  <2>8. RowsInv'
    BY RowsKept DEF RowsInv
  <2>9. GraceInv' /\ AnswerInv'
    BY <2>6, <2>7, GraceKept, AnswersKept
  <2> QED
    BY <2>1, <2>2, <2>3, <2>4, <2>6, <2>8, <2>9 DEF RowsInv
<1> QED
  BY <1>1, <1>2 DEF Insert

(* What is cached is the request's own uncommitted row. *)
LEMMA GraceInsertKeeps ==
  ASSUME IInv, NEW r \in Reqs, GraceInsert(r)
  PROVE  IInv'
<1> USE NoneAssumption DEF IInv, GraceInsert, Goto, db
<1>1. /\ node[r] \in Nodes /\ tok[r] \in Tokens /\ new[r] \in used
      /\ new[r] \in Tokens /\ status[new[r]] = "absent"
      /\ status[tok[r]] = "active" /\ jkt[r] = row[tok[r]].jkt
  BY DEF RequestInv, PendingInv, Pending, TypeOK, LockInv, Rotating
<1> DEFINE e == [repl |-> new[r], jkt |-> jkt[r], until |-> now + GracePeriod]
<1>2. e \in Entry
  BY <1>1, TimeAssumption DEF Entry, TypeOK
<1>3. ASSUME NEW n \in Nodes, NEW t \in Tokens
      PROVE  grace'[n][t] = IF n = node[r] /\ t = tok[r] THEN e ELSE grace[n][t]
  BY <1>1 DEF TypeOK
<1> HIDE DEF e
<1>4. TypeOK'
  <2>1. grace' \in [Nodes -> [Tokens -> Entry]]
    BY <1>1, <1>2 DEF TypeOK, e
  <2> QED
    BY <2>1 DEF TypeOK, Pcs
<1>5. RequestInv'
  BY DEF TypeOK, RequestInv
<1>6. LockInv'
  BY DEF TypeOK, LockInv, Rotating, Revoking
<1>7. RevokeInv'
  BY RevokeKept DEF TypeOK, Revoking
<1>8. PendingInv' /\ PendingStep
  BY DEF TypeOK, PendingInv, PendingStep, Pending
<1>9. StoreStep /\ RowsInv'
  BY NoCommit, RowsKept DEF RowsInv
<1>10. GraceInv'
  <2> SUFFICES ASSUME NEW n \in Nodes, NEW t \in Tokens, grace'[n][t].repl # None
               PROVE  /\ t \in Stored' /\ grace'[n][t].jkt = row'[t].jkt
                      /\ SuccessorOrVoidNext(grace'[n][t].repl, t)
    BY DEF GraceInv, SuccessorOrVoid, SuccessorOrVoidNext
  <2>1. CASE n = node[r] /\ t = tok[r]
    <3>1. grace'[n][t] = e
      BY <1>3, <2>1
    <3>2. \A s \in Reqs : new[s] = new[r] => s = r
      BY <1>1 DEF PendingInv
    <3> QED
      BY <2>1, <3>1, <3>2, <1>1 DEF e, SuccessorOrVoidNext, Stored
  <2>2. CASE ~(n = node[r] /\ t = tok[r])
    <3>1. grace'[n][t] = grace[n][t]
      BY <1>3, <2>2
    <3> QED
      BY <3>1, <1>8, <1>9, VoidKept DEF GraceInv, StoreStep
  <2> QED
    BY <2>1, <2>2
<1>11. AnswerInv'
  BY <1>8, <1>9, AnswersKept
<1> QED
  BY <1>4, <1>5, <1>6, <1>7, <1>8, <1>9, <1>10, <1>11 DEF RowsInv

(* A cached pair handed out has been right since it was cached. *)
LEMMA GraceHitKeeps ==
  ASSUME IInv, NEW r \in Reqs, GraceHit(r)
  PROVE  IInv'
<1> USE NoneAssumption DEF IInv, GraceHit, Return, Ans, db
<1>1. /\ node[r] \in Nodes /\ tok[r] \in Tokens
      /\ grace[node[r]][tok[r]] \in Entry
      /\ grace[node[r]][tok[r]].repl # None
  BY DEF RequestInv, TypeOK, Cached
<1> DEFINE e == grace[node[r]][tok[r]]
<1>2. /\ tok[r] \in Stored /\ e.jkt = row[tok[r]].jkt
      /\ SuccessorOrVoid(e.repl, tok[r])
  BY <1>1 DEF GraceInv
<1>3. /\ out'[r] = [kind |-> "grace", old |-> tok[r], proof |-> jkt[r],
                    tok |-> e.repl, jkt |-> e.jkt]
      /\ \A s \in Reqs \ {r} : out'[s] = out[s]
  BY DEF TypeOK
<1>4. TypeOK'
  BY <1>1 DEF TypeOK, Answer, Kinds, Pcs, Entry
<1> HIDE DEF e
<1>5. RequestInv'
  BY DEF TypeOK, RequestInv
<1>6. LockInv'
  BY DEF TypeOK, LockInv, Rotating, Revoking
<1>7. RevokeInv'
  BY DEF TypeOK, RevokeInv, Revoking, Stored, FamilyOf, LiveOf, Active
<1>8. PendingInv' /\ PendingStep
  BY DEF TypeOK, PendingInv, PendingStep, Pending
<1>9. StoreStep /\ RowsInv'
  BY NoCommit, RowsKept DEF RowsInv
<1>10. GraceInv'
  BY <1>8, <1>9, GraceKept
<1>11. AnswerInv'
  <2> SUFFICES ASSUME NEW s \in Reqs, out'[s].kind \in {"rotated", "grace"}
               PROVE  /\ out'[s].old \in Stored' /\ out'[s].jkt = row'[out'[s].old].jkt
                      /\ out'[s].kind = "rotated" => out'[s].tok \in Stored'
                      /\ SuccessorOrVoidNext(out'[s].tok, out'[s].old)
    BY DEF AnswerInv, SuccessorOrVoid, SuccessorOrVoidNext
  <2>1. CASE s = r
    <3>1. SuccessorOrVoidNext(e.repl, tok[r])
      BY <1>1, <1>2, <1>8, <1>9, VoidKept DEF e
    <3>2. Stored' = Stored /\ row' = row
      BY DEF Stored
    <3>3. out'[r].kind = "grace" /\ out'[r].old = tok[r]
          /\ out'[r].tok = e.repl /\ out'[r].jkt = e.jkt
      BY <1>3
    <3> QED
      BY <2>1, <3>1, <3>2, <3>3, <1>2
  <2>2. CASE s # r
    <3>1. out'[s] = out[s]
      BY <2>2, <1>3
    <3>2. out[s].tok # None
      BY <3>1 DEF AnswerInv, SuccessorOrVoid, TypeOK
    <3> QED
      BY <3>1, <3>2, <1>8, <1>9, VoidKept DEF AnswerInv, StoreStep
  <2> QED
    BY <2>1, <2>2
<1> QED
  BY <1>4, <1>5, <1>6, <1>7, <1>8, <1>9, <1>10, <1>11 DEF RowsInv

(* What the commit of a rotation from o to w does to the tokens.  *)
Rotation(r, o, w) ==
  /\ o \in Tokens /\ status[o] = "active" /\ locks[r] = {o} /\ o \in Stored
  /\ w \in Tokens /\ w \in used /\ status[w] = "absent" /\ w \notin Stored
  /\ o = tok[r] /\ w = new[r] /\ o # w /\ jkt[r] = row[o].jkt
  /\ status'[o] = "revoked" /\ status'[w] = "active"
  /\ \A t \in Tokens \ {o, w} : status'[t] = status[t]
  /\ status' \in [Tokens -> Statuses]
  /\ row'[w].fam = row[o].fam /\ row'[w].user = row[o].user
  /\ row'[w].jkt = row[o].jkt /\ row'[w].exp = row[o].exp /\ row'[w].parent = o
  /\ \A t \in Tokens \ {w} : row'[t] = row[t]
  /\ row' \in [Tokens -> Row]
  /\ Stored' = Stored \cup {w}

(* The family's one live token is o before the commit and w after it. *)
FamilyRotation(o, w) ==
  /\ row[o].fam \in Families /\ o \in LiveOf(row[o].fam) /\ LiveOf(row[o].fam) \subseteq {o}
  /\ \A f, t :
       /\ t \in FamilyOf(f)' <=> t \in FamilyOf(f) \/ (t = w /\ f = row[o].fam)
       /\ t \in LiveOf(f)' <=> (t \in LiveOf(f) /\ t # o) \/ (t = w /\ f = row[o].fam)

LEMMA RotationEffect ==
  ASSUME IInv, NEW r \in Reqs, RefreshCommit(r), NEW o, NEW w, o = tok[r], w = new[r]
  PROVE  Rotation(r, o, w) /\ FamilyRotation(o, w)
<1>1. /\ o \in Tokens /\ status[o] = "active" /\ locks[r] = {o}
      /\ w \in Tokens /\ w \in used /\ status[w] = "absent" /\ o # w
      /\ jkt[r] = row[o].jkt
  BY NoneAssumption DEF IInv, RefreshCommit, RequestInv, PendingInv, Pending, TypeOK,
                        LockInv, Rotating
<1>2. row[o] \in Row /\ row[o].jkt = jkt[r]
  BY <1>1 DEF IInv, TypeOK
<1>3. /\ status'[o] = "revoked" /\ status'[w] = "active"
      /\ \A t \in Tokens \ {o, w} : status'[t] = status[t]
      /\ status' \in [Tokens -> Statuses]
  BY <1>1 DEF IInv, RefreshCommit, TypeOK, Statuses
<1>4. /\ row'[w] = [row[o] EXCEPT !.jkt = jkt[r], !.parent = o]
      /\ \A t \in Tokens \ {w} : row'[t] = row[t]
      /\ row' \in [Tokens -> Row]
  BY <1>1, <1>2 DEF IInv, RefreshCommit, TypeOK, Row
<1>5. /\ row'[w].fam = row[o].fam /\ row'[w].user = row[o].user
      /\ row'[w].jkt = row[o].jkt /\ row'[w].exp = row[o].exp /\ row'[w].parent = o
  BY <1>2, <1>4 DEF Row
<1>6. Stored' = Stored \cup {w} /\ o \in Stored /\ w \notin Stored
  BY <1>1, <1>3 DEF Stored
<1>7. \A f, t : /\ t \in FamilyOf(f)' <=> t \in FamilyOf(f) \/ (t = w /\ f = row[o].fam)
                /\ t \in LiveOf(f)' <=> (t \in LiveOf(f) /\ t # o) \/ (t = w /\ f = row[o].fam)
  <2> TAKE f, t
  <2>1. t \in FamilyOf(f)' <=> t \in FamilyOf(f) \/ (t = w /\ f = row[o].fam)
    BY <1>1, <1>4, <1>5, <1>6 DEF FamilyOf, Stored
  <2>2. t \in Tokens => (status'[t] = "active" <=> (status[t] = "active" /\ t # o) \/ t = w)
    BY <1>1, <1>3
  <2>3. w \in FamilyOf(f)' <=> f = row[o].fam
    BY <1>6, <1>5 DEF FamilyOf
  <2> QED
    BY <1>1, <2>1, <2>2, <2>3 DEF LiveOf, FamilyOf, Active, Stored
<1>8. row[o].fam \in Families /\ o \in LiveOf(row[o].fam) /\ LiveOf(row[o].fam) \subseteq {o}
  BY <1>1, <1>6 DEF IInv, RowInv, OneActivePerFamily, LiveOf, FamilyOf, Active
<1> QED
  BY <1>1, <1>3, <1>4, <1>5, <1>6, <1>7, <1>8 DEF Rotation, FamilyRotation

(* A committed rotation: the live token of the family is replaced, and the   *)
(* new row can be nothing but the successor of the old one.                  *)
LEMMA RefreshCommitKeeps ==
  ASSUME IInv, NEW r \in Reqs, RefreshCommit(r)
  PROVE  IInv'
<1>0. PICK o, w : o = tok[r] /\ w = new[r]
  OBVIOUS
<1>1. Rotation(r, o, w)
  BY <1>0, RotationEffect
<1>2. FamilyRotation(o, w)
  BY <1>0, RotationEffect
<1>3. PICK a \in Answer :
        /\ Return(r, a) /\ UNCHANGED <<used, deleted, now, grace>>
        /\ a = Failed \/ a = [kind |-> "rotated", old |-> o, proof |-> jkt[r],
                              tok |-> w, jkt |-> jkt[r]]
  BY <1>1, NoneAssumption DEF RefreshCommit, Ans, Failed, Answer, Kinds, IInv, TypeOK, Rotation
<1>4. /\ pc'[r] = "idle" /\ new'[r] = None /\ cand'[r] = {} /\ todo'[r] = {}
       /\ locks'[r] = {} /\ node'[r] = None /\ out'[r] = a
       /\ \A s \in Reqs \ {r} :
             /\ pc'[s] = pc[s] /\ new'[s] = new[s] /\ cand'[s] = cand[s]
             /\ todo'[s] = todo[s] /\ locks'[s] = locks[s] /\ node'[s] = node[s]
             /\ tok'[s] = tok[s] /\ jkt'[s] = jkt[s] /\ out'[s] = out[s]
  BY <1>3 DEF Return, IInv, TypeOK
<1>5. TypeOK'
  BY <1>1, <1>3, NoneAssumption DEF Return, IInv, TypeOK, Pcs, Rotation
<1>6. RequestInv'
  <2>1. ASSUME NEW s \in Reqs, s # r
        PROVE  /\ pc[s] \in {"grace", "reuse", "revoke"} => status'[tok[s]] = "revoked"
               /\ pc[s] \in {"user", "cache", "commit"} => jkt[s] = row'[tok[s]].jkt
    <3>1. CASE pc[s] \in {"grace", "reuse", "revoke"}
      BY <1>1, <3>1 DEF IInv, RequestInv, Rotation
    <3>2. CASE pc[s] \in {"user", "cache", "commit"}
      <4>1. tok[s] \in Tokens /\ status[tok[s]] = "active"
        BY <3>2 DEF IInv, RequestInv, LockInv, Rotating
      <4> QED
        BY <1>1, <3>2, <4>1 DEF IInv, RequestInv, Rotation
    <3> QED
      BY <3>1, <3>2
  <2> QED
    BY <2>1, <1>4 DEF IInv, RequestInv
<1>7. LockInv'
  <2>1. \A s \in Reqs \ {r} : \A t \in locks[s] :
           t \in Tokens /\ t # o /\ t # w /\ status'[t] = "active"
    BY <1>1 DEF IInv, TypeOK, LockInv, Rotation
  <2> QED
    BY <2>1, <1>4 DEF IInv, LockInv, Rotating, Revoking
<1>8. RevokeInv'
  <2>1. ASSUME NEW s \in Reqs, s # r, pc[s] = "revoke"
        PROVE  /\ \A b \in cand'[s] : b \in FamilyOf(row[tok[s]].fam)'
               /\ cand'[s] = {} => LiveOf(row[tok[s]].fam)' = {}
    <3>1. PICK f : f = row[tok[s]].fam
      OBVIOUS
    <3>2. row'[tok'[s]].fam = f
      BY <1>1, <2>1, <3>1, <1>4 DEF IInv, RequestInv, Rotation
    <3>3. /\ \A b \in cand[s] : b \in FamilyOf(f)
          /\ cand[s] = {} => LiveOf(f) = {}
      BY <2>1, <3>1 DEF IInv, RevokeInv
    <3>4. /\ \A b \in cand[s] : b \in FamilyOf(f)'
          /\ cand[s] = {} => LiveOf(f)' = {}
      BY <1>2, <3>3 DEF FamilyRotation
    <3> QED
      BY <2>1, <1>4, <3>2, <3>4
  <2> QED
    BY <2>1, <1>4 DEF IInv, RevokeInv, Revoking
<1>9. PendingInv'
  <2>1. ASSUME NEW s \in Reqs, s # r, pc[s] \in Pending
        PROVE  new[s] # w /\ new[s] # o /\ new[s] \in Tokens /\ status'[new[s]] = "absent"
    BY <1>1, <2>1, NoneAssumption DEF IInv, TypeOK, PendingInv, Rotation
  <2> QED
    BY <2>1, <1>3, <1>4 DEF IInv, PendingInv, Pending
<1>10. PendingStep /\ StoreStep
  <2>1. PendingStep
    BY <1>4 DEF PendingStep
  <2>2. \A t \in Stored : t \in Tokens /\ t # w /\ row'[t] = row[t]
    BY <1>1 DEF Stored, Rotation
  <2> QED
    BY <1>1, <2>1, <2>2, <1>3 DEF StoreStep, Rotation
<1>11. RowInv'
  <2>1. \A t \in Stored : t \in Tokens /\ t # w /\ row'[t] = row[t]
    BY <1>1 DEF Stored, Rotation
  <2>2. \A t \in Stored : row[t].parent # None =>
           /\ row[t].parent \in Tokens /\ row[t].parent # o /\ row[t].parent # w
           /\ status[row[t].parent] = "revoked"
    BY <1>1, <2>1 DEF IInv, TypeOK, Row, RowInv, Rotation
  <2>3. \A t \in Stored : row'[t].parent # None =>
           /\ status'[row'[t].parent] = "revoked"
           /\ row'[row'[t].parent].fam = row'[t].fam
    BY <1>1, <2>1, <2>2 DEF IInv, RowInv, Rotation
  <2>4. /\ row'[w].fam \in Families /\ row'[w].user \in Users /\ row'[w].jkt \in Jkts
        /\ status'[row'[w].parent] = "revoked"
        /\ row'[row'[w].parent].fam = row'[w].fam
    BY <1>1 DEF IInv, RowInv, Rotation
  <2> QED
    BY <1>1, <2>1, <2>3, <2>4, <1>3 DEF IInv, RowInv, Rotation
<1>12. OneActivePerFamily'
  BY <1>2 DEF IInv, OneActivePerFamily, FamilyRotation
<1>13. SingleSuccessor'
  <2>1. \A t \in Stored : /\ row'[t] = row[t]
                          /\ row[t].parent # o
    BY <1>1, NoneAssumption DEF IInv, RowInv, Stored, Rotation
  <2> QED
    BY <1>1, <2>1 DEF IInv, SingleSuccessor, Rotation
<1>14. FamilyUniform'
  <2>1. \A t \in Stored : row'[t] = row[t]
    BY <1>1 DEF Stored, Rotation
  <2> QED
    BY <1>1, <2>1 DEF IInv, FamilyUniform, Rotation
<1>15. GraceInv'
  BY <1>3, <1>10, GraceKept DEF IInv
<1>16. AnswerInv'
  <2> SUFFICES ASSUME NEW s \in Reqs, out'[s].kind \in {"rotated", "grace"}
               PROVE  /\ out'[s].old \in Stored' /\ out'[s].jkt = row'[out'[s].old].jkt
                      /\ out'[s].kind = "rotated" => out'[s].tok \in Stored'
                      /\ SuccessorOrVoidNext(out'[s].tok, out'[s].old)
    BY DEF AnswerInv, SuccessorOrVoid, SuccessorOrVoidNext
  <2>1. CASE s = r
    <3>1. /\ out'[r].kind = "rotated" /\ out'[r].old = o /\ out'[r].tok = w
          /\ out'[r].jkt = jkt[r]
      BY <2>1, <1>3, <1>4 DEF Failed
    <3>2. \A q \in Reqs : new'[q] # w
      BY <1>1, <1>4, NoneAssumption DEF IInv, PendingInv, Rotation
    <3> QED
      BY <1>1, <2>1, <3>1, <3>2, <1>3 DEF SuccessorOrVoidNext, Rotation
  <2>2. CASE s # r
    <3>1. out'[s] = out[s]
      BY <2>2, <1>4
    <3>2. out[s].tok # None
      BY <3>1, NoneAssumption DEF IInv, AnswerInv, SuccessorOrVoid, TypeOK
    <3> QED
      BY <3>1, <3>2, <1>10, VoidKept DEF IInv, AnswerInv, StoreStep
  <2> QED
    BY <2>1, <2>2
<1> QED
  BY <1>5, <1>6, <1>7, <1>8, <1>9, <1>11, <1>12, <1>13, <1>14, <1>15, <1>16
     DEF IInv

(* A request commits the revocation of active rows no other one has locked,  *)
(* and hands out nothing.                                                    *)
LEMMA RevocationKeeps ==
  ASSUME IInv, NEW r \in Reqs, NEW S \in SUBSET Tokens, NEW a \in Answer,
         \A t \in S : status[t] = "active",
         \A s \in Reqs \ {r} : locks[s] \cap S = {},
         status' = [t \in Tokens |-> IF t \in S THEN "revoked" ELSE status[t]],
         Return(r, a), a.kind \notin {"rotated", "grace"},
         UNCHANGED <<row, used, deleted, now, grace>>
  PROVE  IInv'
<1>1. /\ pc'[r] = "idle" /\ new'[r] = None /\ cand'[r] = {} /\ todo'[r] = {}
      /\ locks'[r] = {} /\ node'[r] = None /\ out'[r] = a
      /\ \A s \in Reqs \ {r} :
            /\ pc'[s] = pc[s] /\ new'[s] = new[s] /\ cand'[s] = cand[s]
            /\ todo'[s] = todo[s] /\ locks'[s] = locks[s] /\ node'[s] = node[s]
            /\ tok'[s] = tok[s] /\ jkt'[s] = jkt[s] /\ out'[s] = out[s]
  BY DEF Return, IInv, TypeOK
<1>2. TypeOK'
  BY NoneAssumption DEF Return, IInv, TypeOK, Pcs, Statuses
<1>3. /\ Stored' = Stored
      /\ \A t \in Tokens : status[t] = "revoked" => status'[t] = "revoked"
      /\ \A t \in Tokens : status[t] = "absent" => status'[t] = "absent"
      /\ \A t \in Tokens : status'[t] = "active" => status[t] = "active"
  BY DEF Stored
<1>4. \A f : FamilyOf(f)' = FamilyOf(f) /\ LiveOf(f)' \subseteq LiveOf(f)
  BY <1>3 DEF FamilyOf, LiveOf, Active, Stored
<1>5. RequestInv'
  BY <1>1, <1>3 DEF IInv, RequestInv
<1>6. LockInv'
  <2>1. \A s \in Reqs \ {r} : \A t \in locks[s] : status'[t] = "active"
    BY DEF IInv, TypeOK, LockInv
  <2> QED
    BY <1>1, <2>1 DEF IInv, LockInv, Rotating, Revoking
<1>7. RevokeInv'
  <2>1. ASSUME NEW s \in Reqs, s # r, pc[s] = "revoke"
        PROVE  /\ \A b \in cand'[s] : b \in FamilyOf(row[tok[s]].fam)'
               /\ cand'[s] = {} => LiveOf(row[tok[s]].fam)' = {}
    <3>1. PICK f : f = row[tok[s]].fam
      OBVIOUS
    <3>2. row'[tok'[s]].fam = f
      BY <2>1, <3>1, <1>1
    <3>3. /\ \A b \in cand[s] : b \in FamilyOf(f)'
          /\ cand[s] = {} => LiveOf(f)' = {}
      BY <2>1, <3>1, <1>4 DEF IInv, RevokeInv
    <3> QED
      BY <2>1, <1>1, <3>2, <3>3
  <2>2. ASSUME NEW s \in Reqs
        PROVE  /\ pc'[s] \in Revoking => /\ locks'[s] \subseteq cand'[s]
                                         /\ todo'[s] \subseteq cand'[s]
                                         /\ locks'[s] \cap todo'[s] = {}
               /\ pc'[s] \notin Revoking => todo'[s] = {} /\ cand'[s] = {}
               /\ pc'[s] = "revoke" => \A b, c \in cand'[s] : b = c
    BY <1>1 DEF IInv, RevokeInv, Revoking
  <2>3. \A s \in Reqs : pc'[s] = "revoke" => s # r /\ pc[s] = "revoke"
    BY <1>1
  <2> QED
    BY <2>1, <2>2, <2>3 DEF RevokeInv, Revoking
<1>8. PendingInv'
  <2>1. \A s \in Reqs : pc[s] \in Pending => status'[new[s]] = "absent"
    BY <1>3 DEF IInv, TypeOK, PendingInv
  <2> QED
    BY <1>1, <2>1 DEF IInv, PendingInv, Pending
<1>9. RowInv'
  BY <1>3, NoneAssumption DEF IInv, TypeOK, Row, RowInv, Stored
<1>10. OneActivePerFamily' /\ SingleSuccessor' /\ FamilyUniform'
  BY <1>3, <1>4 DEF IInv, OneActivePerFamily, SingleSuccessor, FamilyUniform
<1>11. StoreStep /\ PendingStep
  BY <1>1, <1>3 DEF StoreStep, PendingStep
<1>12. GraceInv' /\ AnswerInv'
  BY <1>1, <1>11, GraceKept, AnswersKept DEF IInv
<1> QED
  BY <1>2, <1>5, <1>6, <1>7, <1>8, <1>9, <1>10, <1>12 DEF IInv

(* The multi-row UPDATE commits: it revokes the rows it has locked. *)
LEMMA RevokeCommitKeeps ==
  ASSUME IInv, NEW r \in Reqs, RevokeCommit(r)
  PROVE  IInv'
<1>1. PICK a \in Answer : Return(r, a) /\ a.kind \notin {"rotated", "grace"}
  <2>1. Failed \in Answer /\ Failed.kind \notin {"rotated", "grace"}
    BY DEF Failed, Answer, Kinds
  <2>2. /\ Ans(r, "reuse", None, None) \in Answer
        /\ Ans(r, "reuse", None, None).kind \notin {"rotated", "grace"}
    BY DEF Ans, Answer, Kinds, IInv, TypeOK
  <2> QED
    BY <2>1, <2>2 DEF RevokeCommit
<1>2. /\ locks[r] \in SUBSET Tokens
      /\ \A t \in locks[r] : status[t] = "active"
      /\ \A s \in Reqs \ {r} : locks[s] \cap locks[r] = {}
  BY DEF IInv, TypeOK, LockInv
<1> QED
  BY <1>1, <1>2, RevocationKeeps DEF RevokeCommit

(* The logout's UPDATE finds its row free, or not active. *)
LEMMA LogoutStmtKeeps ==
  ASSUME IInv, NEW r \in Reqs, LogoutStmt(r)
  PROVE  IInv'
<1>1. PICK a \in Answer : Return(r, a) /\ a.kind \notin {"rotated", "grace"}
  <2>1. Failed \in Answer /\ Failed.kind \notin {"rotated", "grace"}
    BY DEF Failed, Answer, Kinds
  <2>2. /\ Ans(r, "loggedOut", None, None) \in Answer
        /\ Ans(r, "loggedOut", None, None).kind \notin {"rotated", "grace"}
    BY DEF Ans, Answer, Kinds, IInv, TypeOK
  <2> QED
    BY <2>1, <2>2 DEF LogoutStmt
<1>2. PICK S : S = IF status[tok[r]] = "active" THEN {tok[r]} ELSE {}
  OBVIOUS
<1>3. /\ S \in SUBSET Tokens
      /\ \A t \in S : status[t] = "active"
      /\ \A s \in Reqs \ {r} : locks[s] \cap S = {}
  BY <1>2 DEF LogoutStmt, Active, Locked, IInv, RequestInv
<1>4. status' = [t \in Tokens |-> IF t \in S THEN "revoked" ELSE status[t]]
  BY <1>2 DEF LogoutStmt, Active, IInv, TypeOK
<1> QED
  BY <1>1, <1>3, <1>4, RevocationKeeps DEF LogoutStmt

(* A new session: a family and a secret nobody has seen. *)
LEMMA OpenSessionKeeps ==
  ASSUME IInv, NEW u \in Users, NEW k \in Jkts, NEW g \in Families, NEW w \in Tokens,
         OpenSession(u, k, g, w)
  PROVE  IInv'
<1> DEFINE x == [fam |-> g, user |-> u, jkt |-> k, exp |-> now + RefreshTTL, parent |-> None]
<1>1. x \in Row
  BY TimeAssumption DEF Row, IInv, TypeOK
<1>2. /\ w \notin used /\ w \notin Stored /\ status[w] = "absent"
      /\ FamilyOf(g) = {} /\ used' = used \cup {w}
      /\ UNCHANGED <<deleted, now, grace>>
      /\ UNCHANGED <<pc, node, tok, jkt, new, cand, todo, locks, out>>
  BY DEF OpenSession, reqVars, IInv, RowInv, Stored
<1>3. /\ status'[w] = "active" /\ row'[w] = x
      /\ \A t \in Tokens \ {w} : status'[t] = status[t] /\ row'[t] = row[t]
      /\ status' \in [Tokens -> Statuses] /\ row' \in [Tokens -> Row]
  BY <1>1 DEF OpenSession, IInv, TypeOK, Statuses
<1>4. /\ x.fam = g /\ x.user = u /\ x.jkt = k /\ x.parent = None
  OBVIOUS
<1> HIDE DEF x
<1>5. Stored' = Stored \cup {w} /\ \A t \in Stored : t \in Tokens /\ t # w /\ row'[t] = row[t]
  BY <1>2, <1>3 DEF Stored
<1>6. \A f, t : /\ t \in FamilyOf(f)' <=> t \in FamilyOf(f) \/ (t = w /\ f = g)
                /\ t \in LiveOf(f)' <=> t \in LiveOf(f) \/ (t = w /\ f = g)
  BY <1>2, <1>3, <1>4, <1>5 DEF FamilyOf, LiveOf, Active
<1>7. TypeOK'
  BY <1>2, <1>3 DEF IInv, TypeOK
<1>8. RequestInv'
  <2>1. ASSUME NEW s \in Reqs
        PROVE  /\ pc[s] \in {"grace", "reuse", "revoke"} => status'[tok[s]] = "revoked"
               /\ pc[s] \in {"user", "cache", "commit"} => jkt[s] = row'[tok[s]].jkt
    <3>1. CASE pc[s] \in {"grace", "reuse", "revoke"}
      BY <3>1, <1>2, <1>3 DEF IInv, RequestInv
    <3>2. CASE pc[s] \in {"user", "cache", "commit"}
      <4>1. tok[s] \in Tokens /\ status[tok[s]] = "active"
        BY <3>2 DEF IInv, RequestInv, LockInv, Rotating
      <4> QED
        BY <3>2, <4>1, <1>2, <1>3 DEF IInv, RequestInv
    <3> QED
      BY <3>1, <3>2
  <2> QED
    BY <2>1, <1>2 DEF IInv, RequestInv
<1>9. LockInv'
  <2>1. \A s \in Reqs : \A t \in locks[s] : t \in Tokens /\ t # w /\ status'[t] = "active"
    BY <1>2, <1>3 DEF IInv, TypeOK, LockInv
  <2> QED
    BY <2>1, <1>2 DEF IInv, LockInv
<1>10. RevokeInv'
  <2>1. ASSUME NEW s \in Reqs, pc[s] = "revoke"
        PROVE  /\ \A b \in cand'[s] : b \in FamilyOf(row[tok[s]].fam)'
               /\ cand'[s] = {} => LiveOf(row[tok[s]].fam)' = {}
    <3>1. PICK f : f = row[tok[s]].fam
      OBVIOUS
    <3>2. tok[s] \in FamilyOf(f) /\ row'[tok'[s]].fam = f
      BY <2>1, <3>1, <1>2, <1>5 DEF IInv, RequestInv, FamilyOf, Stored
    <3>3. /\ \A b \in cand[s] : b \in FamilyOf(f)
          /\ cand[s] = {} => LiveOf(f) = {}
      BY <2>1, <3>1 DEF IInv, RevokeInv
    <3>4. /\ \A b \in cand[s] : b \in FamilyOf(f)'
          /\ cand[s] = {} => LiveOf(f)' = {}
      BY <1>2, <1>6, <3>2, <3>3
    <3> QED
      BY <2>1, <1>2, <3>2, <3>4
  <2> QED
    BY <2>1, <1>2 DEF IInv, RevokeInv, Revoking
<1>11. PendingInv'
  <2>1. \A s \in Reqs : pc[s] \in Pending => new[s] \in Tokens /\ status'[new[s]] = "absent"
    BY <1>2, <1>3 DEF IInv, TypeOK, PendingInv
  <2> QED
    BY <2>1, <1>2 DEF IInv, PendingInv
<1>12. RowInv'
  <2>1. \A t \in Stored : row[t].parent # None =>
           /\ row[t].parent \in Tokens /\ row[t].parent # w
           /\ status[row[t].parent] = "revoked"
    BY <1>2, <1>5 DEF IInv, TypeOK, Row, RowInv
  <2>2. \A t \in Stored : row'[t].parent # None =>
           /\ status'[row'[t].parent] = "revoked"
           /\ row'[row'[t].parent].fam = row'[t].fam
    BY <2>1, <1>3, <1>5 DEF IInv, RowInv
  <2> QED
    BY <2>2, <1>2, <1>3, <1>4, <1>5 DEF IInv, RowInv
<1>13. OneActivePerFamily'
  BY <1>2, <1>6 DEF IInv, OneActivePerFamily, LiveOf
<1>14. SingleSuccessor'
  BY <1>3, <1>4, <1>5 DEF IInv, SingleSuccessor
<1>15. FamilyUniform'
  BY <1>2, <1>3, <1>4, <1>5 DEF IInv, FamilyUniform, FamilyOf
<1>16. StoreStep /\ PendingStep
  BY <1>2, <1>5 DEF StoreStep, PendingStep
<1>17. GraceInv' /\ AnswerInv'
  BY <1>2, <1>16, GraceKept, AnswersKept DEF IInv
<1> QED
  BY <1>7, <1>8, <1>9, <1>10, <1>11, <1>12, <1>13, <1>14, <1>15, <1>17 DEF IInv

(* A process dies: its transactions roll back, its cache is empty. *)
LEMMA CrashKeeps ==
  ASSUME IInv, NEW n \in Nodes, Crash(n)
  PROVE  IInv'
<1> USE NoneAssumption DEF IInv, Crash, db
<1>1. TypeOK'
  BY DEF TypeOK, Pcs, NoEntry, Entry
<1>2. RequestInv'
  BY DEF TypeOK, RequestInv
<1>3. LockInv'
  BY DEF TypeOK, LockInv, Rotating, Revoking
<1>4. RevokeInv'
  <2>1. \A f : FamilyOf(f)' = FamilyOf(f) /\ LiveOf(f)' = LiveOf(f)
    BY DEF Stored, FamilyOf, LiveOf, Active
  <2> QED
    BY <2>1 DEF RevokeInv, Revoking
<1>5. PendingInv' /\ PendingStep
  BY DEF TypeOK, PendingInv, PendingStep, Pending
<1>6. StoreStep /\ RowsInv'
  BY NoCommit, RowsKept DEF RowsInv
<1>7. \A m \in Nodes, t \in Tokens : \/ grace'[m][t] = grace[m][t]
                                     \/ grace'[m][t].repl = None
  BY DEF TypeOK, NoEntry
<1>8. GraceInv' /\ AnswerInv'
  BY <1>5, <1>6, <1>7, GraceKept, AnswersKept
<1> QED
  BY <1>1, <1>2, <1>3, <1>4, <1>5, <1>6, <1>8 DEF RowsInv

LEMMA GraceEvictKeeps ==
  ASSUME IInv, NEW n \in Nodes, NEW t \in Tokens, GraceEvict(n, t)
  PROVE  IInv'
<1> USE NoneAssumption DEF IInv, GraceEvict, db, reqVars
<1>1. TypeOK'
  BY DEF TypeOK, NoEntry, Entry
<1>2. RequestInv' /\ LockInv' /\ PendingInv' /\ PendingStep
  BY DEF RequestInv, LockInv, PendingInv, PendingStep
<1>3. RevokeInv'
  BY RevokeKept
<1>4. StoreStep /\ RowsInv'
  BY NoCommit, RowsKept DEF RowsInv
<1>5. \A m \in Nodes, v \in Tokens : \/ grace'[m][v] = grace[m][v]
                                     \/ grace'[m][v].repl = None
  BY DEF TypeOK, NoEntry
<1>6. GraceInv' /\ AnswerInv'
  BY <1>2, <1>4, <1>5, GraceKept, AnswersKept
<1> QED
  BY <1>1, <1>2, <1>3, <1>4, <1>6 DEF RowsInv

(* The clock and the application's soft delete. *)
LEMMA EnvironmentKeeps ==
  ASSUME IInv, Tick \/ \E u \in Users : SoftDelete(u)
  PROVE  IInv'
<1> USE DEF IInv, Tick, SoftDelete, db, reqVars
<1>1. TypeOK'
  BY DEF TypeOK
<1>2. RequestInv' /\ LockInv' /\ PendingInv' /\ PendingStep
  BY DEF RequestInv, LockInv, PendingInv, PendingStep
<1>3. RevokeInv'
  BY RevokeKept
<1> QED
  BY <1>1, <1>2, <1>3, LocalStep

-----------------------------------------------------------------------------
(* The theorems *)

LEMMA NextIInv == IInv /\ [Next]_vars => IInv'
<1> SUFFICES ASSUME IInv, [Next]_vars PROVE IInv'
  OBVIOUS
<1>1. ASSUME NEW r \in Reqs, Call(r) PROVE IInv'
  BY <1>1, BeginRefreshKeeps, BeginLogoutKeeps, BeginRevokeAllKeeps DEF Call
<1>2. ASSUME NEW r \in Reqs, Step(r) PROVE IInv'
  <2>1. CASE CasWin(r) \/ CasMiss(r)
    BY <2>1, CasWinKeeps, CasMissKeeps
  <2>2. CASE GraceHit(r) \/ GraceMiss(r)
    BY <2>2, GraceHitKeeps, GraceMissKeeps
  <2>3. CASE FamilySnapshot(r) \/ RevokeCommit(r)
    BY <2>3, FamilySnapshotKeeps, RevokeCommitKeeps
  <2>4. CASE \E t \in Tokens : RevokeRow(r, t)
    BY <2>4, RevokeRowKeeps
  <2>5. CASE Check(r) \/ Insert(r) \/ GraceInsert(r) \/ RefreshCommit(r)
    BY <2>5, CheckKeeps, InsertKeeps, GraceInsertKeeps, RefreshCommitKeeps
  <2>6. CASE LogoutStmt(r)
    BY <2>6, LogoutStmtKeeps
  <2> QED
    BY <1>2, <2>1, <2>2, <2>3, <2>4, <2>5, <2>6 DEF Step
<1>3. ASSUME NEW r \in Reqs, Abort(r) PROVE IInv'
  BY <1>3, RollbackKeeps DEF Abort
<1>4. CASE Environment
  BY <1>4, OpenSessionKeeps, CrashKeeps, GraceEvictKeeps, EnvironmentKeeps DEF Environment
<1>5. CASE UNCHANGED vars
  <2> USE <1>5 DEF vars, IInv
  <2>1. TypeOK' /\ RequestInv' /\ LockInv' /\ PendingInv' /\ PendingStep
    BY DEF TypeOK, RequestInv, LockInv, PendingInv, PendingStep
  <2>2. RevokeInv'
    BY RevokeKept
  <2> QED
    BY <2>1, <2>2, LocalStep
<1> QED
  BY <1>1, <1>2, <1>3, <1>4, <1>5 DEF Next

(* IInv holds in every reachable state. *)
THEOREM Invariance == Spec => []IInv
  BY InitIInv, NextIInv, PTL DEF Spec

(* Every value stays in its type. *)
THEOREM TypeCorrect == Spec => []TypeOK
  BY Invariance, PTL DEF IInv

(* No interleaving of refreshes, logouts, revocations, rollbacks and crashes *)
(* gives a family two live tokens.                                           *)
THEOREM OneLiveToken == Spec => []OneActivePerFamily
  BY Invariance, PTL DEF IInv

(* The CAS of refresh has one winner: a token is rotated at most once. *)
THEOREM RotatedOnce == Spec => []SingleSuccessor
  BY Invariance, PTL DEF IInv

(* Rotation never changes the user, the key or the expiry of a session. *)
THEOREM SessionIsUniform == Spec => []FamilyUniform
  BY Invariance, PTL DEF IInv

(* Access tokens handed out by refresh are bound to the session's key. *)
THEOREM AnswersAreBound == Spec => []AnswersBoundToFamilyKey
<1>1. IInv => AnswersBoundToFamilyKey
  BY DEF IInv, AnswerInv, AnswersBoundToFamilyKey
<1> QED
  BY <1>1, Invariance, PTL

(* Refresh hands out successors of the token presented, or tokens that are   *)
(* not stored.                                                               *)
THEOREM AnswersSucceed == Spec => []AnswersAreSuccessors
<1>1. IInv => AnswersAreSuccessors
  BY DEF IInv, AnswerInv, AnswersAreSuccessors, SuccessorOrVoid
<1> QED
  BY <1>1, Invariance, PTL

(* Reuse detection that meets no concurrent rotation kills the family. *)
THEOREM ReuseKills == Spec => []ReuseKillsFamilyUnlessRaced
<1>1. IInv => ReuseKillsFamilyUnlessRaced
  <2> SUFFICES ASSUME IInv, NEW r \in Reqs, pc[r] = "revoke", todo[r] = {},
                      cand[r] = locks[r], NEW t \in LiveOf(row[tok[r]].fam)
               PROVE  t \in locks[r]
    BY DEF ReuseKillsFamilyUnlessRaced
  <2>1. PICK f : f = row[tok[r]].fam
    OBVIOUS
  <2>2. PICK c \in cand[r] : c \in FamilyOf(f)
    BY <2>1 DEF IInv, RevokeInv
  <2>3. c \in LiveOf(f)
    BY <2>2 DEF IInv, LockInv, LiveOf, Active
  <2>4. f \in Families
    BY <2>2 DEF IInv, RowInv, FamilyOf
  <2> QED
    BY <2>1, <2>2, <2>3, <2>4 DEF IInv, OneActivePerFamily
<1> QED
  BY <1>1, Invariance, PTL

(* Only bulk revocations can be part of a cycle of lock waits. *)
THEOREM NoHoldAndWait == Spec => []OnlyBulkRevokesHoldAndWait
<1>1. IInv => OnlyBulkRevokesHoldAndWait
  BY DEF IInv, TypeOK, LockInv, RevokeInv, Rotating, Revoking, OnlyBulkRevokesHoldAndWait
<1> QED
  BY <1>1, Invariance, PTL

-----------------------------------------------------------------------------
(* Commits, seen from the families *)

(* A committed revocation of the rows S. *)
Revocation(S) ==
  /\ Stored' = Stored
  /\ row' = row
  /\ \A f : FamilyOf(f)' = FamilyOf(f) /\ LiveOf(f)' = LiveOf(f) \ S

LEMMA RevocationEffect ==
  ASSUME IInv, NEW r \in Reqs, RevokeCommit(r) \/ LogoutStmt(r)
  PROVE  \E S : Revocation(S)
<1>1. PICK S \in SUBSET Tokens :
        /\ row' = row
        /\ \A t \in S : status[t] = "active"
        /\ status' = [t \in Tokens |-> IF t \in S THEN "revoked" ELSE status[t]]
  <2>1. CASE RevokeCommit(r)
    BY <2>1 DEF RevokeCommit, IInv, TypeOK, LockInv
  <2>2. CASE LogoutStmt(r)
    <3>1. PICK S : S = IF status[tok[r]] = "active" THEN {tok[r]} ELSE {}
      OBVIOUS
    <3>2. S \in SUBSET Tokens /\ \A t \in S : status[t] = "active"
      BY <2>2, <3>1 DEF LogoutStmt, IInv, RequestInv
    <3>3. status' = [t \in Tokens |-> IF t \in S THEN "revoked" ELSE status[t]]
      BY <2>2, <3>1 DEF LogoutStmt, Active, IInv, TypeOK
    <3> QED
      BY <2>2, <3>2, <3>3 DEF LogoutStmt
  <2> QED
    BY <2>1, <2>2
<1>2. Stored' = Stored
  BY <1>1 DEF Stored
<1>3. \A f : FamilyOf(f)' = FamilyOf(f)
  BY <1>1, <1>2 DEF FamilyOf
<1>4. \A f : LiveOf(f)' = LiveOf(f) \ S
  BY <1>1, <1>3 DEF LiveOf, FamilyOf, Active, Stored
<1> QED
  BY <1>1, <1>2, <1>3, <1>4 DEF Revocation

(* A new session g with token w. *)
Opening(g, w) ==
  /\ w \in Tokens /\ w \notin used /\ w \notin Stored /\ Stored' = Stored \cup {w}
  /\ \A t \in Stored : row'[t] = row[t]
  /\ g \in Families /\ FamilyOf(g) = {}
  /\ \A f, t : /\ t \in FamilyOf(f)' <=> t \in FamilyOf(f) \/ (t = w /\ f = g)
               /\ t \in LiveOf(f)' <=> t \in LiveOf(f) \/ (t = w /\ f = g)

LEMMA OpeningEffect ==
  ASSUME IInv, NEW u \in Users, NEW k \in Jkts, NEW g \in Families, NEW w \in Tokens,
         OpenSession(u, k, g, w)
  PROVE  Opening(g, w)
<1>1. /\ status'[w] = "active" /\ row'[w].fam = g
      /\ \A t \in Tokens \ {w} : status'[t] = status[t] /\ row'[t] = row[t]
  BY DEF OpenSession, IInv, TypeOK
<1>2. w \notin Stored
  BY DEF OpenSession, IInv, RowInv
<1>3. Stored' = Stored \cup {w} /\ \A t \in Stored : t \in Tokens /\ t # w
  BY <1>1, <1>2 DEF Stored
<1>4. \A f, t : /\ t \in FamilyOf(f)' <=> t \in FamilyOf(f) \/ (t = w /\ f = g)
                /\ t \in LiveOf(f)' <=> t \in LiveOf(f) \/ (t = w /\ f = g)
  BY <1>1, <1>2, <1>3 DEF FamilyOf, LiveOf, Active
<1> QED
  BY <1>1, <1>2, <1>3, <1>4 DEF Opening, OpenSession

(* Every step is a new session, a rotation, a revocation or leaves the table *)
(* as it is.                                                                 *)
LEMMA StepEffect ==
  ASSUME IInv, [Next]_vars
  PROVE  \/ \E g, w : Opening(g, w)
         \/ \E o, w : \E r \in Reqs : Rotation(r, o, w) /\ FamilyRotation(o, w)
         \/ \E S : Revocation(S)
<1>1. CASE \E u \in Users, k \in Jkts, f \in Families, t \in Tokens : OpenSession(u, k, f, t)
  BY <1>1, OpeningEffect
<1>2. CASE \E r \in Reqs : RefreshCommit(r)
  BY <1>2, RotationEffect
<1>3. CASE \E r \in Reqs : RevokeCommit(r) \/ LogoutStmt(r)
  BY <1>3, RevocationEffect
<1>4. CASE UNCHANGED <<status, row>>
  <2>1. Revocation({})
    BY <1>4 DEF Revocation, Stored, FamilyOf, LiveOf, Active
  <2> QED
    BY <2>1
<1>5. ASSUME NEW r \in Reqs, Step(r) PROVE \/ RefreshCommit(r) \/ RevokeCommit(r)
                                            \/ LogoutStmt(r) \/ UNCHANGED <<status, row>>
  BY <1>5 DEF Step, CasWin, CasMiss, GraceHit, GraceMiss, FamilySnapshot, RevokeRow, Check,
              Insert, GraceInsert, db
<1>6. ASSUME NEW r \in Reqs, Call(r) \/ Abort(r) PROVE UNCHANGED <<status, row>>
  BY <1>6 DEF Call, Abort, BeginRefresh, BeginLogout, BeginRevokeAll, db
<1>7. CASE UNCHANGED vars
  BY <1>4, <1>7 DEF vars
<1>8. CASE Environment
  BY <1>1, <1>4, <1>8 DEF Environment, Crash, GraceEvict, SoftDelete, Tick, db
<1> QED
  BY <1>2, <1>3, <1>4, <1>5, <1>6, <1>7, <1>8 DEF Next

(* A family that lost its live token never gets one again. *)
THEOREM DeadStaysDead == Spec => DeadFamilyStaysDead
<1>1. IInv /\ [Next]_vars =>
        [\A f \in Families : FamilyOf(f) # {} /\ LiveOf(f) = {} => LiveOf(f)' = {}]_vars
  <2> SUFFICES ASSUME IInv, [Next]_vars, NEW f \in Families, FamilyOf(f) # {}, LiveOf(f) = {}
               PROVE  LiveOf(f)' = {}
    OBVIOUS
  <2>1. ASSUME NEW g, NEW w, Opening(g, w) PROVE LiveOf(f)' = {}
    BY <2>1 DEF Opening
  <2>2. ASSUME NEW o, NEW w, FamilyRotation(o, w) PROVE LiveOf(f)' = {}
    BY <2>2 DEF FamilyRotation
  <2>3. ASSUME NEW S, Revocation(S) PROVE LiveOf(f)' = {}
    BY <2>3 DEF Revocation
  <2> QED
    BY <2>1, <2>2, <2>3, StepEffect
<1> QED
  BY <1>1, Invariance, PTL DEF Spec, DeadFamilyStaysDead

-----------------------------------------------------------------------------
(* Logout *)

(* A revoked token has been rotated, or its family is dead. *)
ChainInv ==
  \A t \in Stored : status[t] = "revoked" =>
     \/ LiveOf(row[t].fam) = {}
     \/ \E c \in Stored : row[c].parent = t

(* A secret that has left the service: stored, or lost for good. *)
Outside(t) == t \in used /\ \A s \in Reqs : new[s] # t

(* The tokens that logouts present, and those they have revoked. *)
LogoutInv ==
  \A r \in Reqs :
     /\ pc[r] = "logout" => Outside(tok[r])
     /\ out[r].kind = "loggedOut" =>
          Outside(out[r].old) /\ (out[r].old \in Stored => status[out[r].old] = "revoked")

(* What every step does to a logout: it starts with a secret that is         *)
(* outside, keeps it, and is answered when the row is not active.            *)
LogoutStep ==
  \A r \in Reqs :
     /\ \/ pc'[r] # "logout"
        \/ pc[r] = "logout" /\ tok'[r] = tok[r]
        \/ tok'[r] \in used /\ \A s \in Reqs : new'[s] # tok'[r]
     /\ \/ out'[r] = out[r]
        \/ out'[r].kind # "loggedOut"
        \/ pc[r] = "logout" /\ out'[r].old = tok[r] /\ status'[tok[r]] # "active"

CallSteps == used \subseteq used' /\ PendingStep /\ LogoutStep

LEMMA ReturnSteps ==
  ASSUME IInv, NEW r \in Reqs, NEW a, Return(r, a), used' = used,
         a.kind = "loggedOut" => /\ pc[r] = "logout" /\ a.old = tok[r]
                                 /\ status'[tok[r]] # "active"
  PROVE  CallSteps
<1>1. /\ pc'[r] = "idle" /\ new'[r] = None /\ out'[r] = a
      /\ \A s \in Reqs \ {r} : /\ pc'[s] = pc[s] /\ new'[s] = new[s]
                               /\ tok'[s] = tok[s] /\ out'[s] = out[s]
  BY DEF Return, IInv, TypeOK
<1> QED
  BY <1>1 DEF CallSteps, PendingStep, LogoutStep

LEMMA MoveSteps ==
  ASSUME IInv, NEW r \in Reqs, NEW l, l # "logout", Goto(r, l), UNCHANGED <<used, tok, new, out>>
  PROVE  CallSteps
BY DEF Goto, IInv, TypeOK, CallSteps, PendingStep, LogoutStep

LEMMA BeginSteps ==
  ASSUME IInv, NEW r \in Reqs, Call(r)
  PROVE  CallSteps
<1>1. ASSUME NEW n, NEW t, NEW k, NEW l, Begin(r, n, t, k, l), UNCHANGED <<used, new>>,
             l = "logout" => t \in used /\ \A s \in Reqs : new[s] # t
      PROVE  CallSteps
  <2>1. new[r] = None
    BY <1>1 DEF Begin, IInv, PendingInv, Pending
  <2>2. /\ pc'[r] = l /\ tok'[r] = t /\ out'[r].kind # "loggedOut"
        /\ \A s \in Reqs \ {r} : pc'[s] = pc[s] /\ tok'[s] = tok[s] /\ out'[s] = out[s]
    BY <1>1 DEF Begin, Goto, Failed, IInv, TypeOK
  <2> QED
    BY <1>1, <2>1, <2>2 DEF CallSteps, PendingStep, LogoutStep
<1> QED
  BY <1>1 DEF Call, BeginRefresh, BeginLogout, BeginRevokeAll, db

LEMMA LogoutStmtSteps ==
  ASSUME IInv, NEW r \in Reqs, LogoutStmt(r)
  PROVE  CallSteps
<1>1. pc[r] = "logout" /\ used' = used
  BY DEF LogoutStmt
<1>2. status'[tok[r]] # "active"
  <2>1. tok[r] \in Tokens
    BY <1>1 DEF IInv, RequestInv
  <2> QED
    BY <2>1 DEF LogoutStmt, IInv, TypeOK, Active
<1>3. PICK a : Return(r, a) /\ (a.kind = "loggedOut" => a.old = tok[r])
  BY DEF LogoutStmt, Ans, Failed
<1> QED
  BY <1>1, <1>2, <1>3, ReturnSteps

LEMMA RefreshSteps ==
  ASSUME IInv, NEW r \in Reqs, Step(r), ~LogoutStmt(r)
  PROVE  CallSteps
<1> USE DEF db
<1>1. CASE CasWin(r) \/ GraceMiss(r) \/ FamilySnapshot(r) \/ GraceInsert(r)
  BY <1>1, MoveSteps DEF CasWin, GraceMiss, FamilySnapshot, GraceInsert
<1>2. ASSUME NEW t \in Tokens, RevokeRow(r, t) PROVE CallSteps
  BY <1>2 DEF RevokeRow, CallSteps, PendingStep, LogoutStep
<1>3. ASSUME Return(r, Failed), used' = used PROVE CallSteps
  BY <1>3, ReturnSteps DEF Failed
<1>4. CASE CasMiss(r) \/ Check(r)
  BY <1>3, <1>4, MoveSteps DEF CasMiss, Check
<1>5. CASE GraceHit(r) \/ RevokeCommit(r) \/ RefreshCommit(r)
  <2>1. PICK a : Return(r, a) /\ a.kind # "loggedOut"
    BY <1>5 DEF GraceHit, RevokeCommit, RefreshCommit, Ans, Failed
  <2> QED
    BY <1>5, <2>1, ReturnSteps DEF GraceHit, RevokeCommit, RefreshCommit
<1>6. CASE Insert(r)
  <2>1. CASE Return(r, Failed) /\ UNCHANGED used
    BY <1>3, <2>1
  <2>2. CASE ~(Return(r, Failed) /\ UNCHANGED used)
    <3>1. PICK t \in Tokens \ used : new' = [new EXCEPT ![r] = t] /\ used' = used \cup {t}
      BY <1>6, <2>2 DEF Insert
    <3>2. new'[r] \notin used /\ \A s \in Reqs \ {r} : new'[s] = new[s]
      BY <3>1 DEF IInv, TypeOK
    <3>3. UNCHANGED <<tok, out>> /\ Goto(r, "cache")
      BY <1>6, <2>2 DEF Insert
    <3>4. \A s \in Reqs : pc'[s] = "logout" => pc[s] = "logout"
      BY <3>3 DEF Goto, IInv, TypeOK
    <3> QED
      BY <3>1, <3>2, <3>3, <3>4 DEF CallSteps, PendingStep, LogoutStep
  <2> QED
    BY <2>1, <2>2
<1> QED
  BY <1>1, <1>2, <1>4, <1>5, <1>6 DEF Step

LEMMA NextSteps ==
  ASSUME IInv, [Next]_vars
  PROVE  CallSteps
<1>1. ASSUME NEW r \in Reqs, Abort(r) PROVE CallSteps
  BY <1>1, ReturnSteps DEF Abort, Failed, db
<1>2. CASE Environment
  <2>1. ASSUME NEW n \in Nodes, Crash(n) PROVE CallSteps
    BY <2>1 DEF Crash, CallSteps, PendingStep, LogoutStep, db
  <2> QED
    BY <1>2, <2>1 DEF Environment, OpenSession, GraceEvict, SoftDelete, Tick, db, reqVars,
                      CallSteps, PendingStep, LogoutStep
<1>3. CASE UNCHANGED vars
  BY <1>3 DEF vars, CallSteps, PendingStep, LogoutStep
<1> QED
  BY <1>1, <1>2, <1>3, BeginSteps, LogoutStmtSteps, RefreshSteps DEF Next

(* No step un-revokes a row, or stores a secret that was outside. *)
LEMMA NextStore ==
  ASSUME IInv, IInv', [Next]_vars
  PROVE  /\ StoreStep
         /\ \A t \in Stored : status[t] = "revoked" => status'[t] = "revoked"
<1>1. used \subseteq used' /\ status \in [Tokens -> Statuses] /\ status' \in [Tokens -> Statuses]
  BY NextSteps DEF CallSteps, IInv, TypeOK
<1>2. ASSUME NEW t \in Stored, NEW f, t \notin LiveOf(f)', t \in FamilyOf(f)'
      PROVE  status'[t] = "revoked"
  BY <1>1, <1>2 DEF LiveOf, FamilyOf, Stored, Active, Statuses
<1>3. ASSUME NEW t \in Stored, status[t] = "revoked"
      PROVE  t \in FamilyOf(row[t].fam) /\ t \notin LiveOf(row[t].fam)
  BY <1>3 DEF FamilyOf, LiveOf, Active
<1>4. ASSUME NEW g, NEW w, Opening(g, w)
      PROVE  StoreStep /\ \A t \in Stored : status[t] = "revoked" => status'[t] = "revoked"
  <2>1. StoreStep
    BY <1>1, <1>4 DEF Opening, StoreStep
  <2>2. ASSUME NEW t \in Stored, status[t] = "revoked" PROVE status'[t] = "revoked"
    <3>1. PICK f : f = row[t].fam
      OBVIOUS
    <3> QED
      BY <1>2, <1>3, <1>4, <2>2, <3>1 DEF Opening
  <2> QED
    BY <2>1, <2>2
<1>5. ASSUME NEW o, NEW w, NEW r \in Reqs, Rotation(r, o, w)
      PROVE  StoreStep /\ \A t \in Stored : status[t] = "revoked" => status'[t] = "revoked"
  BY <1>1, <1>5 DEF Rotation, StoreStep, Stored
<1>6. ASSUME NEW S, Revocation(S)
      PROVE  StoreStep /\ \A t \in Stored : status[t] = "revoked" => status'[t] = "revoked"
  <2>1. StoreStep
    BY <1>1, <1>6 DEF Revocation, StoreStep
  <2>2. ASSUME NEW t \in Stored, status[t] = "revoked" PROVE status'[t] = "revoked"
    <3>1. PICK f : f = row[t].fam
      OBVIOUS
    <3> QED
      BY <1>2, <1>3, <1>6, <2>2, <3>1 DEF Revocation
  <2> QED
    BY <2>1, <2>2
<1> QED
  BY <1>4, <1>5, <1>6, StepEffect

(* A rotation gives the token it revokes a successor; every other revocation *)
(* of a live token kills its family.                                         *)
LEMMA NextChain ==
  ASSUME IInv, IInv', ChainInv, [Next]_vars
  PROVE  ChainInv'
<1> SUFFICES ASSUME NEW t \in Stored', NEW f, f = row'[t].fam, status'[t] = "revoked",
                    LiveOf(f)' # {}
             PROVE  \E c \in Stored' : row'[c].parent = t
  BY DEF ChainInv, LiveOf, FamilyOf
<1>1. StoreStep
  BY NextStore
<1>2. f = row'[t].fam
  OBVIOUS
<1>3. t \in FamilyOf(f)' /\ t \notin LiveOf(f)'
  BY <1>2 DEF FamilyOf, LiveOf, Active
<1>4. ASSUME t \in Stored, t \notin LiveOf(f), LiveOf(f) # {} PROVE \E c \in Stored' : row'[c].parent = t
  <2>1. row[t].fam = f
    BY <1>1, <1>2, <1>4 DEF StoreStep
  <2>2. status[t] = "revoked"
    BY <1>4, <2>1 DEF LiveOf, FamilyOf, Active, Stored, IInv, TypeOK, Statuses
  <2>3. PICK c \in Stored : row[c].parent = t
    BY <1>4, <2>1, <2>2 DEF ChainInv
  <2> QED
    BY <1>1, <2>3 DEF StoreStep
<1>5. LiveOf(f)' # {}
  OBVIOUS
<1>6. ASSUME NEW g, NEW w, Opening(g, w) PROVE \E c \in Stored' : row'[c].parent = t
  <2>1. t # w
    BY <1>3, <1>6 DEF Opening, FamilyOf
  <2>2. t \in Stored /\ t \in FamilyOf(f) /\ t \notin LiveOf(f)
    BY <1>3, <1>6, <2>1 DEF Opening
  <2>3. LiveOf(f) # {}
    BY <1>5, <1>6, <2>2 DEF Opening
  <2> QED
    BY <1>4, <2>2, <2>3
<1>7. ASSUME NEW o, NEW w, NEW r \in Reqs, Rotation(r, o, w), FamilyRotation(o, w)
      PROVE  \E c \in Stored' : row'[c].parent = t
  <2>1. CASE t = o
    BY <1>7, <2>1 DEF Rotation
  <2>2. CASE t # o
    <3>1. t # w
      BY <1>7 DEF Rotation
    <3>2. t \in Stored /\ t \in FamilyOf(f) /\ t \notin LiveOf(f)
      BY <1>3, <1>7, <2>2, <3>1 DEF Rotation, FamilyRotation
    <3>3. LiveOf(f) # {}
      BY <1>5, <1>7 DEF FamilyRotation
    <3> QED
      BY <1>4, <3>2, <3>3
  <2> QED
    BY <2>1, <2>2
<1>8. ASSUME NEW S, Revocation(S) PROVE \E c \in Stored' : row'[c].parent = t
  <2>1. t \in Stored /\ t \in FamilyOf(f) /\ LiveOf(f) # {}
    BY <1>3, <1>5, <1>8 DEF Revocation
  <2>2. f \in Families
    BY <2>1 DEF FamilyOf, IInv, RowInv
  <2>3. t \notin LiveOf(f)
    BY <1>3, <1>5, <1>8, <2>2 DEF Revocation, IInv, OneActivePerFamily
  <2> QED
    BY <1>4, <2>1, <2>3
<1> QED
  BY <1>6, <1>7, <1>8, StepEffect

LEMMA NextLogout ==
  ASSUME IInv, IInv', LogoutInv, [Next]_vars
  PROVE  LogoutInv'
<1>1. CallSteps /\ StoreStep
  BY NextSteps, NextStore
<1>2. \A t \in Stored : status[t] = "revoked" => status'[t] = "revoked"
  BY NextStore
<1>3. ASSUME NEW t, Outside(t)
      PROVE  /\ t \in used' /\ \A s \in Reqs : new'[s] # t
             /\ t \in Stored' => t \in Stored
  <2>1. t # None
    BY <1>3, NoneAssumption DEF Outside, IInv, TypeOK
  <2> QED
    BY <1>1, <1>3, <2>1 DEF Outside, CallSteps, PendingStep, StoreStep
<1>4. ASSUME NEW r \in Reqs, pc'[r] = "logout"
      PROVE  tok'[r] \in used' /\ \A s \in Reqs : new'[s] # tok'[r]
  <2>1. CASE pc[r] = "logout" /\ tok'[r] = tok[r]
    BY <1>3, <2>1 DEF LogoutInv
  <2>2. CASE ~(pc[r] = "logout" /\ tok'[r] = tok[r])
    BY <1>1, <1>4, <2>2 DEF CallSteps, LogoutStep
  <2> QED
    BY <2>1, <2>2
<1>5. ASSUME NEW r \in Reqs, out'[r].kind = "loggedOut"
      PROVE  /\ out'[r].old \in used' /\ \A s \in Reqs : new'[s] # out'[r].old
             /\ out'[r].old \in Stored' => status'[out'[r].old] = "revoked"
  <2>1. CASE out'[r] = out[r]
    BY <1>2, <1>3, <1>5, <2>1 DEF LogoutInv
  <2>2. CASE out'[r] # out[r]
    <3>1. pc[r] = "logout" /\ out'[r].old = tok[r] /\ status'[tok[r]] # "active"
      BY <1>1, <1>5, <2>2 DEF CallSteps, LogoutStep
    <3>2. Outside(tok[r])
      BY <3>1 DEF LogoutInv
    <3> QED
      BY <1>3, <3>1, <3>2 DEF Stored, IInv, TypeOK, Statuses
  <2> QED
    BY <2>1, <2>2
<1> QED
  BY <1>4, <1>5 DEF LogoutInv, Outside

(* When logout returns, the token presented is revoked, and its family is    *)
(* dead unless the token had been rotated before.                            *)
THEOREM LogoutEnds == Spec => []LogoutEndsSessionUnlessRotated
<1>1. Init => ChainInv /\ LogoutInv
  BY DEF Init, ChainInv, LogoutInv, Stored, Failed
<1>2. IInv /\ IInv' /\ ChainInv /\ LogoutInv /\ [Next]_vars => ChainInv' /\ LogoutInv'
  BY NextChain, NextLogout
<1>3. ChainInv /\ LogoutInv => LogoutEndsSessionUnlessRotated
  BY DEF ChainInv, LogoutInv, LogoutEndsSessionUnlessRotated
<1> QED
  BY <1>1, <1>2, <1>3, Invariance, PTL DEF Spec

-----------------------------------------------------------------------------
(* The refinement *)

LEMMA UniqueChoice ==
  ASSUME NEW L \in SUBSET Tokens, NEW t \in L, \A a, b \in L : a = b
  PROVE  (CHOOSE x \in Tokens : x \in L) = t
  OBVIOUS

(* The head of a family is its live token. *)
LEMMA HeadIsLive ==
  ASSUME OneActivePerFamily, NEW f \in Families
  PROVE  /\ LiveOf(f) = {} => HeadOf(f) = None
         /\ \A t \in LiveOf(f) : HeadOf(f) = t
         /\ HeadOf(f) = None => LiveOf(f) = {}
<1>1. LiveOf(f) \in SUBSET Tokens
  BY DEF LiveOf, FamilyOf, Stored
<1>2. \A a, b \in LiveOf(f) : a = b
  BY DEF OneActivePerFamily
<1>3. \A t \in LiveOf(f) : HeadOf(f) = t
  BY <1>1, <1>2, UniqueChoice DEF HeadOf
<1> QED
  BY <1>1, <1>3, NoneAssumption DEF HeadOf

LEMMA HeadIsLiveNext ==
  ASSUME OneActivePerFamily', NEW f \in Families
  PROVE  /\ LiveOf(f)' = {} => HeadOf(f)' = None
         /\ \A t \in LiveOf(f)' : HeadOf(f)' = t
<1>1. LiveOf(f)' \in SUBSET Tokens
  BY DEF LiveOf, FamilyOf, Stored
<1>2. \A a, b \in LiveOf(f)' : a = b
  BY DEF OneActivePerFamily
<1>3. \A t \in LiveOf(f)' : HeadOf(f)' = t
  BY <1>1, <1>2, UniqueChoice DEF HeadOf
<1> QED
  BY <1>3 DEF HeadOf

(* The transactional system implements the sessions of SessionFamilies. *)
THEOREM Refinement == Spec => ImplementsSessions
<1>1. Init => Sessions!AbsInit
  <2> SUFFICES ASSUME Init PROVE Sessions!AbsInit
    OBVIOUS
  <2>1. Stored = {} /\ \A f \in Families : FamilyOf(f) = {} /\ LiveOf(f) = {}
    BY DEF Init, Stored, FamilyOf, LiveOf
  <2> QED
    BY <2>1 DEF Sessions!AbsInit, HeadOf
<1>2. IInv /\ IInv' /\ [Next]_vars => [Sessions!AbsNext]_(Sessions!absVars)
  <2> SUFFICES ASSUME IInv, IInv', [Next]_vars PROVE Sessions!AbsNext
    OBVIOUS
  <2>1. ASSUME NEW f \in Families
        PROVE  /\ LiveOf(f) = {} => HeadOf(f) = None
               /\ \A t \in LiveOf(f) : HeadOf(f) = t
               /\ HeadOf(f) = None => LiveOf(f) = {}
               /\ LiveOf(f)' = {} => HeadOf(f)' = None
               /\ \A t \in LiveOf(f)' : HeadOf(f)' = t
    BY HeadIsLive, HeadIsLiveNext DEF IInv
  <2>2. ASSUME NEW g, NEW w, Opening(g, w) PROVE Sessions!AbsNext
    <3>1. Sessions!Open(g, w)
      BY <2>1, <2>2 DEF Opening, Sessions!Open
    <3> QED
      BY <2>2, <3>1 DEF Sessions!AbsNext, Opening
  <2>3. ASSUME NEW o, NEW w, NEW r, Rotation(r, o, w), FamilyRotation(o, w)
        PROVE  Sessions!AbsNext
    <3>1. PICK g \in Families : g = row[o].fam
      BY <2>3 DEF FamilyRotation
    <3>2. HeadOf(g) # None /\ HeadOf(g)' = w
      BY <2>1, <2>3, <3>1 DEF FamilyRotation
    <3>3. \A f \in Families \ {g} : HeadOf(f)' = HeadOf(f)
      <4> TAKE f \in Families \ {g}
      <4>1. o \notin LiveOf(f)
        BY <3>1 DEF LiveOf, FamilyOf
      <4>2. LiveOf(f)' = LiveOf(f)
        BY <2>3, <3>1, <4>1 DEF FamilyRotation
      <4> QED
        BY <2>1, <4>2
    <3>4. \A f \in Families : FamilyOf(f)' # {} <=> FamilyOf(f) # {}
      BY <2>3, <3>1 DEF FamilyRotation, LiveOf
    <3>5. Sessions!Rotate(g, w)
      BY <2>3, <3>2, <3>3, <3>4 DEF Rotation, Sessions!Rotate
    <3> QED
      BY <2>3, <3>5 DEF Sessions!AbsNext, Rotation
  <2>4. ASSUME NEW S, Revocation(S) PROVE Sessions!AbsNext
    <3> DEFINE F == {f \in Families : LiveOf(f)' = {}}
    <3>1. Sessions!Kill(F)
      BY <2>1, <2>4 DEF Revocation, Sessions!Kill
    <3> QED
      BY <3>1 DEF Sessions!AbsNext
  <2> QED
    BY <2>2, <2>3, <2>4, StepEffect
<1> QED
  BY <1>1, <1>2, Invariance, PTL DEF Spec, ImplementsSessions, Sessions!AbsSpec
=============================================================================
