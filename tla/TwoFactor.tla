----------------------------- MODULE TwoFactor -----------------------------
(***************************************************************************)
(* Two-factor authentication of one user: setup_2fa, confirm_2fa,          *)
(* verify_2fa_code, disable_2fa and the clean-up worker (service/totp.rs)  *)
(* over dpop_users and dpop_recovery_codes (store/repo/totp.rs), and the   *)
(* replay cache of the process (cache/totp.rs).                            *)
(*                                                                         *)
(* Calls run concurrently.  Statements outside a transaction commit one by *)
(* one; confirm and disable end in a transaction whose effects appear at   *)
(* its commit.  An UPDATE waits for a row another transaction has updated  *)
(* and tests its WHERE clause again afterwards (READ COMMITTED).           *)
(***************************************************************************)
EXTENDS Integers, FiniteSets

CONSTANTS
  Reqs,         \* concurrent calls
  Secrets,      \* TOTP secrets
  Recovery,     \* recovery codes
  Steps,        \* time steps whose codes are presented
  None,
  BatchSize,    \* recovery codes generated by a confirmation
  StepLen,      \* TOTP_STEP
  DraftTTL,     \* the 10 minutes of a draft
  MaxTime       \* bound: the clock stops there

(* A TOTP code is the pair of its secret and its time step; the codes of     *)
(* different pairs are different.  A recovery code stands for its hash.      *)
Totp == [key : Secrets, step : Steps]

(* is_recovery_code tells the two kinds of code apart by their form. *)
ASSUME TwoFactorAssumption ==
  /\ None \notin Secrets
  /\ Recovery \cap Totp = {}
  /\ Steps \subseteq Nat
  /\ BatchSize \in Nat /\ DraftTTL \in Nat /\ MaxTime \in Nat
  /\ StepLen \in Nat \ {0}

VARIABLES
  secret, enabled, pending, pendingAt,  \* totp columns of the user's row
  deleted,    \* its deleted_at is set
  active,     \* recovery codes with used_at IS NULL
  now,
  cachedAt,   \* replay cache: when a code was entered, or Absent
  shown,      \* secrets generated so far
  issued,     \* recovery codes generated so far
  pc,         \* where each call is
  factor,     \* the code it presents
  goal,       \* "verify" or "disable"
  saw,        \* the secret it has read or generated
  batch,      \* the recovery codes it has generated
  holds,      \* its transaction has updated the user's row
  cand,       \* rows in the snapshot of its invalidation
  rows,       \* recovery codes its transaction has invalidated
  confirmed,  \* history: codes that confirm_2fa accepted
  spent,      \* history: factors that verify_2fa_code or disable_2fa accepted
  respent,    \* history: factors that they accepted again
  late,       \* history: codes claimed when they were no longer valid
  dropped     \* history: codes whose unexpired cache entry was lost

user    == <<secret, enabled, pending, pendingAt, deleted>>
history == <<confirmed, spent, respent, late, dropped>>
calls   == <<pc, factor, goal, saw, batch, holds, cand, rows>>
vars    == <<secret, enabled, pending, pendingAt, deleted, active, now,
             cachedAt, shown, issued, pc, factor, goal, saw, batch, holds,
             cand, rows, confirmed, spent, respent, late, dropped>>

-----------------------------------------------------------------------------
(* No entry in the replay cache, and no code presented. *)
Absent == -1
NoFactor == [key |-> None, step |-> 0]

Pcs == {"idle", "setupUser", "setupDraft", "setupWrite", "confirmUser",
        "confirmDraft", "activate", "verifyUser", "verifyCode", "claimCode",
        "disable", "invalidate", "invalidating", "commitOn", "commitOff"}

TypeOK ==
  /\ secret \in Secrets \cup {None}
  /\ enabled \in BOOLEAN
  /\ pending \in Secrets \cup {None}
  /\ pendingAt \in Nat
  /\ deleted \in BOOLEAN
  /\ active \subseteq issued /\ issued \subseteq Recovery
  /\ now \in Nat
  /\ cachedAt \in [Totp -> Nat \cup {Absent}]
  /\ shown \subseteq Secrets
  /\ pc \in [Reqs -> Pcs]
  /\ factor \in [Reqs -> Totp \cup Recovery \cup {NoFactor}]
  /\ goal \in [Reqs -> {"verify", "disable"}]
  /\ saw \in [Reqs -> Secrets \cup {None}]
  /\ batch \in [Reqs -> SUBSET Recovery]
  /\ holds \in [Reqs -> BOOLEAN]
  /\ cand \in [Reqs -> SUBSET Recovery]
  /\ rows \in [Reqs -> SUBSET Recovery]
  /\ confirmed \subseteq Totp
  /\ spent \subseteq Totp \cup Recovery
  /\ respent \subseteq spent
  /\ late \subseteq Totp /\ dropped \subseteq Totp

Init ==
  /\ secret = None /\ enabled = FALSE /\ pending = None /\ pendingAt = 0
  /\ deleted = FALSE /\ active = {} /\ now = 0
  /\ cachedAt = [c \in Totp |-> Absent]
  /\ shown = {} /\ issued = {}
  /\ pc = [r \in Reqs |-> "idle"]
  /\ factor = [r \in Reqs |-> NoFactor]
  /\ goal = [r \in Reqs |-> "verify"]
  /\ saw = [r \in Reqs |-> None]
  /\ batch = [r \in Reqs |-> {}]
  /\ holds = [r \in Reqs |-> FALSE]
  /\ cand = [r \in Reqs |-> {}]
  /\ rows = [r \in Reqs |-> {}]
  /\ confirmed = {} /\ spent = {} /\ respent = {} /\ late = {} /\ dropped = {}

-----------------------------------------------------------------------------
(* Helpers *)

UserFree(r) == \A s \in Reqs \ {r} : ~holds[s]
CodesFree(r, C) == \A s \in Reqs \ {r} : rows[s] \cap C = {}

Goto(r, l) == pc' = [pc EXCEPT ![r] = l]

(* Faulty variants: OpNoX is Op with one plausible mistake.  Nothing uses    *)
(* them; each is put in the place of the definition that follows it to see   *)
(* that a property notices.                                                  *)

(* The call returns and its transaction, if any, is over. *)
Return(r) ==
  /\ Goto(r, "idle")
  /\ factor' = [factor EXCEPT ![r] = NoFactor]
  /\ goal' = [goal EXCEPT ![r] = "verify"]
  /\ saw' = [saw EXCEPT ![r] = None]
  /\ batch' = [batch EXCEPT ![r] = {}]
  /\ holds' = [holds EXCEPT ![r] = FALSE]
  /\ cand' = [cand EXCEPT ![r] = {}]
  /\ rows' = [rows EXCEPT ![r] = {}]

Begin(r, l, f, g) ==
  /\ pc[r] = "idle"
  /\ Goto(r, l)
  /\ factor' = [factor EXCEPT ![r] = f]
  /\ goal' = [goal EXCEPT ![r] = g]
  /\ UNCHANGED <<user, active, now, cachedAt, shown, issued,
                 saw, batch, holds, cand, rows, history>>

(* A second less than the three steps. *)
ReplayTTLShort == 3 * StepLen - 1

(* TOTP_REPLAY_TTL: three steps. *)
ReplayTTL == 3 * StepLen

(* verify_code: this secret's code for the current step or a neighbour. *)
VerifyCode(s, f) ==
  /\ f \in Totp
  /\ f.key = s
  /\ (now \div StepLen) - 1 <= f.step /\ f.step <= (now \div StepLen) + 1

(* moka: the entry is there and has not expired. *)
Replayed(f) == cachedAt[f] # Absent /\ now < cachedAt[f] + ReplayTTL

(* get_pending_totp_secret. *)
Draft == IF ~enabled /\ ~deleted /\ now < pendingAt + DraftTTL THEN pending ELSE None

-----------------------------------------------------------------------------
(* setup_2fa *)

BeginSetup(r) == Begin(r, "setupUser", NoFactor, "verify")

SetupUser(r) ==
  /\ pc[r] = "setupUser"
  /\ IF deleted \/ enabled
       THEN Return(r)
       ELSE Goto(r, "setupDraft") /\ UNCHANGED <<factor, goal, saw, batch, holds, cand, rows>>
  /\ UNCHANGED <<user, active, now, cachedAt, shown, issued, history>>

(* A live draft is shown again; otherwise a secret is generated.  Running    *)
(* out of secrets is the modelled failure of the generator.                  *)
SetupDraft(r) ==
  /\ pc[r] = "setupDraft"
  /\ \/ /\ Draft # None \/ shown = Secrets
        /\ Return(r)
        /\ UNCHANGED shown
     \/ /\ Draft = None
        /\ \E s \in Secrets \ shown :
             /\ saw' = [saw EXCEPT ![r] = s]
             /\ shown' = shown \cup {s}
        /\ Goto(r, "setupWrite")
        /\ UNCHANGED <<factor, goal, batch, holds, cand, rows>>
  /\ UNCHANGED <<user, active, now, cachedAt, issued, history>>

(* "AND totp_enabled = FALSE" is missing. *)
SetupWriteNoGuard(r) ==
  /\ pc[r] = "setupWrite"
  /\ \/ /\ ~deleted
        /\ UserFree(r)
        /\ pending' = saw[r]
        /\ pendingAt' = now
     \/ /\ deleted
        /\ UNCHANGED <<pending, pendingAt>>
  /\ Return(r)
  /\ UNCHANGED <<secret, enabled, deleted, active, now, cachedAt, shown, issued, history>>

(* set_pending_totp_secret: whether or not it updates the row, the secret    *)
(* is returned to the user.                                                  *)
SetupWrite(r) ==
  /\ pc[r] = "setupWrite"
  /\ \/ /\ ~enabled /\ ~deleted
        /\ UserFree(r)
        /\ pending' = saw[r]
        /\ pendingAt' = now
     \/ /\ enabled \/ deleted
        /\ UNCHANGED <<pending, pendingAt>>
  /\ Return(r)
  /\ UNCHANGED <<secret, enabled, deleted, active, now, cachedAt, shown, issued, history>>

-----------------------------------------------------------------------------
(* confirm_2fa *)

BeginConfirm(r, f) == f.key \in shown /\ Begin(r, "confirmUser", f, "verify")

ConfirmUser(r) ==
  /\ pc[r] = "confirmUser"
  /\ IF deleted \/ enabled
       THEN Return(r)
       ELSE Goto(r, "confirmDraft") /\ UNCHANGED <<factor, goal, saw, batch, holds, cand, rows>>
  /\ UNCHANGED <<user, active, now, cachedAt, shown, issued, history>>

(* The draft is read and the code tested against it.  The replay cache is    *)
(* neither consulted nor told of the code.                                   *)
ConfirmDraft(r) ==
  /\ pc[r] = "confirmDraft"
  /\ \/ /\ \/ Draft = None \/ ~VerifyCode(Draft, factor[r])
           \/ Cardinality(Recovery \ issued) < BatchSize
        /\ Return(r)
        /\ UNCHANGED <<issued, confirmed>>
     \/ /\ Draft # None
        /\ VerifyCode(Draft, factor[r])
        /\ \E B \in SUBSET (Recovery \ issued) :
             /\ Cardinality(B) = BatchSize
             /\ batch' = [batch EXCEPT ![r] = B]
             /\ issued' = issued \cup B
        /\ confirmed' = confirmed \cup {factor[r]}
        /\ Goto(r, "activate")
        /\ UNCHANGED <<factor, goal, saw, holds, cand, rows>>
  /\ UNCHANGED <<user, active, now, cachedAt, shown, spent, respent, late, dropped>>

(* An UPDATE of the user's row in a transaction, for the rows that qualify. *)
LockUser(r, qualifies) ==
  \/ /\ qualifies
     /\ UserFree(r)
     /\ holds' = [holds EXCEPT ![r] = TRUE]
  \/ ~qualifies /\ UNCHANGED holds

(* activate_totp: the draft of the moment is promoted, if there is one.  The *)
(* transaction goes on when there is none.                                   *)
Activate(r) ==
  /\ pc[r] = "activate"
  /\ LockUser(r, pending # None /\ ~deleted)
  /\ Goto(r, "invalidate")
  /\ UNCHANGED <<user, active, now, cachedAt, shown, issued,
                 factor, goal, saw, batch, cand, rows, history>>

(* invalidate_recovery_codes_for_user takes its snapshot *)
InvalidateStart(r) ==
  /\ pc[r] = "invalidate"
  /\ cand' = [cand EXCEPT ![r] = active]
  /\ Goto(r, "invalidating")
  /\ UNCHANGED <<user, active, now, cachedAt, shown, issued,
                 factor, goal, saw, batch, holds, rows, history>>

(* and, when no other transaction holds a row of it, updates those rows that *)
(* are still active.                                                         *)
InvalidateRows(r) ==
  /\ pc[r] = "invalidating"
  /\ CodesFree(r, cand[r] \cap active)
  /\ rows' = [rows EXCEPT ![r] = cand[r] \cap active]
  /\ Goto(r, IF goal[r] = "disable" THEN "commitOff" ELSE "commitOn")
  /\ UNCHANGED <<user, active, now, cachedAt, shown, issued,
                 factor, goal, saw, batch, holds, cand, history>>

(* create_recovery_codes and tx.commit.                                      *)
CommitOn(r) ==
  /\ pc[r] = "commitOn"
  /\ IF holds[r] THEN /\ secret' = pending /\ enabled' = TRUE
                      /\ pending' = None /\ pendingAt' = 0
                 ELSE UNCHANGED <<secret, enabled, pending, pendingAt>>
  /\ active' = (active \ rows[r]) \cup batch[r]
  /\ Return(r)
  /\ UNCHANGED <<deleted, now, cachedAt, shown, issued, history>>

-----------------------------------------------------------------------------
(* verify_2fa_code and disable_2fa *)

BeginVerify(r, f, g) ==
  /\ f \in issued \/ (f \in Totp /\ f.key \in shown)
  /\ Begin(r, "verifyUser", f, g)

VerifyUser(r) ==
  /\ pc[r] = "verifyUser"
  /\ IF deleted \/ ~enabled
       THEN Return(r)
       ELSE /\ Goto(r, "verifyCode")
            /\ saw' = [saw EXCEPT ![r] = secret]
            /\ UNCHANGED <<factor, goal, batch, holds, cand, rows>>
  /\ UNCHANGED <<user, active, now, cachedAt, shown, issued, history>>

(* The factor is good: verify returns, disable goes on to its transaction. *)
Accept(r) ==
  /\ spent' = spent \cup {factor[r]}
  /\ respent' = IF factor[r] \in spent THEN respent \cup {factor[r]} ELSE respent
  /\ \/ goal[r] = "verify" /\ Return(r)
     \/ /\ goal[r] = "disable"
        /\ Goto(r, "disable")
        /\ UNCHANGED <<factor, goal, saw, batch, holds, cand, rows>>

(* The code is looked up and used_at is not set. *)
ConsumeNoBurn(r) ==
  /\ pc[r] = "verifyCode"
  /\ factor[r] \in active
  /\ CodesFree(r, {factor[r]})
  /\ Accept(r)
  /\ UNCHANGED <<user, active, now, cachedAt, shown, issued, confirmed, late, dropped>>

(* consume_recovery_code. *)
Consume(r) ==
  /\ pc[r] = "verifyCode"
  /\ factor[r] \in active
  /\ CodesFree(r, {factor[r]})
  /\ active' = active \ {factor[r]}
  /\ Accept(r)
  /\ UNCHANGED <<user, now, cachedAt, shown, issued, confirmed, late, dropped>>

(* verify_totp_once reads the clock to test the code.                        *)
CheckTotp(r) ==
  /\ pc[r] = "verifyCode"
  /\ VerifyCode(saw[r], factor[r])
  /\ Goto(r, "claimCode")
  /\ UNCHANGED <<user, active, now, cachedAt, shown, issued,
                 factor, goal, saw, batch, holds, cand, rows, history>>

(* or_insert, which is awaited: any time may have passed since the test. An  *)
(* insertion finds and enters a key in one instant.                          *)
ClaimTotp(r) ==
  /\ pc[r] = "claimCode"
  /\ ~Replayed(factor[r])
  /\ cachedAt' = [cachedAt EXCEPT ![factor[r]] = now]
  /\ late' = IF VerifyCode(factor[r].key, factor[r]) THEN late ELSE late \cup {factor[r]}
  /\ Accept(r)
  /\ UNCHANGED <<user, active, now, shown, issued, confirmed, dropped>>

(* The recovery code is not active; the TOTP code is not valid, or valid and *)
(* in the cache.                                                             *)
Reject(r) ==
  /\ \/ pc[r] = "verifyCode" /\ factor[r] \in Recovery \ active
     \/ pc[r] = "verifyCode" /\ factor[r] \in Totp /\ ~VerifyCode(saw[r], factor[r])
     \/ pc[r] = "claimCode" /\ Replayed(factor[r])
  /\ Return(r)
  /\ UNCHANGED <<user, active, now, cachedAt, shown, issued, history>>

(* disable_totp. *)
Disable(r) ==
  /\ pc[r] = "disable"
  /\ LockUser(r, enabled /\ ~deleted)
  /\ Goto(r, "invalidate")
  /\ UNCHANGED <<user, active, now, cachedAt, shown, issued,
                 factor, goal, saw, batch, cand, rows, history>>

CommitOff(r) ==
  /\ pc[r] = "commitOff"
  /\ IF holds[r] THEN /\ secret' = None /\ enabled' = FALSE
                      /\ pending' = None /\ pendingAt' = 0
                 ELSE UNCHANGED <<secret, enabled, pending, pendingAt>>
  /\ active' = active \ rows[r]
  /\ Return(r)
  /\ UNCHANGED <<deleted, now, cachedAt, shown, issued, history>>

-----------------------------------------------------------------------------
(* Environment *)

(* A statement fails or the caller drops the future. *)
Abort(r) ==
  /\ pc[r] # "idle"
  /\ Return(r)
  /\ UNCHANGED <<user, active, now, cachedAt, shown, issued, history>>

(* The future is dropped while its statement or its insertion is under way,  *)
(* which takes effect all the same: the factor is used up and the call does  *)
(* not accept it.  (The other statements leave no more than their own action *)
(* does, whose answer is not part of the state.)                             *)
AbortClaimed(r) ==
  /\ \/ /\ pc[r] = "verifyCode"
        /\ factor[r] \in active
        /\ CodesFree(r, {factor[r]})
        /\ active' = active \ {factor[r]}
        /\ UNCHANGED cachedAt
     \/ /\ pc[r] = "claimCode"
        /\ ~Replayed(factor[r])
        /\ cachedAt' = [cachedAt EXCEPT ![factor[r]] = now]
        /\ UNCHANGED active
  /\ Return(r)
  /\ UNCHANGED <<user, now, shown, issued, history>>

(* cleanup_expired_drafts. *)
Cleanup ==
  /\ pending # None
  /\ pendingAt + DraftTTL < now
  /\ \A r \in Reqs : ~holds[r]
  /\ pending' = None /\ pendingAt' = 0
  /\ UNCHANGED <<secret, enabled, deleted, active, now, cachedAt, shown, issued,
                 calls, history>>

(* The application sets deleted_at. *)
SoftDelete ==
  /\ ~deleted
  /\ \A r \in Reqs : ~holds[r]
  /\ deleted' = TRUE
  /\ UNCHANGED <<secret, enabled, pending, pendingAt, active, now, cachedAt,
                 shown, issued, calls, history>>

(* A cache over its capacity drops an entry; a restart drops them all. *)
DropEntry(c) ==
  /\ cachedAt[c] # Absent
  /\ cachedAt' = [cachedAt EXCEPT ![c] = Absent]
  /\ dropped' = IF Replayed(c) THEN dropped \cup {c} ELSE dropped
  /\ UNCHANGED <<user, active, now, shown, issued, calls, confirmed, spent, respent, late>>

Tick ==
  /\ now < MaxTime
  /\ now' = now + 1
  /\ UNCHANGED <<user, active, cachedAt, shown, issued, calls, history>>

Call(r) ==
  \/ BeginSetup(r)
  \/ \E f \in Totp : BeginConfirm(r, f)
  \/ \E f \in Totp \cup Recovery, g \in {"verify", "disable"} : BeginVerify(r, f, g)

Step(r) ==
  \/ SetupUser(r) \/ SetupDraft(r) \/ SetupWrite(r)
  \/ ConfirmUser(r) \/ ConfirmDraft(r) \/ Activate(r)
  \/ InvalidateStart(r) \/ InvalidateRows(r) \/ CommitOn(r)
  \/ VerifyUser(r) \/ Consume(r) \/ CheckTotp(r) \/ ClaimTotp(r)
  \/ Reject(r) \/ Disable(r) \/ CommitOff(r)

Next ==
  \/ \E r \in Reqs : Call(r) \/ Step(r) \/ Abort(r) \/ AbortClaimed(r)
  \/ Cleanup \/ SoftDelete \/ Tick
  \/ \E c \in Totp : DropEntry(c)

Spec == Init /\ [][Next]_vars

-----------------------------------------------------------------------------
(* Properties *)

(* The columns of the user's row agree: 2FA is never on without a secret, no *)
(* late set_pending leaves a draft beside a live secret, and no disabled     *)
(* account keeps one.                                                        *)
EnrolmentConsistent ==
  /\ enabled => secret # None /\ pending = None
  /\ ~enabled => secret = None

(* verify_2fa_code and disable_2fa accept a second factor once: a recovery   *)
(* code ever, whatever the confirmations, disablings and rollbacks around    *)
(* it, and a TOTP code, unless the cache lost its unexpired entry or the     *)
(* code was claimed so long after its test that it was no longer valid.      *)
(* confirm_2fa makes no replay entry: the code that confirms an enrolment is *)
(* accepted there, and may be accepted here once more.                       *)
FactorsAreSingleUse == respent \subseteq dropped \cup late

(* A recovery code that was consumed never becomes active again, and a code  *)
(* is active only after the transaction that issued it.                      *)
SpentStaysSpent ==
  /\ active \cap spent = {}
  /\ \A r \in Reqs : batch[r] \cap (active \cup spent) = {}

-----------------------------------------------------------------------------
(* What the documentation says and the code does not do *)

(* "The draft is only promoted to the active secret upon successful code     *)
(* verification in confirm_2fa" (setup_2fa): an active secret is one that a  *)
(* code was verified of.                                                     *)
PromotedSecretWasVerified == enabled => \E f \in confirmed : f.key = secret
=============================================================================
