-------------------------- MODULE TwoFactorProofs --------------------------
(***************************************************************************)
(* Proofs about TwoFactor, for any number of calls, secrets and recovery   *)
(* codes, any length of a time step and any lifetime of a draft.           *)
(***************************************************************************)
EXTENDS TwoFactor, TLAPS

-----------------------------------------------------------------------------
(* The inductive invariant                                                   *)

(* Where a call is says what it is about; only the last statements of a      *)
(* confirmation or of a disabling hold the user's row.                       *)
CallInv ==
  \A r \in Reqs :
    /\ pc[r] = "setupWrite" => saw[r] # None
    /\ pc[r] \in {"confirmUser", "confirmDraft", "activate", "commitOn"} => goal[r] = "verify"
    /\ pc[r] \in {"disable", "commitOff"} => goal[r] = "disable"
    /\ holds[r] => pc[r] \in {"invalidate", "invalidating", "commitOn", "commitOff"}

(* The row lock is exclusive, and what the UPDATE tested under it still      *)
(* holds: a draft to promote, or an enrolment to end.                        *)
LockInv ==
  /\ \A r, s \in Reqs : holds[r] /\ holds[s] => r = s
  /\ \A r \in Reqs : holds[r] => IF goal[r] = "disable" THEN enabled ELSE pending # None

(* Codes that are active, spent, or still in the hands of a confirmation     *)
(* were issued, and are different codes.                                     *)
CodeInv ==
  /\ spent \cap Recovery \subseteq issued
  /\ \A r \in Reqs : batch[r] \subseteq issued
  /\ \A r, s \in Reqs : r # s => batch[r] \cap batch[s] = {}

(* A code about to be claimed was tested at or after the beginning of its    *)
(* window; the test says nothing of its end any more.                        *)
ClaimInv ==
  \A r \in Reqs : pc[r] = "claimCode" =>
    factor[r] \in Totp /\ (factor[r].step - 1) * StepLen <= now

(* An accepted TOTP code is remembered from a moment of its window on, or    *)
(* its window is over, or the cache has lost it.                             *)
Remembered(f) ==
  \/ f \in dropped
  \/ cachedAt[f] # Absent /\ (f.step - 1) * StepLen <= cachedAt[f]
  \/ (f.step + 2) * StepLen <= now

ReplayInv == \A f \in spent \cap Totp : Remembered(f)

IInv ==
  /\ TypeOK /\ CallInv /\ LockInv /\ EnrolmentConsistent
  /\ ClaimInv /\ CodeInv /\ SpentStaysSpent /\ ReplayInv /\ FactorsAreSingleUse

-----------------------------------------------------------------------------
(* Time steps                                                                *)

LEMMA StepFact ==
  ASSUME NEW f \in Totp
  PROVE  f.step \in Nat
BY TwoFactorAssumption DEF Totp

(* Within a step's window, and after it. *)
LEMMA Window ==
  ASSUME NEW n \in Nat, NEW k \in Nat
  PROVE  /\ k <= (n \div StepLen) + 1 => (k - 1) * StepLen <= n
         /\ (n \div StepLen) - 1 <= k => n < (k + 2) * StepLen
         /\ (k + 2) * StepLen = (k - 1) * StepLen + 3 * StepLen
<1> DEFINE q == n \div StepLen
<1>1. StepLen \in Nat \ {0}
  BY TwoFactorAssumption
<1>2. q \in Nat /\ q * StepLen <= n /\ n < q * StepLen + StepLen
  BY <1>1
<1> HIDE DEF q
<1>3. k <= q + 1 => (k - 1) * StepLen <= q * StepLen
  BY <1>1, <1>2
<1>4. q - 1 <= k => q * StepLen <= (k + 1) * StepLen
  BY <1>1, <1>2
<1>5. (k + 2) * StepLen = (k + 1) * StepLen + StepLen
  BY <1>1
<1>6. (k + 2) * StepLen = (k - 1) * StepLen + 3 * StepLen
  BY <1>1
<1>7. (k - 1) * StepLen \in Int /\ (k + 1) * StepLen \in Int /\ q * StepLen \in Int
  BY <1>1, <1>2
<1>8. /\ k <= q + 1 => (k - 1) * StepLen <= n
      /\ q - 1 <= k => n < (k + 2) * StepLen
  BY <1>1, <1>2, <1>3, <1>4, <1>5, <1>7
<1> QED
  BY <1>6, <1>8 DEF q

(* A code that was tested in its window, and was accepted before, and has no *)
(* entry in the cache, was dropped from the cache or is no longer valid.     *)
LEMMA ReplayedIfSpent ==
  ASSUME TypeOK, ReplayInv, NEW f \in Totp, ~Replayed(f), f \in spent, f \notin dropped
  PROVE  ~VerifyCode(f.key, f)
<1>1. f.step \in Nat /\ now \in Nat /\ StepLen \in Nat
  BY StepFact, TwoFactorAssumption DEF TypeOK
<1>2. (f.step + 2) * StepLen = (f.step - 1) * StepLen + 3 * StepLen
  BY <1>1, Window
<1>3. (f.step + 2) * StepLen \in Int /\ (f.step - 1) * StepLen \in Int /\ 3 * StepLen \in Int
  BY <1>1
<1>4. SUFFICES (f.step + 2) * StepLen <= now
  BY <1>1, <1>3, Window DEF VerifyCode
<1>5. SUFFICES ASSUME cachedAt[f] # Absent, (f.step - 1) * StepLen <= cachedAt[f]
               PROVE  (f.step + 2) * StepLen <= now
  BY DEF ReplayInv, Remembered
<1>6. cachedAt[f] \in Nat
  BY <1>5 DEF TypeOK
<1>7. cachedAt[f] + 3 * StepLen <= now
  BY <1>1, <1>3, <1>5, <1>6 DEF Replayed, ReplayTTL
<1> QED
  BY <1>1, <1>2, <1>3, <1>5, <1>6, <1>7
-----------------------------------------------------------------------------
(* What a step of one call does                                              *)

Acts(r) == Call(r) \/ Step(r) \/ Abort(r) \/ AbortClaimed(r)

(* The other calls stay as they are. *)
Others(r) ==
  \A s \in Reqs \ {r} :
    /\ pc'[s] = pc[s] /\ goal'[s] = goal[s] /\ saw'[s] = saw[s]
    /\ holds'[s] = holds[s] /\ batch'[s] = batch[s] /\ factor'[s] = factor[s]

(* The call starts, returns, or goes from one statement to the next. *)
Moves(r) ==
  \/ pc'[r] = "idle" /\ ~holds'[r]
  \/ /\ pc[r] = "idle" /\ holds'[r] = holds[r]
     /\ pc'[r] \in {"setupUser", "confirmUser", "verifyUser"}
     /\ pc'[r] = "confirmUser" => goal'[r] = "verify"
  \/ /\ goal'[r] = goal[r] /\ holds'[r] = holds[r]
     /\ \/ pc[r] = "setupUser" /\ pc'[r] = "setupDraft"
        \/ pc[r] = "setupDraft" /\ pc'[r] = "setupWrite" /\ saw'[r] # None
        \/ pc[r] = "confirmUser" /\ pc'[r] = "confirmDraft"
        \/ pc[r] = "confirmDraft" /\ pc'[r] = "activate"
        \/ pc[r] = "verifyUser" /\ pc'[r] = "verifyCode"
        \/ /\ pc[r] = "verifyCode" /\ pc'[r] = "claimCode"
           /\ VerifyCode(saw[r], factor[r]) /\ factor'[r] = factor[r]
        \/ pc[r] \in {"verifyCode", "claimCode"} /\ pc'[r] = "disable" /\ goal[r] = "disable"
        \/ pc[r] = "invalidate" /\ pc'[r] = "invalidating"
        \/ /\ pc[r] = "invalidating"
           /\ pc'[r] = IF goal[r] = "disable" THEN "commitOff" ELSE "commitOn"
  \/ /\ goal'[r] = goal[r] /\ pc[r] \in {"activate", "disable"} /\ pc'[r] = "invalidate"
     /\ \/ holds'[r] = holds[r]
        \/ /\ UserFree(r)
           /\ IF pc[r] = "disable" THEN enabled ELSE pending # None

(* What it does to the user's row. *)
WritesUser(r) ==
  \/ UNCHANGED <<secret, enabled, pending>>
  \/ /\ pc[r] = "setupWrite" /\ ~enabled /\ UserFree(r)
     /\ pending' = saw[r] /\ UNCHANGED <<secret, enabled>>
  \/ /\ pc[r] = "commitOn" /\ holds[r]
     /\ secret' = pending /\ enabled' = TRUE /\ pending' = None
  \/ /\ pc[r] = "commitOff" /\ holds[r]
     /\ secret' = None /\ enabled' = FALSE /\ pending' = None

Accepts(r) ==
  /\ spent' = spent \cup {factor[r]}
  /\ respent' = IF factor[r] \in spent THEN respent \cup {factor[r]} ELSE respent

(* What it does to the codes. *)
WritesCodes(r) ==
  /\ UNCHANGED <<now, dropped>>
  /\ \/ /\ UNCHANGED <<active, issued, spent, respent, late, cachedAt>>
        /\ batch'[r] \in {batch[r], {}}
     \/ /\ UNCHANGED <<active, spent, respent, late, cachedAt>>
        /\ batch'[r] \subseteq Recovery \ issued
        /\ issued' = issued \cup batch'[r]
     \/ /\ UNCHANGED <<issued, spent, respent, late, cachedAt>>
        /\ active' \subseteq active \cup batch[r]
        /\ batch'[r] = {}
     \/ /\ UNCHANGED <<issued, late, cachedAt>>
        /\ factor[r] \in active /\ active' = active \ {factor[r]}
        /\ Accepts(r) /\ batch'[r] \in {batch[r], {}}
     \/ /\ UNCHANGED <<issued, active>>
        /\ pc[r] = "claimCode" /\ ~Replayed(factor[r])
        /\ cachedAt' = [cachedAt EXCEPT ![factor[r]] = now]
        /\ late' = IF VerifyCode(factor[r].key, factor[r]) THEN late ELSE late \cup {factor[r]}
        /\ Accepts(r) /\ batch'[r] \in {batch[r], {}}
     \/ /\ UNCHANGED <<issued, active, spent, respent, late>>
        /\ pc[r] = "claimCode"
        /\ cachedAt' = [cachedAt EXCEPT ![factor[r]] = now]
        /\ batch'[r] = {}

Effect(r) == Others(r) /\ Moves(r) /\ WritesUser(r) /\ WritesCodes(r)

LEMMA ReturnStep ==
  ASSUME TypeOK, NEW r \in Reqs, Return(r)
  PROVE  Others(r) /\ Moves(r) /\ batch'[r] = {}
BY DEF TypeOK, Return, Goto, Others, Moves

LEMMA BeginStep ==
  ASSUME TypeOK, NEW r \in Reqs, Call(r)
  PROVE  Effect(r)
<1> USE DEF Effect, WritesUser, WritesCodes, Begin, Goto, user, history, TypeOK
<1>1. CASE BeginSetup(r)
  BY <1>1 DEF BeginSetup, Others, Moves
<1>2. ASSUME NEW f \in Totp, BeginConfirm(r, f) PROVE Effect(r)
  BY <1>2 DEF BeginConfirm, Others, Moves
<1>3. ASSUME NEW f \in Totp \cup Recovery, NEW g \in {"verify", "disable"}, BeginVerify(r, f, g)
      PROVE  Effect(r)
  BY <1>3 DEF BeginVerify, Others, Moves
<1> QED
  BY <1>1, <1>2, <1>3 DEF Call

LEMMA EnrolStep ==
  ASSUME TypeOK, NEW r \in Reqs,
         \/ SetupUser(r) \/ SetupDraft(r) \/ SetupWrite(r)
         \/ ConfirmUser(r) \/ ConfirmDraft(r) \/ Activate(r)
  PROVE  Effect(r)
<1> USE DEF Effect, user, history
<1>1. CASE SetupUser(r)
  <2>1. CASE Return(r)
    BY <1>1, <2>1, ReturnStep DEF SetupUser, WritesUser, WritesCodes
  <2>2. CASE ~Return(r)
    BY <1>1, <2>2 DEF SetupUser, WritesUser, WritesCodes, Goto, TypeOK, Others, Moves
  <2> QED
    BY <2>1, <2>2
<1>2. CASE SetupDraft(r)
  <2>1. CASE Return(r)
    BY <1>2, <2>1, ReturnStep DEF SetupDraft, WritesUser, WritesCodes
  <2>2. CASE ~Return(r)
    <3>1. PICK s \in Secrets : saw' = [saw EXCEPT ![r] = s]
      BY <1>2, <2>2 DEF SetupDraft
    <3>2. saw'[r] # None /\ \A q \in Reqs \ {r} : saw'[q] = saw[q]
      BY <3>1, TwoFactorAssumption DEF TypeOK
    <3> QED
      BY <1>2, <2>2, <3>2 DEF SetupDraft, WritesUser, WritesCodes, Goto, TypeOK, Others, Moves
  <2> QED
    BY <2>1, <2>2
<1>3. CASE SetupWrite(r)
  BY <1>3, ReturnStep DEF SetupWrite, WritesUser, WritesCodes
<1>4. CASE ConfirmUser(r)
  <2>1. CASE Return(r)
    BY <1>4, <2>1, ReturnStep DEF ConfirmUser, WritesUser, WritesCodes
  <2>2. CASE ~Return(r)
    BY <1>4, <2>2 DEF ConfirmUser, WritesUser, WritesCodes, Goto, TypeOK, Others, Moves
  <2> QED
    BY <2>1, <2>2
<1>5. CASE ConfirmDraft(r)
  <2>1. CASE Return(r) /\ UNCHANGED issued
    BY <1>5, <2>1, ReturnStep DEF ConfirmDraft, WritesUser, WritesCodes
  <2>2. CASE ~(Return(r) /\ UNCHANGED issued)
    <3>1. PICK B \in SUBSET (Recovery \ issued) :
            batch' = [batch EXCEPT ![r] = B] /\ issued' = issued \cup B
      BY <1>5, <2>2 DEF ConfirmDraft
    <3>2. batch'[r] = B /\ \A s \in Reqs \ {r} : batch'[s] = batch[s]
      BY <3>1 DEF TypeOK
    <3>3. WritesCodes(r)
      BY <1>5, <3>1, <3>2 DEF ConfirmDraft, WritesCodes
    <3> QED
      BY <1>5, <2>2, <3>2, <3>3 DEF ConfirmDraft, WritesUser, Goto, TypeOK, Others, Moves
  <2> QED
    BY <2>1, <2>2
<1>6. CASE Activate(r)
  BY <1>6 DEF Activate, LockUser, WritesUser, WritesCodes, Goto, TypeOK, Others, Moves
<1> QED
  BY <1>1, <1>2, <1>3, <1>4, <1>5, <1>6

LEMMA VerifyStep ==
  ASSUME TypeOK, NEW r \in Reqs,
         VerifyUser(r) \/ Consume(r) \/ CheckTotp(r) \/ ClaimTotp(r) \/ Reject(r) \/ Disable(r)
  PROVE  Effect(r)
<1> USE DEF Effect, user, history
<1>1. CASE VerifyUser(r)
  <2>1. CASE Return(r)
    BY <1>1, <2>1, ReturnStep DEF VerifyUser, WritesUser, WritesCodes
  <2>2. CASE ~Return(r)
    BY <1>1, <2>2 DEF VerifyUser, WritesUser, WritesCodes, Goto, TypeOK, Others, Moves
  <2> QED
    BY <2>1, <2>2
<1>2. ASSUME pc[r] \in {"verifyCode", "claimCode"}, Accept(r)
      PROVE  Others(r) /\ Moves(r) /\ Accepts(r) /\ batch'[r] \in {batch[r], {}}
  <2>1. CASE Return(r)
    BY <1>2, <2>1, ReturnStep DEF Accept, Accepts
  <2>2. CASE ~Return(r)
    BY <1>2, <2>2 DEF Accept, Accepts, Goto, TypeOK, Others, Moves
  <2> QED
    BY <2>1, <2>2
<1>3. CASE Consume(r)
  BY <1>2, <1>3 DEF Consume, WritesUser, WritesCodes
<1>4. CASE ClaimTotp(r)
  BY <1>2, <1>4 DEF ClaimTotp, WritesUser, WritesCodes
<1>5. CASE Reject(r)
  BY <1>5, ReturnStep DEF Reject, WritesUser, WritesCodes
<1>6. CASE Disable(r)
  BY <1>6 DEF Disable, LockUser, WritesUser, WritesCodes, Goto, TypeOK, Others, Moves
<1>7. CASE CheckTotp(r)
  BY <1>7 DEF CheckTotp, WritesUser, WritesCodes, Goto, TypeOK, Others, Moves
<1> QED
  BY <1>1, <1>3, <1>4, <1>5, <1>6, <1>7

LEMMA TransactionStep ==
  ASSUME TypeOK, NEW r \in Reqs,
         InvalidateStart(r) \/ InvalidateRows(r) \/ CommitOn(r) \/ CommitOff(r)
         \/ Abort(r) \/ AbortClaimed(r)
  PROVE  Effect(r)
<1> USE DEF Effect, user, history
<1>1. CASE InvalidateStart(r)
  BY <1>1 DEF InvalidateStart, WritesUser, WritesCodes, Goto, TypeOK, Others, Moves
<1>2. CASE InvalidateRows(r)
  BY <1>2 DEF InvalidateRows, WritesUser, WritesCodes, Goto, TypeOK, Others, Moves
<1>3. CASE CommitOn(r)
  BY <1>3, ReturnStep DEF CommitOn, WritesUser, WritesCodes
<1>4. CASE CommitOff(r)
  BY <1>4, ReturnStep DEF CommitOff, WritesUser, WritesCodes
<1>5. CASE Abort(r)
  BY <1>5, ReturnStep DEF Abort, WritesUser, WritesCodes
<1>6. CASE AbortClaimed(r)
  BY <1>6, ReturnStep DEF AbortClaimed, WritesUser, WritesCodes
<1> QED
  BY <1>1, <1>2, <1>3, <1>4, <1>5, <1>6

LEMMA CallEffect ==
  ASSUME TypeOK, NEW r \in Reqs, Acts(r)
  PROVE  Effect(r)
BY BeginStep, EnrolStep, VerifyStep, TransactionStep DEF Acts, Step
-----------------------------------------------------------------------------
(* Types                                                                     *)

(* The variables of the calls, and the rest. *)
CallType ==
  /\ pc \in [Reqs -> Pcs]
  /\ factor \in [Reqs -> Totp \cup Recovery \cup {NoFactor}]
  /\ goal \in [Reqs -> {"verify", "disable"}]
  /\ saw \in [Reqs -> Secrets \cup {None}]
  /\ batch \in [Reqs -> SUBSET Recovery]
  /\ holds \in [Reqs -> BOOLEAN]
  /\ cand \in [Reqs -> SUBSET Recovery]
  /\ rows \in [Reqs -> SUBSET Recovery]

StoreType ==
  /\ secret \in Secrets \cup {None}
  /\ enabled \in BOOLEAN
  /\ pending \in Secrets \cup {None}
  /\ pendingAt \in Nat
  /\ deleted \in BOOLEAN
  /\ active \subseteq issued /\ issued \subseteq Recovery
  /\ now \in Nat
  /\ cachedAt \in [Totp -> Nat \cup {Absent}]
  /\ shown \subseteq Secrets
  /\ confirmed \subseteq Totp
  /\ spent \subseteq Totp \cup Recovery
  /\ respent \subseteq spent
  /\ late \subseteq Totp /\ dropped \subseteq Totp

LEMMA TypeParts == TypeOK <=> CallType /\ StoreType
BY DEF TypeOK, CallType, StoreType

LEMMA InitType == Init => TypeOK
<1> SUFFICES ASSUME Init PROVE TypeOK
  OBVIOUS
<1>1. CallType
  BY DEF Init, CallType, Pcs
<1>2. cachedAt \in [Totp -> Nat \cup {Absent}]
  BY DEF Init
<1>3. StoreType
  BY <1>2 DEF Init, StoreType
<1> QED
  BY <1>1, <1>3, TypeParts

LEMMA ReturnType ==
  ASSUME TypeOK, NEW r \in Reqs, Return(r)
  PROVE  CallType'
BY DEF TypeOK, CallType, Return, Goto, Pcs

LEMMA BeginType ==
  ASSUME TypeOK, NEW r \in Reqs, Call(r)
  PROVE  CallType' /\ StoreType'
<1>1. ASSUME NEW l \in {"setupUser", "confirmUser", "verifyUser"}, NEW g \in {"verify", "disable"},
             NEW f \in Totp \cup Recovery \cup {NoFactor}, Begin(r, l, f, g)
      PROVE  CallType' /\ StoreType'
  <2>1. CallType'
    BY <1>1 DEF Begin, Goto, TypeOK, CallType, Pcs
  <2>2. StoreType'
    BY <1>1 DEF Begin, user, history, TypeOK, StoreType
  <2> QED
    BY <2>1, <2>2
<1> QED
  BY <1>1 DEF Call, BeginSetup, BeginConfirm, BeginVerify

LEMMA EnrolType ==
  ASSUME TypeOK, CallInv, NEW r \in Reqs,
         \/ SetupUser(r) \/ SetupDraft(r) \/ SetupWrite(r)
         \/ ConfirmUser(r) \/ ConfirmDraft(r) \/ Activate(r)
  PROVE  CallType' /\ StoreType'
<1> USE DEF user, history
<1>1. CASE SetupUser(r) \/ ConfirmUser(r)
  <2>1. StoreType'
    BY <1>1 DEF SetupUser, ConfirmUser, TypeOK, StoreType
  <2>2. CallType'
    BY <1>1, ReturnType DEF SetupUser, ConfirmUser, Goto, TypeOK, CallType, Pcs
  <2> QED
    BY <2>1, <2>2
<1>2. CASE SetupDraft(r)
  <2>1. StoreType'
    BY <1>2 DEF SetupDraft, TypeOK, StoreType
  <2>2. CallType'
    BY <1>2, ReturnType DEF SetupDraft, Goto, TypeOK, CallType, Pcs
  <2> QED
    BY <2>1, <2>2
<1>3. CASE SetupWrite(r)
  <2>1. StoreType'
    BY <1>3 DEF SetupWrite, TypeOK, StoreType
  <2> QED
    BY <1>3, <2>1, ReturnType DEF SetupWrite
<1>4. CASE ConfirmDraft(r)
  <2>1. VerifyCode(Draft, factor[r]) => factor[r] \in Totp
    BY DEF VerifyCode
  <2>2. StoreType'
    BY <1>4, <2>1 DEF ConfirmDraft, TypeOK, StoreType
  <2>3. CallType'
    BY <1>4, ReturnType DEF ConfirmDraft, Goto, TypeOK, CallType, Pcs
  <2> QED
    BY <2>2, <2>3
<1>5. CASE Activate(r)
  BY <1>5 DEF Activate, LockUser, Goto, TypeOK, CallType, StoreType, Pcs
<1> QED
  BY <1>1, <1>2, <1>3, <1>4, <1>5

LEMMA VerifyType ==
  ASSUME TypeOK, ClaimInv, NEW r \in Reqs,
         VerifyUser(r) \/ Consume(r) \/ CheckTotp(r) \/ ClaimTotp(r) \/ Reject(r) \/ Disable(r)
  PROVE  CallType' /\ StoreType'
<1> USE DEF user, history
<1>1. CASE VerifyUser(r)
  <2>1. StoreType'
    BY <1>1 DEF VerifyUser, TypeOK, StoreType
  <2>2. CallType'
    BY <1>1, ReturnType DEF VerifyUser, Goto, TypeOK, CallType, Pcs
  <2> QED
    BY <2>1, <2>2
<1>2. ASSUME Accept(r) PROVE CallType'
  BY <1>2, ReturnType DEF Accept, Goto, TypeOK, CallType, Pcs
<1>3. CASE Consume(r)
  <2>1. StoreType'
    BY <1>3 DEF Consume, Accept, TypeOK, StoreType
  <2> QED
    BY <1>2, <1>3, <2>1 DEF Consume
<1>4. CASE ClaimTotp(r)
  <2>1. factor[r] \in Totp
    BY <1>4 DEF ClaimTotp, ClaimInv
  <2>2. StoreType'
    BY <1>4, <2>1 DEF ClaimTotp, Accept, TypeOK, StoreType
  <2> QED
    BY <1>2, <1>4, <2>2 DEF ClaimTotp
<1>5. CASE Reject(r)
  <2>1. StoreType'
    BY <1>5 DEF Reject, TypeOK, StoreType
  <2> QED
    BY <1>5, <2>1, ReturnType DEF Reject
<1>6. CASE Disable(r)
  BY <1>6 DEF Disable, LockUser, Goto, TypeOK, CallType, StoreType, Pcs
<1>7. CASE CheckTotp(r)
  BY <1>7 DEF CheckTotp, Goto, TypeOK, CallType, StoreType, Pcs
<1> QED
  BY <1>1, <1>3, <1>4, <1>5, <1>6, <1>7

LEMMA TransactionType ==
  ASSUME TypeOK, CodeInv, NEW r \in Reqs,
         InvalidateStart(r) \/ InvalidateRows(r) \/ CommitOn(r) \/ CommitOff(r)
         \/ Abort(r) \/ AbortClaimed(r)
  PROVE  CallType' /\ StoreType'
<1> USE DEF user, history
<1>1. CASE InvalidateStart(r)
  BY <1>1 DEF InvalidateStart, Goto, TypeOK, CallType, StoreType, Pcs
<1>2. CASE InvalidateRows(r)
  BY <1>2 DEF InvalidateRows, Goto, TypeOK, CallType, StoreType, Pcs
<1>3. CASE CommitOn(r)
  <2>1. batch[r] \subseteq issued
    BY DEF CodeInv
  <2>2. StoreType'
    <3>1. active' \subseteq issued
      BY <1>3, <2>1 DEF CommitOn, TypeOK
    <3>2. /\ secret' \in Secrets \cup {None} /\ enabled' \in BOOLEAN
          /\ pending' \in Secrets \cup {None} /\ pendingAt' \in Nat
      <4>1. CASE holds[r]
        BY <1>3, <4>1 DEF CommitOn, TypeOK
      <4>2. CASE ~holds[r]
        BY <1>3, <4>2 DEF CommitOn, TypeOK
      <4> QED
        BY <4>1, <4>2
    <3> QED
      BY <1>3, <3>1, <3>2 DEF CommitOn, TypeOK, StoreType
  <2> QED
    BY <1>3, <2>2, ReturnType DEF CommitOn
<1>4. CASE CommitOff(r)
  <2>1. StoreType'
    <3>1. active' \subseteq issued
      BY <1>4 DEF CommitOff, TypeOK
    <3>2. /\ secret' \in Secrets \cup {None} /\ enabled' \in BOOLEAN
          /\ pending' \in Secrets \cup {None} /\ pendingAt' \in Nat
      <4>1. CASE holds[r]
        <5>1. secret' = None /\ enabled' = FALSE /\ pending' = None /\ pendingAt' = 0
          BY <1>4, <4>1 DEF CommitOff
        <5> QED
          BY <5>1
      <4>2. CASE ~holds[r]
        BY <1>4, <4>2 DEF CommitOff, TypeOK
      <4> QED
        BY <4>1, <4>2
    <3> QED
      BY <1>4, <3>1, <3>2 DEF CommitOff, TypeOK, StoreType
  <2> QED
    BY <1>4, <2>1, ReturnType DEF CommitOff
<1>5. CASE Abort(r)
  <2>1. StoreType'
    BY <1>5 DEF Abort, TypeOK, StoreType
  <2> QED
    BY <1>5, <2>1, ReturnType DEF Abort
<1>6. CASE AbortClaimed(r)
  <2>1. StoreType'
    BY <1>6 DEF AbortClaimed, TypeOK, StoreType
  <2> QED
    BY <1>6, <2>1, ReturnType DEF AbortClaimed
<1> QED
  BY <1>1, <1>2, <1>3, <1>4, <1>5, <1>6

LEMMA ActsType ==
  ASSUME TypeOK, CallInv, ClaimInv, CodeInv, NEW r \in Reqs, Acts(r)
  PROVE  TypeOK'
<1>1. CallType' /\ StoreType'
  BY BeginType, EnrolType, VerifyType, TransactionType DEF Acts, Step
<1> QED
  BY <1>1 DEF TypeOK, CallType, StoreType

Environment == Cleanup \/ SoftDelete \/ Tick \/ \E c \in Totp : DropEntry(c)

LEMMA EnvironmentType ==
  ASSUME TypeOK, Environment
  PROVE  TypeOK'
<1> USE DEF user, history, calls
<1>1. CASE Cleanup
  BY <1>1 DEF Cleanup, TypeOK
<1>2. CASE SoftDelete
  BY <1>2 DEF SoftDelete, TypeOK
<1>3. CASE Tick
  BY <1>3 DEF Tick, TypeOK
<1>4. ASSUME NEW c \in Totp, DropEntry(c) PROVE TypeOK'
  BY <1>4 DEF DropEntry, TypeOK
<1> QED
  BY <1>1, <1>2, <1>3, <1>4 DEF Environment
-----------------------------------------------------------------------------
(* The calls and the lock on the user's row                                  *)

LEMMA CallKeeps ==
  ASSUME TypeOK, CallInv, NEW r \in Reqs, Others(r), Moves(r)
  PROVE  CallInv'
<1> SUFFICES ASSUME NEW s \in Reqs
             PROVE  /\ pc'[s] = "setupWrite" => saw'[s] # None
                    /\ pc'[s] \in {"confirmUser", "confirmDraft", "activate", "commitOn"}
                         => goal'[s] = "verify"
                    /\ pc'[s] \in {"disable", "commitOff"} => goal'[s] = "disable"
                    /\ holds'[s] => pc'[s] \in {"invalidate", "invalidating", "commitOn", "commitOff"}
  BY DEF CallInv
<1>1. CASE s # r
  BY <1>1 DEF CallInv, Others
<1>2. CASE s = r
  <2>1. CASE pc'[r] = "idle" /\ ~holds'[r]
    BY <1>2, <2>1
  <2>2. CASE /\ pc[r] = "idle" /\ holds'[r] = holds[r]
             /\ pc'[r] \in {"setupUser", "confirmUser", "verifyUser"}
             /\ pc'[r] = "confirmUser" => goal'[r] = "verify"
    BY <1>2, <2>2 DEF CallInv
  <2>3. CASE goal'[r] = goal[r] /\ holds'[r] = holds[r] /\ pc'[r] # "idle"
    <3>1. goal[r] \in {"verify", "disable"}
      BY DEF TypeOK
    <3> QED
      BY <1>2, <2>3, <3>1 DEF CallInv, Moves
  <2>4. CASE goal'[r] = goal[r] /\ pc'[r] = "invalidate"
    BY <1>2, <2>4
  <2> QED
    BY <2>1, <2>2, <2>3, <2>4 DEF Moves
<1> QED
  BY <1>1, <1>2

LEMMA CallInvInit == Init => CallInv /\ LockInv /\ EnrolmentConsistent
BY DEF Init, CallInv, LockInv, EnrolmentConsistent

(* A call that writes the row, or takes its lock, is the only holder. *)
LEMMA LockKeeps ==
  ASSUME TypeOK, CallInv, LockInv, EnrolmentConsistent, NEW r \in Reqs, Effect(r)
  PROVE  LockInv'
<1> USE DEF Effect
<1>1. ASSUME NEW s \in Reqs, s # r, holds'[s], holds'[r] PROVE FALSE
  BY <1>1 DEF Others, Moves, LockInv, UserFree
<1>2. ASSUME NEW s \in Reqs, NEW t \in Reqs, holds'[s], holds'[t] PROVE s = t
  BY <1>1, <1>2 DEF Others, LockInv
<1>3. ASSUME NEW s \in Reqs, holds'[s]
      PROVE  IF goal'[s] = "disable" THEN enabled' ELSE pending' # None
  <2>1. CASE s # r
    <3>1. holds[s] /\ goal'[s] = goal[s]
      BY <1>3, <2>1 DEF Others
    <3>2. enabled' = enabled /\ pending' = pending
      BY <2>1, <3>1 DEF WritesUser, LockInv, UserFree
    <3> QED
      BY <3>1, <3>2 DEF LockInv
  <2>2. CASE s = r
    <3>1. CASE holds[r]
      <4>1. pc'[r] # "idle"
        BY <1>3, <2>2, <3>1 DEF Moves, CallInv
      <4>2. goal'[r] = goal[r] /\ pc[r] \notin {"setupWrite", "commitOn", "commitOff"}
        BY <3>1, <4>1, <1>3, <2>2 DEF Moves, CallInv
      <4>3. enabled' = enabled /\ pending' = pending
        BY <4>2 DEF WritesUser
      <4> QED
        BY <2>2, <3>1, <4>2, <4>3 DEF LockInv
    <3>2. CASE ~holds[r]
      <4>1. /\ goal'[r] = goal[r] /\ pc[r] \in {"activate", "disable"}
            /\ IF pc[r] = "disable" THEN enabled ELSE pending # None
        BY <1>3, <2>2, <3>2 DEF Moves, TypeOK
      <4>2. IF goal'[r] = "disable" THEN enabled ELSE pending # None
        BY <4>1 DEF CallInv
      <4>3. enabled' = enabled /\ pending' = pending
        BY <4>1 DEF WritesUser
      <4> QED
        BY <2>2, <4>2, <4>3
    <3> QED
      BY <3>1, <3>2
  <2> QED
    BY <2>1, <2>2
<1> QED
  BY <1>2, <1>3 DEF LockInv

LEMMA EnrolmentKeeps ==
  ASSUME TypeOK, CallInv, LockInv, EnrolmentConsistent, NEW r \in Reqs, Effect(r)
  PROVE  EnrolmentConsistent'
<1>1. CASE UNCHANGED <<secret, enabled, pending>>
  BY <1>1 DEF EnrolmentConsistent
<1>2. CASE ~enabled /\ UNCHANGED <<secret, enabled>>
  BY <1>2 DEF EnrolmentConsistent
<1>3. CASE /\ pc[r] = "commitOn" /\ holds[r]
           /\ secret' = pending /\ enabled' = TRUE /\ pending' = None
  <2>1. pending # None
    BY <1>3 DEF CallInv, LockInv
  <2> QED
    BY <1>3, <2>1 DEF EnrolmentConsistent
<1>4. CASE secret' = None /\ enabled' = FALSE
  BY <1>4 DEF EnrolmentConsistent
<1> QED
  BY <1>1, <1>2, <1>3, <1>4 DEF Effect, WritesUser
-----------------------------------------------------------------------------
(* The codes                                                                 *)

LEMMA CodeInvInit == Init => ClaimInv /\ CodeInv /\ SpentStaysSpent /\ ReplayInv /\ FactorsAreSingleUse
BY DEF Init, ClaimInv, CodeInv, SpentStaysSpent, ReplayInv, FactorsAreSingleUse

(* The window of a code that passed its test has begun. *)
LEMMA ClaimKeeps ==
  ASSUME TypeOK, ClaimInv, NEW r \in Reqs, Effect(r)
  PROVE  ClaimInv'
<1> SUFFICES ASSUME NEW s \in Reqs, pc'[s] = "claimCode"
             PROVE  factor'[s] \in Totp /\ (factor'[s].step - 1) * StepLen <= now'
  BY DEF ClaimInv
<1>1. now' = now
  BY DEF Effect, WritesCodes
<1>2. CASE s # r
  BY <1>1, <1>2 DEF Effect, Others, ClaimInv
<1>3. CASE s = r
  <2>1. VerifyCode(saw[r], factor[r]) /\ factor'[r] = factor[r]
    BY <1>3 DEF Effect, Moves
  <2>2. factor[r] \in Totp /\ factor[r].step \in Nat /\ now \in Nat
    BY <2>1, StepFact DEF VerifyCode, TypeOK
  <2>3. (factor[r].step - 1) * StepLen <= now
    BY <2>1, <2>2, Window DEF VerifyCode
  <2> QED
    BY <1>1, <1>3, <2>1, <2>2, <2>3
<1> QED
  BY <1>2, <1>3

(* The codes of a confirmation are new; those of the other calls stay. *)
LEMMA CodeKeeps ==
  ASSUME TypeOK, ClaimInv, CodeInv, SpentStaysSpent, NEW r \in Reqs, Effect(r)
  PROVE  CodeInv' /\ SpentStaysSpent'
<1>1. \A s \in Reqs : s # r => batch'[s] = batch[s]
  BY DEF Effect, Others
<1>2. active \subseteq issued /\ active \subseteq Recovery
  BY DEF TypeOK
<1>3. CASE /\ UNCHANGED <<active, issued, spent>>
           /\ batch'[r] \in {batch[r], {}}
  BY <1>1, <1>2, <1>3 DEF CodeInv, SpentStaysSpent
<1>4. CASE /\ UNCHANGED <<active, spent>>
           /\ batch'[r] \subseteq Recovery \ issued
           /\ issued' = issued \cup batch'[r]
  BY <1>1, <1>2, <1>4 DEF CodeInv, SpentStaysSpent
<1>5. CASE /\ UNCHANGED <<issued, spent>>
           /\ active' \subseteq active \cup batch[r]
           /\ batch'[r] = {}
  BY <1>1, <1>2, <1>5 DEF CodeInv, SpentStaysSpent
<1>6. CASE /\ UNCHANGED issued
           /\ factor[r] \in active /\ active' = active \ {factor[r]}
           /\ Accepts(r) /\ batch'[r] \in {batch[r], {}}
  BY <1>1, <1>2, <1>6 DEF CodeInv, SpentStaysSpent, Accepts
<1>7. CASE /\ UNCHANGED <<issued, active>>
           /\ pc[r] = "claimCode"
           /\ Accepts(r) /\ batch'[r] \in {batch[r], {}}
  <2>1. factor[r] \notin Recovery
    BY <1>7, TwoFactorAssumption DEF ClaimInv
  <2>2. \A s \in Reqs : batch[s] \subseteq Recovery
    BY DEF TypeOK
  <2> QED
    BY <1>1, <1>2, <1>7, <2>1, <2>2 DEF CodeInv, SpentStaysSpent, Accepts
<1> QED
  BY <1>3, <1>4, <1>5, <1>6, <1>7 DEF Effect, WritesCodes

(* Entering a tested code in the cache, and accepting it, keeps every        *)
(* accepted code remembered.                                                 *)
LEMMA EntryRemembers ==
  ASSUME TypeOK, ClaimInv, ReplayInv, NEW r \in Reqs, pc[r] = "claimCode",
         cachedAt' = [cachedAt EXCEPT ![factor[r]] = now],
         UNCHANGED <<now, dropped>>, spent' \subseteq spent \cup {factor[r]}
  PROVE  ReplayInv'
<1>1. factor[r] \in Totp /\ now \in Nat /\ (factor[r].step - 1) * StepLen <= now
  BY DEF ClaimInv, TypeOK
<1>2. cachedAt'[factor[r]] = now /\ now # Absent
  BY <1>1 DEF TypeOK, Absent
<1>3. ASSUME NEW f, f = factor[r] PROVE Remembered(f)'
  BY <1>1, <1>2, <1>3 DEF Remembered
<1>4. ASSUME NEW f \in spent' \cap Totp, f # factor[r] PROVE Remembered(f)'
  <2>1. f \in spent \cap Totp /\ cachedAt'[f] = cachedAt[f]
    BY <1>4 DEF TypeOK
  <2> QED
    BY <2>1 DEF ReplayInv, Remembered
<1> QED
  BY <1>3, <1>4 DEF ReplayInv

(* A recovery code accepted now was not spent; a TOTP code that was spent is *)
(* one the cache has lost, or is claimed too late.                           *)
LEMMA ReplayKeeps ==
  ASSUME TypeOK, ClaimInv, SpentStaysSpent, ReplayInv, FactorsAreSingleUse,
         NEW r \in Reqs, Effect(r)
  PROVE  ReplayInv' /\ FactorsAreSingleUse'
<1>1. now' = now /\ dropped' = dropped
  BY DEF Effect, WritesCodes
<1>2. CASE UNCHANGED <<spent, respent, late, cachedAt>>
  BY <1>1, <1>2 DEF ReplayInv, Remembered, FactorsAreSingleUse
<1>3. CASE UNCHANGED <<late, cachedAt>> /\ factor[r] \in active /\ Accepts(r)
  <2>1. factor[r] \notin spent /\ factor[r] \notin Totp
    BY <1>3, TwoFactorAssumption DEF SpentStaysSpent, TypeOK
  <2>2. respent' = respent /\ spent' \cap Totp = spent \cap Totp
    BY <1>3, <2>1 DEF Accepts
  <2> QED
    BY <1>1, <1>3, <2>2 DEF ReplayInv, Remembered, FactorsAreSingleUse
<1>4. CASE /\ pc[r] = "claimCode" /\ ~Replayed(factor[r])
           /\ cachedAt' = [cachedAt EXCEPT ![factor[r]] = now]
           /\ late' = IF VerifyCode(factor[r].key, factor[r]) THEN late ELSE late \cup {factor[r]}
           /\ Accepts(r)
  <2>1. factor[r] \in Totp
    BY <1>4 DEF ClaimInv
  <2>2. factor[r] \in spent => factor[r] \in dropped \cup late'
    BY <1>4, <2>1, ReplayedIfSpent
  <2>3. late \subseteq late'
    BY <1>4
  <2>4. FactorsAreSingleUse'
    BY <1>1, <1>4, <2>2, <2>3 DEF Accepts, FactorsAreSingleUse
  <2>5. ReplayInv'
    BY <1>1, <1>4, EntryRemembers DEF Accepts
  <2> QED
    BY <2>4, <2>5
<1>5. CASE /\ UNCHANGED <<spent, respent, late>> /\ pc[r] = "claimCode"
           /\ cachedAt' = [cachedAt EXCEPT ![factor[r]] = now]
  <2>1. ReplayInv'
    BY <1>1, <1>5, EntryRemembers
  <2> QED
    BY <1>1, <1>5, <2>1 DEF FactorsAreSingleUse
<1> QED
  BY <1>2, <1>3, <1>4, <1>5 DEF Effect, WritesCodes
-----------------------------------------------------------------------------
(* The environment                                                           *)

LEMMA EnvironmentKeeps ==
  ASSUME IInv, Environment
  PROVE  IInv'
<1>1. TypeOK'
  BY EnvironmentType DEF IInv
<1> USE DEF user, history, calls
<1>2. CASE Cleanup
  <2>1. CallInv' /\ LockInv'
    BY <1>2 DEF Cleanup, IInv, CallInv, LockInv
  <2>2. EnrolmentConsistent'
    BY <1>2 DEF Cleanup, IInv, EnrolmentConsistent
  <2>3. ClaimInv' /\ CodeInv' /\ SpentStaysSpent' /\ ReplayInv' /\ FactorsAreSingleUse'
    BY <1>2 DEF Cleanup, IInv, ClaimInv, CodeInv, SpentStaysSpent, ReplayInv, Remembered, FactorsAreSingleUse
  <2> QED
    BY <1>1, <2>1, <2>2, <2>3 DEF IInv
<1>3. CASE SoftDelete
  <2>1. CallInv' /\ LockInv' /\ EnrolmentConsistent'
    BY <1>3 DEF SoftDelete, IInv, CallInv, LockInv, EnrolmentConsistent
  <2>2. ClaimInv' /\ CodeInv' /\ SpentStaysSpent' /\ ReplayInv' /\ FactorsAreSingleUse'
    BY <1>3 DEF SoftDelete, IInv, ClaimInv, CodeInv, SpentStaysSpent, ReplayInv, Remembered, FactorsAreSingleUse
  <2> QED
    BY <1>1, <2>1, <2>2 DEF IInv
<1>4. CASE Tick
  <2>1. CallInv' /\ LockInv' /\ EnrolmentConsistent'
    BY <1>4 DEF Tick, IInv, CallInv, LockInv, EnrolmentConsistent
  <2>2. CodeInv' /\ SpentStaysSpent' /\ FactorsAreSingleUse'
    BY <1>4 DEF Tick, IInv, CodeInv, SpentStaysSpent, FactorsAreSingleUse
  <2>3. ASSUME NEW f \in spent \cap Totp PROVE Remembered(f)'
    <3>1. (f.step + 2) * StepLen \in Int /\ now \in Nat /\ now' = now + 1
      BY <1>4, StepFact, TwoFactorAssumption DEF Tick, IInv, TypeOK
    <3> QED
      BY <1>4, <3>1 DEF Tick, IInv, ReplayInv, Remembered
  <2>4. ASSUME NEW r \in Reqs, pc'[r] = "claimCode"
        PROVE  factor'[r] \in Totp /\ (factor'[r].step - 1) * StepLen <= now'
    <3>1. factor[r] \in Totp /\ (factor[r].step - 1) * StepLen <= now /\ factor'[r] = factor[r]
      BY <1>4, <2>4 DEF Tick, IInv, ClaimInv
    <3>2. (factor[r].step - 1) * StepLen \in Int /\ now \in Nat /\ now' = now + 1
      BY <1>4, <3>1, StepFact, TwoFactorAssumption DEF Tick, IInv, TypeOK
    <3> QED
      BY <3>1, <3>2
  <2> QED
    BY <1>1, <1>4, <2>1, <2>2, <2>3, <2>4 DEF Tick, IInv, ReplayInv, ClaimInv
<1>5. ASSUME NEW c \in Totp, DropEntry(c) PROVE IInv'
  <2>1. CallInv' /\ LockInv' /\ EnrolmentConsistent'
    BY <1>5 DEF DropEntry, IInv, CallInv, LockInv, EnrolmentConsistent
  <2>2. ClaimInv' /\ CodeInv' /\ SpentStaysSpent' /\ FactorsAreSingleUse'
    BY <1>5 DEF DropEntry, IInv, ClaimInv, CodeInv, SpentStaysSpent, FactorsAreSingleUse
  <2>3. ASSUME NEW f \in spent \cap Totp PROVE Remembered(f)'
    <3>1. Remembered(f)
      BY DEF IInv, ReplayInv
    <3>2. dropped \subseteq dropped' /\ now' = now
      BY <1>5 DEF DropEntry
    <3>3. CASE f # c
      <4>1. cachedAt'[f] = cachedAt[f]
        BY <1>5, <3>3 DEF DropEntry, IInv, TypeOK
      <4> QED
        BY <3>1, <3>2, <4>1 DEF Remembered
    <3>4. CASE f = c /\ Replayed(c)
      BY <1>5, <3>4 DEF DropEntry, Remembered
    <3>5. CASE f = c /\ ~Replayed(c)
      <4>1. /\ f.step \in Nat /\ now \in Nat /\ StepLen \in Nat
            /\ cachedAt[f] # Absent /\ cachedAt[f] \in Nat
        BY <1>5, <3>5, StepFact, TwoFactorAssumption DEF DropEntry, IInv, TypeOK
      <4>2. cachedAt[f] + 3 * StepLen <= now
        BY <3>5, <4>1 DEF Replayed, ReplayTTL
      <4>3. (f.step + 2) * StepLen = (f.step - 1) * StepLen + 3 * StepLen
        BY <4>1, Window
      <4>4. (f.step + 2) * StepLen \in Int /\ (f.step - 1) * StepLen \in Int /\ 3 * StepLen \in Int
        BY <4>1
      <4>5. (f.step - 1) * StepLen <= cachedAt[f] => (f.step + 2) * StepLen <= now
        BY <4>1, <4>2, <4>3, <4>4
      <4> QED
        BY <3>1, <3>2, <4>5 DEF Remembered
    <3> QED
      BY <3>3, <3>4, <3>5
  <2> QED
    BY <1>1, <1>5, <2>1, <2>2, <2>3 DEF DropEntry, IInv, ReplayInv
<1> QED
  BY <1>2, <1>3, <1>4, <1>5 DEF Environment

LEMMA StutterKeeps ==
  ASSUME IInv, UNCHANGED vars
  PROVE  IInv'
BY DEF vars, IInv, TypeOK, CallInv, LockInv, EnrolmentConsistent, ClaimInv, CodeInv,
       SpentStaysSpent, ReplayInv, Remembered, FactorsAreSingleUse

THEOREM Invariance == Spec => []IInv
<1>1. Init => IInv
  BY InitType, CallInvInit, CodeInvInit DEF IInv
<1>2. IInv /\ [Next]_vars => IInv'
  <2> SUFFICES ASSUME IInv, [Next]_vars PROVE IInv'
    OBVIOUS
  <2>1. ASSUME NEW r \in Reqs, Acts(r) PROVE IInv'
    <3>1. Effect(r)
      BY <2>1, CallEffect DEF IInv
    <3>2. TypeOK'
      BY <2>1, ActsType DEF IInv
    <3>3. CallInv'
      BY <3>1, CallKeeps DEF IInv, Effect
    <3>4. LockInv' /\ EnrolmentConsistent'
      BY <3>1, LockKeeps, EnrolmentKeeps DEF IInv
    <3>5. ClaimInv' /\ CodeInv' /\ SpentStaysSpent' /\ ReplayInv' /\ FactorsAreSingleUse'
      BY <3>1, ClaimKeeps, CodeKeeps, ReplayKeeps DEF IInv
    <3> QED
      BY <3>2, <3>3, <3>4, <3>5 DEF IInv
  <2> QED
    BY <2>1, EnvironmentKeeps, StutterKeeps DEF Next, Acts, Environment
<1> QED
  BY <1>1, <1>2, PTL DEF Spec

-----------------------------------------------------------------------------
(* Theorems                                                                  *)

(* Every variable keeps its type; the active recovery codes are issued ones, *)
(* and only accepted factors are accepted again.                             *)
THEOREM TypeCorrect == Spec => []TypeOK
BY Invariance, PTL DEF IInv

(* verify_2fa_code and disable_2fa accept no factor twice, however many of   *)
(* them race for it and however long one waits between the test of a code    *)
(* and its claim: a recovery code never; a TOTP code only if the cache lost  *)
(* its unexpired entry, or a claim came after the code's window.  What       *)
(* confirm_2fa accepts is not counted.                                       *)
THEOREM FactorsSingleUse == Spec => []FactorsAreSingleUse
BY Invariance, PTL DEF IInv

(* No commit or rollback of confirm_2fa or disable_2fa makes a consumed      *)
(* recovery code active again, and no code is active before its transaction  *)
(* has committed.                                                            *)
THEOREM SpentStays == Spec => []SpentStaysSpent
BY Invariance, PTL DEF IInv

(* However setups, confirmations, disablings and the clean-up interleave,    *)
(* 2FA is on exactly when there is a secret, and then without a draft.       *)
THEOREM EnrolmentStaysConsistent == Spec => []EnrolmentConsistent
BY Invariance, PTL DEF IInv
=============================================================================
