----------------------- MODULE ProofValidationProofs -----------------------
(***************************************************************************)
(* A DPoP proof is accepted once, for every clock skew, cache capacity,    *)
(* number of requests and order of their steps, as long as the truncation  *)
(* of the clock and the latency stay below the buffer of the jti TTL.      *)
(***************************************************************************)
EXTENDS ProofValidation, TLAPS

LEMMA Naturals ==
  /\ ClockSkew \in Nat /\ Buffer \in Nat /\ NonceTTL \in Nat
  /\ Truncation \in Nat /\ MaxDelay \in Nat /\ MaxTime \in Nat
  BY ConstantsAssumption

LEMMA InitIInv == Init => IInv
<1> SUFFICES ASSUME Init PROVE IInv
  OBVIOUS
<1> USE ConstantsAssumption DEF Init
<1>1. TypeOK
  BY DEF TypeOK, Replies
<1>2. DelayInv /\ Remembered /\ RetryInv
  BY DEF DelayInv, Remembered, RetryInv
<1>3. NoReplay /\ SlotsFromFreshProofs /\ SessionBelongsToKeyHolder
  BY DEF NoReplay, SlotsFromFreshProofs, SessionBelongsToKeyHolder
<1> QED
  BY <1>1, <1>2, <1>3 DEF IInv

(* The parts of the invariant about the caches, for a step that leaves the   *)
(* jti cache and the history alone.                                          *)
LEMMA CachesKept ==
  ASSUME IInv, TypeOK', DelayInv', RetryInv',
         UNCHANGED <<now, seen, seenAt, accepted, replayed, lost>>,
         \A r \in Reqs : reply'[r] = "ok" =>
            reply[r] = "ok" /\ prf'[r] = prf[r] /\ tkn'[r] = tkn[r]
  PROVE  IInv'
<1>1. Remembered'
  BY DEF IInv, Remembered
<1>2. NoReplay' /\ SlotsFromFreshProofs'
  BY DEF IInv, NoReplay, SlotsFromFreshProofs
<1>3. SessionBelongsToKeyHolder'
  BY DEF IInv, SessionBelongsToKeyHolder
<1> QED
  BY <1>1, <1>2, <1>3 DEF IInv

-----------------------------------------------------------------------------
(* Requests *)

(* A proof goes out: a new one, or one sent before. *)
LEMMA SendKeeps ==
  ASSUME IInv, NEW r \in Reqs, NEW p \in Proof, NEW a \in AccessTokens \cup {None},
         NEW i \in 0..2, Send(r, p, a, i), pc[r] = "idle",
         given' \in [Reqs -> issued \cup {None}],
         \A s \in Reqs \ {r} : given'[s] = given[s],
         i = 2 => p.nonce = given'[r] /\ given'[r] \in issued
  PROVE  IInv'
<1> USE DEF Send, caches, history
<1>1. TypeOK'
  BY DEF IInv, TypeOK, Replies
<1>2. DelayInv'
  BY DEF IInv, TypeOK, DelayInv
<1>3. RetryInv'
  BY DEF IInv, TypeOK, RetryInv, NonceValid
<1>4. \A s \in Reqs : reply'[s] = "ok" =>
         reply[s] = "ok" /\ prf'[s] = prf[s] /\ tkn'[s] = tkn[s]
  BY DEF IInv, TypeOK
<1> QED
  BY <1>1, <1>2, <1>3, <1>4, CachesKept

LEMMA SignedProofs ==
  ASSUME NEW j \in Jtis, NEW k \in Keys, NEW n \in Nonces \cup {None},
         NEW a \in AccessTokens \cup {None}
  PROVE  Sign(j, k, n, a) \subseteq Proof /\ \A p \in Sign(j, k, n, a) : p.nonce = n
  BY Naturals DEF Sign, Proof

LEMMA ClientKeeps ==
  ASSUME IInv, NEW r \in Reqs,
         \/ \E j \in Jtis, k \in Keys, a \in AccessTokens \cup {None} : Call(r, j, k, a)
         \/ \E j \in Jtis : Retry(r, j)
         \/ \E p \in sent, a \in AccessTokens \cup {None} : Redeliver(r, p, a)
  PROVE  IInv'
<1>1. ASSUME NEW j \in Jtis, NEW k \in Keys, NEW a \in AccessTokens \cup {None},
             Call(r, j, k, a)
      PROVE  IInv'
  <2>1. PICK p \in Sign(j, k, None, a) : Send(r, p, a, 1)
    BY <1>1 DEF Call
  <2>2. p \in Proof
    BY SignedProofs
  <2>3. /\ given' \in [Reqs -> issued \cup {None}]
        /\ \A s \in Reqs \ {r} : given'[s] = given[s]
    BY <1>1 DEF Call, IInv, TypeOK
  <2> QED
    BY <1>1, <2>1, <2>2, <2>3, SendKeeps DEF Call
<1>2. ASSUME NEW j \in Jtis, Retry(r, j) PROVE IInv'
  <2>1. /\ given[r] \in issued /\ given[r] \in Nonces
        /\ prf[r] \in Proof /\ prf[r].key \in Keys
        /\ tkn[r] \in AccessTokens \cup {None} /\ given' = given
        /\ given \in [Reqs -> issued \cup {None}]
    BY <1>2 DEF Retry, IInv, TypeOK, RetryInv, Proof
  <2>2. PICK p \in Sign(j, prf[r].key, given[r], tkn[r]) : Send(r, p, tkn[r], 2)
    BY <1>2 DEF Retry
  <2>3. p \in Proof /\ p.nonce = given[r]
    BY <2>1, SignedProofs
  <2> QED
    BY <1>2, <2>1, <2>2, <2>3, SendKeeps DEF Retry
<1>3. ASSUME NEW p \in sent, NEW a \in AccessTokens \cup {None}, Redeliver(r, p, a)
      PROVE  IInv'
  <2>1. /\ p \in Proof
        /\ given' \in [Reqs -> issued \cup {None}]
        /\ \A s \in Reqs \ {r} : given'[s] = given[s]
    BY <1>3 DEF Redeliver, IInv, TypeOK
  <2> QED
    BY <1>3, <2>1, SendKeeps DEF Redeliver
<1> QED
  BY <1>1, <1>2, <1>3

(* A request that ends in an error, and changes no cache, keeps IInv. *)
LEMMA ForgetKeeps ==
  ASSUME IInv, NEW r \in Reqs, Forget(r), UNCHANGED <<now, sent, caches, history>>
  PROVE  IInv'
<1> USE ConstantsAssumption DEF Forget, Answer, caches, history
<1>1. TypeOK'
  BY DEF IInv, TypeOK, Replies
<1>2. DelayInv'
  BY DEF IInv, TypeOK, DelayInv
<1>3. RetryInv'
  BY DEF IInv, TypeOK, RetryInv, NonceValid
<1>4. \A s \in Reqs : reply'[s] = "ok" =>
         reply[s] = "ok" /\ prf'[s] = prf[s] /\ tkn'[s] = tkn[s]
  BY DEF IInv, TypeOK
<1> QED
  BY <1>1, <1>2, <1>3, <1>4, CachesKept

(* The window is tested on a clock that lags by at most Truncation. *)
LEMMA ScreenKeeps ==
  ASSUME IInv, NEW r \in Reqs, Screen(r)
  PROVE  IInv'
<1>1. CASE Malformed(r)
  BY <1>1, ForgetKeeps DEF Screen, Malformed
<1>2. ASSUME NEW c \in ClockReadings, InWindow(prf[r].iat, c), pc[r] = "screen",
             pc' = [pc EXCEPT ![r] = "nonce"], at' = [at EXCEPT ![r] = now],
             UNCHANGED <<now, sent, caches, history, prf, tkn, attempt, given, reply>>
      PROVE  IInv'
  <2> USE <1>2, Naturals DEF caches, history
  <2>1. prf[r] \in sent /\ prf[r].iat \in Nat /\ now \in Nat
    BY DEF IInv, TypeOK, DelayInv, Proof
  <2>2. prf[r].iat - ClockSkew <= now /\ now <= prf[r].iat + ClockSkew + Truncation
    BY <2>1 DEF InWindow, ClockReadings
  <2>3. TypeOK'
    BY DEF IInv, TypeOK
  <2>4. DelayInv'
    BY <2>1, <2>2 DEF IInv, TypeOK, DelayInv
  <2>5. RetryInv'
    BY DEF IInv, TypeOK, RetryInv, NonceValid
  <2> QED
    BY <2>3, <2>4, <2>5, CachesKept
<1> QED
  BY <1>1, <1>2 DEF Screen

LEMMA PassNonceKeeps ==
  ASSUME IInv, NEW r \in Reqs, PassNonce(r)
  PROVE  IInv'
<1> USE DEF PassNonce, caches, history
<1>1. TypeOK'
  BY DEF IInv, TypeOK
<1>2. DelayInv'
  BY DEF IInv, TypeOK, DelayInv
<1>3. RetryInv'
  BY DEF IInv, TypeOK, RetryInv, NonceValid
<1> QED
  BY <1>1, <1>2, <1>3, CachesKept

(* A challenge issues a nonce that was never issued before, so it makes no   *)
(* nonce that was gone valid again.                                          *)
LEMMA ChallengeKeeps ==
  ASSUME IInv, NEW r \in Reqs, Challenge(r)
  PROVE  IInv'
<1>1. PICK n \in Nonces \ issued :
        /\ nonces' = nonces \cup {n} /\ issued' = issued \cup {n}
        /\ nonceAt' = [nonceAt EXCEPT ![n] = now]
        /\ \/ attempt[r] = 0 /\ Forget(r)
           \/ /\ attempt[r] = 1 /\ Answer(r, "challenge")
              /\ given' = [given EXCEPT ![r] = n]
              /\ UNCHANGED <<prf, tkn, attempt>>
           \/ /\ attempt[r] = 2 /\ Answer(r, "limit")
              /\ UNCHANGED <<prf, tkn, attempt, given>>
  BY DEF Challenge
<1>2. /\ pc[r] = "nonce" /\ ~NonceAccepted(r) /\ prf[r] \in Proof
      /\ UNCHANGED <<now, sent, seen, seenAt, accepted, replayed, lost>>
  BY DEF Challenge, history, IInv, TypeOK, DelayInv
<1> USE ConstantsAssumption
<1>3. /\ pc'[r] = "idle" /\ reply'[r] # "ok"
      /\ reply'[r] = "challenge" => attempt[r] = 1
      /\ reply'[r] = "limit" => attempt[r] = 2
      /\ attempt'[r] = 2 => attempt[r] = 2
      /\ attempt[r] \in {1, 2} => prf'[r] = prf[r] /\ attempt'[r] = attempt[r]
      /\ attempt[r] = 1 => given'[r] = n
      /\ attempt[r] = 2 => given'[r] = given[r]
      /\ \A s \in Reqs \ {r} :
           /\ pc'[s] = pc[s] /\ prf'[s] = prf[s] /\ tkn'[s] = tkn[s]
           /\ at'[s] = at[s] /\ attempt'[s] = attempt[s]
           /\ given'[s] = given[s] /\ reply'[s] = reply[s]
  BY <1>1 DEF Forget, Answer, IInv, TypeOK
<1>4. TypeOK'
  <2>1. CASE attempt[r] = 0 /\ Forget(r)
    BY <2>1, <1>1, <1>2 DEF Forget, Answer, IInv, TypeOK, Replies
  <2>2. CASE attempt[r] # 0
    BY <2>2, <1>1, <1>2 DEF Forget, Answer, IInv, TypeOK, Replies
  <2> QED
    BY <2>1, <2>2, <1>1
<1>5. DelayInv'
  BY <1>2, <1>3 DEF IInv, DelayInv
<1>6. \A m \in issued : NonceValid(m)' => NonceValid(m)
  BY <1>1, <1>2 DEF NonceValid, IInv, TypeOK
<1>7. RetryInv'
  <2>1. attempt[r] = 2 => given[r] \in issued /\ ~NonceValid(given[r])
    BY <1>2 DEF NonceAccepted, IInv, RetryInv
  <2>2. \A s \in Reqs : reply[s] = "limit" => given[s] \in issued
    BY DEF IInv, RetryInv
  <2> SUFFICES ASSUME NEW s \in Reqs
               PROVE  /\ attempt'[s] = 2 => /\ prf'[s] \in Proof
                                            /\ prf'[s].nonce = given'[s]
                                            /\ given'[s] \in issued'
                      /\ reply'[s] = "challenge" => given'[s] \in issued' /\ prf'[s] \in Proof
                      /\ reply'[s] = "limit" =>
                           attempt'[s] = 2 /\ given[s] = given'[s] /\ ~NonceValid(given[s])
                                           /\ given[s] \in issued
    BY <1>6, <1>1 DEF RetryInv, NonceValid
  <2>3. CASE s = r
    BY <2>3, <2>1, <1>1, <1>2, <1>3 DEF IInv, RetryInv
  <2>4. CASE s # r
    BY <2>4, <2>2, <1>1, <1>3 DEF IInv, RetryInv
  <2> QED
    BY <2>3, <2>4
<1> QED
  BY <1>2, <1>3, <1>4, <1>5, <1>7, CachesKept

(* The heart of the argument: a proof that was accepted before, and whose    *)
(* entry was not dropped, is still remembered when a request could consume   *)
(* it again.                                                                 *)
LEMMA AcceptedIsSeen ==
  ASSUME IInv, NEW r \in Reqs, pc[r] = "jti", prf[r] \in accepted, prf[r].jti \notin lost
  PROVE  JtiSeen(prf[r].jti)
<1> DEFINE p == prf[r]
<1>1. /\ p \in Proof /\ p.iat \in Nat /\ p.jti \in Jtis /\ now \in Nat
      /\ at[r] \in Nat /\ seenAt[p.jti] \in Nat
  BY DEF IInv, TypeOK, DelayInv, Proof
<1>2. now <= p.iat + ClockSkew + Truncation + MaxDelay
  BY <1>1, Naturals DEF IInv, DelayInv
<1>3. ~(p.iat + ClockSkew + Buffer <= now)
  BY <1>1, <1>2, Naturals, LatencyAssumption
<1>4. p.jti \in seen /\ p.iat - ClockSkew <= seenAt[p.jti]
  BY <1>3 DEF IInv, Remembered
<1> QED
  BY <1>1, <1>2, <1>4, Naturals, LatencyAssumption DEF JtiSeen, JtiTTL

LEMMA ConsumeKeeps ==
  ASSUME IInv, NEW r \in Reqs, Consume(r)
  PROVE  IInv'
<1>0. PICK p, j : p = prf[r] /\ j = prf[r].jti
  OBVIOUS
<1>1. /\ p \in sent /\ p \in Proof /\ p.iat \in Nat /\ j \in Jtis /\ p.jti = j
      /\ now \in Nat /\ at[r] \in Nat /\ pc[r] = "jti"
      /\ p.iat - ClockSkew <= now
      /\ now <= p.iat + ClockSkew + Truncation + MaxDelay
  <2>1. /\ p \in sent /\ p \in Proof /\ at[r] \in Nat /\ now \in Nat /\ pc[r] = "jti"
    BY <1>0 DEF Consume, IInv, TypeOK, DelayInv
  <2>2. p.iat \in Nat /\ j \in Jtis
    BY <1>0, <2>1 DEF Proof
  <2> QED
    BY <1>0, <2>1, <2>2, Naturals DEF IInv, DelayInv
<1>2. /\ seen' = seen \cup {j} /\ accepted' = accepted \cup {p}
      /\ seenAt' \in [Jtis -> Nat] /\ seenAt'[j] = now
      /\ \A k \in Jtis \ {j} : seenAt'[k] = seenAt[k]
      /\ replayed' = IF p \in accepted THEN replayed \cup {p} ELSE replayed
      /\ UNCHANGED <<now, sent, nonces, nonceAt, issued, lost>>
  BY <1>0, <1>1 DEF Consume, IInv, TypeOK
<1>3. \/ Answer(r, "ok") /\ KeyMatches(r) /\ UNCHANGED <<prf, tkn, attempt, given>>
      \/ Forget(r)
  BY DEF Consume
<1>4. TypeOK'
  <2>1. /\ pc' \in [Reqs -> {"idle", "screen", "nonce", "jti"}]
        /\ prf' \in [Reqs -> Proof \cup {None}] /\ tkn' \in [Reqs -> AccessTokens \cup {None}]
        /\ at' \in [Reqs -> Nat] /\ attempt' \in [Reqs -> 0..2]
        /\ given' \in [Reqs -> issued \cup {None}] /\ reply' \in [Reqs -> Replies]
    BY <1>3 DEF Forget, Answer, IInv, TypeOK, Replies
  <2> QED
    BY <1>1, <1>2, <2>1 DEF IInv, TypeOK
<1>5. /\ pc'[r] = "idle" /\ reply'[r] # "challenge" /\ reply'[r] # "limit"
      /\ (prf'[r] = prf[r] /\ attempt'[r] = attempt[r] /\ given'[r] = given[r]
          /\ tkn'[r] = tkn[r] /\ KeyMatches(r)) \/ (attempt'[r] = 0 /\ reply'[r] = "none")
      /\ \A s \in Reqs \ {r} :
           /\ pc'[s] = pc[s] /\ prf'[s] = prf[s] /\ tkn'[s] = tkn[s]
           /\ at'[s] = at[s] /\ attempt'[s] = attempt[s]
           /\ given'[s] = given[s] /\ reply'[s] = reply[s]
  BY <1>3 DEF Forget, Answer, IInv, TypeOK
<1>6. DelayInv'
  BY <1>2, <1>5 DEF IInv, DelayInv
<1>7. RetryInv'
  BY <1>2, <1>5 DEF IInv, RetryInv, NonceValid
<1>8. Remembered'
  <2>1. \A k \in Jtis : seenAt[k] <= now /\ seenAt[k] \in Nat /\ seenAt'[k] <= now
                        /\ seenAt[k] <= seenAt'[k]
    BY <1>1, <1>2 DEF IInv, TypeOK, Remembered
  <2>2. ASSUME NEW q \in accepted
        PROVE  \/ q.jti \in lost
               \/ q.jti \in seen' /\ q.iat - ClockSkew <= seenAt'[q.jti]
               \/ q.iat + ClockSkew + Buffer <= now
    <3>1. q.iat \in Nat /\ q.jti \in Jtis
      BY DEF IInv, TypeOK, Proof
    <3> QED
      BY <3>1, <2>1, <1>1, <1>2, Naturals DEF IInv, Remembered
  <2> QED
    BY <2>1, <2>2, <1>1, <1>2 DEF Remembered
<1>9. NoReplay'
  <2>1. ~JtiSeen(j)
    BY <1>0 DEF Consume
  <2>2. p \in accepted => j \in lost
    BY <1>0, <1>1, <2>1, AcceptedIsSeen
  <2> QED
    BY <1>1, <1>2, <2>2 DEF IInv, NoReplay
<1>10. SlotsFromFreshProofs'
  BY <1>1, <1>2 DEF IInv, TypeOK, SlotsFromFreshProofs
<1>11. SessionBelongsToKeyHolder'
  <2>1. AthMatches(r)
    BY DEF Consume
  <2>2. CASE reply'[r] = "ok"
    BY <2>1, <2>2, <1>0, <1>2, <1>5
       DEF IInv, SessionBelongsToKeyHolder, AthMatches, KeyMatches
  <2>3. CASE reply'[r] # "ok"
    BY <2>3, <1>2, <1>5 DEF IInv, SessionBelongsToKeyHolder
  <2> QED
    BY <2>2, <2>3
<1> QED
  BY <1>4, <1>6, <1>7, <1>8, <1>9, <1>10, <1>11 DEF IInv

-----------------------------------------------------------------------------
(* The environment *)

(* An entry dropped while it still counts is recorded as lost; an expired    *)
(* one is no longer needed.                                                  *)
LEMMA EvictJtiKeeps ==
  ASSUME IInv, NEW j \in Jtis, EvictJti(j)
  PROVE  IInv'
<1> USE DEF EvictJti, reqs
<1>1. TypeOK'
  BY DEF IInv, TypeOK
<1>2. DelayInv' /\ RetryInv'
  BY DEF IInv, DelayInv, RetryInv, NonceValid
<1>3. Remembered'
  <2> SUFFICES ASSUME NEW q \in accepted
               PROVE  \/ q.jti \in lost'
                      \/ q.jti \in seen' /\ q.iat - ClockSkew <= seenAt[q.jti]
                      \/ q.iat + ClockSkew + Buffer <= now
    BY DEF IInv, Remembered
  <2>1. q.iat \in Nat /\ q.jti \in Jtis /\ now \in Nat /\ seenAt[q.jti] \in Nat
    BY DEF IInv, TypeOK, Proof
  <2>2. CASE q.jti = j /\ ~JtiSeen(j) /\ q.jti \in seen /\ q.iat - ClockSkew <= seenAt[q.jti]
    BY <2>1, <2>2, Naturals DEF JtiSeen, JtiTTL
  <2>3. CASE q.jti # j \/ JtiSeen(j) \/ ~(q.jti \in seen /\ q.iat - ClockSkew <= seenAt[q.jti])
    BY <2>3 DEF IInv, Remembered
  <2> QED
    BY <2>2, <2>3
<1>4. NoReplay' /\ SlotsFromFreshProofs' /\ SessionBelongsToKeyHolder'
  BY DEF IInv, NoReplay, SlotsFromFreshProofs, SessionBelongsToKeyHolder
<1> QED
  BY <1>1, <1>2, <1>3, <1>4 DEF IInv

LEMMA RestartKeeps ==
  ASSUME IInv, Restart
  PROVE  IInv'
<1> USE DEF Restart
<1>1. TypeOK'
  BY DEF IInv, TypeOK
<1>2. DelayInv' /\ RetryInv'
  BY DEF IInv, DelayInv, RetryInv, NonceValid
<1>3. Remembered'
  <2> SUFFICES ASSUME NEW q \in accepted
               PROVE  q.jti \in lost' \/ q.iat + ClockSkew + Buffer <= now
    BY DEF IInv, Remembered
  <2>1. q.iat \in Nat /\ q.jti \in Jtis /\ now \in Nat /\ seenAt[q.jti] \in Nat
    BY DEF IInv, TypeOK, Proof
  <2>2. CASE q.jti \in seen /\ ~JtiSeen(q.jti) /\ q.iat - ClockSkew <= seenAt[q.jti]
    BY <2>1, <2>2, Naturals DEF JtiSeen, JtiTTL
  <2>3. CASE ~(q.jti \in seen /\ ~JtiSeen(q.jti) /\ q.iat - ClockSkew <= seenAt[q.jti])
    BY <2>3 DEF IInv, Remembered
  <2> QED
    BY <2>2, <2>3
<1>4. NoReplay' /\ SlotsFromFreshProofs' /\ SessionBelongsToKeyHolder'
  BY DEF IInv, NoReplay, SlotsFromFreshProofs, SessionBelongsToKeyHolder
<1> QED
  BY <1>1, <1>2, <1>3, <1>4 DEF IInv

LEMMA EvictNonceKeeps ==
  ASSUME IInv, NEW n \in Nonces, EvictNonce(n)
  PROVE  IInv'
<1> USE DEF EvictNonce, history, reqs
<1>1. TypeOK'
  BY DEF IInv, TypeOK
<1>2. DelayInv' /\ RetryInv'
  BY DEF IInv, DelayInv, RetryInv, NonceValid
<1> QED
  BY <1>1, <1>2, CachesKept

(* Time passes: nothing that expired comes back. *)
LEMMA TickKeeps ==
  ASSUME IInv, Tick
  PROVE  IInv'
<1> USE DEF Tick, caches, history, reqs
<1>1. TypeOK' /\ now \in Nat
  BY DEF IInv, TypeOK
<1>2. DelayInv'
  BY <1>1, Naturals DEF IInv, TypeOK, DelayInv
<1>3. RetryInv'
  <2>1. \A m \in Nonces : NonceValid(m)' => NonceValid(m)
    BY <1>1, Naturals DEF IInv, TypeOK, NonceValid
  <2>2. \A r \in Reqs : reply[r] = "limit" => given[r] \in Nonces /\ ~NonceValid(given[r])
    BY DEF IInv, TypeOK, RetryInv
  <2>3. \A r \in Reqs : reply[r] = "limit" => ~NonceValid(given[r])'
    BY <2>1, <2>2 DEF NonceValid
  <2> QED
    BY <2>3 DEF IInv, RetryInv
<1>4. Remembered'
  <2>1. \A j \in Jtis : seenAt[j] \in Nat /\ seenAt[j] <= now
    BY DEF IInv, TypeOK, Remembered
  <2>2. \A q \in accepted : q.iat \in Nat
    BY DEF IInv, TypeOK, Proof
  <2> QED
    BY <1>1, <2>1, <2>2, Naturals DEF IInv, Remembered
<1>5. NoReplay' /\ SlotsFromFreshProofs' /\ SessionBelongsToKeyHolder'
  BY DEF IInv, NoReplay, SlotsFromFreshProofs, SessionBelongsToKeyHolder
<1> QED
  BY <1>1, <1>2, <1>3, <1>4, <1>5 DEF IInv

-----------------------------------------------------------------------------
(* The theorems *)

LEMMA NextIInv == IInv /\ [Next]_vars => IInv'
<1> SUFFICES ASSUME IInv, [Next]_vars PROVE IInv'
  OBVIOUS
<1>1. ASSUME NEW r \in Reqs, Request(r) PROVE IInv'
  <2>1. CASE GiveUp(r) \/ Reject(r)
    BY <2>1, ForgetKeeps DEF GiveUp, Reject
  <2>2. CASE Screen(r) \/ PassNonce(r) \/ Challenge(r) \/ Consume(r)
    BY <2>2, ScreenKeeps, PassNonceKeeps, ChallengeKeeps, ConsumeKeeps
  <2> QED
    BY <1>1, <2>1, <2>2, ClientKeeps DEF Request
<1>2. CASE UNCHANGED vars
  <2> USE <1>2 DEF vars
  <2>1. TypeOK' /\ DelayInv' /\ RetryInv'
    BY DEF IInv, TypeOK, DelayInv, RetryInv, NonceValid
  <2> QED
    BY <2>1, CachesKept
<1> QED
  BY <1>1, <1>2, EvictJtiKeeps, EvictNonceKeeps, RestartKeeps, TickKeeps DEF Next

(* IInv holds in every reachable state. *)
THEOREM Invariance == Spec => []IInv
  BY InitIInv, NextIInv, PTL DEF Spec

(* Every value stays in its type. *)
THEOREM TypeCorrect == Spec => []TypeOK
  BY Invariance, PTL DEF IInv

(* A proof whose cache entry was not dropped early is accepted once, for     *)
(* every skew, buffer and latency with Truncation + MaxDelay < Buffer.       *)
THEOREM ProofsAreSingleUse == Spec => []NoReplay
  BY Invariance, PTL DEF IInv

(* The jti cache holds nothing but accepted, fresh proofs. *)
THEOREM SlotsAreEarned == Spec => []SlotsFromFreshProofs
  BY Invariance, PTL DEF IInv

(* A session is granted to the key its access token is bound to. *)
THEOREM SessionsAreSenderConstrained == Spec => []SessionBelongsToKeyHolder
  BY Invariance, PTL DEF IInv

(* The client's retry fails only on a nonce that is gone. *)
THEOREM RetriesAreAnswered == Spec => []LimitOnlyIfNonceGone
<1>1. IInv => LimitOnlyIfNonceGone
  BY DEF IInv, RetryInv, LimitOnlyIfNonceGone
<1> QED
  BY <1>1, Invariance, PTL
=============================================================================
