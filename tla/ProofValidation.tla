-------------------------- MODULE ProofValidation --------------------------
(***************************************************************************)
(* DPoP proofs on one process: validate_dpop_proof (dpop.rs) with its jti  *)
(* and nonce caches (cache/, state.rs), the middleware's authenticate      *)
(* around it (axum/middleware.rs), and a client that answers a nonce       *)
(* challenge once (examples/web/src/client.rs).                            *)
(*                                                                         *)
(* Time is counted in ticks finer than a second.  The caches expire on the *)
(* monotonic clock; the freshness window is tested on a clock truncated to *)
(* whole seconds, which may lag by up to Truncation ticks.  A request may  *)
(* be descheduled between the test of the window and the insertion of the  *)
(* jti, for up to MaxDelay ticks.                                          *)
(***************************************************************************)
EXTENDS Integers, FiniteSets

CONSTANTS
  Reqs,           \* concurrent requests
  Jtis, Keys, Nonces,
  AccessTokens,   \* access tokens in circulation
  TokenKey,       \* TokenKey[a]: the cnf.jkt of access token a
  TokenExp,       \* TokenExp[a]: its exp
  None,
  NonceRequired,  \* config.nonce_required
  ClockSkew,      \* config.clock_skew
  Buffer,         \* the 5 s added to the TTL of the jti cache
  NonceTTL,       \* NONCE_TTL
  Capacity,       \* CACHE_CAPACITY
  Truncation,     \* how much the clock in whole seconds may lag
  MaxDelay,       \* bound: longest pause inside validate_dpop_proof
  MaxTime,        \* bound: the clock stops there
  MaxProofs       \* bound: proofs signed

ASSUME ConstantsAssumption ==
  /\ None \notin Nonces \cup AccessTokens \cup Keys \cup Jtis
  /\ NonceRequired \in BOOLEAN
  /\ TokenKey \in [AccessTokens -> Keys]
  /\ TokenExp \in [AccessTokens -> Nat]
  /\ \A c \in {ClockSkew, Buffer, NonceTTL, Capacity, Truncation, MaxDelay,
               MaxTime, MaxProofs} : c \in Nat

(* "A small 5-second safety buffer is added to account for CPU or network    *)
(* latency" (cache/jti.rs).                                                  *)
ASSUME LatencyAssumption == Truncation + MaxDelay < Buffer

VARIABLES
  now,        \* the clock, in ticks
  sent,       \* proofs signed so far: anyone who saw one may send it again
  seen,       \* jti cache: its keys
  seenAt,     \* and when each was inserted
  nonces,     \* nonce cache: its keys
  nonceAt,    \* and when each was inserted
  issued,     \* history: nonces ever issued
  accepted,   \* history: proofs validate_dpop_proof has accepted
  replayed,   \* history: proofs it has accepted more than once
  lost,       \* history: jtis whose unexpired entry was dropped
  pc, prf, tkn, \* per request: program point, proof and access token
  at,         \* when it passed the freshness window
  attempt,    \* the client's attempt, 0 for a repeated delivery
  given,      \* the nonce of the last challenge it got
  reply       \* the outcome

caches  == <<seen, seenAt, nonces, nonceAt, issued>>
history == <<accepted, replayed, lost>>
reqs    == <<pc, prf, tkn, at, attempt, given, reply>>
vars    == <<now, sent, seen, seenAt, nonces, nonceAt, issued, accepted,
             replayed, lost, pc, prf, tkn, at, attempt, given, reply>>

-----------------------------------------------------------------------------
(* A proof: the key in its header and the claims.  The access token stands   *)
(* for its hash in ath.                                                      *)
Proof == [jti : Jtis, key : Keys, iat : Nat, nonce : Nonces \cup {None},
          ath : AccessTokens \cup {None}]
(* "none" also stands for every error that is not a challenge. *)
Replies == {"none", "ok", "challenge", "limit"}

TypeOK ==
  /\ now \in Nat
  /\ sent \subseteq Proof
  /\ seen \subseteq Jtis /\ seenAt \in [Jtis -> Nat]
  /\ nonces \subseteq issued /\ issued \subseteq Nonces
  /\ nonceAt \in [Nonces -> Nat]
  /\ accepted \subseteq sent /\ replayed \subseteq accepted /\ lost \subseteq Jtis
  /\ pc \in [Reqs -> {"idle", "screen", "nonce", "jti"}]
  /\ prf \in [Reqs -> Proof \cup {None}]
  /\ tkn \in [Reqs -> AccessTokens \cup {None}]
  /\ at \in [Reqs -> Nat]
  /\ attempt \in [Reqs -> 0..2]
  /\ given \in [Reqs -> issued \cup {None}]
  /\ reply \in [Reqs -> Replies]

Init ==
  /\ now = 0
  /\ sent = {} /\ accepted = {} /\ replayed = {} /\ lost = {}
  /\ seen = {} /\ seenAt = [j \in Jtis |-> 0]
  /\ nonces = {} /\ issued = {} /\ nonceAt = [n \in Nonces |-> 0]
  /\ pc = [r \in Reqs |-> "idle"]
  /\ prf = [r \in Reqs |-> None]
  /\ tkn = [r \in Reqs |-> None]
  /\ at = [r \in Reqs |-> 0]
  /\ attempt = [r \in Reqs |-> 0]
  /\ given = [r \in Reqs |-> None]
  /\ reply = [r \in Reqs |-> "none"]

-----------------------------------------------------------------------------
(* Faulty variants: OpNoX is Op with one plausible mistake.  Nothing uses    *)
(* them; each is put in the place of the definition that follows it to see   *)
(* that a property notices.                                                  *)

(* The past half of the freshness window only. *)
JtiTTLNoFuture == ClockSkew + Buffer

(* DpopState::new: the lifetime of a jti entry. *)
JtiTTL == 2 * ClockSkew + Buffer

(* moka: an entry is there until its time to live has passed. *)
JtiSeen(j)    == j \in seen /\ now < seenAt[j] + JtiTTL
NonceValid(n) == n \in nonces /\ now < nonceAt[n] + NonceTTL

(* What get_current_timestamp may read. *)
ClockReadings == {c \in 0..now : now <= c + Truncation}

(* Proofs dated in the future are let in. *)
InWindowNoFuture(iat, c) == c <= iat + ClockSkew

InWindow(iat, c) == iat - ClockSkew <= c /\ c <= iat + ClockSkew

(* The request ends with reply a, or with an error.                          *)
Answer(r, a) ==
  /\ pc' = [pc EXCEPT ![r] = "idle"]
  /\ at' = [at EXCEPT ![r] = 0]
  /\ reply' = [reply EXCEPT ![r] = a]

Forget(r) ==
  /\ Answer(r, "none")
  /\ prf' = [prf EXCEPT ![r] = None]
  /\ tkn' = [tkn EXCEPT ![r] = None]
  /\ attempt' = [attempt EXCEPT ![r] = 0]
  /\ given' = [given EXCEPT ![r] = None]

(* The pool of modelled nonces covers the requests that may need one. *)
NonceLeft ==
  Cardinality({r \in Reqs : pc[r] # "idle"}) < Cardinality(Nonces \ issued)

-----------------------------------------------------------------------------
(* Clients *)

Send(r, p, a, i) ==
  /\ NonceLeft
  /\ pc' = [pc EXCEPT ![r] = "screen"]
  /\ prf' = [prf EXCEPT ![r] = p]
  /\ tkn' = [tkn EXCEPT ![r] = a]
  /\ attempt' = [attempt EXCEPT ![r] = i]
  /\ reply' = [reply EXCEPT ![r] = "none"]
  /\ sent' = sent \cup {p}
  /\ UNCHANGED <<now, caches, history, at>>

(* generate_proof: dated by the client's clock, which may be off. *)
Sign(j, k, n, a) ==
  {[jti |-> j, key |-> k, iat |-> i, nonce |-> n, ath |-> a] :
      i \in {i \in 0..MaxTime : i <= now + ClockSkew + 1 /\ now <= i + ClockSkew + 1}}

(* dpop_requests, first attempt: no nonce. *)
Call(r, j, k, a) ==
  /\ pc[r] = "idle" /\ reply[r] # "challenge"
  /\ Cardinality(sent) < MaxProofs
  /\ \E p \in Sign(j, k, None, a) : Send(r, p, a, 1)
  /\ given' = [given EXCEPT ![r] = None]

(* The proof of the first attempt is signed again without the nonce. *)
RetryNoNonce(r, j) ==
  /\ pc[r] = "idle" /\ reply[r] = "challenge"
  /\ Cardinality(sent) < MaxProofs
  /\ \E p \in Sign(j, prf[r].key, None, tkn[r]) : Send(r, p, tkn[r], 2)
  /\ UNCHANGED given

(* dpop_requests, second attempt: sign again with the nonce of the challenge. *)
Retry(r, j) ==
  /\ pc[r] = "idle" /\ reply[r] = "challenge"
  /\ Cardinality(sent) < MaxProofs
  /\ \E p \in Sign(j, prf[r].key, given[r], tkn[r]) : Send(r, p, tkn[r], 2)
  /\ UNCHANGED given

(* The client goes away without answering the challenge. *)
GiveUp(r) ==
  /\ pc[r] = "idle" /\ reply[r] = "challenge"
  /\ Forget(r)
  /\ UNCHANGED <<now, sent, caches, history>>

(* A proof is delivered again, perhaps with another access token. *)
Redeliver(r, p, a) ==
  /\ pc[r] = "idle" /\ reply[r] # "challenge"
  /\ p \in sent
  /\ Send(r, p, a, 0)
  /\ given' = [given EXCEPT ![r] = None]

-----------------------------------------------------------------------------
(* authenticate and validate_dpop_proof *)

(* The delivery fails on form, signature, method or target, whatever the     *)
(* claims that are modelled say.                                             *)
Malformed(r) == Forget(r) /\ UNCHANGED <<now, sent, caches, history>>

(* verify_access_token: exp is tested with the clock skew as leeway. *)
TokenLive(r, c) == tkn[r] # None => c <= TokenExp[tkn[r]] + ClockSkew

(* verify_access_token, then the checks up to htu, each with a reading of    *)
(* the clock: the access token has not expired and the proof is fresh, or    *)
(* the request fails.  The moment of the reading is kept in "at".            *)
Screen(r) ==
  /\ pc[r] = "screen"
  /\ \/ Malformed(r)
     \/ /\ \E c \in ClockReadings : TokenLive(r, c)
        /\ \E c \in ClockReadings : InWindow(prf[r].iat, c)
        /\ pc' = [pc EXCEPT ![r] = "nonce"]
        /\ at' = [at EXCEPT ![r] = now]
        /\ UNCHANGED <<now, sent, caches, history, prf, tkn, attempt, given, reply>>

NonceAccepted(r) ==
  \/ ~NonceRequired /\ prf[r].nonce = None
  \/ NonceValid(prf[r].nonce)

(* A nonce, if one is needed or given, must be one this process has issued. *)
PassNonce(r) ==
  /\ pc[r] = "nonce"
  /\ NonceAccepted(r)
  /\ pc' = [pc EXCEPT ![r] = "jti"]
  /\ UNCHANGED <<now, sent, caches, history, prf, tkn, at, attempt, given, reply>>

(* Otherwise the error carries a new one.  The client answers the first      *)
(* challenge of a call only.                                                 *)
Challenge(r) ==
  /\ pc[r] = "nonce"
  /\ ~NonceAccepted(r)
  /\ \E n \in Nonces \ issued :
       /\ nonces' = nonces \cup {n}
       /\ issued' = issued \cup {n}
       /\ nonceAt' = [nonceAt EXCEPT ![n] = now]
       /\ \/ attempt[r] = 0 /\ Forget(r)
          \/ /\ attempt[r] = 1
             /\ Answer(r, "challenge")
             /\ given' = [given EXCEPT ![r] = n]
             /\ UNCHANGED <<prf, tkn, attempt>>
          \/ /\ attempt[r] = 2
             /\ Answer(r, "limit")
             /\ UNCHANGED <<prf, tkn, attempt, given>>
  /\ UNCHANGED <<now, sent, seen, seenAt, history>>

(* The ath of a resource request. *)
AthMatches(r) == tkn[r] # None => prf[r].ath = tkn[r]

(* The proof is not compared with the cnf claim. *)
KeyMatchesNoCnf(r) == TRUE

(* The cnf.jkt of the access token is compared after the proof is consumed.  *)
KeyMatches(r) == tkn[r] # None => TokenKey[tkn[r]] = prf[r].key

(* The ath is wrong, or jti_cache.entry(jti).or_insert(true) finds an entry. *)
Reject(r) ==
  /\ pc[r] = "jti"
  /\ ~AthMatches(r) \/ JtiSeen(prf[r].jti)
  /\ Forget(r)
  /\ UNCHANGED <<now, sent, caches, history>>

(* The entry is fresh: the proof is accepted. *)
Consume(r) ==
  /\ pc[r] = "jti"
  /\ AthMatches(r)
  /\ ~JtiSeen(prf[r].jti)
  /\ seen' = seen \cup {prf[r].jti}
  /\ seenAt' = [seenAt EXCEPT ![prf[r].jti] = now]
  /\ accepted' = accepted \cup {prf[r]}
  /\ replayed' = IF prf[r] \in accepted THEN replayed \cup {prf[r]} ELSE replayed
  /\ \/ /\ KeyMatches(r)
        /\ Answer(r, "ok")
        /\ UNCHANGED <<prf, tkn, attempt, given>>
     \/ /\ ~KeyMatches(r)
        /\ Forget(r)
  /\ UNCHANGED <<now, sent, nonces, nonceAt, issued, lost>>

-----------------------------------------------------------------------------
(* Environment *)

(* A cache over its capacity drops an entry of its choice. *)
EvictJti(j) ==
  /\ j \in seen
  /\ Cardinality(seen) > Capacity
  /\ seen' = seen \ {j}
  /\ lost' = IF JtiSeen(j) THEN lost \cup {j} ELSE lost
  /\ UNCHANGED <<now, sent, seenAt, nonces, nonceAt, issued, accepted, replayed, reqs>>

EvictNonce(n) ==
  /\ n \in nonces
  /\ Cardinality(nonces) > Capacity
  /\ nonces' = nonces \ {n}
  /\ UNCHANGED <<now, sent, seen, seenAt, nonceAt, issued, history, reqs>>

(* The process restarts: the caches are in memory, requests get no answer.   *)
Restart ==
  /\ lost' = lost \cup {j \in seen : JtiSeen(j)}
  /\ seen' = {} /\ nonces' = {}
  /\ pc' = [r \in Reqs |-> "idle"]
  /\ at' = [r \in Reqs |-> 0]
  /\ UNCHANGED <<now, sent, seenAt, nonceAt, issued, accepted, replayed,
                 prf, tkn, attempt, given, reply>>

(* Time passes, but no request is inside validate for more than MaxDelay. *)
Tick ==
  /\ now < MaxTime
  /\ \A r \in Reqs : pc[r] \in {"nonce", "jti"} => now < at[r] + MaxDelay
  /\ now' = now + 1
  /\ UNCHANGED <<sent, caches, history, reqs>>

Request(r) ==
  \/ \E j \in Jtis, k \in Keys, a \in AccessTokens \cup {None} : Call(r, j, k, a)
  \/ \E j \in Jtis : Retry(r, j)
  \/ \E p \in sent, a \in AccessTokens \cup {None} : Redeliver(r, p, a)
  \/ GiveUp(r)
  \/ Screen(r) \/ PassNonce(r) \/ Challenge(r)
  \/ Reject(r) \/ Consume(r)

Next ==
  \/ \E r \in Reqs : Request(r)
  \/ \E j \in Jtis : EvictJti(j)
  \/ \E n \in Nonces : EvictNonce(n)
  \/ Restart
  \/ Tick

Spec == Init /\ [][Next]_vars

-----------------------------------------------------------------------------
(* Properties *)

(* A proof is accepted once.  The TTL of the jti cache, the freshness window *)
(* and the latency between them fit together, at every edge of the window;   *)
(* only an entry dropped before its time (capacity, restart) lets a proof    *)
(* through again.                                                            *)
NoReplay == \A p \in replayed : p.jti \in lost

(* "Only fully valid proofs consume a cache slot" (dpop.rs): every entry of  *)
(* the jti cache was made by an accepted proof that was fresh within the     *)
(* latency bound.                                                            *)
SlotsFromFreshProofs ==
  \A j \in seen : \E p \in accepted :
     /\ p.jti = j
     /\ p.iat - ClockSkew <= seenAt[j]
     /\ seenAt[j] <= p.iat + ClockSkew + Truncation + MaxDelay

(* A session is granted to the holder of the key its access token is bound   *)
(* to, for a proof made for that token, whatever proofs and tokens others    *)
(* have seen and sent again.                                                 *)
SessionBelongsToKeyHolder ==
  \A r \in Reqs : reply[r] = "ok" /\ tkn[r] # None =>
     /\ prf[r].key = TokenKey[tkn[r]]
     /\ prf[r].ath = tkn[r]
     /\ prf[r] \in accepted

(* A client that answers a challenge with the nonce it was given is turned   *)
(* away a second time ("nonce retry limit reached") only if that nonce has   *)
(* expired or was dropped since.                                             *)
LimitOnlyIfNonceGone ==
  \A r \in Reqs : reply[r] = "limit" =>
     /\ prf[r].nonce = given[r]
     /\ given[r] \in issued
     /\ ~NonceValid(given[r])

-----------------------------------------------------------------------------
(* The inductive invariant behind them *)

(* A request past the window test is within MaxDelay of a moment when its    *)
(* proof was fresh by a clock that lags by at most Truncation.               *)
DelayInv ==
  \A r \in Reqs :
     /\ pc[r] # "idle" => prf[r] \in sent
     /\ pc[r] \in {"nonce", "jti"} =>
          /\ at[r] <= now /\ now <= at[r] + MaxDelay
          /\ prf[r].iat - ClockSkew <= at[r]
          /\ at[r] <= prf[r].iat + ClockSkew + Truncation

(* An accepted proof is remembered until no request can still consume it. *)
Remembered ==
  /\ \A j \in Jtis : seenAt[j] <= now
  /\ \A p \in accepted :
       \/ p.jti \in lost
       \/ p.jti \in seen /\ p.iat - ClockSkew <= seenAt[p.jti]
       \/ p.iat + ClockSkew + Buffer <= now

(* The second attempt carries the nonce of the challenge. *)
RetryInv ==
  \A r \in Reqs :
     /\ attempt[r] = 2 => prf[r] \in Proof /\ prf[r].nonce = given[r] /\ given[r] \in issued
     /\ reply[r] = "challenge" => given[r] \in issued /\ prf[r] \in Proof
     /\ reply[r] = "limit" => attempt[r] = 2 /\ ~NonceValid(given[r])

IInv == /\ TypeOK /\ DelayInv /\ Remembered /\ RetryInv
        /\ NoReplay /\ SlotsFromFreshProofs /\ SessionBelongsToKeyHolder
=============================================================================
