------------------------------- MODULE WebApp -------------------------------
(***************************************************************************)
(* The example: browser tabs of the web application (examples/web) against *)
(* the server (examples/server).                                           *)
(*                                                                         *)
(* Tabs share the key pair kept in IndexedDB and nothing else: the access  *)
(* token and the page live in the memory of one tab.  Code of a tab runs   *)
(* to its next await; a response may arrive after the user has moved on,   *)
(* logged out or reloaded.  The server decides by status and headers, the  *)
(* client acts on nothing else.  Registration and login are those of       *)
(* Accounts, reduced to their answers; proofs those of ProofValidation,    *)
(* reduced to whether their nonce and their key are accepted.              *)
(***************************************************************************)
EXTENDS Integers, FiniteSets

CONSTANTS
  Tabs,
  Calls,      \* HTTP calls in flight: slots that are used again
  Keys,       \* key pairs, by their thumbprint
  Emails,
  MaxActs,    \* bound: what users do, all tabs together
  None

(* AccessTokenClaims: the subject and cnf.jkt; and a request with its proof. *)
Token == [sub : Emails, jkt : Keys]

Request == [tab : Tabs, op : {"register", "login", "me"}, email : Emails \cup {None},
            key : Keys, token : Token \cup {None}, try : 1..2, nonce : BOOLEAN]

ASSUME WebAssumption ==
  /\ None \notin Keys /\ None \notin Emails /\ None \notin Token /\ None \notin Request
  /\ MaxActs \in Nat

VARIABLES
  stored,     \* the key pair in IndexedDB
  made,       \* key pairs generated so far
  boot,       \* where init_state of each tab is
  key,        \* AppState::key_pair of the tab
  put,        \* the key pair of a write to IndexedDB that nobody awaits
  page, token,  \* the signals of App
  dirty,      \* a signal of App has changed and the view is to be rendered
  view,       \* the page on screen, with the token of its Dashboard
  profile,    \* the text of the Dashboard on screen
  req,        \* the request of each call
  stage,      \* where the call is
  scope,      \* whether the view, or only the tab, that made it still exists
  reply,      \* the response it has got
  nonce_required,  \* of the server's configuration
  acts,       \* what users have done so far, up to MaxActs
  executed    \* history: how often the service has run for the call

keyring == <<stored, made, boot, key, put>>
signals == <<page, token, dirty>>
screen  == <<view, profile>>
http    == <<req, stage, scope, reply, executed>>
run     == <<nonce_required, acts>>
vars    == <<stored, made, boot, key, put, page, token, dirty, view, profile,
             req, stage, scope, reply, nonce_required, acts, executed>>

-----------------------------------------------------------------------------
Pages == {"Login", "Register", "Dashboard"}

(* The statuses that the client tells apart; Failed is 403, 409, 500, or a   *)
(* fetch that got no response.                                               *)
Failed == 0
Reply == [status : {Failed, 200, 201, 400, 401}, challenge : BOOLEAN,
          token : Token \cup {None}]
NoReply == [status |-> Failed, challenge |-> FALSE, token |-> None]

TypeOK ==
  /\ stored \in Keys \cup {None} /\ made \subseteq Keys
  /\ boot \in [Tabs -> {"load", "generate", "ready"}]
  /\ key \in [Tabs -> Keys \cup {None}]
  /\ put \in [Tabs -> Keys \cup {None}]
  /\ page \in [Tabs -> Pages]
  /\ token \in [Tabs -> Token \cup {None}]
  /\ dirty \in [Tabs -> BOOLEAN]
  /\ view \in [Tabs -> [page : Pages, token : Token \cup {None}]]
  /\ profile \in [Tabs -> Token \cup {None}]
  /\ req \in [Calls -> Request \cup {None}]
  /\ \A q \in Calls : req[q] = None <=> stage[q] = "free"
  /\ stage \in [Calls -> {"free", "sent", "replied"}]
  /\ scope \in [Calls -> {"view", "tab", "gone"}]
  /\ reply \in [Calls -> Reply]
  /\ nonce_required \in BOOLEAN /\ acts \in 0..MaxActs
  /\ executed \in [Calls -> Nat]

Init ==
  /\ stored = None /\ made = {}
  /\ boot = [t \in Tabs |-> "load"]
  /\ key = [t \in Tabs |-> None]
  /\ put = [t \in Tabs |-> None]
  /\ page = [t \in Tabs |-> "Login"]
  /\ token = [t \in Tabs |-> None]
  /\ dirty = [t \in Tabs |-> FALSE]
  /\ view = [t \in Tabs |-> [page |-> "Login", token |-> None]]
  /\ profile = [t \in Tabs |-> None]
  /\ req = [q \in Calls |-> None]
  /\ stage = [q \in Calls |-> "free"]
  /\ scope = [q \in Calls |-> "gone"]
  /\ reply = [q \in Calls |-> NoReply]
  /\ nonce_required \in BOOLEAN /\ acts = 0
  /\ executed = [q \in Calls |-> 0]

-----------------------------------------------------------------------------
(* init_state and IndexedDB                                                  *)

(* load_key_pair finds a key pair, or a new one is to be made. *)
LoadKey(t) ==
  /\ boot[t] = "load"
  /\ key' = [key EXCEPT ![t] = stored]
  /\ boot' = [boot EXCEPT ![t] = IF stored = None THEN "generate" ELSE "ready"]
  /\ UNCHANGED <<stored, made, put, signals, screen, http, run>>

(* generate_key_pair makes a key pair that is new, and save_key_pair queues  *)
(* its write.  Where a key pair cannot be cloned, unwrap panics: the tab     *)
(* never leaves "generate".                                                  *)
GenerateKey(t) ==
  /\ boot[t] = "generate"
  /\ \E k \in Keys \ made :
       /\ made' = made \cup {k}
       /\ key' = [key EXCEPT ![t] = k]
       /\ put' = [put EXCEPT ![t] = k]
  /\ boot' = [boot EXCEPT ![t] = "ready"]
  /\ UNCHANGED <<stored, signals, screen, http, run>>

(* The queued write is done, or its transaction aborts unnoticed. *)
Put(t) ==
  /\ put[t] # None
  /\ \/ stored' = put[t]
     \/ UNCHANGED stored
  /\ put' = [put EXCEPT ![t] = None]
  /\ UNCHANGED <<made, boot, key, signals, screen, http, run>>

(* A user does something. *)
Act == acts < MaxActs /\ acts' = acts + 1 /\ UNCHANGED nonce_required

(* The token is kept over a reload, as sessionStorage would. *)
ReloadNoForget(t) ==
  /\ Act
  /\ boot[t] # "load"
  /\ boot' = [boot EXCEPT ![t] = "load"]
  /\ key' = [key EXCEPT ![t] = None]
  /\ put' = [put EXCEPT ![t] = None]
  /\ page' = [page EXCEPT ![t] = IF token[t] = None THEN "Login" ELSE "Dashboard"]
  /\ dirty' = [dirty EXCEPT ![t] = token[t] # None]
  /\ view' = [view EXCEPT ![t] = [page |-> "Login", token |-> None]]
  /\ profile' = [profile EXCEPT ![t] = None]
  /\ scope' = [q \in Calls |-> IF req[q] # None /\ req[q].tab = t THEN "gone" ELSE scope[q]]
  /\ UNCHANGED <<stored, made, token, req, stage, reply, executed>>

(* The tab is reloaded: its memory is gone, and nobody awaits its calls. *)
Reload(t) ==
  /\ Act
  /\ boot[t] # "load"
  /\ boot' = [boot EXCEPT ![t] = "load"]
  /\ key' = [key EXCEPT ![t] = None]
  /\ put' = [put EXCEPT ![t] = None]
  /\ page' = [page EXCEPT ![t] = "Login"]
  /\ token' = [token EXCEPT ![t] = None]
  /\ dirty' = [dirty EXCEPT ![t] = FALSE]
  /\ view' = [view EXCEPT ![t] = [page |-> "Login", token |-> None]]
  /\ profile' = [profile EXCEPT ![t] = None]
  /\ scope' = [q \in Calls |-> IF req[q] # None /\ req[q].tab = t THEN "gone" ELSE scope[q]]
  /\ UNCHANGED <<stored, made, req, stage, reply, executed>>

-----------------------------------------------------------------------------
(* Pages                                                                     *)

Interactive(t) == boot[t] = "ready" /\ ~dirty[t]

(* The links between the two forms. *)
Navigate(t) ==
  /\ Act
  /\ Interactive(t) /\ view[t].page # "Dashboard"
  /\ page' = [page EXCEPT ![t] = IF view[t].page = "Login" THEN "Register" ELSE "Login"]
  /\ dirty' = [dirty EXCEPT ![t] = TRUE]
  /\ UNCHANGED <<keyring, token, screen, http>>

(* dpop_requests begins: its first proof has no nonce. *)
Send(t, q, op, e, tok) ==
  /\ stage[q] = "free"
  /\ req' = [req EXCEPT ![q] = [tab |-> t, op |-> op, email |-> e, key |-> key[t],
                                token |-> tok, try |-> 1, nonce |-> FALSE]]
  /\ stage' = [stage EXCEPT ![q] = "sent"]
  /\ executed' = [executed EXCEPT ![q] = 0]
  /\ UNCHANGED reply

(* on_submit of the two forms, which stay enabled meanwhile. *)
Submit(t, q, op, e) ==
  /\ Act
  /\ Interactive(t)
  /\ Send(t, q, op, e, None)
  /\ scope' = [scope EXCEPT ![q] = "view"]
  /\ UNCHANGED <<keyring, signals, screen>>

RegisterForm(t, q, e) == view[t].page = "Register" /\ Submit(t, q, "register", e)

LoginForm(t, q, e) == view[t].page = "Login" /\ Submit(t, q, "login", e)

(* on_logout of Dashboard: only this tab forgets. *)
Logout(t) ==
  /\ Act
  /\ Interactive(t) /\ view[t].page = "Dashboard"
  /\ token' = [token EXCEPT ![t] = None]
  /\ page' = [page EXCEPT ![t] = "Login"]
  /\ dirty' = [dirty EXCEPT ![t] = TRUE]
  /\ UNCHANGED <<keyring, screen, http>>

(* What is left of the calls of a tab when its view is replaced: the calls   *)
(* go on, but the signals of the old view are disposed of.                   *)
DetachedNoDispose(t) == scope

Detached(t) ==
  [q \in Calls |-> IF scope[q] = "view" /\ req[q].tab = t THEN "tab" ELSE scope[q]]

(* App renders the current page: a new form, to which a Dashboard without a  *)
(* token turns as well ...                                                   *)
RenderForm(t) ==
  /\ dirty[t] /\ boot[t] = "ready"
  /\ page[t] # "Dashboard" \/ token[t] = None
  /\ page' = [page EXCEPT ![t] = IF @ = "Dashboard" THEN "Login" ELSE @]
  /\ view' = [view EXCEPT ![t] = [page |-> page'[t], token |-> None]]
  /\ profile' = [profile EXCEPT ![t] = None]
  /\ dirty' = [dirty EXCEPT ![t] = FALSE]
  /\ scope' = Detached(t)
  /\ UNCHANGED <<keyring, token, req, stage, reply, executed, run>>

(* ... or a new Dashboard, which fetches the profile with the token.         *)
RenderDashboard(t, q) ==
  /\ dirty[t] /\ boot[t] = "ready" /\ page[t] = "Dashboard" /\ token[t] # None
  /\ view' = [view EXCEPT ![t] = [page |-> "Dashboard", token |-> token[t]]]
  /\ profile' = [profile EXCEPT ![t] = None]
  /\ dirty' = [dirty EXCEPT ![t] = FALSE]
  /\ Send(t, q, "me", None, token[t])
  /\ scope' = [Detached(t) EXCEPT ![q] = "view"]
  /\ UNCHANGED <<keyring, page, token, run>>

-----------------------------------------------------------------------------
(* The server                                                                *)

(* service_error_response: 401, or one of 409, 403 and 500. *)
ServiceStatus ==
  [Unauthorized |-> 401, Conflict |-> Failed, RegistrationDisabled |-> Failed,
   Internal |-> Failed]

(* The server answers; a challenge carries the header DPoP-Nonce. *)
Respond(q, status, challenge, tok) ==
  /\ stage[q] = "sent"
  /\ reply' = [reply EXCEPT ![q] = [status |-> status, challenge |-> challenge, token |-> tok]]
  /\ stage' = [stage EXCEPT ![q] = "replied"]
  /\ UNCHANGED <<req, scope, keyring, signals, screen, run>>

(* TokenNonceRequired or ResourceNonceRequired: the proof has no nonce, or   *)
(* one that is gone from the cache.                                          *)
Challenge(q) ==
  /\ nonce_required
  /\ Respond(q, IF req[q].op = "me" THEN 401 ELSE 400, TRUE, None)
  /\ UNCHANGED executed

(* Any other DpopError: 401, or 500 for Internal. *)
RejectProof(q) ==
  /\ \E status \in {401, Failed} : Respond(q, status, FALSE, None)
  /\ UNCHANGED executed

(* The proof has passed, and the handler runs the service. *)
Admitted(q, op) ==
  /\ stage[q] = "sent" /\ req[q].op = op
  /\ nonce_required => req[q].nonce
  /\ executed' = [executed EXCEPT ![q] = @ + 1]

(* The tokens are bound to the key that has signed the proof. *)
TokenOf(q) == [sub |-> req[q].email, jkt |-> req[q].key]

(* register: 201, or Conflict, RegistrationDisabled, Internal. *)
Register(q) ==
  /\ Admitted(q, "register")
  /\ \/ Respond(q, 201, FALSE, TokenOf(q))
     \/ \E e \in {"Conflict", "RegistrationDisabled", "Internal"} :
          Respond(q, ServiceStatus[e], FALSE, None)

(* login: 200; 403 for Requires2fa; Unauthorized or Internal. *)
Login(q) ==
  /\ Admitted(q, "login")
  /\ \/ Respond(q, 200, FALSE, TokenOf(q))
     \/ Respond(q, Failed, FALSE, None)
     \/ \E e \in {"Unauthorized", "Internal"} : Respond(q, ServiceStatus[e], FALSE, None)

(* me, behind DpopLayer: the proof's key is the token's. *)
Me(q) ==
  /\ Admitted(q, "me")
  /\ req[q].token.jkt = req[q].key
  /\ Respond(q, 200, FALSE, req[q].token)

(* The request is lost: fetch fails.  A response that is lost is one of the  *)
(* failures of the service.                                                  *)
Lose(q) ==
  /\ Respond(q, Failed, FALSE, None)
  /\ UNCHANGED executed

-----------------------------------------------------------------------------
(* The response in the browser                                               *)

(* The status alone is taken for a challenge. *)
IsChallengeNoHeader(r) == r.status \in {400, 401}

IsChallenge(r) == r.status \in {400, 401} /\ r.challenge

(* The request with its second proof, which has the nonce. *)
WithNonce(r) == [r EXCEPT !.try = 2, !.nonce = TRUE]

(* The loop goes on for as long as it is challenged. *)
RetryNoLimit(q) ==
  /\ stage[q] = "replied" /\ scope[q] # "gone"
  /\ IsChallenge(reply[q])
  /\ req' = [req EXCEPT ![q].try = @ + 1, ![q].nonce = TRUE]
  /\ stage' = [stage EXCEPT ![q] = "sent"]
  /\ UNCHANGED <<scope, reply, executed, keyring, signals, screen, run>>

(* dpop_requests signs a second proof, with the nonce, and tries once more. *)
Retry(q) ==
  /\ stage[q] = "replied" /\ scope[q] # "gone"
  /\ IsChallenge(reply[q]) /\ req[q].try = 1
  /\ req' = [req EXCEPT ![q] = WithNonce(@)]
  /\ stage' = [stage EXCEPT ![q] = "sent"]
  /\ UNCHANGED <<scope, reply, executed, keyring, signals, screen, run>>

(* dpop_requests has returned, and the task that awaits it ends. *)
Settle(q) ==
  /\ stage[q] = "replied"
  /\ IsChallenge(reply[q]) => req[q].try = 2
  /\ scope[q] # "gone"
  /\ req' = [req EXCEPT ![q] = None]
  /\ stage' = [stage EXCEPT ![q] = "free"]
  /\ scope' = [scope EXCEPT ![q] = "gone"]
  /\ reply' = [reply EXCEPT ![q] = NoReply]
  /\ executed' = [executed EXCEPT ![q] = 0]
  /\ UNCHANGED <<keyring, run>>

(* A registration or a login has succeeded: the signals are those of App,    *)
(* and are set whatever page the tab has come to.                            *)
SignIn(q) ==
  LET t == req[q].tab IN
  /\ Settle(q)
  /\ \/ req[q].op = "register" /\ reply[q].status = 201
     \/ req[q].op = "login" /\ reply[q].status = 200
  /\ token' = [token EXCEPT ![t] = reply[q].token]
  /\ page' = [page EXCEPT ![t] = "Dashboard"]
  /\ dirty' = [dirty EXCEPT ![t] = TRUE]
  /\ UNCHANGED screen

(* The Dashboard shows the profile, unless it has been replaced. *)
ShowProfile(q) ==
  /\ Settle(q)
  /\ req[q].op = "me" /\ scope[q] = "view" /\ reply[q].status = 200
  /\ profile' = [profile EXCEPT ![req[q].tab] = reply[q].token]
  /\ UNCHANGED <<signals, view>>

(* Everything else is a message on the page, or goes to a disposed signal. *)
ShowMessage(q) ==
  /\ Settle(q)
  /\ \/ reply[q].status \notin {200, 201}
     \/ req[q].op = "me" /\ scope[q] = "tab"
  /\ UNCHANGED <<signals, screen>>

(* The tab that has sent the request has been reloaded. *)
Drop(q) ==
  /\ stage[q] = "replied" /\ scope[q] = "gone"
  /\ req' = [req EXCEPT ![q] = None]
  /\ stage' = [stage EXCEPT ![q] = "free"]
  /\ reply' = [reply EXCEPT ![q] = NoReply]
  /\ executed' = [executed EXCEPT ![q] = 0]
  /\ UNCHANGED <<scope, keyring, signals, screen, run>>

-----------------------------------------------------------------------------
Boot(t) == LoadKey(t) \/ GenerateKey(t) \/ Put(t)

Render(t) == RenderForm(t) \/ \E q \in Calls : RenderDashboard(t, q)

User(t) ==
  \/ Reload(t) \/ Navigate(t) \/ Logout(t)
  \/ \E q \in Calls, e \in Emails : RegisterForm(t, q, e) \/ LoginForm(t, q, e)

Serve(q) == Challenge(q) \/ RejectProof(q) \/ Register(q) \/ Login(q) \/ Me(q)

Return(q) == SignIn(q) \/ ShowProfile(q) \/ ShowMessage(q) \/ Drop(q)

Progress(q) == Serve(q) \/ Lose(q) \/ Retry(q) \/ Return(q)

Next ==
  \/ \E t \in Tabs : Boot(t) \/ Render(t) \/ User(t)
  \/ \E q \in Calls : Progress(q)

Spec == Init /\ [][Next]_vars

-----------------------------------------------------------------------------
(* One submit of a form runs the service at most once, however the nonce     *)
(* challenge, the retry of dpop_requests and the loss of messages fall: a    *)
(* retry follows only a response that was given before the service ran.      *)
OncePerSubmit == \A q \in Calls : executed[q] <= 1

(* The token of a tab is bound to the key that this tab signs with, though   *)
(* tabs overwrite each other's key pair in IndexedDB and load it at any      *)
(* time; so is every request for the profile that is on its way.             *)
TokenFitsTabKey ==
  /\ \A t \in Tabs : token[t] # None => token[t].jkt = key[t]
  /\ \A q \in Calls :
       stage[q] # "free" /\ req[q].token # None => req[q].token.jkt = req[q].key

(* The profile on screen is that of the session on screen: a late answer for *)
(* an earlier Dashboard of the tab is not shown in the one that replaced it. *)
ProfileIsOwn == \A t \in Tabs : profile[t] # None => profile[t] = view[t].token
=============================================================================
