---------------------------- MODULE WebAppProofs ----------------------------
(***************************************************************************)
(* Proofs about WebApp, for any number of tabs, calls in flight, key pairs *)
(* and e-mail addresses.                                                   *)
(***************************************************************************)
EXTENDS WebApp, TLAPS

-----------------------------------------------------------------------------
(* The inductive invariant                                                   *)

(* A tab that runs has a key pair, and only a tab that runs has a token. *)
TabInv ==
  \A t \in Tabs :
    /\ boot[t] = "ready" => key[t] # None
    /\ boot[t] # "ready" => token[t] = None

(* What a request carries: the profile is asked for with a token, the forms  *)
(* send an e-mail address.                                                   *)
RequestInv ==
  \A q \in Calls : stage[q] # "free" =>
    /\ req[q].op = "me" <=> req[q].token # None
    /\ req[q].op # "me" => req[q].email # None

(* The service runs at most once, and never before a challenge. *)
RunInv ==
  \A q \in Calls :
    /\ executed[q] <= 1
    /\ stage[q] = "sent" => executed[q] = 0
    /\ stage[q] = "replied" /\ reply[q].challenge => executed[q] = 0

(* A token in a response is bound to the key of the request, and a profile   *)
(* is that of the token it was asked for with.                               *)
ReplyInv ==
  \A q \in Calls : stage[q] = "replied" =>
    /\ reply[q].token # None => reply[q].token.jkt = req[q].key
    /\ req[q].op = "me" /\ reply[q].status = 200 => reply[q].token = req[q].token

(* The tab that awaits a response still has the key it signed with, and the  *)
(* Dashboard that awaits a profile still shows the token it asked with.      *)
ScopeInv ==
  \A q \in Calls :
    /\ stage[q] = "free" => scope[q] = "gone"
    /\ scope[q] # "gone" => boot[req[q].tab] = "ready" /\ req[q].key = key[req[q].tab]
    /\ scope[q] = "view" /\ req[q].op = "me" => view[req[q].tab].token = req[q].token

IInv ==
  /\ TypeOK /\ TabInv /\ RequestInv /\ RunInv /\ ReplyInv /\ ScopeInv
  /\ TokenFitsTabKey /\ ProfileIsOwn

-----------------------------------------------------------------------------
(* Types                                                                     *)

TabType ==
  /\ stored \in Keys \cup {None} /\ made \subseteq Keys
  /\ boot \in [Tabs -> {"load", "generate", "ready"}]
  /\ key \in [Tabs -> Keys \cup {None}]
  /\ put \in [Tabs -> Keys \cup {None}]
  /\ page \in [Tabs -> Pages]
  /\ token \in [Tabs -> Token \cup {None}]
  /\ dirty \in [Tabs -> BOOLEAN]

ScreenType ==
  /\ view \in [Tabs -> [page : Pages, token : Token \cup {None}]]
  /\ profile \in [Tabs -> Token \cup {None}]

CallType ==
  /\ req \in [Calls -> Request \cup {None}]
  /\ \A q \in Calls : req[q] = None <=> stage[q] = "free"
  /\ stage \in [Calls -> {"free", "sent", "replied"}]
  /\ scope \in [Calls -> {"view", "tab", "gone"}]
  /\ reply \in [Calls -> Reply]
  /\ executed \in [Calls -> Nat]

RunType == nonce_required \in BOOLEAN /\ acts \in 0..MaxActs

LEMMA TypeParts == TypeOK <=> TabType /\ ScreenType /\ CallType /\ RunType
BY DEF TypeOK, TabType, ScreenType, CallType, RunType

LEMMA NoReplyType == NoReply \in Reply
BY DEF NoReply, Reply, Failed

LEMMA InitType == Init => TypeOK
<1> SUFFICES ASSUME Init PROVE TypeOK
  OBVIOUS
<1>1. TabType /\ RunType
  BY WebAssumption DEF Init, TabType, RunType, Pages
<1>2. ScreenType
  BY DEF Init, ScreenType, Pages
<1>3. CallType
  BY NoReplyType DEF Init, CallType
<1> QED
  BY <1>1, <1>2, <1>3, TypeParts

(* The second request of dpop_requests differs from the first in its proof. *)
LEMMA WithNonceFacts ==
  ASSUME NEW r \in Request
  PROVE  /\ WithNonce(r) \in Request
         /\ WithNonce(r).tab = r.tab /\ WithNonce(r).op = r.op /\ WithNonce(r).email = r.email
         /\ WithNonce(r).key = r.key /\ WithNonce(r).token = r.token
<1> DEFINE w == WithNonce(r)
           a == [r EXCEPT !.try = 2]
<1>1. r = [tab |-> r.tab, op |-> r.op, email |-> r.email, key |-> r.key,
           token |-> r.token, try |-> r.try, nonce |-> r.nonce]
  BY DEF Request
<1>2. w = [tab |-> r.tab, op |-> r.op, email |-> r.email, key |-> r.key,
           token |-> r.token, try |-> 2, nonce |-> TRUE]
  <2>1. w = [a EXCEPT !.nonce = TRUE]
    BY DEF WithNonce
  <2>2. a = [tab |-> r.tab, op |-> r.op, email |-> r.email, key |-> r.key,
             token |-> r.token, try |-> 2, nonce |-> r.nonce]
    BY <1>1
  <2> HIDE DEF w, a
  <2> QED
    BY <2>1, <2>2
<1>3. /\ r.tab \in Tabs /\ r.op \in {"register", "login", "me"} /\ r.email \in Emails \cup {None}
      /\ r.key \in Keys /\ r.token \in Token \cup {None}
  BY DEF Request
<1>4. w \in Request
  BY <1>2, <1>3 DEF Request
<1> QED
  BY <1>2, <1>4

(* A call in flight has a request. *)
LEMMA InFlight ==
  ASSUME CallType, NEW q \in Calls, stage[q] # "free"
  PROVE  req[q] \in Request /\ req[q] # None
BY DEF CallType

LEMMA RequestFacts ==
  ASSUME NEW r \in Request
  PROVE  /\ r.tab \in Tabs /\ r.key \in Keys /\ r.email \in Emails \cup {None}
         /\ r.token \in Token \cup {None}
BY DEF Request

-----------------------------------------------------------------------------
(* What the steps do to the calls                                            *)

(* A new call of tab t: a form with an e-mail address, or the profile with a *)
(* token bound to the key.                                                   *)
Sends(t, q) ==
  /\ stage[q] = "free"
  /\ req'[q] \in Request /\ req'[q].tab = t /\ req'[q].key = key[t]
  /\ stage'[q] = "sent" /\ executed'[q] = 0 /\ reply' = reply
  /\ \/ req'[q].op # "me" /\ req'[q].email \in Emails /\ req'[q].token = None
     \/ req'[q].op = "me" /\ req'[q].token = token[t] /\ token[t] # None

(* Calls other than q keep all but their scope. *)
Aside(q) ==
  \A c \in Calls \ {q} :
    req'[c] = req[c] /\ stage'[c] = stage[c] /\ reply'[c] = reply[c] /\ executed'[c] = executed[c]

LEMMA SendStep ==
  ASSUME TypeOK, TabInv, NEW t \in Tabs, boot[t] = "ready", NEW q \in Calls, NEW op, NEW e, NEW tok,
         \/ op \in {"register", "login"} /\ e \in Emails /\ tok = None
         \/ op = "me" /\ e = None /\ tok = token[t] /\ tok # None,
         Send(t, q, op, e, tok)
  PROVE  /\ Sends(t, q) /\ Aside(q)
         /\ req' \in [Calls -> Request \cup {None}]
         /\ stage' \in [Calls -> {"free", "sent", "replied"}]
         /\ executed' \in [Calls -> Nat] /\ reply' \in [Calls -> Reply]
<1> DEFINE r == [tab |-> t, op |-> op, email |-> e, key |-> key[t],
                 token |-> tok, try |-> 1, nonce |-> FALSE]
<1>1. key[t] \in Keys /\ token[t] \in Token \cup {None}
  BY DEF TypeOK, TabInv
<1>2. r \in Request
  BY <1>1 DEF Request
<1>3. r.tab = t /\ r.op = op /\ r.email = e /\ r.key = key[t] /\ r.token = tok
  OBVIOUS
<1>4. req' = [req EXCEPT ![q] = r]
  BY DEF Send
<1> HIDE DEF r
<1>5. req'[q] = r /\ req' \in [Calls -> Request \cup {None}]
  BY <1>2, <1>4 DEF TypeOK
<1>6. Sends(t, q)
  BY <1>2, <1>3, <1>5 DEF Send, Sends, TypeOK
<1> QED
  BY <1>4, <1>5, <1>6 DEF Send, Aside, TypeOK

(* The server answers call q. *)
LEMMA RespondStep ==
  ASSUME TypeOK, NEW q \in Calls, NEW status \in {Failed, 200, 201, 400, 401},
         NEW challenge \in BOOLEAN, NEW tok \in Token \cup {None},
         Respond(q, status, challenge, tok)
  PROVE  /\ stage[q] = "sent" /\ stage'[q] = "replied"
         /\ reply'[q].status = status /\ reply'[q].challenge = challenge /\ reply'[q].token = tok
         /\ \A c \in Calls \ {q} : stage'[c] = stage[c] /\ reply'[c] = reply[c]
         /\ stage' \in [Calls -> {"free", "sent", "replied"}] /\ reply' \in [Calls -> Reply]
         /\ UNCHANGED <<req, scope, keyring, signals, screen, run>>
<1> DEFINE r == [status |-> status, challenge |-> challenge, token |-> tok]
<1>1. r \in Reply
  BY DEF Reply
<1>2. r.status = status /\ r.challenge = challenge /\ r.token = tok
  OBVIOUS
<1>3. reply' = [reply EXCEPT ![q] = r]
  BY DEF Respond
<1> HIDE DEF r
<1>4. reply'[q] = r /\ reply' \in [Calls -> Reply] /\ \A c \in Calls \ {q} : reply'[c] = reply[c]
  BY <1>1, <1>3 DEF TypeOK
<1>5. /\ stage[q] = "sent" /\ stage'[q] = "replied"
      /\ stage' \in [Calls -> {"free", "sent", "replied"}]
      /\ \A c \in Calls \ {q} : stage'[c] = stage[c]
  BY DEF Respond, TypeOK
<1> QED
  BY <1>2, <1>4, <1>5 DEF Respond

-----------------------------------------------------------------------------
(* Tabs                                                                      *)

(* The rest of the invariant, once the types are known. *)
Safe ==
  TabInv /\ RequestInv /\ RunInv /\ ReplyInv /\ ScopeInv /\ TokenFitsTabKey /\ ProfileIsOwn

(* A tab gets its key pair while it boots, or forgets its token. *)
LEMMA TabKeeps ==
  ASSUME IInv, NEW t \in Tabs, UNCHANGED <<http, screen>>,
         \A s \in Tabs \ {t} : boot'[s] = boot[s] /\ key'[s] = key[s] /\ token'[s] = token[s],
         \/ boot'[t] = boot[t] /\ key'[t] = key[t] /\ token'[t] \in {token[t], None}
         \/ /\ boot[t] # "ready" /\ token'[t] = token[t]
            /\ boot'[t] = "ready" => key'[t] # None
  PROVE  Safe'
<1> USE DEF IInv, http, screen
<1>1. TabInv'
  BY DEF TabInv
<1>2. RequestInv' /\ RunInv' /\ ReplyInv' /\ ProfileIsOwn'
  BY DEF RequestInv, RunInv, ReplyInv, ProfileIsOwn
<1>3. ASSUME NEW q \in Calls, scope[q] # "gone"
      PROVE  boot'[req[q].tab] = "ready" /\ req[q].key = key'[req[q].tab]
  <2>1. req[q].tab \in Tabs /\ boot[req[q].tab] = "ready"
    BY <1>3, TypeParts, InFlight, RequestFacts DEF ScopeInv
  <2> QED
    BY <1>3, <2>1 DEF ScopeInv
<1>4. ScopeInv'
  BY <1>3 DEF ScopeInv
<1>5. ASSUME NEW s \in Tabs, token'[s] # None PROVE token'[s].jkt = key'[s]
  <2>1. token'[s] = token[s] /\ boot[s] = "ready"
    BY <1>5 DEF TabInv
  <2> QED
    BY <1>5, <2>1 DEF TokenFitsTabKey
<1>6. TokenFitsTabKey'
  BY <1>5 DEF TokenFitsTabKey
<1> QED
  BY <1>1, <1>2, <1>4, <1>6 DEF Safe

LEMMA BootKeeps ==
  ASSUME IInv, NEW t \in Tabs, Boot(t)
  PROVE  IInv'
<1> USE DEF signals, screen, http, run
<1>1. CASE LoadKey(t)
  <2>1. TypeOK'
    BY <1>1 DEF IInv, LoadKey, TypeOK
  <2>2. /\ \A s \in Tabs \ {t} : boot'[s] = boot[s] /\ key'[s] = key[s]
        /\ boot'[t] = "ready" => key'[t] # None
    BY <1>1 DEF IInv, LoadKey, TypeOK
  <2>3. Safe'
    BY <1>1, <2>2, TabKeeps DEF LoadKey
  <2> QED
    BY <2>1, <2>3 DEF IInv, Safe
<1>2. CASE GenerateKey(t)
  <2>1. TypeOK'
    BY <1>2 DEF IInv, GenerateKey, TypeOK
  <2>2. /\ \A s \in Tabs \ {t} : boot'[s] = boot[s] /\ key'[s] = key[s]
        /\ key'[t] # None
    BY <1>2, WebAssumption DEF IInv, GenerateKey, TypeOK
  <2>3. Safe'
    BY <1>2, <2>2, TabKeeps DEF GenerateKey
  <2> QED
    BY <2>1, <2>3 DEF IInv, Safe
<1>3. CASE Put(t)
  <2>1. TypeOK'
    BY <1>3 DEF IInv, Put, TypeOK
  <2>2. Safe'
    BY <1>3, TabKeeps DEF Put
  <2> QED
    BY <2>1, <2>2 DEF IInv, Safe
<1> QED
  BY <1>1, <1>2, <1>3 DEF Boot

LEMMA ActType ==
  ASSUME RunType, Act
  PROVE  RunType'
BY WebAssumption DEF RunType, Act

LEMMA LeaveKeeps ==
  ASSUME IInv, NEW t \in Tabs, Navigate(t) \/ Logout(t)
  PROVE  IInv'
<1> USE DEF keyring, screen, http
<1>1. TabType' /\ ScreenType' /\ CallType'
  BY DEF IInv, Navigate, Logout, TypeOK, TabType, ScreenType, CallType, Pages
<1>2. TypeOK'
  BY <1>1, ActType, TypeParts DEF IInv, Navigate, Logout, TypeOK, TabType, ScreenType, CallType, RunType
<1>3. /\ \A s \in Tabs \ {t} : token'[s] = token[s]
      /\ token'[t] \in {token[t], None}
  BY DEF IInv, Navigate, Logout, TypeOK
<1>4. Safe'
  BY <1>3, TabKeeps DEF Navigate, Logout
<1> QED
  BY <1>2, <1>4 DEF IInv, Safe
-----------------------------------------------------------------------------
(* Views                                                                     *)

(* The tab forgets everything, and so do its calls. *)
LEMMA ReloadKeeps ==
  ASSUME IInv, NEW t \in Tabs, Reload(t)
  PROVE  IInv'
<1>1. TabType'
  BY DEF IInv, Reload, TypeOK, TabType, Pages
<1>2. ScreenType'
  BY DEF IInv, Reload, TypeOK, ScreenType, Pages
<1>3. CallType'
  BY DEF IInv, Reload, TypeOK, CallType
<1>4. RunType'
  BY ActType, TypeParts DEF IInv, Reload
<1>5. TypeOK'
  BY <1>1, <1>2, <1>3, <1>4 DEF TypeOK, TabType, ScreenType, CallType, RunType
<1>6. /\ boot'[t] # "ready" /\ token'[t] = None /\ profile'[t] = None
      /\ \A s \in Tabs \ {t} : /\ boot'[s] = boot[s] /\ key'[s] = key[s] /\ token'[s] = token[s]
                               /\ view'[s] = view[s] /\ profile'[s] = profile[s]
  BY DEF IInv, Reload, TypeOK
<1>7. UNCHANGED <<req, stage, reply, executed>>
  BY DEF Reload
<1>8. TabInv' /\ ProfileIsOwn'
  BY <1>6 DEF IInv, TabInv, ProfileIsOwn
<1>9. RequestInv' /\ RunInv' /\ ReplyInv'
  BY <1>7 DEF IInv, RequestInv, RunInv, ReplyInv
<1>10. TokenFitsTabKey'
  BY <1>6, <1>7 DEF IInv, TokenFitsTabKey
<1>11. ScopeInv'
  <2> SUFFICES ASSUME NEW q \in Calls
               PROVE  /\ stage[q] = "free" => scope'[q] = "gone"
                      /\ scope'[q] # "gone" => /\ boot'[req[q].tab] = "ready"
                                               /\ req[q].key = key'[req[q].tab]
                      /\ scope'[q] = "view" /\ req[q].op = "me"
                           => view'[req[q].tab].token = req[q].token
    BY <1>7 DEF ScopeInv
  <2>1. scope'[q] \in {scope[q], "gone"}
    BY DEF Reload
  <2>2. ASSUME scope'[q] # "gone" PROVE req[q].tab \in Tabs \ {t}
    <3>1. stage[q] # "free"
      BY <2>1, <2>2 DEF IInv, ScopeInv
    <3> QED
      BY <2>2, <3>1, InFlight, RequestFacts, TypeParts DEF IInv, Reload
  <2> QED
    BY <1>6, <2>1, <2>2 DEF IInv, ScopeInv
<1> QED
  BY <1>5, <1>8, <1>9, <1>10, <1>11 DEF IInv

(* No call belongs to the view that a new one replaces. *)
LEMMA DetachedFacts ==
  ASSUME TypeOK, NEW t \in Tabs
  PROVE  /\ Detached(t) \in [Calls -> {"view", "tab", "gone"}]
         /\ \A q \in Calls :
              /\ Detached(t)[q] = "gone" <=> scope[q] = "gone"
              /\ Detached(t)[q] = "view" => scope[q] = "view" /\ req[q].tab # t
BY DEF TypeOK, Detached

LEMMA RenderFormKeeps ==
  ASSUME IInv, NEW t \in Tabs, RenderForm(t)
  PROVE  IInv'
<1> USE DEF keyring, run
<1>1. TabType'
  BY DEF IInv, RenderForm, TypeOK, TabType, Pages
<1>2. ScreenType'
  <2>1. page'[t] \in Pages
    BY <1>1 DEF TabType
  <2> QED
    BY <2>1 DEF IInv, RenderForm, TypeOK, ScreenType
<1>3. CallType' /\ RunType'
  BY DetachedFacts DEF IInv, RenderForm, TypeOK, CallType, RunType
<1>4. TypeOK'
  BY <1>1, <1>2, <1>3 DEF TypeOK, TabType, ScreenType, CallType, RunType
<1>5. /\ profile'[t] = None
      /\ \A s \in Tabs \ {t} : view'[s] = view[s] /\ profile'[s] = profile[s]
  BY DEF IInv, RenderForm, TypeOK
<1>6. UNCHANGED <<boot, key, token, req, stage, reply, executed>>
  BY DEF RenderForm
<1>7. TabInv' /\ RequestInv' /\ RunInv' /\ ReplyInv' /\ TokenFitsTabKey'
  BY <1>6 DEF IInv, TabInv, RequestInv, RunInv, ReplyInv, TokenFitsTabKey
<1>8. ProfileIsOwn'
  BY <1>5 DEF IInv, ProfileIsOwn
<1>9. ScopeInv'
  <2> SUFFICES ASSUME NEW q \in Calls
               PROVE  /\ stage[q] = "free" => scope'[q] = "gone"
                      /\ scope'[q] # "gone" => /\ boot[req[q].tab] = "ready"
                                               /\ req[q].key = key[req[q].tab]
                      /\ scope'[q] = "view" /\ req[q].op = "me"
                           => view'[req[q].tab].token = req[q].token
    BY <1>6 DEF ScopeInv
  <2>1. /\ scope'[q] = "gone" <=> scope[q] = "gone"
        /\ scope'[q] = "view" => scope[q] = "view" /\ req[q].tab # t
    BY DetachedFacts DEF IInv, RenderForm
  <2>2. ASSUME scope'[q] = "view" PROVE req[q].tab \in Tabs \ {t}
    <3>1. stage[q] # "free"
      BY <2>1, <2>2 DEF IInv, ScopeInv
    <3> QED
      BY <2>1, <2>2, <3>1, InFlight, RequestFacts, TypeParts DEF IInv
  <2> QED
    BY <1>5, <2>1, <2>2 DEF IInv, ScopeInv
<1> QED
  BY <1>4, <1>7, <1>8, <1>9 DEF IInv

(* A call begins: what holds of the calls, and of the new one. *)
LEMMA SendKeeps ==
  ASSUME IInv, NEW t \in Tabs, boot[t] = "ready", NEW q \in Calls, Sends(t, q), Aside(q),
         UNCHANGED <<boot, key, token>>
  PROVE  TabInv' /\ RequestInv' /\ RunInv' /\ ReplyInv' /\ TokenFitsTabKey'
<1>1. TabInv'
  BY DEF IInv, TabInv
<1>2. RequestInv'
  BY WebAssumption DEF IInv, RequestInv, Sends, Aside
<1>3. RunInv'
  BY DEF IInv, RunInv, Sends, Aside
<1>4. ReplyInv'
  BY DEF IInv, ReplyInv, Sends, Aside
<1>5. TokenFitsTabKey'
  BY DEF IInv, TokenFitsTabKey, Sends, Aside
<1> QED
  BY <1>1, <1>2, <1>3, <1>4, <1>5

LEMMA SendType ==
  ASSUME TypeOK, NEW t \in Tabs, NEW q \in Calls, Sends(t, q), Aside(q),
         req' \in [Calls -> Request \cup {None}],
         stage' \in [Calls -> {"free", "sent", "replied"}],
         executed' \in [Calls -> Nat], reply' \in [Calls -> Reply],
         scope' \in [Calls -> {"view", "tab", "gone"}]
  PROVE  CallType'
<1>1. ASSUME NEW c \in Calls PROVE req'[c] = None <=> stage'[c] = "free"
  <2>1. CASE c = q
    BY <2>1, WebAssumption DEF Sends
  <2>2. CASE c # q
    BY <2>2 DEF Aside, TypeOK
  <2> QED
    BY <2>1, <2>2
<1> QED
  BY <1>1 DEF CallType

LEMMA SubmitKeeps ==
  ASSUME IInv, NEW t \in Tabs, NEW q \in Calls, NEW op \in {"register", "login"},
         NEW e \in Emails, Submit(t, q, op, e)
  PROVE  IInv'
<1> USE DEF keyring, signals, screen
<1>1. boot[t] = "ready" /\ Send(t, q, op, e, None)
  BY DEF Submit, Interactive
<1>2. /\ Sends(t, q) /\ Aside(q)
      /\ req' \in [Calls -> Request \cup {None}]
      /\ stage' \in [Calls -> {"free", "sent", "replied"}]
      /\ executed' \in [Calls -> Nat] /\ reply' \in [Calls -> Reply]
  BY <1>1, SendStep DEF IInv
<1>3. scope' \in [Calls -> {"view", "tab", "gone"}]
  BY DEF IInv, TypeOK, Submit
<1>4. CallType'
  BY <1>2, <1>3, SendType DEF IInv
<1>5. TabType' /\ ScreenType'
  BY DEF IInv, TypeOK, Submit, TabType, ScreenType
<1>6. RunType'
  BY ActType, TypeParts DEF IInv, Submit
<1>7. TypeOK'
  BY <1>4, <1>5, <1>6 DEF TypeOK, TabType, ScreenType, CallType, RunType
<1>8. TabInv' /\ RequestInv' /\ RunInv' /\ ReplyInv' /\ TokenFitsTabKey'
  BY <1>1, <1>2, SendKeeps DEF Submit
<1>9. ProfileIsOwn'
  BY DEF IInv, ProfileIsOwn, Submit
<1>10. ScopeInv'
  <2>1. UNCHANGED <<boot, key, view>> /\ \A c \in Calls \ {q} : scope'[c] = scope[c]
    BY DEF IInv, TypeOK, Submit
  <2>2. req'[q].op # "me"
    BY <1>1, <1>2 DEF Send, IInv, TypeOK
  <2> QED
    BY <1>1, <1>2, <2>1, <2>2 DEF IInv, ScopeInv, Sends, Aside
<1> QED
  BY <1>7, <1>8, <1>9, <1>10 DEF IInv

LEMMA RenderDashboardKeeps ==
  ASSUME IInv, NEW t \in Tabs, NEW q \in Calls, RenderDashboard(t, q)
  PROVE  IInv'
<1> USE DEF keyring, run
<1>1. boot[t] = "ready" /\ token[t] # None /\ Send(t, q, "me", None, token[t])
  BY DEF RenderDashboard
<1>2. /\ Sends(t, q) /\ Aside(q)
      /\ req' \in [Calls -> Request \cup {None}]
      /\ stage' \in [Calls -> {"free", "sent", "replied"}]
      /\ executed' \in [Calls -> Nat] /\ reply' \in [Calls -> Reply]
  BY <1>1, SendStep DEF IInv
<1>3. /\ scope' \in [Calls -> {"view", "tab", "gone"}]
      /\ scope'[q] = "view"
      /\ \A c \in Calls \ {q} : scope'[c] = Detached(t)[c]
  BY DetachedFacts DEF IInv, RenderDashboard
<1>4. CallType'
  BY <1>2, <1>3, SendType DEF IInv
<1>5. TabType' /\ RunType'
  BY DEF IInv, TypeOK, RenderDashboard, TabType, RunType
<1>6. ScreenType'
  BY DEF IInv, TypeOK, RenderDashboard, ScreenType, Pages
<1>7. TypeOK'
  BY <1>4, <1>5, <1>6 DEF TypeOK, TabType, ScreenType, CallType, RunType
<1>8. TabInv' /\ RequestInv' /\ RunInv' /\ ReplyInv' /\ TokenFitsTabKey'
  BY <1>1, <1>2, SendKeeps DEF RenderDashboard
<1>9. /\ profile'[t] = None /\ view'[t].token = token[t]
      /\ \A s \in Tabs \ {t} : view'[s] = view[s] /\ profile'[s] = profile[s]
      /\ UNCHANGED <<boot, key, token>>
  BY DEF IInv, RenderDashboard, TypeOK
<1>10. ProfileIsOwn'
  BY <1>9 DEF IInv, ProfileIsOwn
<1>11. ASSUME NEW c \in Calls
       PROVE  /\ stage'[c] = "free" => scope'[c] = "gone"
              /\ scope'[c] # "gone" => /\ boot'[req'[c].tab] = "ready"
                                       /\ req'[c].key = key'[req'[c].tab]
              /\ scope'[c] = "view" /\ req'[c].op = "me"
                   => view'[req'[c].tab].token = req'[c].token
  <2>1. CASE c = q
    BY <1>1, <1>2, <1>9, <2>1, WebAssumption DEF Sends
  <2>2. CASE c # q
    <3>1. /\ scope'[c] = "gone" <=> scope[c] = "gone"
          /\ scope'[c] = "view" => scope[c] = "view" /\ req[c].tab # t
      BY <1>3, <2>2, DetachedFacts DEF IInv
    <3>2. req'[c] = req[c] /\ stage'[c] = stage[c]
      BY <1>2, <2>2 DEF Aside
    <3>3. ASSUME scope'[c] = "view" PROVE req[c].tab \in Tabs \ {t}
      <4>1. stage[c] # "free"
        BY <3>1, <3>3 DEF IInv, ScopeInv
      <4> QED
        BY <3>1, <3>3, <4>1, InFlight, RequestFacts, TypeParts DEF IInv
    <3> QED
      BY <1>9, <3>1, <3>2, <3>3 DEF IInv, ScopeInv
  <2> QED
    BY <2>1, <2>2
<1>12. ScopeInv'
  BY <1>11 DEF ScopeInv
<1> QED
  BY <1>7, <1>8, <1>10, <1>12 DEF IInv

-----------------------------------------------------------------------------
(* Calls                                                                     *)

(* The server's answer: a challenge without running the service, or one run  *)
(* and a token bound to the key of the request.                              *)
Answers(q, status, challenge, tok) ==
  /\ Respond(q, status, challenge, tok)
  /\ tok # None => tok.jkt = req[q].key
  /\ req[q].op = "me" /\ status = 200 => tok = req[q].token
  /\ \/ UNCHANGED executed
     \/ ~challenge /\ executed' = [executed EXCEPT ![q] = @ + 1]

LEMMA AnswerKeeps ==
  ASSUME IInv, NEW q \in Calls, NEW status \in {Failed, 200, 201, 400, 401},
         NEW challenge \in BOOLEAN, NEW tok \in Token \cup {None},
         Answers(q, status, challenge, tok)
  PROVE  IInv'
<1> USE DEF keyring, signals, screen, run
<1>1. /\ stage[q] = "sent" /\ stage'[q] = "replied"
      /\ reply'[q].status = status /\ reply'[q].challenge = challenge /\ reply'[q].token = tok
      /\ \A c \in Calls \ {q} : stage'[c] = stage[c] /\ reply'[c] = reply[c]
      /\ stage' \in [Calls -> {"free", "sent", "replied"}] /\ reply' \in [Calls -> Reply]
      /\ UNCHANGED <<req, scope, keyring, signals, screen, run>>
  BY RespondStep DEF Answers, IInv
<1>2. executed[q] = 0 /\ executed \in [Calls -> Nat]
  BY <1>1 DEF IInv, RunInv, TypeOK
<1>3. /\ executed' \in [Calls -> Nat]
      /\ \A c \in Calls \ {q} : executed'[c] = executed[c]
      /\ executed'[q] <= 1 /\ (challenge => executed'[q] = 0)
  BY <1>2 DEF Answers
<1>4. CallType'
  BY <1>1, <1>3 DEF IInv, TypeOK, CallType
<1>5. TabType' /\ ScreenType' /\ RunType'
  BY <1>1 DEF IInv, TypeOK, TabType, ScreenType, RunType
<1>6. TypeOK'
  BY <1>4, <1>5 DEF TypeOK, TabType, ScreenType, CallType, RunType
<1>7. TabInv' /\ ProfileIsOwn'
  BY <1>1 DEF IInv, TabInv, ProfileIsOwn
<1>8. RequestInv' /\ ScopeInv' /\ TokenFitsTabKey'
  BY <1>1 DEF IInv, RequestInv, ScopeInv, TokenFitsTabKey
<1>9. RunInv'
  BY <1>1, <1>3 DEF IInv, RunInv
<1>10. ReplyInv'
  BY <1>1 DEF IInv, ReplyInv, Answers
<1> QED
  BY <1>6, <1>7, <1>8, <1>9, <1>10 DEF IInv

(* The statuses of the service errors are 401 and Failed. *)
LEMMA ServiceStatusFacts ==
  ASSUME NEW e \in {"Unauthorized", "Conflict", "RegistrationDisabled", "Internal"}
  PROVE  ServiceStatus[e] \in {401, Failed}
BY DEF ServiceStatus

LEMMA StatusFacts == Failed \in {Failed, 200, 201, 400, 401} /\ Failed # 200
BY DEF Failed

LEMMA ServeKeeps ==
  ASSUME IInv, NEW q \in Calls, Serve(q) \/ Lose(q)
  PROVE  IInv'
<1>1. ASSUME NEW status \in {Failed, 400, 401}, NEW challenge \in BOOLEAN,
             Respond(q, status, challenge, None),
             \/ UNCHANGED executed
             \/ ~challenge /\ executed' = [executed EXCEPT ![q] = @ + 1]
      PROVE  IInv'
  BY <1>1, AnswerKeeps, StatusFacts DEF Answers
<1>2. ASSUME NEW op \in {"register", "login"}, Admitted(q, op)
      PROVE  TokenOf(q) \in Token /\ TokenOf(q).jkt = req[q].key /\ req[q].op # "me"
  <2>1. req[q] \in Request /\ stage[q] # "free" /\ req[q].op # "me"
    BY <1>2, InFlight, TypeParts DEF IInv, Admitted
  <2>2. req[q].email \in Emails /\ req[q].key \in Keys
    BY <2>1, RequestFacts DEF IInv, RequestInv
  <2> QED
    BY <2>1, <2>2 DEF TokenOf, Token
<1>3. ASSUME NEW op \in {"register", "login"}, Admitted(q, op), NEW status \in {200, 201},
             Respond(q, status, FALSE, TokenOf(q))
      PROVE  IInv'
  <2>1. TokenOf(q) \in Token /\ TokenOf(q).jkt = req[q].key /\ req[q].op # "me"
    BY <1>2, <1>3
  <2>2. Answers(q, status, FALSE, TokenOf(q))
    BY <1>3, <2>1 DEF Answers, Admitted
  <2>3. PICK tok \in Token : tok = TokenOf(q)
    BY <2>1
  <2>4. PICK challenge \in BOOLEAN : Answers(q, status, challenge, tok)
    BY <2>2, <2>3, Zenon
  <2> QED
    BY <2>4, AnswerKeeps
<1>4. CASE Challenge(q)
  BY <1>1, <1>4 DEF Challenge
<1>5. CASE RejectProof(q)
  BY <1>1, <1>5 DEF RejectProof
<1>6. CASE Register(q)
  <2>1. Admitted(q, "register") /\ executed' = [executed EXCEPT ![q] = @ + 1]
    BY <1>6 DEF Register, Admitted
  <2>2. CASE Respond(q, 201, FALSE, TokenOf(q))
    BY <1>3, <2>1, <2>2
  <2>3. ASSUME NEW e \in {"Conflict", "RegistrationDisabled", "Internal"},
               Respond(q, ServiceStatus[e], FALSE, None)
        PROVE  IInv'
    <3>1. ServiceStatus[e] \in {401, Failed}
      BY ServiceStatusFacts
    <3>2. PICK status \in {401, Failed} : status = ServiceStatus[e]
      BY <3>1
    <3> QED
      BY <1>1, <2>1, <2>3, <3>2
  <2> QED
    BY <1>6, <2>2, <2>3 DEF Register
<1>7. CASE Login(q)
  <2>1. Admitted(q, "login") /\ executed' = [executed EXCEPT ![q] = @ + 1]
    BY <1>7 DEF Login, Admitted
  <2>2. CASE Respond(q, 200, FALSE, TokenOf(q))
    BY <1>3, <2>1, <2>2
  <2>3. CASE Respond(q, Failed, FALSE, None)
    BY <1>1, <2>1, <2>3
  <2>4. ASSUME NEW e \in {"Unauthorized", "Internal"}, Respond(q, ServiceStatus[e], FALSE, None)
        PROVE  IInv'
    <3>1. ServiceStatus[e] \in {401, Failed}
      BY ServiceStatusFacts
    <3>2. PICK status \in {401, Failed} : status = ServiceStatus[e]
      BY <3>1
    <3> QED
      BY <1>1, <2>1, <2>4, <3>2
  <2> QED
    BY <1>7, <2>2, <2>3, <2>4 DEF Login
<1>8. CASE Me(q)
  <2>1. req[q].token \in Token \cup {None}
    BY <1>8, InFlight, RequestFacts, TypeParts DEF IInv, Me, Admitted
  <2>2. Answers(q, 200, FALSE, req[q].token)
    BY <1>8 DEF Answers, Me, Admitted
  <2>3. PICK tok \in Token \cup {None} : tok = req[q].token
    BY <2>1
  <2>4. PICK challenge \in BOOLEAN : Answers(q, 200, challenge, tok)
    BY <2>2, <2>3, Zenon
  <2> QED
    BY <2>4, AnswerKeeps
<1>9. CASE Lose(q)
  BY <1>1, <1>9 DEF Lose
<1> QED
  BY <1>4, <1>5, <1>6, <1>7, <1>8, <1>9 DEF Serve

(* The second request follows an answer before which the service did not run. *)
LEMMA RetryKeeps ==
  ASSUME IInv, NEW q \in Calls, Retry(q)
  PROVE  IInv'
<1> USE DEF keyring, signals, screen, run
<1>1. stage[q] = "replied" /\ req[q] \in Request /\ executed[q] = 0
  BY InFlight, TypeParts DEF IInv, Retry, IsChallenge, RunInv
<1>2. /\ req'[q] \in Request /\ stage'[q] = "sent"
      /\ req'[q].tab = req[q].tab /\ req'[q].op = req[q].op /\ req'[q].email = req[q].email
      /\ req'[q].key = req[q].key /\ req'[q].token = req[q].token
  BY <1>1, WithNonceFacts DEF IInv, TypeOK, Retry
<1>3. \A c \in Calls \ {q} : req'[c] = req[c] /\ stage'[c] = stage[c]
  BY DEF IInv, TypeOK, Retry
<1>4. /\ req' \in [Calls -> Request \cup {None}]
      /\ stage' \in [Calls -> {"free", "sent", "replied"}]
  BY <1>1, WithNonceFacts DEF IInv, TypeOK, Retry
<1>5. UNCHANGED <<scope, reply, executed, keyring, signals, screen, run>>
  BY DEF Retry
<1>6. \A c \in Calls : req'[c] = None <=> stage'[c] = "free"
  BY <1>2, <1>3, WebAssumption DEF IInv, TypeOK
<1>7. TypeOK'
  BY <1>4, <1>5, <1>6 DEF IInv, TypeOK
<1>8. TabInv' /\ ProfileIsOwn'
  BY <1>5 DEF IInv, TabInv, ProfileIsOwn
<1>9. RequestInv' /\ ReplyInv'
  BY <1>1, <1>2, <1>3, <1>5 DEF IInv, RequestInv, ReplyInv
<1>10. RunInv'
  BY <1>1, <1>2, <1>3, <1>5 DEF IInv, RunInv
<1>11. ScopeInv'
  BY <1>1, <1>2, <1>3, <1>5 DEF IInv, ScopeInv
<1>12. TokenFitsTabKey'
  BY <1>1, <1>2, <1>3, <1>5 DEF IInv, TokenFitsTabKey
<1> QED
  BY <1>7, <1>8, <1>9, <1>10, <1>11, <1>12 DEF IInv

(* A call is over. *)
Ends(q) ==
  /\ req' = [req EXCEPT ![q] = None]
  /\ stage' = [stage EXCEPT ![q] = "free"]
  /\ scope' = [scope EXCEPT ![q] = "gone"]
  /\ reply' = [reply EXCEPT ![q] = NoReply]
  /\ executed' = [executed EXCEPT ![q] = 0]
  /\ UNCHANGED <<keyring, run>>

LEMMA EndKeeps ==
  ASSUME IInv, NEW q \in Calls, Ends(q), UNCHANGED view
  PROVE  /\ CallType' /\ RunType'
         /\ RequestInv' /\ RunInv' /\ ReplyInv' /\ ScopeInv'
         /\ \A c \in Calls :
              stage'[c] # "free" /\ req'[c].token # None => req'[c].token.jkt = req'[c].key
<1> USE DEF keyring, run
<1>1. /\ stage'[q] = "free" /\ scope'[q] = "gone" /\ req'[q] = None /\ executed'[q] = 0
      /\ \A c \in Calls \ {q} : /\ req'[c] = req[c] /\ stage'[c] = stage[c] /\ scope'[c] = scope[c]
                                /\ reply'[c] = reply[c] /\ executed'[c] = executed[c]
  BY DEF IInv, TypeOK, Ends
<1>2. CallType' /\ RunType'
  BY NoReplyType DEF IInv, TypeOK, Ends, CallType, RunType
<1>3. RequestInv' /\ RunInv' /\ ReplyInv'
  BY <1>1 DEF IInv, RequestInv, RunInv, ReplyInv
<1>4. ScopeInv'
  BY <1>1 DEF IInv, ScopeInv, Ends
<1>5. \A c \in Calls :
        stage'[c] # "free" /\ req'[c].token # None => req'[c].token.jkt = req'[c].key
  BY <1>1 DEF IInv, TokenFitsTabKey
<1> QED
  BY <1>2, <1>3, <1>4, <1>5

LEMMA ReturnKeeps ==
  ASSUME IInv, NEW q \in Calls, Return(q)
  PROVE  IInv'
<1> USE DEF keyring, signals, screen, run
<1>1. Ends(q) /\ stage[q] = "replied"
  BY DEF Return, SignIn, ShowProfile, ShowMessage, Drop, Settle, Ends, IInv, TypeOK
<1>2. UNCHANGED <<view, boot, key>>
  BY DEF Return, SignIn, ShowProfile, ShowMessage, Drop, Settle
<1>3. /\ CallType' /\ RunType' /\ RequestInv' /\ RunInv' /\ ReplyInv' /\ ScopeInv'
      /\ \A c \in Calls :
           stage'[c] # "free" /\ req'[c].token # None => req'[c].token.jkt = req'[c].key
  BY <1>1, <1>2, EndKeeps
<1>4. req[q].tab \in Tabs /\ reply[q].token \in Token \cup {None}
  BY <1>1, InFlight, RequestFacts, TypeParts DEF IInv, TypeOK, Reply
<1>5. TabType' /\ ScreenType'
  <2>1. /\ stored' \in Keys \cup {None} /\ made' \subseteq Keys
        /\ boot' \in [Tabs -> {"load", "generate", "ready"}]
        /\ key' \in [Tabs -> Keys \cup {None}] /\ put' \in [Tabs -> Keys \cup {None}]
    BY <1>1 DEF Ends, IInv, TypeOK
  <2>2. CASE SignIn(q)
    BY <1>4, <2>1, <2>2 DEF SignIn, IInv, TypeOK, TabType, ScreenType, Pages
  <2>3. CASE ShowProfile(q)
    BY <1>4, <2>1, <2>3 DEF ShowProfile, IInv, TypeOK, TabType, ScreenType
  <2>4. CASE ShowMessage(q) \/ Drop(q)
    BY <2>1, <2>4 DEF ShowMessage, Drop, IInv, TypeOK, TabType, ScreenType
  <2> QED
    BY <2>2, <2>3, <2>4 DEF Return
<1>6. TypeOK'
  BY <1>3, <1>5 DEF TypeOK, TabType, ScreenType, CallType, RunType
<1>7. CASE SignIn(q)
  <2> DEFINE t == req[q].tab
  <2>1. boot[t] = "ready" /\ req[q].key = key[t]
    BY <1>7 DEF SignIn, Settle, IInv, ScopeInv
  <2>2. /\ token'[t] = reply[q].token /\ UNCHANGED <<profile, view>>
        /\ \A s \in Tabs \ {t} : token'[s] = token[s]
    BY <1>4, <1>7 DEF SignIn, IInv, TypeOK
  <2>3. token'[t] # None => token'[t].jkt = key[t]
    BY <1>1, <2>1, <2>2 DEF IInv, ReplyInv
  <2> HIDE DEF t
  <2>4. TabInv' /\ TokenFitsTabKey'
    BY <1>2, <1>3, <2>1, <2>2, <2>3 DEF IInv, TabInv, TokenFitsTabKey
  <2>5. ProfileIsOwn'
    BY <2>2 DEF IInv, ProfileIsOwn
  <2> QED
    BY <1>3, <1>6, <2>4, <2>5 DEF IInv
<1>8. CASE ~SignIn(q)
  <2>1. UNCHANGED token
    BY <1>8 DEF Return, ShowProfile, ShowMessage, Drop
  <2>2. TabInv' /\ TokenFitsTabKey'
    BY <1>2, <1>3, <2>1 DEF IInv, TabInv, TokenFitsTabKey
  <2>3. ProfileIsOwn'
    <3>1. CASE ShowProfile(q)
      <4>1. reply[q].token = view[req[q].tab].token
        BY <1>1, <3>1 DEF ShowProfile, IInv, ScopeInv, ReplyInv
      <4> QED
        BY <1>2, <1>4, <3>1, <4>1 DEF ShowProfile, IInv, TypeOK, ProfileIsOwn
    <3>2. CASE ~ShowProfile(q)
      BY <1>8, <3>2 DEF Return, ShowMessage, Drop, IInv, ProfileIsOwn
    <3> QED
      BY <3>1, <3>2
  <2> QED
    BY <1>3, <1>6, <2>2, <2>3 DEF IInv
<1> QED
  BY <1>7, <1>8

-----------------------------------------------------------------------------
(* Theorems                                                                  *)

THEOREM Invariance == Spec => []IInv
<1>1. Init => IInv
  <2> SUFFICES ASSUME Init PROVE IInv
    OBVIOUS
  <2>1. TabInv /\ RequestInv /\ RunInv /\ ReplyInv /\ ScopeInv /\ TokenFitsTabKey /\ ProfileIsOwn
    BY DEF Init, TabInv, RequestInv, RunInv, ReplyInv, ScopeInv, TokenFitsTabKey, ProfileIsOwn
  <2> QED
    BY <2>1, InitType DEF IInv
<1>2. IInv /\ [Next]_vars => IInv'
  <2> SUFFICES ASSUME IInv, [Next]_vars PROVE IInv'
    OBVIOUS
  <2>1. ASSUME NEW t \in Tabs, Boot(t) \/ Render(t) \/ User(t) PROVE IInv'
    BY <2>1, BootKeeps, LeaveKeeps, ReloadKeeps, RenderFormKeeps, RenderDashboardKeeps, SubmitKeeps
       DEF Render, User, RegisterForm, LoginForm
  <2>2. ASSUME NEW q \in Calls, Progress(q) PROVE IInv'
    BY <2>2, ServeKeeps, RetryKeeps, ReturnKeeps DEF Progress
  <2>3. CASE UNCHANGED vars
    BY <2>3 DEF vars, IInv, TypeOK, TabInv, RequestInv, RunInv, ReplyInv, ScopeInv,
                TokenFitsTabKey, ProfileIsOwn
  <2> QED
    BY <2>1, <2>2, <2>3 DEF Next
<1> QED
  BY <1>1, <1>2, PTL DEF Spec

(* Every variable keeps its type: dpop_requests makes at most two requests   *)
(* for a call, and a call has a request exactly while it is in flight.       *)
THEOREM TypeCorrect == Spec => []TypeOK
BY Invariance, PTL DEF IInv

(* A submit of a form runs the service at most once, through challenge,      *)
(* retry, loss of the request or of the response, and a reload meanwhile.    *)
THEOREM ServiceRunsOnce == Spec => []OncePerSubmit
<1>1. IInv => OncePerSubmit
  BY DEF IInv, RunInv, OncePerSubmit
<1> QED
  BY <1>1, Invariance, PTL

(* Though tabs generate, overwrite and load the key pair in IndexedDB in any *)
(* order, a tab's token and its requests fit the key the tab signs with.     *)
THEOREM TokenStaysBound == Spec => []TokenFitsTabKey
BY Invariance, PTL DEF IInv

(* No late answer of GET /me puts a profile on a Dashboard of another token. *)
THEOREM ProfileStaysOwn == Spec => []ProfileIsOwn
BY Invariance, PTL DEF IInv
=============================================================================
