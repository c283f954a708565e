------------------------------ MODULE Accounts ------------------------------
(***************************************************************************)
(* Registration and password login: AuthService::register and              *)
(* AuthService::login (service/auth.rs) over dpop_users, dpop_identifiers, *)
(* dpop_login_attempts and dpop_refresh_tokens (store/repo).               *)
(*                                                                         *)
(* A registration is one transaction, whose rows appear at its commit; a   *)
(* login is a sequence of statements that commit one by one.  The unique   *)
(* index on (kind, LOWER(value)) makes an insert wait for an open          *)
(* transaction that has inserted the same key.  Administration (password   *)
(* changes, second factor, soft deletion) goes on beside the calls.        *)
(***************************************************************************)
EXTENDS Integers, FiniteSets

CONSTANTS
  Reqs,         \* concurrent calls
  Values,       \* identifier values of one kind, as they are typed
  Lower,        \* [Values -> Values]: to_lowercase, and LOWER of PostgreSQL
  Passwords,
  Dummy,        \* the password of AuthService::dummy_hash
  None,
  MaxCalls,     \* bound: calls started
  MaxChanges    \* bound: administrative changes

ASSUME AccountsAssumption ==
  /\ Lower \in [Values -> Values]
  /\ \A v \in Values : Lower[Lower[v]] = Lower[v]
  /\ None \notin Values /\ Dummy \in Passwords
  /\ MaxCalls \in Nat /\ MaxChanges \in Nat

VARIABLES
  users,      \* dpop_users: rows committed
  idents,     \* dpop_identifiers: rows committed
  attempts,   \* dpop_login_attempts: rows committed
  sessions,   \* dpop_refresh_tokens: number of families opened per user
  allowed,    \* config.allow_registration
  calls,      \* calls started so far
  changes,    \* administrative changes so far
  pc,         \* where each call is
  typed,      \* its number, and the identifier and password it presents
  row,        \* the user it has created or read
  tx,         \* its transaction
  answer,     \* its last answer
  seen,       \* history: users a login could have accepted since it began
  unaudited   \* history: the record of its attempt failed in its transaction

store == <<users, idents, attempts, sessions>>
fixed == <<allowed, calls, changes>>
local == <<typed, row, tx>>
vars  == <<users, idents, attempts, sessions, allowed, calls, changes, pc,
           typed, row, tx, answer, seen, unaudited>>

-----------------------------------------------------------------------------
(* The id of a user, or of an attempt, is the number of the call that writes *)
(* the row, which writes at most one: ids are fresh.                         *)
Users == 1..MaxCalls
UserRow == [state : {"absent", "live", "deleted"}, pw : Passwords,
            totp : BOOLEAN, stamped : BOOLEAN]
IdentRow == [user : Users, value : Values, live : BOOLEAN]
AttemptRow == [call : Users, value : Values, success : BOOLEAN]
Snapshot == [id : Users, pw : Passwords, totp : BOOLEAN]
NoRow == [id |-> 0, pw |-> Dummy, totp |-> FALSE]
NoCall == [num |-> 0, value |-> None, pw |-> Dummy]

(* A transaction is not open, has inserted the user and the identifier, has  *)
(* the session and the attempt as well, or is aborted by a failed statement. *)
TxStates == {"none", "account", "complete", "aborted"}

Registering == {"insert", "open", "audit", "commit", "sign"}
LoggingIn == {"find", "verify", "reject", "stamp", "record", "issue"}
Pcs == {"done"} \cup Registering \cup LoggingIn
Answers == {"none", "Registered", "RegistrationDisabled", "Conflict",
            "Internal", "Unauthorized", "Requires2fa", "Success"}

TypeOK ==
  /\ users \in [Users -> UserRow]
  /\ idents \subseteq IdentRow
  /\ attempts \subseteq AttemptRow
  /\ sessions \in [Users -> Nat]
  /\ allowed \in BOOLEAN /\ calls \in 0..MaxCalls /\ changes \in Nat
  /\ pc \in [Reqs -> Pcs]
  /\ typed \in [Reqs -> [num : Users, value : Values, pw : Passwords] \cup {NoCall}]
  /\ row \in [Reqs -> Snapshot \cup {NoRow}]
  /\ tx \in [Reqs -> TxStates]
  /\ answer \in [Reqs -> Answers]
  /\ seen \in [Reqs -> SUBSET (Users \X BOOLEAN)]
  /\ unaudited \in [Reqs -> BOOLEAN]
  /\ \A r \in Reqs :
       /\ pc[r] # "done" => typed[r] # NoCall
       /\ pc[r] \in {"open", "audit", "commit", "sign", "stamp", "record", "issue"}
            => row[r] # NoRow

Init ==
  /\ users = [u \in Users |-> [state |-> "absent", pw |-> Dummy,
                               totp |-> FALSE, stamped |-> FALSE]]
  /\ idents = {}
  /\ attempts = {}
  /\ sessions = [u \in Users |-> 0]
  /\ allowed \in BOOLEAN /\ calls = 0 /\ changes = 0
  /\ pc = [r \in Reqs |-> "done"]
  /\ typed = [r \in Reqs |-> NoCall]
  /\ row = [r \in Reqs |-> NoRow]
  /\ tx = [r \in Reqs |-> "none"]
  /\ answer = [r \in Reqs |-> "none"]
  /\ seen = [r \in Reqs |-> {}]
  /\ unaudited = [r \in Reqs |-> FALSE]

-----------------------------------------------------------------------------
(* The queries                                                               *)

(* Faulty variants: OpNoX is Op with one plausible mistake.  Nothing uses    *)
(* them; each is put in the place of the definition that follows it to see   *)
(* that a property notices.                                                  *)

(* The index is on the value as it is stored. *)
KeyNoLower(v) == v

(* The key of an identifier in the unique index. *)
Key(v) == Lower[v]

(* A live row of dpop_identifiers has this key, whoever its user is. *)
Taken(v) == \E i \in idents : i.live /\ Key(i.value) = Key(v)

(* find_user_by_identifier: the users joined to a live identifier. *)
Matches(v) ==
  {u \in Users : /\ users[u].state = "live"
                 /\ \E i \in idents : /\ i.user = u /\ i.live
                                      /\ Lower[i.value] = Lower[v]}

(* record_login_attempt: the value is stored in lower case. *)
Recorded(r, ok) ==
  attempts \cup {[call |-> typed[r].num, value |-> Lower[typed[r].value], success |-> ok]}

(* The users that a login may accept now, with their second factor. *)
Eligible(v, p) ==
  {<<u, users[u].totp>> : u \in {m \in Matches(v) : users[m].pw = p}}

(* History: what holds after each step of a call is noted until it returns.  *)
Observe ==
  /\ seen' = [r \in Reqs |->
       IF pc'[r] \in LoggingIn
       THEN (IF pc[r] = "done" THEN {} ELSE seen[r]) \cup Eligible(typed[r].value, typed[r].pw)'
       ELSE IF answer'[r] \in {"Success", "Requires2fa"} THEN seen[r] ELSE {}]
  /\ unaudited' = [r \in Reqs |->
       tx'[r] = "aborted" \/ (unaudited[r] /\ (pc'[r] = "sign" \/ answer'[r] = "Registered"))]

Goto(r, l) == pc' = [pc EXCEPT ![r] = l]

(* A transaction that is given up stays open. *)
ReturnNoRollback(r, a) ==
  /\ Goto(r, "done")
  /\ answer' = [answer EXCEPT ![r] = a]
  /\ typed' = [typed EXCEPT ![r].pw = Dummy]
  /\ UNCHANGED <<tx, row>>

(* The call returns; a transaction it still holds is dropped: ROLLBACK. *)
Return(r, a) ==
  /\ Goto(r, "done")
  /\ answer' = [answer EXCEPT ![r] = a]
  /\ typed' = [typed EXCEPT ![r] = NoCall]
  /\ tx' = [tx EXCEPT ![r] = "none"]
  /\ UNCHANGED row

Start(r, v, p, l) ==
  /\ pc[r] = "done" /\ calls < MaxCalls
  /\ calls' = calls + 1
  /\ typed' = [typed EXCEPT ![r] = [num |-> calls + 1, value |-> v, pw |-> p]]
  /\ row' = [row EXCEPT ![r] = NoRow]
  /\ answer' = [answer EXCEPT ![r] = "none"]
  /\ Goto(r, l)
  /\ UNCHANGED <<store, allowed, changes, tx>>

-----------------------------------------------------------------------------
(* register                                                                  *)

BeginRegister(r, v, p) ==
  /\ allowed
  /\ Start(r, v, p, "insert")

RegistrationDisabled(r) ==
  /\ pc[r] = "done" /\ ~allowed /\ calls < MaxCalls
  /\ calls' = calls + 1
  /\ row' = [row EXCEPT ![r] = NoRow]
  /\ answer' = [answer EXCEPT ![r] = "RegistrationDisabled"]
  /\ UNCHANGED <<store, allowed, changes, pc, typed, tx>>

(* Some open transaction of another call has inserted this key. *)
InFlight(r) ==
  \E s \in Reqs \ {r} : /\ tx[s] \in {"account", "complete"}
                        /\ Key(typed[s].value) = Key(typed[r].value)

(* The user is inserted on a connection of its own. *)
InsertNoTx(r) ==
  /\ pc[r] = "insert" /\ ~Taken(typed[r].value) /\ ~InFlight(r)
  /\ row' = [row EXCEPT ![r] = [id |-> typed[r].num, pw |-> typed[r].pw, totp |-> FALSE]]
  /\ users' = [users EXCEPT ![typed[r].num] =
       [state |-> "live", pw |-> typed[r].pw, totp |-> FALSE, stamped |-> FALSE]]
  /\ tx' = [tx EXCEPT ![r] = "account"]
  /\ Goto(r, "open")
  /\ UNCHANGED <<idents, attempts, sessions, fixed, typed, answer>>

(* BEGIN, create_user and create_identifier: nobody else sees the rows. *)
Insert(r) ==
  /\ pc[r] = "insert" /\ ~Taken(typed[r].value) /\ ~InFlight(r)
  /\ row' = [row EXCEPT ![r] = [id |-> typed[r].num, pw |-> typed[r].pw, totp |-> FALSE]]
  /\ tx' = [tx EXCEPT ![r] = "account"]
  /\ Goto(r, "open")
  /\ UNCHANGED <<store, fixed, typed, answer>>

(* create_identifier reports the unique violation of a committed row. *)
Conflict(r) ==
  /\ pc[r] = "insert" /\ Taken(typed[r].value)
  /\ Return(r, "Conflict")
  /\ UNCHANGED <<store, fixed>>

(* update_last_login_at and create_refresh_token, in the transaction. *)
OpenSession(r) ==
  /\ pc[r] = "open"
  /\ Goto(r, "audit")
  /\ UNCHANGED <<store, fixed, local, answer>>

(* record_login_attempt, whose error is dropped: it aborts the transaction.  *)
Audit(r) ==
  /\ pc[r] = "audit"
  /\ \E t \in {"complete", "aborted"} : tx' = [tx EXCEPT ![r] = t]
  /\ Goto(r, "commit")
  /\ UNCHANGED <<store, fixed, typed, row, answer>>

(* COMMIT publishes the four rows; it rolls an aborted transaction back, and *)
(* that is no error.                                                         *)
Publish(r) ==
  IF tx[r] = "complete"
  THEN /\ users' = [users EXCEPT ![row[r].id] =
            [state |-> "live", pw |-> row[r].pw, totp |-> FALSE, stamped |-> TRUE]]
       /\ idents' = idents \cup
            {[user |-> row[r].id, value |-> Lower[typed[r].value], live |-> TRUE]}
       /\ sessions' = [sessions EXCEPT ![row[r].id] = @ + 1]
       /\ attempts' = Recorded(r, TRUE)
  ELSE UNCHANGED <<store>>

(* The transaction is never committed. *)
CommitNoPublish(r) ==
  /\ pc[r] = "commit"
  /\ tx' = [tx EXCEPT ![r] = "none"]
  /\ Goto(r, "sign")
  /\ UNCHANGED <<store, fixed, typed, row, answer>>

Commit(r) ==
  /\ pc[r] = "commit"
  /\ Publish(r)
  /\ tx' = [tx EXCEPT ![r] = "none"]
  /\ Goto(r, "sign")
  /\ UNCHANGED <<fixed, typed, row, answer>>

(* The acknowledgement of the COMMIT is lost. *)
CommitLost(r) ==
  /\ pc[r] = "commit"
  /\ Publish(r)
  /\ Return(r, "Internal")
  /\ UNCHANGED fixed

(* issue_access_token, and the answer. *)
SignToken(r) ==
  /\ pc[r] = "sign"
  /\ Return(r, "Registered")
  /\ UNCHANGED <<store, fixed>>

-----------------------------------------------------------------------------
(* login                                                                     *)

BeginLogin(r, v, p) == Start(r, v, p, "find")

(* find_user_by_identifier: one row of the snapshot, or none. *)
FindUser(r) ==
  /\ pc[r] = "find"
  /\ LET found == Matches(typed[r].value)
     IN \/ /\ found = {} /\ row' = [row EXCEPT ![r] = NoRow]
        \/ \E u \in found :
             row' = [row EXCEPT ![r] = [id |-> u, pw |-> users[u].pw, totp |-> users[u].totp]]
  /\ Goto(r, "verify")
  /\ UNCHANGED <<store, fixed, typed, tx, answer>>

(* verify_password, against the dummy hash when there is no user. *)
Valid(r) == typed[r].pw = row[r].pw

(* A valid password is enough. *)
AcceptedNoUser(r) == Valid(r)

Accepted(r) == row[r] # NoRow /\ Valid(r)

(* The second factor is not looked at. *)
VerifyNoTotp(r) ==
  /\ pc[r] = "verify"
  /\ \/ /\ ~Accepted(r) /\ Goto(r, "reject")
        /\ UNCHANGED <<local, answer>>
     \/ /\ Accepted(r) /\ Goto(r, "stamp")
        /\ UNCHANGED <<local, answer>>
  /\ UNCHANGED <<store, fixed>>

Verify(r) ==
  /\ pc[r] = "verify"
  /\ \/ /\ ~Accepted(r) /\ Goto(r, "reject")
        /\ UNCHANGED <<local, answer>>
     \/ /\ Accepted(r) /\ row[r].totp /\ Return(r, "Requires2fa")
     \/ /\ Accepted(r) /\ ~row[r].totp /\ Goto(r, "stamp")
        /\ UNCHANGED <<local, answer>>
  /\ UNCHANGED <<store, fixed>>

(* The failed attempt is recorded, or its error is dropped. *)
Reject(r) ==
  /\ pc[r] = "reject"
  /\ \E ok \in BOOLEAN :
       attempts' = IF ok THEN Recorded(r, FALSE) ELSE attempts
  /\ Return(r, "Unauthorized")
  /\ UNCHANGED <<users, idents, sessions, fixed>>

(* update_last_login_at, whose error is dropped: deleted users as well. *)
Stamp(r) ==
  /\ pc[r] = "stamp"
  /\ \E ok \in BOOLEAN :
       users' = IF ok THEN [users EXCEPT ![row[r].id].stamped = TRUE] ELSE users
  /\ Goto(r, "record")
  /\ UNCHANGED <<idents, attempts, sessions, fixed, local, answer>>

(* The attempt is recorded as a success before there is a session. *)
Record(r) ==
  /\ pc[r] = "record"
  /\ \E ok \in BOOLEAN :
       attempts' = IF ok THEN Recorded(r, TRUE) ELSE attempts
  /\ Goto(r, "issue")
  /\ UNCHANGED <<users, idents, sessions, fixed, local, answer>>

(* issue_session: the refresh token is stored, then the access token signed. *)
IssueSession(r) ==
  /\ pc[r] = "issue"
  /\ sessions' = [sessions EXCEPT ![row[r].id] = @ + 1]
  /\ \E a \in {"Success", "Internal"} : Return(r, a)
  /\ UNCHANGED <<users, idents, attempts, fixed>>

-----------------------------------------------------------------------------
(* The environment                                                           *)

(* A statement, the hash or the signature fails and `?` returns the error.   *)
Fail(r) ==
  /\ pc[r] \in {"insert", "open", "commit", "sign", "find", "verify", "issue"}
  /\ Return(r, "Internal")
  /\ UNCHANGED <<store, fixed>>

(* The client goes away and the future of the call is dropped. *)
Cancel(r) ==
  /\ pc[r] # "done"
  /\ Return(r, "none")
  /\ UNCHANGED <<store, fixed>>

(* It is dropped while a statement that commits is under way, and the server *)
(* completes the statement: its row is stored and nobody is answered.        *)
CancelStored(r) ==
  /\ \/ /\ pc[r] = "reject" /\ attempts' = Recorded(r, FALSE)
        /\ UNCHANGED <<users, idents, sessions>>
     \/ /\ pc[r] = "stamp" /\ users' = [users EXCEPT ![row[r].id].stamped = TRUE]
        /\ UNCHANGED <<idents, attempts, sessions>>
     \/ /\ pc[r] = "record" /\ attempts' = Recorded(r, TRUE)
        /\ UNCHANGED <<users, idents, sessions>>
     \/ /\ pc[r] = "issue" /\ sessions' = [sessions EXCEPT ![row[r].id] = @ + 1]
        /\ UNCHANGED <<users, idents, attempts>>
     \/ pc[r] = "commit" /\ Publish(r)
  /\ Return(r, "none")
  /\ UNCHANGED fixed

(* One administrative change, while the calls go on. *)
Change ==
  /\ changes < MaxChanges /\ changes' = changes + 1
  /\ UNCHANGED <<attempts, sessions, allowed, calls, pc, local, answer>>

(* update_password *)
ChangePassword(u, p) ==
  /\ users[u].state = "live"
  /\ users' = [users EXCEPT ![u].pw = p]
  /\ UNCHANGED idents /\ Change

(* confirm_2fa and disable_2fa, seen from here (see TwoFactor). *)
ChangeTotp(u) ==
  /\ users[u].state = "live"
  /\ users' = [users EXCEPT ![u].totp = ~@]
  /\ UNCHANGED idents /\ Change

(* The application sets deleted_at of a user, or of an identifier. *)
DeleteUser(u) ==
  /\ users[u].state = "live"
  /\ users' = [users EXCEPT ![u].state = "deleted"]
  /\ UNCHANGED idents /\ Change

DeleteIdentifier(i) ==
  /\ i \in idents /\ i.live
  /\ idents' = (idents \ {i}) \cup {[i EXCEPT !.live = FALSE]}
  /\ UNCHANGED users /\ Change

-----------------------------------------------------------------------------
Register(r) ==
  \/ Insert(r) \/ Conflict(r) \/ OpenSession(r) \/ Audit(r) \/ Commit(r)
  \/ CommitLost(r) \/ SignToken(r)

Login(r) ==
  \/ FindUser(r) \/ Verify(r) \/ Reject(r) \/ Stamp(r) \/ Record(r)
  \/ IssueSession(r)

Begin(r) ==
  \/ \E v \in Values, p \in Passwords : BeginRegister(r, v, p) \/ BeginLogin(r, v, p)
  \/ RegistrationDisabled(r)

Admin ==
  \/ \E u \in Users :
       ChangeTotp(u) \/ DeleteUser(u) \/ \E p \in Passwords : ChangePassword(u, p)
  \/ \E i \in idents : DeleteIdentifier(i)

Next ==
  /\ \/ \E r \in Reqs :
          Begin(r) \/ Register(r) \/ Login(r) \/ Fail(r) \/ Cancel(r) \/ CancelStored(r)
     \/ Admin
  /\ Observe

Spec == Init /\ [][Next]_vars

(* The runtime polls every task, and PostgreSQL grants an index entry when   *)
(* the transaction before has ended.                                         *)
FairSpec == Spec /\ \A r \in Reqs : WF_vars((Register(r) \/ Login(r)) /\ Observe)

-----------------------------------------------------------------------------
(* Properties                                                                *)

(* The unique index and the soft-deletion tests leave at most one user       *)
(* behind an identifier, however it is spelled and whatever registrations    *)
(* race: find_user_by_identifier never chooses between two users.            *)
IdentifierResolvesToOne ==
  \A v \in Values : Cardinality(Matches(v)) <= 1

(* register is all or nothing: a stored user has its identifier, its login   *)
(* time and a session, and a registration that was refused, failed, raced or *)
(* was cancelled leaves no user, identifier or session behind.               *)
AccountsAreWhole ==
  \A u \in Users :
    IF users[u].state = "absent"
    THEN sessions[u] = 0 /\ \A i \in idents : i.user # u
    ELSE sessions[u] > 0 /\ users[u].stamped /\ \E i \in idents : i.user = u

(* An accepted login names a user whose identifier, password and second      *)
(* factor were, all three at one moment of the call, as the answer says;     *)
(* changes that race with the call cannot produce a mixture, and the dummy   *)
(* password of unknown users opens nothing.                                  *)
LoginsAreJustified ==
  \A r \in Reqs :
    /\ answer[r] = "Success" => <<row[r].id, FALSE>> \in seen[r]
    /\ answer[r] = "Requires2fa" => <<row[r].id, TRUE>> \in seen[r]

(* The tokens of a registration are handed out only when its user is stored, *)
(* unless the record of the attempt failed in the transaction, whose COMMIT  *)
(* then rolls back and is taken for a success.                               *)
RegisteredUnlessUnaudited ==
  \A r \in Reqs :
    answer[r] = "Registered" => unaudited[r] \/ users[row[r].id].state # "absent"

(* service/auth.rs:208: "Returns [`ServiceError::Internal`] on password      *)
(* hashing or database execution failures": tokens mean a stored user.       *)
RegisteredIsStored ==
  \A r \in Reqs : answer[r] = "Registered" => users[row[r].id].state # "absent"

(* Every registration and every login returns, also one that waits for the   *)
(* registration of the same identifier to end.                               *)
EveryCallReturns == \A r \in Reqs : pc[r] # "done" ~> pc[r] = "done"
=============================================================================
