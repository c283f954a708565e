--------------------------- MODULE AccountsProofs ---------------------------
(***************************************************************************)
(* Proofs about Accounts, for any number of calls, identifiers and         *)
(* passwords.                                                              *)
(***************************************************************************)
EXTENDS Accounts, FiniteSetTheorems, TLAPS

-----------------------------------------------------------------------------
(* Types                                                                     *)

LEMMA NoneTyped == NoCall.num \notin Users /\ NoRow.id \notin Users
BY DEF NoCall, NoRow, Users

LEMMA EligibleType ==
  ASSUME TypeOK, NEW v, NEW p
  PROVE  Eligible(v, p) \in SUBSET (Users \X BOOLEAN)
<1>1. \A u \in Users : users[u].totp \in BOOLEAN
  BY DEF TypeOK, UserRow
<1>2. Matches(v) \subseteq Users
  BY DEF Matches
<1> QED
  BY <1>1, <1>2 DEF Eligible

(* The store, the parameters and the calls, but not the history. *)
StoreType ==
  /\ users \in [Users -> UserRow]
  /\ idents \subseteq IdentRow
  /\ attempts \subseteq AttemptRow
  /\ sessions \in [Users -> Nat]
  /\ allowed \in BOOLEAN /\ calls \in 0..MaxCalls /\ changes \in Nat

CallType ==
  /\ pc \in [Reqs -> Pcs]
  /\ typed \in [Reqs -> [num : Users, value : Values, pw : Passwords] \cup {NoCall}]
  /\ row \in [Reqs -> Snapshot \cup {NoRow}]
  /\ tx \in [Reqs -> TxStates]
  /\ answer \in [Reqs -> Answers]
  /\ \A r \in Reqs :
       /\ pc[r] # "done" => typed[r] # NoCall
       /\ pc[r] \in {"open", "audit", "commit", "sign", "stamp", "record", "issue"}
            => row[r] # NoRow

HistoryType ==
  /\ seen \in [Reqs -> SUBSET (Users \X BOOLEAN)]
  /\ unaudited \in [Reqs -> BOOLEAN]

LEMMA TypeParts == TypeOK <=> StoreType /\ CallType /\ HistoryType
BY DEF TypeOK, StoreType, CallType, HistoryType

LEMMA InitType == Init => TypeOK
<1> SUFFICES ASSUME Init PROVE TypeOK
  OBVIOUS
<1> USE AccountsAssumption DEF Init
<1>1. StoreType
  BY DEF StoreType, UserRow
<1>2. CallType
  BY DEF CallType, Pcs, TxStates, Answers
<1>3. HistoryType
  BY DEF HistoryType
<1> QED
  BY <1>1, <1>2, <1>3, TypeParts

(* The call that a request makes has its type while it runs. *)
LEMMA TypedCall ==
  ASSUME TypeOK, NEW r \in Reqs, pc[r] # "done"
  PROVE  /\ typed[r].num \in Users /\ typed[r].value \in Values /\ typed[r].pw \in Passwords
         /\ Lower[typed[r].value] \in Values
BY AccountsAssumption DEF TypeOK

LEMMA TypedRow ==
  ASSUME TypeOK, NEW r \in Reqs, row[r] # NoRow
  PROVE  row[r].id \in Users /\ row[r].pw \in Passwords /\ row[r].totp \in BOOLEAN
BY DEF TypeOK, Snapshot

(* One field of a user is written. *)
LEMMA UserRowFields ==
  ASSUME NEW x \in UserRow, NEW p \in Passwords
  PROVE  /\ [x EXCEPT !.pw = p] \in UserRow
         /\ [x EXCEPT !.totp = ~@] \in UserRow
         /\ [x EXCEPT !.state = "deleted"] \in UserRow
         /\ [x EXCEPT !.stamped = TRUE] \in UserRow
<1>1. [x EXCEPT !.pw = p] \in UserRow
  BY DEF UserRow
<1>2. [x EXCEPT !.totp = ~@] \in UserRow
  BY DEF UserRow
<1>3. [x EXCEPT !.state = "deleted"] \in UserRow
  BY DEF UserRow
<1>4. [x EXCEPT !.stamped = TRUE] \in UserRow
  BY DEF UserRow
<1> QED
  BY <1>1, <1>2, <1>3, <1>4

LEMMA ReturnType ==
  ASSUME TypeOK, NEW r \in Reqs, NEW a \in Answers, Return(r, a)
  PROVE  CallType'
BY DEF Return, Goto, TypeOK, CallType, Pcs, TxStates

LEMMA RecordedType ==
  ASSUME TypeOK, NEW r \in Reqs, pc[r] # "done", NEW ok \in BOOLEAN
  PROVE  Recorded(r, ok) \subseteq AttemptRow
<1>1. [call |-> typed[r].num, value |-> Lower[typed[r].value], success |-> ok] \in AttemptRow
  BY TypedCall DEF AttemptRow
<1> QED
  BY <1>1 DEF TypeOK, Recorded

LEMMA PublishType ==
  ASSUME TypeOK, NEW r \in Reqs, pc[r] = "commit", Publish(r),
         UNCHANGED fixed
  PROVE  StoreType'
<1> USE AccountsAssumption
<1>1. /\ row[r].id \in Users /\ row[r].pw \in Passwords
      /\ Lower[typed[r].value] \in Values
  BY TypedCall, TypedRow DEF TypeOK
<1>2. UNCHANGED <<allowed, calls, changes>>
  BY DEF fixed
<1>3. CASE tx[r] = "complete"
  <2>a. [state |-> "live", pw |-> row[r].pw, totp |-> FALSE, stamped |-> TRUE] \in UserRow
    BY <1>1 DEF UserRow
  <2>b. [user |-> row[r].id, value |-> Lower[typed[r].value], live |-> TRUE] \in IdentRow
    BY <1>1 DEF IdentRow
  <2>1. users' \in [Users -> UserRow]
    BY <1>1, <1>3, <2>a DEF Publish, TypeOK
  <2>c. idents' = idents \cup
          {[user |-> row[r].id, value |-> Lower[typed[r].value], live |-> TRUE]}
    BY <1>3 DEF Publish
  <2>2. idents' \subseteq IdentRow
    BY <2>b, <2>c DEF TypeOK
  <2>3. sessions' \in [Users -> Nat]
    BY <1>1, <1>3 DEF Publish, TypeOK
  <2>4. attempts' \subseteq AttemptRow
    BY <1>3, RecordedType DEF Publish
  <2> QED
    BY <1>2, <2>1, <2>2, <2>3, <2>4 DEF TypeOK, StoreType
<1>4. CASE tx[r] # "complete"
  BY <1>2, <1>4 DEF Publish, store, TypeOK, StoreType
<1> QED
  BY <1>3, <1>4

LEMMA RegisterType ==
  ASSUME TypeOK, NEW r \in Reqs, Register(r)
  PROVE  StoreType' /\ CallType'
<1> USE AccountsAssumption
<1>1. CASE Insert(r)
  <2>1. [id |-> typed[r].num, pw |-> typed[r].pw, totp |-> FALSE] \in Snapshot
    BY <1>1, TypedCall DEF Insert, Snapshot
  <2>2. [id |-> typed[r].num, pw |-> typed[r].pw, totp |-> FALSE] # NoRow
    BY <1>1, TypedCall, NoneTyped DEF Insert
  <2>3. StoreType'
    BY <1>1 DEF Insert, store, fixed, TypeOK, StoreType
  <2>4. CallType'
    BY <1>1, <2>1, <2>2 DEF Insert, Goto, TypeOK, CallType, Pcs, Registering, TxStates
  <2> QED
    BY <2>3, <2>4
<1>2. CASE Conflict(r)
  BY <1>2, ReturnType DEF Conflict, store, fixed, TypeOK, StoreType, Answers
<1>3. CASE OpenSession(r)
  BY <1>3 DEF OpenSession, Goto, store, fixed, local, TypeOK, StoreType, CallType, Pcs, Registering
<1>4. CASE Audit(r)
  BY <1>4 DEF Audit, Goto, store, fixed, TypeOK, StoreType, CallType, Pcs, Registering, TxStates
<1>5. CASE Commit(r)
  <2>1. StoreType'
    BY <1>5, PublishType DEF Commit
  <2>2. CallType'
    BY <1>5 DEF Commit, Goto, TypeOK, CallType, Pcs, Registering, TxStates
  <2> QED
    BY <2>1, <2>2
<1>6. CASE CommitLost(r)
  BY <1>6, PublishType, ReturnType DEF CommitLost, Answers
<1>7. CASE SignToken(r)
  BY <1>7, ReturnType DEF SignToken, store, fixed, TypeOK, StoreType, Answers
<1> QED
  BY <1>1, <1>2, <1>3, <1>4, <1>5, <1>6, <1>7 DEF Register

LEMMA LoginType ==
  ASSUME TypeOK, NEW r \in Reqs, Login(r)
  PROVE  StoreType' /\ CallType'
<1> USE AccountsAssumption
<1>1. CASE FindUser(r)
  <2>1. \A u \in Users :
          [id |-> u, pw |-> users[u].pw, totp |-> users[u].totp] \in Snapshot
    BY DEF TypeOK, UserRow, Snapshot
  <2>2. Matches(typed[r].value) \subseteq Users
    BY DEF Matches
  <2>3. row' \in [Reqs -> Snapshot \cup {NoRow}]
    BY <1>1, <2>1, <2>2 DEF FindUser, TypeOK
  <2>4. \A s \in Reqs \ {r} : row'[s] = row[s]
    BY <1>1 DEF FindUser, TypeOK
  <2> QED
    BY <1>1, <2>3, <2>4 DEF FindUser, Goto, store, fixed, TypeOK, StoreType, CallType, Pcs, LoggingIn
<1>2. CASE Verify(r)
  <2>1. StoreType'
    BY <1>2 DEF Verify, store, fixed, TypeOK, StoreType
  <2>2. CASE Return(r, "Requires2fa")
    BY <2>1, <2>2, ReturnType DEF Answers
  <2>3. CASE Goto(r, "reject") /\ UNCHANGED <<local, answer>>
    BY <2>1, <2>3, <1>2 DEF Verify, Goto, local, TypeOK, CallType, Pcs, LoggingIn
  <2>4. CASE Accepted(r) /\ Goto(r, "stamp") /\ UNCHANGED <<local, answer>>
    BY <2>1, <2>4, <1>2 DEF Verify, Accepted, Goto, local, TypeOK, CallType, Pcs, LoggingIn
  <2> QED
    BY <1>2, <2>2, <2>3, <2>4 DEF Verify
<1>3. CASE Reject(r)
  <2>1. CallType'
    BY <1>3, ReturnType DEF Reject, Answers
  <2>2. attempts' \subseteq AttemptRow
    <3>1. Recorded(r, FALSE) \subseteq AttemptRow
      BY <1>3, RecordedType DEF Reject
    <3>2. attempts' = Recorded(r, FALSE) \/ attempts' = attempts
      BY <1>3 DEF Reject
    <3> QED
      BY <3>1, <3>2 DEF TypeOK
  <2> QED
    BY <1>3, <2>1, <2>2 DEF Reject, fixed, TypeOK, StoreType
<1>4. CASE Stamp(r)
  <2>1. row[r].id \in Users
    BY <1>4, TypedRow DEF Stamp, TypeOK
  <2>2. users' \in [Users -> UserRow]
    <3>1. [users[row[r].id] EXCEPT !.stamped = TRUE] \in UserRow
      BY <2>1, AccountsAssumption, UserRowFields DEF TypeOK
    <3>2. \/ users' = users
          \/ users' = [users EXCEPT ![row[r].id] = [users[row[r].id] EXCEPT !.stamped = TRUE]]
      BY <1>4 DEF Stamp
    <3> QED
      BY <2>1, <3>1, <3>2 DEF TypeOK
  <2> QED
    BY <1>4, <2>2 DEF Stamp, Goto, fixed, local, TypeOK, StoreType, CallType, Pcs, LoggingIn
<1>5. CASE Record(r)
  <2>1. attempts' \subseteq AttemptRow
    <3>1. Recorded(r, TRUE) \subseteq AttemptRow
      BY <1>5, RecordedType DEF Record
    <3>2. attempts' = Recorded(r, TRUE) \/ attempts' = attempts
      BY <1>5 DEF Record
    <3> QED
      BY <3>1, <3>2 DEF TypeOK
  <2> QED
    BY <1>5, <2>1 DEF Record, Goto, fixed, local, TypeOK, StoreType, CallType, Pcs, LoggingIn
<1>6. CASE IssueSession(r)
  <2>1. CallType'
    BY <1>6, ReturnType DEF IssueSession, Answers
  <2>2. row[r].id \in Users
    BY <1>6, TypedRow DEF IssueSession, TypeOK
  <2>3. sessions' \in [Users -> Nat]
    BY <1>6, <2>2 DEF IssueSession, TypeOK
  <2> QED
    BY <1>6, <2>1, <2>3 DEF IssueSession, fixed, TypeOK, StoreType
<1> QED
  BY <1>1, <1>2, <1>3, <1>4, <1>5, <1>6 DEF Login

LEMMA OtherType ==
  ASSUME TypeOK, NEW r \in Reqs, Begin(r) \/ Fail(r) \/ Cancel(r) \/ CancelStored(r)
  PROVE  StoreType' /\ CallType'
<1> USE AccountsAssumption
<1>1. CASE Fail(r) \/ Cancel(r)
  BY <1>1, ReturnType DEF Fail, Cancel, store, fixed, TypeOK, StoreType, Answers
<1>2. CASE RegistrationDisabled(r)
  BY <1>2 DEF RegistrationDisabled, store, TypeOK, StoreType, CallType, Answers
<1>3. ASSUME NEW v \in Values, NEW p \in Passwords, NEW l \in {"insert", "find"}, Start(r, v, p, l)
      PROVE  StoreType' /\ CallType'
  <2>1. calls + 1 \in Users /\ calls' \in 0..MaxCalls
    BY <1>3 DEF Start, TypeOK, Users
  <2>2. [num |-> calls + 1, value |-> v, pw |-> p] # NoCall
    BY <2>1, NoneTyped
  <2>3. StoreType'
    BY <1>3, <2>1 DEF Start, store, TypeOK, StoreType
  <2>4. CallType'
    BY <1>3, <2>1, <2>2 DEF Start, Goto, TypeOK, CallType, Pcs, Registering, LoggingIn, Answers
  <2> QED
    BY <2>3, <2>4
<1>4. CASE CancelStored(r)
  <2>1. CallType'
    BY <1>4, ReturnType DEF CancelStored, Answers
  <2>2. CASE pc[r] = "commit"
    BY <1>4, <2>1, <2>2, PublishType DEF CancelStored
  <2>3. CASE pc[r] \in {"reject", "record"}
    <3>1. attempts' \subseteq AttemptRow
      BY <1>4, <2>3, RecordedType DEF CancelStored
    <3> QED
      BY <1>4, <2>1, <2>3, <3>1 DEF CancelStored, fixed, TypeOK, StoreType
  <2>4. ASSUME pc[r] \in {"stamp", "issue"} PROVE row[r].id \in Users
    BY <2>4, TypedRow DEF TypeOK
  <2>5. CASE pc[r] = "stamp"
    <3>1. [users[row[r].id] EXCEPT !.stamped = TRUE] \in UserRow
      BY <2>4, <2>5, UserRowFields DEF TypeOK
    <3>2. users' = [users EXCEPT ![row[r].id] = [users[row[r].id] EXCEPT !.stamped = TRUE]]
      BY <1>4, <2>5 DEF CancelStored
    <3>3. users' \in [Users -> UserRow]
      BY <2>4, <2>5, <3>1, <3>2 DEF TypeOK
    <3> QED
      BY <1>4, <2>1, <2>5, <3>3 DEF CancelStored, fixed, TypeOK, StoreType
  <2>6. CASE pc[r] = "issue"
    <3>1. sessions' \in [Users -> Nat]
      BY <1>4, <2>4, <2>6 DEF CancelStored, TypeOK
    <3> QED
      BY <1>4, <2>1, <2>6, <3>1 DEF CancelStored, fixed, TypeOK, StoreType
  <2> QED
    BY <1>4, <2>2, <2>3, <2>5, <2>6 DEF CancelStored
<1> QED
  BY <1>1, <1>2, <1>3, <1>4 DEF Begin, BeginRegister, BeginLogin

LEMMA AdminType ==
  ASSUME TypeOK, Admin
  PROVE  StoreType' /\ CallType'
<1>1. Change
  BY DEF Admin, ChangeTotp, DeleteUser, ChangePassword, DeleteIdentifier
<1>2. users' \in [Users -> UserRow]
  <2>1. ASSUME NEW u \in Users, NEW p \in Passwords
        PROVE  /\ [users[u] EXCEPT !.pw = p] \in UserRow
               /\ [users[u] EXCEPT !.totp = ~@] \in UserRow
               /\ [users[u] EXCEPT !.state = "deleted"] \in UserRow
    BY <2>1, UserRowFields DEF TypeOK
  <2>2. CASE \E i \in idents : DeleteIdentifier(i)
    BY <2>2 DEF DeleteIdentifier, TypeOK
  <2>3. ASSUME NEW u \in Users, ChangeTotp(u)
        PROVE  users' \in [Users -> UserRow]
    BY <2>1, <2>3, AccountsAssumption DEF ChangeTotp, TypeOK
  <2>4. ASSUME NEW u \in Users, DeleteUser(u)
        PROVE  users' \in [Users -> UserRow]
    BY <2>1, <2>4, AccountsAssumption DEF DeleteUser, TypeOK
  <2>5. ASSUME NEW u \in Users, NEW p \in Passwords, ChangePassword(u, p)
        PROVE  users' \in [Users -> UserRow]
    BY <2>1, <2>5 DEF ChangePassword, TypeOK
  <2> QED
    BY <2>2, <2>3, <2>4, <2>5 DEF Admin
<1>3. idents' \subseteq IdentRow
  <2>1. \A i \in IdentRow : [i EXCEPT !.live = FALSE] \in IdentRow
    BY DEF IdentRow
  <2>2. CASE \E i \in idents : DeleteIdentifier(i)
    BY <2>1, <2>2 DEF DeleteIdentifier, TypeOK
  <2>3. CASE UNCHANGED idents
    BY <2>3 DEF TypeOK
  <2> QED
    BY <2>2, <2>3 DEF Admin, ChangeTotp, DeleteUser, ChangePassword
<1> QED
  BY <1>1, <1>2, <1>3 DEF Change, local, TypeOK, StoreType, CallType

LEMMA ObserveType ==
  ASSUME TypeOK, StoreType', CallType', Observe
  PROVE  HistoryType'
<1>1. ASSUME NEW r \in Reqs
      PROVE  Eligible(typed[r].value, typed[r].pw)' \in SUBSET (Users \X BOOLEAN)
  <2>1. \A u \in Users : users'[u].totp \in BOOLEAN
    BY DEF StoreType, UserRow
  <2>2. (Matches(typed[r].value))' \subseteq Users
    BY DEF Matches
  <2> QED
    BY <2>1, <2>2 DEF Eligible
<1>2. seen' \in [Reqs -> SUBSET (Users \X BOOLEAN)]
  BY <1>1 DEF Observe, TypeOK
<1>3. unaudited' \in [Reqs -> BOOLEAN]
  BY DEF Observe, TypeOK
<1> QED
  BY <1>2, <1>3 DEF HistoryType

LEMMA NextType == TypeOK /\ [Next]_vars => TypeOK'
<1> SUFFICES ASSUME TypeOK, [Next]_vars PROVE TypeOK'
  OBVIOUS
<1>1. CASE UNCHANGED vars
  BY <1>1 DEF vars, TypeOK
<1>2. CASE Next
  <2>1. StoreType' /\ CallType'
    BY <1>2, RegisterType, LoginType, OtherType, AdminType DEF Next
  <2>2. HistoryType'
    BY <1>2, <2>1, ObserveType DEF Next
  <2>3. TypeOK' <=> StoreType' /\ CallType' /\ HistoryType'
    BY DEF TypeOK, StoreType, CallType, HistoryType
  <2> QED
    BY <2>1, <2>2, <2>3
<1> QED
  BY <1>1, <1>2

(* Rows, transactions and answers of registrations and logins keep their     *)
(* types.                                                                    *)
THEOREM TypeCorrect == Spec => []TypeOK
BY InitType, NextType, PTL DEF Spec
-----------------------------------------------------------------------------
(* What a step of one call does                                              *)

(* The other calls stay as they are. *)
Others(r) ==
  \A s \in Reqs \ {r} :
    /\ pc'[s] = pc[s] /\ typed'[s] = typed[s] /\ row'[s] = row[s]
    /\ tx'[s] = tx[s] /\ answer'[s] = answer[s]

(* A call starts, or is refused at once. *)
Starts(r) ==
  /\ pc[r] = "done" /\ calls < MaxCalls /\ calls' = calls + 1
  /\ pc'[r] \in {"done", "insert", "find"}
  /\ pc'[r] # "done" => typed'[r].num = calls + 1 /\ answer'[r] = "none"
  /\ answer'[r] \in {"none", "RegistrationDisabled"}
  /\ tx'[r] = tx[r] /\ UNCHANGED store

(* A call returns. *)
Returns(r) ==
  /\ pc[r] # "done" /\ calls' = calls
  /\ pc'[r] = "done" /\ tx'[r] = "none" /\ row'[r] = row[r]
  /\ \/ answer'[r] \in {"none", "Internal", "Unauthorized"}
     \/ pc[r] = "insert" /\ answer'[r] = "Conflict"
     \/ pc[r] = "sign" /\ answer'[r] = "Registered"
     \/ pc[r] = "issue" /\ answer'[r] = "Success"
     \/ pc[r] = "verify" /\ answer'[r] = "Requires2fa" /\ Accepted(r) /\ row[r].totp

(* A call goes from one statement to the next. *)
Moves(r) ==
  /\ calls' = calls /\ typed'[r] = typed[r] /\ answer'[r] = answer[r]
  /\ \/ /\ pc[r] = "insert" /\ pc'[r] = "open" /\ tx'[r] = "account"
        /\ ~Taken(typed[r].value) /\ ~InFlight(r)
        /\ row'[r].id = typed[r].num
     \/ /\ pc[r] = "audit" /\ pc'[r] = "commit" /\ tx'[r] \in {"complete", "aborted"}
        /\ row'[r] = row[r]
     \/ /\ pc[r] = "commit" /\ pc'[r] = "sign" /\ tx'[r] = "none" /\ row'[r] = row[r]
     \/ /\ pc[r] = "find" /\ pc'[r] = "verify" /\ tx'[r] = tx[r]
        /\ row'[r] # NoRow => \E u \in Matches(typed[r].value) :
             row'[r] = [id |-> u, pw |-> users[u].pw, totp |-> users[u].totp]
     \/ /\ row'[r] = row[r] /\ tx'[r] = tx[r]
        /\ \/ pc[r] = "open" /\ pc'[r] = "audit"
           \/ pc[r] = "verify" /\ pc'[r] = "reject"
           \/ pc[r] = "verify" /\ pc'[r] = "stamp" /\ Accepted(r) /\ ~row[r].totp
           \/ pc[r] = "stamp" /\ pc'[r] = "record"
           \/ pc[r] = "record" /\ pc'[r] = "issue"

(* A registration becomes visible. *)
Publishes(r) ==
  /\ pc[r] = "commit" /\ pc'[r] \in {"sign", "done"}
  /\ tx[r] = "complete" /\ tx'[r] = "none"
  /\ Publish(r)

(* No other step creates a user or an identifier. *)
Quiet ==
  /\ \A u \in Users : /\ users'[u].state = "absent" <=> users[u].state = "absent"
                      /\ users[u].stamped => users'[u].stamped
  /\ \A i \in idents' : i.live => i \in idents
  /\ \A u \in Users : (\E i \in idents' : i.user = u) <=> (\E i \in idents : i.user = u)

Call(r) == Begin(r) \/ Register(r) \/ Login(r) \/ Fail(r) \/ Cancel(r) \/ CancelStored(r)

LEMMA ReturnStep ==
  ASSUME TypeOK, NEW r \in Reqs, NEW a, pc[r] # "done", Return(r, a), calls' = calls,
         \/ a \in {"none", "Internal", "Unauthorized"}
         \/ pc[r] = "insert" /\ a = "Conflict"
         \/ pc[r] = "sign" /\ a = "Registered"
         \/ pc[r] = "issue" /\ a = "Success"
         \/ pc[r] = "verify" /\ a = "Requires2fa" /\ Accepted(r) /\ row[r].totp
  PROVE  Others(r) /\ Returns(r)
BY DEF TypeOK, Return, Goto, Others, Returns

LEMMA RegisterStep ==
  ASSUME TypeOK, NEW r \in Reqs, Register(r)
  PROVE  Others(r) /\ (Returns(r) \/ Moves(r))
<1>1. CASE Insert(r)
  BY <1>1 DEF Insert, Goto, fixed, TypeOK, Others, Moves
<1>2. CASE Conflict(r)
  BY <1>2, ReturnStep DEF Conflict, fixed
<1>3. CASE OpenSession(r)
  BY <1>3 DEF OpenSession, Goto, fixed, local, TypeOK, Others, Moves
<1>4. CASE Audit(r)
  BY <1>4 DEF Audit, Goto, fixed, TypeOK, Others, Moves
<1>5. CASE Commit(r)
  BY <1>5 DEF Commit, Goto, fixed, TypeOK, Others, Moves
<1>6. CASE CommitLost(r)
  BY <1>6, ReturnStep DEF CommitLost, fixed
<1>7. CASE SignToken(r)
  BY <1>7, ReturnStep DEF SignToken, fixed
<1> QED
  BY <1>1, <1>2, <1>3, <1>4, <1>5, <1>6, <1>7 DEF Register

LEMMA LoginStep ==
  ASSUME TypeOK, NEW r \in Reqs, Login(r)
  PROVE  Others(r) /\ (Returns(r) \/ Moves(r))
<1>1. CASE FindUser(r)
  <2>1. Others(r)
    BY <1>1 DEF FindUser, Goto, TypeOK, Others
  <2>2. row'[r] # NoRow => \E u \in Matches(typed[r].value) :
             row'[r] = [id |-> u, pw |-> users[u].pw, totp |-> users[u].totp]
    BY <1>1 DEF FindUser, TypeOK
  <2> QED
    BY <1>1, <2>1, <2>2 DEF FindUser, Goto, fixed, TypeOK, Moves
<1>2. CASE Verify(r)
  <2>1. CASE Accepted(r) /\ row[r].totp /\ Return(r, "Requires2fa")
    BY <1>2, <2>1, ReturnStep DEF Verify, fixed
  <2>2. CASE ~Accepted(r) /\ Goto(r, "reject") /\ UNCHANGED <<local, answer>>
    BY <1>2, <2>2 DEF Verify, Goto, fixed, local, TypeOK, Others, Moves
  <2>3. CASE Accepted(r) /\ ~row[r].totp /\ Goto(r, "stamp") /\ UNCHANGED <<local, answer>>
    BY <1>2, <2>3 DEF Verify, Goto, fixed, local, TypeOK, Others, Moves
  <2> QED
    BY <1>2, <2>1, <2>2, <2>3 DEF Verify
<1>3. CASE Reject(r)
  BY <1>3, ReturnStep DEF Reject, fixed
<1>4. CASE Stamp(r)
  BY <1>4 DEF Stamp, Goto, fixed, local, TypeOK, Others, Moves
<1>5. CASE Record(r)
  BY <1>5 DEF Record, Goto, fixed, local, TypeOK, Others, Moves
<1>6. CASE IssueSession(r)
  BY <1>6, ReturnStep DEF IssueSession, fixed
<1> QED
  BY <1>1, <1>2, <1>3, <1>4, <1>5, <1>6 DEF Login

LEMMA CallStep ==
  ASSUME TypeOK, NEW r \in Reqs, Call(r)
  PROVE  Others(r) /\ (Starts(r) \/ Returns(r) \/ Moves(r))
<1>1. CASE Fail(r) \/ Cancel(r) \/ CancelStored(r)
  BY <1>1, ReturnStep DEF Fail, Cancel, CancelStored, fixed
<1>2. CASE RegistrationDisabled(r)
  BY <1>2 DEF RegistrationDisabled, TypeOK, Others, Starts
<1>3. ASSUME NEW v \in Values, NEW p \in Passwords, NEW l \in {"insert", "find"}, Start(r, v, p, l)
      PROVE  Others(r) /\ Starts(r)
  BY <1>3 DEF Start, Goto, TypeOK, Others, Starts
<1>4. CASE Begin(r)
  BY <1>2, <1>3, <1>4 DEF Begin, BeginRegister, BeginLogin
<1> QED
  BY <1>1, <1>4, RegisterStep, LoginStep DEF Call

(* What a step of a call does to the rows. *)
LEMMA StoreStep ==
  ASSUME TypeOK, NEW r \in Reqs, Call(r)
  PROVE  Publishes(r) \/ Quiet
<1>1. CASE UNCHANGED <<users, idents>>
  BY <1>1 DEF Quiet
<1>2. CASE Stamp(r) \/ (CancelStored(r) /\ pc[r] = "stamp")
  <2>1. row[r].id \in Users
    BY <1>2, TypedRow DEF Stamp, CancelStored, TypeOK
  <2>2. /\ UNCHANGED idents
        /\ users' = users \/ users' = [users EXCEPT ![row[r].id].stamped = TRUE]
    BY <1>2 DEF Stamp, CancelStored
  <2>3. \A u \in Users : users'[u].state = users[u].state
    BY <2>1, <2>2 DEF TypeOK, UserRow
  <2>4. ASSUME NEW u \in Users, users[u].stamped
        PROVE  users'[u].stamped
    <3>1. CASE users' = users
      BY <2>4, <3>1
    <3>2. CASE users' = [users EXCEPT ![row[r].id].stamped = TRUE] /\ u # row[r].id
      <4>1. users'[u] = users[u]
        BY <3>2 DEF TypeOK
      <4> QED
        BY <2>4, <4>1
    <3>3. CASE users' = [users EXCEPT ![row[r].id].stamped = TRUE] /\ u = row[r].id
      <4>1. users'[u] = [users[u] EXCEPT !.stamped = TRUE]
        BY <2>1, <3>3 DEF TypeOK
      <4>2. users[u] \in UserRow
        BY DEF TypeOK
      <4>3. users'[u].stamped = TRUE
        BY <4>1, <4>2 DEF UserRow
      <4> QED
        BY <4>3
    <3> QED
      BY <2>2, <3>1, <3>2, <3>3
  <2> QED
    BY <2>2, <2>3, <2>4 DEF Quiet
<1>3. CASE Commit(r) \/ CommitLost(r) \/ (CancelStored(r) /\ pc[r] = "commit")
  <2>1. pc[r] = "commit" /\ pc'[r] \in {"sign", "done"} /\ tx'[r] = "none" /\ Publish(r)
    BY <1>3 DEF Commit, CommitLost, CancelStored, Return, Goto, TypeOK
  <2>2. CASE tx[r] = "complete"
    BY <2>1, <2>2 DEF Publishes
  <2>3. CASE tx[r] # "complete"
    BY <1>1, <2>1, <2>3 DEF Publish, store
  <2> QED
    BY <2>2, <2>3
<1>4. CASE Begin(r)
  BY <1>1, <1>4 DEF Begin, BeginRegister, BeginLogin, Start, RegistrationDisabled, store
<1>5. CASE Register(r)
  BY <1>1, <1>3, <1>5 DEF Register, Insert, Conflict, OpenSession, Audit, SignToken, store
<1>6. CASE Login(r)
  BY <1>1, <1>2, <1>6 DEF Login, FindUser, Verify, Reject, Record, IssueSession, store
<1>7. CASE Fail(r) \/ Cancel(r) \/ CancelStored(r)
  BY <1>1, <1>2, <1>3, <1>7 DEF Fail, Cancel, CancelStored, store
<1> QED
  BY <1>4, <1>5, <1>6, <1>7 DEF Call

LEMMA AdminStep ==
  ASSUME TypeOK, Admin
  PROVE  Quiet /\ UNCHANGED <<calls, pc, typed, row, tx, answer, sessions>>
<1>1. UNCHANGED <<calls, pc, typed, row, tx, answer, sessions>>
  BY DEF Admin, ChangeTotp, DeleteUser, ChangePassword, DeleteIdentifier, Change, local
<1>2. ASSUME NEW u \in Users, ChangeTotp(u) \/ DeleteUser(u) \/ \E p \in Passwords : ChangePassword(u, p)
      PROVE  Quiet
  <2>1. UNCHANGED idents /\ users[u].state = "live"
    BY <1>2 DEF ChangeTotp, DeleteUser, ChangePassword
  <2>2. \A w \in Users \ {u} : users'[w] = users[w]
    BY <1>2 DEF ChangeTotp, DeleteUser, ChangePassword, TypeOK
  <2>3. users'[u].state # "absent" /\ users'[u].stamped = users[u].stamped
    <3>1. ASSUME NEW x \in UserRow, NEW p \in Passwords
          PROVE  /\ [x EXCEPT !.pw = p].state = x.state
                 /\ [x EXCEPT !.totp = ~@].state = x.state
                 /\ [x EXCEPT !.state = "deleted"].state = "deleted"
                 /\ [x EXCEPT !.pw = p].stamped = x.stamped
                 /\ [x EXCEPT !.totp = ~@].stamped = x.stamped
                 /\ [x EXCEPT !.state = "deleted"].stamped = x.stamped
      BY <3>1 DEF UserRow
    <3>2. CASE ChangeTotp(u)
      BY <2>1, <3>1, <3>2, AccountsAssumption DEF ChangeTotp, TypeOK
    <3>3. CASE DeleteUser(u)
      BY <2>1, <3>1, <3>3, AccountsAssumption DEF DeleteUser, TypeOK
    <3>4. ASSUME NEW p \in Passwords, ChangePassword(u, p)
          PROVE  users'[u].state # "absent" /\ users'[u].stamped = users[u].stamped
      BY <2>1, <3>1, <3>4 DEF ChangePassword, TypeOK
    <3> QED
      BY <1>2, <3>2, <3>3, <3>4
  <2> QED
    BY <2>1, <2>2, <2>3 DEF Quiet
<1>3. ASSUME NEW i \in idents, DeleteIdentifier(i)
      PROVE  Quiet
  <2> DEFINE j == [i EXCEPT !.live = FALSE]
  <2>1. j.live = FALSE /\ j.user = i.user
    BY DEF TypeOK, IdentRow
  <2>2. idents' = (idents \ {i}) \cup {j} /\ UNCHANGED users
    BY <1>3 DEF DeleteIdentifier
  <2> HIDE DEF j
  <2> QED
    BY <2>1, <2>2 DEF Quiet
<1> QED
  BY <1>1, <1>2, <1>3 DEF Admin

-----------------------------------------------------------------------------
(* The inductive invariant                                                   *)

(* A running call has its own number; the user of a registration is not      *)
(* there before its commit, and the user of a login stays; a transaction is  *)
(* open exactly between the first insert and the commit.                     *)
CallOK(r) ==
  /\ pc[r] # "done" => typed[r].num <= calls /\ answer[r] = "none"
  /\ pc[r] \in {"insert", "open", "audit", "commit"} => users[typed[r].num].state = "absent"
  /\ pc[r] \in {"open", "audit", "commit"} => row[r].id = typed[r].num
  /\ pc[r] \in {"verify", "stamp", "record", "issue"} /\ row[r] # NoRow
       => users[row[r].id].state # "absent"
  /\ pc[r] \in {"open", "audit"} => tx[r] = "account"
  /\ pc[r] = "commit" => tx[r] \in {"complete", "aborted"}
  /\ pc[r] \notin {"open", "audit", "commit"} => tx[r] = "none"

CallInv ==
  /\ \A r \in Reqs : CallOK(r)
  /\ \A r, s \in Reqs : r # s /\ pc[r] # "done" /\ pc[s] # "done" => typed[r].num # typed[s].num
  /\ \A u \in Users : u > calls => users[u].state = "absent"

(* The unique index: one live row per key, no row for the key of an open     *)
(* transaction, and no two open transactions for one key.                    *)
IndexInv ==
  /\ \A i, j \in idents : i.live /\ j.live /\ Key(i.value) = Key(j.value) => i = j
  /\ \A r \in Reqs : tx[r] \in {"account", "complete"} => ~Taken(typed[r].value)
  /\ \A r, s \in Reqs : r # s /\ tx[r] \in {"account", "complete"} /\ tx[s] \in {"account", "complete"}
       => Key(typed[r].value) # Key(typed[s].value)

LEMMA InitInv == Init => CallInv /\ IndexInv /\ AccountsAreWhole
<1> SUFFICES ASSUME Init PROVE CallInv /\ IndexInv /\ AccountsAreWhole
  OBVIOUS
<1>1. CallInv
  BY DEF Init, CallInv, CallOK
<1>2. IndexInv
  BY DEF Init, IndexInv
<1>3. AccountsAreWhole
  BY DEF Init, AccountsAreWhole
<1> QED
  BY <1>1, <1>2, <1>3

(* What a COMMIT writes. *)
LEMMA PublishStep ==
  ASSUME TypeOK, CallInv, NEW r \in Reqs, Publishes(r)
  PROVE  /\ row[r].id = typed[r].num /\ row[r].id \in Users
         /\ users[row[r].id].state = "absent"
         /\ users'[row[r].id].state = "live" /\ users'[row[r].id].stamped
         /\ \A u \in Users \ {row[r].id} : users'[u] = users[u] /\ sessions'[u] = sessions[u]
         /\ sessions'[row[r].id] = sessions[row[r].id] + 1
         /\ \E i : /\ idents' = idents \cup {i}
                   /\ i.user = row[r].id /\ i.live /\ Key(i.value) = Key(typed[r].value)
<1>1. pc[r] = "commit" /\ row[r].id = typed[r].num /\ users[typed[r].num].state = "absent"
  BY DEF Publishes, CallInv, CallOK
<1>2. typed[r].num \in Users /\ typed[r].value \in Values
  BY <1>1, TypedCall
<1>3. \A u \in Users \ {row[r].id} : users'[u] = users[u] /\ sessions'[u] = sessions[u]
  BY DEF Publishes, Publish, TypeOK
<1>4. sessions'[row[r].id] = sessions[row[r].id] + 1
  BY <1>1, <1>2 DEF Publishes, Publish, TypeOK
<1>5. users'[row[r].id].state = "live" /\ users'[row[r].id].stamped
  BY <1>1, <1>2 DEF Publishes, Publish, TypeOK
<1>6. \E i : /\ idents' = idents \cup {i}
             /\ i.user = row[r].id /\ i.live /\ Key(i.value) = Key(typed[r].value)
  <2> DEFINE i == [user |-> row[r].id, value |-> Lower[typed[r].value], live |-> TRUE]
  <2>1. idents' = idents \cup {i}
    BY DEF Publishes, Publish
  <2>2. i.user = row[r].id /\ i.live /\ Key(i.value) = Key(typed[r].value)
    BY <1>2, AccountsAssumption DEF Key
  <2> QED
    BY <2>1, <2>2
<1> QED
  BY <1>1, <1>2, <1>3, <1>4, <1>5, <1>6

(* Users are not forgotten, and appear only by a COMMIT. *)
LEMMA UsersStay ==
  ASSUME TypeOK, CallInv, NEW r \in Reqs, Publishes(r) \/ Quiet, NEW u \in Users
  PROVE  /\ users[u].state # "absent" => users'[u].state # "absent"
         /\ users[u].state = "absent" =>
              \/ users'[u].state = "absent"
              \/ Publishes(r) /\ typed[r].num = u
BY PublishStep DEF Quiet

LEMMA CallInvStep ==
  ASSUME TypeOK, CallInv, NEW r \in Reqs, Call(r)
  PROVE  CallInv'
<1>1. Others(r) /\ (Starts(r) \/ Returns(r) \/ Moves(r)) /\ (Publishes(r) \/ Quiet)
  BY CallStep, StoreStep
<1>2. calls \in Nat /\ calls' \in Nat /\ calls <= calls' /\ calls <= MaxCalls
  BY <1>1, AccountsAssumption DEF TypeOK, Starts, Returns, Moves
<1>3. ASSUME NEW s \in Reqs, s # r PROVE CallOK(s)'
  <2>1. /\ pc'[s] = pc[s] /\ typed'[s] = typed[s] /\ row'[s] = row[s]
        /\ tx'[s] = tx[s] /\ answer'[s] = answer[s]
    BY <1>1, <1>3 DEF Others
  <2>2. CallOK(s) /\ (pc[s] # "done" => typed[s].num \in Users)
    BY TypedCall DEF CallInv
  <2>3. row[s] # NoRow => row[s].id \in Users
    BY TypedRow
  <2>4. Publishes(r) => pc[r] # "done" /\ (pc[s] # "done" => typed[r].num # typed[s].num)
    BY <1>3 DEF Publishes, CallInv
  <2>5. pc[s] \in {"insert", "open", "audit", "commit"} => users'[typed[s].num].state = "absent"
    BY <1>1, <2>2, <2>4, UsersStay DEF CallOK
  <2>6. pc[s] \in {"verify", "stamp", "record", "issue"} /\ row[s] # NoRow
          => users'[row[s].id].state # "absent"
    BY <1>1, <2>2, <2>3, UsersStay DEF CallOK
  <2>7. pc[s] # "done" => typed[s].num <= calls'
    BY <1>2, <2>2 DEF CallOK, Users
  <2> QED
    BY <2>1, <2>2, <2>5, <2>6, <2>7 DEF CallOK
<1>4. CallOK(r)'
  <2>1. CallOK(r) /\ \A u \in Users : u > calls => users[u].state = "absent"
    BY DEF CallInv
  <2>2. CASE Starts(r)
    <3>1. calls + 1 \in Users /\ calls' = calls + 1
      BY <1>2, <2>2, AccountsAssumption DEF Starts, Users
    <3>2. users'[calls + 1].state = "absent"
      BY <1>2, <2>1, <2>2, <3>1 DEF Starts, store
    <3> QED
      BY <1>2, <2>1, <2>2, <3>1, <3>2 DEF Starts, CallOK
  <2>3. CASE Returns(r)
    BY <2>3 DEF Returns, CallOK
  <2>4. CASE Moves(r)
    <3>1. pc[r] # "done" /\ typed[r].num \in Users /\ typed'[r] = typed[r]
          /\ answer'[r] = answer[r] /\ calls' = calls
      BY <2>4, TypedCall DEF Moves
    <3>2. pc'[r] \in {"open", "audit", "commit"} => users'[typed[r].num].state = "absent"
      <4>1. pc'[r] \in {"open", "audit", "commit"} => pc[r] \in {"insert", "open", "audit"}
        BY <2>4 DEF Moves
      <4>2. pc'[r] \in {"open", "audit", "commit"} => ~Publishes(r)
        BY <4>1 DEF Publishes
      <4> QED
        BY <1>1, <2>1, <3>1, <4>1, <4>2, UsersStay DEF CallOK
    <3>3. pc'[r] = "verify" /\ row'[r] # NoRow => users'[row'[r].id].state # "absent"
      <4>1. SUFFICES ASSUME pc'[r] = "verify", row'[r] # NoRow
                     PROVE  users'[row'[r].id].state # "absent"
        OBVIOUS
      <4>2. PICK u \in Matches(typed[r].value) :
               row'[r] = [id |-> u, pw |-> users[u].pw, totp |-> users[u].totp]
        BY <2>4, <4>1 DEF Moves
      <4> QED
        BY <1>1, <4>2, UsersStay DEF Matches
    <3>4. pc'[r] \in {"stamp", "record", "issue"} => users'[row'[r].id].state # "absent"
      <4>1. SUFFICES ASSUME pc'[r] \in {"stamp", "record", "issue"}
                     PROVE  users'[row'[r].id].state # "absent"
        OBVIOUS
      <4>2. pc[r] \in {"verify", "stamp", "record"} /\ row'[r] = row[r] /\ row[r] # NoRow
        BY <2>4, <4>1 DEF Moves, Accepted, TypeOK
      <4>3. users[row[r].id].state # "absent" /\ row[r].id \in Users
        BY <2>1, <4>2, TypedRow DEF CallOK
      <4> QED
        BY <1>1, <4>2, <4>3, UsersStay
    <3> QED
      BY <2>1, <2>4, <3>1, <3>2, <3>3, <3>4 DEF Moves, CallOK
  <2> QED
    BY <1>1, <2>2, <2>3, <2>4
<1>5. \A s, q \in Reqs : s # q /\ pc'[s] # "done" /\ pc'[q] # "done" => typed'[s].num # typed'[q].num
  <2>1. ASSUME NEW s \in Reqs, s # r, pc'[s] # "done", pc'[r] # "done"
        PROVE  typed'[s].num # typed'[r].num
    <3>1. pc[s] # "done" /\ typed'[s] = typed[s] /\ typed[s].num \in Users /\ typed[s].num <= calls
      BY <1>1, <2>1, TypedCall DEF Others, CallInv, CallOK
    <3>2. CASE Starts(r)
      BY <1>2, <2>1, <3>1, <3>2 DEF Starts, Users
    <3>3. CASE Moves(r)
      BY <2>1, <3>1, <3>3 DEF Moves, CallInv
    <3> QED
      BY <1>1, <2>1, <3>2, <3>3 DEF Returns
  <2>2. ASSUME NEW s \in Reqs, NEW q \in Reqs, s # r, q # r, s # q, pc'[s] # "done", pc'[q] # "done"
        PROVE  typed'[s].num # typed'[q].num
    BY <1>1, <2>2 DEF Others, CallInv
  <2> QED
    BY <2>1, <2>2
<1>6. \A u \in Users : u > calls' => users'[u].state = "absent"
  <2> SUFFICES ASSUME NEW u \in Users, u > calls' PROVE users'[u].state = "absent"
    OBVIOUS
  <2>1. u > calls /\ users[u].state = "absent"
    BY <1>2 DEF Users, CallInv
  <2>2. Publishes(r) => typed[r].num <= calls /\ typed[r].num \in Users
    BY TypedCall DEF Publishes, CallInv, CallOK
  <2> QED
    BY <1>1, <1>2, <2>1, <2>2, UsersStay DEF Users
<1> QED
  BY <1>3, <1>4, <1>5, <1>6 DEF CallInv

LEMMA CallInvAdmin ==
  ASSUME TypeOK, CallInv, Quiet, UNCHANGED <<calls, pc, typed, row, tx, answer>>
  PROVE  CallInv'
<1>1. ASSUME NEW r \in Reqs PROVE CallOK(r)'
  <2>1. CallOK(r) /\ (pc[r] # "done" => typed[r].num \in Users) /\ (row[r] # NoRow => row[r].id \in Users)
    BY TypedCall, TypedRow DEF CallInv
  <2> QED
    BY <2>1 DEF CallOK, Quiet
<1> QED
  BY <1>1 DEF CallInv, Quiet

(* A live identifier that is new is the one of a COMMIT. *)
LEMMA IndexAdmin ==
  ASSUME TypeOK, IndexInv, Quiet, UNCHANGED <<typed, tx>>
  PROVE  IndexInv'
<1>1. \A v : Taken(v)' => Taken(v)
  BY DEF Quiet, Taken, Key
<1> QED
  BY <1>1 DEF IndexInv, Quiet, Taken, Key

LEMMA IndexStep ==
  ASSUME TypeOK, CallInv, IndexInv, NEW r \in Reqs, Call(r)
  PROVE  IndexInv'
<1>1. Others(r) /\ (Starts(r) \/ Returns(r) \/ Moves(r)) /\ (Publishes(r) \/ Quiet)
  BY CallStep, StoreStep
<1> DEFINE Open(s) == tx[s] \in {"account", "complete"}
<1>2. ASSUME NEW s \in Reqs, Open(s)'
      PROVE  /\ typed'[s] = typed[s] /\ ~Taken(typed[s].value)
             /\ \/ Open(s)
                \/ s = r /\ Quiet /\ ~InFlight(r)
  <2>1. CASE s # r
    BY <1>1, <1>2, <2>1 DEF Others, IndexInv
  <2>2. CASE s = r
    <3>1. ~Returns(r) /\ ~Publishes(r)
      BY <1>2, <2>2 DEF Returns, Publishes
    <3>2. ~Starts(r)
      BY <1>2, <2>2 DEF Starts, CallInv, CallOK
    <3>3. \/ pc[r] = "insert" /\ ~Taken(typed[r].value) /\ ~InFlight(r)
          \/ Open(r)
      BY <1>1, <1>2, <2>2, <3>1, <3>2 DEF Moves, CallInv, CallOK
    <3> QED
      BY <1>1, <2>2, <3>1, <3>2, <3>3 DEF Moves, IndexInv
  <2> QED
    BY <2>1, <2>2
<1>3. \A s, q \in Reqs : s # q /\ Open(s)' /\ Open(q)' => Key(typed'[s].value) # Key(typed'[q].value)
  <2> SUFFICES ASSUME NEW s \in Reqs, NEW q \in Reqs, s # q, Open(s)', Open(q)'
               PROVE  Key(typed[s].value) # Key(typed[q].value)
    BY <1>2
  <2>1. CASE Open(s) /\ Open(q)
    BY <2>1 DEF IndexInv
  <2>2. CASE s = r /\ ~InFlight(r) /\ Open(q)
    BY <2>2 DEF InFlight
  <2>3. CASE q = r /\ ~InFlight(r) /\ Open(s)
    BY <2>3 DEF InFlight
  <2> QED
    BY <1>2, <2>1, <2>2, <2>3
<1>4. CASE Quiet
  <2>2. \A s \in Reqs : Open(s)' => ~Taken(typed[s].value)'
    <3> SUFFICES ASSUME NEW s \in Reqs, Open(s)' PROVE ~Taken(typed[s].value)'
      OBVIOUS
    <3>1. typed'[s] = typed[s] /\ ~Taken(typed[s].value)
      BY <1>2
    <3> QED
      BY <1>4, <3>1 DEF Quiet, Taken, Key
  <2>3. \A i, j \in idents' : i.live /\ j.live /\ Key(i.value) = Key(j.value) => i = j
    BY <1>4 DEF Quiet, IndexInv
  <2> QED
    BY <1>3, <2>2, <2>3 DEF IndexInv, Key
<1>5. CASE Publishes(r)
  <2>1. PICK i : idents' = idents \cup {i} /\ i.live /\ Key(i.value) = Key(typed[r].value)
    BY <1>5, PublishStep
  <2>2. Open(r) /\ ~Taken(typed[r].value)
    BY <1>5 DEF Publishes, IndexInv
  <2>3. \A j, k \in idents' : j.live /\ k.live /\ Key(j.value) = Key(k.value) => j = k
    BY <2>1, <2>2 DEF IndexInv, Taken
  <2>4. \A s \in Reqs : Open(s)' => ~Taken(typed[s].value)'
    <3> SUFFICES ASSUME NEW s \in Reqs, Open(s)' PROVE ~Taken(typed[s].value)'
      OBVIOUS
    <3>1. s # r
      BY <1>5 DEF Publishes
    <3>2. typed'[s] = typed[s] /\ ~Taken(typed[s].value) /\ Open(s)
      BY <1>2, <3>1
    <3>3. Key(typed[s].value) # Key(typed[r].value)
      BY <2>2, <3>1, <3>2 DEF IndexInv
    <3> QED
      BY <2>1, <3>2, <3>3 DEF Taken, Key
  <2> QED
    BY <1>3, <2>3, <2>4 DEF IndexInv, Key
<1> QED
  BY <1>1, <1>4, <1>5

(* Sessions are opened by a COMMIT, or for a user that is stored. *)
LEMMA SessionStep ==
  ASSUME TypeOK, CallInv, NEW r \in Reqs, Call(r), ~Publishes(r), NEW u \in Users
  PROVE  \/ sessions'[u] = sessions[u]
         \/ sessions'[u] = sessions[u] + 1 /\ users[u].state # "absent"
<1>1. CASE IssueSession(r) \/ (CancelStored(r) /\ pc[r] = "issue")
  <2> USE DEF IssueSession, CancelStored
  <2>1. row[r] # NoRow
    BY <1>1 DEF TypeOK
  <2>2. row[r].id \in Users /\ users[row[r].id].state # "absent"
    BY <1>1, <2>1, TypedRow DEF CallInv, CallOK
  <2> QED
    BY <1>1, <2>2 DEF TypeOK
<1>2. CASE UNCHANGED sessions
  BY <1>2
<1>3. CASE Commit(r) \/ CommitLost(r) \/ (CancelStored(r) /\ pc[r] = "commit")
  <2>1. pc[r] = "commit" /\ pc'[r] \in {"sign", "done"} /\ tx'[r] = "none" /\ Publish(r)
    BY <1>3 DEF Commit, CommitLost, CancelStored, Return, Goto, TypeOK
  <2>2. tx[r] # "complete"
    BY <2>1 DEF Publishes
  <2> QED
    BY <2>1, <2>2 DEF Publish, store
<1>4. CASE Begin(r)
  BY <1>2, <1>4 DEF Begin, BeginRegister, BeginLogin, Start, RegistrationDisabled, store
<1>5. CASE Register(r)
  BY <1>2, <1>3, <1>5 DEF Register, Insert, Conflict, OpenSession, Audit, SignToken, store
<1>6. CASE Login(r)
  BY <1>1, <1>2, <1>6 DEF Login, FindUser, Verify, Reject, Stamp, Record, store
<1>7. CASE Fail(r) \/ Cancel(r) \/ CancelStored(r)
  BY <1>1, <1>2, <1>3, <1>7 DEF Fail, Cancel, CancelStored, store
<1> QED
  BY <1>4, <1>5, <1>6, <1>7 DEF Call

LEMMA WholeStep ==
  ASSUME TypeOK, CallInv, AccountsAreWhole, NEW r \in Reqs, Call(r)
  PROVE  AccountsAreWhole'
<1>1. Publishes(r) \/ Quiet
  BY StoreStep
<1>2. \A u \in Users : sessions[u] \in Nat
  BY DEF TypeOK
<1>3. CASE Publishes(r)
  <2>1. PICK i : idents' = idents \cup {i} /\ i.user = row[r].id
    BY <1>3, PublishStep
  <2>2. /\ row[r].id \in Users
        /\ users'[row[r].id].state = "live" /\ users'[row[r].id].stamped
        /\ \A u \in Users \ {row[r].id} : users'[u] = users[u] /\ sessions'[u] = sessions[u]
        /\ sessions'[row[r].id] = sessions[row[r].id] + 1
    BY <1>3, PublishStep
  <2> SUFFICES ASSUME NEW u \in Users
               PROVE  IF users'[u].state = "absent"
                      THEN sessions'[u] = 0 /\ \A j \in idents' : j.user # u
                      ELSE sessions'[u] > 0 /\ users'[u].stamped /\ \E j \in idents' : j.user = u
    BY DEF AccountsAreWhole
  <2>3. CASE u = row[r].id
    BY <1>2, <2>1, <2>2, <2>3
  <2>4. CASE u # row[r].id
    BY <2>1, <2>2, <2>4 DEF AccountsAreWhole
  <2> QED
    BY <2>3, <2>4
<1>4. CASE ~Publishes(r)
  <2> SUFFICES ASSUME NEW u \in Users
               PROVE  IF users'[u].state = "absent"
                      THEN sessions'[u] = 0 /\ \A j \in idents' : j.user # u
                      ELSE sessions'[u] > 0 /\ users'[u].stamped /\ \E j \in idents' : j.user = u
    BY DEF AccountsAreWhole
  <2>1. \/ sessions'[u] = sessions[u]
        \/ sessions'[u] = sessions[u] + 1 /\ users[u].state # "absent"
    BY <1>4, SessionStep
  <2> QED
    BY <1>1, <1>2, <1>4, <2>1 DEF Quiet, AccountsAreWhole
<1> QED
  BY <1>3, <1>4

LEMMA WholeAdmin ==
  ASSUME AccountsAreWhole, Quiet, UNCHANGED sessions
  PROVE  AccountsAreWhole'
BY DEF AccountsAreWhole, Quiet

StoreInv == TypeOK /\ CallInv /\ IndexInv /\ AccountsAreWhole

LEMMA Invariance == Spec => []StoreInv
<1>1. Init => StoreInv
  BY InitType, InitInv DEF StoreInv
<1>2. StoreInv /\ [Next]_vars => StoreInv'
  <2> SUFFICES ASSUME StoreInv, [Next]_vars PROVE StoreInv'
    OBVIOUS
  <2>1. TypeOK'
    BY NextType DEF StoreInv
  <2>2. CASE UNCHANGED vars
    <3>1. Quiet /\ UNCHANGED <<calls, pc, typed, row, tx, answer, sessions>>
      BY <2>2 DEF vars, Quiet
    <3> QED
      BY <2>1, <3>1, CallInvAdmin, IndexAdmin, WholeAdmin DEF StoreInv
  <2>3. CASE Next
    <3>1. CASE Admin
      BY <2>1, <3>1, AdminStep, CallInvAdmin, IndexAdmin, WholeAdmin DEF StoreInv
    <3>2. ASSUME NEW r \in Reqs, Call(r) PROVE StoreInv'
      BY <2>1, <3>2, CallInvStep, IndexStep, WholeStep DEF StoreInv
    <3> QED
      BY <2>3, <3>1, <3>2 DEF Next, Call
  <2> QED
    BY <2>2, <2>3
<1> QED
  BY <1>1, <1>2, PTL DEF Spec

(* However registrations of one identifier interleave, fail or are given up, *)
(* the rows that are stored are whole: no user without its identifier, its   *)
(* login time and a session, and no session or identifier without its user.  *)
THEOREM AccountsStayWhole == Spec => []AccountsAreWhole
BY Invariance, PTL DEF StoreInv

(* find_user_by_identifier never has two users to choose from, for any set   *)
(* of spellings and any number of racing registrations.                      *)
THEOREM IdentifiersResolve == Spec => []IdentifierResolvesToOne
<1>1. ASSUME StoreInv, NEW v \in Values
      PROVE  Cardinality(Matches(v)) <= 1
  <2>1. \A u, w \in Matches(v) : u = w
    BY <1>1 DEF Matches, StoreInv, IndexInv, Key
  <2>2. CASE Matches(v) = {}
    BY <2>2, FS_EmptySet
  <2>3. CASE \E u : u \in Matches(v)
    <3>1. PICK u : u \in Matches(v)
      BY <2>3
    <3>2. Matches(v) = {u}
      BY <2>1, <3>1
    <3> QED
      BY <3>2, FS_Singleton
  <2> QED
    BY <2>2, <2>3
<1>2. StoreInv => IdentifierResolvesToOne
  BY <1>1 DEF IdentifierResolvesToOne
<1> QED
  BY <1>2, Invariance, PTL

-----------------------------------------------------------------------------
(* Answers                                                                   *)

(* What the history must hold at each statement so that the answer, which    *)
(* comes later, is justified.                                                *)
HistOK(r) ==
  /\ tx[r] = "aborted" => unaudited[r]
  /\ pc[r] = "sign" => unaudited[r] \/ users[row[r].id].state # "absent"
  /\ pc[r] \in LoggingIn => Eligible(typed[r].value, typed[r].pw) \subseteq seen[r]
  /\ pc[r] = "verify" /\ Accepted(r) => <<row[r].id, row[r].totp>> \in seen[r]
  /\ pc[r] \in {"stamp", "record", "issue"} => <<row[r].id, FALSE>> \in seen[r]
  /\ answer[r] = "Registered" => /\ row[r] # NoRow
                                 /\ unaudited[r] \/ users[row[r].id].state # "absent"
  /\ answer[r] = "Success" => <<row[r].id, FALSE>> \in seen[r]
  /\ answer[r] = "Requires2fa" => <<row[r].id, TRUE>> \in seen[r]

HistInv == \A r \in Reqs : HistOK(r)

LEMMA CommitStep ==
  ASSUME TypeOK, NEW r \in Reqs, Call(r), pc[r] = "commit", pc'[r] = "sign", tx[r] = "complete"
  PROVE  Publishes(r)
<1>1. ~Begin(r) /\ ~Login(r)
  BY DEF Begin, BeginRegister, BeginLogin, Start, RegistrationDisabled,
         Login, FindUser, Verify, Reject, Stamp, Record, IssueSession
<1>2. ~Fail(r) /\ ~Cancel(r) /\ ~CancelStored(r) /\ ~CommitLost(r)
  BY DEF Fail, Cancel, CancelStored, CommitLost, Return, Goto, TypeOK
<1>3. Commit(r)
  BY <1>1, <1>2 DEF Call, Register, Insert, Conflict, OpenSession, Audit, SignToken
<1> QED
  BY <1>3 DEF Commit, Publishes, TypeOK

(* What Observe notes about one call. *)
LEMMA Observed ==
  ASSUME TypeOK, NEW r \in Reqs, Observe
  PROVE  /\ pc'[r] \in LoggingIn =>
              /\ Eligible(typed[r].value, typed[r].pw)' \subseteq seen'[r]
              /\ pc[r] # "done" => seen[r] \subseteq seen'[r]
         /\ pc'[r] = "done" /\ answer'[r] \in {"Success", "Requires2fa"} => seen'[r] = seen[r]
         /\ tx'[r] = "aborted" => unaudited'[r]
         /\ pc'[r] = "sign" \/ answer'[r] = "Registered" => (unaudited[r] => unaudited'[r])
<1>1. "done" \notin LoggingIn /\ "done" \notin Registering
  BY DEF LoggingIn, Registering
<1>2. /\ pc'[r] \in LoggingIn =>
              /\ Eligible(typed[r].value, typed[r].pw)' \subseteq seen'[r]
              /\ pc[r] # "done" => seen[r] \subseteq seen'[r]
      /\ pc'[r] = "done" /\ answer'[r] \in {"Success", "Requires2fa"} => seen'[r] = seen[r]
  <2> DEFINE e == Eligible(typed[r].value, typed[r].pw)'
  <2>1. seen'[r] = IF pc'[r] \in LoggingIn
                   THEN (IF pc[r] = "done" THEN {} ELSE seen[r]) \cup e
                   ELSE IF answer'[r] \in {"Success", "Requires2fa"} THEN seen[r] ELSE {}
    BY DEF Observe
  <2> HIDE DEF e
  <2>2. /\ pc'[r] \in LoggingIn => e \subseteq seen'[r] /\ (pc[r] # "done" => seen[r] \subseteq seen'[r])
        /\ pc'[r] = "done" /\ answer'[r] \in {"Success", "Requires2fa"} => seen'[r] = seen[r]
    BY <1>1, <2>1
  <2> QED
    BY <2>2 DEF e
<1>3. /\ tx'[r] = "aborted" => unaudited'[r]
      /\ pc'[r] = "sign" \/ answer'[r] = "Registered" => (unaudited[r] => unaudited'[r])
  BY DEF Observe
<1> QED
  BY <1>2, <1>3

(* A call that does not take the step keeps its history. *)
LEMMA HistFrame ==
  ASSUME TypeOK, CallInv, NEW r \in Reqs, HistOK(r), Observe,
         \A u \in Users : users[u].state # "absent" => users'[u].state # "absent",
         pc'[r] = pc[r], typed'[r] = typed[r], row'[r] = row[r], tx'[r] = tx[r], answer'[r] = answer[r]
  PROVE  HistOK(r)'
<1> USE Observed
<1>1. (tx[r] = "aborted" => unaudited[r])'
  OBVIOUS
<1>2. (pc[r] # "done" => answer[r] = "none") /\ (row[r] # NoRow => row[r].id \in Users)
  BY TypedRow DEF CallInv, CallOK
<1>3. (pc[r] = "sign" => unaudited[r] \/ users[row[r].id].state # "absent")'
  BY <1>2 DEF HistOK, TypeOK
<1>4. (pc[r] \in LoggingIn => Eligible(typed[r].value, typed[r].pw) \subseteq seen[r])'
  OBVIOUS
<1>5. pc[r] \in {"verify", "stamp", "record", "issue"} => seen[r] \subseteq seen'[r]
  BY DEF LoggingIn
<1>6. (pc[r] = "verify" /\ Accepted(r) => <<row[r].id, row[r].totp>> \in seen[r])'
  BY <1>5 DEF HistOK, Accepted, Valid
<1>7. (pc[r] \in {"stamp", "record", "issue"} => <<row[r].id, FALSE>> \in seen[r])'
  BY <1>5 DEF HistOK
<1>8. (answer[r] = "Registered" => /\ row[r] # NoRow
                                   /\ unaudited[r] \/ users[row[r].id].state # "absent")'
  BY <1>2 DEF HistOK
<1>9. (answer[r] = "Success" => <<row[r].id, FALSE>> \in seen[r])'
  BY <1>2 DEF HistOK
<1>10. (answer[r] = "Requires2fa" => <<row[r].id, TRUE>> \in seen[r])'
  BY <1>2 DEF HistOK
<1> QED
  BY <1>1, <1>3, <1>4, <1>6, <1>7, <1>8, <1>9, <1>10 DEF HistOK

(* The call that takes the step notes what its answer will need. *)
LEMMA HistActor ==
  ASSUME TypeOK, CallInv, NEW r \in Reqs, HistOK(r), Call(r), Observe, TypeOK'
  PROVE  HistOK(r)'
<1>1. (Starts(r) \/ Returns(r) \/ Moves(r)) /\ (Publishes(r) \/ Quiet)
  BY CallStep, StoreStep
<1>2. (tx[r] = "aborted" => unaudited[r])'
  BY Observed
<1>3. (pc[r] \in LoggingIn => Eligible(typed[r].value, typed[r].pw) \subseteq seen[r])'
  BY Observed
<1>4. pc'[r] \in {"verify", "stamp", "record", "issue"} /\ pc[r] # "done" => seen[r] \subseteq seen'[r]
  BY Observed DEF LoggingIn
<1>5. CallOK(r)
  BY DEF CallInv
<1> DEFINE Rest ==
      /\ pc[r] = "sign" => unaudited[r] \/ users[row[r].id].state # "absent"
      /\ pc[r] = "verify" /\ Accepted(r) => <<row[r].id, row[r].totp>> \in seen[r]
      /\ pc[r] \in {"stamp", "record", "issue"} => <<row[r].id, FALSE>> \in seen[r]
      /\ answer[r] = "Registered" => /\ row[r] # NoRow
                                     /\ unaudited[r] \/ users[row[r].id].state # "absent"
      /\ answer[r] = "Success" => <<row[r].id, FALSE>> \in seen[r]
      /\ answer[r] = "Requires2fa" => <<row[r].id, TRUE>> \in seen[r]
<1>6. ASSUME Starts(r) PROVE Rest'
  BY <1>6 DEF Starts
<1>7. ASSUME Returns(r) PROVE Rest'
  <2>1. pc'[r] = "done" /\ row'[r] = row[r]
    BY <1>7 DEF Returns
  <2>2. answer'[r] = "Registered" => /\ row'[r] # NoRow
                                     /\ unaudited'[r] \/ users'[row'[r].id].state # "absent"
    <3>1. SUFFICES ASSUME answer'[r] = "Registered"
                   PROVE  /\ row[r] # NoRow
                          /\ unaudited'[r] \/ users'[row[r].id].state # "absent"
      BY <2>1
    <3>2. pc[r] = "sign"
      BY <1>7, <3>1 DEF Returns
    <3>3. row[r] # NoRow /\ row[r].id \in Users
      BY <3>2, TypedRow DEF TypeOK
    <3> QED
      BY <1>1, <3>1, <3>2, <3>3, UsersStay, Observed DEF HistOK
  <2>3. answer'[r] = "Success" => <<row'[r].id, FALSE>> \in seen'[r]
    <3>1. answer'[r] = "Success" => pc[r] = "issue"
      BY <1>7 DEF Returns
    <3> QED
      BY <2>1, <3>1, Observed DEF HistOK
  <2>4. answer'[r] = "Requires2fa" => <<row'[r].id, TRUE>> \in seen'[r]
    <3>1. answer'[r] = "Requires2fa" => pc[r] = "verify" /\ Accepted(r) /\ row[r].totp
      BY <1>7 DEF Returns
    <3>2. answer'[r] = "Requires2fa" => row[r].totp = TRUE
      BY <3>1, TypedRow DEF Accepted
    <3> QED
      BY <2>1, <3>1, <3>2, Observed DEF HistOK
  <2> QED
    BY <2>1, <2>2, <2>3, <2>4
<1>8. ASSUME Moves(r) PROVE Rest'
  <2>1. pc[r] # "done" /\ answer'[r] = "none" /\ typed'[r] = typed[r]
    BY <1>5, <1>8 DEF Moves, CallOK
  <2>2. pc'[r] = "sign" => unaudited'[r] \/ users'[row'[r].id].state # "absent"
    <3>1. SUFFICES ASSUME pc'[r] = "sign"
                   PROVE  unaudited'[r] \/ users'[row'[r].id].state # "absent"
      OBVIOUS
    <3>2. pc[r] = "commit" /\ row'[r] = row[r] /\ tx[r] \in {"complete", "aborted"}
      BY <1>5, <1>8, <3>1 DEF Moves, CallOK
    <3>3. CASE tx[r] = "complete"
      BY <3>1, <3>2, <3>3, CommitStep, PublishStep
    <3>4. CASE tx[r] = "aborted"
      BY <3>1, <3>4, Observed DEF HistOK
    <3> QED
      BY <3>2, <3>3, <3>4
  <2>3. pc'[r] = "verify" /\ Accepted(r)' => <<row'[r].id, row'[r].totp>> \in seen'[r]
    <3>1. SUFFICES ASSUME pc'[r] = "verify", row'[r] # NoRow, typed[r].pw = row'[r].pw
                   PROVE  <<row'[r].id, row'[r].totp>> \in seen'[r]
      BY <2>1 DEF Accepted, Valid
    <3>2. pc[r] = "find"
      BY <1>8, <3>1 DEF Moves
    <3>3. PICK u \in Matches(typed[r].value) :
            row'[r] = [id |-> u, pw |-> users[u].pw, totp |-> users[u].totp]
      BY <1>8, <3>1 DEF Moves
    <3>4. <<u, users[u].totp>> \in Eligible(typed[r].value, typed[r].pw)
      BY <3>1, <3>3 DEF Eligible
    <3>5. <<u, users[u].totp>> \in seen[r]
      BY <3>2, <3>4 DEF HistOK, LoggingIn
    <3> QED
      BY <1>4, <2>1, <3>1, <3>3, <3>5
  <2>4. pc'[r] \in {"stamp", "record", "issue"} => <<row'[r].id, FALSE>> \in seen'[r]
    <3>1. SUFFICES ASSUME pc'[r] \in {"stamp", "record", "issue"}
                   PROVE  <<row'[r].id, FALSE>> \in seen'[r]
      OBVIOUS
    <3>2. row'[r] = row[r] /\ seen[r] \subseteq seen'[r]
      BY <1>4, <1>8, <2>1, <3>1 DEF Moves
    <3>3. CASE pc[r] = "verify"
      <4>1. Accepted(r) /\ ~row[r].totp
        BY <1>8, <3>1, <3>3 DEF Moves
      <4>2. row[r].totp = FALSE
        BY <4>1, TypedRow DEF Accepted
      <4> QED
        BY <3>2, <3>3, <4>1, <4>2 DEF HistOK
    <3>4. CASE pc[r] # "verify"
      <4>1. pc[r] \in {"stamp", "record"}
        BY <1>8, <3>1, <3>4 DEF Moves
      <4> QED
        BY <3>2, <4>1 DEF HistOK
    <3> QED
      BY <3>3, <3>4
  <2> QED
    BY <2>1, <2>2, <2>3, <2>4
<1>9. Rest'
  BY <1>1, <1>6, <1>7, <1>8
<1> QED
  BY <1>2, <1>3, <1>9 DEF HistOK

LEMMA HistInvariance == Spec => []HistInv
<1>1. Init => HistInv
  <2> SUFFICES ASSUME Init, NEW r \in Reqs PROVE HistOK(r)
    BY DEF HistInv
  <2> QED
    BY DEF Init, HistOK, LoggingIn
<1>2. StoreInv /\ StoreInv' /\ HistInv /\ [Next]_vars => HistInv'
  <2> SUFFICES ASSUME StoreInv, StoreInv', HistInv, [Next]_vars, NEW s \in Reqs PROVE HistOK(s)'
    BY DEF HistInv
  <2>1. TypeOK /\ CallInv /\ TypeOK' /\ HistOK(s)
    BY DEF StoreInv, HistInv
  <2>2. CASE UNCHANGED vars
    BY <2>1, <2>2 DEF vars, HistOK, Eligible, Matches, Accepted, Valid
  <2>3. CASE Admin /\ Observe
    <3>1. Quiet /\ UNCHANGED <<pc, typed, row, tx, answer>>
      BY <2>1, <2>3, AdminStep
    <3> QED
      BY <2>1, <2>3, <3>1, HistFrame DEF Quiet
  <2>4. ASSUME NEW r \in Reqs, Call(r), Observe PROVE HistOK(s)'
    <3>1. CASE s = r
      BY <2>1, <2>4, <3>1, HistActor
    <3>2. CASE s # r
      <4>1. Others(r) /\ (Publishes(r) \/ Quiet)
        BY <2>1, <2>4, CallStep, StoreStep
      <4>2. \A u \in Users : users[u].state # "absent" => users'[u].state # "absent"
        BY <2>1, <4>1, UsersStay
      <4> QED
        BY <2>1, <2>4, <3>2, <4>1, <4>2, HistFrame DEF Others
    <3> QED
      BY <3>1, <3>2
  <2> QED
    BY <2>2, <2>3, <2>4 DEF Next, Call
<1> QED
  BY <1>1, <1>2, Invariance, PTL DEF Spec

(* A login that is accepted was justified at one moment of the call, however *)
(* password changes, second factors and deletions race with it.              *)
THEOREM LoginsJustified == Spec => []LoginsAreJustified
<1>1. HistInv => LoginsAreJustified
  BY DEF HistInv, HistOK, LoginsAreJustified
<1> QED
  BY <1>1, HistInvariance, PTL

(* A registration that hands out tokens has stored its user, or has lost the *)
(* record of its attempt inside the transaction.                             *)
THEOREM RegistrationsAreStored == Spec => []RegisteredUnlessUnaudited
<1>1. HistInv => RegisteredUnlessUnaudited
  BY DEF HistInv, HistOK, RegisteredUnlessUnaudited
<1> QED
  BY <1>1, HistInvariance, PTL
=============================================================================
