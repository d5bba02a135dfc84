-------------------------- MODULE Accounts_proofs --------------------------
(***************************************************************************)
(* What Accounts guarantees for any requests, names and passwords.  What   *)
(* involves the case of names needs Rust and Postgres to agree about it.   *)
(***************************************************************************)
EXTENDS Accounts, TLAPS

Signing == {"locking", "checking", "inserting", "hashing"}
Verifying == {"finding", "verifying"}

(* A handler works on an operation of its own kind.                        *)
Roles ==
  \A r \in Request :
    /\ pc[r] = "new" <=> op[r] = None
    /\ pc[r] \in Signing => op[r].kind = "signup"
    /\ pc[r] \in Verifying => op[r].kind = "authorize"
    /\ pc[r] = "opening" => op[r].kind \in {"signup", "authorize"}
    /\ pc[r] = "removing" => op[r].kind = "logout"
    /\ pc[r] \in {"authorizing", "posting"} => op[r].kind = "send"

Typed == TypeOK /\ Roles

(* The fields of an operation.                                             *)
LEMMA OperationFields ==
  ASSUME NEW o \in Operation
  PROVE  /\ o.kind \in {"signup", "authorize", "logout", "send"}
         /\ o.kind \in {"signup", "authorize"} => o.name \in Name /\ o.password \in Password
         /\ o.kind \in {"logout", "send"} => o.cookie \in Request \cup {None}
         /\ o.kind = "send" => o.receiver \in Request
BY DEF Operation

LEMMA TypeInit == Init => Typed
BY DEF Init, Typed, Roles, TypeOK, Phase, Signing, Verifying

(* What a step that moves one handler on does to the others.               *)
LEMMA GotoFacts ==
  ASSUME TypeOK, NEW r \in Request, NEW p \in Phase, Goto(r, p)
  PROVE  /\ pc' \in [Request -> Phase]
         /\ pc'[r] = p
         /\ \A q \in Request : q # r => pc'[q] = pc[q]
BY DEF TypeOK, Goto

LEMMA TypeNext == Typed /\ [Next]_vars => Typed'
<1> SUFFICES ASSUME Typed, [Next]_vars PROVE Typed'
  OBVIOUS
<1> USE AccountsAssumption DEF Typed, Roles, Signing, Verifying
<1>1. ASSUME NEW r \in Request, NEW o \in Operation, Start(r, o) PROVE Typed'
  <2>1. /\ o.kind \in {"signup", "authorize", "logout", "send"}
        /\ o # None
    BY OperationFields DEF Operation
  <2> QED BY <1>1, <2>1 DEF Start, TypeOK, FirstPhase, Phase, Goto
<1>2. ASSUME NEW r \in Request, LockUsers(r) \/ RejectName(r) \/ AcceptName(r) \/ LockUsersFails(r)
      PROVE  Typed'
  BY <1>2 DEF LockUsers, RejectName, AcceptName, LockUsersFails, Unlock, Goto, TypeOK, Phase, Ended
<1>3. ASSUME NEW r \in Request, InsertUser(r) \/ CreateUserFails(r) PROVE Typed'
  <2>1. op[r] \in Operation /\ op[r].kind = "signup"
    BY <1>3 DEF InsertUser, CreateUserFails, TypeOK
  <2>2. op[r].name \in Name
    BY <2>1, OperationFields
  <2> QED BY <1>3, <2>2 DEF InsertUser, CreateUserFails, Unlock, Goto, TypeOK, Phase, Ended
<1>4. ASSUME NEW r \in Request, UpdateAuthentication(r) \/ UpdateAuthenticationFails(r)
      PROVE  Typed'
  <2>1. op[r] \in Operation /\ op[r].kind = "signup"
    BY <1>4 DEF UpdateAuthentication, UpdateAuthenticationFails, TypeOK
  <2>2. op[r].password \in Password
    BY <2>1, OperationFields
  <2>3. auth' \in [Request -> Password \cup {None}]
    BY <1>4, <2>2 DEF UpdateAuthentication, UpdateAuthenticationFails, TypeOK
  <2> QED BY <1>4, <2>1, <2>3
     DEF UpdateAuthentication, UpdateAuthenticationFails, Goto, TypeOK, Phase, Ended
<1>5. ASSUME NEW r \in Request, Authorize(r) PROVE Typed'
  BY <1>5 DEF Authorize, FindUser, FindNobody, VerifyUser, VerifyUserFails, Named, User,
     Goto, TypeOK, Phase, Ended
<1>6. ASSUME NEW r \in Request, UpdateSessionInfo(r) \/ RemoveSessionInfo(r) PROVE Typed'
  BY <1>6 DEF UpdateSessionInfo, RemoveSessionInfo, Goto, TypeOK, Phase, Ended
<1>7. ASSUME NEW r \in Request, GetAuthorization(r) \/ Unauthorized(r) PROVE Typed'
  <2>1. op[r] \in Operation /\ op[r].kind = "send"
    BY <1>7 DEF GetAuthorization, Unauthorized, TypeOK
  <2>2. op[r].cookie \in Request \cup {None}
    BY <2>1, OperationFields
  <2> QED BY <1>7, <2>2 DEF GetAuthorization, Unauthorized, SessionUser, Goto, TypeOK, Phase, Ended
<1>8. ASSUME NEW r \in Request, CreateMessage(r) \/ CreateMessageFails(r) PROVE Typed'
  BY <1>8 DEF CreateMessage, CreateMessageFails, User, Post, Goto, TypeOK, Phase, Ended
<1>9. CASE Restart
  BY <1>9 DEF Restart, TypeOK, Phase, Ended
<1>10. CASE UNCHANGED vars
  BY <1>10 DEF vars, TypeOK
<1> QED
  BY <1>1, <1>2, <1>3, <1>4, <1>5, <1>6, <1>7, <1>8, <1>9, <1>10
     DEF Next, Handle, Signup, SendMessage

(* Every variable keeps its type.                                          *)
THEOREM TypeCorrect == Spec => []TypeOK
<1>1. Typed => TypeOK
  BY DEF Typed
<1> QED BY <1>1, TypeInit, TypeNext, PTL DEF Spec

-----------------------------------------------------------------------------
(* Rows, passwords and operations are written once.                        *)

(* A user's row and password are the ones of the user's own sign up, and   *)
(* are not there before it gets that far.                                  *)
Rows ==
  \A u \in Request :
    /\ pc[u] \in {"new", "locking", "checking", "inserting"} => users[u] = None
    /\ pc[u] \in {"new", "locking", "checking", "inserting", "hashing"} => auth[u] = None
    /\ pc[u] = "hashing" => user[u] = u /\ u \in User
    /\ u \in User => op[u] # None /\ op[u].kind = "signup" /\ users[u] = op[u].name

LEMMA RowsInit == Init => Rows
BY AccountsAssumption DEF Init, Rows, User

(* A step other than a sign up's leaves the tables alone and puts no       *)
(* handler back before them.                                               *)
LEMMA RowsFrame ==
  ASSUME Typed, Rows, UNCHANGED <<users, auth>>,
         \A u \in Request : op'[u] = op[u] \/ op[u] = None,
         \A u \in Request :
           \/ pc'[u] = pc[u] /\ user'[u] = user[u]
           \/ pc'[u] \notin {"new", "locking", "checking", "inserting", "hashing"}
           \/ pc[u] \in {"new", "locking", "checking", "inserting"} /\ pc'[u] # "hashing"
  PROVE  Rows'
BY DEF Typed, TypeOK, Rows, User

LEMMA RowsNext == Typed /\ Rows /\ [Next]_vars => Rows'
<1> SUFFICES ASSUME Typed, Rows, [Next]_vars PROVE Rows'
  OBVIOUS
<1> USE AccountsAssumption
<1>1. ASSUME NEW r \in Request, NEW o \in Operation, Start(r, o) PROVE Rows'
  <2>1. pc[r] = "new" /\ op[r] = None /\ pc'[r] # "hashing"
    BY <1>1, OperationFields DEF Start, FirstPhase, Goto, Typed, TypeOK, Roles
  <2>2. \A u \in Request : u # r => op'[u] = op[u] /\ pc'[u] = pc[u]
    BY <1>1 DEF Start, Goto, Typed, TypeOK
  <2> QED BY <1>1, <2>1, <2>2, RowsFrame DEF Start
<1>2. ASSUME NEW r \in Request, LockUsers(r) \/ RejectName(r) \/ AcceptName(r) \/ LockUsersFails(r)
      PROVE  Rows'
  BY <1>2, RowsFrame DEF LockUsers, RejectName, AcceptName, LockUsersFails, Goto, Typed, TypeOK
<1>3. ASSUME NEW r \in Request, InsertUser(r) \/ CreateUserFails(r) PROVE Rows'
  <2>1. op[r] # None /\ op[r].kind = "signup" /\ op[r].name \in Name
    BY <1>3, OperationFields DEF InsertUser, CreateUserFails, Typed, TypeOK, Roles, Signing
  <2> QED BY <1>3, <2>1
     DEF InsertUser, CreateUserFails, Goto, Typed, TypeOK, Rows, User
<1>4. ASSUME NEW r \in Request, UpdateAuthentication(r) \/ UpdateAuthenticationFails(r)
      PROVE  Rows'
  <2>1. user[r] = r
    BY <1>4 DEF UpdateAuthentication, UpdateAuthenticationFails, Rows
  <2>2. \A u \in Request : u # r => auth'[u] = auth[u] /\ pc'[u] = pc[u]
    BY <1>4, <2>1 DEF UpdateAuthentication, UpdateAuthenticationFails, Goto, Typed, TypeOK
  <2>3. pc'[r] \in {"opening", "failed"}
    BY <1>4 DEF UpdateAuthentication, UpdateAuthenticationFails, Goto, Typed, TypeOK
  <2> QED BY <1>4, <2>2, <2>3 DEF UpdateAuthentication, UpdateAuthenticationFails, Rows, User
<1>5. ASSUME NEW r \in Request, Authorize(r) \/ UpdateSessionInfo(r) \/ RemoveSessionInfo(r)
      PROVE  Rows'
  BY <1>5, RowsFrame DEF Authorize, FindUser, FindNobody, VerifyUser, VerifyUserFails,
     UpdateSessionInfo, RemoveSessionInfo, Goto, Typed, TypeOK
<1>6. ASSUME NEW r \in Request, SendMessage(r) PROVE Rows'
  BY <1>6, RowsFrame DEF SendMessage, GetAuthorization, Unauthorized, CreateMessage,
     CreateMessageFails, Goto, Typed, TypeOK
<1>7. CASE Restart
  BY <1>7, RowsFrame DEF Restart, Typed, TypeOK, Ended
<1>8. CASE UNCHANGED vars
  BY <1>8, RowsFrame DEF vars
<1> QED
  BY <1>1, <1>2, <1>3, <1>4, <1>5, <1>6, <1>7, <1>8 DEF Next, Handle, Signup

(* What a request asks for stays, and a user's name and password, once     *)
(* there, stay.                                                            *)
LEMMA WrittenOnce ==
  ASSUME Typed, Rows, [Next]_vars
  PROVE  /\ \A c \in Request : op[c] # None => op'[c] = op[c]
         /\ \A u \in User : u \in User' /\ users'[u] = users[u]
         /\ \A u \in Request : auth[u] # None => auth'[u] = auth[u]
<1> USE AccountsAssumption
<1>1. \A c \in Request : op[c] # None => op'[c] = op[c]
  BY DEF Next, Start, Handle, Signup, LockUsers, RejectName, AcceptName, InsertUser,
     CreateUserFails, LockUsersFails, UpdateAuthentication, UpdateAuthenticationFails,
     Authorize, FindUser, FindNobody, VerifyUser, VerifyUserFails, UpdateSessionInfo,
     RemoveSessionInfo, SendMessage, GetAuthorization, Unauthorized, CreateMessage,
     CreateMessageFails, Restart, vars, Typed, TypeOK, Roles
<1>2. \A u \in User : users'[u] = users[u]
  BY DEF Next, Start, Handle, Signup, LockUsers, RejectName, AcceptName, InsertUser,
     CreateUserFails, LockUsersFails, UpdateAuthentication, UpdateAuthenticationFails,
     Authorize, FindUser, FindNobody, VerifyUser, VerifyUserFails, UpdateSessionInfo,
     RemoveSessionInfo, SendMessage, GetAuthorization, Unauthorized, CreateMessage,
     CreateMessageFails, Restart, vars, Typed, TypeOK, Rows, User
<1>3. \A u \in Request : auth[u] # None => auth'[u] = auth[u]
  BY DEF Next, Start, Handle, Signup, LockUsers, RejectName, AcceptName, InsertUser,
     CreateUserFails, LockUsersFails, UpdateAuthentication, UpdateAuthenticationFails,
     Authorize, FindUser, FindNobody, VerifyUser, VerifyUserFails, UpdateSessionInfo,
     RemoveSessionInfo, SendMessage, GetAuthorization, Unauthorized, CreateMessage,
     CreateMessageFails, Restart, vars, Typed, TypeOK, Rows
<1> QED BY <1>1, <1>2, <1>3 DEF User

(* So whoever has opened a session of a user has done so for good.         *)
LEMMA OpenedForGood ==
  ASSUME Typed, Rows, [Next]_vars, NEW c \in Request, NEW u \in Request, Opened(c, u)
  PROVE  Opened(c, u)'
<1> USE AccountsAssumption
<1>1. auth[u] = op[c].password /\ auth[u] # None /\ op[c] # None /\ u \in User
  BY OperationFields DEF Opened, Typed, TypeOK
<1> QED BY <1>1, WrittenOnce DEF Opened, Named, User

-----------------------------------------------------------------------------
(* From the password to the session, and from the session to the author.   *)

Earned(r) ==
  /\ pc[r] = "verifying" => user[r] \in Named(op[r].name)
  /\ pc[r] = "opening" => Opened(r, user[r])
  /\ sessions[r] # None => Opened(r, sessions[r])
  /\ pc[r] = "posting" => op[r].cookie \in Request /\ Opened(op[r].cookie, user[r])
  /\ posted[r] # None =>
       op[r] # None /\ op[r].cookie \in Request /\ Opened(op[r].cookie, posted[r].from)
  /\ pc[r] = "done" /\ op[r].kind = "signup" => Opened(r, r)

Credentials == \A r \in Request : Earned(r)

LEMMA CredentialsInit == Init => Credentials
BY DEF Init, Credentials, Earned

(* What a request has earned it keeps while it stands still, is turned     *)
(* away, or loses its session.                                             *)
LEMMA EarnedFrame ==
  ASSUME Typed, Rows, Credentials, [Next]_vars, NEW r \in Request,
         \/ pc'[r] = pc[r] /\ user'[r] = user[r]
         \/ pc'[r] \notin {"verifying", "opening", "posting", "done"}
         \/ pc'[r] = "done" /\ op'[r].kind # "signup",
         sessions'[r] \in {sessions[r], None},
         posted'[r] = posted[r]
  PROVE  Earned(r)'
<1> USE AccountsAssumption
<1>1. Earned(r)
  BY DEF Credentials
<1>2. pc[r] # "new" => op'[r] = op[r]
  BY WrittenOnce DEF Typed, Roles
<1>3. ASSUME pc'[r] = "verifying" PROVE user'[r] \in Named(op[r].name)'
  <2>1. pc[r] = "verifying" /\ user[r] \in Named(op[r].name) /\ user'[r] = user[r]
    BY <1>1, <1>3 DEF Earned
  <2> QED BY <1>2, <2>1, WrittenOnce DEF Named, User
<1>4. ASSUME pc'[r] = "opening" PROVE Opened(r, user[r])' /\ user'[r] = user[r]
  <2>1. pc[r] = "opening" /\ Opened(r, user[r]) /\ user'[r] = user[r]
    BY <1>1, <1>4 DEF Earned
  <2>2. user[r] \in Request
    BY <2>1 DEF Opened, User
  <2> QED BY <2>1, <2>2, OpenedForGood DEF Opened, User, Named
<1>5. ASSUME sessions'[r] # None PROVE Opened(r, sessions[r])' /\ sessions'[r] = sessions[r]
  <2>1. Opened(r, sessions[r]) /\ sessions[r] \in Request
    BY <1>1, <1>5 DEF Earned, Opened, User
  <2> QED BY <1>5, <2>1, OpenedForGood DEF Opened, User, Named
<1>6. ASSUME pc'[r] = "posting"
      PROVE  op'[r].cookie \in Request /\ Opened(op[r].cookie, user[r])'
  <2>1. /\ pc[r] = "posting" /\ user'[r] = user[r] /\ op'[r] = op[r]
        /\ op[r].cookie \in Request /\ Opened(op[r].cookie, user[r])
    BY <1>1, <1>2, <1>6 DEF Earned
  <2>2. user[r] \in Request
    BY <2>1 DEF Opened, User
  <2> QED BY <2>1, <2>2, OpenedForGood DEF Opened, User, Named
<1>7. ASSUME posted'[r] # None
      PROVE  op'[r] # None /\ op'[r].cookie \in Request /\ Opened(op[r].cookie, posted[r].from)'
  <2>1. /\ op[r] # None /\ op'[r] = op[r] /\ posted[r] # None
        /\ op[r].cookie \in Request /\ Opened(op[r].cookie, posted[r].from)
    BY <1>1, <1>7, WrittenOnce DEF Earned
  <2>2. posted[r].from \in Request
    BY <2>1 DEF Opened, User
  <2>3. PICK c \in Request, u \in Request :
          c = op[r].cookie /\ u = posted[r].from /\ Opened(c, u)
    BY <2>1, <2>2
  <2>4. Opened(c, u)'
    BY <2>3, OpenedForGood
  <2>5. op'[r].cookie = c /\ posted'[r].from = u
    BY <2>1, <2>3
  <2> QED BY <2>1, <2>3, <2>4, <2>5
<1>8. ASSUME pc'[r] = "done", op'[r].kind = "signup" PROVE Opened(r, r)'
  <2>1. pc[r] = "done" /\ op'[r] = op[r]
    BY <1>2, <1>8
  <2> QED BY <1>1, <1>8, <2>1, OpenedForGood DEF Earned
<1> QED BY <1>3, <1>4, <1>5, <1>6, <1>7, <1>8 DEF Earned

LEMMA CredentialsNext == Typed /\ Rows /\ Credentials /\ [Next]_vars => Credentials'
<1> SUFFICES ASSUME Typed, Rows, Credentials, [Next]_vars, NEW q \in Request PROVE Earned(q)'
  BY DEF Credentials
<1> USE AccountsAssumption
<1>0. /\ Typed'
      /\ Rows'
      /\ Earned(q)
  BY TypeNext, RowsNext DEF Credentials
<1>1. ASSUME NEW r \in Request, NEW o \in Operation, Start(r, o) PROVE Earned(q)'
  <2>1. q = r => pc'[q] \notin {"verifying", "opening", "posting", "done"}
    BY <1>1, OperationFields DEF Start, FirstPhase, Goto, Typed, TypeOK
  <2>2. q # r => pc'[q] = pc[q]
    BY <1>1 DEF Start, Goto, Typed, TypeOK
  <2> QED BY <1>1, <2>1, <2>2, EarnedFrame DEF Start
<1>2. ASSUME NEW r \in Request,
             \/ LockUsers(r) \/ RejectName(r)
             \/ AcceptName(r) \/ LockUsersFails(r)
             \/ InsertUser(r) \/ CreateUserFails(r)
      PROVE  Earned(q)'
  <2>1. /\ q = r => pc'[q] \notin {"verifying", "opening", "posting", "done"}
        /\ q # r => pc'[q] = pc[q] /\ user'[q] = user[q]
    BY <1>2 DEF LockUsers, RejectName, AcceptName, LockUsersFails, InsertUser,
       CreateUserFails, Goto, Typed, TypeOK
  <2>2. UNCHANGED <<sessions, posted>>
    BY <1>2 DEF LockUsers, RejectName, AcceptName, LockUsersFails, InsertUser, CreateUserFails
  <2> QED BY <2>1, <2>2, EarnedFrame
<1>3. ASSUME NEW r \in Request, UpdateAuthentication(r) PROVE Earned(q)'
  <2>1. CASE q # r
    BY <1>3, <2>1, EarnedFrame DEF UpdateAuthentication, Goto, Typed, TypeOK
  <2>2. CASE q = r
    <3>1. /\ op[r].kind = "signup" /\ op[r] # None /\ user[r] = r /\ r \in User
      BY <1>3 DEF UpdateAuthentication, Typed, Roles, Signing, Rows
    <3>2. Opened(r, user[r])'
      BY <1>3, <3>1 DEF UpdateAuthentication, Opened, User, Typed, TypeOK
    <3>3. /\ pc'[r] = "opening"
          /\ UNCHANGED <<sessions, posted, op>>
      BY <1>3 DEF UpdateAuthentication, Goto, Typed, TypeOK
    <3>4. sessions[r] # None => Opened(r, sessions[r])'
      <4>1. sessions[r] # None => Opened(r, sessions[r]) /\ sessions[r] \in Request
        BY <1>0, <2>2 DEF Earned, Opened, User
      <4>2. ASSUME NEW u \in Request, Opened(r, u) PROVE u \in User' /\ Opened(r, u)'
        BY <4>2, OpenedForGood DEF Opened
      <4> QED BY <3>3, <4>1, <4>2 DEF Opened, User, Named
    <3>5. posted[r] # None =>
            op[r] # None /\ op[r].cookie \in Request /\ Opened(op[r].cookie, posted[r].from)'
      <4>1. posted[r] # None => posted[r].from \in Request
        BY <1>0, <2>2 DEF Earned, Opened, User
      <4> QED BY <1>0, <2>2, <3>3, <4>1, OpenedForGood DEF Earned
    <3> QED BY <2>2, <3>2, <3>3, <3>4, <3>5 DEF Earned, Opened, User, Named
  <2> QED BY <2>1, <2>2
<1>4. ASSUME NEW r \in Request, UpdateAuthenticationFails(r) PROVE Earned(q)'
  BY <1>4, EarnedFrame DEF UpdateAuthenticationFails, Goto, Typed, TypeOK
<1>5. ASSUME NEW r \in Request, FindUser(r) PROVE Earned(q)'
  <2>1. CASE q # r
    BY <1>5, <2>1, EarnedFrame DEF FindUser, Goto, Typed, TypeOK
  <2>2. CASE q = r
    BY <1>0, <1>5, <2>2 DEF FindUser, Earned, Opened, Named, User, Goto, Typed, TypeOK
  <2> QED BY <2>1, <2>2
<1>6. ASSUME NEW r \in Request, VerifyUser(r) PROVE Earned(q)'
  <2>1. CASE q # r
    BY <1>6, <2>1, EarnedFrame DEF VerifyUser, Goto, Typed, TypeOK
  <2>2. CASE q = r /\ Verified(r)
    <3>1. /\ user[r] \in Named(op[r].name) /\ op[r] # None /\ op[r].kind = "authorize"
      BY <1>0, <1>6, <2>2 DEF VerifyUser, Earned, Typed, Roles, Verifying
    <3>2. Opened(r, user[r])
      BY <2>2, <3>1 DEF Opened, Verified, Named
    <3>3. pc'[r] = "opening" /\ UNCHANGED <<users, auth, sessions, op, user, posted>>
      BY <1>6, <2>2 DEF VerifyUser, Goto, Typed, TypeOK
    <3> QED BY <1>0, <2>2, <3>2, <3>3 DEF Earned, Opened, Named, User
  <2>3. CASE ~ Verified(r)
    BY <1>6, <2>3, EarnedFrame DEF VerifyUser, Goto, Typed, TypeOK
  <2> QED BY <2>1, <2>2, <2>3
<1>7. ASSUME NEW r \in Request, FindNobody(r) \/ VerifyUserFails(r) PROVE Earned(q)'
  BY <1>7, EarnedFrame DEF FindNobody, VerifyUserFails, Goto, Typed, TypeOK
<1>8. ASSUME NEW r \in Request, UpdateSessionInfo(r) PROVE Earned(q)'
  <2>1. CASE q # r
    BY <1>8, <2>1, EarnedFrame DEF UpdateSessionInfo, Goto, Typed, TypeOK
  <2>2. CASE q = r
    <3>1. /\ Opened(r, user[r]) /\ op[r] # None
          /\ op[r].kind = "signup" => user[r] = r
      BY <1>0, <1>8, <2>2 DEF UpdateSessionInfo, Earned, Opened
    <3>2. /\ pc'[r] = "done" /\ sessions'[r] = user[r]
          /\ UNCHANGED <<users, auth, op, user, posted>>
      BY <1>8, <2>2 DEF UpdateSessionInfo, Goto, Typed, TypeOK
    <3> QED BY <1>0, <2>2, <3>1, <3>2 DEF Earned, Opened, Named, User
  <2> QED BY <2>1, <2>2
<1>9. ASSUME NEW r \in Request, RemoveSessionInfo(r) PROVE Earned(q)'
  <2>1. /\ op'[r] = op[r] /\ op[r].kind = "logout"
        /\ sessions'[q] \in {sessions[q], None}
        /\ q # r => pc'[q] = pc[q]
        /\ pc'[r] = "done"
    BY <1>9 DEF RemoveSessionInfo, Goto, Typed, Roles, TypeOK
  <2> QED BY <1>9, <2>1, EarnedFrame DEF RemoveSessionInfo
<1>10. ASSUME NEW r \in Request, GetAuthorization(r) PROVE Earned(q)'
  <2>1. CASE q # r
    BY <1>10, <2>1, EarnedFrame DEF GetAuthorization, Goto, Typed, TypeOK
  <2>2. CASE q = r
    <3>1. op[r] \in Operation /\ op[r].kind = "send"
      BY <1>10 DEF GetAuthorization, Typed, TypeOK, Roles
    <3>2. op[r].cookie \in Request /\ sessions[op[r].cookie] # None
      BY <1>10, <3>1, OperationFields DEF GetAuthorization, SessionUser
    <3>3. Opened(op[r].cookie, sessions[op[r].cookie])
      BY <3>2 DEF Credentials, Earned
    <3>4. /\ pc'[r] = "posting" /\ user'[r] = sessions[op[r].cookie]
          /\ UNCHANGED <<users, auth, op, sessions, posted>>
      BY <1>10, <3>2 DEF GetAuthorization, SessionUser, Goto, Typed, TypeOK
    <3> QED BY <1>0, <2>2, <3>2, <3>3, <3>4 DEF Earned, Opened, Named, User
  <2> QED BY <2>1, <2>2
<1>11. ASSUME NEW r \in Request, CreateMessage(r) PROVE Earned(q)'
  <2>1. CASE q # r
    BY <1>11, <2>1, EarnedFrame DEF CreateMessage, Goto, Typed, TypeOK
  <2>2. CASE q = r
    <3>1. /\ op[r].kind = "send" /\ op[r] # None
          /\ op[r].cookie \in Request /\ Opened(op[r].cookie, user[r])
      BY <1>0, <1>11, <2>2 DEF CreateMessage, Earned, Typed, Roles
    <3>2. /\ pc'[r] \in {"done", "failed"} /\ posted'[r].from = user[r]
          /\ UNCHANGED <<users, auth, op, sessions, user>>
      BY <1>11, <2>2 DEF CreateMessage, Goto, Typed, TypeOK
    <3> QED BY <1>0, <2>2, <3>1, <3>2 DEF Earned, Opened, Named, User
  <2> QED BY <2>1, <2>2
<1>12. ASSUME NEW r \in Request, CreateMessageFails(r) \/ Unauthorized(r) PROVE Earned(q)'
  BY <1>12, EarnedFrame DEF CreateMessageFails, Unauthorized, Goto, Typed, TypeOK
<1>13. CASE Restart
  <2>1. pc'[q] = pc[q] \/ pc'[q] = "failed"
    BY <1>13 DEF Restart
  <2> QED BY <1>13, <2>1, EarnedFrame DEF Restart
<1>14. CASE UNCHANGED vars
  BY <1>14, EarnedFrame DEF vars
<1> QED
  BY <1>1, <1>2, <1>3, <1>4, <1>5, <1>6, <1>7, <1>8, <1>9, <1>10, <1>11, <1>12, <1>13, <1>14
     DEF Next, Handle, Signup, Authorize, SendMessage

IInv == Typed /\ Rows /\ Credentials

LEMMA Inductive == Spec => []IInv
<1>1. Init => IInv
  BY TypeInit, RowsInit, CredentialsInit DEF IInv
<1>2. IInv /\ [Next]_vars => IInv'
  BY TypeNext, RowsNext, CredentialsNext DEF IInv
<1> QED BY <1>1, <1>2, PTL DEF Spec

(* No session is opened but with the password of its user: what comes with *)
(* the cookie of a request was earned by the request that made the cookie. *)
THEOREM SessionsEarnedCorrect == Spec => []SessionsEarned
<1>1. IInv => SessionsEarned
  BY DEF IInv, Credentials, Earned, SessionsEarned
<1> QED BY <1>1, Inductive, PTL

(* No message is stored under a user whose password did not open the       *)
(* session that the request came with, however long the body took.         *)
THEOREM AuthorsCorrect == Spec => []AuthorsAuthentic
<1>1. IInv => AuthorsAuthentic
  BY DEF IInv, Credentials, Earned, AuthorsAuthentic
<1> QED BY <1>1, Inductive, PTL

-----------------------------------------------------------------------------
(* The lock on the users table: between the check and the insert of a sign *)
(* up nobody else inserts, so the name is still free.                      *)

Locked ==
  /\ \A r \in Request :
       /\ pc[r] \in {"checking", "inserting"} => usersLock = r
       /\ pc[r] = "inserting" => Named(op[r].name) = {}
  /\ UsernamesDiffer

LEMMA LockedInit == Init => Locked
BY DEF Init, Locked, UsernamesDiffer, User

(* Steps that leave the table alone, and the lock with whoever needs it.   *)
LEMMA LockedFrame ==
  ASSUME Typed, Rows, Locked, [Next]_vars, users' = users,
         \A r \in Request :
           pc'[r] \in {"checking", "inserting"} =>
             /\ pc[r] = pc'[r]
             /\ usersLock' = usersLock
  PROVE  Locked'
<1>1. \A r \in Request : pc'[r] = "inserting" => Named(op[r].name)' = Named(op[r].name)
  BY WrittenOnce DEF Named, User, Typed, Roles
<1> QED BY <1>1 DEF Locked, UsernamesDiffer, User

LEMMA LockedNext ==
  ASSUME DbLower = Lower, Typed, Rows, Locked, [Next]_vars
  PROVE  Locked'
<1> USE AccountsAssumption
<1>1. ASSUME NEW r \in Request, NEW o \in Operation, Start(r, o) PROVE Locked'
  <2>1. pc'[r] \notin {"checking", "inserting"}
    BY <1>1, OperationFields DEF Start, FirstPhase, Goto, Typed, TypeOK
  <2>2. \A q \in Request : q # r => pc'[q] = pc[q]
    BY <1>1 DEF Start, Goto, Typed, TypeOK
  <2> QED BY <1>1, <2>1, <2>2, LockedFrame DEF Start
<1>2. ASSUME NEW r \in Request, LockUsers(r) PROVE Locked'
  <2>1. \A q \in Request : pc[q] \notin {"checking", "inserting"}
    BY <1>2 DEF LockUsers, Locked
  <2>2. /\ pc'[r] = "checking" /\ usersLock' = r /\ users' = users
        /\ \A q \in Request : q # r => pc'[q] = pc[q]
    BY <1>2 DEF LockUsers, Goto, Typed, TypeOK
  <2> QED BY <2>1, <2>2 DEF Locked, UsernamesDiffer, User
<1>3. ASSUME NEW r \in Request, RejectName(r) PROVE Locked'
  <2>1. /\ pc'[r] = "denied" /\ users' = users
        /\ \A q \in Request : q # r => pc'[q] = pc[q] /\ pc[q] \notin {"checking", "inserting"}
    BY <1>3 DEF RejectName, Locked, Goto, Typed, TypeOK
  <2> QED BY <2>1, LockedFrame
<1>4. ASSUME NEW r \in Request, AcceptName(r) PROVE Locked'
  <2>1. /\ pc'[r] = "inserting" /\ usersLock' = usersLock /\ usersLock = r
        /\ users' = users /\ op' = op /\ Named(op[r].name) = {}
        /\ \A q \in Request : q # r => pc'[q] = pc[q] /\ pc[q] \notin {"checking", "inserting"}
    BY <1>4 DEF AcceptName, Locked, Goto, Typed, TypeOK
  <2> QED BY <2>1 DEF Locked, UsernamesDiffer, Named, User
<1>5. ASSUME NEW r \in Request, InsertUser(r) \/ CreateUserFails(r) PROVE Locked'
  <2>1. \A q \in Request : q # r => pc'[q] = pc[q] /\ pc[q] \notin {"checking", "inserting"}
    BY <1>5 DEF InsertUser, CreateUserFails, Locked, Goto, Typed, TypeOK
  <2>2. pc'[r] \in {"hashing", "failed"}
    BY <1>5 DEF InsertUser, CreateUserFails, Goto, Typed, TypeOK
  <2>3. CASE users' = users
    BY <2>1, <2>2, <2>3, LockedFrame
  <2>4. CASE users' # users
    <3>1. /\ Named(op[r].name) = {}
          /\ users' = [users EXCEPT ![r] = op[r].name]
      BY <1>5, <2>4 DEF InsertUser, CreateUserFails, Locked
    <3>2. \A u \in User : Lower[users[u]] # Lower[op[r].name]
      BY <3>1 DEF Named, User
    <3>3. UsernamesDiffer'
      BY <3>1, <3>2 DEF Locked, UsernamesDiffer, User, Typed, TypeOK
    <3> QED BY <2>1, <2>2, <3>3 DEF Locked
  <2> QED BY <2>3, <2>4
<1>6. ASSUME NEW r \in Request,
             \/ UpdateAuthentication(r) \/ UpdateAuthenticationFails(r) \/ Authorize(r)
             \/ UpdateSessionInfo(r) \/ RemoveSessionInfo(r) \/ SendMessage(r)
             \/ LockUsersFails(r)
      PROVE  Locked'
  <2>1. /\ pc'[r] \notin {"checking", "inserting"}
        /\ \A q \in Request : q # r => pc'[q] = pc[q]
    BY <1>6 DEF UpdateAuthentication, UpdateAuthenticationFails, Authorize, FindUser,
       FindNobody, VerifyUser, VerifyUserFails, UpdateSessionInfo, RemoveSessionInfo,
       SendMessage, GetAuthorization, Unauthorized, CreateMessage, CreateMessageFails,
       LockUsersFails, Goto, Typed, TypeOK
  <2>2. UNCHANGED <<users, usersLock>>
    BY <1>6 DEF UpdateAuthentication, UpdateAuthenticationFails, Authorize, FindUser,
       FindNobody, VerifyUser, VerifyUserFails, UpdateSessionInfo, RemoveSessionInfo,
       SendMessage, GetAuthorization, Unauthorized, CreateMessage, CreateMessageFails,
       LockUsersFails
  <2> QED BY <2>1, <2>2, LockedFrame
<1>7. CASE Restart
  BY <1>7, LockedFrame DEF Restart, Ended
<1>8. CASE UNCHANGED vars
  BY <1>8, LockedFrame DEF vars
<1> QED
  BY <1>1, <1>2, <1>3, <1>4, <1>5, <1>6, <1>7, <1>8 DEF Next, Handle, Signup

(* However many sign up at once, no two users share a name but for case,   *)
(* wherever Postgres lowers names as Rust does.                            *)
THEOREM UsernamesDifferCorrect ==
  ASSUME DbLower = Lower
  PROVE  Spec => []UsernamesDiffer
<1>1. Typed /\ Rows /\ Locked /\ [Next]_vars => Locked'
  BY LockedNext
<1>2. IInv /\ Locked /\ [Next]_vars => Locked'
  BY <1>1 DEF IInv
<1>3. Locked => UsernamesDiffer
  BY DEF Locked
<1> QED BY <1>2, <1>3, Inductive, LockedInit, PTL DEF Spec

(* Whoever has signed up can log in, there too.                            *)
THEOREM SignedUpCanLogInCorrect ==
  ASSUME DbLower = Lower
  PROVE  Spec => []SignedUpCanLogIn
<1>1. ASSUME IInv, UsernamesDiffer PROVE SignedUpCanLogIn
  <2> SUFFICES ASSUME NEW r \in Request, pc[r] = "done", op[r].kind = "signup",
                      NEW n \in Name, Lower[n] = Lower[op[r].name]
               PROVE  Named(n) = {r} /\ auth[r] = op[r].password
    BY DEF SignedUpCanLogIn
  <2>1. Opened(r, r)
    BY <1>1 DEF IInv, Credentials, Earned
  <2>2. users[r] = op[r].name
    BY <1>1, <2>1 DEF IInv, Rows, Opened
  <2> QED BY <1>1, <2>1, <2>2 DEF Opened, Named, UsernamesDiffer, User
<1>2. IInv /\ UsernamesDiffer => SignedUpCanLogIn
  BY <1>1
<1> QED BY <1>2, Inductive, UsernamesDifferCorrect, PTL
=============================================================================
