------------------------------ MODULE Accounts ------------------------------
(***************************************************************************)
(* Users, passwords and sessions: the handlers of POST /signup, POST       *)
(* /authorize, GET /logout and POST /message/<receiver> over the users and *)
(* auth tables of lib/postgres-db and the sessions kept in memory.         *)
(*                                                                         *)
(* A user and a session are uuids made up by the request that creates      *)
(* them, and are named by that request.  Rows survive a restart of the     *)
(* server, sessions and requests do not.                                   *)
(***************************************************************************)
EXTENDS Naturals

CONSTANTS
  Request,       (* the HTTP requests there will be                        *)
  Name,          (* usernames, and their lower-case forms                  *)
  Password,
  Lower,         (* str::to_lowercase, applied to the names in requests    *)
  DbLower,       (* Postgres' lower(), applied to the names in the table   *)
  None           (* no name, no password, no user, no cookie               *)

Operation ==
  [kind : {"signup", "authorize"}, name : Name, password : Password]
    \cup [kind : {"logout"}, cookie : Request \cup {None}]
    \cup [kind : {"send"}, cookie : Request \cup {None}, receiver : Request]

Post == [from : Request, to : Request]

ASSUME AccountsAssumption ==
  /\ Lower \in [Name -> Name]
  /\ DbLower \in [Name -> Name]
  /\ None \notin Request \cup Name \cup Password \cup Operation \cup Post

VARIABLES
  users,      (* table users: the username of each user                    *)
  usersLock,  (* the transaction that holds the users table exclusively    *)
  auth,       (* table auth: the password behind each user's phc_string    *)
  sessions,   (* SESSION_INFO: the user of each session                    *)
  cookies,    (* the sessions whose cookie a client has been sent          *)
  op,         (* what each request asks for                                *)
  pc,         (* how far its handler has got                               *)
  user,       (* the handler's user_id                                     *)
  posted      (* the message each request has stored                       *)

vars == <<users, usersLock, auth, sessions, cookies, op, pc, user, posted>>

Ended == {"done", "denied", "failed"}

Phase ==
  {"new", "locking", "checking", "inserting", "hashing", "finding", "verifying",
   "opening", "removing", "authorizing", "posting"} \cup Ended

(* Every variable has its type, and the users table is locked only by a    *)
(* sign up at work on it: no early return or failure keeps the lock.       *)
TypeOK ==
  /\ users \in [Request -> Name \cup {None}]
  /\ usersLock \in Request \cup {None}
  /\ auth \in [Request -> Password \cup {None}]
  /\ sessions \in [Request -> Request \cup {None}]
  /\ cookies \subseteq Request
  /\ op \in [Request -> Operation \cup {None}]
  /\ pc \in [Request -> Phase]
  /\ user \in [Request -> Request \cup {None}]
  /\ posted \in [Request -> Post \cup {None}]
  /\ usersLock # None => pc[usersLock] \in {"checking", "inserting"}

Init ==
  /\ users = [u \in Request |-> None]
  /\ usersLock = None
  /\ auth = [u \in Request |-> None]
  /\ sessions = [c \in Request |-> None]
  /\ cookies = {}
  /\ op = [r \in Request |-> None]
  /\ pc = [r \in Request |-> "new"]
  /\ user = [r \in Request |-> None]
  /\ posted = [r \in Request |-> None]

User == {u \in Request : users[u] # None}

(* Mutant: username = $1, in the case it was given.                        *)
NamedExactly(n) == {u \in User : users[u] = n}

(* The rows with lower(username) = $1, $1 being the to_lowercase of n.     *)
Named(n) == {u \in User : DbLower[users[u]] = Lower[n]}

FirstPhase(kind) ==
  CASE kind = "signup"    -> "locking"
    [] kind = "authorize" -> "finding"
    [] kind = "logout"    -> "removing"
    [] kind = "send"      -> "authorizing"

Goto(r, phase) == pc' = [pc EXCEPT ![r] = phase]

(* A client asks; it has the cookies it was sent, or none.                 *)
Start(r, o) ==
  /\ pc[r] = "new"
  /\ o.kind \in {"logout", "send"} => o.cookie \in cookies \cup {None}
  /\ op' = [op EXCEPT ![r] = o]
  /\ Goto(r, FirstPhase(o.kind))
  /\ UNCHANGED <<users, usersLock, auth, sessions, cookies, user, posted>>

-----------------------------------------------------------------------------
(* Db::create_user of lib/postgres-db: one transaction.                    *)

(* Mutant: no lock table.                                                  *)
BeginUnlocked(r) ==
  /\ pc[r] = "locking"
  /\ Goto(r, "checking")
  /\ UNCHANGED <<users, usersLock, auth, sessions, cookies, op, user, posted>>

LockUsers(r) ==
  /\ pc[r] = "locking"
  /\ usersLock = None
  /\ usersLock' = r
  /\ Goto(r, "checking")
  /\ UNCHANGED <<users, auth, sessions, cookies, op, user, posted>>

(* The end of the transaction of r lets go of the lock.                    *)
Unlock(r) == usersLock' = IF usersLock = r THEN None ELSE usersLock

(* Mutant: the early return forgets the transaction.                       *)
RejectNameLocked(r) ==
  /\ pc[r] = "checking"
  /\ Named(op[r].name) # {}
  /\ Goto(r, "denied")
  /\ UNCHANGED <<users, usersLock, auth, sessions, cookies, op, user, posted>>

(* username_exists: return Ok(None), SignupError::UsernameTaken.           *)
RejectName(r) ==
  /\ pc[r] = "checking"
  /\ Named(op[r].name) # {}
  /\ Goto(r, "denied")
  /\ Unlock(r)
  /\ UNCHANGED <<users, auth, sessions, cookies, op, user, posted>>

AcceptName(r) ==
  /\ pc[r] = "checking"
  /\ Named(op[r].name) = {}
  /\ Goto(r, "inserting")
  /\ UNCHANGED <<users, usersLock, auth, sessions, cookies, op, user, posted>>

(* The insert and the commit.  UNIQUE (username) is case-sensitive.        *)
InsertUser(r) ==
  /\ pc[r] = "inserting"
  /\ \A u \in User : users[u] # op[r].name
  /\ users' = [users EXCEPT ![r] = op[r].name]
  /\ user' = [user EXCEPT ![r] = r]
  /\ Goto(r, "hashing")
  /\ Unlock(r)
  /\ UNCHANGED <<auth, sessions, cookies, op, posted>>

(* No connection, or a failure while waiting for the lock.                 *)
LockUsersFails(r) ==
  /\ pc[r] = "locking"
  /\ Goto(r, "failed")
  /\ UNCHANGED <<users, usersLock, auth, sessions, cookies, op, user, posted>>

(* A later statement fails, by UNIQUE (username) or by the connection; the *)
(* error of a commit says nothing of the row.                              *)
CreateUserFails(r) ==
  /\ pc[r] \in {"checking", "inserting"}
  /\ \/ UNCHANGED users
     \/ /\ pc[r] = "inserting"
        /\ \A u \in User : users[u] # op[r].name
        /\ users' = [users EXCEPT ![r] = op[r].name]
  /\ Goto(r, "failed")
  /\ Unlock(r)
  /\ UNCHANGED <<auth, sessions, cookies, op, user, posted>>

-----------------------------------------------------------------------------
(* AuthService::create_user: hash the password, update_authentication.     *)

(* The foreign keys of auth and messages lock the user's row: their        *)
(* inserts wait for the lock on the whole table.                           *)
UsersUnlocked == usersLock = None

UpdateAuthentication(r) ==
  /\ pc[r] = "hashing"
  /\ UsersUnlocked
  /\ auth' = [auth EXCEPT ![user[r]] = op[r].password]
  /\ Goto(r, "opening")
  /\ UNCHANGED <<users, usersLock, sessions, cookies, op, user, posted>>

UpdateAuthenticationFails(r) ==
  /\ pc[r] = "hashing"
  /\ \/ UNCHANGED auth
     \/ UsersUnlocked /\ auth' = [auth EXCEPT ![user[r]] = op[r].password]
  /\ Goto(r, "failed")
  /\ UNCHANGED <<users, usersLock, sessions, cookies, op, user, posted>>

-----------------------------------------------------------------------------
(* Messenger::verify_user.                                                 *)

FindUser(r) ==
  /\ pc[r] = "finding"
  /\ \E u \in Named(op[r].name) : user' = [user EXCEPT ![r] = u]
  /\ Goto(r, "verifying")
  /\ UNCHANGED <<users, usersLock, auth, sessions, cookies, op, posted>>

FindNobody(r) ==
  /\ pc[r] = "finding"
  /\ Named(op[r].name) = {}
  /\ Goto(r, "denied")
  /\ UNCHANGED <<users, usersLock, auth, sessions, cookies, op, user, posted>>

(* Mutant: a user without a row in auth has no password to get wrong.      *)
VerifiedUnlessWrong(r) == auth[user[r]] \in {None, op[r].password}

Verified(r) == auth[user[r]] = op[r].password

VerifyUser(r) ==
  /\ pc[r] = "verifying"
  /\ Goto(r, IF Verified(r) THEN "opening" ELSE "denied")
  /\ UNCHANGED <<users, usersLock, auth, sessions, cookies, op, user, posted>>

(* signup and authorize: generate_session_id, update_session_info and the  *)
(* response with Set-Cookie.                                               *)
UpdateSessionInfo(r) ==
  /\ pc[r] = "opening"
  /\ sessions' = [sessions EXCEPT ![r] = user[r]]
  /\ cookies' = cookies \cup {r}
  /\ Goto(r, "done")
  /\ UNCHANGED <<users, usersLock, auth, op, user, posted>>

-----------------------------------------------------------------------------
(* logout and send_message.                                                *)

RemoveSessionInfo(r) ==
  /\ pc[r] = "removing"
  /\ sessions' = [c \in Request |-> IF c = op[r].cookie THEN None ELSE sessions[c]]
  /\ Goto(r, "done")
  /\ UNCHANGED <<users, usersLock, auth, cookies, op, user, posted>>

(* routing::get_authorization.                                             *)
SessionUser(r) == IF op[r].cookie = None THEN None ELSE sessions[op[r].cookie]

GetAuthorization(r) ==
  /\ pc[r] = "authorizing"
  /\ SessionUser(r) # None
  /\ user' = [user EXCEPT ![r] = SessionUser(r)]
  /\ Goto(r, "posting")
  /\ UNCHANGED <<users, usersLock, auth, sessions, cookies, op, posted>>

Unauthorized(r) ==
  /\ pc[r] = "authorizing"
  /\ SessionUser(r) = None
  /\ Goto(r, "denied")
  /\ UNCHANGED <<users, usersLock, auth, sessions, cookies, op, user, posted>>

(* Mutant: author and receiver change places.                              *)
CreateMessageSwapped(r) ==
  /\ pc[r] = "posting"
  /\ UsersUnlocked
  /\ {user[r], op[r].receiver} \subseteq User
  /\ posted' = [posted EXCEPT ![r] = [from |-> op[r].receiver, to |-> user[r]]]
  /\ Goto(r, "done") \/ Goto(r, "failed")
  /\ UNCHANGED <<users, usersLock, auth, sessions, cookies, op, user>>

(* The body has been awaited: the session may be gone by now.  The foreign *)
(* keys of messages want both users to exist.  The answer of an insert     *)
(* that was committed may be an error all the same.                        *)
CreateMessage(r) ==
  /\ pc[r] = "posting"
  /\ UsersUnlocked
  /\ {user[r], op[r].receiver} \subseteq User
  /\ posted' = [posted EXCEPT ![r] = [from |-> user[r], to |-> op[r].receiver]]
  /\ Goto(r, "done") \/ Goto(r, "failed")
  /\ UNCHANGED <<users, usersLock, auth, sessions, cookies, op, user>>

(* An unreadable body, an unknown receiver, or the connection before the   *)
(* row is in.                                                              *)
CreateMessageFails(r) ==
  /\ pc[r] = "posting"
  /\ Goto(r, "failed")
  /\ UNCHANGED <<users, usersLock, auth, sessions, cookies, op, user, posted>>

(* A query of verify_user fails.                                           *)
VerifyUserFails(r) ==
  /\ pc[r] \in {"finding", "verifying"}
  /\ Goto(r, "failed")
  /\ UNCHANGED <<users, usersLock, auth, sessions, cookies, op, user, posted>>

-----------------------------------------------------------------------------
(* The server stops, at once or after a signal, and is started again: what *)
(* was in memory is gone, transactions are rolled back.                    *)
Restart ==
  /\ sessions' = [c \in Request |-> None]
  /\ usersLock' = None
  /\ pc' = [r \in Request |-> IF pc[r] \in Ended \cup {"new"} THEN pc[r] ELSE "failed"]
  /\ UNCHANGED <<users, auth, cookies, op, user, posted>>

Signup(r) ==
  \/ LockUsers(r) \/ RejectName(r) \/ AcceptName(r) \/ InsertUser(r) \/ CreateUserFails(r)
  \/ UpdateAuthentication(r) \/ UpdateAuthenticationFails(r)

Authorize(r) == FindUser(r) \/ FindNobody(r) \/ VerifyUser(r) \/ VerifyUserFails(r)

SendMessage(r) ==
  GetAuthorization(r) \/ Unauthorized(r) \/ CreateMessage(r) \/ CreateMessageFails(r)

Handle(r) ==
  Signup(r) \/ Authorize(r) \/ UpdateSessionInfo(r) \/ RemoveSessionInfo(r) \/ SendMessage(r)

Next ==
  \/ \E r \in Request : (\E o \in Operation : Start(r, o)) \/ Handle(r) \/ LockUsersFails(r)
  \/ Restart

(* The runtime polls every handler, and a statement that waits for no lock *)
(* succeeds or fails in the end.                                           *)
Spec == Init /\ [][Next]_vars /\ \A r \in Request : WF_vars(Handle(r))

-----------------------------------------------------------------------------
(* Request c opened a session of u: it created u or named u, and gave what *)
(* is u's password.                                                        *)
Opened(c, u) ==
  /\ op[c] # None
  /\ \/ op[c].kind = "signup" /\ u = c
     \/ op[c].kind = "authorize" /\ u \in Named(op[c].name)
  /\ u \in User
  /\ auth[u] = op[c].password

(* No two users share a username but for its case, whatever signs up at    *)
(* the same time.                                                          *)
UsernamesDiffer ==
  \A u, v \in User : u # v => Lower[users[u]] # Lower[users[v]]

(* A session is only ever opened by a request that knew the user's         *)
(* password, in particular never for a user left without one.              *)
SessionsEarned ==
  \A c \in Request : sessions[c] # None => Opened(c, sessions[c])

(* Whatever happens to the session while the body of a message is awaited, *)
(* the message's author is the user whose password opened the session that *)
(* the request came with.                                                  *)
AuthorsAuthentic ==
  \A r \in Request : posted[r] # None =>
    op[r].cookie \in Request /\ Opened(op[r].cookie, posted[r].from)

(* tests/app.rs:193-290: who has signed up can log in with that name in    *)
(* whatever case and that password, from then on, restarts included: the   *)
(* name finds that user and no other.                                      *)
SignedUpCanLogIn ==
  \A r \in Request :
    pc[r] = "done" /\ op[r].kind = "signup" =>
      \A n \in Name : Lower[n] = Lower[op[r].name] =>
        Named(n) = {r} /\ auth[r] = op[r].password

(* Every request is answered, whatever lock another one holds: in the end  *)
(* those that were ever made have ended for good.                          *)
EventuallyAnswered ==
  <>[](\A r \in Request : pc[r] \in Ended \cup {"new"})
=============================================================================
