--------------------------- MODULE Authentication ----------------------------
(***************************************************************************)
(* Passwords and tokens over time: handlers/auth/auth.cpp, common/jwt.cpp, *)
(* and the handlers users.cpp, users_login.cpp, user.cpp and, for a route  *)
(* whose auth is optional, profiles.cpp.  The other routes check a token   *)
(* the same way before their own statements, which Service models.         *)
(*                                                                         *)
(* Time passes between any two steps of a request.  A user is known by its *)
(* id, a password stands for its BCrypt hash.  password, clients' tokens   *)
(* and the clock are what the handlers see; granted only observes.         *)
(***************************************************************************)
EXTENDS Integers

CONSTANTS
  Users,           \* ids
  Passwords,
  Slots,           \* requests in flight
  ExpirationTime,  \* jwt_expiration_time
  MaxTime,         \* bound of the clock
  NULL,
  Malformed        \* a header that is no token, or a token of another key

ASSUME AuthTimes == ExpirationTime \in Nat /\ MaxTime \in Nat
ASSUME AuthNull == NULL \notin Passwords \cup Users

VARIABLES
  now,
  password,  \* the account's password, NULL before the registration
  tokens,    \* the tokens clients hold
  req,
  granted    \* << id, time >> of every registration and login

authVars == <<now, password, tokens, req, granted>>

Times == 0..MaxTime
Token == [id: Users, exp: 0..(MaxTime + ExpirationTime)]

Statuses == {0, 200, 401, 403, 404, 422, 500}

(* began is when the token was checked; known are the passwords that the    *)
(* account of a login has had since the login began.                        *)
Request(op, pc, id, pw, token) ==
  [op |-> op, pc |-> pc, id |-> id, pw |-> pw, token |-> token, hash |-> NULL,
   began |-> IF token = NULL THEN 0 ELSE now, known |-> {}, status |-> 0]
Answer(q, status) ==
  [op |-> q.op, pc |-> "done", id |-> NULL, pw |-> q.pw, token |-> NULL,
   hash |-> NULL, began |-> 0, known |-> q.known, status |-> status]

InFlight(r) == req[r].pc # "done"

Init ==
  /\ now = 0
  /\ password = [u \in Users |-> NULL]
  /\ tokens = {} /\ granted = {}
  /\ req = [r \in Slots |-> Answer(Request(NULL, "done", NULL, NULL, NULL), 0)]

Tick ==
  /\ now < MaxTime /\ now' = now + 1
  /\ UNCHANGED <<password, tokens, req, granted>>

-----------------------------------------------------------------------------
(* Tokens.                                                                  *)

GenerateToken(id) == [id |-> id, exp |-> now + ExpirationTime]
VerifyToken(token) == now <= token.exp

(* What CheckAuth lets through: the caller's id, or NULL for nobody.        *)
Admits(header, optional, id) ==
  IF header = NULL THEN optional /\ id = NULL
  ELSE header \in tokens /\ VerifyToken(header) /\ id = header.id
Admitted(header, optional) == \E id \in Users \cup {NULL} : Admits(header, optional, id)

ReplyToken_Renewed(q) == GenerateToken(q.id)  \* mutant: a sliding expiration
ReplyToken(q) == q.token

(* An answer 200 with a token: the client holds it if the answer arrives.   *)
HandsOut(r, q, token) ==
  /\ req' = [req EXCEPT ![r] = Answer(q, 200)]
  /\ tokens' \in {tokens, tokens \cup {token}}

-----------------------------------------------------------------------------
(* Requests arrive, with no header, a malformed one, or a token held.       *)

BeginPublic(r) ==
  /\ ~InFlight(r)
  /\ \E pw \in Passwords :
       \/ req' = [req EXCEPT ![r] = Request("post_user", "kAddNewUser", NULL, pw, NULL)]
       \/ \E u \in Users :
            req' = [req EXCEPT ![r] = [Request("login", "kGetUserByEmail", u, pw, NULL)
                                         EXCEPT !.known = {password[u]}]]
  /\ UNCHANGED <<now, password, tokens, granted>>

Routes == [get_user |-> "kGetUserById", put_user |-> "kUpdateUserById",
           get_profile |-> "kGetProfileByUsername"]
Optional(op) == op = "get_profile"

BeginProtected(r) ==
  /\ ~InFlight(r)
  /\ \E op \in DOMAIN Routes, header \in tokens \cup {NULL, Malformed},
        pw \in Passwords \cup {NULL} :
       /\ op # "put_user" => pw = NULL
       /\ \/ \E id \in Users \cup {NULL} :
               /\ Admits(header, Optional(op), id)
               /\ req' = [req EXCEPT ![r] = Request(op, Routes[op], id, pw, header)]
          \/ /\ ~Admitted(header, Optional(op))
             /\ req' = [req EXCEPT ![r] =
                          Answer(Request(op, "done", NULL, NULL, NULL), 401)]
  /\ UNCHANGED <<now, password, tokens, granted>>

-----------------------------------------------------------------------------
(* Statements.  Everyone who logs in sees a password that changes.          *)

SetPassword(u, pw) == password' = [password EXCEPT ![u] = pw]
Seen(reqs) ==
  [r \in Slots |->
     IF reqs[r].op # "login" \/ reqs[r].pc = "done" THEN reqs[r]
     ELSE [reqs[r] EXCEPT !.known = @ \cup {password'[reqs[r].id]}]]

kAddNewUser_Ignored(r) ==  \* mutant: an INSERT that fails goes unnoticed
  /\ req[r].pc = "kAddNewUser"
  /\ \E u \in Users :
       req' = [req EXCEPT ![r] = [@ EXCEPT !.pc = "GenerateToken", !.id = u]]
  /\ UNCHANGED <<now, password, tokens, granted>>

(* The account is there when the statement ends; its name or e-mail may be  *)
(* taken (422).                                                             *)
kAddNewUser(r) ==
  /\ req[r].pc = "kAddNewUser"
  /\ \/ \E u \in {v \in Users : password[v] = NULL} :
          /\ SetPassword(u, req[r].pw)
          /\ req' = Seen([req EXCEPT ![r] = [@ EXCEPT !.pc = "GenerateToken", !.id = u]])
     \/ UNCHANGED password /\ req' = [req EXCEPT ![r] = Answer(@, 422)]
  /\ UNCHANGED <<now, tokens, granted>>

RegistrationAnswered(r) ==
  /\ req[r].pc = "GenerateToken"
  /\ HandsOut(r, req[r], GenerateToken(req[r].id))
  /\ granted' = granted \cup {<<req[r].id, now>>}
  /\ UNCHANGED <<now, password>>

(* Login reads the hash, then compares: the password may change meanwhile.  *)
Unknown_Never(hash) == FALSE  \* mutant: an empty result is not looked at
Unknown(hash) == hash = NULL

kGetUserByEmail(r) ==
  LET hash == password[req[r].id]
  IN /\ req[r].pc = "kGetUserByEmail"
     /\ req' = [req EXCEPT ![r] = IF Unknown(hash) THEN Answer(@, 403)
                                  ELSE [@ EXCEPT !.pc = "validatePassword", !.hash = hash]]
     /\ UNCHANGED <<now, password, tokens, granted>>

Matches_Any(pw, hash) == TRUE  \* mutant: the result is not looked at
Matches(pw, hash) == pw = hash

validatePassword(r) ==
  /\ req[r].pc = "validatePassword"
  /\ IF Matches(req[r].pw, req[r].hash)
     THEN /\ HandsOut(r, req[r], GenerateToken(req[r].id))
          /\ granted' = granted \cup {<<req[r].id, now>>}
     ELSE /\ req' = [req EXCEPT ![r] = Answer(@, 403)]
          /\ UNCHANGED <<tokens, granted>>
  /\ UNCHANGED <<now, password>>

(* The current user is answered with the token of the request.              *)
kGetUserById(r) ==
  /\ req[r].pc = "kGetUserById"
  /\ IF password[req[r].id] = NULL
     THEN req' = [req EXCEPT ![r] = Answer(@, 404)] /\ UNCHANGED tokens
     ELSE HandsOut(r, req[r], ReplyToken(req[r]))
  /\ UNCHANGED <<now, password, granted>>

kUpdateUserById(r) ==
  LET q == req[r]
  IN /\ q.pc = "kUpdateUserById"
     /\ \/ /\ password[q.id] = NULL
           /\ req' = [req EXCEPT ![r] = Answer(q, 404)]
           /\ UNCHANGED <<password, tokens>>
        \/ /\ password[q.id] # NULL
           /\ SetPassword(q.id, IF q.pw = NULL THEN password[q.id] ELSE q.pw)
           /\ \/ /\ req' = Seen([req EXCEPT ![r] = Answer(q, 200)])
                 /\ tokens' = tokens \cup {ReplyToken(q)}
              \/ req' = Seen([req EXCEPT ![r] = Answer(q, 500)]) /\ UNCHANGED tokens
     /\ UNCHANGED <<now, granted>>

kGetProfileByUsername(r) ==
  /\ req[r].pc = "kGetProfileByUsername"
  /\ \E status \in {200, 404} : req' = [req EXCEPT ![r] = Answer(@, status)]
  /\ UNCHANGED <<now, password, tokens, granted>>

(* A statement that fails, or whose answer is lost.                         *)
ExecuteFails(r) ==
  /\ InFlight(r)
  /\ req' = [req EXCEPT ![r] = Answer(@, 500)]
  /\ UNCHANGED <<now, password, tokens, granted>>

Step(r) ==
  \/ kAddNewUser(r)
  \/ RegistrationAnswered(r)
  \/ kGetUserByEmail(r)
  \/ validatePassword(r)
  \/ kGetUserById(r)
  \/ kUpdateUserById(r)
  \/ kGetProfileByUsername(r)

Next ==
  \/ Tick
  \/ \E r \in Slots : BeginPublic(r) \/ BeginProtected(r) \/ Step(r) \/ ExecuteFails(r)

Spec == Init /\ [][Next]_authVars

-----------------------------------------------------------------------------
Req == [op: {"post_user", "login", "get_user", "put_user", "get_profile", NULL},
        pc: {"kAddNewUser", "GenerateToken", "kGetUserByEmail", "validatePassword",
             "kGetUserById", "kUpdateUserById", "kGetProfileByUsername", "done"},
        id: Users \cup {NULL}, pw: Passwords \cup {NULL}, token: Token \cup {NULL},
        hash: Passwords \cup {NULL}, began: Times,
        known: SUBSET (Passwords \cup {NULL}),
        status: Statuses]

(* Accounts, tokens and requests have their types, and a statement has the  *)
(* id and the hash it works with (the early returns of the handlers).       *)
TypeOK ==
  /\ now \in Times
  /\ password \in [Users -> Passwords \cup {NULL}]
  /\ tokens \subseteq Token
  /\ granted \subseteq Users \X Times
  /\ req \in [Slots -> Req]
  /\ \A r \in Slots :
       /\ req[r].pc \in {"GenerateToken", "kGetUserByEmail", "validatePassword",
                          "kGetUserById", "kUpdateUserById"} => req[r].id \in Users
       /\ req[r].pc = "kAddNewUser" => req[r].pw \in Passwords
       /\ req[r].pc = "validatePassword" => req[r].hash \in Passwords

(* Every token names an account that exists, however registrations fail or  *)
(* lose their answers: a handler behind CheckAuth finds its caller in the   *)
(* database, which Requests takes for granted (auth.cpp:46, users.cpp:61).  *)
TokensNameAccounts == \A t \in tokens : password[t.id] # NULL

(* A caller is let in by its id only if it registered or showed its         *)
(* password at most the expiration time before, whatever it has done with   *)
(* its token since (jwt.cpp:18, user.cpp:43).                               *)
AdmittedByRecentLogin ==
  \A r \in Slots : req[r].token # NULL =>
    \E g \in granted : /\ g[1] = req[r].id
                       /\ g[2] <= req[r].began
                       /\ req[r].began <= g[2] + ExpirationTime

(* Who logged in showed a password that was the account's at some moment of *)
(* the request: the hash is read before the comparison, and a PUT may       *)
(* commit in between (users_login.cpp:60).                                  *)
LoginPasswordWasCurrent ==
  \A r \in Slots : req[r].op = "login" /\ req[r].status = 200 => req[r].pw \in req[r].known
=============================================================================
