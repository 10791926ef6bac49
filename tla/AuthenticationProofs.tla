------------------------ MODULE AuthenticationProofs -------------------------
(***************************************************************************)
(* For any number of users, passwords and requests, any expiration time    *)
(* and any bound of the clock: types, TokensNameAccounts,                  *)
(* AdmittedByRecentLogin and LoginPasswordWasCurrent.  The invariant says  *)
(* where each token comes from and what a request knows at each of its     *)
(* statements.                                                             *)
(***************************************************************************)
EXTENDS Authentication, TLAPS

(* Which request may be in a slot.                                          *)
Recent(q) == \E g \in granted : /\ g[1] = q.id
                                /\ g[2] <= q.began
                                /\ q.began <= g[2] + ExpirationTime
ReqInv(q) ==
  /\ q \in Req
  /\ q.pc \in {"GenerateToken", "kGetUserByEmail", "validatePassword",
               "kGetUserById", "kUpdateUserById"} => q.id \in Users
  /\ q.op = "login" /\ q.pc # "done" => q.id \in Users
  /\ q.pc = "kAddNewUser" => q.pw \in Passwords /\ q.token = NULL
  /\ q.pc = "validatePassword" => q.hash \in Passwords
  /\ q.pc \in {"GenerateToken", "validatePassword"} => password[q.id] # NULL
  /\ q.pc \in {"kGetUserById", "kUpdateUserById"} => q.token # NULL
  /\ q.token # NULL => q.token \in tokens /\ q.token.id = q.id /\ Recent(q)

TablesInv ==
  /\ now \in Times
  /\ password \in [Users -> Passwords \cup {NULL}]
  /\ tokens \subseteq Token
  /\ granted \subseteq Users \X (0..now)
  /\ TokensNameAccounts
  /\ \A t \in tokens : \E g \in granted : g[1] = t.id /\ t.exp = g[2] + ExpirationTime

AuthInv ==
  /\ TablesInv
  /\ req \in [Slots -> Req]
  /\ \A r \in Slots : ReqInv(req[r])

(* Accounts, tokens and grants never go away.                               *)
Grows ==
  /\ \A u \in Users : password[u] # NULL => password'[u] # NULL
  /\ tokens \subseteq tokens' /\ granted \subseteq granted'

LEMMA ReqStays ==
  ASSUME NEW q, ReqInv(q), Grows
  PROVE  ReqInv(q)'
  BY DEF ReqInv, Recent, Grows, Req

(* One request moves to q, the others stay.                                 *)
LEMMA OneMoves ==
  ASSUME AuthInv, Grows, TablesInv', NEW r \in Slots, NEW q, ReqInv(q)',
         req' = [req EXCEPT ![r] = q]
  PROVE  AuthInv'
<1>1. q \in Req
  BY DEF ReqInv
<1>2. req' \in [Slots -> Req]
  BY <1>1 DEF AuthInv
<1>3. ASSUME NEW s \in Slots
      PROVE  ReqInv(req[s])' 
  <2>1. PICK p : p = req'[s]
    OBVIOUS
  <2>2. p = q \/ p = req[s]
    BY <2>1 DEF AuthInv
  <2>3. ReqInv(p)'
    <3>1. CASE p = q
      BY <3>1
    <3>2. CASE p = req[s]
      <4>1. ReqInv(p)
        BY <3>2 DEF AuthInv
      <4> QED BY <4>1, ReqStays
    <3> QED BY <2>2, <3>1, <3>2
  <2> QED BY <2>1, <2>3
<1> QED BY <1>2, <1>3 DEF AuthInv

LEMMA SomeStatuses ==
  0 \in Statuses /\ 200 \in Statuses /\ 401 \in Statuses /\ 403 \in Statuses /\ 404 \in Statuses
  /\ 422 \in Statuses /\ 500 \in Statuses
  BY DEF Statuses

LEMMA AnswerInv ==
  ASSUME NEW q \in Req, NEW status \in Statuses
  PROVE  ReqInv(Answer(q, status)) /\ ReqInv(Answer(q, status))'
<1> DEFINE a == Answer(q, status)
<1>1. 0 \in Times
  BY AuthTimes DEF Times
<1>2. /\ a \in Req /\ a.pc = "done" /\ a.token = NULL
  BY <1>1 DEF Answer, Req
<1> HIDE DEF a
<1>4. ReqInv(a) /\ ReqInv(a)'
  BY <1>2 DEF ReqInv
<1> QED BY <1>4 DEF a

-----------------------------------------------------------------------------
(* One lemma per action.                                                    *)

LEMMA TickInv ==
  ASSUME AuthInv, Tick
  PROVE  AuthInv'
<1>1. /\ now \in Nat /\ now' = now + 1 /\ now' \in Times
      /\ UNCHANGED <<password, tokens, req, granted>>
  BY AuthTimes DEF Tick, AuthInv, TablesInv, Times
<1>2. Grows
  BY <1>1 DEF Grows
<1>3. 0..now \subseteq 0..now'
  BY <1>1
<1>4. TablesInv'
  BY <1>1, <1>3 DEF AuthInv, TablesInv, TokensNameAccounts
<1>5. ASSUME NEW r \in Slots
      PROVE  ReqInv(req[r])'
  <2>1. ReqInv(req[r])
    BY DEF AuthInv
  <2>2. PICK q : q = req[r]
    OBVIOUS
  <2>3. ReqInv(q)'
    BY <1>2, <2>1, <2>2, ReqStays
  <2> QED BY <1>1, <2>2, <2>3
<1> QED BY <1>1, <1>4, <1>5 DEF AuthInv

(* Steps of one request that leave the tables alone.                        *)
LEMMA TablesStay ==
  ASSUME AuthInv, UNCHANGED <<now, password, tokens, granted>>
  PROVE  Grows /\ TablesInv'
  BY DEF AuthInv, TablesInv, Grows, TokensNameAccounts

LEMMA AnswerOnlyInv ==
  ASSUME AuthInv, NEW r \in Slots, NEW status \in Statuses,
         req' = [req EXCEPT ![r] = Answer(req[r], status)], Grows, TablesInv'
  PROVE  AuthInv'
<1>1. PICK q : q = req[r]
  OBVIOUS
<1>2. q \in Req
  BY <1>1 DEF AuthInv
<1>3. PICK a : a = Answer(q, status)
  OBVIOUS
<1>4. ReqInv(a)'
  BY <1>2, <1>3, AnswerInv
<1> QED BY <1>1, <1>3, <1>4, OneMoves

LEMMA AnswersInv ==
  ASSUME AuthInv, UNCHANGED <<now, password, tokens, granted>>, NEW r \in Slots,
         \E status \in Statuses :
           req' = [req EXCEPT ![r] = Answer(req[r], status)]
  PROVE  AuthInv'
<1>1. Grows /\ TablesInv'
  BY TablesStay
<1> QED BY <1>1, AnswerOnlyInv

LEMMA BeginPublicInv ==
  ASSUME AuthInv, NEW r \in Slots, BeginPublic(r)
  PROVE  AuthInv'
<1>1. Grows /\ TablesInv'
  BY TablesStay DEF BeginPublic
<1>2. 0 \in Times
  BY AuthTimes DEF Times
<1>3. PICK pw \in Passwords :
        \/ req' = [req EXCEPT ![r] = Request("post_user", "kAddNewUser", NULL, pw, NULL)]
        \/ \E u \in Users :
             req' = [req EXCEPT ![r] = [Request("login", "kGetUserByEmail", u, pw, NULL)
                                          EXCEPT !.known = {password[u]}]]
  BY DEF BeginPublic
<1>4. CASE req' = [req EXCEPT ![r] = Request("post_user", "kAddNewUser", NULL, pw, NULL)]
  <2>0. PICK q : q = Request("post_user", "kAddNewUser", NULL, pw, NULL)
    OBVIOUS
  <2>1. /\ q \in Req /\ q.op = "post_user" /\ q.pc = "kAddNewUser"
        /\ q.pw = pw /\ q.token = NULL
    BY <1>2, <2>0, SomeStatuses DEF Request, Req
  <2>2. ReqInv(q)'
    BY <2>1 DEF ReqInv
  <2> QED BY <1>1, <1>4, <2>0, <2>2, OneMoves
<1>5. ASSUME NEW u \in Users,
             req' = [req EXCEPT ![r] = [Request("login", "kGetUserByEmail", u, pw, NULL)
                                          EXCEPT !.known = {password[u]}]]
      PROVE  AuthInv'
  <2>1. PICK p, known : p = Request("login", "kGetUserByEmail", u, pw, NULL)
                        /\ known = {password[u]}
    OBVIOUS
  <2>2. /\ p \in Req /\ p.pc = "kGetUserByEmail" /\ p.id = u /\ p.token = NULL
        /\ known \in SUBSET (Passwords \cup {NULL})
    BY <1>2, <2>1, SomeStatuses DEF Request, Req, AuthInv, TablesInv
  <2>3. PICK q : q = [p EXCEPT !.known = known]
    OBVIOUS
  <2>4. /\ q \in Req /\ q.pc = "kGetUserByEmail" /\ q.id = u /\ q.token = NULL
        /\ req' = [req EXCEPT ![r] = q]
    <3>1. q \in Req /\ q.pc = "kGetUserByEmail" /\ q.id = u /\ q.token = NULL
      BY <2>2, <2>3 DEF Req
    <3>2. req' = [req EXCEPT ![r] = q]
      BY <1>5, <2>1, <2>3, Zenon
    <3> QED BY <3>1, <3>2
  <2>5. ReqInv(q)'
    BY <2>4 DEF ReqInv
  <2> QED BY <1>1, <2>4, <2>5, OneMoves
<1> QED BY <1>3, <1>4, <1>5

(* CheckAuth: the token was granted at most the expiration time ago.        *)
LEMMA AdmittedIsRecent ==
  ASSUME TablesInv, NEW header \in tokens, VerifyToken(header)
  PROVE  \E g \in granted : /\ g[1] = header.id /\ g[2] <= now
                            /\ now <= g[2] + ExpirationTime
<1>1. PICK g \in granted : g[1] = header.id /\ header.exp = g[2] + ExpirationTime
  BY DEF TablesInv
<1>2. g[2] \in 0..now /\ now \in Int
  BY DEF TablesInv, Times
<1> QED BY <1>1, <1>2 DEF VerifyToken

LEMMA BeginProtectedInv ==
  ASSUME AuthInv, NEW r \in Slots, BeginProtected(r)
  PROVE  AuthInv'
<1>1. Grows /\ TablesInv'
  BY TablesStay DEF BeginProtected
<1>2. 0 \in Times /\ now \in Times /\ TablesInv
  BY AuthTimes DEF Times, AuthInv, TablesInv
<1>3. PICK op \in DOMAIN Routes, header \in tokens \cup {NULL, Malformed},
           pw \in Passwords \cup {NULL} :
        \/ \E id \in Users \cup {NULL} :
             /\ Admits(header, Optional(op), id)
             /\ req' = [req EXCEPT ![r] = Request(op, Routes[op], id, pw, header)]
        \/ req' = [req EXCEPT ![r] = Answer(Request(op, "done", NULL, NULL, NULL), 401)]
  BY DEF BeginProtected
<1>4. op \in {"get_user", "put_user", "get_profile"}
  BY DEF Routes
<1>5. ASSUME NEW id \in Users \cup {NULL}, Admits(header, Optional(op), id),
             req' = [req EXCEPT ![r] = Request(op, Routes[op], id, pw, header)]
      PROVE  AuthInv'
  <2>0. PICK q : q = Request(op, Routes[op], id, pw, header)
    OBVIOUS
  <2>1. CASE header = NULL
    <3>1. op = "get_profile" /\ Routes[op] = "kGetProfileByUsername"
      BY <1>4, <1>5, <2>1 DEF Admits, Optional, Routes
    <3>2. q \in Req /\ q.op # "login" /\ q.pc = "kGetProfileByUsername" /\ q.token = NULL
      BY <1>2, <2>0, <2>1, <3>1, SomeStatuses DEF Request, Req
    <3>3. ReqInv(q)'
      BY <3>2 DEF ReqInv
    <3> QED BY <1>1, <1>5, <2>0, <3>3, OneMoves
  <2>2. CASE header # NULL
    <3>1. header \in tokens /\ VerifyToken(header) /\ id = header.id
      BY <1>5, <2>2 DEF Admits
    <3>2. header \in Token /\ id \in Users
      BY <1>2, <3>1 DEF TablesInv, Token
    <3>3. Routes[op] \in {"kGetUserById", "kUpdateUserById", "kGetProfileByUsername"}
      BY <1>4 DEF Routes
    <3>4. /\ q \in Req /\ q.op # "login" /\ q.pc = Routes[op] /\ q.id = id /\ q.token = header
          /\ q.began = now
      BY <1>2, <1>4, <2>0, <2>2, <3>2, <3>3, SomeStatuses DEF Request, Req
    <3>5. UNCHANGED <<now, tokens, granted>>
      BY DEF BeginProtected
    <3>6. Recent(q)'
      BY <1>2, <3>1, <3>4, <3>5, AdmittedIsRecent DEF Recent
    <3>7. ReqInv(q)'
      BY <2>2, <3>1, <3>2, <3>3, <3>4, <3>5, <3>6 DEF ReqInv
    <3> QED BY <1>1, <1>5, <2>0, <3>7, OneMoves
  <2> QED BY <2>1, <2>2
<1>6. CASE req' = [req EXCEPT ![r] = Answer(Request(op, "done", NULL, NULL, NULL), 401)]
  <2>1. PICK q : q = Request(op, "done", NULL, NULL, NULL)
    OBVIOUS
  <2>2. q \in Req
    BY <1>2, <1>4, <2>1, SomeStatuses DEF Request, Req
  <2>3. ReqInv(Answer(q, 401))'
    BY <2>2, SomeStatuses, AnswerInv
  <2> QED BY <1>1, <1>6, <2>1, <2>3, OneMoves
<1> QED BY <1>3, <1>5, <1>6

-----------------------------------------------------------------------------
(* What statements do to the tables.                                        *)

LEMMA PasswordSet ==
  ASSUME AuthInv, NEW u \in Users, NEW pw \in Passwords, SetPassword(u, pw),
         UNCHANGED <<now, tokens, granted>>
  PROVE  Grows /\ TablesInv'
<1>1. password' = [password EXCEPT ![u] = pw] /\ pw # NULL
  BY AuthNull DEF SetPassword
<1>2. password \in [Users -> Passwords \cup {NULL}]
  BY DEF AuthInv, TablesInv
<1>3. /\ password' \in [Users -> Passwords \cup {NULL}]
      /\ \A v \in Users : password[v] # NULL => password'[v] # NULL
  BY <1>1, <1>2
<1>4. \A t \in tokens : t.id \in Users
  BY DEF AuthInv, TablesInv, Token
<1>5. TokensNameAccounts'
  BY <1>3, <1>4 DEF AuthInv, TablesInv, TokensNameAccounts
<1> QED BY <1>3, <1>5 DEF AuthInv, TablesInv, Grows

LEMMA TokenGranted ==
  ASSUME AuthInv, NEW id \in Users, password[id] # NULL, UNCHANGED <<now, password>>,
         granted' = granted \cup {<<id, now>>},
         tokens' \in {tokens, tokens \cup {GenerateToken(id)}}
  PROVE  Grows /\ TablesInv'
<1>1. PICK t : t = GenerateToken(id)
  OBVIOUS
<1>2. now \in Times /\ 0..MaxTime = Times /\ TablesInv
  BY DEF AuthInv, TablesInv, Times
<1>3. now \in 0..now /\ now + ExpirationTime \in 0..(MaxTime + ExpirationTime)
  BY <1>2, AuthTimes
<1>4. t \in Token /\ t.id = id /\ t.exp = now + ExpirationTime
  BY <1>1, <1>3 DEF GenerateToken, Token
<1>5. tokens' \subseteq tokens \cup {t} /\ tokens \subseteq tokens'
  BY <1>1
<1>6. tokens' \subseteq Token /\ granted' \subseteq Users \X (0..now)
  BY <1>2, <1>3, <1>4, <1>5 DEF TablesInv
<1>7. TokensNameAccounts'
  BY <1>2, <1>4, <1>5 DEF TablesInv, TokensNameAccounts
<1>8. ASSUME NEW x \in tokens'
      PROVE  \E g \in granted' : g[1] = x.id /\ x.exp = g[2] + ExpirationTime
  <2>1. CASE x \in tokens
    BY <1>2, <2>1 DEF TablesInv
  <2>2. CASE x = t
    <3>1. <<id, now>> \in granted'
      OBVIOUS
    <3> QED BY <1>4, <2>2, <3>1
  <2> QED BY <1>5, <2>1, <2>2
<1>9. Grows
  BY <1>5 DEF Grows
<1> QED BY <1>2, <1>6, <1>7, <1>8, <1>9 DEF TablesInv

(* One request moves and the logins take note of a password.                *)
LEMMA OneMovesSeen ==
  ASSUME AuthInv, Grows, TablesInv', NEW r \in Slots, NEW q, ReqInv(q)',
         req' = Seen([req EXCEPT ![r] = q])
  PROVE  AuthInv'
<1>1. ASSUME NEW s \in Slots
      PROVE  ReqInv(req[s])'
  <2>1. PICK p : p = IF s = r THEN q ELSE req[s]
    OBVIOUS
  <2>2. ReqInv(p)'
    <3>1. CASE p = q
      BY <3>1
    <3>2. CASE p = req[s]
      <4>1. ReqInv(p)
        BY <3>2 DEF AuthInv
      <4> QED BY <4>1, ReqStays
    <3> QED BY <2>1, <3>1, <3>2
  <2>3. [req EXCEPT ![r] = q][s] = p
    BY <2>1 DEF AuthInv
  <2>4. PICK known : known = p.known \cup {password'[p.id]}
    OBVIOUS
  <2>5. \/ req'[s] = p
        \/ /\ p.op = "login" /\ p.pc # "done"
           /\ req'[s] = [p EXCEPT !.known = known]
    <3>1. req'[s] = IF p.op # "login" \/ p.pc = "done" THEN p
                    ELSE [p EXCEPT !.known = p.known \cup {password'[p.id]}]
      <4>1. PICK f : f = [req EXCEPT ![r] = q]
        OBVIOUS
      <4>2. req' = Seen(f) /\ f[s] = p
        BY <2>3, <4>1
      <4>3. req'[s] = IF f[s].op # "login" \/ f[s].pc = "done" THEN f[s]
                      ELSE [f[s] EXCEPT !.known = f[s].known \cup {password'[f[s].id]}]
        BY <4>2, Zenon DEF Seen
      <4> QED BY <4>2, <4>3, Zenon
    <3> QED BY <2>4, <3>1
  <2>6. PICK x : x = [p EXCEPT !.known = known]
    OBVIOUS
  <2>7. ASSUME p.op = "login", p.pc # "done"
        PROVE  ReqInv(x)'
    <3>1. p \in Req /\ p.id \in Users
      BY <2>2, <2>7 DEF ReqInv
    <3>2. password'[p.id] \in Passwords \cup {NULL}
      BY <3>1 DEF TablesInv
    <3>3. known \in SUBSET (Passwords \cup {NULL})
      BY <2>4, <3>1, <3>2 DEF Req
    <3>4. /\ x \in Req /\ x.op = p.op /\ x.pc = p.pc /\ x.id = p.id /\ x.pw = p.pw
          /\ x.hash = p.hash /\ x.token = p.token /\ x.began = p.began
      BY <2>6, <3>1, <3>3 DEF Req
    <3> QED BY <2>2, <3>4 DEF ReqInv, Recent
  <2> QED BY <2>2, <2>5, <2>6, <2>7
<1>2. DOMAIN req' = Slots /\ req' = [s \in Slots |-> req'[s]]
  BY DEF Seen
<1>3. \A s \in Slots : req'[s] \in Req
  BY <1>1 DEF ReqInv
<1>4. req' \in [Slots -> Req]
  BY <1>2, <1>3
<1> QED BY <1>1, <1>4 DEF AuthInv

-----------------------------------------------------------------------------
LEMMA kAddNewUserInv ==
  ASSUME AuthInv, NEW r \in Slots, kAddNewUser(r)
  PROVE  AuthInv'
<1>1. PICK q : q = req[r]
  OBVIOUS
<1>2. ReqInv(q) /\ q.pc = "kAddNewUser" /\ q \in Req /\ q.pw \in Passwords
  BY <1>1 DEF AuthInv, ReqInv, kAddNewUser
<1>3. ASSUME NEW u \in Users, SetPassword(u, q.pw),
             req' = Seen([req EXCEPT ![r] = [@ EXCEPT !.pc = "GenerateToken", !.id = u]])
      PROVE  AuthInv'
  <2>1. UNCHANGED <<now, tokens, granted>>
    BY DEF kAddNewUser
  <2>2. Grows /\ TablesInv'
    BY <1>2, <1>3, <2>1, PasswordSet
  <2>3. password'[u] # NULL
    BY <1>2, <1>3, AuthNull DEF SetPassword, AuthInv, TablesInv
  <2>4. PICK p : p = [q EXCEPT !.pc = "GenerateToken"]
    OBVIOUS
  <2>5. PICK x : x = [p EXCEPT !.id = u]
    OBVIOUS
  <2>6. p \in Req /\ p.pc = "GenerateToken" /\ p.token = q.token /\ p.began = q.began
    BY <1>2, <2>4 DEF Req
  <2>7. /\ x \in Req /\ x.pc = "GenerateToken" /\ x.id = u /\ x.token = q.token
    BY <2>5, <2>6 DEF Req
  <2>8. q.token = NULL
    BY <1>2 DEF ReqInv
  <2>9. ReqInv(x)'
    BY <2>3, <2>7, <2>8 DEF ReqInv
  <2>10. req' = Seen([req EXCEPT ![r] = x])
    <3>1. x = [q EXCEPT !.pc = "GenerateToken", !.id = u]
      BY <2>4, <2>5
    <3> QED BY <1>1, <1>3, <3>1, Zenon
  <2> QED BY <2>2, <2>9, <2>10, OneMovesSeen
<1>4. CASE /\ req' = [req EXCEPT ![r] = Answer(@, 422)]
           /\ UNCHANGED <<now, password, tokens, granted>>
  BY <1>4, SomeStatuses, AnswersInv
<1> QED BY <1>1, <1>3, <1>4, Zenon DEF kAddNewUser

(* An answer with a token that has just been granted.                       *)
LEMMA GrantedInv ==
  ASSUME AuthInv, NEW r \in Slots, req[r].pc \in {"GenerateToken", "validatePassword"},
         HandsOut(r, req[r], GenerateToken(req[r].id)),
         granted' = granted \cup {<<req[r].id, now>>}, UNCHANGED <<now, password>>
  PROVE  AuthInv'
<1>1. req[r].id \in Users /\ password[req[r].id] # NULL
  BY DEF AuthInv, ReqInv
<1>2. Grows /\ TablesInv'
  BY <1>1, TokenGranted DEF HandsOut
<1>3. req' = [req EXCEPT ![r] = Answer(req[r], 200)]
  BY DEF HandsOut
<1> QED BY <1>2, <1>3, SomeStatuses, AnswerOnlyInv

LEMMA kGetUserByEmailInv ==
  ASSUME AuthInv, NEW r \in Slots, kGetUserByEmail(r)
  PROVE  AuthInv'
<1>1. PICK q, hash : q = req[r] /\ hash = password[q.id]
  OBVIOUS
<1>2. /\ ReqInv(q) /\ q.pc = "kGetUserByEmail" /\ q \in Req /\ q.id \in Users
      /\ hash \in Passwords \cup {NULL}
  BY <1>1 DEF AuthInv, TablesInv, ReqInv, kGetUserByEmail
<1>3. UNCHANGED <<now, password, tokens, granted>>
  BY DEF kGetUserByEmail
<1>4. Grows /\ TablesInv'
  BY <1>3, TablesStay
<1>5. PICK p, x : p = [q EXCEPT !.pc = "validatePassword"] /\ x = [p EXCEPT !.hash = hash]
  OBVIOUS
<1>6. \/ req' = [req EXCEPT ![r] = Answer(req[r], 403)]
      \/ hash # NULL /\ req' = [req EXCEPT ![r] = x]
  <2>1. x = [q EXCEPT !.pc = "validatePassword", !.hash = hash]
    BY <1>5
  <2>2. \/ req' = [req EXCEPT ![r] = Answer(req[r], 403)]
        \/ /\ hash # NULL
           /\ req' = [req EXCEPT ![r] = [q EXCEPT !.pc = "validatePassword", !.hash = hash]]
    BY <1>1, Zenon DEF kGetUserByEmail, Unknown
  <2> QED BY <2>1, <2>2, Zenon
<1>7. ASSUME hash # NULL, req' = [req EXCEPT ![r] = x]
      PROVE  AuthInv'
  <2>1. p \in Req /\ p.pc = "validatePassword" /\ p.id = q.id /\ p.token = q.token
        /\ p.began = q.began
    BY <1>2, <1>5 DEF Req
  <2>2. x \in Req /\ x.pc = "validatePassword" /\ x.id = q.id /\ x.token = q.token
        /\ x.began = q.began /\ x.hash = hash
    <3>1. x = [p EXCEPT !.hash = hash] /\ hash \in Passwords \cup {NULL} /\ p \in Req
      BY <1>2, <1>5, <2>1
    <3>2. /\ x \in Req /\ x.pc = p.pc /\ x.id = p.id /\ x.token = p.token
          /\ x.began = p.began /\ x.hash = hash
      BY <3>1 DEF Req
    <3> QED BY <2>1, <3>2
  <2>3. password'[x.id] # NULL
    BY <1>1, <1>3, <1>7, <2>2
  <2>4. ReqInv(q)'
    BY <1>2, <1>4, ReqStays
  <2>5. ReqInv(x)'
    BY <1>2, <1>7, <2>2, <2>3, <2>4 DEF ReqInv, Recent
  <2> QED BY <1>4, <1>7, <2>5, OneMoves
<1> QED BY <1>4, <1>6, <1>7, SomeStatuses, AnswerOnlyInv

LEMMA kUpdateUserByIdInv ==
  ASSUME AuthInv, NEW r \in Slots, kUpdateUserById(r)
  PROVE  AuthInv'
<1>1. PICK q : q = req[r]
  OBVIOUS
<1>2. /\ ReqInv(q) /\ q.pc = "kUpdateUserById" /\ q \in Req /\ q.id \in Users
      /\ q.token \in tokens /\ q.pw \in Passwords \cup {NULL}
      /\ password[q.id] \in Passwords \cup {NULL}
  BY <1>1 DEF AuthInv, TablesInv, ReqInv, Req, kUpdateUserById
<1>3. UNCHANGED <<now, granted>>
  BY DEF kUpdateUserById
<1>4. CASE password[q.id] = NULL
  <2>1. /\ req' = [req EXCEPT ![r] = Answer(req[r], 404)]
        /\ UNCHANGED <<now, password, tokens, granted>>
    BY <1>1, <1>4 DEF kUpdateUserById
  <2> QED BY <2>1, SomeStatuses, AnswersInv
<1>5. CASE password[q.id] # NULL
  <2>1. PICK pw : pw = IF q.pw = NULL THEN password[q.id] ELSE q.pw
    OBVIOUS
  <2>2. pw \in Passwords
    BY <1>2, <1>5, <2>1
  <2>3. SetPassword(q.id, pw)
    BY <1>1, <1>5, <2>1 DEF kUpdateUserById
  <2>4. \E status \in Statuses : req' = Seen([req EXCEPT ![r] = Answer(q, status)])
    BY <1>1, <1>5, SomeStatuses DEF kUpdateUserById
  <2>5. tokens' = tokens
    BY <1>1, <1>2, <1>5 DEF kUpdateUserById, ReplyToken
  <2>6. Grows /\ TablesInv'
    BY <1>2, <1>3, <2>2, <2>3, <2>5, PasswordSet
  <2>7. PICK status \in Statuses : req' = Seen([req EXCEPT ![r] = Answer(q, status)])
    BY <2>4
  <2>8. PICK a : a = Answer(q, status)
    OBVIOUS
  <2>9. ReqInv(a)'
    BY <1>2, <2>8, AnswerInv
  <2> QED BY <2>6, <2>7, <2>8, <2>9, OneMovesSeen
<1> QED BY <1>4, <1>5

LEMMA AuthStep ==
  ASSUME AuthInv, [Next]_authVars
  PROVE  AuthInv'
<1>1. ASSUME NEW r \in Slots, Step(r)
      PROVE  AuthInv'
  <2>1. CASE RegistrationAnswered(r)
    BY <2>1, GrantedInv DEF RegistrationAnswered
  <2>2. CASE validatePassword(r)
    <3>1. CASE Matches(req[r].pw, req[r].hash)
      BY <2>2, <3>1, GrantedInv DEF validatePassword
    <3>2. CASE ~Matches(req[r].pw, req[r].hash)
      BY <2>2, <3>2, SomeStatuses, AnswersInv DEF validatePassword
    <3> QED BY <3>1, <3>2
  <2>3. CASE kGetUserById(r)
    <3>1. req[r].token \in tokens
      BY <2>3 DEF AuthInv, ReqInv, kGetUserById
    <3>2. tokens' = tokens
      BY <2>3, <3>1 DEF kGetUserById, HandsOut, ReplyToken
    <3>3. \E status \in Statuses : req' = [req EXCEPT ![r] = Answer(req[r], status)]
      BY <2>3, SomeStatuses DEF kGetUserById, HandsOut
    <3>4. UNCHANGED <<now, password, granted>>
      BY <2>3 DEF kGetUserById
    <3> QED BY <3>2, <3>3, <3>4, AnswersInv
  <2>4. CASE kGetProfileByUsername(r)
    <3>1. \E status \in Statuses : req' = [req EXCEPT ![r] = Answer(req[r], status)]
      <4>1. \A status \in {200, 404} : status \in Statuses
        BY DEF Statuses
      <4>2. \E status \in {200, 404} : req' = [req EXCEPT ![r] = Answer(req[r], status)]
        BY <2>4, Zenon DEF kGetProfileByUsername
      <4> QED BY <4>1, <4>2, Zenon
    <3>2. UNCHANGED <<now, password, tokens, granted>>
      BY <2>4 DEF kGetProfileByUsername
    <3> QED BY <3>1, <3>2, AnswersInv
  <2> QED BY <1>1, <2>1, <2>2, <2>3, <2>4, kAddNewUserInv, kGetUserByEmailInv,
             kUpdateUserByIdInv DEF Step
<1>2. ASSUME NEW r \in Slots, ExecuteFails(r)
      PROVE  AuthInv'
  BY <1>2, SomeStatuses, AnswersInv DEF ExecuteFails
<1>3. CASE UNCHANGED authVars
  BY <1>3 DEF authVars, AuthInv, TablesInv, TokensNameAccounts, ReqInv, Recent
<1> QED BY <1>1, <1>2, <1>3, TickInv, BeginPublicInv, BeginProtectedInv DEF Next

LEMMA AuthStart == Init => AuthInv
<1> SUFFICES ASSUME Init PROVE AuthInv
  OBVIOUS
<1>1. 0 \in Times /\ now \in Times
  BY AuthTimes DEF Times, Init
<1>2. TablesInv
  BY <1>1 DEF Init, TablesInv, TokensNameAccounts
<1>3. PICK q : q = Answer(Request(NULL, "done", NULL, NULL, NULL), 0)
  OBVIOUS
<1>4. q \in Req /\ q.pc = "done" /\ q.token = NULL
  BY <1>1, <1>3 DEF Answer, Request, Req, Statuses
<1>5. ReqInv(q)
  BY <1>4 DEF ReqInv
<1>6. req = [r \in Slots |-> q]
  BY <1>3 DEF Init
<1> QED BY <1>2, <1>4, <1>5, <1>6 DEF AuthInv

LEMMA AuthInvAlways == Spec => []AuthInv
  BY AuthStart, AuthStep, PTL DEF Spec

-----------------------------------------------------------------------------
(* Every reachable state is typed, whatever the times and the sets are.     *)
THEOREM AuthTypes == Spec => []TypeOK
<1>1. AuthInv => TypeOK
  <2> SUFFICES ASSUME AuthInv PROVE TypeOK
    OBVIOUS
  <2>1. granted \subseteq Users \X Times
    BY AuthTimes DEF AuthInv, TablesInv, Times
  <2> QED BY <2>1 DEF AuthInv, TablesInv, ReqInv, TypeOK
<1> QED BY <1>1, AuthInvAlways, PTL

(* No sequence of registrations, logins, lost answers and password changes  *)
(* lets a client hold a token of an account that does not exist.            *)
THEOREM TokensAlwaysNameAccounts == Spec => []TokensNameAccounts
<1>1. AuthInv => TokensNameAccounts
  BY DEF AuthInv, TablesInv
<1> QED BY <1>1, AuthInvAlways, PTL

(* For any expiration time, a caller is let in only within that time of a   *)
(* registration or login of its own, however often its token was handed on. *)
THEOREM AlwaysAdmittedByRecentLogin == Spec => []AdmittedByRecentLogin
<1>1. AuthInv => AdmittedByRecentLogin
  BY DEF AuthInv, ReqInv, Recent, AdmittedByRecentLogin
<1> QED BY <1>1, AuthInvAlways, PTL


-----------------------------------------------------------------------------
(* What a login knows: the account's password now is among those it has     *)
(* seen, and so is the hash it read, whatever PUTs commit in between.       *)
LoginKnown(q) ==
  q.op = "login" =>
    /\ q.pc \in {"kGetUserByEmail", "validatePassword", "done"}
    /\ q.pc # "done" => password[q.id] \in q.known /\ q.status = 0
    /\ q.pc = "validatePassword" => q.hash \in q.known
    /\ q.status = 200 => q.pw \in q.known
LoginInv == \A r \in Slots : LoginKnown(req[r])

(* One request moves to q, and no password changes.                         *)
LEMMA LoginsStay ==
  ASSUME AuthInv, LoginInv, NEW r \in Slots, NEW q, LoginKnown(q),
         password' = password, req' = [req EXCEPT ![r] = q]
  PROVE  LoginInv'
<1>1. ASSUME NEW s \in Slots
      PROVE  LoginKnown(req[s])'
  <2>1. PICK p : p = req'[s]
    OBVIOUS
  <2>2. p = q \/ p = req[s]
    BY <2>1 DEF AuthInv
  <2>3. LoginKnown(p)
    BY <2>2 DEF LoginInv
  <2> QED BY <2>1, <2>3 DEF LoginKnown
<1> QED BY <1>1 DEF LoginInv

(* Answers that let nobody log in.                                          *)
Refusals == {0, 401, 403, 404, 422, 500}

LEMMA SomeRefusals ==
  0 \in Refusals /\ 401 \in Refusals /\ 403 \in Refusals /\ 404 \in Refusals
  /\ 422 \in Refusals /\ 500 \in Refusals
  BY DEF Refusals

LEMMA RefusalKnown ==
  ASSUME NEW q, NEW status \in Refusals
  PROVE  LoginKnown(Answer(q, status))
<1>1. status # 200
  BY DEF Refusals
<1> QED BY <1>1 DEF LoginKnown, Answer

LEMMA LoginsRefused ==
  ASSUME AuthInv, LoginInv, NEW r \in Slots, NEW status \in Refusals,
         password' = password, req' = [req EXCEPT ![r] = Answer(req[r], status)]
  PROVE  LoginInv'
<1>1. PICK q, a : q = req[r] /\ a = Answer(q, status)
  OBVIOUS
<1>2. LoginKnown(a)
  BY <1>1, RefusalKnown
<1> QED BY <1>1, <1>2, LoginsStay

(* A request that is no login is answered.                                  *)
LEMMA OthersAnswered ==
  ASSUME AuthInv, LoginInv, NEW r \in Slots, NEW status, req[r].op # "login",
         password' = password, req' = [req EXCEPT ![r] = Answer(req[r], status)]
  PROVE  LoginInv'
<1>1. PICK q, a : q = req[r] /\ a = Answer(q, status)
  OBVIOUS
<1>2. LoginKnown(a)
  BY <1>1 DEF LoginKnown, Answer
<1> QED BY <1>1, <1>2, LoginsStay

(* A request that is no login moves to q; a password may change, and the    *)
(* logins in flight see it.                                                 *)
LEMMA LoginsSee ==
  ASSUME AuthInv, LoginInv, NEW r \in Slots, NEW q, q.op # "login",
         req' = Seen([req EXCEPT ![r] = q])
  PROVE  LoginInv'
<1>1. ASSUME NEW s \in Slots
      PROVE  LoginKnown(req[s])'
  <2>1. PICK p : p = IF s = r THEN q ELSE req[s]
    OBVIOUS
  <2>2. LoginKnown(p)
    <3>1. CASE s = r
      BY <2>1, <3>1 DEF LoginKnown
    <3>2. CASE s # r
      BY <2>1, <3>2 DEF LoginInv
    <3> QED BY <3>1, <3>2
  <2>3. PICK f : f = [req EXCEPT ![r] = q]
    OBVIOUS
  <2>4. f[s] = p
    BY <2>1, <2>3 DEF AuthInv
  <2>5. req'[s] = IF p.op # "login" \/ p.pc = "done" THEN p
                  ELSE [p EXCEPT !.known = p.known \cup {password'[p.id]}]
    <3>1. req' = Seen(f)
      BY <2>3
    <3>2. req'[s] = IF f[s].op # "login" \/ f[s].pc = "done" THEN f[s]
                    ELSE [f[s] EXCEPT !.known = f[s].known \cup {password'[f[s].id]}]
      BY <3>1, Zenon DEF Seen
    <3> QED BY <2>4, <3>2, Zenon
  <2>6. CASE p.op # "login" \/ p.pc = "done"
    <3>1. req'[s] = p
      BY <2>5, <2>6
    <3> QED BY <2>2, <2>6, <3>1 DEF LoginKnown
  <2>7. CASE p.op = "login" /\ p.pc # "done"
    <3>1. s # r
      BY <2>1, <2>7
    <3>2. p \in Req
      BY <2>1, <3>1 DEF AuthInv
    <3>3. PICK known : known = p.known \cup {password'[p.id]}
      OBVIOUS
    <3>4. PICK x : x = [p EXCEPT !.known = known]
      OBVIOUS
    <3>5. /\ x.op = p.op /\ x.pc = p.pc /\ x.id = p.id /\ x.pw = p.pw /\ x.hash = p.hash
          /\ x.status = p.status /\ x.known = known
      BY <3>2, <3>4 DEF Req
    <3>6. req'[s] = x
      BY <2>5, <2>7, <3>3, <3>4
    <3> QED BY <2>2, <2>7, <3>3, <3>5, <3>6 DEF LoginKnown
  <2> QED BY <2>6, <2>7
<1> QED BY <1>1 DEF LoginInv

LEMMA LoginBegins ==
  ASSUME AuthInv, LoginInv, NEW r \in Slots, BeginPublic(r) \/ BeginProtected(r)
  PROVE  LoginInv'
<1>1. password' = password
  BY DEF BeginPublic, BeginProtected
<1>2. CASE BeginPublic(r)
  <2>1. PICK pw \in Passwords :
          \/ req' = [req EXCEPT ![r] = Request("post_user", "kAddNewUser", NULL, pw, NULL)]
          \/ \E u \in Users :
               req' = [req EXCEPT ![r] = [Request("login", "kGetUserByEmail", u, pw, NULL)
                                            EXCEPT !.known = {password[u]}]]
    BY <1>2 DEF BeginPublic
  <2>2. CASE req' = [req EXCEPT ![r] = Request("post_user", "kAddNewUser", NULL, pw, NULL)]
    <3>1. PICK q : q = Request("post_user", "kAddNewUser", NULL, pw, NULL)
      OBVIOUS
    <3>2. LoginKnown(q)
      BY <3>1 DEF LoginKnown, Request
    <3> QED BY <1>1, <2>2, <3>1, <3>2, LoginsStay
  <2>3. ASSUME NEW u \in Users,
               req' = [req EXCEPT ![r] = [Request("login", "kGetUserByEmail", u, pw, NULL)
                                            EXCEPT !.known = {password[u]}]]
        PROVE  LoginInv'
    <3>1. PICK p, known : /\ p = Request("login", "kGetUserByEmail", u, pw, NULL)
                          /\ known = {password[u]}
      OBVIOUS
    <3>2. PICK q : q = [p EXCEPT !.known = known]
      OBVIOUS
    <3>3. /\ q.pc = "kGetUserByEmail" /\ q.id = u /\ q.known = known /\ q.status = 0
      BY <3>1, <3>2 DEF Request
    <3>4. LoginKnown(q)
      BY <3>1, <3>3 DEF LoginKnown
    <3>5. req' = [req EXCEPT ![r] = q]
      BY <2>3, <3>1, <3>2, Zenon
    <3> QED BY <1>1, <3>4, <3>5, LoginsStay
  <2> QED BY <2>1, <2>2, <2>3
<1>3. CASE BeginProtected(r)
  <2>1. PICK op \in DOMAIN Routes, header \in tokens \cup {NULL, Malformed},
             pw \in Passwords \cup {NULL} :
          \/ \E id \in Users \cup {NULL} :
               req' = [req EXCEPT ![r] = Request(op, Routes[op], id, pw, header)]
          \/ req' = [req EXCEPT ![r] = Answer(Request(op, "done", NULL, NULL, NULL), 401)]
    BY <1>3 DEF BeginProtected
  <2>2. op # "login"
    BY DEF Routes
  <2>3. \E q : LoginKnown(q) /\ req' = [req EXCEPT ![r] = q]
    <3>1. \A id : LoginKnown(Request(op, Routes[op], id, pw, header))
      BY <2>2 DEF LoginKnown, Request
    <3>2. LoginKnown(Answer(Request(op, "done", NULL, NULL, NULL), 401))
      BY <2>2 DEF LoginKnown, Request, Answer
    <3> QED BY <2>1, <3>1, <3>2, Zenon
  <2> QED BY <1>1, <2>3, LoginsStay
<1> QED BY <1>2, <1>3

LEMMA LoginSteps ==
  ASSUME AuthInv, LoginInv, NEW r \in Slots, Step(r)
  PROVE  LoginInv'
<1>1. PICK q : q = req[r]
  OBVIOUS
<1>2. LoginKnown(q) /\ q \in Req
  BY <1>1 DEF LoginInv, AuthInv
<1>3. CASE kAddNewUser(r)
  <2>1. q.op # "login"
    BY <1>1, <1>2, <1>3 DEF kAddNewUser, LoginKnown
  <2>2. ASSUME NEW u \in Users,
               req' = Seen([req EXCEPT ![r] = [@ EXCEPT !.pc = "GenerateToken", !.id = u]])
        PROVE  LoginInv'
    <3>1. PICK p : p = [q EXCEPT !.pc = "GenerateToken"]
      OBVIOUS
    <3>2. PICK x : x = [p EXCEPT !.id = u]
      OBVIOUS
    <3>3. x.op = q.op
      BY <1>2, <3>1, <3>2 DEF Req
    <3>4. x = [q EXCEPT !.pc = "GenerateToken", !.id = u]
      BY <3>1, <3>2
    <3>5. req' = Seen([req EXCEPT ![r] = x])
      BY <1>1, <2>2, <3>4, Zenon
    <3> QED BY <2>1, <3>3, <3>5, LoginsSee
  <2>3. CASE UNCHANGED password /\ req' = [req EXCEPT ![r] = Answer(@, 422)]
    BY <2>3, SomeRefusals, LoginsRefused
  <2> QED BY <1>3, <2>2, <2>3, Zenon DEF kAddNewUser
<1>4. CASE RegistrationAnswered(r)
  <2>1. q.op # "login"
    BY <1>1, <1>2, <1>4 DEF RegistrationAnswered, LoginKnown
  <2> QED BY <1>1, <1>4, <2>1, OthersAnswered DEF RegistrationAnswered, HandsOut
<1>5. CASE kGetUserByEmail(r)
  <2>1. PICK hash : hash = password[q.id]
    OBVIOUS
  <2>2. PICK p, x : p = [q EXCEPT !.pc = "validatePassword"] /\ x = [p EXCEPT !.hash = hash]
    OBVIOUS
  <2>3. \/ req' = [req EXCEPT ![r] = Answer(req[r], 403)]
        \/ req' = [req EXCEPT ![r] = x]
    <3>1. x = [q EXCEPT !.pc = "validatePassword", !.hash = hash]
      BY <2>2
    <3>2. \/ req' = [req EXCEPT ![r] = Answer(req[r], 403)]
          \/ req' = [req EXCEPT ![r] = [q EXCEPT !.pc = "validatePassword", !.hash = hash]]
      BY <1>1, <1>5, <2>1, Zenon DEF kGetUserByEmail
    <3> QED BY <3>1, <3>2, Zenon
  <2>4. p \in Req /\ p.op = q.op /\ p.pc = "validatePassword" /\ p.id = q.id
        /\ p.pw = q.pw /\ p.known = q.known /\ p.status = q.status
    BY <1>2, <2>2 DEF Req
  <2>5. x.op = q.op /\ x.pc = "validatePassword" /\ x.id = q.id /\ x.hash = hash
        /\ x.pw = q.pw /\ x.known = q.known /\ x.status = q.status
    BY <2>2, <2>4 DEF Req
  <2>6. q.pc = "kGetUserByEmail" /\ password' = password
    BY <1>1, <1>5 DEF kGetUserByEmail
  <2>7. LoginKnown(x)
    BY <1>2, <2>1, <2>5, <2>6 DEF LoginKnown
  <2> QED BY <2>3, <2>6, <2>7, SomeRefusals, LoginsRefused, LoginsStay
<1>6. CASE validatePassword(r)
  <2>1. q.pc = "validatePassword" /\ password' = password
    BY <1>1, <1>6 DEF validatePassword
  <2>2. CASE q.pw = q.hash
    <3>1. PICK a : a = Answer(q, 200)
      OBVIOUS
    <3>2. LoginKnown(a)
      BY <1>2, <2>1, <2>2, <3>1 DEF LoginKnown, Answer
    <3>3. req' = [req EXCEPT ![r] = a]
      BY <1>1, <1>6, <2>2, <3>1 DEF validatePassword, Matches, HandsOut
    <3> QED BY <2>1, <3>2, <3>3, LoginsStay
  <2>3. CASE q.pw # q.hash
    BY <1>1, <1>6, <2>1, <2>3, SomeRefusals, LoginsRefused DEF validatePassword, Matches
  <2> QED BY <2>2, <2>3
<1>7. CASE kGetUserById(r)
  <2>1. q.op # "login" /\ password' = password
    BY <1>1, <1>2, <1>7 DEF kGetUserById, LoginKnown
  <2>2. \E status : req' = [req EXCEPT ![r] = Answer(req[r], status)]
    BY <1>7 DEF kGetUserById, HandsOut
  <2> QED BY <1>1, <2>1, <2>2, OthersAnswered
<1>8. CASE kUpdateUserById(r)
  <2>1. q.op # "login"
    BY <1>1, <1>2, <1>8 DEF kUpdateUserById, LoginKnown
  <2>2. \/ password' = password /\ req' = [req EXCEPT ![r] = Answer(req[r], 404)]
        \/ \E status : req' = Seen([req EXCEPT ![r] = Answer(q, status)])
    BY <1>1, <1>8 DEF kUpdateUserById
  <2>3. ASSUME NEW status, req' = Seen([req EXCEPT ![r] = Answer(q, status)])
        PROVE  LoginInv'
    <3>1. PICK a : a = Answer(q, status)
      OBVIOUS
    <3>2. a.op # "login"
      BY <2>1, <3>1 DEF Answer
    <3> QED BY <2>3, <3>1, <3>2, LoginsSee
  <2> QED BY <2>2, <2>3, SomeRefusals, LoginsRefused
<1>9. CASE kGetProfileByUsername(r)
  <2>1. q.op # "login" /\ password' = password
    BY <1>1, <1>2, <1>9 DEF kGetProfileByUsername, LoginKnown
  <2>2. \E status : req' = [req EXCEPT ![r] = Answer(req[r], status)]
    BY <1>9, Zenon DEF kGetProfileByUsername
  <2> QED BY <1>1, <2>1, <2>2, OthersAnswered
<1> QED BY <1>3, <1>4, <1>5, <1>6, <1>7, <1>8, <1>9 DEF Step

(* Who logged in showed a password that was the account's at some moment of *)
(* the request, whatever else changes it between the statement that reads   *)
(* the hash and the comparison.                                             *)
THEOREM LoginsShowAPassword == Spec => []LoginPasswordWasCurrent
<1>1. Init => LoginInv
  <2> SUFFICES ASSUME Init, NEW r \in Slots PROVE LoginKnown(req[r])
    BY DEF LoginInv
  <2>1. PICK q : q = Request(NULL, "done", NULL, NULL, NULL)
    OBVIOUS
  <2>2. LoginKnown(Answer(q, 0))
    BY SomeRefusals, RefusalKnown
  <2> QED BY <2>1, <2>2 DEF Init
<1>2. AuthInv /\ LoginInv /\ [Next]_authVars => LoginInv'
  <2> SUFFICES ASSUME AuthInv, LoginInv, [Next]_authVars PROVE LoginInv'
    OBVIOUS
  <2>1. CASE Tick \/ UNCHANGED authVars
    BY <2>1 DEF Tick, authVars, LoginInv, LoginKnown
  <2>2. ASSUME NEW r \in Slots, ExecuteFails(r)
        PROVE  LoginInv'
    BY <2>2, SomeRefusals, LoginsRefused DEF ExecuteFails
  <2> QED BY <2>1, <2>2, LoginBegins, LoginSteps DEF Next
<1>3. LoginInv => LoginPasswordWasCurrent
  BY DEF LoginInv, LoginKnown, LoginPasswordWasCurrent
<1> QED BY <1>1, <1>2, <1>3, AuthInvAlways, PTL DEF Spec

=============================================================================
