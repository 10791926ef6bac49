------------------------------ MODULE Accounts ------------------------------
(***************************************************************************)
(* The handlers of users and profiles: src/handlers/api users.cpp,         *)
(* users_login.cpp, user.cpp and profiles.cpp.  A reply's token is kept as *)
(* its subject, the id of the user it was issued to.  BCrypt salts are     *)
(* left out: Digest[p] stands for every hash of p, and passwords that      *)
(* agree on the bytes bcrypt reads share it.                               *)
(***************************************************************************)
EXTENDS Requests

CONSTANTS Passwords, Digest

ASSUME DigestAssumption == Digest \in [Passwords -> Hashes]

-----------------------------------------------------------------------------
(* Requests arrive.  A PUT names at least one field of the account.         *)

BeginPostUser(r) ==
  \E n \in UserNames, e \in Emails \cup {Oversized}, p \in Passwords :
    Begin(r, "post_user", NULL, [username |-> n, email |-> e, password |-> p],
          "kAddNewUser")

BeginLogin(r) ==
  \E e \in Emails \cup {Oversized}, p \in Passwords :
    Begin(r, "login", NULL, [email |-> e, password |-> p], "kGetUserByEmail")

BeginGetUser(r) ==
  \E u \in DOMAIN users : Begin(r, "get_user", u, NULL, "kGetUserById")

BeginPutUser(r) ==
  \E u \in DOMAIN users, n \in Opt(UserNames), e \in Opt(Emails \cup {Oversized}),
     p \in Opt(Passwords), b \in Opt(Bios) :
    /\ <<n, e, p, b>> # <<NULL, NULL, NULL, NULL>>
    /\ Begin(r, "put_user", u,
             [username |-> n, email |-> e, password |-> p, bio |-> b],
             "kUpdateUserById")

BeginProfile(r, op, callers, pc) ==
  \E u \in callers, n \in UserNames : Begin(r, op, u, [username |-> n], pc)

BeginAccountRequest(r) ==
  \/ BeginPostUser(r)
  \/ BeginLogin(r)
  \/ BeginGetUser(r)
  \/ BeginPutUser(r)
  \/ BeginProfile(r, "get_profile", Opt(DOMAIN users), "kGetProfileByUsername")
  \/ BeginProfile(r, "follow", DOMAIN users, "kGetUserByUsername")
  \/ BeginProfile(r, "unfollow", DOMAIN users, "kGetUserByUsername")

-----------------------------------------------------------------------------
(* Statements of the account handlers.                                      *)

Account(id, row) ==
  [subject |-> id, username |-> row.username, email |-> row.email, bio |-> row.bio]
Profile(row, following) ==
  [username |-> row.username, bio |-> row.bio, following |-> following]

(* A name or e-mail already taken is answered 422; other errors escape.     *)
kAddNewUser(r) ==
  LET q == req[r]
      e == add_new_user_error(q.arg.username, q.arg.email)
  IN /\ q.pc = "kAddNewUser"
     /\ add_new_user(q.arg.username, q.arg.email, Digest[q.arg.password])
     /\ Write(r, IF e = "none"
                 THEN Reply([q EXCEPT !.view =
                               [subject |-> userSeq + 1, username |-> q.arg.username,
                                email |-> q.arg.email, bio |-> NULL]], 200, e)
                 ELSE Reply(q, IF e \in {"uniq_username", "uniq_email"} THEN 422
                               ELSE 500, e))

kGetUserByEmail(r) ==
  LET q == req[r]
      rows == get_user_by_email(q.arg.email)
      id == CHOOSE i \in rows : TRUE
  IN /\ q.pc = "kGetUserByEmail"
     /\ Read(r, IF rows = {} THEN Reply(q, 403, "email")
                ELSE IF users[id].password_hash # Digest[q.arg.password]
                THEN Reply(q, 403, "password")
                ELSE Reply([q EXCEPT !.view = Account(id, users[id])], 200, "none"))

kGetUserById(r) ==
  LET q == req[r]
  IN /\ q.pc = "kGetUserById"
     /\ Read(r, IF q.user \notin DOMAIN users THEN Reply(q, 404, "none")
                ELSE Reply([q EXCEPT !.view = Account(q.user, users[q.user])],
                           200, "none"))

(* Nothing is caught here: a name or e-mail already taken is a 500.         *)
kUpdateUserById(r) ==
  LET q == req[r]
      hash == IF q.arg.password = NULL THEN NULL ELSE Digest[q.arg.password]
      e == update_user_by_id_error(q.user, q.arg.username, q.arg.email)
  IN /\ q.pc = "kUpdateUserById"
     /\ update_user_by_id(q.user, q.arg.username, q.arg.email, hash, q.arg.bio)
     /\ Write(r, IF e # "none" THEN Reply(q, 500, e)
                 ELSE IF q.user \notin DOMAIN users THEN Reply(q, 404, e)
                 ELSE Reply([q EXCEPT !.view = Account(q.user, users'[q.user])],
                            200, e))

kGetProfileByUsername(r) ==
  LET q == req[r]
      rows == get_user_by_username(q.arg.username)
      id == CHOOSE i \in rows : TRUE
  IN /\ q.pc = "kGetProfileByUsername"
     /\ Read(r, IF rows = {} THEN Reply(q, 404, "none")
                ELSE Reply([q EXCEPT !.view =
                              Profile(users[id], is_following(q.user, id))],
                           200, "none"))

(* Follow and unfollow keep the row they looked up, write by its id, and    *)
(* answer with the row they kept.                                           *)
kGetUserByUsername(r) ==
  LET q == req[r]
      rows == get_user_by_username(q.arg.username)
      id == CHOOSE i \in rows : TRUE
  IN /\ q.pc = "kGetUserByUsername"
     /\ Read(r, IF rows = {} THEN Reply(q, 404, "none")
                ELSE [q EXCEPT !.pc = IF q.op = "follow" THEN "kFollow" ELSE "kUnfollow",
                               !.id = id,
                               !.view = Profile(users[id], q.op = "follow")])

kFollow(r) ==
  LET q == req[r]
      e == follow_error(q.user, q.id)
  IN /\ q.pc = "kFollow"
     /\ follow(q.user, q.id)
     /\ Write(r, Reply(q, IF e = "none" THEN 200 ELSE 500, e))

kUnfollow(r) ==
  LET q == req[r]
  IN /\ q.pc = "kUnfollow"
     /\ unfollow(q.user, q.id)
     /\ Write(r, Reply(q, 200, "none"))

AccountStep(r) ==
  \/ kAddNewUser(r)
  \/ kGetUserByEmail(r)
  \/ kGetUserById(r)
  \/ kUpdateUserById(r)
  \/ kGetProfileByUsername(r)
  \/ kGetUserByUsername(r)
  \/ kFollow(r)
  \/ kUnfollow(r)
=============================================================================
