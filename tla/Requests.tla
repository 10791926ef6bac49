------------------------------ MODULE Requests ------------------------------
(***************************************************************************)
(* Requests in flight.  A handler runs in a coroutine of its own and gives *)
(* up control at every cluster_->Execute, so the requests of all clients   *)
(* interleave between the SQL statements of each.  A slot holds one        *)
(* request; pc names the statement (db/sql.hpp) it executes next, or       *)
(* within a statement the field of a row that is filled next.              *)
(***************************************************************************)
EXTENDS Database

CONSTANTS
  Slots,             \* the requests the server handles at a time
  Routes,            \* the handlers clients call in this instance
  SequentialClients  \* TRUE: a user waits for an answer before the next request

ASSUME SequentialAssumption == SequentialClients \in BOOLEAN

VARIABLE req

(* Routes without the auth decorator, and routes whose ParseRequest throws  *)
(* a ValidationError (configs/static_config.yaml.in and the handlers).      *)
PublicRoutes == {"post_user", "login", "get_tags"}
ValidatedRoutes == {"post_user", "login", "put_user", "post_article",
                    "put_article", "post_comment"}

(* id is what the handler keeps between statements; status and err the      *)
(* answer; view the reply's data.  Two fields only observe: wrote says the  *)
(* request changed a table, target is the row its write reached.            *)
NewRequest(op, user, arg, pc) ==
  [op |-> op, pc |-> pc, user |-> user, arg |-> arg, id |-> NULL,
   status |-> 0, err |-> "none", view |-> NULL, wrote |-> FALSE, target |-> NULL]

Idle == NewRequest(NULL, NULL, NULL, "idle")
InFlight(r) == req[r].pc \notin {"idle", "done"}
Answered(r, op, status) == req[r].op = op /\ req[r].status = status

RequestsInit == req = [r \in Slots |-> Idle]

(* A client's request reaches the handler with its token checked and its    *)
(* body parsed.                                                             *)
Begin(r, op, user, arg, pc) ==
  /\ op \in Routes
  /\ ~InFlight(r)
  /\ SequentialClients /\ user # NULL
       => \A s \in Slots : InFlight(s) => req[s].user # user
  /\ req' = [req EXCEPT ![r] = NewRequest(op, user, arg, pc)]
  /\ UNCHANGED dbVars

(* An answer.  A client that is refused learns the status and no more.      *)
Reply(q, status, err) ==
  [(IF status = 200 THEN q
    ELSE [NewRequest(q.op, NULL, NULL, q.pc) EXCEPT !.wrote = q.wrote,
                                                    !.target = q.target])
    EXCEPT !.pc = "done", !.status = status, !.err = err]

(* AuthChecker::CheckAuth and the ParseRequest of each handler answer       *)
(* before any statement runs.  A body that is not JSON is answered 400 by   *)
(* HttpHandlerJsonBase, which every handler is; a member of another JSON    *)
(* type and a number that lexical_cast refuses throw, and nothing catches   *)
(* them: 500.                                                               *)
Rejections(op) ==
  {400}
    \cup (IF op \in PublicRoutes THEN {} ELSE {401})
    \cup (IF op \in ValidatedRoutes THEN {422, 500} ELSE {})
    \cup (IF op \in {"del_comment", "get_articles", "get_feed"} THEN {500} ELSE {})

Reject(r) ==
  /\ ~InFlight(r)
  /\ \E op \in Routes : \E status \in Rejections(op) :
       req' = [req EXCEPT ![r] = Reply(Idle, status, "rejected")]
  /\ UNCHANGED dbVars

(* Execute throws and the statement has no effect: no free connection, a    *)
(* statement timeout, a lost connection.  Nothing catches it: 500.          *)
ExecuteFails(r) ==
  /\ InFlight(r)
  /\ req' = [req EXCEPT ![r] = Reply(req[r], 500, "io")]
  /\ UNCHANGED dbVars

(* A statement that reads: its answer takes the request to q.               *)
Read(r, q) == req' = [req EXCEPT ![r] = q] /\ UNCHANGED dbVars

(* A statement that writes.  Its transaction ends in the server; the answer *)
(* takes the request to q or is lost to the network timeout.  The request   *)
(* keeps its slot until the transaction has ended.  statement_timeout (500  *)
(* ms) sees to that before network_timeout (750 ms) answers; a transaction  *)
(* that began so late that it outlives the answer is one whose client       *)
(* learns of its 500 later.                                                 *)
Write(r, q) ==
  \E out \in {q, Reply(q, 500, "io")} :
    req' = [req EXCEPT ![r] = [out EXCEPT !.wrote = @ \/ tables' # tables]]
=============================================================================
