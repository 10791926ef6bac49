---------------------------- MODULE ArticleStore -----------------------------
(***************************************************************************)
(* What the stored functions that write articles promise their callers:    *)
(* each call takes effect at once, between its start and its answer, or    *)
(* not at all; and an answer that says why nothing happened was true at    *)
(* some moment of the call.  How the rows are locked is not said here.     *)
(***************************************************************************)
CONSTANTS
  Callers,
  Ids,       \* identities of articles
  Slugs, Authors, TagNames,
  NULL

VARIABLES
  store,     \* id -> [slug, author, tags]
  call       \* what each caller asked for, and the answer

storeVars == <<store, call>>

Article == [slug: Slugs, author: Authors, tags: SUBSET TagNames]

(* A call as it starts.  missing and taken become true when they have been  *)
(* true at some moment of the call: its article did not exist, another one  *)
(* had the slug it wants (new, the only slug a post names).                 *)
Call == [op: {"post", "put", "del"}, author: Authors, slug: Slugs,
         new: Slugs \cup {NULL}, tags: SUBSET TagNames, out: {"none"},
         missing: {FALSE}, taken: {FALSE}]

Pending(c) == call[c].out = "none"

StoreInit ==
  /\ store = [i \in {} |-> NULL]
  /\ call = [c \in Callers |-> [out |-> "idle"]]

-----------------------------------------------------------------------------
Target(q, s) == {i \in DOMAIN s : s[i].slug = q.slug /\ s[i].author = q.author}
Taken(q, s) ==
  /\ q.new # NULL
  /\ \E i \in DOMAIN s \ (IF q.op = "put" THEN Target(q, s) ELSE {}) : s[i].slug = q.new

(* Every pending call sees the store it is in.                              *)
Witness(calls, s) ==
  [c \in Callers |->
     IF calls[c].out # "none" THEN calls[c]
     ELSE [calls[c] EXCEPT !.missing = @ \/ Target(calls[c], s) = {},
                           !.taken = @ \/ Taken(calls[c], s)]]
Answer(c, out) ==
  /\ ~Pending(c)'
  /\ call' = Witness([call EXCEPT ![c] = [out |-> out]], store')

Start(c) ==
  /\ ~Pending(c) /\ Pending(c)'
  /\ UNCHANGED store
  /\ \E q \in Call : call' = Witness([call EXCEPT ![c] = q], store)

(* The three effects.  The answer to one that happened may still get lost.  *)
Publish(c) ==
  /\ Pending(c) /\ call[c].op = "post" /\ ~Taken(call[c], store)
  /\ \E i \in Ids \ DOMAIN store :
       store' = [j \in DOMAIN store \cup {i} |->
                   IF j # i THEN store[j]
                   ELSE [slug |-> call[c].new, author |-> call[c].author,
                         tags |-> call[c].tags]]

Rename(c) ==
  /\ Pending(c) /\ call[c].op = "put" /\ ~Taken(call[c], store)
  /\ \E i \in Target(call[c], store) :
       store' = [store EXCEPT ![i].slug = IF call[c].new = NULL THEN @ ELSE call[c].new]

Remove(c) ==
  /\ Pending(c) /\ call[c].op = "del"
  /\ \E i \in Target(call[c], store) : store' = [j \in DOMAIN store \ {i} |-> store[j]]

Effect(c) ==
  /\ Publish(c) \/ Rename(c) \/ Remove(c)
  /\ \E out \in {"ok", "failed"} : Answer(c, out)

(* No effect, for a reason the caller is told.                              *)
NoEffect(c) ==
  /\ Pending(c)
  /\ UNCHANGED store
  /\ \/ Answer(c, "failed")
     \/ call[c].op # "post" /\ call[c].missing /\ Answer(c, "no_rows")
     \/ call[c].op # "del" /\ call[c].taken /\ Answer(c, "uniq_slug")

StoreNext == \E c \in Callers : Start(c) \/ Effect(c) \/ NoEffect(c)

StoreSpec == StoreInit /\ [][StoreNext]_storeVars
=============================================================================
