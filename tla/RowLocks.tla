------------------------------ MODULE RowLocks -------------------------------
(***************************************************************************)
(* add_new_article, update_article_by_slug and delete_article_by_slug of   *)
(* db_1.sql, statement by statement.  Each call of a handler is one        *)
(* transaction at READ COMMITTED on one of the pool's connections.  What   *)
(* it wrote is invisible to the others until it commits, but it holds its  *)
(* rows and the entries of the unique indexes: whoever needs one of them   *)
(* waits for it to end.  Nothing orders these waits, so transactions wait  *)
(* for each other in circles, and only statement_timeout ends them.        *)
(*                                                                         *)
(* Titles and texts are left out (a PUT that keeps the slug still locks    *)
(* its row), and so are favorites, comments and the rows of users.         *)
(***************************************************************************)
EXTENDS Integers, Sequences, FiniteSets

CONSTANTS
  Conns,      \* connections of the pool
  Authors, Slugs, TagNames,
  TagLists,   \* the tag lists articles are posted with
  MaxSerial,  \* bound of articles_article_id_seq
  NULL

ASSUME LocksMaxSerial == MaxSerial \in Nat \ {0}
ASSUME LocksTagLists == TagLists \subseteq Seq(TagNames)
ASSUME LocksNull == NULL \notin Slugs

VARIABLES
  articles,     \* committed rows: id -> [slug, author]
  tags,         \* committed names in the table tags
  articleTags,  \* committed << article, tag >>
  articleSeq,
  tx            \* the transaction of each connection

lockVars == <<articles, tags, articleTags, articleSeq, tx>>

(* row is the article the transaction inserts, or the row it found; next    *)
(* the tag it inserts next, mine the tags it has inserted, pairs the tags   *)
(* it has joined with its article.  missed and taken only observe: at some  *)
(* moment of the call no row matched, or another row had the new slug.      *)
Begun(op, author, slug, new, list, row, pc) ==
  [op |-> op, author |-> author, slug |-> slug, new |-> new, list |-> list,
   row |-> row, pc |-> pc, next |-> 1, mine |-> {}, pairs |-> {},
   out |-> "none", missed |-> FALSE, taken |-> FALSE]

Ended(out) == [Begun("none", NULL, NULL, NULL, <<>>, NULL, "idle") EXCEPT !.out = out]

Running(c) == tx[c].pc # "idle"

Init ==
  /\ articles = [i \in {} |-> NULL]
  /\ tags = {} /\ articleTags = {} /\ articleSeq = 0
  /\ tx = [c \in Conns |-> Ended("idle")]

-----------------------------------------------------------------------------
(* Locks.                                                                   *)

Matching(rows, slug, author) ==
  {i \in DOMAIN rows : rows[i].slug = slug /\ rows[i].author = author}
HasSlug(rows, slug) == {i \in DOMAIN rows : rows[i].slug = slug}

(* The entries of uniq_slug a transaction holds: of the row it inserted, of *)
(* the old and the new version of a row it updated, of a row it deleted.    *)
HeldSlugs_Early(c) ==  \* mutant: a PUT takes its new slug before its row
  {s \in Slugs :
     \/ tx[c].op = "post" /\ tx[c].pc \in {"insert_tags", "insert_article_tags", "commit"}
          /\ s = tx[c].new
     \/ tx[c].op # "post" /\ tx[c].pc \in {"check_slug", "commit"} /\ s = tx[c].slug
     \/ tx[c].op = "put" /\ tx[c].pc \in {"lock_row", "check_slug", "commit"} /\ s = tx[c].new}
HeldSlugs(c) ==
  {s \in Slugs :
     \/ /\ tx[c].op = "post"
        /\ tx[c].pc \in {"insert_tags", "insert_article_tags", "commit"}
        /\ s = tx[c].new
     \/ tx[c].op # "post" /\ tx[c].pc \in {"check_slug", "commit"} /\ s = tx[c].slug
     \/ tx[c].op = "put" /\ tx[c].pc = "commit" /\ s = tx[c].new}

HoldsRow(c, i) == tx[c].op # "post" /\ tx[c].pc \in {"check_slug", "commit"} /\ tx[c].row = i
NextTag(c) == tx[c].list[tx[c].next]

(* One transaction waits for another to commit or roll back: for its entry  *)
(* in uniq_slug or uniq_name, or for its row.                               *)
WaitsFor_NoSlug(c, d) ==  \* mutant: index entries of others are not seen
  /\ c # d
  /\ \/ tx[c].pc = "lock_row" /\ HoldsRow(d, tx[c].row)
     \/ /\ tx[c].pc = "insert_tags" /\ tx[c].next <= Len(tx[c].list)
        /\ NextTag(c) \in tx[d].mine
WaitsFor(c, d) ==
  /\ c # d
  /\ \/ tx[c].pc \in {"insert_article", "check_slug"} /\ tx[c].new \in HeldSlugs(d)
     \/ tx[c].pc = "lock_row" /\ HoldsRow(d, tx[c].row)
     \/ /\ tx[c].pc = "insert_tags" /\ tx[c].next <= Len(tx[c].list)
        /\ NextTag(c) \in tx[d].mine
Waits(c) == \E d \in Conns : WaitsFor(c, d)

-----------------------------------------------------------------------------
(* Steps.                                                                   *)

Witnessed(txs, rows) ==
  [c \in Conns |->
     IF txs[c].pc = "idle" THEN txs[c]
     ELSE LET mine == Matching(rows, txs[c].slug, txs[c].author)
              others == HasSlug(rows, txs[c].new) \ (IF txs[c].op = "put" THEN mine ELSE {})
          IN [txs[c] EXCEPT !.missed = @ \/ mine = {}, !.taken = @ \/ others # {}]]

Goes(c, q) == tx' = Witnessed([tx EXCEPT ![c] = q], articles')
NoTable == UNCHANGED <<articles, tags, articleTags>>

(* A handler's statement reaches a free connection.  The INSERT draws its   *)
(* serial before it looks at any index.                                     *)
Start(c) ==
  /\ ~Running(c)
  /\ NoTable
  /\ \E a \in Authors, s \in Slugs :
       \/ \E list \in TagLists :
            /\ articleSeq < MaxSerial
            /\ articleSeq' = articleSeq + 1
            /\ Goes(c, Begun("post", a, s, s, list, articleSeq + 1, "insert_article"))
       \/ \E op \in {"put", "del"}, new \in Slugs \cup {NULL} :
            /\ op = "del" => new = NULL
            /\ Goes(c, Begun(op, a, s, new, <<>>, NULL, "find"))
            /\ UNCHANGED articleSeq

(* INSERT INTO articles: uniq_slug waits for whoever holds the slug, then   *)
(* refuses it if it is in the table.                                        *)
InsertArticle(c) ==
  /\ tx[c].pc = "insert_article" /\ ~Waits(c)
  /\ NoTable /\ UNCHANGED articleSeq
  /\ Goes(c, IF HasSlug(articles, tx[c].new) # {} THEN Ended("uniq_slug")
             ELSE [tx[c] EXCEPT !.pc = "insert_tags"])

(* INSERT INTO tags ... ON CONFLICT DO NOTHING: one name after the other in *)
(* the order of the list; a name another transaction has inserted is waited *)
(* for, a name in the table or inserted before is skipped.                  *)
InsertTag(c) ==
  /\ tx[c].pc = "insert_tags"
  /\ NoTable /\ UNCHANGED articleSeq
  /\ IF tx[c].next > Len(tx[c].list)
     THEN Goes(c, [tx[c] EXCEPT !.pc = "insert_article_tags"])
     ELSE /\ ~Waits(c)
          /\ Goes(c, [tx[c] EXCEPT !.next = @ + 1,
                                   !.mine = IF NextTag(c) \in tags THEN @
                                            ELSE @ \cup {NextTag(c)}])

(* INSERT INTO article_tags SELECT ...: a statement of its own, whose       *)
(* snapshot shows what has been committed by now and the transaction's own. *)
VisibleTags(c) == tags \cup tx[c].mine

InsertArticleTags(c) ==
  /\ tx[c].pc = "insert_article_tags"
  /\ NoTable /\ UNCHANGED articleSeq
  /\ Goes(c, [tx[c] EXCEPT !.pc = "commit",
                           !.pairs = VisibleTags(c) \cap
                                       {tx[c].list[k] : k \in DOMAIN tx[c].list}])

(* UPDATE and DELETE find their row in the snapshot of the statement.       *)
Find(c) ==
  /\ tx[c].pc = "find"
  /\ NoTable /\ UNCHANGED articleSeq
  /\ LET found == Matching(articles, tx[c].slug, tx[c].author) IN
       \/ found = {} /\ Goes(c, Ended("no_rows"))
       \/ \E i \in found : Goes(c, [tx[c] EXCEPT !.pc = "lock_row", !.row = i])

(* Then they lock it.  When it has changed since, its newest version is put *)
(* to the WHERE clause again: it may not match any more, or be gone.        *)
StillMatches_Stale(c) == tx[c].row \in DOMAIN articles  \* mutant: no recheck
StillMatches(c) == tx[c].row \in Matching(articles, tx[c].slug, tx[c].author)

LockRow(c) ==
  /\ tx[c].pc = "lock_row" /\ ~Waits(c)
  /\ NoTable /\ UNCHANGED articleSeq
  /\ Goes(c, IF ~StillMatches(c) THEN Ended("no_rows")
             ELSE [tx[c] EXCEPT !.pc = IF tx[c].op = "put" THEN "check_slug" ELSE "commit"])

(* The new version of the row enters uniq_slug, while the old one is held.  *)
CheckSlug(c) ==
  /\ tx[c].pc = "check_slug" /\ ~Waits(c)
  /\ NoTable /\ UNCHANGED articleSeq
  /\ Goes(c, IF HasSlug(articles, tx[c].new) \ {tx[c].row} # {} THEN Ended("uniq_slug")
             ELSE [tx[c] EXCEPT !.pc = "commit"])

PairsOf_Kept(i) == {}  \* mutant: no ON DELETE CASCADE
PairsOf(i) == {p \in articleTags : p[1] = i}

(* The end of the statement commits.  The answer may get lost.              *)
Commit(c) ==
  /\ tx[c].pc = "commit"
  /\ articles' =
       CASE tx[c].op = "post" ->
              [i \in DOMAIN articles \cup {tx[c].row} |->
                 IF i # tx[c].row THEN articles[i]
                 ELSE [slug |-> tx[c].new, author |-> tx[c].author]]
         [] tx[c].op = "put" ->
              [articles EXCEPT ![tx[c].row].slug = IF tx[c].new = NULL THEN @ ELSE tx[c].new]
         [] tx[c].op = "del" -> [i \in DOMAIN articles \ {tx[c].row} |-> articles[i]]
  /\ tags' = tags \cup tx[c].mine
  /\ articleTags' = IF tx[c].op = "del" THEN articleTags \ PairsOf(tx[c].row)
                    ELSE articleTags \cup ({tx[c].row} \X tx[c].pairs)
  /\ \E out \in {"ok", "failed"} : Goes(c, Ended(out))
  /\ UNCHANGED articleSeq

(* statement_timeout, or the connection is lost: everything is rolled back. *)
Cancel(c) ==
  /\ Running(c)
  /\ NoTable /\ UNCHANGED articleSeq
  /\ Goes(c, Ended("failed"))

Step(c) ==
  \/ InsertArticle(c)
  \/ InsertTag(c)
  \/ InsertArticleTags(c)
  \/ Find(c)
  \/ LockRow(c)
  \/ CheckSlug(c)
  \/ Commit(c)

Next == \E c \in Conns : Start(c) \/ Step(c) \/ Cancel(c)

Spec == Init /\ [][Next]_lockVars

(* A transaction that may go on does so; those that wait are woken in turn. *)
(* One that keeps waiting is cancelled by statement_timeout (500 ms), which *)
(* is shorter than deadlock_timeout: no deadlock lives to be detected.      *)
TimesOut_Never(c) == FALSE /\ Cancel(c)  \* mutant: no statement_timeout
TimesOut(c) == Waits(c) /\ Cancel(c)
Fairness == \A c \in Conns : SF_lockVars(Step(c)) /\ WF_lockVars(TimesOut(c))
FairSpec == Spec /\ Fairness

-----------------------------------------------------------------------------
(* Rows and transactions have their types.                                  *)
TypeOK ==
  /\ articleSeq \in 0..MaxSerial
  /\ DOMAIN articles \subseteq 1..articleSeq
  /\ articles \in [DOMAIN articles -> [slug: Slugs, author: Authors]]
  /\ tags \subseteq TagNames
  /\ articleTags \subseteq (DOMAIN articles) \X tags
  /\ DOMAIN tx = Conns
  /\ \A c \in Conns :
       /\ tx[c].pc \in {"idle", "insert_article", "insert_tags", "insert_article_tags",
                        "find", "lock_row", "check_slug", "commit"}
       /\ Running(c) => tx[c].op \in {"post", "put", "del"}

(* No two transactions hold a slug or a row at once, and a slug that is     *)
(* held by its next owner is in the table under no other row: what makes    *)
(* the check of uniq_slug good until the commit (db_1.sql:29).              *)
LocksExclude ==
  /\ \A c, d \in Conns : c # d =>
       /\ HeldSlugs(c) \cap HeldSlugs(d) = {}
       /\ tx[c].mine \cap tx[d].mine = {}
       /\ \A i \in DOMAIN articles : ~(HoldsRow(c, i) /\ HoldsRow(d, i))
  /\ \A c \in Conns : \A s \in HeldSlugs(c) : HasSlug(articles, s) \subseteq {tx[c].row}

(* Transactions that wait for each other in a circle.                       *)
Circle(S) == S # {} /\ \A c \in S : \E d \in S : WaitsFor(c, d)

(* Only two statements can be the cause of a deadlock: INSERTs of tags that *)
(* wait for each other's tags, or UPDATEs that enter each other's slugs.    *)
(* Whoever else waits without end waits for such a circle.  So tags in one  *)
(* order and slugs that stay would leave none (db_1.sql:161, 710).          *)
CirclesOfOneKind ==
  \A S \in SUBSET Conns : Circle(S) =>
    \E T \in SUBSET S :
      /\ Circle(T)
      /\ \/ \A c \in T : tx[c].pc = "insert_tags"
         \/ \A c \in T : tx[c].pc = "check_slug"

(* Every stored function behaves as if it ran alone at one moment of the    *)
(* call: articles appear with all their tags and a slug of their own,       *)
(* renames and deletions reach the row that bears the slug at that moment,  *)
(* a refusal names a reason that was true, and what is cancelled leaves     *)
(* nothing behind.  This is what lets Database model them as single steps.  *)
Stored == [i \in DOMAIN articles |->
             [slug |-> articles[i].slug, author |-> articles[i].author,
              tags |-> {p[2] : p \in {q \in articleTags : q[1] = i}}]]
CallOf(q) ==
  IF q.pc = "idle" THEN [out |-> q.out]
  ELSE [op |-> q.op, author |-> q.author, slug |-> q.slug, new |-> q.new,
        tags |-> {q.list[k] : k \in DOMAIN q.list},
        out |-> "none", missing |-> q.missed, taken |-> q.taken]
Calls == [c \in Conns |-> CallOf(tx[c])]

Store == INSTANCE ArticleStore WITH
  Callers <- Conns, Ids <- 1..MaxSerial, store <- Stored, call <- Calls
ImplementsStore == Store!StoreSpec

(* Every call is answered, although transactions wait for each other in     *)
(* circles (db_1.sql:161, dynamic_config_fallback.json:52).                 *)
EveryCallEnds == \A c \in Conns : Running(c) ~> ~Running(c)
=============================================================================
