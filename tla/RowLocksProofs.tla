--------------------------- MODULE RowLocksProofs ----------------------------
(***************************************************************************)
(* For any number of connections, authors, slugs and tags: transactions    *)
(* hold their rows and slugs alone, and the stored functions, statement by *)
(* statement, implement ArticleStore.  The invariant says what a           *)
(* transaction knows at each statement, and that it has taken note of      *)
(* every reason for a refusal there has been since it began.  Waits in a   *)
(* circle are of two kinds, and the one of tags needs lists that           *)
(* contradict each other.                                                  *)
(***************************************************************************)
EXTENDS RowLocks, WellFoundedInduction, TLAPS

PostPcs == {"insert_article", "insert_tags", "insert_article_tags"}
Pcs == {"idle", "find", "lock_row", "check_slug", "commit"} \cup PostPcs

Tx == [op: {"none", "post", "put", "del"}, author: Authors \cup {NULL},
       slug: Slugs \cup {NULL}, new: Slugs \cup {NULL}, list: Seq(TagNames),
       row: (1..MaxSerial) \cup {NULL}, pc: Pcs, next: Nat,
       mine: SUBSET TagNames, pairs: SUBSET TagNames,
       out: {"none", "idle", "ok", "failed", "uniq_slug", "no_rows"},
       missed: BOOLEAN, taken: BOOLEAN]

Others(q) ==
  HasSlug(articles, q.new) \ (IF q.op = "put" THEN Matching(articles, q.slug, q.author)
                              ELSE {})

(* Every reason there is at the moment has been seen.                       *)
Seen(q) ==
  q.pc # "idle" => /\ Matching(articles, q.slug, q.author) = {} => q.missed
                   /\ Others(q) # {} => q.taken

(* What a transaction knows, by its next statement.                         *)
Knows(q) ==
  /\ q.pc = "idle" => q.op = "none" /\ q.mine = {} /\ q.out # "none"
  /\ q.pc # "idle" => /\ q.op # "none" /\ q.out = "none"
                      /\ q.author \in Authors /\ q.slug \in Slugs /\ q.next # 0
  /\ q.pc \in PostPcs => q.op = "post"
  /\ q.pc \in {"find", "lock_row"} => q.op \in {"put", "del"}
  /\ q.pc = "check_slug" => q.op = "put"
  /\ q.op = "post" => /\ q.new = q.slug
                      /\ q.row \in (1..articleSeq) \ DOMAIN articles
                      /\ \A k \in DOMAIN q.list : k < q.next => q.list[k] \in tags \cup q.mine
  /\ q.pc = "insert_article_tags" => q.next > Len(q.list)
  /\ q.op = "post" /\ q.pc = "commit" => /\ q.pairs = {q.list[k] : k \in DOMAIN q.list}
                                        /\ q.pairs \subseteq tags \cup q.mine
  /\ q.op # "post" => q.mine = {} /\ q.pairs = {}
  /\ q.pc = "lock_row" =>
       q.missed \/ q.row \in Matching(articles, q.slug, q.author)
  /\ q.op # "post" /\ q.pc \in {"check_slug", "commit"} =>
       q.row \in Matching(articles, q.slug, q.author)

UniqueSlugs ==
  \A i, j \in DOMAIN articles : articles[i].slug = articles[j].slug => i = j

TablesInv ==
  /\ articleSeq \in 0..MaxSerial
  /\ DOMAIN articles \subseteq 1..articleSeq
  /\ articles \in [DOMAIN articles -> [slug: Slugs, author: Authors]]
  /\ tags \subseteq TagNames
  /\ articleTags \subseteq (DOMAIN articles) \X tags
  /\ UniqueSlugs

(* The serials of two inserts differ.                                       *)
OwnSerials ==
  \A c, d \in Conns : c # d /\ tx[c].op = "post" /\ tx[d].op = "post"
    => tx[c].row # tx[d].row

LocksInv ==
  /\ TablesInv
  /\ tx \in [Conns -> Tx]
  /\ \A c \in Conns : Knows(tx[c]) /\ Seen(tx[c])
  /\ OwnSerials
  /\ LocksExclude

-----------------------------------------------------------------------------
(* One transaction moves, and all that run look around.                     *)

Same(p, q) ==
  /\ p.op = q.op /\ p.author = q.author /\ p.slug = q.slug /\ p.new = q.new
  /\ p.list = q.list /\ p.row = q.row /\ p.pc = q.pc /\ p.next = q.next
  /\ p.mine = q.mine /\ p.pairs = q.pairs /\ p.out = q.out

Looks(p, q, rows) ==
  IF q.pc = "idle" THEN p = q
  ELSE LET mine == Matching(rows, q.slug, q.author)
           others == HasSlug(rows, q.new) \ (IF q.op = "put" THEN mine ELSE {})
       IN p = [q EXCEPT !.missed = @ \/ mine = {}, !.taken = @ \/ others # {}]

LEMMA LookAround ==
  ASSUME NEW rows, NEW q \in Tx, NEW p, Looks(p, q, rows)
  PROVE  /\ p \in Tx /\ Same(p, q)
         /\ q.missed => p.missed
         /\ q.pc # "idle" =>
              /\ Matching(rows, q.slug, q.author) = {} => p.missed
              /\ HasSlug(rows, q.new) \ (IF q.op = "put" THEN Matching(rows, q.slug, q.author)
                                          ELSE {}) # {} => p.taken
<1>1. CASE q.pc = "idle"
  BY <1>1 DEF Looks, Same
<1>2. CASE q.pc # "idle"
  <2>1. PICK m, t : /\ m \in BOOLEAN /\ t \in BOOLEAN
                    /\ p = [q EXCEPT !.missed = m, !.taken = t]
                    /\ q.missed => m
                    /\ Matching(rows, q.slug, q.author) = {} => m
                    /\ HasSlug(rows, q.new) \ (IF q.op = "put"
                          THEN Matching(rows, q.slug, q.author) ELSE {}) # {} => t
    <3>1. q.missed \in BOOLEAN /\ q.taken \in BOOLEAN
      BY DEF Tx
    <3> WITNESS (q.missed \/ Matching(rows, q.slug, q.author) = {}),
                (q.taken \/ HasSlug(rows, q.new) \ (IF q.op = "put"
                              THEN Matching(rows, q.slug, q.author) ELSE {}) # {})
    <3> QED BY <1>2, <3>1, Zenon DEF Looks
  <2> QED BY <1>2, <2>1 DEF Tx, Same
<1> QED BY <1>1, <1>2

LEMMA GoesOn ==
  ASSUME tx \in [Conns -> Tx], NEW c \in Conns, NEW q \in Tx, Goes(c, q)
  PROVE  /\ tx' \in [Conns -> Tx]
         /\ Same(tx'[c], q) /\ (q.missed => tx'[c].missed)
         /\ \A d \in Conns \ {c} : Same(tx'[d], tx[d]) /\ (tx[d].missed => tx'[d].missed)
         /\ \A d \in Conns : Seen(tx[d])'
<1> DEFINE next == [tx EXCEPT ![c] = q]
<1>1. next \in [Conns -> Tx] /\ next[c] = q /\ \A d \in Conns \ {c} : next[d] = tx[d]
  OBVIOUS
<1>2. tx' = Witnessed(next, articles')
  BY DEF Goes
<1> HIDE DEF next
<1>3. DOMAIN tx' = Conns /\ tx' = [d \in Conns |-> tx'[d]]
      /\ \A d \in Conns : Looks(tx'[d], next[d], articles')
  BY <1>2 DEF Witnessed, Looks
<1>4. ASSUME NEW d \in Conns
      PROVE  /\ tx'[d] \in Tx /\ Same(tx'[d], next[d])
             /\ next[d].missed => tx'[d].missed
             /\ Seen(tx[d])'
  <2>1. PICK p : p = tx'[d]
    OBVIOUS
  <2>2. PICK rows : rows = articles'
    OBVIOUS
  <2>3. PICK o : o = next[d]
    OBVIOUS
  <2>4. o \in Tx /\ Looks(p, o, rows)
    BY <1>1, <1>3, <2>1, <2>2, <2>3
  <2>5. /\ p \in Tx /\ Same(p, o) /\ (o.missed => p.missed)
        /\ o.pc # "idle" =>
              /\ Matching(rows, o.slug, o.author) = {} => p.missed
              /\ HasSlug(rows, o.new) \ (IF o.op = "put" THEN Matching(rows, o.slug, o.author)
                                          ELSE {}) # {} => p.taken
    BY <2>4, LookAround
  <2>6. Seen(tx[d])'
    BY <2>1, <2>2, <2>5 DEF Seen, Others, Same
  <2> QED BY <2>1, <2>3, <2>5, <2>6
<1> QED BY <1>1, <1>3, <1>4

-----------------------------------------------------------------------------
(* Steps that leave the tables alone.                                       *)

(* Knowledge outlives steps of others that grow tags and serials.           *)
LEMMA KnowsStays ==
  ASSUME NEW d \in Conns, Knows(tx[d]), Same(tx'[d], tx[d]), tx[d].missed => tx'[d].missed,
         articles' = articles, tags \subseteq tags', articleSeq \in Nat,
         articleSeq' \in Nat, articleSeq <= articleSeq'
  PROVE  Knows(tx[d])'
  BY DEF Knows, Same

LEMMA HeldStays ==
  ASSUME NEW d \in Conns, Same(tx'[d], tx[d])
  PROVE  HeldSlugs(d)' = HeldSlugs(d) /\ \A i : HoldsRow(d, i)' = HoldsRow(d, i)
  BY DEF HeldSlugs, HoldsRow, Same

(* What a transaction has to make sure of when it goes on: it knows what    *)
(* its next statement relies on, and shares nothing it takes.               *)
Alone(c) ==
  /\ \A d \in Conns \ {c} :
       /\ HeldSlugs(c)' \cap HeldSlugs(d) = {}
       /\ tx'[c].mine \cap tx[d].mine = {}
       /\ \A i \in DOMAIN articles : ~(HoldsRow(c, i)' /\ HoldsRow(d, i))
       /\ tx'[c].op = "post" /\ tx[d].op = "post" => tx'[c].row # tx[d].row
  /\ \A s \in HeldSlugs(c)' : HasSlug(articles, s) \subseteq {tx'[c].row}

LEMMA QuietStep ==
  ASSUME LocksInv, NEW c \in Conns, NEW q \in Tx, Goes(c, q), NoTable,
         articleSeq' \in 0..MaxSerial, articleSeq <= articleSeq',
         Same(tx'[c], q) /\ (q.missed => tx'[c].missed) => Knows(tx[c])' /\ Alone(c)
  PROVE  LocksInv'
<1>1. /\ tx' \in [Conns -> Tx]
      /\ Same(tx'[c], q) /\ (q.missed => tx'[c].missed)
      /\ \A d \in Conns \ {c} : Same(tx'[d], tx[d]) /\ (tx[d].missed => tx'[d].missed)
      /\ \A d \in Conns : Seen(tx[d])'
  BY GoesOn DEF LocksInv
<1>2. Knows(tx[c])' /\ Alone(c)
  BY <1>1
<1>3. /\ articleSeq \in Nat /\ articleSeq' \in Nat
      /\ articles' = articles /\ tags' = tags /\ articleTags' = articleTags
  BY LocksMaxSerial DEF LocksInv, TablesInv, NoTable
<1>4. TablesInv'
  BY <1>3 DEF LocksInv, TablesInv, UniqueSlugs
<1>5. \A d \in Conns : Knows(tx[d])'
  BY <1>1, <1>2, <1>3, KnowsStays DEF LocksInv
<1>6. \A d \in Conns \ {c} : HeldSlugs(d)' = HeldSlugs(d) /\ \A i : HoldsRow(d, i)' = HoldsRow(d, i)
  BY <1>1, HeldStays
<1>7. OwnSerials'
  <2> SUFFICES ASSUME NEW d \in Conns, NEW e \in Conns, d # e,
                      tx'[d].op = "post", tx'[e].op = "post"
               PROVE  tx'[d].row # tx'[e].row
    BY DEF OwnSerials
  <2>1. CASE d # c /\ e # c
    BY <1>1, <2>1 DEF LocksInv, OwnSerials, Same
  <2>2. CASE d = c \/ e = c
    BY <1>1, <1>2, <2>2 DEF Alone, Same
  <2> QED BY <2>1, <2>2
<1>8. LocksExclude'
  <2>1. ASSUME NEW d \in Conns, NEW e \in Conns, d # e
        PROVE  /\ HeldSlugs(d)' \cap HeldSlugs(e)' = {}
               /\ tx'[d].mine \cap tx'[e].mine = {}
               /\ \A i \in DOMAIN articles : ~(HoldsRow(d, i)' /\ HoldsRow(e, i)')
    <3>1. CASE d # c /\ e # c
      BY <1>1, <1>6, <2>1, <3>1 DEF LocksInv, LocksExclude, Same
    <3>2. CASE d = c
      BY <1>1, <1>2, <1>6, <2>1, <3>2 DEF Alone, Same
    <3>3. CASE e = c
      BY <1>1, <1>2, <1>6, <2>1, <3>3 DEF Alone, Same
    <3> QED BY <3>1, <3>2, <3>3
  <2>2. ASSUME NEW d \in Conns, NEW s \in HeldSlugs(d)'
        PROVE  HasSlug(articles, s) \subseteq {tx'[d].row}
    <3>1. CASE d = c
      BY <1>2, <2>2, <3>1 DEF Alone
    <3>2. CASE d # c
      BY <1>1, <1>6, <2>2, <3>2 DEF LocksInv, LocksExclude, Same
    <3> QED BY <3>1, <3>2
  <2>3. \A s : HasSlug(articles', s) = HasSlug(articles, s)
    BY <1>3
  <2> QED BY <1>3, <2>1, <2>2, <2>3 DEF LocksExclude
<1> QED BY <1>1, <1>4, <1>5, <1>7, <1>8 DEF LocksInv

-----------------------------------------------------------------------------
(* The end of a transaction without effect.                                 *)

LEMMA EndedFields ==
  ASSUME NEW out \in {"idle", "ok", "failed", "uniq_slug", "no_rows"}
  PROVE  /\ Ended(out) \in Tx
         /\ Ended(out).op = "none" /\ Ended(out).pc = "idle" /\ Ended(out).mine = {}
         /\ Ended(out).pairs = {} /\ Ended(out).out = out
<1> DEFINE b == Begun("none", NULL, NULL, NULL, <<>>, NULL, "idle")
<1>1. <<>> \in Seq(TagNames) /\ 1 \in Nat
  OBVIOUS
<1>2. /\ b \in Tx
      /\ b.op = "none" /\ b.pc = "idle" /\ b.mine = {} /\ b.pairs = {}
  BY <1>1 DEF Begun, Tx, Pcs
<1>3. Ended(out) = [b EXCEPT !.out = out]
  BY DEF Ended
<1> HIDE DEF b
<1> QED BY <1>2, <1>3 DEF Tx

LEMMA EndsQuietly ==
  ASSUME LocksInv, NEW c \in Conns, NoTable, articleSeq' = articleSeq,
         NEW out \in {"failed", "uniq_slug", "no_rows"}, Goes(c, Ended(out))
  PROVE  LocksInv'
<1> DEFINE q == Ended(out)
<1>1. /\ q \in Tx /\ q.op = "none" /\ q.pc = "idle" /\ q.mine = {} /\ q.pairs = {}
      /\ q.out = out
  BY EndedFields
<1> HIDE DEF q
<1>2. ASSUME Same(tx'[c], q)
      PROVE  Knows(tx[c])' /\ Alone(c)
  <2>1. HeldSlugs(c)' = {} /\ \A i : HoldsRow(c, i)' = FALSE
    BY <1>1, <1>2 DEF HeldSlugs, HoldsRow, Same
  <2>2. Knows(tx[c])'
    BY <1>1, <1>2 DEF Knows, Same, PostPcs
  <2>3. Alone(c)
    BY <1>1, <1>2, <2>1 DEF Alone, Same
  <2> QED BY <2>2, <2>3
<1>3. articleSeq \in 0..MaxSerial /\ articleSeq <= articleSeq'
  BY LocksMaxSerial DEF LocksInv, TablesInv
<1>4. Goes(c, q)
  BY DEF q
<1> QED BY <1>1, <1>2, <1>3, <1>4, QuietStep

LEMMA CancelInv ==
  ASSUME LocksInv, NEW c \in Conns, Cancel(c)
  PROVE  LocksInv'
  BY EndsQuietly DEF Cancel

-----------------------------------------------------------------------------
(* Statements.                                                              *)

LEMMA StartInv ==
  ASSUME LocksInv, NEW c \in Conns, Start(c)
  PROVE  LocksInv'
<1>1. /\ articleSeq \in 0..MaxSerial /\ MaxSerial \in Nat /\ <<>> \in Seq(TagNames)
      /\ DOMAIN articles \subseteq 1..articleSeq
      /\ articles' = articles /\ tags' = tags /\ NoTable
  BY LocksMaxSerial DEF LocksInv, TablesInv, Start, NoTable
<1>2. ASSUME NEW a \in Authors, NEW s \in Slugs, NEW list \in TagLists,
             articleSeq < MaxSerial, articleSeq' = articleSeq + 1,
             Goes(c, Begun("post", a, s, s, list, articleSeq + 1, "insert_article"))
      PROVE  LocksInv'
  <2>1. PICK n : n = articleSeq + 1
    OBVIOUS
  <2>2. n \in 1..MaxSerial /\ n \in (1..articleSeq') \ DOMAIN articles
    BY <1>1, <1>2, <2>1
  <2>3. list \in Seq(TagNames)
    BY LocksTagLists
  <2>4. PICK q : q = Begun("post", a, s, s, list, n, "insert_article")
    OBVIOUS
  <2>5. /\ q \in Tx /\ q.op = "post" /\ q.author = a /\ q.slug = s /\ q.new = s
        /\ q.list = list /\ q.row = n /\ q.pc = "insert_article" /\ q.next = 1
        /\ q.mine = {} /\ q.out = "none"
    BY <2>2, <2>3, <2>4 DEF Begun, Tx, Pcs, PostPcs
  <2>6. ASSUME Same(tx'[c], q)
        PROVE  Knows(tx[c])' /\ Alone(c)
    <3>1. HeldSlugs(c)' = {} /\ \A i : HoldsRow(c, i)' = FALSE
      BY <2>5, <2>6 DEF HeldSlugs, HoldsRow, Same
    <3>2. \A k \in DOMAIN list : ~(k < 1)
      BY <2>3
    <3>3. Knows(tx[c])'
      BY <1>1, <2>2, <2>5, <2>6, <3>2 DEF Knows, Same, PostPcs
    <3>4. \A d \in Conns : tx[d].op = "post" => tx[d].row # n
      BY <1>1, <2>1 DEF LocksInv, Knows
    <3>5. Alone(c)
      BY <2>5, <2>6, <3>1, <3>4 DEF Alone, Same
    <3> QED BY <3>3, <3>5
  <2>7. Goes(c, q) /\ articleSeq' \in 0..MaxSerial /\ articleSeq <= articleSeq'
    BY <1>1, <1>2, <2>1, <2>4
  <2> QED BY <1>1, <2>5, <2>6, <2>7, QuietStep
<1>3. ASSUME NEW a \in Authors, NEW s \in Slugs, NEW op \in {"put", "del"},
             NEW new \in Slugs \cup {NULL}, articleSeq' = articleSeq,
             Goes(c, Begun(op, a, s, new, <<>>, NULL, "find"))
      PROVE  LocksInv'
  <2>1. PICK q : q = Begun(op, a, s, new, <<>>, NULL, "find")
    OBVIOUS
  <2>2. /\ q \in Tx /\ q.op = op /\ q.author = a /\ q.slug = s /\ q.pc = "find"
        /\ q.mine = {} /\ q.pairs = {} /\ q.out = "none" /\ q.next = 1
    BY <1>1, <2>1 DEF Begun, Tx, Pcs
  <2>3. ASSUME Same(tx'[c], q)
        PROVE  Knows(tx[c])' /\ Alone(c)
    <3>1. HeldSlugs(c)' = {} /\ \A i : HoldsRow(c, i)' = FALSE
      BY <2>2, <2>3 DEF HeldSlugs, HoldsRow, Same
    <3>2. Knows(tx[c])'
      BY <2>2, <2>3 DEF Knows, Same, PostPcs
    <3>3. Alone(c)
      BY <2>2, <2>3, <3>1 DEF Alone, Same
    <3> QED BY <3>2, <3>3
  <2>4. Goes(c, q) /\ articleSeq' \in 0..MaxSerial /\ articleSeq <= articleSeq'
    BY <1>1, <1>3, <2>1
  <2> QED BY <1>1, <2>2, <2>3, <2>4, QuietStep
<1> QED BY <1>2, <1>3 DEF Start

(* The fields of a transaction that goes on to another statement.           *)
LEMMA NextStatement ==
  ASSUME NEW p \in Tx, NEW pc \in Pcs
  PROVE  LET q == [p EXCEPT !.pc = pc]
         IN  /\ q \in Tx /\ q.pc = pc
             /\ q.op = p.op /\ q.author = p.author /\ q.slug = p.slug /\ q.new = p.new
             /\ q.list = p.list /\ q.row = p.row /\ q.next = p.next
             /\ q.mine = p.mine /\ q.pairs = p.pairs /\ q.out = p.out
             /\ q.missed = p.missed /\ q.taken = p.taken
  BY DEF Tx

LEMMA InsertArticleInv ==
  ASSUME LocksInv, NEW c \in Conns, InsertArticle(c)
  PROVE  LocksInv'
<1>1. /\ NoTable /\ articleSeq' = articleSeq /\ tx[c].pc = "insert_article"
      /\ ~Waits(c)
  BY DEF InsertArticle
<1>2. CASE HasSlug(articles, tx[c].new) # {}
  BY <1>1, <1>2, EndsQuietly DEF InsertArticle
<1>3. CASE HasSlug(articles, tx[c].new) = {}
  <2>1. PICK p : p = tx[c]
    OBVIOUS
  <2>2. p \in Tx /\ Knows(p) /\ Knows(tx[c])
    BY <2>1 DEF LocksInv
  <2>3. PICK q : q = [p EXCEPT !.pc = "insert_tags"]
    OBVIOUS
  <2>4. "insert_tags" \in Pcs
    BY DEF Pcs, PostPcs
  <2>5. /\ q \in Tx /\ q.pc = "insert_tags"
        /\ q.op = p.op /\ q.author = p.author /\ q.slug = p.slug /\ q.new = p.new
        /\ q.list = p.list /\ q.row = p.row /\ q.next = p.next
        /\ q.mine = p.mine /\ q.out = p.out
    BY <2>2, <2>3, <2>4, NextStatement
  <2>6. p.op = "post" /\ p.pc = "insert_article"
    BY <1>1, <2>1, <2>2 DEF Knows, PostPcs
  <2>7. ASSUME Same(tx'[c], q)
        PROVE  Knows(tx[c])' /\ Alone(c)
    <3>1. HeldSlugs(c)' = {p.new} \cap Slugs /\ \A i : HoldsRow(c, i)' = FALSE
      BY <2>5, <2>6, <2>7 DEF HeldSlugs, HoldsRow, Same
    <3>2. Knows(tx[c])'
      BY <1>1, <2>2, <2>5, <2>6, <2>7 DEF Knows, Same, PostPcs, NoTable
    <3>3. \A d \in Conns \ {c} : /\ p.new \notin HeldSlugs(d)
                                 /\ p.mine \cap tx[d].mine = {}
                                 /\ tx[d].op = "post" => p.row # tx[d].row
      BY <1>1, <2>1, <2>6 DEF Waits, WaitsFor, LocksInv, LocksExclude, OwnSerials
    <3>4. Alone(c)
      BY <1>3, <2>1, <2>5, <2>7, <3>1, <3>3 DEF Alone, Same
    <3> QED BY <3>2, <3>4
  <2>8. Goes(c, q)
    BY <1>3, <2>1, <2>3 DEF InsertArticle
  <2>9. articleSeq' \in 0..MaxSerial /\ articleSeq <= articleSeq'
    BY <1>1, LocksMaxSerial DEF LocksInv, TablesInv
  <2> QED BY <1>1, <2>5, <2>7, <2>8, <2>9, QuietStep
<1> QED BY <1>2, <1>3

LEMMA InsertTagInv ==
  ASSUME LocksInv, NEW c \in Conns, InsertTag(c)
  PROVE  LocksInv'
<1>1. /\ NoTable /\ articleSeq' = articleSeq /\ tx[c].pc = "insert_tags"
  BY DEF InsertTag
<1>2. PICK p : p = tx[c]
  OBVIOUS
<1>3. p \in Tx /\ Knows(p) /\ Knows(tx[c]) /\ p.op = "post" /\ p.pc = "insert_tags"
  BY <1>1, <1>2 DEF LocksInv, Knows, PostPcs
<1>4. PICK q : q = IF p.next > Len(p.list) THEN [p EXCEPT !.pc = "insert_article_tags"]
                   ELSE [p EXCEPT !.next = @ + 1,
                                  !.mine = IF NextTag(c) \in tags THEN @
                                           ELSE @ \cup {NextTag(c)}]
  OBVIOUS
<1>5. Goes(c, q) /\ (p.next <= Len(p.list) => ~Waits(c))
  BY <1>2, <1>3, <1>4 DEF InsertTag, Tx
<1>6. p.list \in Seq(TagNames) /\ p.next \in Nat /\ p.mine \subseteq TagNames
  BY <1>3 DEF Tx
<1>7. /\ q \in Tx
      /\ q.op = p.op /\ q.author = p.author /\ q.slug = p.slug /\ q.new = p.new
      /\ q.list = p.list /\ q.row = p.row /\ q.out = p.out
      /\ q.pc \in {"insert_tags", "insert_article_tags"}
      /\ q.pc = "insert_article_tags" => q.next > Len(q.list)
      /\ q.next # 0
      /\ \A k \in DOMAIN q.list : k < q.next => q.list[k] \in tags \cup q.mine
      /\ \A d \in Conns \ {c} : q.mine \cap tx[d].mine = {}
  <2>1. CASE p.next > Len(p.list)
    <3>1. "insert_article_tags" \in Pcs
      BY DEF Pcs, PostPcs
    <3>2. q = [p EXCEPT !.pc = "insert_article_tags"]
      BY <1>4, <2>1
    <3>3. \A d \in Conns \ {c} : p.mine \cap tx[d].mine = {}
      BY <1>2 DEF LocksInv, LocksExclude
    <3>4. \A k \in DOMAIN p.list : k < p.next => p.list[k] \in tags \cup p.mine
      BY <1>3 DEF Knows
    <3> QED BY <1>3, <2>1, <3>1, <3>2, <3>3, <3>4, NextStatement
  <2>2. CASE ~(p.next > Len(p.list))
    <3>1. PICK t : t = NextTag(c)
      OBVIOUS
    <3>2. p.next \in DOMAIN p.list
      <4>1. p.next # 0
        BY <1>3 DEF Knows
      <4>2. p.next \in 1..Len(p.list) /\ DOMAIN p.list = 1..Len(p.list)
        BY <1>6, <2>2, <4>1
      <4> QED BY <4>2
    <3>3. t = p.list[p.next] /\ t \in TagNames
      BY <1>2, <1>6, <3>1, <3>2 DEF NextTag
    <3>4. PICK m : m = IF t \in tags THEN p.mine ELSE p.mine \cup {t}
      OBVIOUS
    <3>5. m \subseteq TagNames /\ p.mine \subseteq m /\ t \in tags \cup m
      BY <1>6, <3>3, <3>4
    <3>6. q = [p EXCEPT !.next = p.next + 1, !.mine = m]
      BY <1>4, <2>2, <3>1, <3>4
    <3>7. /\ q \in Tx
          /\ q.op = p.op /\ q.author = p.author /\ q.slug = p.slug /\ q.new = p.new
          /\ q.list = p.list /\ q.row = p.row /\ q.out = p.out /\ q.pc = p.pc
          /\ q.next = p.next + 1 /\ q.mine = m
      <4>1. PICK n : n = p.next + 1
        OBVIOUS
      <4>2. n \in Nat /\ n # 0 /\ m \in SUBSET TagNames
        BY <1>6, <3>5, <4>1
      <4>3. q = [p EXCEPT !.next = n, !.mine = m]
        BY <3>6, <4>1
      <4>4. p \in Tx /\ n \in Nat /\ m \subseteq TagNames
        BY <1>3, <4>2
      <4>5. /\ q \in Tx /\ q.next = n /\ q.mine = m
            /\ q.op = p.op /\ q.author = p.author /\ q.slug = p.slug /\ q.new = p.new
            /\ q.list = p.list /\ q.row = p.row /\ q.pc = p.pc /\ q.out = p.out
        BY <4>3, <4>4 DEF Tx
      <4> QED BY <4>1, <4>5
    <3>8. \A k \in DOMAIN p.list : k < p.next + 1 => p.list[k] \in tags \cup m
      <4> SUFFICES ASSUME NEW k \in DOMAIN p.list, k < p.next + 1
                   PROVE  p.list[k] \in tags \cup m
        OBVIOUS
      <4>1. CASE k = p.next
        BY <3>3, <3>5, <4>1
      <4>2. CASE k < p.next
        <5>1. p.list[k] \in tags \cup p.mine
          BY <1>3, <4>2 DEF Knows
        <5> QED BY <3>5, <5>1
      <4>3. k \in Nat
        BY <1>6
      <4> QED BY <1>6, <4>1, <4>2, <4>3
    <3>9. ASSUME NEW d \in Conns \ {c}
          PROVE  m \cap tx[d].mine = {}
      <4>1. p.mine \cap tx[d].mine = {}
        BY <1>2 DEF LocksInv, LocksExclude
      <4>2. t \notin tx[d].mine
        BY <1>1, <1>2, <1>5, <1>6, <2>2, <3>1 DEF Waits, WaitsFor
      <4> QED BY <3>4, <4>1, <4>2
    <3>10. p.next + 1 # 0
      BY <1>6
    <3> QED BY <1>3, <3>7, <3>8, <3>9, <3>10
  <2> QED BY <2>1, <2>2
<1>8. ASSUME Same(tx'[c], q)
      PROVE  Knows(tx[c])' /\ Alone(c)
  <2>1. HeldSlugs(c)' = HeldSlugs(c) /\ \A i : HoldsRow(c, i)' = FALSE
    BY <1>2, <1>3, <1>7, <1>8 DEF HeldSlugs, HoldsRow, Same
  <2>2. Knows(tx[c])'
    BY <1>1, <1>3, <1>7, <1>8 DEF Knows, Same, PostPcs, NoTable
  <2>3. \A d \in Conns \ {c} : /\ HeldSlugs(c) \cap HeldSlugs(d) = {}
                               /\ tx[d].op = "post" => p.row # tx[d].row
    BY <1>2, <1>3 DEF LocksInv, LocksExclude, OwnSerials
  <2>4. \A s \in HeldSlugs(c) : HasSlug(articles, s) \subseteq {p.row}
    BY <1>2 DEF LocksInv, LocksExclude
  <2>5. Alone(c)
    BY <1>7, <1>8, <2>1, <2>3, <2>4 DEF Alone, Same
  <2> QED BY <2>2, <2>5
<1>9. articleSeq' \in 0..MaxSerial /\ articleSeq <= articleSeq'
  BY <1>1, LocksMaxSerial DEF LocksInv, TablesInv
<1> QED BY <1>1, <1>5, <1>7, <1>8, <1>9, QuietStep

LEMMA InsertArticleTagsInv ==
  ASSUME LocksInv, NEW c \in Conns, InsertArticleTags(c)
  PROVE  LocksInv'
<1>1. /\ NoTable /\ articleSeq' = articleSeq /\ tx[c].pc = "insert_article_tags"
  BY DEF InsertArticleTags
<1>2. PICK p : p = tx[c]
  OBVIOUS
<1>3. p \in Tx /\ Knows(p) /\ Knows(tx[c]) /\ p.op = "post" /\ p.pc = "insert_article_tags"
  BY <1>1, <1>2 DEF LocksInv, Knows, PostPcs
<1>4. PICK q : q = [p EXCEPT !.pc = "commit",
                             !.pairs = VisibleTags(c) \cap {p.list[k] : k \in DOMAIN p.list}]
  OBVIOUS
<1>5. Goes(c, q)
  BY <1>2, <1>4 DEF InsertArticleTags
<1>6. p.list \in Seq(TagNames) /\ p.next \in Nat /\ p.next > Len(p.list)
  BY <1>3 DEF Tx, Knows
<1>7. VisibleTags(c) \cap {p.list[k] : k \in DOMAIN p.list} = {p.list[k] : k \in DOMAIN p.list}
  <2>1. \A k \in DOMAIN p.list : k < p.next
    BY <1>6
  <2>2. \A k \in DOMAIN p.list : p.list[k] \in VisibleTags(c)
    BY <1>2, <1>3, <2>1 DEF Knows, VisibleTags
  <2> QED BY <2>2
<1>8. PICK names : names = {p.list[k] : k \in DOMAIN p.list}
  OBVIOUS
<1>9. names \in SUBSET TagNames /\ names \subseteq tags \cup p.mine
  BY <1>2, <1>6, <1>7, <1>8 DEF VisibleTags
<1>10. /\ q \in Tx
       /\ q.op = p.op /\ q.author = p.author /\ q.slug = p.slug /\ q.new = p.new
       /\ q.list = p.list /\ q.row = p.row /\ q.out = p.out /\ q.next = p.next
       /\ q.mine = p.mine /\ q.pc = "commit" /\ q.pairs = names
  <2>1. q = [p EXCEPT !.pc = "commit", !.pairs = names]
    BY <1>4, <1>7, <1>8
  <2> QED BY <1>3, <1>9, <2>1 DEF Tx, Pcs
<1>11. ASSUME Same(tx'[c], q)
       PROVE  Knows(tx[c])' /\ Alone(c)
  <2>1. HeldSlugs(c)' = HeldSlugs(c) /\ \A i : HoldsRow(c, i)' = FALSE
    BY <1>2, <1>3, <1>10, <1>11 DEF HeldSlugs, HoldsRow, Same
  <2>2. Knows(tx[c])'
    BY <1>1, <1>3, <1>8, <1>9, <1>10, <1>11 DEF Knows, Same, PostPcs, NoTable
  <2>3. \A d \in Conns \ {c} : /\ HeldSlugs(c) \cap HeldSlugs(d) = {}
                               /\ p.mine \cap tx[d].mine = {}
                               /\ tx[d].op = "post" => p.row # tx[d].row
    BY <1>2, <1>3 DEF LocksInv, LocksExclude, OwnSerials
  <2>4. \A s \in HeldSlugs(c) : HasSlug(articles, s) \subseteq {p.row}
    BY <1>2 DEF LocksInv, LocksExclude
  <2>5. Alone(c)
    BY <1>10, <1>11, <2>1, <2>3, <2>4 DEF Alone, Same
  <2> QED BY <2>2, <2>5
<1>12. articleSeq' \in 0..MaxSerial /\ articleSeq <= articleSeq'
  BY <1>1, LocksMaxSerial DEF LocksInv, TablesInv
<1> QED BY <1>1, <1>5, <1>10, <1>11, <1>12, QuietStep

LEMMA FindInv ==
  ASSUME LocksInv, NEW c \in Conns, Find(c)
  PROVE  LocksInv'
<1>1. /\ NoTable /\ articleSeq' = articleSeq /\ tx[c].pc = "find"
  BY DEF Find
<1>2. CASE Goes(c, Ended("no_rows"))
  BY <1>1, <1>2, EndsQuietly
<1>3. ASSUME NEW i \in Matching(articles, tx[c].slug, tx[c].author),
             Goes(c, [tx[c] EXCEPT !.pc = "lock_row", !.row = i])
      PROVE  LocksInv'
  <2>1. PICK p : p = tx[c]
    OBVIOUS
  <2>2. p \in Tx /\ Knows(p) /\ p.op \in {"put", "del"} /\ p.pc = "find"
    BY <1>1, <2>1 DEF LocksInv, Knows
  <2>3. PICK q : q = [p EXCEPT !.pc = "lock_row", !.row = i]
    OBVIOUS
  <2>4. i \in 1..MaxSerial /\ i \in Matching(articles, p.slug, p.author)
    BY <1>3, <2>1, LocksMaxSerial DEF LocksInv, TablesInv, Matching
  <2>5. /\ q \in Tx /\ q.pc = "lock_row" /\ q.row = i
        /\ q.op = p.op /\ q.author = p.author /\ q.slug = p.slug /\ q.new = p.new
        /\ q.list = p.list /\ q.next = p.next
        /\ q.mine = p.mine /\ q.pairs = p.pairs /\ q.out = p.out
    BY <2>2, <2>3, <2>4 DEF Tx, Pcs
  <2>6. ASSUME Same(tx'[c], q)
        PROVE  Knows(tx[c])' /\ Alone(c)
    <3>1. HeldSlugs(c)' = {} /\ \A j : HoldsRow(c, j)' = FALSE
      BY <2>2, <2>5, <2>6 DEF HeldSlugs, HoldsRow, Same
    <3>2. Knows(tx[c])'
      BY <1>1, <2>2, <2>4, <2>5, <2>6 DEF Knows, Same, PostPcs, NoTable
    <3>3. tx'[c].op # "post" /\ tx'[c].mine = {}
      BY <2>2, <2>5, <2>6 DEF Knows, Same
    <3>4. Alone(c)
      BY <3>1, <3>3 DEF Alone
    <3> QED BY <3>2, <3>4
  <2>7. Goes(c, q)
    BY <1>3, <2>1, <2>3
  <2>8. articleSeq' \in 0..MaxSerial /\ articleSeq <= articleSeq'
    BY <1>1, LocksMaxSerial DEF LocksInv, TablesInv
  <2> QED BY <1>1, <2>5, <2>6, <2>7, <2>8, QuietStep
<1> QED BY <1>2, <1>3 DEF Find

(* A slug that is held is that of its holder's row, or of no row: its new   *)
(* one.                                                                     *)
LEMMA HeldIsOwn ==
  ASSUME LocksInv, NEW d \in Conns, NEW i \in DOMAIN articles,
         articles[i].slug \in HeldSlugs(d)
  PROVE  tx[d].row = i /\ tx[d].op # "post" /\ tx[d].pc \in {"check_slug", "commit"}
<1>1. HasSlug(articles, articles[i].slug) \subseteq {tx[d].row}
  BY DEF LocksInv, LocksExclude
<1>2. tx[d].row = i
  BY <1>1 DEF HasSlug
<1>3. tx[d].op # "post"
  BY <1>2 DEF LocksInv, Knows
<1> QED BY <1>2, <1>3 DEF HeldSlugs

LEMMA LockRowInv ==
  ASSUME LocksInv, NEW c \in Conns, LockRow(c)
  PROVE  LocksInv'
<1>1. /\ NoTable /\ articleSeq' = articleSeq /\ tx[c].pc = "lock_row"
      /\ ~Waits(c)
  BY DEF LockRow
<1>2. CASE ~StillMatches(c)
  BY <1>1, <1>2, EndsQuietly DEF LockRow
<1>3. CASE StillMatches(c)
  <2>1. PICK p : p = tx[c]
    OBVIOUS
  <2>2. p \in Tx /\ Knows(p) /\ p.op \in {"put", "del"} /\ p.pc = "lock_row"
    BY <1>1, <2>1 DEF LocksInv, Knows
  <2>3. PICK pc : pc = IF p.op = "put" THEN "check_slug" ELSE "commit"
    OBVIOUS
  <2>4. PICK q : q = [p EXCEPT !.pc = pc]
    OBVIOUS
  <2>5. pc \in Pcs /\ pc \in {"check_slug", "commit"} /\ (pc = "commit" => p.op = "del")
        /\ (pc = "check_slug" => p.op = "put")
    BY <2>2, <2>3 DEF Pcs
  <2>6. /\ q \in Tx /\ q.pc = pc /\ q.row = p.row
        /\ q.op = p.op /\ q.author = p.author /\ q.slug = p.slug /\ q.new = p.new
        /\ q.list = p.list /\ q.next = p.next
        /\ q.mine = p.mine /\ q.pairs = p.pairs /\ q.out = p.out
    BY <2>2, <2>4, <2>5, NextStatement
  <2>7. /\ p.row \in Matching(articles, p.slug, p.author)
        /\ p.row \in DOMAIN articles /\ articles[p.row].slug = p.slug
        /\ p.slug \in Slugs
    BY <1>3, <2>1, <2>2 DEF StillMatches, Matching, Knows
  <2>8. \A d \in Conns \ {c} : ~HoldsRow(d, p.row) /\ p.slug \notin HeldSlugs(d)
    <3> SUFFICES ASSUME NEW d \in Conns \ {c}
                 PROVE  ~HoldsRow(d, p.row) /\ p.slug \notin HeldSlugs(d)
      OBVIOUS
    <3>1. ~HoldsRow(d, p.row)
      BY <1>1, <2>1 DEF Waits, WaitsFor
    <3>2. p.slug \notin HeldSlugs(d)
      BY <2>7, <3>1, HeldIsOwn DEF HoldsRow
    <3> QED BY <3>1, <3>2
  <2>9. ASSUME Same(tx'[c], q)
        PROVE  Knows(tx[c])' /\ Alone(c)
    <3>1. HeldSlugs(c)' = {p.slug} /\ \A j : HoldsRow(c, j)' => j = p.row
      BY <2>2, <2>5, <2>6, <2>7, <2>9 DEF HeldSlugs, HoldsRow, Same
    <3>2. Knows(tx[c])'
      BY <1>1, <2>2, <2>5, <2>6, <2>7, <2>9 DEF Knows, Same, PostPcs, NoTable
    <3>3. tx'[c].op # "post" /\ tx'[c].mine = {} /\ tx'[c].row = p.row
      BY <2>2, <2>6, <2>9 DEF Knows, Same
    <3>4. HasSlug(articles, p.slug) \subseteq {p.row}
      BY <2>7 DEF HasSlug, LocksInv, TablesInv, UniqueSlugs
    <3>5. Alone(c)
      BY <2>8, <3>1, <3>3, <3>4 DEF Alone
    <3> QED BY <3>2, <3>5
  <2>10. Goes(c, q)
    BY <1>3, <2>1, <2>3, <2>4 DEF LockRow
  <2>11. articleSeq' \in 0..MaxSerial /\ articleSeq <= articleSeq'
    BY <1>1, LocksMaxSerial DEF LocksInv, TablesInv
  <2> QED BY <1>1, <2>6, <2>9, <2>10, <2>11, QuietStep
<1> QED BY <1>2, <1>3

LEMMA CheckSlugInv ==
  ASSUME LocksInv, NEW c \in Conns, CheckSlug(c)
  PROVE  LocksInv'
<1>1. /\ NoTable /\ articleSeq' = articleSeq /\ tx[c].pc = "check_slug"
      /\ ~Waits(c)
  BY DEF CheckSlug
<1>2. CASE HasSlug(articles, tx[c].new) \ {tx[c].row} # {}
  BY <1>1, <1>2, EndsQuietly DEF CheckSlug
<1>3. CASE HasSlug(articles, tx[c].new) \ {tx[c].row} = {}
  <2>1. PICK p : p = tx[c]
    OBVIOUS
  <2>2. p \in Tx /\ Knows(p) /\ p.op = "put" /\ p.pc = "check_slug"
    BY <1>1, <2>1 DEF LocksInv, Knows
  <2>3. PICK q : q = [p EXCEPT !.pc = "commit"]
    OBVIOUS
  <2>4. "commit" \in Pcs
    BY DEF Pcs
  <2>5. /\ q \in Tx /\ q.pc = "commit" /\ q.row = p.row
        /\ q.op = p.op /\ q.author = p.author /\ q.slug = p.slug /\ q.new = p.new
        /\ q.list = p.list /\ q.next = p.next
        /\ q.mine = p.mine /\ q.pairs = p.pairs /\ q.out = p.out
    BY <2>2, <2>3, <2>4, NextStatement
  <2>6. ASSUME Same(tx'[c], q)
        PROVE  Knows(tx[c])' /\ Alone(c)
    <3>1. /\ HeldSlugs(c)' = HeldSlugs(c) \cup ({p.new} \cap Slugs)
          /\ \A j : HoldsRow(c, j)' = HoldsRow(c, j)
      BY <2>1, <2>2, <2>5, <2>6 DEF HeldSlugs, HoldsRow, Same
    <3>2. Knows(tx[c])'
      BY <1>1, <2>2, <2>5, <2>6 DEF Knows, Same, PostPcs, NoTable
    <3>3. tx'[c].op # "post" /\ tx'[c].mine = {} /\ tx'[c].row = p.row
      BY <2>2, <2>5, <2>6 DEF Knows, Same
    <3>4. ASSUME NEW d \in Conns \ {c}
          PROVE  /\ HeldSlugs(c) \cap HeldSlugs(d) = {} /\ p.new \notin HeldSlugs(d)
                 /\ \A i \in DOMAIN articles : ~(HoldsRow(c, i) /\ HoldsRow(d, i))
      BY <1>1, <2>1 DEF Waits, WaitsFor, LocksInv, LocksExclude
    <3>5. /\ HasSlug(articles, p.new) \subseteq {p.row}
          /\ \A s \in HeldSlugs(c) : HasSlug(articles, s) \subseteq {p.row}
      BY <1>3, <2>1 DEF LocksInv, LocksExclude
    <3>6. Alone(c)
      BY <3>1, <3>3, <3>4, <3>5 DEF Alone
    <3> QED BY <3>2, <3>6
  <2>7. Goes(c, q)
    BY <1>3, <2>1, <2>3 DEF CheckSlug
  <2>8. articleSeq' \in 0..MaxSerial /\ articleSeq <= articleSeq'
    BY <1>1, LocksMaxSerial DEF LocksInv, TablesInv
  <2> QED BY <1>1, <2>5, <2>6, <2>7, <2>8, QuietStep
<1> QED BY <1>2, <1>3

(* What a commit does to the rows: it touches its own only, and that bears  *)
(* a slug it holds, before and after.                                       *)
Posted(q) ==
  [i \in DOMAIN articles \cup {q.row} |->
     IF i # q.row THEN articles[i] ELSE [slug |-> q.new, author |-> q.author]]
Renamed(q) == [articles EXCEPT ![q.row].slug = IF q.new = NULL THEN @ ELSE q.new]
Deleted(q) == [i \in DOMAIN articles \ {q.row} |-> articles[i]]

LEMMA CommitCases ==
  ASSUME NEW c \in Conns, Commit(c)
  PROVE  /\ tx[c].op = "post" => articles' = Posted(tx[c])
         /\ tx[c].op = "put" => articles' = Renamed(tx[c])
         /\ tx[c].op = "del" => articles' = Deleted(tx[c])
<1>1. CASE tx[c].op = "post"
  BY <1>1, Zenon DEF Commit, Posted
<1>2. CASE tx[c].op = "put"
  BY <1>2, Zenon DEF Commit, Renamed
<1>3. CASE tx[c].op = "del"
  BY <1>3, Zenon DEF Commit, Deleted
<1> QED BY <1>1, <1>2, <1>3

LEMMA CommitRows ==
  ASSUME LocksInv, NEW c \in Conns, Commit(c), NEW r, r = tx[c].row
  PROVE  /\ tx[c].op \in {"post", "put", "del"}
         /\ tx[c].op = "post" => r \in (1..articleSeq) \ DOMAIN articles
         /\ tx[c].op # "post" => r \in DOMAIN articles /\ articles[r].slug \in HeldSlugs(c)
                                 /\ HoldsRow(c, r)
         /\ DOMAIN articles' = IF tx[c].op = "post" THEN DOMAIN articles \cup {r}
                                ELSE IF tx[c].op = "put" THEN DOMAIN articles
                                ELSE DOMAIN articles \ {r}
         /\ \A i \in DOMAIN articles \ {r} : i \in DOMAIN articles' /\ articles'[i] = articles[i]
         /\ r \in DOMAIN articles' => /\ articles'[r] \in [slug: Slugs, author: Authors]
                                      /\ articles'[r].slug \in HeldSlugs(c)
         /\ articles' = [i \in DOMAIN articles' |-> articles'[i]]
<1>1. PICK p : p = tx[c]
  OBVIOUS
<1>2. /\ p \in Tx /\ Knows(p) /\ p.pc = "commit" /\ p.op \in {"post", "put", "del"}
      /\ p.author \in Authors /\ p.slug \in Slugs
  BY <1>1 DEF LocksInv, Commit, Knows, Tx
<1>3. /\ p.op = "post" => articles' = Posted(p)
      /\ p.op = "put" => articles' = Renamed(p)
      /\ p.op = "del" => articles' = Deleted(p)
  BY <1>1, CommitCases
<1>4. articles \in [DOMAIN articles -> [slug: Slugs, author: Authors]]
  BY DEF LocksInv, TablesInv
<1>5. CASE p.op = "post"
  <2>1. r \in (1..articleSeq) \ DOMAIN articles /\ p.new \in Slugs
    BY <1>1, <1>2, <1>5 DEF Knows
  <2>2. p.new \in HeldSlugs(c)
    BY <1>1, <1>2, <1>5, <2>1 DEF HeldSlugs
  <2>3. PICK rows : rows = articles'
    OBVIOUS
  <2>4. rows = [i \in DOMAIN articles \cup {r} |->
                  IF i # r THEN articles[i] ELSE [slug |-> p.new, author |-> p.author]]
    BY <1>1, <1>3, <1>5, <2>3 DEF Posted
  <2>5. /\ DOMAIN rows = DOMAIN articles \cup {r}
        /\ rows[r] = [slug |-> p.new, author |-> p.author]
        /\ \A i \in DOMAIN articles \ {r} : rows[i] = articles[i]
        /\ rows = [i \in DOMAIN rows |-> rows[i]]
    BY <2>4
  <2> QED BY <1>1, <1>2, <1>5, <2>1, <2>2, <2>3, <2>5
<1>6. CASE p.op # "post"
  <2>1. r \in Matching(articles, p.slug, p.author)
    BY <1>1, <1>2, <1>6 DEF Knows
  <2>2. r \in DOMAIN articles /\ articles[r].slug = p.slug
    BY <2>1 DEF Matching
  <2>3. HoldsRow(c, r) /\ p.slug \in HeldSlugs(c)
    BY <1>1, <1>2, <1>6 DEF HeldSlugs, HoldsRow
  <2>4. PICK rows : rows = articles'
    OBVIOUS
  <2>5. CASE p.op = "put"
    <3>1. PICK s : s = IF p.new = NULL THEN articles[r].slug ELSE p.new
      OBVIOUS
    <3>2. s \in Slugs /\ s \in HeldSlugs(c)
      BY <1>1, <1>2, <2>2, <2>3, <2>5, <3>1 DEF HeldSlugs, Tx
    <3>3. rows = [articles EXCEPT ![r].slug = s]
      BY <1>1, <1>3, <2>4, <2>5, <3>1 DEF Renamed
    <3>4. /\ DOMAIN rows = DOMAIN articles
          /\ rows[r] = [articles[r] EXCEPT !.slug = s]
          /\ \A i \in DOMAIN articles \ {r} : rows[i] = articles[i]
          /\ rows = [i \in DOMAIN rows |-> rows[i]]
      BY <1>4, <2>2, <3>3
    <3>5. rows[r] \in [slug: Slugs, author: Authors] /\ rows[r].slug = s
      BY <1>4, <2>2, <3>2, <3>4
    <3> QED BY <1>1, <2>2, <2>3, <2>4, <2>5, <3>2, <3>4, <3>5
  <2>6. CASE p.op = "del"
    <3>1. rows = [i \in DOMAIN articles \ {r} |-> articles[i]]
      BY <1>1, <1>3, <2>4, <2>6 DEF Deleted
    <3>2. /\ DOMAIN rows = DOMAIN articles \ {r}
          /\ \A i \in DOMAIN articles \ {r} : rows[i] = articles[i]
          /\ rows = [i \in DOMAIN rows |-> rows[i]]
      BY <3>1
    <3> QED BY <1>1, <2>2, <2>3, <2>4, <2>6, <3>2
  <2> QED BY <1>2, <1>6, <2>5, <2>6
<1> QED BY <1>5, <1>6

LEMMA CommitTouchesOwn ==
  ASSUME LocksInv, NEW c \in Conns, Commit(c), NEW r, r = tx[c].row
  PROVE  /\ tx[c].op \in {"post", "put", "del"}
         /\ tx[c].op = "post" => r \in (1..articleSeq) \ DOMAIN articles
         /\ tx[c].op # "post" => r \in DOMAIN articles /\ articles[r].slug \in HeldSlugs(c)
                                 /\ HoldsRow(c, r)
         /\ DOMAIN articles' \subseteq DOMAIN articles \cup {r}
         /\ tx[c].op # "post" => DOMAIN articles' \subseteq DOMAIN articles
         /\ \A i \in DOMAIN articles \ {r} : i \in DOMAIN articles' /\ articles'[i] = articles[i]
         /\ \A i \in DOMAIN articles' : i # r => i \in DOMAIN articles /\ articles'[i] = articles[i]
         /\ r \in DOMAIN articles' => articles'[r].slug \in HeldSlugs(c)
<1>1. /\ tx[c].op \in {"post", "put", "del"}
      /\ tx[c].op = "post" => r \in (1..articleSeq) \ DOMAIN articles
      /\ tx[c].op # "post" => r \in DOMAIN articles /\ articles[r].slug \in HeldSlugs(c)
                              /\ HoldsRow(c, r)
      /\ DOMAIN articles' = IF tx[c].op = "post" THEN DOMAIN articles \cup {r}
                             ELSE IF tx[c].op = "put" THEN DOMAIN articles
                             ELSE DOMAIN articles \ {r}
      /\ \A i \in DOMAIN articles \ {r} : i \in DOMAIN articles' /\ articles'[i] = articles[i]
      /\ r \in DOMAIN articles' => articles'[r].slug \in HeldSlugs(c)
  BY CommitRows
<1> QED BY <1>1

LEMMA CommitTables ==
  ASSUME LocksInv, NEW c \in Conns, Commit(c)
  PROVE  TablesInv'
<1>1. PICK r : r = tx[c].row
  OBVIOUS
<1>2. /\ tx[c].op \in {"post", "put", "del"}
      /\ tx[c].op = "post" => r \in (1..articleSeq) \ DOMAIN articles
      /\ tx[c].op # "post" => r \in DOMAIN articles
      /\ DOMAIN articles' = IF tx[c].op = "post" THEN DOMAIN articles \cup {r}
                             ELSE IF tx[c].op = "put" THEN DOMAIN articles
                             ELSE DOMAIN articles \ {r}
      /\ \A i \in DOMAIN articles \ {r} : i \in DOMAIN articles' /\ articles'[i] = articles[i]
      /\ r \in DOMAIN articles' => /\ articles'[r] \in [slug: Slugs, author: Authors]
                                   /\ articles'[r].slug \in HeldSlugs(c)
      /\ articles' = [i \in DOMAIN articles' |-> articles'[i]]
  BY <1>1, CommitRows
<1>3. /\ DOMAIN articles \subseteq 1..articleSeq
      /\ articles \in [DOMAIN articles -> [slug: Slugs, author: Authors]]
      /\ tags \subseteq TagNames /\ articleTags \subseteq (DOMAIN articles) \X tags
      /\ UniqueSlugs /\ tx[c] \in Tx /\ Knows(tx[c]) /\ tx[c].pc = "commit"
  BY DEF LocksInv, TablesInv, Commit
<1>4. /\ articleSeq' = articleSeq /\ tags' = tags \cup tx[c].mine
      /\ articleTags' = IF tx[c].op = "del" THEN articleTags \ PairsOf(r)
                        ELSE articleTags \cup ({r} \X tx[c].pairs)
  BY <1>1 DEF Commit
<1>5. DOMAIN articles' \subseteq 1..articleSeq /\ tags' \subseteq TagNames
  BY <1>2, <1>3, <1>4 DEF Tx
<1>6. articles' \in [DOMAIN articles' -> [slug: Slugs, author: Authors]]
  <2>1. \A i \in DOMAIN articles' : articles'[i] \in [slug: Slugs, author: Authors]
    <3> SUFFICES ASSUME NEW i \in DOMAIN articles'
                 PROVE  articles'[i] \in [slug: Slugs, author: Authors]
      OBVIOUS
    <3>1. CASE i = r
      BY <1>2, <3>1
    <3>2. CASE i # r
      BY <1>2, <1>3, <3>2
    <3> QED BY <3>1, <3>2
  <2> QED BY <1>2, <2>1
<1>7. articleTags' \subseteq (DOMAIN articles') \X tags'
  <2>1. CASE tx[c].op = "del"
    BY <1>2, <1>3, <1>4, <2>1 DEF PairsOf
  <2>2. CASE tx[c].op # "del"
    <3>1. r \in DOMAIN articles' /\ DOMAIN articles \subseteq DOMAIN articles'
      BY <1>2, <2>2
    <3>2. tx[c].pairs \subseteq tags'
      BY <1>2, <1>3, <1>4 DEF Knows
    <3> QED BY <1>3, <1>4, <2>2, <3>1, <3>2
  <2> QED BY <2>1, <2>2
<1>8. UniqueSlugs'
  <2> SUFFICES ASSUME NEW i \in DOMAIN articles', NEW j \in DOMAIN articles',
                      articles'[i].slug = articles'[j].slug
               PROVE  i = j
    BY DEF UniqueSlugs
  <2>1. \A s \in HeldSlugs(c) : HasSlug(articles, s) \subseteq {r}
    BY <1>1 DEF LocksInv, LocksExclude
  <2>2. \A k \in DOMAIN articles' : k # r => k \in DOMAIN articles /\ articles'[k] = articles[k]
    BY <1>2
  <2>3. \A k \in DOMAIN articles' : k # r => articles'[k].slug \notin HeldSlugs(c)
    BY <2>1, <2>2 DEF HasSlug
  <2>4. CASE i # r /\ j # r
    BY <1>3, <2>2, <2>4 DEF UniqueSlugs
  <2>5. CASE i = r \/ j = r
    BY <1>2, <2>3, <2>5
  <2> QED BY <2>4, <2>5
<1>9. articleSeq' \in 0..MaxSerial
  BY <1>4 DEF LocksInv, TablesInv
<1> QED BY <1>4, <1>5, <1>6, <1>7, <1>8, <1>9 DEF TablesInv

(* A transaction that found its row before another one renamed it away or   *)
(* deleted it has seen that no row matches.                                 *)
LEMMA CommitKnows ==
  ASSUME LocksInv, NEW c \in Conns, Commit(c), NEW d \in Conns, d # c,
         Same(tx'[d], tx[d]), tx[d].missed => tx'[d].missed, Seen(tx[d])'
  PROVE  Knows(tx[d])'
<1>1. PICK r : r = tx[c].row
  OBVIOUS
<1>2. /\ tx[c].op \in {"post", "put", "del"}
      /\ tx[c].op = "post" => r \in (1..articleSeq) \ DOMAIN articles
      /\ tx[c].op # "post" => r \in DOMAIN articles /\ articles[r].slug \in HeldSlugs(c)
                              /\ HoldsRow(c, r)
      /\ DOMAIN articles' \subseteq DOMAIN articles \cup {r}
      /\ tx[c].op # "post" => DOMAIN articles' \subseteq DOMAIN articles
      /\ \A i \in DOMAIN articles \ {r} : i \in DOMAIN articles' /\ articles'[i] = articles[i]
  BY <1>1, CommitTouchesOwn
<1>3. articleSeq' = articleSeq /\ tags \subseteq tags'
  BY DEF Commit
<1>4. PICK p : p = tx[d]
  OBVIOUS
<1>5. PICK q : q = tx'[d]
  OBVIOUS
<1>6. Knows(p) /\ p \in Tx /\ Same(q, p) /\ (p.missed => q.missed)
  BY <1>4, <1>5 DEF LocksInv
<1>7. p.op = "post" => p.row \in (1..articleSeq) \ DOMAIN articles'
  <2>1. p.op = "post" /\ tx[c].op = "post" => p.row # r
    BY <1>1, <1>4 DEF LocksInv, OwnSerials
  <2> QED BY <1>2, <1>6, <2>1 DEF Knows
<1>8. ASSUME p.row \in Matching(articles, p.slug, p.author), p.row # r
      PROVE  p.row \in Matching(articles', p.slug, p.author)
  BY <1>2, <1>8 DEF Matching
<1>9. ASSUME p.row \in Matching(articles, p.slug, p.author), p.row = r
      PROVE  \/ p.row \in Matching(articles', p.slug, p.author)
             \/ Matching(articles', p.slug, p.author) = {}
  <2>1. \A i \in DOMAIN articles : articles[i].slug = p.slug => i = r
    BY <1>9 DEF Matching, LocksInv, TablesInv, UniqueSlugs
  <2>2. Matching(articles', p.slug, p.author) \subseteq {r}
    BY <1>2, <2>1 DEF Matching
  <2> QED BY <1>9, <2>2
<1>10. p.pc = "lock_row" => q.missed \/ p.row \in Matching(articles', p.slug, p.author)
  <2> SUFFICES ASSUME p.pc = "lock_row", p.row \in Matching(articles, p.slug, p.author)
               PROVE  q.missed \/ p.row \in Matching(articles', p.slug, p.author)
    BY <1>6 DEF Knows
  <2>1. Matching(articles', p.slug, p.author) = {} => q.missed
    BY <1>5, <1>6 DEF Seen, Same
  <2> QED BY <1>8, <1>9, <2>1
<1>11. p.op # "post" /\ p.pc \in {"check_slug", "commit"} =>
         p.row \in Matching(articles', p.slug, p.author)
  <2> SUFFICES ASSUME p.op # "post", p.pc \in {"check_slug", "commit"}
               PROVE  p.row \in Matching(articles', p.slug, p.author)
    OBVIOUS
  <2>1. p.row \in Matching(articles, p.slug, p.author)
    BY <1>6 DEF Knows
  <2>2. p.row \in DOMAIN articles /\ HoldsRow(d, p.row)
    BY <1>4, <2>1 DEF Matching, HoldsRow
  <2>3. p.row # r
    BY <1>2, <2>2 DEF LocksInv, LocksExclude
  <2> QED BY <1>8, <2>1, <2>3
<1> QED BY <1>3, <1>5, <1>6, <1>7, <1>10, <1>11 DEF Knows, Same

LEMMA CommitInv ==
  ASSUME LocksInv, NEW c \in Conns, Commit(c)
  PROVE  LocksInv'
<1>1. PICK out \in {"ok", "failed"} : Goes(c, Ended(out))
  BY DEF Commit
<1>2. PICK q : q = Ended(out)
  OBVIOUS
<1>3. /\ q \in Tx /\ q.op = "none" /\ q.pc = "idle" /\ q.mine = {} /\ q.pairs = {}
      /\ q.out = out
  BY <1>2, EndedFields
<1>4. /\ tx' \in [Conns -> Tx]
      /\ Same(tx'[c], q)
      /\ \A d \in Conns \ {c} : Same(tx'[d], tx[d]) /\ (tx[d].missed => tx'[d].missed)
      /\ \A d \in Conns : Seen(tx[d])'
  BY <1>1, <1>2, <1>3, GoesOn DEF LocksInv
<1>5. tx'[c].op = "none" /\ HeldSlugs(c)' = {} /\ \A i : HoldsRow(c, i)' = FALSE
      /\ tx'[c].mine = {}
  BY <1>3, <1>4 DEF HeldSlugs, HoldsRow, Same
<1>6. \A d \in Conns : Knows(tx[d])'
  <2>1. Knows(tx[c])'
    BY <1>3, <1>4 DEF Knows, Same, PostPcs
  <2> QED BY <1>4, <2>1, CommitKnows
<1>7. \A d \in Conns \ {c} : HeldSlugs(d)' = HeldSlugs(d) /\ \A i : HoldsRow(d, i)' = HoldsRow(d, i)
  BY <1>4, HeldStays
<1>8. OwnSerials'
  BY <1>4, <1>5 DEF LocksInv, OwnSerials, Same
<1>9. LocksExclude'
  <2>1. ASSUME NEW d \in Conns, NEW e \in Conns, d # e
        PROVE  /\ HeldSlugs(d)' \cap HeldSlugs(e)' = {}
               /\ tx'[d].mine \cap tx'[e].mine = {}
               /\ \A i : ~(HoldsRow(d, i)' /\ HoldsRow(e, i)')
    <3>1. CASE d = c \/ e = c
      BY <1>5, <3>1
    <3>2. CASE d # c /\ e # c
      <4>1. HeldSlugs(d) \cap HeldSlugs(e) = {} /\ tx[d].mine \cap tx[e].mine = {}
        BY <2>1 DEF LocksInv, LocksExclude
      <4>2. \A i : HoldsRow(d, i) => i \in DOMAIN articles
        BY DEF LocksInv, HoldsRow, Knows, Matching
      <4>3. \A i : ~(HoldsRow(d, i) /\ HoldsRow(e, i))
        BY <2>1, <4>2 DEF LocksInv, LocksExclude
      <4> QED BY <1>4, <1>7, <3>2, <4>1, <4>3 DEF Same
    <3> QED BY <3>1, <3>2
  <2>2. ASSUME NEW d \in Conns, NEW s \in HeldSlugs(d)'
        PROVE  HasSlug(articles', s) \subseteq {tx'[d].row}
    <3>1. d # c /\ s \in HeldSlugs(d) /\ tx'[d].row = tx[d].row
      BY <1>4, <1>5, <1>7, <2>2 DEF Same
    <3>2. HasSlug(articles, s) \subseteq {tx[d].row} /\ s \notin HeldSlugs(c)
      BY <3>1 DEF LocksInv, LocksExclude
    <3>3. PICK r : r = tx[c].row
      OBVIOUS
    <3>4. /\ \A i \in DOMAIN articles' :
               i # r => i \in DOMAIN articles /\ articles'[i] = articles[i]
          /\ r \in DOMAIN articles' => articles'[r].slug \in HeldSlugs(c)
      BY <3>3, CommitTouchesOwn
    <3> QED BY <3>1, <3>2, <3>4 DEF HasSlug
  <2> QED BY <2>1, <2>2 DEF LocksExclude
<1> QED BY <1>4, <1>6, <1>8, <1>9, CommitTables DEF LocksInv

-----------------------------------------------------------------------------
LEMMA LocksInvInit ==
  ASSUME Init
  PROVE  LocksInv
<1>1. PICK e : e = Ended("idle")
  OBVIOUS
<1>2. e \in Tx /\ e.op = "none" /\ e.pc = "idle" /\ e.mine = {} /\ e.pairs = {}
      /\ e.out = "idle"
  BY <1>1, EndedFields
<1>3. tx \in [Conns -> Tx] /\ \A c \in Conns : tx[c] = e
  BY <1>1, <1>2 DEF Init
<1>4. articles = [i \in {} |-> NULL] /\ tags = {} /\ articleTags = {} /\ articleSeq = 0
  BY DEF Init
<1>5. TablesInv
  BY <1>4, LocksMaxSerial DEF TablesInv, UniqueSlugs
<1>6. \A c \in Conns : Knows(tx[c]) /\ Seen(tx[c])
  BY <1>2, <1>3 DEF Knows, Seen, PostPcs
<1>7. \A c \in Conns : HeldSlugs(c) = {} /\ \A i : HoldsRow(c, i) = FALSE
  BY <1>2, <1>3 DEF HeldSlugs, HoldsRow
<1> QED BY <1>2, <1>3, <1>5, <1>6, <1>7 DEF LocksInv, OwnSerials, LocksExclude

LEMMA LocksInvNext ==
  ASSUME LocksInv, [Next]_lockVars
  PROVE  LocksInv'
<1>1. CASE Next
  <2>1. PICK c \in Conns : Start(c) \/ Step(c) \/ Cancel(c)
    BY <1>1 DEF Next
  <2> QED BY <2>1, StartInv, InsertArticleInv, InsertTagInv, InsertArticleTagsInv, FindInv,
             LockRowInv, CheckSlugInv, CommitInv, CancelInv DEF Step
<1>2. CASE UNCHANGED lockVars
  <2>1. articles' = articles /\ tags' = tags /\ articleTags' = articleTags
        /\ articleSeq' = articleSeq /\ tx' = tx
    BY <1>2 DEF lockVars
  <2>2. TablesInv'
    BY <2>1 DEF LocksInv, TablesInv, UniqueSlugs
  <2>3. \A c \in Conns : Knows(tx[c])'
    BY <2>1 DEF LocksInv, Knows
  <2>4. \A c \in Conns : Seen(tx[c])'
    BY <2>1 DEF LocksInv, Seen, Others
  <2>5. OwnSerials'
    BY <2>1 DEF LocksInv, OwnSerials
  <2>6. LocksExclude'
    BY <2>1 DEF LocksInv, LocksExclude, HeldSlugs, HoldsRow
  <2> QED BY <2>1, <2>2, <2>3, <2>4, <2>5, <2>6 DEF LocksInv
<1> QED BY <1>1, <1>2

LEMMA LocksAlways == Spec => []LocksInv
  BY LocksInvInit, LocksInvNext, PTL DEF Spec

(* Rows and transactions keep their types, and the pairs of articles and    *)
(* tags refer to both: TypeOK of RowLocks.                                  *)
THEOREM LocksTypes == Spec => []TypeOK
<1>1. LocksInv => TypeOK
  BY DEF LocksInv, TablesInv, TypeOK, Tx, Knows, Running, Pcs, PostPcs
<1> QED BY <1>1, LocksAlways, PTL

(* Whatever runs next to each other, no two transactions of the stored      *)
(* functions hold a slug, a row or a new tag at once, and a slug that is    *)
(* held is in the table at most under its holder's row.                     *)
THEOREM LocksAlwaysExclude == Spec => []LocksExclude
<1>1. LocksInv => LocksExclude
  BY DEF LocksInv
<1> QED BY <1>1, LocksAlways, PTL

-----------------------------------------------------------------------------
(* Refinement: the calls ArticleStore sees.                                 *)

(* What a call witnesses in the tables is what it witnesses in the store.   *)
LEMMA WitnessesStore ==
  ASSUME NEW rows, NEW s, NEW o \in Tx, o.slug \in Slugs, o.author \in Authors,
         DOMAIN s = DOMAIN rows,
         \A i \in DOMAIN rows : /\ s[i].slug = rows[i].slug /\ s[i].author = rows[i].author
                                /\ rows[i].slug \in Slugs,
         NEW v, v.op = o.op, v.slug = o.slug, v.author = o.author, v.new = o.new
  PROVE  /\ Store!Target(v, s) = Matching(rows, o.slug, o.author)
         /\ Store!Taken(v, s) <=>
              HasSlug(rows, o.new) \ (IF o.op = "put" THEN Matching(rows, o.slug, o.author)
                                      ELSE {}) # {}
<1>1. Store!Target(v, s) = Matching(rows, o.slug, o.author)
  BY DEF Store!Target, Matching
<1>2. HasSlug(rows, o.new) = {i \in DOMAIN s : s[i].slug = v.new}
  BY DEF HasSlug
<1>3. o.new = NULL => HasSlug(rows, o.new) = {}
  BY LocksNull DEF HasSlug
<1>4. CASE o.op = "put"
  BY <1>1, <1>2, <1>3, <1>4 DEF Store!Taken
<1>5. CASE o.op # "put"
  BY <1>1, <1>2, <1>3, <1>5 DEF Store!Taken
<1> QED BY <1>1, <1>4, <1>5

Witnessing(v, s) ==
  IF v.out # "none" THEN v
  ELSE [v EXCEPT !.missing = @ \/ Store!Target(v, s) = {}, !.taken = @ \/ Store!Taken(v, s)]

LEMMA LooksAsCall ==
  ASSUME NEW rows, NEW s, NEW o \in Tx, NEW p, Looks(p, o, rows),
         o.pc = "idle" => o.out # "none",
         o.pc # "idle" => o.slug \in Slugs /\ o.author \in Authors,
         DOMAIN s = DOMAIN rows,
         \A i \in DOMAIN rows : /\ s[i].slug = rows[i].slug /\ s[i].author = rows[i].author
                                /\ rows[i].slug \in Slugs
  PROVE  CallOf(p) = Witnessing(CallOf(o), s)
<1>1. CASE o.pc = "idle"
  <2>1. p = o /\ CallOf(o).out # "none"
    BY <1>1 DEF Looks, CallOf
  <2> QED BY <2>1, Zenon DEF Witnessing
<1>2. CASE o.pc # "idle"
  <2>1. PICK v : v = CallOf(o)
    OBVIOUS
  <2>2. PICK names : names = {o.list[k] : k \in DOMAIN o.list}
    OBVIOUS
  <2>3. v = [op |-> o.op, author |-> o.author, slug |-> o.slug, new |-> o.new, tags |-> names,
             out |-> "none", missing |-> o.missed, taken |-> o.taken]
    BY <1>2, <2>1, <2>2 DEF CallOf
  <2>4. PICK m : m = (o.missed \/ Matching(rows, o.slug, o.author) = {})
    OBVIOUS
  <2>5. PICK t : t = (o.taken \/ HasSlug(rows, o.new) \ (IF o.op = "put"
                        THEN Matching(rows, o.slug, o.author) ELSE {}) # {})
    OBVIOUS
  <2>6. /\ Store!Target(v, s) = Matching(rows, o.slug, o.author)
        /\ Store!Taken(v, s) <=>
              HasSlug(rows, o.new) \ (IF o.op = "put" THEN Matching(rows, o.slug, o.author)
                                      ELSE {}) # {}
    <3>1. /\ v.op = o.op /\ v.slug = o.slug /\ v.author = o.author /\ v.new = o.new
          /\ o.slug \in Slugs /\ o.author \in Authors
      BY <1>2, <2>3
    <3> QED BY <3>1, WitnessesStore
  <2>7. v.missing = o.missed /\ v.taken = o.taken /\ v.out = "none"
    BY <2>3
  <2>8. /\ m = (v.missing \/ Store!Target(v, s) = {})
        /\ t = (v.taken \/ Store!Taken(v, s))
    BY <2>4, <2>5, <2>6, <2>7, Zenon
  <2>9. p = [o EXCEPT !.missed = m, !.taken = t]
    BY <1>2, <2>4, <2>5, Zenon DEF Looks
  <2>10. CallOf(p) = [v EXCEPT !.missing = m, !.taken = t]
    <3>1. /\ p.op = o.op /\ p.author = o.author /\ p.slug = o.slug /\ p.new = o.new
          /\ p.list = o.list /\ p.missed = m /\ p.taken = t /\ p.pc = o.pc
      BY <2>9 DEF Tx
    <3>2. CallOf(p) = [op |-> o.op, author |-> o.author, slug |-> o.slug, new |-> o.new,
                       tags |-> names, out |-> "none", missing |-> m, taken |-> t]
      BY <1>2, <2>2, <3>1 DEF CallOf
    <3>3. [v EXCEPT !.missing = m] =
            [op |-> o.op, author |-> o.author, slug |-> o.slug, new |-> o.new, tags |-> names,
             out |-> "none", missing |-> m, taken |-> o.taken]
      BY <2>3
    <3>4. PICK w : w = [v EXCEPT !.missing = m]
      OBVIOUS
    <3>5. [w EXCEPT !.taken = t] = CallOf(p)
      <4>1. w = [op |-> o.op, author |-> o.author, slug |-> o.slug, new |-> o.new,
                 tags |-> names, out |-> "none", missing |-> m, taken |-> o.taken]
        BY <3>3, <3>4, Zenon
      <4>2. [w EXCEPT !.taken = t] =
              [op |-> o.op, author |-> o.author, slug |-> o.slug, new |-> o.new,
               tags |-> names, out |-> "none", missing |-> m, taken |-> t]
        BY <4>1
      <4> QED BY <3>2, <4>2, Zenon
    <3>6. [v EXCEPT !.missing = m, !.taken = t] = [w EXCEPT !.taken = t]
      BY <3>4, Zenon
    <3> QED BY <3>5, <3>6, Zenon
  <2> QED BY <2>1, <2>7, <2>8, <2>10, Zenon DEF Witnessing
<1> QED BY <1>1, <1>2

LEMMA CallsGo ==
  ASSUME LocksInv, NEW c \in Conns, NEW q \in Tx, Goes(c, q), TablesInv',
         q.pc = "idle" => q.out # "none",
         q.pc # "idle" => q.slug \in Slugs /\ q.author \in Authors
  PROVE  Calls' = Store!Witness([Calls EXCEPT ![c] = CallOf(q)], Stored')
<1>1. PICK next : next = [tx EXCEPT ![c] = q]
  OBVIOUS
<1>2. PICK rows : rows = articles'
  OBVIOUS
<1>3. PICK s : s = Stored'
  OBVIOUS
<1>4. PICK asked : asked = [Calls EXCEPT ![c] = CallOf(q)]
  OBVIOUS
<1>5. next \in [Conns -> Tx] /\ next[c] = q /\ \A d \in Conns \ {c} : next[d] = tx[d]
  BY <1>1 DEF LocksInv
<1>6. DOMAIN asked = Conns /\ \A d \in Conns : asked[d] = CallOf(next[d])
  BY <1>4, <1>5 DEF Calls
<1>7. tx' = Witnessed(next, rows)
  BY <1>1, <1>2 DEF Goes
<1>8. DOMAIN tx' = Conns /\ \A d \in Conns : Looks(tx'[d], next[d], rows)
  BY <1>7 DEF Witnessed, Looks
<1>9. DOMAIN s = DOMAIN rows /\ \A i \in DOMAIN rows : /\ s[i].slug = rows[i].slug
                                                      /\ s[i].author = rows[i].author
                                                      /\ rows[i].slug \in Slugs
  BY <1>2, <1>3 DEF Stored, TablesInv
<1>10. \A d \in Conns :
         /\ next[d].pc = "idle" => next[d].out # "none"
         /\ next[d].pc # "idle" => next[d].slug \in Slugs /\ next[d].author \in Authors
  BY <1>5 DEF LocksInv, Knows
<1>11. ASSUME NEW d \in Conns
       PROVE  CallOf(tx'[d]) = Witnessing(asked[d], s)
  <2>1. PICK p : p = tx'[d]
    OBVIOUS
  <2>2. PICK o : o = next[d]
    OBVIOUS
  <2>3. /\ o \in Tx /\ Looks(p, o, rows)
        /\ o.pc = "idle" => o.out # "none"
        /\ o.pc # "idle" => o.slug \in Slugs /\ o.author \in Authors
    BY <1>5, <1>8, <1>10, <2>1, <2>2
  <2>4. CallOf(p) = Witnessing(CallOf(o), s)
    BY <1>9, <2>3, LooksAsCall
  <2>5. asked[d] = CallOf(o)
    BY <1>6, <2>2
  <2> QED BY <2>1, <2>4, <2>5
<1>12. Calls' = [d \in Conns |-> CallOf(tx'[d])]
  BY DEF Calls
<1>13. Calls' = Store!Witness(asked, s)
  BY <1>11, <1>12, Zenon DEF Store!Witness, Witnessing
<1> QED BY <1>3, <1>4, <1>13

LEMMA PendingIsRunning ==
  ASSUME LocksInv, NEW c \in Conns
  PROVE  Store!Pending(c) <=> tx[c].pc # "idle"
<1>1. Calls[c] = CallOf(tx[c]) /\ (tx[c].pc = "idle" => tx[c].out # "none")
  BY DEF Calls, LocksInv, Knows
<1> QED BY <1>1 DEF Store!Pending, CallOf

LEMMA StoreUnmoved ==
  ASSUME NoTable
  PROVE  Stored' = Stored
  BY DEF NoTable, Stored

(* Who has seen everything there is sees nothing new.                       *)
LEMMA NothingNew ==
  ASSUME NEW o \in Tx, NEW p, Looks(p, o, articles), Seen(o)
  PROVE  p = o
<1>1. CASE o.pc = "idle"
  BY <1>1 DEF Looks
<1>2. CASE o.pc # "idle"
  <2>1. o.missed \in BOOLEAN /\ o.taken \in BOOLEAN
    BY DEF Tx
  <2>2. (o.missed \/ Matching(articles, o.slug, o.author) = {}) = o.missed
    BY <1>2, <2>1, Zenon DEF Seen
  <2>3. (o.taken \/ HasSlug(articles, o.new) \ (IF o.op = "put"
            THEN Matching(articles, o.slug, o.author) ELSE {}) # {}) = o.taken
    BY <1>2, <2>1, Zenon DEF Seen, Others
  <2>4. p = [o EXCEPT !.missed = o.missed, !.taken = o.taken]
    BY <1>2, <2>2, <2>3, Zenon DEF Looks
  <2> QED BY <2>4 DEF Tx
<1> QED BY <1>1, <1>2

(* A statement in the middle of a call is a stutter of the store.           *)
LEMMA MiddleStutters ==
  ASSUME LocksInv, NEW c \in Conns, NEW q \in Tx, Goes(c, q), NoTable,
         tx[c].pc # "idle", q.pc # "idle",
         q.op = tx[c].op, q.author = tx[c].author, q.slug = tx[c].slug, q.new = tx[c].new,
         q.list = tx[c].list, q.missed = tx[c].missed, q.taken = tx[c].taken
  PROVE  UNCHANGED <<Stored, Calls>>
<1>1. PICK next : next = [tx EXCEPT ![c] = q]
  OBVIOUS
<1>2. next \in [Conns -> Tx] /\ next[c] = q /\ \A d \in Conns \ {c} : next[d] = tx[d]
  BY <1>1 DEF LocksInv
<1>3. tx' = Witnessed(next, articles)
  BY <1>1 DEF Goes, NoTable
<1>4. \A d \in Conns : Looks(tx'[d], next[d], articles)
  BY <1>3 DEF Witnessed, Looks
<1>5. \A d \in Conns : Seen(next[d])
  <2>1. Seen(q)
    BY DEF LocksInv, Seen, Others
  <2> QED BY <1>2, <2>1 DEF LocksInv
<1>6. \A d \in Conns : tx'[d] = next[d]
  BY <1>2, <1>4, <1>5, NothingNew
<1>7. CallOf(q) = CallOf(tx[c])
  BY DEF CallOf
<1>8. \A d \in Conns : CallOf(tx'[d]) = CallOf(tx[d])
  BY <1>2, <1>6, <1>7
<1>9. Calls' = [d \in Conns |-> CallOf(tx'[d])] /\ Calls = [d \in Conns |-> CallOf(tx[d])]
  BY DEF Calls
<1>10. Calls' = Calls
  BY <1>8, <1>9, Zenon
<1> QED BY <1>10, StoreUnmoved

LEMMA EndAnswers ==
  ASSUME LocksInv, LocksInv', NEW c \in Conns,
         NEW out \in {"ok", "failed", "uniq_slug", "no_rows"}, Goes(c, Ended(out))
  PROVE  Store!Answer(c, out)
<1>1. PICK q : q = Ended(out)
  OBVIOUS
<1>2. q \in Tx /\ q.pc = "idle" /\ q.out = out /\ out # "none"
  BY <1>1, EndedFields
<1>3. CallOf(q) = [out |-> out]
  BY <1>2 DEF CallOf
<1>4. Goes(c, q) /\ TablesInv'
  BY <1>1 DEF LocksInv
<1>5. Calls' = Store!Witness([Calls EXCEPT ![c] = CallOf(q)], Stored')
  BY <1>2, <1>4, CallsGo
<1>6. ~Store!Pending(c)'
  <2>1. Same(tx'[c], q)
    BY <1>2, <1>4, GoesOn DEF LocksInv
  <2>2. Calls'[c] = CallOf(tx'[c])
    BY DEF Calls
  <2> QED BY <1>2, <2>1, <2>2 DEF Store!Pending, CallOf, Same
<1> QED BY <1>3, <1>5, <1>6, Zenon DEF Store!Answer

LEMMA StartStarts ==
  ASSUME LocksInv, LocksInv', NEW c \in Conns, Start(c)
  PROVE  Store!Start(c)
<1>1. NoTable /\ ~Running(c)
  BY DEF Start
<1>2. PICK q \in Tx : /\ Goes(c, q) /\ q.pc # "idle" /\ q.op \in {"post", "put", "del"}
                      /\ q.author \in Authors /\ q.slug \in Slugs
                      /\ q.missed = FALSE /\ q.taken = FALSE
  <2>1. articleSeq \in 0..MaxSerial /\ MaxSerial \in Nat /\ <<>> \in Seq(TagNames)
    BY LocksMaxSerial DEF LocksInv, TablesInv
  <2>2. ASSUME NEW a \in Authors, NEW s \in Slugs, NEW list \in TagLists,
               articleSeq < MaxSerial,
               Goes(c, Begun("post", a, s, s, list, articleSeq + 1, "insert_article"))
        PROVE  \E q \in Tx : /\ Goes(c, q) /\ q.pc # "idle" /\ q.op \in {"post", "put", "del"}
                             /\ q.author \in Authors /\ q.slug \in Slugs
                             /\ q.missed = FALSE /\ q.taken = FALSE
    <3>1. PICK n : n = articleSeq + 1
      OBVIOUS
    <3>2. PICK q : q = Begun("post", a, s, s, list, n, "insert_article")
      OBVIOUS
    <3>3. n \in 1..MaxSerial /\ list \in Seq(TagNames)
      BY <2>1, <2>2, <3>1, LocksTagLists
    <3>4. /\ q \in Tx /\ q.pc = "insert_article" /\ q.op = "post" /\ q.author = a /\ q.slug = s
          /\ q.missed = FALSE /\ q.taken = FALSE
      BY <3>2, <3>3 DEF Begun, Tx, Pcs, PostPcs
    <3>5. Goes(c, q)
      BY <2>2, <3>1, <3>2
    <3> QED BY <3>4, <3>5
  <2>3. ASSUME NEW a \in Authors, NEW s \in Slugs, NEW op \in {"put", "del"},
               NEW new \in Slugs \cup {NULL},
               Goes(c, Begun(op, a, s, new, <<>>, NULL, "find"))
        PROVE  \E q \in Tx : /\ Goes(c, q) /\ q.pc # "idle" /\ q.op \in {"post", "put", "del"}
                             /\ q.author \in Authors /\ q.slug \in Slugs
                             /\ q.missed = FALSE /\ q.taken = FALSE
    <3>1. PICK q : q = Begun(op, a, s, new, <<>>, NULL, "find")
      OBVIOUS
    <3>2. /\ q \in Tx /\ q.pc = "find" /\ q.op = op /\ q.author = a /\ q.slug = s
          /\ q.missed = FALSE /\ q.taken = FALSE
      BY <2>1, <3>1 DEF Begun, Tx, Pcs
    <3> QED BY <2>3, <3>1, <3>2
  <2> QED BY <2>2, <2>3 DEF Start
<1>3. CallOf(q) \in Store!Call
  <2>1. PICK names : names = {q.list[k] : k \in DOMAIN q.list}
    OBVIOUS
  <2>2. q.list \in Seq(TagNames) /\ q.new \in Slugs \cup {NULL}
    BY <1>2 DEF Tx
  <2>3. names \subseteq TagNames
    BY <2>1, <2>2
  <2>4. CallOf(q) = [op |-> q.op, author |-> q.author, slug |-> q.slug, new |-> q.new,
                     tags |-> names, out |-> "none", missing |-> FALSE, taken |-> FALSE]
    BY <1>2, <2>1 DEF CallOf
  <2> QED BY <1>2, <2>2, <2>3, <2>4 DEF Store!Call
<1>4. Calls' = Store!Witness([Calls EXCEPT ![c] = CallOf(q)], Stored')
  BY <1>2, CallsGo DEF LocksInv
<1>5. Stored' = Stored
  BY <1>1, StoreUnmoved
<1>6. ~Store!Pending(c)
  BY <1>1, PendingIsRunning DEF Running
<1>7. Store!Pending(c)'
  <2>1. Same(tx'[c], q)
    BY <1>2, GoesOn DEF LocksInv
  <2>2. Calls'[c] = CallOf(tx'[c])
    BY DEF Calls
  <2> QED BY <1>2, <2>1, <2>2 DEF Store!Pending, CallOf, Same
<1> QED BY <1>3, <1>4, <1>5, <1>6, <1>7, Zenon DEF Store!Start

-----------------------------------------------------------------------------
(* Refinement: steps.                                                       *)
StoreStutters == UNCHANGED <<Stored, Calls>>

LEMMA EndsWithoutEffect ==
  ASSUME LocksInv, LocksInv', NEW c \in Conns, NoTable, tx[c].pc # "idle",
         NEW out \in {"failed", "no_rows", "uniq_slug"}, Goes(c, Ended(out)),
         out = "no_rows" => tx[c].op # "post" /\ tx[c].missed,
         out = "uniq_slug" => tx[c].op # "del" /\ tx[c].taken
  PROVE  Store!NoEffect(c)
<1>1. Store!Pending(c)
  BY PendingIsRunning
<1>2. Calls[c].op = tx[c].op /\ Calls[c].missing = tx[c].missed /\ Calls[c].taken = tx[c].taken
  <2>1. Calls[c] = CallOf(tx[c])
    BY DEF Calls
  <2> QED BY <2>1 DEF CallOf
<1>3. Store!Answer(c, out)
  BY EndAnswers
<1>4. Stored' = Stored
  BY StoreUnmoved
<1>5. CASE out = "failed"
  BY <1>1, <1>3, <1>4, <1>5, Zenon DEF Store!NoEffect
<1>6. CASE out = "no_rows"
  BY <1>1, <1>2, <1>3, <1>4, <1>6, Zenon DEF Store!NoEffect
<1>7. CASE out = "uniq_slug"
  BY <1>1, <1>2, <1>3, <1>4, <1>7, Zenon DEF Store!NoEffect
<1> QED BY <1>5, <1>6, <1>7

LEMMA CancelStep ==
  ASSUME LocksInv, LocksInv', NEW c \in Conns, Cancel(c)
  PROVE  Store!NoEffect(c)
  BY EndsWithoutEffect DEF Cancel, Running

LEMMA InsertArticleStep ==
  ASSUME LocksInv, LocksInv', NEW c \in Conns, InsertArticle(c)
  PROVE  Store!NoEffect(c) \/ StoreStutters
<1>1. NoTable /\ tx[c].pc = "insert_article" /\ tx[c] \in Tx
  BY DEF InsertArticle, LocksInv
<1>2. tx[c].op = "post"
  BY <1>1 DEF LocksInv, Knows, PostPcs
<1>3. CASE HasSlug(articles, tx[c].new) # {}
  <2>1. Others(tx[c]) # {}
    BY <1>2, <1>3 DEF Others
  <2>2. tx[c].taken
    BY <1>1, <2>1 DEF LocksInv, Seen
  <2>3. Goes(c, Ended("uniq_slug"))
    BY <1>3 DEF InsertArticle
  <2> QED BY <1>1, <1>2, <2>2, <2>3, EndsWithoutEffect
<1>4. CASE HasSlug(articles, tx[c].new) = {}
  <2>1. PICK q : q = [tx[c] EXCEPT !.pc = "insert_tags"]
    OBVIOUS
  <2>2. /\ q \in Tx /\ q.pc = "insert_tags" /\ q.op = tx[c].op /\ q.author = tx[c].author
        /\ q.slug = tx[c].slug /\ q.new = tx[c].new /\ q.list = tx[c].list
        /\ q.missed = tx[c].missed /\ q.taken = tx[c].taken
    BY <1>1, <2>1 DEF Tx, Pcs, PostPcs
  <2>3. Goes(c, q)
    BY <1>4, <2>1 DEF InsertArticle
  <2> QED BY <1>1, <2>2, <2>3, MiddleStutters DEF StoreStutters
<1> QED BY <1>3, <1>4

LEMMA InsertTagStep ==
  ASSUME LocksInv, NEW c \in Conns, InsertTag(c)
  PROVE  StoreStutters
<1>1. NoTable /\ tx[c].pc = "insert_tags" /\ tx[c] \in Tx /\ tx[c].op = "post"
      /\ tx[c].next # 0
  BY DEF InsertTag, LocksInv, Knows, PostPcs
<1>2. PICK q \in Tx : /\ Goes(c, q) /\ q.pc # "idle" /\ q.op = tx[c].op
                      /\ q.author = tx[c].author /\ q.slug = tx[c].slug /\ q.new = tx[c].new
                      /\ q.list = tx[c].list
                      /\ q.missed = tx[c].missed /\ q.taken = tx[c].taken
  <2>1. CASE tx[c].next > Len(tx[c].list)
    <3>1. PICK q : q = [tx[c] EXCEPT !.pc = "insert_article_tags"]
      OBVIOUS
    <3>2. /\ q \in Tx /\ q.pc = "insert_article_tags" /\ q.op = tx[c].op
          /\ q.author = tx[c].author /\ q.slug = tx[c].slug /\ q.new = tx[c].new
          /\ q.list = tx[c].list /\ q.missed = tx[c].missed /\ q.taken = tx[c].taken
      BY <1>1, <3>1 DEF Tx, Pcs, PostPcs
    <3>3. Goes(c, q)
      BY <2>1, <3>1 DEF InsertTag
    <3> QED BY <3>2, <3>3
  <2>2. CASE ~(tx[c].next > Len(tx[c].list))
    <3>1. PICK m : m = IF NextTag(c) \in tags THEN tx[c].mine ELSE tx[c].mine \cup {NextTag(c)}
      OBVIOUS
    <3>2. PICK n : n = tx[c].next + 1
      OBVIOUS
    <3>3. tx[c].list \in Seq(TagNames) /\ tx[c].next \in Nat /\ tx[c].mine \subseteq TagNames
      BY <1>1 DEF Tx
    <3>4. n \in Nat
      BY <3>2, <3>3
    <3>5. tx[c].next \in 1..Len(tx[c].list) /\ DOMAIN tx[c].list = 1..Len(tx[c].list)
      BY <1>1, <2>2, <3>3
    <3>6. m \subseteq TagNames
      BY <3>1, <3>3, <3>5 DEF NextTag
    <3>7. PICK q : q = [tx[c] EXCEPT !.next = n, !.mine = m]
      OBVIOUS
    <3>8. /\ q \in Tx /\ q.pc = tx[c].pc /\ q.op = tx[c].op
          /\ q.author = tx[c].author /\ q.slug = tx[c].slug /\ q.new = tx[c].new
          /\ q.list = tx[c].list /\ q.missed = tx[c].missed /\ q.taken = tx[c].taken
      BY <1>1, <3>4, <3>6, <3>7 DEF Tx
    <3>9. Goes(c, q)
      BY <2>2, <3>1, <3>2, <3>7 DEF InsertTag
    <3> QED BY <1>1, <3>8, <3>9
  <2> QED BY <2>1, <2>2
<1> QED BY <1>1, <1>2, MiddleStutters DEF StoreStutters

LEMMA InsertArticleTagsStep ==
  ASSUME LocksInv, NEW c \in Conns, InsertArticleTags(c)
  PROVE  StoreStutters
<1>1. NoTable /\ tx[c].pc = "insert_article_tags" /\ tx[c] \in Tx
  BY DEF InsertArticleTags, LocksInv
<1>2. PICK names : names = VisibleTags(c) \cap {tx[c].list[k] : k \in DOMAIN tx[c].list}
  OBVIOUS
<1>3. names \subseteq TagNames
  BY <1>1, <1>2 DEF VisibleTags, LocksInv, TablesInv, Tx
<1>4. PICK q : q = [tx[c] EXCEPT !.pc = "commit", !.pairs = names]
  OBVIOUS
<1>5. /\ q \in Tx /\ q.pc = "commit" /\ q.op = tx[c].op
      /\ q.author = tx[c].author /\ q.slug = tx[c].slug /\ q.new = tx[c].new
      /\ q.list = tx[c].list /\ q.missed = tx[c].missed /\ q.taken = tx[c].taken
  BY <1>1, <1>3, <1>4 DEF Tx, Pcs
<1>6. Goes(c, q)
  BY <1>2, <1>4 DEF InsertArticleTags
<1> QED BY <1>1, <1>5, <1>6, MiddleStutters DEF StoreStutters

LEMMA FindStep ==
  ASSUME LocksInv, LocksInv', NEW c \in Conns, Find(c)
  PROVE  Store!NoEffect(c) \/ StoreStutters
<1>1. NoTable /\ tx[c].pc = "find" /\ tx[c] \in Tx
  BY DEF Find, LocksInv
<1>2. CASE Matching(articles, tx[c].slug, tx[c].author) = {} /\ Goes(c, Ended("no_rows"))
  <2>1. tx[c].missed /\ tx[c].op # "post"
    BY <1>1, <1>2 DEF LocksInv, Seen, Knows
  <2> QED BY <1>1, <1>2, <2>1, EndsWithoutEffect
<1>3. ASSUME NEW i \in Matching(articles, tx[c].slug, tx[c].author),
             Goes(c, [tx[c] EXCEPT !.pc = "lock_row", !.row = i])
      PROVE  StoreStutters
  <2>1. i \in 1..MaxSerial
    BY LocksMaxSerial DEF LocksInv, TablesInv, Matching
  <2>2. PICK q : q = [tx[c] EXCEPT !.pc = "lock_row", !.row = i]
    OBVIOUS
  <2>3. /\ q \in Tx /\ q.pc = "lock_row" /\ q.op = tx[c].op
        /\ q.author = tx[c].author /\ q.slug = tx[c].slug /\ q.new = tx[c].new
        /\ q.list = tx[c].list /\ q.missed = tx[c].missed /\ q.taken = tx[c].taken
    BY <1>1, <2>1, <2>2 DEF Tx, Pcs
  <2> QED BY <1>1, <1>3, <2>2, <2>3, MiddleStutters DEF StoreStutters
<1> QED BY <1>2, <1>3 DEF Find

LEMMA LockRowStep ==
  ASSUME LocksInv, LocksInv', NEW c \in Conns, LockRow(c)
  PROVE  Store!NoEffect(c) \/ StoreStutters
<1>1. NoTable /\ tx[c].pc = "lock_row" /\ tx[c] \in Tx
  BY DEF LockRow, LocksInv
<1>2. CASE ~StillMatches(c)
  <2>1. tx[c].missed /\ tx[c].op # "post"
    BY <1>1, <1>2 DEF LocksInv, Knows, StillMatches
  <2>2. Goes(c, Ended("no_rows"))
    BY <1>2 DEF LockRow
  <2> QED BY <1>1, <2>1, <2>2, EndsWithoutEffect
<1>3. CASE StillMatches(c)
  <2>1. PICK pc : pc = IF tx[c].op = "put" THEN "check_slug" ELSE "commit"
    OBVIOUS
  <2>2. PICK q : q = [tx[c] EXCEPT !.pc = pc]
    OBVIOUS
  <2>3. pc \in Pcs /\ pc # "idle"
    BY <2>1 DEF Pcs
  <2>4. /\ q \in Tx /\ q.pc = pc /\ q.op = tx[c].op
        /\ q.author = tx[c].author /\ q.slug = tx[c].slug /\ q.new = tx[c].new
        /\ q.list = tx[c].list /\ q.missed = tx[c].missed /\ q.taken = tx[c].taken
    BY <1>1, <2>2, <2>3 DEF Tx
  <2>5. Goes(c, q)
    BY <1>3, <2>1, <2>2 DEF LockRow
  <2> QED BY <1>1, <2>3, <2>4, <2>5, MiddleStutters DEF StoreStutters
<1> QED BY <1>2, <1>3

LEMMA CheckSlugStep ==
  ASSUME LocksInv, LocksInv', NEW c \in Conns, CheckSlug(c)
  PROVE  Store!NoEffect(c) \/ StoreStutters
<1>1. NoTable /\ tx[c].pc = "check_slug" /\ tx[c] \in Tx
  BY DEF CheckSlug, LocksInv
<1>2. tx[c].op = "put" /\ tx[c].row \in Matching(articles, tx[c].slug, tx[c].author)
  BY <1>1 DEF LocksInv, Knows
<1>3. CASE HasSlug(articles, tx[c].new) \ {tx[c].row} # {}
  <2>1. Matching(articles, tx[c].slug, tx[c].author) \subseteq {tx[c].row}
    BY <1>2 DEF Matching, LocksInv, TablesInv, UniqueSlugs
  <2>2. Others(tx[c]) # {}
    BY <1>2, <1>3, <2>1 DEF Others
  <2>3. tx[c].taken
    BY <1>1, <2>2 DEF LocksInv, Seen
  <2>4. Goes(c, Ended("uniq_slug"))
    BY <1>3 DEF CheckSlug
  <2> QED BY <1>1, <1>2, <2>3, <2>4, EndsWithoutEffect
<1>4. CASE HasSlug(articles, tx[c].new) \ {tx[c].row} = {}
  <2>1. PICK q : q = [tx[c] EXCEPT !.pc = "commit"]
    OBVIOUS
  <2>2. /\ q \in Tx /\ q.pc = "commit" /\ q.op = tx[c].op
        /\ q.author = tx[c].author /\ q.slug = tx[c].slug /\ q.new = tx[c].new
        /\ q.list = tx[c].list /\ q.missed = tx[c].missed /\ q.taken = tx[c].taken
    BY <1>1, <2>1 DEF Tx, Pcs
  <2>3. Goes(c, q)
    BY <1>4, <2>1 DEF CheckSlug
  <2> QED BY <1>1, <2>2, <2>3, MiddleStutters DEF StoreStutters
<1> QED BY <1>3, <1>4

(* The tags the store shows with an article.                                *)
TagsIn(pairs, i) == {p[2] : p \in {q \in pairs : q[1] = i}}

Joined(A, B, pairs, r, names, more) ==
  pairs \subseteq A \X B /\ more = pairs \cup ({r} \X names)

LEMMA TagsAdded ==
  ASSUME NEW A, NEW B, NEW pairs, NEW r, NEW names, NEW more,
         Joined(A, B, pairs, r, names, more)
  PROVE  /\ \A i : i # r => TagsIn(more, i) = TagsIn(pairs, i)
         /\ r \notin A => TagsIn(more, r) = names
         /\ names = {} => TagsIn(more, r) = TagsIn(pairs, r)
<1>1. \A x, i : x \in TagsIn(pairs, i) <=> <<i, x>> \in pairs
  BY DEF TagsIn, Joined
<1>2. \A x, i : x \in TagsIn(more, i) <=>
                  <<i, x>> \in pairs \/ (i = r /\ x \in names)
  BY DEF TagsIn, Joined
<1>3. r \notin A => \A x : <<r, x>> \notin pairs
  BY DEF Joined
<1>4. ASSUME NEW i, i # r
      PROVE  TagsIn(more, i) = TagsIn(pairs, i)
  <2>1. \A x : x \in TagsIn(more, i) <=> x \in TagsIn(pairs, i)
    BY <1>1, <1>2, <1>4
  <2> QED BY <2>1 DEF TagsIn
<1>5. r \notin A => TagsIn(more, r) = names
  BY <1>2, <1>3
<1>6. names = {} => TagsIn(more, r) = TagsIn(pairs, r)
  BY <1>1, <1>2 DEF TagsIn
<1> QED BY <1>4, <1>5, <1>6

LEMMA StoredRows ==
  /\ DOMAIN Stored = DOMAIN articles
  /\ \A i \in DOMAIN articles :
       Stored[i] = [slug |-> articles[i].slug, author |-> articles[i].author,
                    tags |-> TagsIn(articleTags, i)]
  BY Zenon DEF Stored, TagsIn

LEMMA StoredRowsNext ==
  /\ DOMAIN Stored' = DOMAIN articles'
  /\ \A i \in DOMAIN articles' :
       Stored'[i] = [slug |-> articles'[i].slug, author |-> articles'[i].author,
                     tags |-> TagsIn(articleTags', i)]
  /\ Stored' = [i \in DOMAIN articles' |-> Stored'[i]]
  BY Zenon DEF Stored, TagsIn

LEMMA CommitTags ==
  ASSUME LocksInv, NEW c \in Conns, Commit(c)
  PROVE  /\ \A i \in DOMAIN articles \ {tx[c].row} :
               TagsIn(articleTags', i) = TagsIn(articleTags, i)
         /\ tx[c].op = "post" => TagsIn(articleTags', tx[c].row) =
                                   {tx[c].list[k] : k \in DOMAIN tx[c].list}
         /\ tx[c].op = "put" => TagsIn(articleTags', tx[c].row) = TagsIn(articleTags, tx[c].row)
<1>1. PICK r : r = tx[c].row
  OBVIOUS
<1>2. articleTags \subseteq (DOMAIN articles) \X tags
  BY DEF LocksInv, TablesInv
<1>3. CASE tx[c].op = "del"
  <2>1. articleTags' = articleTags \ PairsOf(r)
    BY <1>1, <1>3 DEF Commit
  <2>2. \A i : i # r => TagsIn(articleTags', i) = TagsIn(articleTags, i)
    <3>1. \A q \in articleTags : q[1] # r => q \in articleTags'
      BY <2>1 DEF PairsOf
    <3>2. \A q \in articleTags' : q \in articleTags
      BY <2>1
    <3>3. ASSUME NEW i, i # r
          PROVE  {q \in articleTags' : q[1] = i} = {q \in articleTags : q[1] = i}
      BY <3>1, <3>2, <3>3
    <3> QED BY <3>3 DEF TagsIn
  <2> QED BY <1>1, <1>3, <2>2
<1>4. CASE tx[c].op # "del"
  <2>1. PICK names : names = tx[c].pairs
    OBVIOUS
  <2>2. articleTags' = articleTags \cup ({r} \X names)
    BY <1>1, <1>4, <2>1 DEF Commit
  <2>3. /\ \A i : i # r => TagsIn(articleTags', i) = TagsIn(articleTags, i)
        /\ r \notin DOMAIN articles => TagsIn(articleTags', r) = names
        /\ names = {} => TagsIn(articleTags', r) = TagsIn(articleTags, r)
    <3>1. PICK A : A = DOMAIN articles
      OBVIOUS
    <3>2. PICK pairs : pairs = articleTags
      OBVIOUS
    <3>3. PICK more : more = articleTags'
      OBVIOUS
    <3>4. Joined(A, tags, pairs, r, names, more)
      BY <1>2, <2>2, <3>1, <3>2, <3>3 DEF Joined
    <3>5. /\ \A i : i # r => TagsIn(more, i) = TagsIn(pairs, i)
          /\ r \notin A => TagsIn(more, r) = names
          /\ names = {} => TagsIn(more, r) = TagsIn(pairs, r)
      BY <3>4, TagsAdded
    <3> QED BY <3>1, <3>2, <3>3, <3>5
  <2>4. tx[c].op = "post" => r \notin DOMAIN articles
                             /\ names = {tx[c].list[k] : k \in DOMAIN tx[c].list}
    BY <1>1, <2>1 DEF LocksInv, Knows, Commit
  <2>5. tx[c].op = "put" => names = {}
    BY <2>1 DEF LocksInv, Knows
  <2> QED BY <1>1, <2>3, <2>4, <2>5
<1> QED BY <1>3, <1>4

LEMMA CommitStep ==
  ASSUME LocksInv, LocksInv', NEW c \in Conns, Commit(c)
  PROVE  Store!Effect(c)
<1>1. PICK r : r = tx[c].row
  OBVIOUS
<1>2. PICK p : p = tx[c]
  OBVIOUS
<1>3. /\ p \in Tx /\ Knows(p) /\ p.pc = "commit" /\ p.op \in {"post", "put", "del"}
      /\ p.slug \in Slugs /\ p.author \in Authors /\ p.row = r
  BY <1>1, <1>2 DEF LocksInv, Commit, Knows, Tx
<1>4. /\ p.op = "post" => articles' = Posted(p)
      /\ p.op = "put" => articles' = Renamed(p)
      /\ p.op = "del" => articles' = Deleted(p)
  BY <1>2, CommitCases
<1>5. PICK v : v = Calls[c]
  OBVIOUS
<1>6. PICK names : names = {p.list[k] : k \in DOMAIN p.list}
  OBVIOUS
<1>7. /\ v.op = p.op /\ v.author = p.author /\ v.slug = p.slug /\ v.new = p.new
      /\ v.tags = names /\ v.out = "none"
  <2>1. v = CallOf(p)
    BY <1>2, <1>5 DEF Calls
  <2> QED BY <1>3, <1>6, <2>1 DEF CallOf
<1>8. Store!Pending(c)
  BY <1>2, <1>3, PendingIsRunning
<1>9. PICK s : s = Stored
  OBVIOUS
<1>10. PICK t : t = Stored'
  OBVIOUS
<1>11. /\ DOMAIN s = DOMAIN articles
       /\ \A i \in DOMAIN articles :
            s[i] = [slug |-> articles[i].slug, author |-> articles[i].author,
                    tags |-> TagsIn(articleTags, i)]
  BY <1>9, StoredRows
<1>12. /\ DOMAIN t = DOMAIN articles'
       /\ \A i \in DOMAIN articles' :
            t[i] = [slug |-> articles'[i].slug, author |-> articles'[i].author,
                    tags |-> TagsIn(articleTags', i)]
       /\ t = [i \in DOMAIN t |-> t[i]]
  <2>1. Stored' = [i \in DOMAIN articles' |-> Stored'[i]]
    BY StoredRowsNext
  <2> QED BY <1>10, <2>1, StoredRowsNext
<1>13. /\ \A i \in DOMAIN articles \ {r} : TagsIn(articleTags', i) = TagsIn(articleTags, i)
       /\ p.op = "post" => TagsIn(articleTags', r) = names
       /\ p.op = "put" => TagsIn(articleTags', r) = TagsIn(articleTags, r)
  BY <1>1, <1>2, <1>6, CommitTags
<1>14. \A i \in DOMAIN articles : articles[i].slug \in Slugs
  BY DEF LocksInv, TablesInv
<1>15. /\ Store!Target(v, s) = Matching(articles, p.slug, p.author)
       /\ Store!Taken(v, s) <=> Others(p) # {}
  <2>1. /\ Store!Target(v, s) = Matching(articles, p.slug, p.author)
        /\ Store!Taken(v, s) <=>
              HasSlug(articles, p.new) \ (IF p.op = "put"
                 THEN Matching(articles, p.slug, p.author) ELSE {}) # {}
    <3>1. \A i \in DOMAIN articles : /\ s[i].slug = articles[i].slug
                                      /\ s[i].author = articles[i].author
                                      /\ articles[i].slug \in Slugs
      BY <1>11, <1>14
    <3>2. /\ p \in Tx /\ p.slug \in Slugs /\ p.author \in Authors /\ DOMAIN s = DOMAIN articles
          /\ v.op = p.op /\ v.slug = p.slug /\ v.author = p.author /\ v.new = p.new
      BY <1>3, <1>7, <1>11
    <3> QED BY <3>1, <3>2, WitnessesStore, Zenon
  <2> QED BY <2>1, Zenon DEF Others
<1>16. \A x \in HeldSlugs(c) : HasSlug(articles, x) \subseteq {r}
  BY <1>1 DEF LocksInv, LocksExclude
<1>17. CASE p.op = "post"
  <2>1. r \in (1..MaxSerial) \ DOMAIN articles /\ p.new \in Slugs
    BY <1>3, <1>17, LocksMaxSerial DEF Knows, LocksInv, TablesInv
  <2>2. ~Store!Taken(v, s)
    <3>1. p.new \in HeldSlugs(c)
      BY <1>2, <1>3, <1>17, <2>1 DEF HeldSlugs
    <3>2. HasSlug(articles, p.new) = {}
      BY <1>16, <2>1, <3>1 DEF HasSlug
    <3> QED BY <1>15, <3>2 DEF Others
  <2>3. PICK rows : rows = articles'
    OBVIOUS
  <2>4. /\ DOMAIN rows = DOMAIN articles \cup {r}
        /\ rows[r] = [slug |-> p.new, author |-> p.author]
        /\ \A i \in DOMAIN articles : rows[i] = articles[i]
    BY <1>3, <1>4, <1>17, <2>1, <2>3 DEF Posted
  <2>5. DOMAIN t = DOMAIN s \cup {r}
        /\ \A j \in DOMAIN t :
             t[j] = IF j # r THEN s[j]
                    ELSE [slug |-> v.new, author |-> v.author, tags |-> v.tags]
    BY <1>7, <1>11, <1>12, <1>13, <1>17, <2>1, <2>3, <2>4
  <2>6. Stored' = [j \in DOMAIN Stored \cup {r} |->
                     IF j # r THEN Stored[j]
                     ELSE [slug |-> Calls[c].new, author |-> Calls[c].author,
                           tags |-> Calls[c].tags]]
    <3>1. /\ DOMAIN Stored' = DOMAIN Stored \cup {r}
          /\ \A j \in DOMAIN Stored' :
               Stored'[j] = IF j # r THEN Stored[j]
                            ELSE [slug |-> Calls[c].new, author |-> Calls[c].author,
                                  tags |-> Calls[c].tags]
      BY <1>5, <1>9, <1>10, <2>5
    <3>2. Stored' = [j \in DOMAIN Stored' |-> Stored'[j]]
      BY StoredRowsNext, Zenon
    <3> QED BY <3>1, <3>2, Zenon
  <2>7. r \in (1..MaxSerial) \ DOMAIN s /\ v.op = "post"
    BY <1>7, <1>11, <1>17, <2>1
  <2>8. Store!Publish(c)
    BY <1>5, <1>8, <1>9, <2>2, <2>6, <2>7, Zenon DEF Store!Publish
  <2> QED BY <2>8, EndAnswers DEF Commit, Store!Effect
<1>18. CASE p.op # "post"
  <2>1. r \in Matching(articles, p.slug, p.author) /\ r \in DOMAIN articles
    BY <1>3, <1>18 DEF Knows, Matching
  <2>2. CASE p.op = "put"
    <3>1. ~Store!Taken(v, s)
      <4>1. p.new \in Slugs => p.new \in HeldSlugs(c)
        BY <1>2, <1>3, <2>2 DEF HeldSlugs
      <4>2. p.new \notin Slugs => HasSlug(articles, p.new) = {}
        BY <1>14 DEF HasSlug
      <4>3. HasSlug(articles, p.new) \subseteq {r}
        BY <1>16, <4>1, <4>2
      <4> QED BY <1>15, <2>1, <2>2, <4>3 DEF Others
    <3>2. PICK x : x = IF p.new = NULL THEN articles[r].slug ELSE p.new
      OBVIOUS
    <3>3. PICK rows : rows = articles'
      OBVIOUS
    <3>4. rows = [articles EXCEPT ![r].slug = x]
      BY <1>3, <1>4, <2>2, <3>2, <3>3 DEF Renamed
    <3>5. articles \in [DOMAIN articles -> [slug: Slugs, author: Authors]]
      BY DEF LocksInv, TablesInv
    <3>6. /\ DOMAIN rows = DOMAIN articles
          /\ rows[r].slug = x /\ rows[r].author = articles[r].author
          /\ \A i \in DOMAIN articles \ {r} : rows[i] = articles[i]
      BY <2>1, <3>4, <3>5
    <3>7. /\ DOMAIN t = DOMAIN s
          /\ \A j \in DOMAIN s \ {r} : t[j] = s[j]
          /\ t[r] = [slug |-> x, author |-> articles[r].author, tags |-> TagsIn(articleTags, r)]
      BY <1>11, <1>12, <1>13, <2>1, <2>2, <3>3, <3>6
    <3>8. s[r] = [slug |-> articles[r].slug, author |-> articles[r].author,
                  tags |-> TagsIn(articleTags, r)]
      BY <1>11, <2>1
    <3>9. t[r] = [s[r] EXCEPT !.slug = x]
      BY <3>7, <3>8
    <3>10. s = [i \in DOMAIN s |-> s[i]]
      BY <1>9, Zenon DEF Stored
    <3>11. t = [s EXCEPT ![r] = [s[r] EXCEPT !.slug = x]]
      BY <1>11, <1>12, <2>1, <3>7, <3>9, <3>10
    <3>12. x = IF v.new = NULL THEN s[r].slug ELSE v.new
      BY <1>7, <3>2, <3>8
    <3>13. t = [s EXCEPT ![r].slug = IF v.new = NULL THEN @ ELSE v.new]
      BY <3>11, <3>12, Zenon
    <3>14. r \in Store!Target(v, s) /\ v.op = "put"
      BY <1>7, <1>15, <2>1, <2>2
    <3>15. Store!Rename(c)
      BY <1>5, <1>8, <1>9, <1>10, <3>1, <3>13, <3>14, Zenon DEF Store!Rename
    <3> QED BY <3>15, EndAnswers DEF Commit, Store!Effect
  <2>3. CASE p.op = "del"
    <3>1. PICK rows : rows = articles'
      OBVIOUS
    <3>2. DOMAIN rows = DOMAIN articles \ {r} /\ \A i \in DOMAIN rows : rows[i] = articles[i]
      BY <1>3, <1>4, <2>3, <3>1 DEF Deleted
    <3>3. DOMAIN t = DOMAIN s \ {r} /\ \A j \in DOMAIN t : t[j] = s[j]
      BY <1>11, <1>12, <1>13, <3>1, <3>2
    <3>4. t = [j \in DOMAIN s \ {r} |-> s[j]]
      BY <1>12, <3>3, Zenon
    <3>5. r \in Store!Target(v, s) /\ v.op = "del"
      BY <1>7, <1>15, <2>1, <2>3
    <3>6. Store!Remove(c)
      BY <1>5, <1>8, <1>9, <1>10, <3>4, <3>5, Zenon DEF Store!Remove
    <3> QED BY <3>6, EndAnswers DEF Commit, Store!Effect
  <2> QED BY <1>3, <1>18, <2>2, <2>3
<1> QED BY <1>17, <1>18

LEMMA EveryStep ==
  ASSUME LocksInv, LocksInv', [Next]_lockVars
  PROVE  Store!StoreNext \/ StoreStutters
<1>1. CASE UNCHANGED lockVars
  BY <1>1 DEF lockVars, StoreStutters, Stored, Calls
<1>2. ASSUME NEW c \in Conns, Start(c) \/ Step(c) \/ Cancel(c)
      PROVE  (Store!Start(c) \/ Store!Effect(c) \/ Store!NoEffect(c)) \/ StoreStutters
  BY <1>2, StartStarts, CancelStep, InsertArticleStep, InsertTagStep, InsertArticleTagsStep,
     FindStep, LockRowStep, CheckSlugStep, CommitStep DEF Step
<1> QED BY <1>1, <1>2, Zenon DEF Next, Store!StoreNext

LEMMA FirstStore ==
  ASSUME Init
  PROVE  Store!StoreInit
<1>1. Stored = [i \in {} |-> NULL]
  BY DEF Init, Stored
<1>2. Ended("idle").pc = "idle" /\ Ended("idle").out = "idle"
  BY EndedFields
<1>3. \A c \in Conns : CallOf(tx[c]) = [out |-> "idle"]
  BY <1>2 DEF Init, CallOf
<1>4. Calls = [c \in Conns |-> [out |-> "idle"]]
  BY <1>3, Zenon DEF Calls
<1> QED BY <1>1, <1>4 DEF Store!StoreInit

(* The stored functions, statement by statement and next to each other,     *)
(* behave as ArticleStore says: each takes effect at one moment of its call *)
(* or not at all, and refuses for a reason that was true (db_1.sql:140).    *)
THEOREM LocksImplementStore == Spec => ImplementsStore
<1>1. Init => Store!StoreInit
  BY FirstStore
<1>2. LocksInv /\ LocksInv' /\ [Next]_lockVars => [Store!StoreNext]_(Store!storeVars)
  BY EveryStep DEF StoreStutters, Store!storeVars
<1> QED BY <1>1, <1>2, LocksAlways, PTL DEF Spec, ImplementsStore, Store!StoreSpec

-----------------------------------------------------------------------------
(* Circles of waiting.  What a transaction has gathered is its own: it      *)
(* posts one of the lists there are, and has inserted tags of that list     *)
(* only, those before the next.                                             *)
Gathers(q) ==
  /\ q.op = "post" => /\ q.list \in TagLists
                      /\ \A t \in q.mine : \E k \in DOMAIN q.list : k < q.next /\ q.list[k] = t
  /\ q.pc = "insert_article" => q.mine = {}

TagsInv == \A c \in Conns : Gathers(tx[c])

(* A step keeps that when the transaction that moves does.                  *)
LEMMA GathersOn ==
  ASSUME LocksInv, TagsInv, NEW c \in Conns, NEW q \in Tx, Goes(c, q), Gathers(q)
  PROVE  TagsInv'
<1>1. /\ Same(tx'[c], q)
      /\ \A d \in Conns \ {c} : Same(tx'[d], tx[d])
  BY GoesOn DEF LocksInv
<1>2. \A p, o : Same(p, o) /\ Gathers(o) => Gathers(p)
  BY DEF Same, Gathers
<1> QED BY <1>1, <1>2 DEF TagsInv

(* Each statement keeps it; InsertTag adds the tag it was at.               *)
LEMMA TagsStep ==
  ASSUME LocksInv, TagsInv, NEW c \in Conns, Start(c) \/ Step(c) \/ Cancel(c)
  PROVE  TagsInv'
<1>1. PICK p : p = tx[c]
  OBVIOUS
<1>2. p \in Tx /\ Knows(p) /\ Gathers(p)
  BY <1>1 DEF LocksInv, TagsInv
<1>3. ASSUME NEW out \in {"ok", "failed", "uniq_slug", "no_rows"}, Goes(c, Ended(out))
      PROVE  TagsInv'
  <2>1. Ended(out) \in Tx /\ Gathers(Ended(out))
    BY EndedFields DEF Ended, Begun, Gathers
  <2> QED BY <1>3, <2>1, GathersOn
<1>4. ASSUME NEW a \in Authors, NEW s \in Slugs, NEW list \in TagLists,
             articleSeq < MaxSerial,
             Goes(c, Begun("post", a, s, s, list, articleSeq + 1, "insert_article"))
      PROVE  TagsInv'
  <2>1. PICK q : q = Begun("post", a, s, s, list, articleSeq + 1, "insert_article")
    OBVIOUS
  <2>2. articleSeq + 1 \in 1..MaxSerial /\ list \in Seq(TagNames)
    BY <1>4, LocksMaxSerial, LocksTagLists DEF LocksInv, TablesInv
  <2>3. q \in Tx /\ q.list = list /\ q.mine = {} /\ q.pc = "insert_article"
    BY <2>1, <2>2 DEF Begun, Tx, Pcs, PostPcs
  <2>4. Gathers(q)
    BY <2>3 DEF Gathers
  <2> QED BY <1>4, <2>1, <2>3, <2>4, GathersOn
<1>5. ASSUME NEW a \in Authors, NEW s \in Slugs, NEW op \in {"put", "del"},
             NEW new \in Slugs \cup {NULL},
             Goes(c, Begun(op, a, s, new, <<>>, NULL, "find"))
      PROVE  TagsInv'
  <2>1. PICK q : q = Begun(op, a, s, new, <<>>, NULL, "find")
    OBVIOUS
  <2>2. <<>> \in Seq(TagNames)
    OBVIOUS
  <2>3. q \in Tx /\ q.op = op /\ q.pc = "find"
    BY <2>1, <2>2 DEF Begun, Tx, Pcs
  <2>4. Gathers(q)
    BY <2>3 DEF Gathers
  <2> QED BY <1>5, <2>1, <2>3, <2>4, GathersOn
<1>6. CASE Start(c)
  BY <1>4, <1>5, <1>6 DEF Start
<1>7. ASSUME NEW pc \in Pcs \ {"insert_article"}, NEW row \in (1..MaxSerial) \cup {NULL},
             NEW pairs \in SUBSET TagNames,
             Goes(c, [p EXCEPT !.pc = pc, !.row = row, !.pairs = pairs])
      PROVE  TagsInv'
  <2>1. PICK q : q = [p EXCEPT !.pc = pc, !.row = row, !.pairs = pairs]
    OBVIOUS
  <2>2. /\ q \in Tx /\ q.pc = pc /\ q.op = p.op /\ q.list = p.list
        /\ q.mine = p.mine /\ q.next = p.next
    BY <1>2, <2>1 DEF Tx
  <2>3. Gathers(q)
    BY <1>2, <2>2 DEF Gathers
  <2> QED BY <1>7, <2>1, <2>2, <2>3, GathersOn
<1>8. \A pc : [p EXCEPT !.pc = pc] = [p EXCEPT !.pc = pc, !.row = p.row, !.pairs = p.pairs]
  BY <1>2 DEF Tx
<1>9. /\ p.row \in (1..MaxSerial) \cup {NULL} /\ p.pairs \in SUBSET TagNames
      /\ {"insert_tags", "insert_article_tags", "lock_row", "check_slug", "commit"}
           \subseteq Pcs \ {"insert_article"}
  BY <1>2 DEF Tx, Pcs, PostPcs
<1>10. ASSUME NEW pc \in {"insert_tags", "insert_article_tags", "check_slug", "commit"},
              Goes(c, [p EXCEPT !.pc = pc])
       PROVE  TagsInv'
  <2>1. Goes(c, [p EXCEPT !.pc = pc, !.row = p.row, !.pairs = p.pairs])
    BY <1>8, <1>10, Zenon
  <2>2. pc \in Pcs \ {"insert_article"}
    BY <1>9
  <2> QED BY <1>7, <1>9, <2>1, <2>2, Zenon
<1>11. CASE InsertArticle(c)
  BY <1>1, <1>3, <1>10, <1>11 DEF InsertArticle
<1>12. CASE InsertTag(c)
  <2>1. p.op = "post" /\ p.pc = "insert_tags" /\ p.list \in Seq(TagNames) /\ p.next \in Nat
        /\ p.next # 0 /\ p.mine \subseteq TagNames
    BY <1>1, <1>2, <1>12 DEF InsertTag, Knows, PostPcs, Tx
  <2>2. CASE p.next > Len(p.list)
    BY <1>1, <1>10, <1>12, <2>2 DEF InsertTag
  <2>3. CASE ~(p.next > Len(p.list))
    <3>1. PICK t : t = NextTag(c)
      OBVIOUS
    <3>2. p.next \in DOMAIN p.list /\ t = p.list[p.next] /\ t \in TagNames
      <4>1. p.next \in 1..Len(p.list) /\ DOMAIN p.list = 1..Len(p.list)
        BY <2>1, <2>3
      <4> QED BY <1>1, <2>1, <3>1, <4>1 DEF NextTag
    <3>3. PICK m : m = IF t \in tags THEN p.mine ELSE p.mine \cup {t}
      OBVIOUS
    <3>4. PICK n : n = p.next + 1
      OBVIOUS
    <3>5. PICK q : q = [p EXCEPT !.next = n, !.mine = m]
      OBVIOUS
    <3>6. Goes(c, q)
      BY <1>1, <1>12, <2>3, <3>1, <3>3, <3>4, <3>5 DEF InsertTag
    <3>7. m \in SUBSET TagNames /\ m \subseteq p.mine \cup {t} /\ n \in Nat
      BY <2>1, <3>2, <3>3, <3>4
    <3>8. /\ q \in Tx /\ q.pc = "insert_tags" /\ q.op = "post" /\ q.list = p.list
          /\ q.mine = m /\ q.next = n
      BY <1>2, <2>1, <3>5, <3>7 DEF Tx
    <3>9. ASSUME NEW x \in m
          PROVE  \E k \in DOMAIN p.list : k < n /\ p.list[k] = x
      <4>1. CASE x = t
        <5>1. p.next < n
          BY <2>1, <3>4
        <5> QED BY <3>2, <4>1, <5>1
      <4>2. CASE x # t
        <5>1. PICK k \in DOMAIN p.list : k < p.next /\ p.list[k] = x
          BY <1>2, <2>1, <3>7, <4>2 DEF Gathers
        <5>2. k \in Nat
          BY <2>1
        <5>3. k < n
          BY <2>1, <3>4, <5>1, <5>2
        <5> QED BY <5>1, <5>3
      <4> QED BY <4>1, <4>2
    <3>10. Gathers(q)
      BY <1>2, <2>1, <3>8, <3>9 DEF Gathers
    <3> QED BY <3>6, <3>8, <3>10, GathersOn
  <2> QED BY <2>2, <2>3
<1>13. CASE InsertArticleTags(c)
  <2>1. PICK pairs : pairs = VisibleTags(c) \cap {p.list[k] : k \in DOMAIN p.list}
    OBVIOUS
  <2>2. p.list \in Seq(TagNames)
    BY <1>2 DEF Tx
  <2>3. pairs \in SUBSET TagNames
    BY <2>1, <2>2
  <2>4. [p EXCEPT !.pc = "commit", !.pairs = pairs] =
          [p EXCEPT !.pc = "commit", !.row = p.row, !.pairs = pairs]
    BY <1>2 DEF Tx
  <2>5. Goes(c, [p EXCEPT !.pc = "commit", !.pairs = pairs])
    BY <1>1, <1>13, <2>1 DEF InsertArticleTags
  <2> QED BY <1>7, <1>9, <2>3, <2>4, <2>5
<1>14. CASE Find(c)
  <2>1. CASE Goes(c, Ended("no_rows"))
    BY <1>3, <2>1
  <2>2. ASSUME NEW i \in Matching(articles, p.slug, p.author),
               Goes(c, [p EXCEPT !.pc = "lock_row", !.row = i])
        PROVE  TagsInv'
    <3>1. i \in 1..MaxSerial
      BY LocksMaxSerial DEF LocksInv, TablesInv, Matching
    <3>2. [p EXCEPT !.pc = "lock_row", !.row = i] =
            [p EXCEPT !.pc = "lock_row", !.row = i, !.pairs = p.pairs]
      BY <1>2 DEF Tx
    <3> QED BY <1>7, <1>9, <2>2, <3>1, <3>2
  <2> QED BY <1>1, <1>14, <2>1, <2>2 DEF Find
<1>15. CASE LockRow(c)
  BY <1>1, <1>3, <1>10, <1>15 DEF LockRow
<1>16. CASE CheckSlug(c)
  BY <1>1, <1>3, <1>10, <1>16 DEF CheckSlug
<1>17. CASE Commit(c)
  BY <1>3, <1>17 DEF Commit
<1>18. CASE Cancel(c)
  BY <1>3, <1>18 DEF Cancel
<1> QED BY <1>6, <1>11, <1>12, <1>13, <1>14, <1>15, <1>16, <1>17, <1>18 DEF Step

(* It holds in every state, with LocksInv.                                  *)
LEMMA TagsAlways == Spec => [](LocksInv /\ TagsInv)
<1>1. Init => TagsInv
  <2>1. Gathers(Ended("idle"))
    BY DEF Ended, Begun, Gathers
  <2> QED BY <2>1 DEF Init, TagsInv
<1>2. LocksInv /\ TagsInv /\ [Next]_lockVars => TagsInv'
  <2>1. ASSUME LocksInv, TagsInv, UNCHANGED lockVars PROVE TagsInv'
    BY <2>1 DEF lockVars, TagsInv, Gathers
  <2> QED BY <2>1, TagsStep DEF Next
<1> QED BY <1>1, <1>2, LocksAlways, PTL DEF Spec

(* Who holds an entry or a row that another needs is past its first         *)
(* statement, and at which one is known by what is held.                    *)
LEMMA WaitedFor ==
  ASSUME LocksInv, TagsInv, NEW c \in Conns, NEW d \in Conns, WaitsFor(c, d), Waits(d)
  PROVE  /\ tx[c].pc \in {"insert_article", "check_slug", "lock_row", "insert_tags"}
         /\ tx[d].pc \in {"insert_tags", "check_slug"}
         /\ tx[c].pc = "insert_tags" => tx[d].pc = "insert_tags"
<1>1. tx[c] \in Tx /\ Knows(tx[c]) /\ tx[d] \in Tx /\ Knows(tx[d]) /\ Gathers(tx[d])
  BY DEF LocksInv, TagsInv
<1>2. tx[c].pc \in {"insert_article", "check_slug", "lock_row", "insert_tags"}
  BY DEF WaitsFor
<1>3. tx[d].pc \in {"insert_article", "check_slug", "lock_row", "insert_tags"}
  BY DEF Waits, WaitsFor
<1>4. CASE tx[c].pc = "insert_tags"
  <2>1. tx[d].mine # {}
    BY <1>4 DEF WaitsFor
  <2>2. tx[d].op = "post"
    BY <1>1, <2>1 DEF Knows
  <2>3. tx[d].pc # "insert_article"
    BY <1>1, <2>1 DEF Gathers
  <2>4. tx[d].pc \notin {"check_slug", "lock_row"}
    BY <1>1, <2>2 DEF Knows
  <2> QED BY <1>2, <1>3, <1>4, <2>3, <2>4
<1>5. CASE tx[c].pc = "lock_row"
  BY <1>2, <1>3, <1>5 DEF WaitsFor, HoldsRow
<1>6. CASE tx[c].pc \in {"insert_article", "check_slug"}
  BY <1>2, <1>3, <1>6 DEF WaitsFor, HeldSlugs
<1> QED BY <1>2, <1>4, <1>5, <1>6

(* In a circle those that insert tags wait for each other; and if there is  *)
(* none of them, those that enter a slug wait for each other.               *)
LEMMA CircleFact ==
  ASSUME LocksInv, TagsInv, NEW S \in SUBSET Conns, Circle(S)
  PROVE  \E T \in SUBSET S :
           /\ Circle(T)
           /\ \/ \A c \in T : tx[c].pc = "insert_tags"
              \/ \A c \in T : tx[c].pc = "check_slug"
<1>1. \A c \in S : Waits(c)
  BY DEF Circle, Waits
<1>2. \A c \in S : \E d \in S :
        /\ WaitsFor(c, d) /\ tx[d].pc \in {"insert_tags", "check_slug"}
        /\ tx[c].pc = "insert_tags" => tx[d].pc = "insert_tags"
  BY <1>1, WaitedFor DEF Circle
<1>3. CASE \E c \in S : tx[c].pc = "insert_tags"
  <2>1. PICK T \in SUBSET S : T = {c \in S : tx[c].pc = "insert_tags"}
    OBVIOUS
  <2>2. Circle(T)
    BY <1>2, <1>3, <2>1 DEF Circle
  <2> QED BY <2>1, <2>2
<1>4. CASE ~\E c \in S : tx[c].pc = "insert_tags"
  <2>1. PICK T \in SUBSET S : T = {c \in S : tx[c].pc = "check_slug"}
    OBVIOUS
  <2>2. T # {}
    BY <1>2, <1>4, <2>1 DEF Circle
  <2>3. Circle(T)
    BY <1>2, <1>4, <2>1, <2>2 DEF Circle
  <2> QED BY <2>1, <2>3
<1> QED BY <1>3, <1>4

(* However many connections: a circle of waiting has INSERTs of tags or     *)
(* UPDATEs of slugs that wait for each other (db_1.sql:161, 710).           *)
THEOREM CirclesAreOfOneKind == Spec => []CirclesOfOneKind
<1>1. LocksInv /\ TagsInv => CirclesOfOneKind
  BY CircleFact DEF CirclesOfOneKind
<1> QED BY <1>1, TagsAlways, PTL

(* A set of numbers that is not empty has a least member.                   *)
LEMMA LeastNumber ==
  ASSUME NEW T, T \subseteq Nat, T # {}
  PROVE  \E n \in T : \A m \in T : n <= m
<1> DEFINE R == {p \in Nat \X Nat : p[1] < p[2]}
<1>1. IsWellFoundedOn(R, Nat)
  BY NatLessThanWellFounded DEF OpToRel
<1>2. \A m, n \in Nat : <<m, n>> \in R <=> m < n
  OBVIOUS
<1> HIDE DEF R
<1>3. PICK n \in T : \A m \in T : ~ (<<m, n>> \in R)
  BY <1>1, WFMin
<1>4. ASSUME NEW m \in T PROVE n <= m
  <2>1. m \in Nat /\ n \in Nat /\ ~ (m < n)
    BY <1>2, <1>3
  <2> QED BY <2>1
<1> QED BY <1>4

(* An order of the tags gives each a rank of its own; a list is in the      *)
(* order if its ranks fall.                                                 *)
Orders == {rank \in [TagNames -> Nat] : \A s, t \in TagNames : rank[s] = rank[t] => s = t}
InOrder(list, rank) == \A i, j \in DOMAIN list : i <= j => rank[list[j]] <= rank[list[i]]

(* Where the list of the one waited for is in the order, and it waits for a *)
(* tag too, it waits for one further down.                                  *)
LEMMA WaitsFurtherDown ==
  ASSUME LocksInv, TagsInv, NEW rank \in Orders,
         NEW c \in Conns, NEW d \in Conns, NEW e \in Conns, InOrder(tx[d].list, rank),
         WaitsFor(c, d), tx[c].pc = "insert_tags",
         WaitsFor(d, e), tx[d].pc = "insert_tags"
  PROVE  /\ NextTag(c) \in TagNames /\ NextTag(d) \in TagNames
         /\ rank[NextTag(d)] < rank[NextTag(c)]
<1>1. PICK s : s = NextTag(c)
  OBVIOUS
<1>2. PICK t : t = NextTag(d)
  OBVIOUS
<1>3. PICK q : q = tx[d]
  OBVIOUS
<1>4. /\ q \in Tx /\ q.op = "post" /\ q.next # 0 /\ Gathers(q)
      /\ q.list \in Seq(TagNames) /\ q.next \in Nat /\ q.mine \subseteq TagNames
  BY <1>3 DEF LocksInv, TagsInv, Knows, PostPcs, Tx
<1>5. s \in q.mine
  BY <1>1, <1>3 DEF WaitsFor
<1>6. q.next \in DOMAIN q.list /\ t = q.list[q.next] /\ t \in TagNames
  <2>1. q.next <= Len(q.list)
    BY <1>3 DEF WaitsFor
  <2>2. q.next \in 1..Len(q.list) /\ DOMAIN q.list = 1..Len(q.list)
    BY <1>4, <2>1
  <2> QED BY <1>2, <1>3, <1>4, <2>2 DEF NextTag
<1>7. t \in tx[e].mine /\ d # e
  BY <1>2 DEF WaitsFor
<1>8. t # s
  BY <1>3, <1>5, <1>7 DEF LocksInv, LocksExclude
<1>9. PICK k \in DOMAIN q.list : k < q.next /\ q.list[k] = s
  BY <1>4, <1>5 DEF Gathers
<1>10. k <= q.next
  BY <1>4, <1>9
<1>11. rank[t] <= rank[s]
  BY <1>3, <1>6, <1>9, <1>10 DEF InOrder
<1>12. rank[t] \in Nat /\ rank[s] \in Nat /\ rank[t] # rank[s]
  BY <1>4, <1>5, <1>6, <1>8 DEF Orders
<1> QED BY <1>1, <1>2, <1>4, <1>5, <1>6, <1>11, <1>12

(* There is no end to going down, so not all of a circle insert tags from   *)
(* lists in the order.                                                      *)
LEMMA NoOrderedCircle ==
  ASSUME LocksInv, TagsInv, NEW rank \in Orders, NEW T \in SUBSET Conns, Circle(T),
         \A c \in T : tx[c].pc = "insert_tags"
  PROVE  \E c \in T : ~InOrder(tx[c].list, rank)
<1> SUFFICES ASSUME \A c \in T : InOrder(tx[c].list, rank) PROVE FALSE
  OBVIOUS
<1>1. \A c \in T : \E d \in T : /\ NextTag(c) \in TagNames /\ NextTag(d) \in TagNames
                                /\ rank[NextTag(d)] < rank[NextTag(c)]
  BY WaitsFurtherDown DEF Circle
<1>2. PICK R : R = {rank[NextTag(c)] : c \in T}
  OBVIOUS
<1>3. R \subseteq Nat /\ R # {}
  <2>1. \A c \in T : rank[NextTag(c)] \in Nat
    BY <1>1 DEF Orders
  <2> QED BY <1>2, <2>1 DEF Circle
<1>4. PICK n \in R : \A m \in R : n <= m
  BY <1>3, LeastNumber
<1>5. PICK c \in T : n = rank[NextTag(c)]
  BY <1>2, <1>4
<1>6. PICK d \in T : rank[NextTag(d)] < n
  BY <1>1, <1>5
<1>7. rank[NextTag(d)] \in R /\ rank[NextTag(d)] \in Nat /\ n \in Nat
  BY <1>2, <1>3, <1>4
<1> QED BY <1>4, <1>6, <1>7

(* Transactions that wait for each other's tags in a circle, however many,  *)
(* got lists that no single order of the tags puts in order: the orders in  *)
(* which clients name tags, passed on by articles.cpp:91, are what          *)
(* deadlocks in db_1.sql:161.  Sent in many requests at once, one list that *)
(* repeats no tag makes no circle.                                          *)
THEOREM TagCirclesCrossOrders ==
  Spec => [](\A T \in SUBSET Conns :
               Circle(T) /\ (\A c \in T : tx[c].pc = "insert_tags")
                 => \A rank \in Orders : \E c \in T : ~InOrder(tx[c].list, rank))
<1>1. LocksInv /\ TagsInv =>
        \A T \in SUBSET Conns :
          Circle(T) /\ (\A c \in T : tx[c].pc = "insert_tags")
            => \A rank \in Orders : \E c \in T : ~InOrder(tx[c].list, rank)
  BY NoOrderedCircle
<1> QED BY <1>1, TagsAlways, PTL

=============================================================================
