----------------------------- MODULE ReplyProofs -----------------------------
(***************************************************************************)
(* What an answer says is true.  A handler learns something in one         *)
(* statement and answers with it after others; the invariants here are     *)
(* what it may still rely on at each statement.  Ids are not used again,   *)
(* so what is gone stays gone and the tags of an article stay; and nobody  *)
(* else touches what belongs to the caller (OwnershipProofs), who is busy  *)
(* waiting if the client is one that waits.                                *)
(***************************************************************************)
EXTENDS OwnershipProofs, FiniteSetTheorems

-----------------------------------------------------------------------------
(* What a request knows at each statement.                                  *)

ShownFields == {"slug", "title", "text", "author", "tagList", "favorited", "following",
                "favoritesCount"}
RowFields == {"author", "favoritesCount", "tagList", "favorited", "following"}

(* Where an article is shown and filled in, and where a list is.            *)
Shown == {"article.tagList", "article.favorited", "article.following"}
Filled == {"article.favorited", "article.following"}
InRows == {"row.tagList", "row.following"}

(* The tags of the articles shown so far are theirs, as long as they exist. *)
TagsKnown(q) ==
  /\ q.pc \in Shown => q.id \in 1..articleSeq /\ DOMAIN q.view = ShownFields
  /\ q.pc \in Filled \/ (q.status = 200 /\ q.op \in ShowsOne) =>
       /\ q.id \in 1..articleSeq
       /\ q.id \in DOMAIN articles => q.view.tagList = TagsOf(q.id)
  /\ q.pc \in InRows =>
       \A i \in DOMAIN q.view :
         /\ i \in 1..articleSeq /\ DOMAIN q.view[i] = RowFields
         /\ i \in DOMAIN articles /\ q.view[i].tagList # NULL
              => q.view[i].tagList = TagsOf(i)
         /\ q.view[i].following # NULL => q.view[i].tagList # NULL
  /\ q.status = 200 /\ q.op \in ShowsMany =>
       \A i \in DOMAIN q.view :
         /\ i \in 1..articleSeq
         /\ i \in DOMAIN articles => q.view[i].tagList = TagsOf(i)

(* A comment on its way to deletion is the caller's.                        *)
CommentKnown(q) ==
  q.pc = "kDeleteComment" =>
    /\ q.arg.comment \in 1..commentSeq
    /\ q.arg.comment \in DOMAIN comments => comments[q.arg.comment].author = q.user

(* A user has one request in flight.                                        *)
Alone ==
  \A r, s \in Slots :
    InFlight(r) /\ InFlight(s) /\ req[r].user = req[s].user /\ req[r].user # NULL => r = s

(* An article about to be deleted by its author still has the slug named;   *)
(* after the answer it is gone.                                             *)
DeleteKnown(q) ==
  /\ q.pc = "kDeleteArticleBySlug" =>
       /\ q.id \in 1..articleSeq
       /\ q.id \in DOMAIN articles /\ articles[q.id].author = q.user
            => articles[q.id].slug = q.arg.slug
  /\ q.op = "del_article" /\ q.status = 200 =>
       /\ q.id \in 1..articleSeq
       /\ q.id \in DOMAIN articles => articles[q.id].author # q.user

(* A comment just stored is there unless its article went.                  *)
StoredKnown(q) ==
  /\ q.pc = "kGetComment" =>
       /\ q.target \in 1..articleSeq
       /\ \/ q.target \notin DOMAIN articles
          \/ /\ q.id \in DOMAIN comments
             /\ comments[q.id].author = q.user /\ comments[q.id].article = q.target
  /\ q.op = "post_comment" /\ q.err = "nonsingle" =>
       /\ q.pc = "done"
       /\ q.target \in 1..articleSeq /\ q.target \notin DOMAIN articles

(* The following flags of the rows completed so far are the caller's.       *)
RowFollowed(q, row) ==
  /\ {"author", "following"} \subseteq DOMAIN row
  /\ row.following # NULL => row.following = (<<q.user, row.author>> \in followers)
  /\ q.op = "get_feed" => <<q.user, row.author>> \in followers

FollowsKnown(q) ==
  /\ q.pc \in InRows \cup {"comment.following"} =>
       \A i \in DOMAIN q.view : RowFollowed(q, q.view[i])
  /\ q.op = "get_feed" /\ q.status = 200 =>
       \A i \in DOMAIN q.view : q.view[i].following

(* What is shown with the favorites of the caller.                          *)
CountKnown(q) ==
  /\ q.pc \in Shown =>
       /\ DOMAIN q.view = ShownFields
       /\ <<q.user, q.id>> \in favorites => q.view.favoritesCount >= 1
  /\ q.pc = "article.following" \/ (q.op = "get_article" /\ q.status = 200) =>
       (q.view.favorited => q.view.favoritesCount >= 1)

(* What an author wrote is in the row until the answer shows it.            *)
Holds(row, q) ==
  /\ q.arg.title # NULL => row.title = q.arg.title /\ row.slug = Slugify[q.arg.title]
  /\ q.arg.text # NULL => row.text = q.arg.text
Tagged(tagList, q) == q.op = "post_article" => tagList = {ToLower[g] : g \in q.arg.tagList}

WrittenKnown(q) ==
  q.op \in {"post_article", "put_article"} =>
    /\ q.err # "nonsingle"
    /\ q.pc \in {"kGetArticleWithAuthorProfile", "article.tagList"} =>
         /\ q.id \in DOMAIN articles /\ articles[q.id].author = q.user
         /\ Tagged(TagsOf(q.id), q)
    /\ q.pc = "kGetArticleWithAuthorProfile" => Holds(articles[q.id], q)
    /\ q.pc \in Shown \/ q.status = 200 => Holds(q.view, q)
    /\ q.pc \in Filled \/ q.status = 200 => Tagged(q.view.tagList, q)

(* The article of a favorite is the one looked up.                          *)
FavoriteKnown(q) ==
  /\ q.pc \in {"kFavoriteArticle", "kUnfavoriteArticle"} =>
       /\ q.id \in 1..articleSeq
       /\ q.id \in DOMAIN articles => articles[q.id].slug = q.arg.slug
  /\ q.pc = "kGetArticleWithAuthorProfile" /\ q.op \in {"post_favorite", "del_favorite"} =>
       /\ q.id \in 1..articleSeq
       /\ q.id \in DOMAIN articles =>
            /\ q.target = q.id
            /\ (<<q.user, q.id>> \in favorites) = (q.op = "post_favorite")
  /\ q.pc \in Shown /\ q.op \in {"post_favorite", "del_favorite"} =>
       /\ q.target = q.id
       /\ (<<q.user, q.id>> \in favorites) = (q.op = "post_favorite")
       /\ q.op = "post_favorite" => q.view.favoritesCount >= 1
  /\ q.pc = "article.following" /\ q.op \in {"post_favorite", "del_favorite"} =>
       q.view.favorited = (q.op = "post_favorite")
  /\ q.op \in {"post_favorite", "del_favorite"} /\ q.status = 200 =>
       /\ q.target = q.id
       /\ q.view.favorited = (q.op = "post_favorite")
       /\ q.op = "post_favorite" => q.view.favoritesCount >= 1

-----------------------------------------------------------------------------
(* What no step takes back.                                                 *)

(* Ids are drawn once: an article that is there was there before, with its  *)
(* author and its tags, and so was a comment.                               *)
Settled ==
  /\ articleSeq \in Nat /\ articleSeq' \in Nat /\ articleSeq <= articleSeq'
  /\ commentSeq \in Nat /\ commentSeq' \in Nat /\ commentSeq <= commentSeq'
  /\ \A i \in 1..articleSeq : i \in DOMAIN articles' =>
       /\ i \in DOMAIN articles /\ articles'[i].author = articles[i].author
       /\ TagsOf(i)' = TagsOf(i)
  /\ \A c \in 1..commentSeq : c \in DOMAIN comments' =>
       c \in DOMAIN comments /\ comments'[c] = comments[c]

LEMMA SettledStep ==
  ASSUME ServiceInv, [Next]_vars
  PROVE  Settled
<1>0. /\ CallsInv /\ SerialsDrawn /\ articleSeq \in Nat /\ commentSeq \in Nat
      /\ DOMAIN articles \subseteq 1..articleSeq /\ DOMAIN comments \subseteq 1..commentSeq
  BY MaxSerialAssumption DEF ServiceInv, IntegrityInv, SerialsDrawn
<1>1. CASE UNCHANGED dbVars
  <2>1. UNCHANGED <<articles, comments, articleTags, articleSeq, commentSeq>>
    BY <1>1 DEF dbVars
  <2> QED BY <1>0, <2>1 DEF Settled, TagsOf
<1>2. ASSUME NEW r \in Slots, Writes(r)
      PROVE  Settled
  <2>1. /\ articleSeq' \in {articleSeq, articleSeq + 1}
        /\ commentSeq' \in {commentSeq, commentSeq + 1}
    BY <1>0, <1>2, TablesKept, AddsArticle, AddsComment
  <2>2. ASSUME NEW i \in 1..articleSeq, i \in DOMAIN articles'
        PROVE  /\ i \in DOMAIN articles /\ articles'[i].author = articles[i].author
               /\ \A p : p[1] = i => (p \in articleTags' <=> p \in articleTags)
    <3>1. CASE kAddNewArticle(r)
      <4>1. i # articleSeq + 1
        BY <1>0
      <4> QED BY <1>0, <2>2, <3>1, <4>1, AddsArticle
    <3>2. CASE kUpdateArticleBySlug(r)
      <4>1. articleTags' = articleTags
        BY <3>2 DEF kUpdateArticleBySlug, update_article_by_slug
      <4> QED BY <2>2, <3>2, <4>1, UpdatesArticle
    <3>3. CASE kDeleteArticleBySlug(r)
      <4>1. PICK gone \in {{}, OwnedBySlug(req[r].arg.slug, req[r].user)} :
              /\ DOMAIN articles' = DOMAIN articles \ gone
              /\ \A j \in DOMAIN articles \ gone : articles'[j] = articles[j]
              /\ \A p : p[1] \notin gone => (p \in articleTags' <=> p \in articleTags)
        BY <3>3, DeletesArticle
      <4> QED BY <2>2, <4>1
    <3>4. CASE articles' = articles /\ articleTags' = articleTags
      BY <2>2, <3>4
    <3> QED BY <1>2, <3>1, <3>2, <3>3, <3>4, TablesKept
  <2>3. ASSUME NEW c \in 1..commentSeq, c \in DOMAIN comments'
        PROVE  c \in DOMAIN comments /\ comments'[c] = comments[c]
    <3>1. CASE kAddNewComment(r)
      <4>1. c # commentSeq + 1
        BY <1>0
      <4> QED BY <1>0, <2>3, <3>1, <4>1, AddsComment
    <3>2. CASE kDeleteComment(r)
      BY <2>3, <3>2, DeletesComment
    <3>3. CASE kDeleteArticleBySlug(r)
      BY <2>3, <3>3, DeletesArticle
    <3> QED BY <1>2, <2>3, <3>1, <3>2, <3>3, TablesKept
  <2>4. ASSUME NEW i \in 1..articleSeq, i \in DOMAIN articles'
        PROVE  TagsOf(i)' = TagsOf(i)
    BY <2>2, <2>4 DEF TagsOf
  <2> QED BY <1>0, <2>1, <2>2, <2>3, <2>4 DEF Settled
<1> QED BY <1>0, <1>1, <1>2, WhoWrites

(* While a client waits, nobody takes from its user what belongs to it.     *)
KeepsOf(user) ==
  /\ \A i \in DOMAIN articles : articles[i].author = user =>
       i \in DOMAIN articles' /\ articles'[i] = articles[i]
  /\ \A c \in DOMAIN comments : comments[c].author = user =>
       \/ c \in DOMAIN comments' /\ comments'[c] = comments[c]
       \/ comments[c].article \notin DOMAIN articles'
  /\ \A i : <<user, i>> \in favorites' <=> <<user, i>> \in favorites
  /\ \A v : <<user, v>> \in followers' <=> <<user, v>> \in followers

LEMMA OthersKeep ==
  ASSUME ServiceInv, Alone, [Next]_vars, NEW r \in Slots, InFlight(r),
         req[r].user # NULL, req'[r] = req[r]
  PROVE  KeepsOf(req[r].user)
<1> DEFINE u == req[r].user
<1>1. CASE UNCHANGED dbVars
  BY <1>1 DEF dbVars, KeepsOf
<1>2. ASSUME NEW s \in Slots, Writes(s), Turn(s)
      PROVE  KeepsOf(u)
  <2>1. CallsInv /\ SerialsDrawn
    BY DEF ServiceInv, IntegrityInv
  <2>2. req'[s] # req[s]
    BY <1>2, <2>1, WriterMoves
  <2>3. Step(s)
    BY <1>2 DEF Writes, Step, ArticleStep, AccountStep
  <2>4. InFlight(s)
    BY <2>1, <2>3, StepInFlight, StatementsInFlight DEF InFlight
  <2>5. req[s].user # u
    BY <2>2, <2>4 DEF Alone
  <2>6. ASSUME NEW ops PROVE ~MovesSome(ops, u)
    BY <1>2, <2>5 DEF MovesSome, Moves, Turn
  <2>7. OwnersOnly
    BY OwnersStep
  <2>8. ASSUME NEW i \in DOMAIN articles, articles[i].author = u
        PROVE  i \in DOMAIN articles' /\ articles'[i] = articles[i]
    BY <2>6, <2>7, <2>8 DEF OwnersOnly
  <2>9. ASSUME NEW c \in DOMAIN comments, comments[c].author = u
        PROVE  \/ c \in DOMAIN comments' /\ comments'[c] = comments[c]
               \/ comments[c].article \notin DOMAIN articles'
    BY <2>6, <2>7, <2>9 DEF OwnersOnly
  <2>10. ASSUME NEW p, p[1] = u
         PROVE  /\ p \in favorites' <=> p \in favorites
                /\ p \in followers' <=> p \in followers
    BY <2>6, <2>7, <2>10 DEF OwnersOnly
  <2>11. ASSUME NEW i
         PROVE  /\ <<u, i>> \in favorites' <=> <<u, i>> \in favorites
                /\ <<u, i>> \in followers' <=> <<u, i>> \in followers
    <3>1. PICK p : p = <<u, i>>
      OBVIOUS
    <3> QED BY <2>10, <3>1
  <2> QED BY <2>8, <2>9, <2>11 DEF KeepsOf
<1> QED BY <1>1, <1>2, WhoWrites DEF ServiceInv, IntegrityInv

(* A client that waits begins a request when it has none.                   *)
LEMMA AloneStep ==
  ASSUME SequentialClients, ServiceInv, Alone, [Next]_vars
  PROVE  Alone'
<1>0. CallsInv /\ SerialsDrawn
  BY DEF ServiceInv, IntegrityInv
<1>1. CASE UNCHANGED vars
  BY <1>1 DEF vars, Alone, InFlight
<1>2. ASSUME NEW r \in Slots, Turn(r), Step(r) \/ ExecuteFails(r)
      PROVE  Alone'
  <2>1. Shape(req[r], req'[r]) /\ InFlight(r)
    BY <1>0, <1>2, StepShape, StepInFlight, StatementsInFlight DEF InFlight
  <2>2. InFlight(r)' => req'[r].user = req[r].user
    BY <2>1 DEF Shape, GoesOn, Succeeds, Fails, InFlight
  <2> QED BY <1>2, <2>1, <2>2 DEF Alone, Turn, InFlight
<1>3. ASSUME NEW r \in Slots, Turn(r), Begins(r)
      PROVE  Alone'
  <2>0. PICK op \in Routes, pc \in FirstStatements : \E user, arg :
          /\ req'[r] = NewRequest(op, user, arg, pc)
          /\ user # NULL => \A s \in Slots : InFlight(s) => req[s].user # user
    BY <1>3 DEF Begins
  <2>1. PICK user, arg :
          /\ req'[r] = NewRequest(op, user, arg, pc)
          /\ user # NULL => \A s \in Slots : InFlight(s) => req[s].user # user
    BY <2>0
  <2>2. req'[r].user = user
    BY <2>1 DEF NewRequest
  <2> QED BY <1>3, <2>1, <2>2 DEF Alone, Turn, InFlight
<1>4. ASSUME NEW r \in Slots, Turn(r), Refuses(r)
      PROVE  Alone'
  <2>1. ~InFlight(r)'
    BY <1>4 DEF Refuses, Reply, NewRequest, Refusals, InFlight
  <2> QED BY <1>4, <2>1 DEF Alone, Turn, InFlight
<1> QED BY <1>0, <1>1, <1>2, <1>3, <1>4, TurnOfSlot

-----------------------------------------------------------------------------
(* What each statement makes of its request: it goes to the next statement, *)
(* ends with 200, or stops with an error.                                   *)

GoesTo(r, pc, id, target, view) ==
  /\ req'[r].op = req[r].op /\ req'[r].user = req[r].user /\ req'[r].arg = req[r].arg
  /\ req'[r].pc = pc /\ req'[r].id = id /\ req'[r].target = target /\ req'[r].view = view
  /\ req'[r].status = 0 /\ req'[r].err = req[r].err

EndsWith(r, view) ==
  /\ req'[r].op = req[r].op /\ req'[r].user = req[r].user /\ req'[r].arg = req[r].arg
  /\ req'[r].pc = "done" /\ req'[r].id = req[r].id /\ req'[r].target = req[r].target
  /\ req'[r].view = view /\ req'[r].status = 200 /\ req'[r].err = "none"

StopsWith(r, status, err) ==
  /\ req'[r].op = req[r].op /\ req'[r].pc = "done"
  /\ req'[r].status = status /\ status \in Refusals /\ req'[r].err = err
Stops(r) == \E status, err : err # "nonsingle" /\ StopsWith(r, status, err)

LEMMA ExecutedOutcome ==
  ASSUME CallsInv, NEW r \in Slots, NEW x, DOMAIN x = Fields, Write(r, x) \/ Read(r, x)
  PROVE  Outcome(req'[r], x)
<1>1. CASE Read(r, x)
  BY <1>1 DEF Read, CallsInv, Outcome, Alike
<1>2. CASE Write(r, x)
  <2>1. PICK out \in {x, Reply(x, 500, "io")} :
          req' = [req EXCEPT ![r] = [out EXCEPT !.wrote = @ \/ tables' # tables]]
    BY <1>2 DEF Write
  <2>2. PICK w : req' = [req EXCEPT ![r] = [out EXCEPT !.wrote = w]]
    <3> WITNESS out.wrote \/ tables' # tables
    <3> QED BY <2>1, Zenon
  <2>3. DOMAIN Reply(x, 500, "io") = Fields
    BY DEF Reply, NewRequest, Fields
  <2>4. DOMAIN out = Fields
    BY <2>3
  <2>5. req'[r] = [out EXCEPT !.wrote = w]
    BY <2>2 DEF CallsInv
  <2>6. Alike(req'[r], out)
    BY <2>4, <2>5 DEF Alike, Fields
  <2> QED BY <2>6 DEF Outcome
<1> QED BY <1>1, <1>2

(* A lost answer stops a request, too.                                      *)
LEMMA OutcomeLost ==
  ASSUME NEW r \in Slots, NEW x, x.op = req[r].op, Alike(req'[r], Reply(x, 500, "io"))
  PROVE  Stops(r)
<1>1. /\ Reply(x, 500, "io").op = x.op /\ Reply(x, 500, "io").pc = "done"
      /\ Reply(x, 500, "io").status = 500 /\ Reply(x, 500, "io").err = "io"
  BY DEF Reply, NewRequest
<1>2. StopsWith(r, 500, "io") /\ "io" # "nonsingle"
  BY <1>1 DEF Alike, StopsWith, Refusals
<1> QED BY <1>2 DEF Stops

LEMMA ExecutedGoes ==
  ASSUME CallsInv, NEW r \in Slots, req[r].pc \in Statements,
         NEW pc, NEW id, NEW target, NEW view,
         LET x == [req[r] EXCEPT !.pc = pc, !.id = id, !.target = target, !.view = view]
         IN  Write(r, x) \/ Read(r, x)
  PROVE  GoesTo(r, pc, id, target, view) \/ Stops(r)
<1> DEFINE q == req[r]
           x == [q EXCEPT !.pc = pc, !.id = id, !.target = target, !.view = view]
<1>1. DOMAIN q = Fields /\ q.status = 0
  BY StatementsInFlight DEF CallsInv, CallInv
<1>2. /\ DOMAIN x = Fields /\ x.op = q.op /\ x.user = q.user /\ x.arg = q.arg
      /\ x.pc = pc /\ x.id = id /\ x.target = target /\ x.view = view
      /\ x.status = 0 /\ x.err = q.err
  BY <1>1 DEF Fields
<1>3. Write(r, x) \/ Read(r, x)
  OBVIOUS
<1> HIDE DEF x
<1>4. Outcome(req'[r], x)
  BY <1>2, <1>3, ExecutedOutcome
<1>5. CASE Alike(req'[r], x)
  BY <1>2, <1>5 DEF Alike, GoesTo
<1> QED BY <1>2, <1>4, <1>5, OutcomeLost DEF Outcome

LEMMA RepliedEnds ==
  ASSUME CallsInv, NEW r \in Slots, NEW y, DOMAIN y = Fields, y.op = req[r].op,
         y.user = req[r].user, y.arg = req[r].arg, y.id = req[r].id,
         y.target = req[r].target,
         Write(r, Reply(y, 200, "none")) \/ Read(r, Reply(y, 200, "none"))
  PROVE  EndsWith(r, y.view) \/ Stops(r)
<1> DEFINE x == Reply(y, 200, "none")
<1>1. /\ DOMAIN x = Fields /\ x.op = y.op /\ x.user = y.user /\ x.arg = y.arg
      /\ x.pc = "done" /\ x.id = y.id /\ x.target = y.target /\ x.view = y.view
      /\ x.status = 200 /\ x.err = "none"
  BY DEF Reply, Fields
<1> HIDE DEF x
<1>2. Outcome(req'[r], x)
  BY <1>1, ExecutedOutcome DEF x
<1>3. CASE Alike(req'[r], x)
  BY <1>1, <1>3 DEF Alike, EndsWith
<1> QED BY <1>1, <1>2, <1>3, OutcomeLost DEF Outcome

LEMMA ExecutedEnds ==
  ASSUME CallsInv, NEW r \in Slots, NEW view,
         LET x == Reply([req[r] EXCEPT !.view = view], 200, "none")
         IN  Write(r, x) \/ Read(r, x)
  PROVE  EndsWith(r, view) \/ Stops(r)
<1> DEFINE y == [req[r] EXCEPT !.view = view]
<1>1. /\ DOMAIN y = Fields /\ y.op = req[r].op /\ y.user = req[r].user
      /\ y.arg = req[r].arg /\ y.id = req[r].id /\ y.target = req[r].target
      /\ y.view = view
  BY DEF CallsInv, CallInv, Fields
<1>2. Write(r, Reply(y, 200, "none")) \/ Read(r, Reply(y, 200, "none"))
  OBVIOUS
<1> HIDE DEF y
<1> QED BY <1>1, <1>2, RepliedEnds

LEMMA ExecutedStops ==
  ASSUME CallsInv, NEW r \in Slots, NEW status \in Refusals, NEW err,
         Write(r, Reply(req[r], status, err)) \/ Read(r, Reply(req[r], status, err))
  PROVE  StopsWith(r, status, err) \/ Stops(r)
<1> DEFINE x == Reply(req[r], status, err)
<1>1. /\ DOMAIN x = Fields /\ x.op = req[r].op /\ x.pc = "done" /\ x.status = status
      /\ x.err = err
  BY DEF Reply, NewRequest, Fields, Refusals
<1> HIDE DEF x
<1>2. Outcome(req'[r], x)
  BY <1>1, ExecutedOutcome DEF x
<1>3. CASE Alike(req'[r], x)
  BY <1>1, <1>3 DEF Alike, StopsWith
<1> QED BY <1>1, <1>2, <1>3, OutcomeLost DEF Outcome

LEMMA RefusedStops ==
  ASSUME CallsInv, NEW r \in Slots, NEW status \in Refusals, NEW err, err # "nonsingle",
         Write(r, Reply(req[r], status, err)) \/ Read(r, Reply(req[r], status, err))
  PROVE  Stops(r)
  BY ExecutedStops DEF Stops

LEMMA SlugErrorStops ==
  ASSUME CallsInv, NEW r \in Slots, NEW e, e # "nonsingle", Write(r, SlugError(req[r], e))
  PROVE  Stops(r)
<1> DEFINE status == IF e = "uniq_slug" THEN 422 ELSE 500
<1>1. status \in Refusals
  BY DEF Refusals
<1>2. Write(r, Reply(req[r], status, e))
  BY DEF SlugError
<1> HIDE DEF status
<1> QED BY <1>1, <1>2, RefusedStops

LEMMA WritesArticle ==
  ASSUME CallsInv, NEW r \in Slots
  PROVE  /\ kAddNewArticle(r) =>
              \/ Stops(r)
              \/ /\ add_new_article_error(Slugify[req[r].arg.title], req[r].user) = "none"
                 /\ GoesTo(r, "kGetArticleWithAuthorProfile", articleSeq + 1,
                           articleSeq + 1, req[r].view)
         /\ kUpdateArticleBySlug(r) =>
              \/ Stops(r)
              \/ /\ update_article_by_slug_error(req[r].arg.slug, req[r].user,
                                                 NewSlug(req[r].arg.title)) = "none"
                 /\ \E i \in OwnedBySlug(req[r].arg.slug, req[r].user) :
                      GoesTo(r, "kGetArticleWithAuthorProfile", i, i, req[r].view)
         /\ kDeleteArticleBySlug(r) =>
              \/ Stops(r)
              \/ /\ delete_article_by_slug_error(req[r].arg.slug, req[r].user) = "none"
                 /\ EndsWith(r, req[r].view)
<1> DEFINE q == req[r]
<1>0. /\ CallInv(q) /\ 404 \in Refusals /\ 422 \in Refusals /\ 500 \in Refusals
      /\ DOMAIN q = Fields
  BY DEF CallsInv, Refusals, CallInv
<1>1. ASSUME kAddNewArticle(r)
      PROVE  \/ Stops(r)
             \/ /\ add_new_article_error(Slugify[q.arg.title], q.user) = "none"
                /\ GoesTo(r, "kGetArticleWithAuthorProfile", articleSeq + 1,
                          articleSeq + 1, q.view)
  <2> DEFINE e == add_new_article_error(Slugify[q.arg.title], q.user)
             x == [q EXCEPT !.pc = "kGetArticleWithAuthorProfile", !.id = articleSeq + 1,
                            !.target = articleSeq + 1, !.view = q.view]
  <2>1. q.pc \in Statements /\ e # "nonsingle"
    BY <1>1 DEF kAddNewArticle, Statements, add_new_article_error
  <2>2. \/ Write(r, SlugError(q, e))
        \/ e = "none" /\ Write(r, ThenReadBack(q, articleSeq + 1))
    BY <1>1 DEF kAddNewArticle
  <2>3. ThenReadBack(q, articleSeq + 1) = x
    BY <1>0 DEF ThenReadBack, Fields
  <2>4. Write(r, SlugError(q, e)) => Stops(r)
    <3> HIDE DEF e
    <3> QED BY <2>1, SlugErrorStops
  <2>5. Write(r, x) =>
          GoesTo(r, "kGetArticleWithAuthorProfile", articleSeq + 1, articleSeq + 1, q.view)
            \/ Stops(r)
    BY <2>1, ExecutedGoes
  <2> HIDE DEF x
  <2> QED BY <2>2, <2>3, <2>4, <2>5
<1>2. ASSUME kUpdateArticleBySlug(r)
      PROVE  \/ Stops(r)
             \/ /\ update_article_by_slug_error(q.arg.slug, q.user,
                                                NewSlug(q.arg.title)) = "none"
                /\ \E i \in OwnedBySlug(q.arg.slug, q.user) :
                     GoesTo(r, "kGetArticleWithAuthorProfile", i, i, q.view)
  <2> DEFINE e == update_article_by_slug_error(q.arg.slug, q.user, NewSlug(q.arg.title))
             rows == OwnedBySlug(q.arg.slug, q.user)
             i == CHOOSE i \in rows : TRUE
             x == [q EXCEPT !.pc = "kGetArticleWithAuthorProfile", !.id = i,
                            !.target = i, !.view = q.view]
  <2>1. q.pc \in Statements /\ e # "nonsingle"
    BY <1>2 DEF kUpdateArticleBySlug, Statements, update_article_by_slug_error
  <2>2. \/ Write(r, SlugError(q, e)) \/ Write(r, Reply(q, 404, "none"))
        \/ e = "none" /\ rows # {} /\ Write(r, ThenReadBack(q, i))
    BY <1>2 DEF kUpdateArticleBySlug
  <2>3. rows # {} => i \in rows
    OBVIOUS
  <2>4. Write(r, SlugError(q, e)) => Stops(r)
    <3> HIDE DEF e
    <3> QED BY <2>1, SlugErrorStops
  <2>5. Write(r, Reply(q, 404, "none")) => Stops(r)
    BY <1>0, RefusedStops
  <2> HIDE DEF i, rows
  <2>6. ThenReadBack(q, i) = x
    BY <1>0 DEF ThenReadBack, Fields
  <2>7. Write(r, x) => GoesTo(r, "kGetArticleWithAuthorProfile", i, i, q.view) \/ Stops(r)
    BY <2>1, ExecutedGoes
  <2> HIDE DEF x
  <2> QED BY <2>2, <2>3, <2>4, <2>5, <2>6, <2>7 DEF rows
<1>3. ASSUME kDeleteArticleBySlug(r)
      PROVE  \/ Stops(r)
             \/ /\ delete_article_by_slug_error(q.arg.slug, q.user) = "none"
                /\ EndsWith(r, q.view)
  <2> DEFINE e == delete_article_by_slug_error(q.arg.slug, q.user)
  <2>1. q.pc \in Statements /\ e # "nonsingle"
    BY <1>3 DEF kDeleteArticleBySlug, Statements, delete_article_by_slug_error
  <2>2. \/ Write(r, Reply(q, 500, e))
        \/ e = "none" /\ Write(r, Reply(q, 200, "none"))
    BY <1>3 DEF kDeleteArticleBySlug
  <2>3. Write(r, Reply(q, 200, "none")) => EndsWith(r, q.view) \/ Stops(r)
    BY <1>0, RepliedEnds
  <2> QED BY <1>0, <2>1, <2>2, <2>3, RefusedStops
<1> QED BY <1>1, <1>2, <1>3

(* The row of an article as get_article_with_author_profile selects it.     *)
ShownRow(i) ==
  [slug |-> articles[i].slug, title |-> articles[i].title, text |-> articles[i].text,
   author |-> articles[i].author, tagList |-> {}, favorited |-> FALSE,
   following |-> FALSE, favoritesCount |-> FavoritesCount(i)]

LEMMA FindsArticle ==
  ASSUME CallsInv, NEW r \in Slots
  PROVE  /\ kGetArticleIdBySlug(r) =>
              \/ Stops(r)
              \/ /\ ArticleIdOf(req[r].arg.slug) # NULL
                 /\ GoesTo(r, AfterLookup[req[r].op], ArticleIdOf(req[r].arg.slug),
                           req[r].target, req[r].view)
         /\ kGetArticleWithAuthorProfileBySlug(r) =>
              \/ Stops(r)
              \/ GoesTo(r, "kGetArticleWithAuthorProfile", ArticleIdOf(req[r].arg.slug),
                        req[r].target, req[r].view)
<1> DEFINE q == req[r]
           id == ArticleIdOf(q.arg.slug)
           x(pc) == [q EXCEPT !.pc = pc, !.id = id, !.target = q.target, !.view = q.view]
<1>0. 404 \in Refusals /\ DOMAIN q = Fields
  BY DEF CallsInv, Refusals, CallInv
<1>1. ASSUME NEW pc, q.pc \in Statements, Read(r, [q EXCEPT !.pc = pc, !.id = id])
      PROVE  GoesTo(r, pc, id, q.target, q.view) \/ Stops(r)
  <2> HIDE DEF id
  <2>1. [q EXCEPT !.pc = pc, !.id = id] = x(pc)
    BY <1>0 DEF Fields
  <2>2. Read(r, x(pc))
    BY <1>1, <2>1
  <2> QED BY <1>1, <2>2, ExecutedGoes
<1>2. ASSUME kGetArticleIdBySlug(r)
      PROVE  Stops(r) \/ (id # NULL /\ GoesTo(r, AfterLookup[q.op], id, q.target, q.view))
  <2>1. PICK pc : pc = AfterLookup[q.op]
    OBVIOUS
  <2>2. /\ q.pc \in Statements
        /\ \/ Read(r, Reply(q, 404, "none"))
           \/ id # NULL /\ Read(r, [q EXCEPT !.pc = pc, !.id = id])
    BY <1>2, <2>1 DEF kGetArticleIdBySlug, Statements
  <2> QED BY <1>0, <1>1, <2>1, <2>2, RefusedStops
<1>3. ASSUME kGetArticleWithAuthorProfileBySlug(r)
      PROVE  Stops(r) \/ GoesTo(r, "kGetArticleWithAuthorProfile", id, q.target, q.view)
  BY <1>1, <1>3 DEF kGetArticleWithAuthorProfileBySlug, Statements
<1> QED BY <1>2, <1>3

LEMMA WritesFavorite ==
  ASSUME CallsInv, NEW r \in Slots
  PROVE  /\ kFavoriteArticle(r) =>
              \/ Stops(r)
              \/ /\ favorite_article_error(req[r].arg.slug, req[r].user) = "none"
                 /\ GoesTo(r, "kGetArticleWithAuthorProfile", req[r].id,
                           ArticleIdOf(req[r].arg.slug), req[r].view)
         /\ kUnfavoriteArticle(r) =>
              \/ Stops(r)
              \/ GoesTo(r, "kGetArticleWithAuthorProfile", req[r].id,
                        ArticleIdOf(req[r].arg.slug), req[r].view)
<1> DEFINE q == req[r]
           target == ArticleIdOf(q.arg.slug)
           pc == "kGetArticleWithAuthorProfile"
           x == [q EXCEPT !.pc = pc, !.id = q.id, !.target = target, !.view = q.view]
           e == favorite_article_error(q.arg.slug, q.user)
<1>0. 500 \in Refusals /\ DOMAIN q = Fields
  BY DEF CallsInv, Refusals, CallInv
<1>1. ThenShow(q) = x
  <2>1. PICK t : t = target
    OBVIOUS
  <2>2. [q EXCEPT !.pc = pc, !.target = t]
          = [q EXCEPT !.pc = pc, !.id = q.id, !.target = t, !.view = q.view]
    BY <1>0 DEF Fields
  <2> QED BY <2>1, <2>2 DEF ThenShow
<1>2. ASSUME q.pc \in Statements, Write(r, ThenShow(q))
      PROVE  GoesTo(r, pc, q.id, target, q.view) \/ Stops(r)
  <2> HIDE DEF target, pc
  <2>1. Write(r, x)
    BY <1>1, <1>2
  <2> QED BY <1>2, <2>1, ExecutedGoes
<1>3. ASSUME kFavoriteArticle(r)
      PROVE  Stops(r) \/ (e = "none" /\ GoesTo(r, pc, q.id, target, q.view))
  <2>1. q.pc \in Statements /\ e # "nonsingle"
    BY <1>3 DEF kFavoriteArticle, Statements, favorite_article_error
  <2>2. \/ Write(r, Reply(q, 500, e))
        \/ e = "none" /\ Write(r, ThenShow(q))
    BY <1>3 DEF kFavoriteArticle
  <2> QED BY <1>0, <1>2, <2>1, <2>2, RefusedStops
<1>4. ASSUME kUnfavoriteArticle(r)
      PROVE  Stops(r) \/ GoesTo(r, pc, q.id, target, q.view)
  BY <1>2, <1>4 DEF kUnfavoriteArticle, Statements
<1> QED BY <1>3, <1>4

LEMMA ShowsArticle ==
  ASSUME CallsInv, NEW r \in Slots
  PROVE  /\ kGetArticleWithAuthorProfile(r) =>
              \/ Stops(r)
              \/ /\ req[r].id \notin DOMAIN articles
                 /\ \E status : StopsWith(r, status, "nonsingle")
              \/ /\ req[r].id \in DOMAIN articles
                 /\ GoesTo(r, "article.tagList", req[r].id, req[r].target,
                           ShownRow(req[r].id))
         /\ TagListOfArticle(r) =>
              \/ Stops(r)
              \/ GoesTo(r, "article.favorited", req[r].id, req[r].target,
                        [req[r].view EXCEPT !.tagList = get_article_tag_list(req[r].id)])
         /\ FavoritedOfArticle(r) =>
              \/ Stops(r)
              \/ GoesTo(r, "article.following", req[r].id, req[r].target,
                        [req[r].view EXCEPT
                           !.favorited = is_favorited_article(req[r].id, req[r].user)])
         /\ ProfileOfAuthor(r) =>
              \/ Stops(r)
              \/ EndsWith(r, [req[r].view EXCEPT
                                !.following = Follows(req[r].view.author, req[r].user)])
<1> DEFINE q == req[r]
<1>0. 404 \in Refusals /\ 500 \in Refusals /\ DOMAIN q = Fields
  BY DEF CallsInv, Refusals, CallInv
<1>1. ASSUME kGetArticleWithAuthorProfile(r)
      PROVE  \/ Stops(r)
             \/ /\ q.id \notin DOMAIN articles
                /\ \E status : StopsWith(r, status, "nonsingle")
             \/ /\ q.id \in DOMAIN articles
                /\ GoesTo(r, "article.tagList", q.id, q.target, ShownRow(q.id))
  <2> DEFINE row == ShownRow(q.id)
             x == [q EXCEPT !.pc = "article.tagList", !.id = q.id,
                            !.target = q.target, !.view = row]
  <2>1. q.pc \in Statements
    BY <1>1 DEF kGetArticleWithAuthorProfile, Statements
  <2>2. CASE q.id \notin DOMAIN articles
    <3>1. Read(r, NoArticle(q))
      BY <1>1, <2>2, Zenon DEF kGetArticleWithAuthorProfile
    <3>2. PICK status \in Refusals : Read(r, Reply(q, status, "nonsingle"))
      BY <1>0, <3>1 DEF NoArticle
    <3> QED BY <2>2, <3>2, ExecutedStops
  <2>3. CASE q.id \in DOMAIN articles
    <3>1. Read(r, [q EXCEPT !.pc = "article.tagList", !.view = row])
      BY <1>1, <2>3, Zenon DEF kGetArticleWithAuthorProfile, ShownRow
    <3> HIDE DEF row
    <3>2. [q EXCEPT !.pc = "article.tagList", !.view = row] = x
      BY <1>0 DEF Fields
    <3>3. Read(r, x)
      BY <3>1, <3>2
    <3>4. GoesTo(r, "article.tagList", q.id, q.target, row) \/ Stops(r)
      BY <2>1, <3>3, ExecutedGoes
    <3> QED BY <2>3, <3>4 DEF row
  <2> QED BY <2>2, <2>3
<1>2. ASSUME TagListOfArticle(r)
      PROVE  \/ Stops(r)
             \/ GoesTo(r, "article.favorited", q.id, q.target,
                       [q.view EXCEPT !.tagList = get_article_tag_list(q.id)])
  <2> DEFINE pc == "article.favorited"
             v(g) == [q.view EXCEPT !.tagList = g]
             x(view) == [q EXCEPT !.pc = pc, !.id = q.id, !.target = q.target,
                                  !.view = view]
  <2>1. PICK g : g = get_article_tag_list(q.id)
    OBVIOUS
  <2>2. q.pc \in Statements /\ Read(r, [q EXCEPT !.pc = pc, !.view.tagList = g])
    BY <1>2, <2>1 DEF TagListOfArticle, Statements
  <2>3. [q EXCEPT !.pc = pc, !.view.tagList = g] = x(v(g))
    BY <1>0 DEF Fields
  <2> HIDE DEF v
  <2>4. GoesTo(r, pc, q.id, q.target, v(g)) \/ Stops(r)
    BY <2>2, <2>3, ExecutedGoes
  <2> QED BY <2>1, <2>4, Zenon DEF v
<1>3. ASSUME FavoritedOfArticle(r)
      PROVE  \/ Stops(r)
             \/ GoesTo(r, "article.following", q.id, q.target,
                       [q.view EXCEPT !.favorited = is_favorited_article(q.id, q.user)])
  <2> DEFINE pc == "article.following"
             v(f) == [q.view EXCEPT !.favorited = f]
             x(view) == [q EXCEPT !.pc = pc, !.id = q.id, !.target = q.target,
                                  !.view = view]
  <2>1. PICK f : f = is_favorited_article(q.id, q.user)
    OBVIOUS
  <2>2. q.pc \in Statements /\ Read(r, [q EXCEPT !.pc = pc, !.view.favorited = f])
    BY <1>3, <2>1, Zenon DEF FavoritedOfArticle, Statements
  <2>3. [q EXCEPT !.pc = pc, !.view.favorited = f] = x(v(f))
    BY <1>0 DEF Fields
  <2> HIDE DEF v
  <2>4. GoesTo(r, pc, q.id, q.target, v(f)) \/ Stops(r)
    BY <2>2, <2>3, ExecutedGoes
  <2> QED BY <2>1, <2>4, Zenon DEF v
<1>4. ASSUME ProfileOfAuthor(r)
      PROVE  \/ Stops(r)
             \/ EndsWith(r, [q.view EXCEPT !.following = Follows(q.view.author, q.user)])
  <2> DEFINE v(w) == [q.view EXCEPT !.following = w]
  <2>1. PICK w : w = Follows(q.view.author, q.user)
    OBVIOUS
  <2>2. Read(r, Reply([q EXCEPT !.view.following = w], 200, "none"))
    BY <1>4, <2>1, Zenon DEF ProfileOfAuthor
  <2>3. [q EXCEPT !.view.following = w] = [q EXCEPT !.view = v(w)]
    BY <1>0 DEF Fields
  <2> HIDE DEF v
  <2>4. EndsWith(r, v(w)) \/ Stops(r)
    BY <2>2, <2>3, ExecutedEnds
  <2> QED BY <2>1, <2>4, Zenon DEF v
<1> QED BY <1>1, <1>2, <1>3, <1>4

LEMMA WritesComment ==
  ASSUME CallsInv, NEW r \in Slots
  PROVE  /\ kAddNewComment(r) =>
              \/ Stops(r)
              \/ /\ add_comment_to_article_error(req[r].arg.slug, req[r].user) = "none"
                 /\ GoesTo(r, "kGetComment", commentSeq + 1, ArticleIdOf(req[r].arg.slug),
                           req[r].view)
         /\ kGetComment(r) =>
              \/ Stops(r)
              \/ EndsWith(r, req[r].view)
              \/ /\ ~ (/\ req[r].id \in DOMAIN comments
                       /\ comments[req[r].id].article \in DOMAIN articles)
                 /\ StopsWith(r, 500, "nonsingle")
                 /\ req'[r].target = req[r].target
         /\ kIsCommentExist(r) =>
              \/ Stops(r)
              \/ /\ is_comment_exist(req[r].arg.comment, req[r].arg.slug, req[r].user)
                 /\ GoesTo(r, "kDeleteComment", req[r].id, req[r].target, req[r].view)
         /\ kDeleteComment(r) => Stops(r) \/ EndsWith(r, req[r].view)
<1> DEFINE q == req[r]
           x(pc, id, target) == [q EXCEPT !.pc = pc, !.id = id, !.target = target,
                                          !.view = q.view]
<1>0. 404 \in Refusals /\ 500 \in Refusals /\ DOMAIN q = Fields
  BY DEF CallsInv, Refusals, CallInv
<1>1. ASSUME NEW pc, NEW id, NEW target, q.pc \in Statements,
             Write(r, x(pc, id, target)) \/ Read(r, x(pc, id, target))
      PROVE  GoesTo(r, pc, id, target, q.view) \/ Stops(r)
  BY <1>1, ExecutedGoes
<1>2. Write(r, Reply(q, 200, "none")) \/ Read(r, Reply(q, 200, "none"))
        => EndsWith(r, q.view) \/ Stops(r)
  BY <1>0, RepliedEnds
<1>3. ASSUME kAddNewComment(r)
      PROVE  \/ Stops(r)
             \/ /\ add_comment_to_article_error(q.arg.slug, q.user) = "none"
                /\ GoesTo(r, "kGetComment", commentSeq + 1, ArticleIdOf(q.arg.slug), q.view)
  <2> DEFINE e == add_comment_to_article_error(q.arg.slug, q.user)
             id == commentSeq + 1
             target == ArticleIdOf(q.arg.slug)
  <2>1. q.pc \in Statements /\ e # "nonsingle"
    BY <1>3 DEF kAddNewComment, Statements, add_comment_to_article_error
  <2>2. \/ Write(r, Reply(q, 500, e))
        \/ /\ e = "none"
           /\ Write(r, [q EXCEPT !.pc = "kGetComment", !.id = id, !.target = target])
    BY <1>3 DEF kAddNewComment
  <2> HIDE DEF id, target, e
  <2>3. [q EXCEPT !.pc = "kGetComment", !.id = id, !.target = target]
          = x("kGetComment", id, target)
    BY <1>0 DEF Fields
  <2>4. Stops(r) \/ (e = "none" /\ GoesTo(r, "kGetComment", id, target, q.view))
    <3> HIDE DEF x
    <3> QED BY <1>0, <1>1, <2>1, <2>2, <2>3, RefusedStops
  <2> QED BY <2>4 DEF id, target, e
<1>4. ASSUME kGetComment(r)
      PROVE  \/ Stops(r)
             \/ EndsWith(r, q.view)
             \/ /\ ~ (/\ q.id \in DOMAIN comments
                      /\ comments[q.id].article \in DOMAIN articles)
                /\ StopsWith(r, 500, "nonsingle")
                /\ req'[r].target = q.target
  <2>1. CASE q.id \in DOMAIN comments /\ comments[q.id].article \in DOMAIN articles
    BY <1>2, <1>4, <2>1 DEF kGetComment
  <2>2. CASE ~ (q.id \in DOMAIN comments /\ comments[q.id].article \in DOMAIN articles)
    <3>1. Read(r, Reply(q, 500, "nonsingle"))
      BY <1>4, <2>2, Zenon DEF kGetComment
    <3>2. req'[r] = Reply(q, 500, "nonsingle")
      BY <3>1 DEF Read, CallsInv
    <3>3. /\ Reply(q, 500, "nonsingle").target = q.target
          /\ Reply(q, 500, "nonsingle").op = q.op
          /\ Reply(q, 500, "nonsingle").pc = "done"
          /\ Reply(q, 500, "nonsingle").status = 500
          /\ Reply(q, 500, "nonsingle").err = "nonsingle"
      BY <1>0 DEF Reply, NewRequest, Fields
    <3> QED BY <1>0, <2>2, <3>2, <3>3 DEF StopsWith
  <2> QED BY <2>1, <2>2
<1>5. ASSUME kIsCommentExist(r)
      PROVE  \/ Stops(r)
             \/ /\ is_comment_exist(q.arg.comment, q.arg.slug, q.user)
                /\ GoesTo(r, "kDeleteComment", q.id, q.target, q.view)
  <2>1. /\ q.pc \in Statements
        /\ \/ Read(r, Reply(q, 404, "none"))
           \/ /\ is_comment_exist(q.arg.comment, q.arg.slug, q.user)
              /\ Read(r, [q EXCEPT !.pc = "kDeleteComment"])
    BY <1>5 DEF kIsCommentExist, Statements
  <2>2. [q EXCEPT !.pc = "kDeleteComment"] = x("kDeleteComment", q.id, q.target)
    BY <1>0 DEF Fields
  <2> HIDE DEF x
  <2> QED BY <1>0, <1>1, <2>1, <2>2, RefusedStops
<1>6. ASSUME kDeleteComment(r)
      PROVE  Stops(r) \/ EndsWith(r, q.view)
  BY <1>2, <1>6 DEF kDeleteComment
<1> QED BY <1>3, <1>4, <1>5, <1>6

(* A list: its rows are chosen in one statement and completed one by one.   *)
Chosen(r, rows, pc) ==
  \/ DOMAIN rows = {} /\ EndsWith(r, rows)
  \/ GoesTo(r, pc, req[r].id, req[r].target, rows)

(* The following flag completes the row numbered i.                         *)
CompletedRows(view, i, following) == [view EXCEPT ![i].following = following]

Completed(r, i, pc) ==
  \E following :
    LET shown == CompletedRows(req[r].view, i, following) IN
    /\ following = (<<req[r].user, req[r].view[i].author>> \in followers)
    /\ \/ EndsWith(r, shown) /\ \A j \in DOMAIN shown : shown[j].following # NULL
       \/ GoesTo(r, pc, req[r].id, req[r].target, shown)

LEMMA ChoosesRows ==
  ASSUME CallsInv, NEW r \in Slots, NEW rows, NEW pc, Lists(r, rows, pc),
         req[r].pc \in Statements
  PROVE  Stops(r) \/ Chosen(r, rows, pc)
<1> DEFINE q == req[r]
           x == [q EXCEPT !.pc = pc, !.id = q.id, !.target = q.target, !.view = rows]
<1>1. [q EXCEPT !.view = rows, !.pc = pc] = x
  BY DEF CallsInv, CallInv, Fields
<1>2. \/ DOMAIN rows = {} /\ Read(r, Reply([q EXCEPT !.view = rows], 200, "none"))
      \/ Read(r, x)
  BY <1>1 DEF Lists
<1>3. Read(r, x) => GoesTo(r, pc, q.id, q.target, rows) \/ Stops(r)
  BY ExecutedGoes
<1> HIDE DEF x
<1> QED BY <1>2, <1>3, ExecutedEnds DEF Chosen

LEMMA CompletesRow ==
  ASSUME CallsInv, NEW r \in Slots, NEW i, NEW pc, CompleteRow(r, i, pc),
         req[r].pc \in Statements
  PROVE  Stops(r) \/ Completed(r, i, pc)
<1> DEFINE q == req[r]
<1>1. PICK w : w = Follows(q.view[i].author, q.user)
  OBVIOUS
<1>2. w = (<<q.user, q.view[i].author>> \in followers)
  BY <1>1, Zenon DEF Follows, is_following
<1> DEFINE shown == CompletedRows(q.view, i, w)
           x == [q EXCEPT !.pc = pc, !.id = q.id, !.target = q.target, !.view = shown]
<1>3. \/ /\ \A j \in DOMAIN shown : shown[j].following # NULL
         /\ Read(r, Reply([q EXCEPT !.view = shown], 200, "none"))
      \/ Read(r, [q EXCEPT !.view = shown, !.pc = pc])
  BY <1>1, Zenon DEF CompleteRow, CompletedRows
<1>4. \/ EndsWith(r, shown) /\ \A j \in DOMAIN shown : shown[j].following # NULL
      \/ GoesTo(r, pc, q.id, q.target, shown)
      \/ Stops(r)
  <2> HIDE DEF shown
  <2>1. [q EXCEPT !.view = shown, !.pc = pc] = x
    BY DEF CallsInv, CallInv, Fields
  <2>2. Read(r, x) => GoesTo(r, pc, q.id, q.target, shown) \/ Stops(r)
    BY ExecutedGoes
  <2> HIDE DEF x
  <2> QED BY <1>3, <2>1, <2>2, ExecutedEnds
<1> QED BY <1>2, <1>4, Zenon DEF Completed

LEMMA ListsRows ==
  ASSUME CallsInv, NEW r \in Slots
  PROVE  /\ kGetArticlesWithAuthorProfile(r) =>
              \/ Stops(r)
              \/ \E page \in SUBSET DOMAIN articles :
                   Chosen(r, [i \in page |-> ListRow(i, FavoritesCount(i))],
                          "row.tagList")
         /\ kGetFeed(r) =>
              \/ Stops(r)
              \/ \E page \in SUBSET Feed(req[r].user) :
                   Chosen(r, [i \in page |-> ListRow(i, Cardinality(favorites))],
                          "row.tagList")
         /\ kGetCommentsFromArticle(r) =>
              \/ Stops(r)
              \/ \E found \in SUBSET DOMAIN comments :
                   Chosen(r, [c \in found |-> [author |-> comments[c].author,
                                               following |-> NULL]], "comment.following")
         /\ TagListOfRow(r) =>
              \/ Stops(r)
              \/ \E i \in DOMAIN req[r].view :
                   /\ req[r].view[i].tagList = NULL
                   /\ GoesTo(r, "row.following", req[r].id, req[r].target,
                             FilledRows(req[r].view, i, get_article_tag_list(i),
                                        is_favorited_article(i, NULL)))
         /\ ProfileOfRow(r) =>
              \/ Stops(r)
              \/ \E i \in DOMAIN req[r].view :
                   req[r].view[i].tagList # NULL /\ Completed(r, i, "row.tagList")
         /\ ProfileOfComment(r) =>
              \/ Stops(r)
              \/ \E i \in DOMAIN req[r].view : Completed(r, i, "comment.following")
<1> DEFINE q == req[r]
<1>0. Read(r, Reply(q, 500, "negative")) => Stops(r)
  <2>1. 500 \in Refusals /\ "negative" # "nonsingle"
    BY DEF Refusals
  <2> QED BY <2>1, RefusedStops
<1>1. ASSUME kGetArticlesWithAuthorProfile(r)
      PROVE  \/ Stops(r)
             \/ \E page \in SUBSET DOMAIN articles :
                  Chosen(r, [i \in page |-> ListRow(i, FavoritesCount(i))],
                         "row.tagList")
  <2> DEFINE pages == Pages(Listed(q.arg), Default(q.arg.limit, DefaultLimit),
                            Default(q.arg.offset, 0))
  <2>1. q.pc \in Statements /\ pages \subseteq SUBSET DOMAIN articles
    BY <1>1 DEF kGetArticlesWithAuthorProfile, Statements, Pages, Listed
  <2>2. \/ Read(r, Reply(q, 500, "negative"))
        \/ \E page \in pages :
             Lists(r, [i \in page |-> ListRow(i, FavoritesCount(i))], "row.tagList")
    BY <1>1, Zenon DEF kGetArticlesWithAuthorProfile
  <2> SUFFICES ASSUME NEW page \in pages,
                      Lists(r, [i \in page |-> ListRow(i, FavoritesCount(i))],
                            "row.tagList")
               PROVE  Stops(r) \/ Chosen(r, [i \in page |-> ListRow(i, FavoritesCount(i))],
                                         "row.tagList")
    BY <1>0, <2>1, <2>2, Zenon
  <2> DEFINE rows == [i \in page |-> ListRow(i, FavoritesCount(i))]
  <2>3. Stops(r) \/ Chosen(r, rows, "row.tagList")
    <3> HIDE DEF rows
    <3>1. Lists(r, rows, "row.tagList")
      BY DEF rows
    <3> QED BY <2>1, <3>1, ChoosesRows
  <2> QED BY <2>3, Zenon
<1>2. ASSUME kGetFeed(r)
      PROVE  \/ Stops(r)
             \/ \E page \in SUBSET Feed(q.user) :
                  Chosen(r, [i \in page |-> ListRow(i, Cardinality(favorites))],
                         "row.tagList")
  <2> DEFINE pages == Pages(Feed(q.user), q.arg.limit, Default(q.arg.offset, 0))
  <2>1. q.pc \in Statements /\ pages \subseteq SUBSET Feed(q.user)
    BY <1>2 DEF kGetFeed, Statements, Pages
  <2>2. \/ Read(r, Reply(q, 500, "negative"))
        \/ \E page \in pages :
             Lists(r, [i \in page |-> ListRow(i, Cardinality(favorites))], "row.tagList")
    BY <1>2, Zenon DEF kGetFeed
  <2> SUFFICES ASSUME NEW page \in pages,
                      Lists(r, [i \in page |-> ListRow(i, Cardinality(favorites))],
                            "row.tagList")
               PROVE  Stops(r) \/ Chosen(r, [i \in page |-> ListRow(i, Cardinality(favorites))],
                                         "row.tagList")
    BY <1>0, <2>1, <2>2, Zenon
  <2> DEFINE rows == [i \in page |-> ListRow(i, Cardinality(favorites))]
  <2>3. Stops(r) \/ Chosen(r, rows, "row.tagList")
    <3> HIDE DEF rows
    <3>1. Lists(r, rows, "row.tagList")
      BY DEF rows
    <3> QED BY <2>1, <3>1, ChoosesRows
  <2> QED BY <2>3, Zenon
<1>3. ASSUME kGetCommentsFromArticle(r)
      PROVE  \/ Stops(r)
             \/ \E found \in SUBSET DOMAIN comments :
                  Chosen(r, [c \in found |-> [author |-> comments[c].author,
                                              following |-> NULL]], "comment.following")
  <2> DEFINE found == CommentsOn(get_article_id_by_slug(q.arg.slug))
             rows == [c \in found |-> [author |-> comments[c].author, following |-> NULL]]
  <2>1. found \in SUBSET DOMAIN comments
    BY DEF CommentsOn
  <2>2. q.pc \in Statements /\ Lists(r, rows, "comment.following")
    BY <1>3 DEF kGetCommentsFromArticle, Statements
  <2> HIDE DEF found
  <2>3. Stops(r) \/ Chosen(r, rows, "comment.following")
    <3> HIDE DEF rows
    <3> QED BY <2>2, ChoosesRows
  <2> QED BY <2>1, <2>3, Zenon
<1>4. ASSUME TagListOfRow(r)
      PROVE  \/ Stops(r)
             \/ \E i \in DOMAIN q.view :
                  /\ q.view[i].tagList = NULL
                  /\ GoesTo(r, "row.following", q.id, q.target,
                            FilledRows(q.view, i, get_article_tag_list(i),
                                       is_favorited_article(i, NULL)))
  <2> DEFINE pc == "row.following"
             x(v) == [q EXCEPT !.pc = pc, !.id = q.id, !.target = q.target, !.view = v]
  <2>0. DOMAIN q = Fields /\ q.pc = "row.tagList" /\ q.pc \in Statements
    BY <1>4, Zenon DEF CallsInv, CallInv, TagListOfRow, Statements
  <2>1. PICK i \in DOMAIN q.view :
          /\ q.view[i].tagList = NULL
          /\ Read(r, [q EXCEPT !.pc = pc,
                      !.view = FilledRows(q.view, i, get_article_tag_list(i),
                                          is_favorited_article(i, NULL))])
    BY <1>4, <2>0, TagListOfRowFills, Zenon
  <2>2. PICK v : v = FilledRows(q.view, i, get_article_tag_list(i),
                                is_favorited_article(i, NULL))
    OBVIOUS
  <2>3. Read(r, [q EXCEPT !.pc = pc, !.view = v])
    BY <2>1, <2>2, Zenon
  <2>4. [q EXCEPT !.pc = pc, !.view = v] = x(v)
    BY <2>0 DEF Fields
  <2>5. GoesTo(r, pc, q.id, q.target, v) \/ Stops(r)
    BY <2>0, <2>3, <2>4, ExecutedGoes
  <2> QED BY <2>1, <2>2, <2>5, Zenon
<1>5. ASSUME ProfileOfRow(r)
      PROVE  \/ Stops(r)
             \/ \E i \in DOMAIN q.view :
                  q.view[i].tagList # NULL /\ Completed(r, i, "row.tagList")
  <2>1. /\ q.pc \in Statements
        /\ \E i \in DOMAIN q.view :
             q.view[i].tagList # NULL /\ CompleteRow(r, i, "row.tagList")
    BY <1>5 DEF ProfileOfRow, Statements
  <2> QED BY <2>1, CompletesRow
<1>6. ASSUME ProfileOfComment(r)
      PROVE  \/ Stops(r)
             \/ \E i \in DOMAIN q.view : Completed(r, i, "comment.following")
  <2>1. /\ q.pc \in Statements
        /\ \E i \in DOMAIN q.view : CompleteRow(r, i, "comment.following")
    BY <1>6 DEF ProfileOfComment, Statements
  <2> QED BY <2>1, CompletesRow
<1> QED BY <1>1, <1>2, <1>3, <1>4, <1>5, <1>6

-----------------------------------------------------------------------------
(* Which statement brought a request where it is.                           *)

LEMMA Arrived ==
  ASSUME CallsInv, SerialsDrawn, NEW r \in Slots, Step(r) \/ ExecuteFails(r)
  PROVE  /\ req'[r].pc = "article.tagList" => kGetArticleWithAuthorProfile(r)
         /\ req'[r].pc = "article.favorited" => TagListOfArticle(r)
         /\ req'[r].pc = "article.following" => FavoritedOfArticle(r)
         /\ req'[r].pc = "kGetArticleWithAuthorProfile" =>
              \/ kAddNewArticle(r) \/ kUpdateArticleBySlug(r)
              \/ kFavoriteArticle(r) \/ kUnfavoriteArticle(r)
              \/ kGetArticleWithAuthorProfileBySlug(r)
         /\ req'[r].pc \in {"kDeleteArticleBySlug", "kFavoriteArticle", "kUnfavoriteArticle"}
              => kGetArticleIdBySlug(r)
         /\ req'[r].pc = "kDeleteComment" => kIsCommentExist(r)
         /\ req'[r].pc = "kGetComment" => kAddNewComment(r)
         /\ req'[r].pc = "row.tagList" =>
              kGetArticlesWithAuthorProfile(r) \/ kGetFeed(r) \/ ProfileOfRow(r)
         /\ req'[r].pc = "row.following" => TagListOfRow(r)
         /\ req'[r].pc = "comment.following" =>
              kGetCommentsFromArticle(r) \/ ProfileOfComment(r)
         /\ req'[r].status = 200 =>
              /\ req[r].op \in ShowsOne => ProfileOfAuthor(r)
              /\ req[r].op \in ShowsMany =>
                   kGetArticlesWithAuthorProfile(r) \/ kGetFeed(r) \/ ProfileOfRow(r)
              /\ req[r].op = "get_comments" =>
                   kGetCommentsFromArticle(r) \/ ProfileOfComment(r)
              /\ req[r].op = "del_article" => kDeleteArticleBySlug(r)
              /\ req[r].op = "del_comment" => kDeleteComment(r)
              /\ req[r].op = "post_comment" => kGetComment(r)
<1> DEFINE q == req[r]
           n == req'[r]
<1>0. /\ CallInv(q) /\ q.pc \in Statements /\ Shape(q, n) /\ Serves(q.pc, q.op)
      /\ Stops(r) => n.pc = "done" /\ n.status # 200
  BY StepShape, StepInFlight, Caller DEF CallsInv, Stops, StopsWith, Refusals
<1>1. CASE ExecuteFails(r)
  <2>1. n = Reply(q, 500, "io")
    BY <1>1 DEF ExecuteFails, CallsInv
  <2>2. n.pc = "done" /\ n.status = 500
    BY <2>1 DEF Reply, NewRequest
  <2> QED BY <2>2
<1>2. CASE AccountStep(r)
  <2>1. q.pc \in {"kAddNewUser", "kGetUserByEmail", "kGetUserById", "kUpdateUserById",
                  "kGetProfileByUsername", "kGetUserByUsername", "kFollow", "kUnfollow"}
    BY <1>2 DEF AccountStep, kAddNewUser, kGetUserByEmail, kGetUserById, kUpdateUserById,
       kGetProfileByUsername, kGetUserByUsername, kFollow, kUnfollow
  <2>2. q.op \in {"post_user", "login", "get_user", "put_user", "get_profile", "follow",
                  "unfollow"}
    BY <1>0, <2>1 DEF Serves
  <2> QED BY <1>0, <2>2
       DEF Shape, GoesOn, Succeeds, Fails, Serves, ShowsOne, ShowsMany
<1>3. CASE \/ kAddNewArticle(r) \/ kUpdateArticleBySlug(r) \/ kFavoriteArticle(r)
           \/ kUnfavoriteArticle(r) \/ kGetArticleWithAuthorProfileBySlug(r)
  <2>1. \/ Stops(r)
        \/ \E id, target : GoesTo(r, "kGetArticleWithAuthorProfile", id, target, q.view)
    BY <1>3, WritesArticle, WritesFavorite, FindsArticle, Zenon
  <2>2. n.pc \in {"done", "kGetArticleWithAuthorProfile"} /\ n.status # 200
    BY <1>0, <2>1 DEF GoesTo
  <2> QED BY <1>3, <2>2
<1>4. CASE kGetArticleIdBySlug(r)
  <2>1. \/ Stops(r)
        \/ \E id : GoesTo(r, AfterLookup[q.op], id, q.target, q.view)
    BY <1>4, FindsArticle, Zenon
  <2>2. q.op \in {"del_article", "post_favorite", "del_favorite"}
    BY <1>0, <1>4 DEF Serves, kGetArticleIdBySlug
  <2>3. /\ n.pc \in {"done", "kDeleteArticleBySlug", "kFavoriteArticle", "kUnfavoriteArticle"}
        /\ n.status # 200
    BY <1>0, <2>1, <2>2 DEF GoesTo, AfterLookup
  <2> QED BY <1>4, <2>3
<1>5. CASE kDeleteArticleBySlug(r) \/ kDeleteComment(r) \/ kGetComment(r)
  <2>1. n.pc = "done"
    BY <1>0, <1>5, WritesArticle, WritesComment DEF EndsWith, StopsWith
  <2>2. q.pc \in {"kDeleteArticleBySlug", "kDeleteComment", "kGetComment"}
    BY <1>5 DEF kDeleteArticleBySlug, kDeleteComment, kGetComment
  <2>3. /\ kDeleteArticleBySlug(r) => q.op = "del_article"
        /\ kDeleteComment(r) => q.op = "del_comment"
        /\ kGetComment(r) => q.op = "post_comment"
    BY <1>0 DEF Serves, kDeleteArticleBySlug, kDeleteComment, kGetComment
  <2> QED BY <1>5, <2>1, <2>3 DEF ShowsOne, ShowsMany
<1>6. CASE kGetArticleWithAuthorProfile(r)
  <2>0. \/ Stops(r) \/ \E status : StopsWith(r, status, "nonsingle")
        \/ \E view : GoesTo(r, "article.tagList", q.id, q.target, view)
    BY <1>6, ShowsArticle, Zenon
  <2>1. n.pc \in {"done", "article.tagList"} /\ n.status # 200
    BY <1>0, <2>0 DEF GoesTo, StopsWith, Refusals
  <2> QED BY <1>6, <2>1
<1>7. CASE TagListOfArticle(r) \/ FavoritedOfArticle(r)
  <2>1. \/ Stops(r)
        \/ TagListOfArticle(r) /\ \E id, target, view :
             GoesTo(r, "article.favorited", id, target, view)
        \/ FavoritedOfArticle(r) /\ \E id, target, view :
             GoesTo(r, "article.following", id, target, view)
    BY <1>7, ShowsArticle, Zenon
  <2>2. /\ n.pc \in {"done", "article.favorited", "article.following"} /\ n.status # 200
        /\ n.pc = "article.favorited" => TagListOfArticle(r)
        /\ n.pc = "article.following" => FavoritedOfArticle(r)
    BY <1>0, <2>1 DEF GoesTo
  <2> QED BY <2>2
<1>12. CASE ProfileOfAuthor(r)
  <2>1. Stops(r) \/ \E view : EndsWith(r, view)
    BY <1>12, ShowsArticle, Zenon
  <2>2. n.pc = "done"
    BY <1>0, <2>1 DEF EndsWith
  <2>3. q.op \in ShowsOne
    BY <1>0, <1>12 DEF Serves, ProfileOfAuthor
  <2> QED BY <1>12, <2>2, <2>3 DEF ShowsOne, ShowsMany
<1>8. CASE kAddNewComment(r) \/ kIsCommentExist(r)
  <2>1. /\ n.status # 200
        /\ \/ n.pc = "done"
           \/ kAddNewComment(r) /\ n.pc = "kGetComment"
           \/ kIsCommentExist(r) /\ n.pc = "kDeleteComment"
    BY <1>0, <1>8, WritesComment DEF GoesTo
  <2> QED BY <1>8, <2>1
<1>9. CASE kGetArticlesWithAuthorProfile(r) \/ kGetFeed(r) \/ ProfileOfRow(r)
  <2>1. q.pc \in {"kGetArticlesWithAuthorProfile", "kGetFeed", "row.following"}
    BY <1>9 DEF kGetArticlesWithAuthorProfile, kGetFeed, ProfileOfRow
  <2>2. q.op \in ShowsMany
    BY <1>0, <2>1 DEF Serves, ShowsMany
  <2>3. \/ Stops(r) \/ \E rows : Chosen(r, rows, "row.tagList")
        \/ \E i : Completed(r, i, "row.tagList")
    BY <1>9, ListsRows, Zenon
  <2>4. n.pc \in {"done", "row.tagList"}
    <3>1. Stops(r) \/ \E id, target, view : \/ EndsWith(r, view)
                                             \/ GoesTo(r, "row.tagList", id, target, view)
      BY <2>3, Zenon DEF Chosen, Completed
    <3> QED BY <1>0, <3>1 DEF EndsWith, GoesTo
  <2> QED BY <1>9, <2>2, <2>4 DEF ShowsMany, ShowsOne
<1>13. CASE TagListOfRow(r)
  <2>1. Stops(r) \/ \E id, target, view : GoesTo(r, "row.following", id, target, view)
    BY <1>13, ListsRows, Zenon
  <2>2. n.pc \in {"done", "row.following"} /\ n.status # 200
    BY <1>0, <2>1 DEF GoesTo
  <2> QED BY <1>13, <2>2
<1>10. CASE kGetCommentsFromArticle(r) \/ ProfileOfComment(r)
  <2>1. q.pc \in {"kGetCommentsFromArticle", "comment.following"}
    BY <1>10 DEF kGetCommentsFromArticle, ProfileOfComment
  <2>2. q.op = "get_comments"
    BY <1>0, <2>1 DEF Serves
  <2> QED BY <1>0, <1>10, <2>2
       DEF Shape, GoesOn, Succeeds, Fails, Serves, ShowsOne, ShowsMany
<1>11. CASE kGetTags(r)
  <2>1. q.op = "get_tags"
    BY <1>0, <1>11 DEF Serves, kGetTags
  <2> QED BY <1>0, <2>1
       DEF Shape, GoesOn, Succeeds, Fails, Serves, ShowsOne, ShowsMany
<1> QED BY <1>1, <1>2, <1>3, <1>4, <1>5, <1>6, <1>7, <1>8, <1>9, <1>10, <1>11,
       <1>12, <1>13, Zenon
       DEF Step, ArticleStep, ListStep

(* A slot keeps its request, begins or refuses another one, or executes.    *)
Fresh(r) ==
  /\ req'[r].pc \in FirstStatements \cup {"done"}
  /\ req'[r].status # 200 /\ req'[r].err # "nonsingle"
  /\ UNCHANGED dbVars

LEMMA SlotMoves ==
  ASSUME ServiceInv, [Next]_vars, NEW r \in Slots
  PROVE  \/ req'[r] = req[r]
         \/ Fresh(r)
         \/ Step(r) \/ ExecuteFails(r)
<1>0. CallsInv /\ SerialsDrawn
  BY DEF ServiceInv, IntegrityInv
<1>1. CASE UNCHANGED vars
  BY <1>1 DEF vars
<1>2. ASSUME NEW s \in Slots, Turn(s),
             \/ ~InFlight(s) /\ (Begins(s) \/ Refuses(s)) /\ UNCHANGED dbVars
             \/ ExecuteFails(s)
             \/ Step(s)
      PROVE  \/ req'[r] = req[r]
             \/ Fresh(r)
             \/ Step(r) \/ ExecuteFails(r)
  <2>1. CASE s # r
    BY <1>2, <2>1 DEF Turn
  <2>2. CASE s = r /\ Begins(s) /\ UNCHANGED dbVars
    <3>0. PICK op \in Routes, pc \in FirstStatements : \E user, arg :
            req'[r] = NewRequest(op, user, arg, pc)
      BY <2>2 DEF Begins
    <3>1. PICK user, arg : req'[r] = NewRequest(op, user, arg, pc)
      BY <3>0
    <3>2. req'[r].pc = pc /\ req'[r].status = 0 /\ req'[r].err = "none"
      BY <3>1 DEF NewRequest
    <3> QED BY <2>2, <3>2 DEF Fresh
  <2>3. CASE s = r /\ Refuses(s) /\ UNCHANGED dbVars
    <3>1. PICK status \in Refusals : req'[r] = Reply(Idle, status, "rejected")
      BY <2>3 DEF Refuses
    <3>2. /\ Reply(Idle, status, "rejected").pc = "done"
          /\ Reply(Idle, status, "rejected").status = status
          /\ Reply(Idle, status, "rejected").err = "rejected"
      BY DEF Reply, NewRequest, Refusals
    <3> QED BY <2>3, <3>1, <3>2 DEF Fresh, Refusals
  <2> QED BY <1>2, <2>1, <2>2, <2>3
<1> QED BY <1>0, <1>1, <1>2, TurnOfSlot

LEMMA Reading ==
  ASSUME NEW r \in Slots,
         \/ kGetArticleIdBySlug(r) \/ kGetArticleWithAuthorProfileBySlug(r)
         \/ kGetArticleWithAuthorProfile(r) \/ TagListOfArticle(r)
         \/ FavoritedOfArticle(r) \/ ProfileOfAuthor(r)
         \/ kGetComment(r) \/ kIsCommentExist(r) \/ ListStep(r)
  PROVE  UNCHANGED dbVars
<1>1. CASE ListStep(r)
  BY <1>1, ListStepReads
<1>2. CASE \/ kGetArticleIdBySlug(r) \/ kGetArticleWithAuthorProfileBySlug(r)
           \/ kGetArticleWithAuthorProfile(r) \/ TagListOfArticle(r)
           \/ FavoritedOfArticle(r) \/ ProfileOfAuthor(r)
           \/ kGetComment(r) \/ kIsCommentExist(r)
  BY <1>2 DEF kGetArticleIdBySlug, kGetArticleWithAuthorProfileBySlug,
     kGetArticleWithAuthorProfile, TagListOfArticle, FavoritedOfArticle, ProfileOfAuthor,
     kGetComment, kIsCommentExist, Read
<1> QED BY <1>1, <1>2

LEMMA ListRowFields ==
  ASSUME NEW i, NEW k
  PROVE  /\ DOMAIN ListRow(i, k) = RowFields
         /\ ListRow(i, k).following = NULL /\ ListRow(i, k).tagList = NULL
         /\ ListRow(i, k).author = articles[i].author
  BY DEF ListRow, RowFields

LEMMA RowsOfArticles ==
  ASSUME CallsInv, NEW r \in Slots, kGetArticlesWithAuthorProfile(r) \/ kGetFeed(r), ~Stops(r)
  PROVE  \E rows :
           /\ Chosen(r, rows, "row.tagList")
           /\ \A i \in DOMAIN rows :
                /\ i \in DOMAIN articles /\ DOMAIN rows[i] = RowFields
                /\ rows[i].following = NULL /\ rows[i].tagList = NULL
                /\ rows[i].author = articles[i].author
                /\ kGetFeed(r) => i \in Feed(req[r].user)
<1>1. CASE kGetArticlesWithAuthorProfile(r)
  <2>1. PICK page \in SUBSET DOMAIN articles :
          Chosen(r, [i \in page |-> ListRow(i, FavoritesCount(i))], "row.tagList")
    BY <1>1, ListsRows, Zenon
  <2>2. ~kGetFeed(r)
    BY <1>1 DEF kGetArticlesWithAuthorProfile, kGetFeed
  <2> DEFINE rows == [i \in page |-> ListRow(i, FavoritesCount(i))]
  <2>3. ASSUME NEW i \in DOMAIN rows
        PROVE  /\ i \in DOMAIN articles /\ DOMAIN rows[i] = RowFields
               /\ rows[i].following = NULL /\ rows[i].tagList = NULL
               /\ rows[i].author = articles[i].author
    <3>1. PICK k : k = FavoritesCount(i)
      OBVIOUS
    <3>2. i \in DOMAIN articles /\ rows[i] = ListRow(i, k)
      BY <3>1
    <3> HIDE DEF rows
    <3> QED BY <3>2, ListRowFields
  <2> HIDE DEF rows
  <2> QED BY <2>1, <2>2, <2>3 DEF rows
<1>2. CASE kGetFeed(r)
  <2>1. PICK page \in SUBSET Feed(req[r].user) :
          Chosen(r, [i \in page |-> ListRow(i, Cardinality(favorites))],
                 "row.tagList")
    BY <1>2, ListsRows, Zenon
  <2> DEFINE rows == [i \in page |-> ListRow(i, Cardinality(favorites))]
  <2>2. ASSUME NEW i \in DOMAIN rows
        PROVE  /\ i \in DOMAIN articles /\ DOMAIN rows[i] = RowFields
               /\ rows[i].following = NULL /\ rows[i].tagList = NULL
               /\ rows[i].author = articles[i].author
               /\ i \in Feed(req[r].user)
    <3>1. PICK k : k = Cardinality(favorites)
      OBVIOUS
    <3>2. i \in Feed(req[r].user) /\ i \in DOMAIN articles
      BY DEF Feed
    <3>3. rows[i] = ListRow(i, k)
      BY <3>1
    <3> HIDE DEF rows
    <3> QED BY <3>2, <3>3, ListRowFields
  <2> HIDE DEF rows
  <2> QED BY <2>1, <2>2 DEF rows
<1> QED BY <1>1, <1>2

(* A row that is given its tags keeps its author and its following flag.    *)
LEMMA OneFilled ==
  ASSUME CallsInv, NEW r \in Slots, TagListOfRow(r), ~Stops(r),
         \A j \in DOMAIN req[r].view : DOMAIN req[r].view[j] = RowFields
  PROVE  /\ req'[r].status # 200
         /\ DOMAIN req'[r].view = DOMAIN req[r].view
         /\ \A j \in DOMAIN req[r].view :
              /\ DOMAIN req'[r].view[j] = RowFields
              /\ req'[r].view[j].author = req[r].view[j].author
              /\ req'[r].view[j].following = req[r].view[j].following
              /\ \/ req'[r].view[j].tagList = req[r].view[j].tagList
                 \/ /\ req[r].view[j].tagList = NULL
                    /\ req'[r].view[j].tagList = TagsOf(j)
<1>0. PICK view : view = req[r].view
  OBVIOUS
<1>1. PICK i \in DOMAIN view :
        /\ view[i].tagList = NULL
        /\ GoesTo(r, "row.following", req[r].id, req[r].target,
                  FilledRows(req[r].view, i, get_article_tag_list(i),
                             is_favorited_article(i, NULL)))
  BY <1>0, ListsRows, Zenon
<1>2. PICK g, f : g = get_article_tag_list(i) /\ f = is_favorited_article(i, NULL)
  OBVIOUS
<1>3. req'[r].view = FilledRows(view, i, g, f) /\ req'[r].status = 0
  BY <1>0, <1>1, <1>2, Zenon DEF GoesTo
<1>4. g = TagsOf(i)
  BY <1>2 DEF get_article_tag_list, TagsOf
<1>5. /\ DOMAIN FilledRows(view, i, g, f) = DOMAIN view
      /\ \A j \in DOMAIN view :
           /\ DOMAIN FilledRows(view, i, g, f)[j] = RowFields
           /\ FilledRows(view, i, g, f)[j].author = view[j].author
           /\ FilledRows(view, i, g, f)[j].following = view[j].following
           /\ \/ FilledRows(view, i, g, f)[j].tagList = view[j].tagList
              \/ j = i /\ FilledRows(view, i, g, f)[j].tagList = g
  BY <1>0, <1>1 DEF FilledRows, RowFields
<1> QED BY <1>0, <1>1, <1>3, <1>4, <1>5

(* A row completed has the flag as it is, and the rest as it was.           *)
RowCompleted(r, i) ==
  /\ DOMAIN req'[r].view = DOMAIN req[r].view
  /\ \A j \in DOMAIN req[r].view :
       /\ DOMAIN req'[r].view[j] = DOMAIN req[r].view[j]
       /\ \A f \in DOMAIN req[r].view[j] \ {"following"} :
            req'[r].view[j][f] = req[r].view[j][f]
       /\ \/ j # i /\ req'[r].view[j].following = req[r].view[j].following
          \/ j = i /\ req'[r].view[j].following
                       = (<<req[r].user, req[r].view[j].author>> \in followers)
       /\ req'[r].status = 200 => req'[r].view[j].following # NULL

LEMMA OneCompleted ==
  ASSUME NEW r \in Slots, NEW i, i \in DOMAIN req[r].view, NEW pc, Completed(r, i, pc),
         \A j \in DOMAIN req[r].view :
           {"author", "following"} \subseteq DOMAIN req[r].view[j]
  PROVE  RowCompleted(r, i)
<1>1. PICK view : view = req[r].view
  OBVIOUS
<1>2. PICK w :
        /\ w = (<<req[r].user, view[i].author>> \in followers)
        /\ \/ /\ EndsWith(r, CompletedRows(view, i, w))
              /\ \A j \in DOMAIN CompletedRows(view, i, w) :
                   CompletedRows(view, i, w)[j].following # NULL
           \/ GoesTo(r, pc, req[r].id, req[r].target, CompletedRows(view, i, w))
  BY <1>1, Zenon DEF Completed
<1>3. PICK shown : shown = CompletedRows(view, i, w)
  OBVIOUS
<1>4. /\ req'[r].view = shown
      /\ req'[r].status = 200 => \A j \in DOMAIN shown : shown[j].following # NULL
  BY <1>2, <1>3 DEF EndsWith, GoesTo
<1>5. /\ DOMAIN shown = DOMAIN view
      /\ \A j \in DOMAIN view :
           /\ DOMAIN shown[j] = DOMAIN view[j]
           /\ \A f \in DOMAIN view[j] \ {"following"} : shown[j][f] = view[j][f]
           /\ j # i => shown[j].following = view[j].following
      /\ shown[i].following = w
  BY <1>1, <1>3 DEF CompletedRows
<1>6. shown[i].following = (<<req[r].user, view[i].author>> \in followers)
  BY <1>2, <1>5, Zenon
<1> QED BY <1>1, <1>4, <1>5, <1>6, Zenon DEF RowCompleted

-----------------------------------------------------------------------------
(* Tags.                                                                    *)

TagsInv == \A r \in Slots : TagsKnown(req[r])

(* What each statement that shows an article fills in.                      *)
FieldFilled(r, field, value) ==
  /\ DOMAIN req'[r].view = ShownFields /\ req'[r].view[field] = value
  /\ \A f \in ShownFields \ {field} : req'[r].view[f] = req[r].view[f]

LEMMA FillsArticle ==
  ASSUME CallsInv, NEW r \in Slots, ~Stops(r), TagsKnown(req[r])
  PROVE  /\ TagListOfArticle(r) =>
              /\ req[r].pc = "article.tagList"
              /\ GoesTo(r, "article.favorited", req[r].id, req[r].target, req'[r].view)
              /\ FieldFilled(r, "tagList", TagsOf(req[r].id))
         /\ FavoritedOfArticle(r) =>
              /\ req[r].pc = "article.favorited"
              /\ GoesTo(r, "article.following", req[r].id, req[r].target, req'[r].view)
              /\ FieldFilled(r, "favorited", <<req[r].user, req[r].id>> \in favorites)
         /\ ProfileOfAuthor(r) =>
              /\ req[r].pc = "article.following"
              /\ EndsWith(r, req'[r].view)
              /\ FieldFilled(r, "following", <<req[r].user, req[r].view.author>> \in followers)
<1> DEFINE q == req[r]
<1>1. PICK view : view = q.view
  OBVIOUS
<1>2. ASSUME NEW field \in ShownFields, NEW value, q.pc \in Shown,
             req'[r].view = [view EXCEPT ![field] = value]
      PROVE  FieldFilled(r, field, value)
  <2>1. DOMAIN view = ShownFields
    BY <1>1, <1>2 DEF TagsKnown
  <2> QED BY <1>1, <1>2, <2>1 DEF FieldFilled
<1>3. ASSUME TagListOfArticle(r)
      PROVE  /\ q.pc = "article.tagList"
             /\ GoesTo(r, "article.favorited", q.id, q.target, req'[r].view)
             /\ FieldFilled(r, "tagList", TagsOf(q.id))
  <2>1. PICK v, g : v = [view EXCEPT !.tagList = g] /\ g = get_article_tag_list(q.id)
    OBVIOUS
  <2>2. GoesTo(r, "article.favorited", q.id, q.target, v)
    BY <1>1, <1>3, <2>1, ShowsArticle, Zenon
  <2>3. req'[r].view = v
    BY <2>2 DEF GoesTo
  <2>4. q.pc = "article.tagList" /\ q.pc \in Shown /\ "tagList" \in ShownFields
    BY <1>3 DEF TagListOfArticle, Shown, ShownFields
  <2>5. FieldFilled(r, "tagList", g)
    BY <1>2, <2>1, <2>3, <2>4, Zenon
  <2> QED BY <2>1, <2>2, <2>3, <2>4, <2>5 DEF get_article_tag_list, TagsOf
<1>4. ASSUME FavoritedOfArticle(r)
      PROVE  /\ q.pc = "article.favorited"
             /\ GoesTo(r, "article.following", q.id, q.target, req'[r].view)
             /\ FieldFilled(r, "favorited", <<q.user, q.id>> \in favorites)
  <2>1. PICK v, f : v = [view EXCEPT !.favorited = f]
                    /\ f = is_favorited_article(q.id, q.user)
    OBVIOUS
  <2>2. GoesTo(r, "article.following", q.id, q.target, v)
    BY <1>1, <1>4, <2>1, ShowsArticle, Zenon
  <2>3. req'[r].view = v
    BY <2>2 DEF GoesTo
  <2>4. q.pc = "article.favorited" /\ q.pc \in Shown /\ "favorited" \in ShownFields
    BY <1>4 DEF FavoritedOfArticle, Shown, ShownFields
  <2>5. FieldFilled(r, "favorited", f)
    BY <1>2, <2>1, <2>3, <2>4, Zenon
  <2>6. FieldFilled(r, "favorited", <<q.user, q.id>> \in favorites)
    BY <2>1, <2>5, Zenon DEF is_favorited_article
  <2> QED BY <2>2, <2>3, <2>4, <2>6
<1>5. ASSUME ProfileOfAuthor(r)
      PROVE  /\ q.pc = "article.following"
             /\ EndsWith(r, req'[r].view)
             /\ FieldFilled(r, "following", <<q.user, q.view.author>> \in followers)
  <2>1. PICK v, w : v = [view EXCEPT !.following = w] /\ w = Follows(view.author, q.user)
    OBVIOUS
  <2>2. EndsWith(r, v)
    BY <1>1, <1>5, <2>1, ShowsArticle, Zenon
  <2>3. req'[r].view = v
    BY <2>2 DEF EndsWith
  <2>4. q.pc = "article.following" /\ q.pc \in Shown /\ "following" \in ShownFields
    BY <1>5 DEF ProfileOfAuthor, Shown, ShownFields
  <2>5. FieldFilled(r, "following", w)
    BY <1>2, <2>1, <2>3, <2>4, Zenon
  <2>6. FieldFilled(r, "following", <<q.user, q.view.author>> \in followers)
    BY <1>1, <2>1, <2>5, Zenon DEF Follows, is_following
  <2> QED BY <2>2, <2>3, <2>4, <2>6
<1> QED BY <1>3, <1>4, <1>5, Zenon

LEMMA TagsOfRows ==
  ASSUME CallsInv, NEW r \in Slots, ~Stops(r),
         \/ kGetArticlesWithAuthorProfile(r) \/ kGetFeed(r)
         \/ TagListOfRow(r) \/ ProfileOfRow(r),
         DOMAIN articles \subseteq 1..articleSeq, TagsKnown(req[r])
  PROVE  \A i \in DOMAIN req'[r].view :
           /\ i \in 1..articleSeq /\ DOMAIN req'[r].view[i] = RowFields
           /\ i \in DOMAIN articles /\ req'[r].view[i].tagList # NULL
                => req'[r].view[i].tagList = TagsOf(i)
           /\ req'[r].view[i].following # NULL => req'[r].view[i].tagList # NULL
           /\ req'[r].status = 200 => req'[r].view[i].following # NULL
<1>1. CASE kGetArticlesWithAuthorProfile(r) \/ kGetFeed(r)
  <2>1. PICK rows :
          /\ Chosen(r, rows, "row.tagList")
          /\ \A i \in DOMAIN rows :
               /\ i \in DOMAIN articles /\ DOMAIN rows[i] = RowFields
               /\ rows[i].following = NULL /\ rows[i].tagList = NULL
               /\ rows[i].author = articles[i].author
               /\ kGetFeed(r) => i \in Feed(req[r].user)
    BY <1>1, RowsOfArticles
  <2>2. req'[r].view = rows /\ (req'[r].status = 200 => DOMAIN rows = {})
    BY <2>1 DEF Chosen, EndsWith, GoesTo
  <2> QED BY <2>1, <2>2
<1>2. CASE TagListOfRow(r) \/ ProfileOfRow(r)
  <2>1. req[r].pc \in InRows
    BY <1>2 DEF TagListOfRow, ProfileOfRow, InRows
  <2>2. \A j \in DOMAIN req[r].view :
          /\ j \in 1..articleSeq /\ DOMAIN req[r].view[j] = RowFields
          /\ j \in DOMAIN articles /\ req[r].view[j].tagList # NULL
               => req[r].view[j].tagList = TagsOf(j)
          /\ req[r].view[j].following # NULL => req[r].view[j].tagList # NULL
    BY <2>1 DEF TagsKnown
  <2>3. CASE TagListOfRow(r)
    BY <2>2, <2>3, OneFilled
  <2>4. CASE ProfileOfRow(r)
    <3>1. PICK i \in DOMAIN req[r].view :
            req[r].view[i].tagList # NULL /\ Completed(r, i, "row.tagList")
      BY <2>4, ListsRows, Zenon
    <3>2. {"author", "following"} \subseteq RowFields /\ "tagList" \in RowFields \ {"following"}
      BY DEF RowFields
    <3>3. \A j \in DOMAIN req[r].view :
            {"author", "following"} \subseteq DOMAIN req[r].view[j]
      BY <2>2, <3>2
    <3>4. RowCompleted(r, i)
      BY <3>1, <3>3, OneCompleted
    <3>5. \A j \in DOMAIN req[r].view : req'[r].view[j].tagList = req[r].view[j].tagList
      BY <2>2, <3>2, <3>4 DEF RowCompleted
    <3> QED BY <2>2, <3>1, <3>4, <3>5 DEF RowCompleted
  <2> QED BY <1>2, <2>3, <2>4
<1> QED BY <1>1, <1>2

LEMMA TagsStep ==
  ASSUME ServiceInv, TagsInv, [Next]_vars
  PROVE  TagsInv'
<1> SUFFICES ASSUME NEW r \in Slots PROVE TagsKnown(req[r])'
  BY DEF TagsInv
<1> DEFINE q == req[r]
           n == req'[r]
<1>0. /\ CallsInv /\ SerialsDrawn /\ TagsKnown(q) /\ Settled
      /\ DOMAIN articles \subseteq 1..articleSeq
  BY SettledStep DEF ServiceInv, IntegrityInv, TagsInv, SerialsDrawn
<1>1. CASE n = q
  <2>1. \A i \in 1..articleSeq : /\ i \in 1..articleSeq'
                                 /\ i \in DOMAIN articles' =>
                                      i \in DOMAIN articles /\ TagsOf(i)' = TagsOf(i)
    BY <1>0 DEF Settled
  <2> QED BY <1>0, <1>1, <2>1 DEF TagsKnown
<1>2. CASE Fresh(r)
  <2>1. n.pc \notin Shown \cup Filled \cup InRows /\ n.status # 200
    BY <1>2 DEF Fresh, FirstStatements, Shown, Filled, InRows
  <2> QED BY <2>1 DEF TagsKnown
<1>3. CASE Step(r) \/ ExecuteFails(r)
  <2>0. /\ Stops(r) => n.pc = "done" /\ n.status # 200
        /\ \A status : StopsWith(r, status, "nonsingle") => n.pc = "done"
        /\ n.op = q.op
    BY <1>0, <1>3, StepShape DEF Stops, StopsWith, Refusals, Shape
  <2>1. ASSUME n.pc = "article.tagList"
        PROVE  n.id \in 1..articleSeq' /\ DOMAIN n.view = ShownFields
    <3>1. kGetArticleWithAuthorProfile(r)
      BY <1>0, <1>3, <2>1, Arrived
    <3>2. UNCHANGED dbVars
      BY <3>1, Reading
    <3>3. /\ q.id \in DOMAIN articles
          /\ GoesTo(r, "article.tagList", q.id, q.target, ShownRow(q.id))
      BY <1>0, <2>0, <2>1, <3>1, ShowsArticle, Zenon
    <3>4. DOMAIN ShownRow(q.id) = ShownFields
      BY DEF ShownRow, ShownFields
    <3> QED BY <1>0, <3>2, <3>3, <3>4 DEF GoesTo, dbVars
  <2>2. ASSUME n.pc \in Filled \/ (n.status = 200 /\ n.op \in ShowsOne)
        PROVE  /\ UNCHANGED dbVars /\ n.id \in 1..articleSeq
               /\ DOMAIN n.view = ShownFields /\ n.id = q.id
               /\ q.id \in DOMAIN articles => n.view.tagList = TagsOf(q.id)
    <3>1. TagListOfArticle(r) \/ FavoritedOfArticle(r) \/ ProfileOfAuthor(r)
      BY <1>0, <1>3, <2>0, <2>2, Arrived DEF Filled
    <3>2. ~Stops(r)
      BY <2>0, <2>2 DEF Filled
    <3>3. UNCHANGED dbVars
      BY <3>1, Reading
    <3>4. q.pc \in Shown /\ (TagListOfArticle(r) \/ q.pc \in Filled)
      BY <3>1 DEF TagListOfArticle, FavoritedOfArticle, ProfileOfAuthor, Shown, Filled
    <3>5. n.id = q.id /\ DOMAIN n.view = ShownFields
      BY <1>0, <3>1, <3>2, FillsArticle DEF FieldFilled, GoesTo, EndsWith
    <3>6. \/ n.view.tagList = TagsOf(q.id)
          \/ q.pc \in Filled /\ n.view.tagList = q.view.tagList
      <4>1. "tagList" \in ShownFields \ {"favorited"} /\ "tagList" \in ShownFields \ {"following"}
        BY DEF ShownFields
      <4> QED BY <1>0, <3>1, <3>2, <3>4, <4>1, FillsArticle DEF FieldFilled
    <3> QED BY <1>0, <3>3, <3>4, <3>5, <3>6 DEF TagsKnown
  <2>3. ASSUME n.pc \in InRows \/ (n.status = 200 /\ n.op \in ShowsMany)
        PROVE  /\ UNCHANGED dbVars
               /\ \A i \in DOMAIN n.view :
                    /\ i \in 1..articleSeq /\ DOMAIN n.view[i] = RowFields
                    /\ i \in DOMAIN articles /\ n.view[i].tagList # NULL
                         => n.view[i].tagList = TagsOf(i)
                    /\ n.view[i].following # NULL => n.view[i].tagList # NULL
                    /\ n.status = 200 => n.view[i].following # NULL
    <3>1. \/ kGetArticlesWithAuthorProfile(r) \/ kGetFeed(r)
          \/ TagListOfRow(r) \/ ProfileOfRow(r)
      BY <1>0, <1>3, <2>0, <2>3, Arrived DEF InRows
    <3>2. ~Stops(r)
      BY <2>0, <2>3 DEF InRows
    <3> QED BY <1>0, <3>1, <3>2, Reading, TagsOfRows DEF ListStep
  <2>4. n.pc \in Shown => n.pc = "article.tagList" \/ n.pc \in Filled
    BY DEF Shown, Filled
  <2>5. /\ n.pc \in Shown => n.id \in 1..articleSeq' /\ DOMAIN n.view = ShownFields
        /\ n.pc \in Filled \/ (n.status = 200 /\ n.op \in ShowsOne) =>
             /\ n.id \in 1..articleSeq'
             /\ n.id \in DOMAIN articles' => n.view.tagList = TagsOf(req[r].id)'
    BY <2>1, <2>2, <2>4 DEF TagsOf, dbVars
  <2> QED BY <2>3, <2>5 DEF TagsKnown, TagsOf, dbVars
<1> QED BY <1>1, <1>2, <1>3, SlotMoves

LEMMA NothingKnown ==
  ASSUME Init, NEW r \in Slots
  PROVE  req[r].pc = "idle" /\ req[r].status = 0 /\ req[r].err = "none"
<1>1. req[r] = Idle
  BY DEF Init, RequestsInit
<1>2. Idle.pc = "idle" /\ Idle.status = 0 /\ Idle.err = "none"
  BY DEF Idle, NewRequest
<1> QED BY <1>1, <1>2

LEMMA TagsAlways == Spec => []TagsInv
<1>1. Init => TagsInv
  BY NothingKnown DEF TagsInv, TagsKnown, Shown, Filled, InRows
<1>2. ServiceInv /\ TagsInv /\ [Next]_vars => TagsInv'
  BY TagsStep
<1> QED BY <1>1, <1>2, ServiceInvAlways, PTL DEF Spec

(* An article is shown with all its tags, also by the lists, unless it is   *)
(* gone by then.                                                            *)
THEOREM TagsShownAreKept == Spec => []ShownTagsOrGone
<1>1. TagsInv => ShownTagsOrGone
  BY DEF TagsInv, TagsKnown, ShownTagsOrGone
<1> QED BY <1>1, TagsAlways, PTL

-----------------------------------------------------------------------------
(* Comments that were deleted.  The comment found by the check keeps its    *)
(* author and its article, so all that can hide it from the deletion is     *)
(* that the article lost the slug.                                          *)

CommentInv == \A r \in Slots : CommentKnown(req[r])

LEMMA CommentStep ==
  ASSUME ServiceInv, CommentInv, [Next]_vars
  PROVE  CommentInv'
<1> SUFFICES ASSUME NEW r \in Slots PROVE CommentKnown(req[r])'
  BY DEF CommentInv
<1> DEFINE q == req[r]
           n == req'[r]
<1>0. /\ CallsInv /\ SerialsDrawn /\ CommentKnown(q) /\ Settled
      /\ DOMAIN comments \subseteq 1..commentSeq
  BY SettledStep DEF ServiceInv, IntegrityInv, CommentInv, SerialsDrawn
<1>1. CASE n = q
  BY <1>0, <1>1 DEF CommentKnown, Settled
<1>2. CASE Fresh(r)
  <2>1. n.pc # "kDeleteComment"
    BY <1>2 DEF Fresh, FirstStatements
  <2> QED BY <2>1 DEF CommentKnown
<1>3. CASE Step(r) \/ ExecuteFails(r)
  <2> SUFFICES ASSUME n.pc = "kDeleteComment"
               PROVE  /\ UNCHANGED dbVars
                      /\ n.arg.comment \in DOMAIN comments
                      /\ comments[n.arg.comment].author = n.user
    BY <1>0 DEF CommentKnown, dbVars
  <2>1. kIsCommentExist(r)
    BY <1>0, <1>3, Arrived
  <2>2. UNCHANGED dbVars /\ ~Stops(r)
    BY <2>1, Reading DEF Stops, StopsWith
  <2>3. /\ is_comment_exist(q.arg.comment, q.arg.slug, q.user)
        /\ GoesTo(r, "kDeleteComment", q.id, q.target, q.view)
    BY <1>0, <2>1, <2>2, WritesComment, Zenon
  <2> QED BY <2>2, <2>3 DEF GoesTo, is_comment_exist, CommentsMatching
<1> QED BY <1>1, <1>2, <1>3, SlotMoves

LEMMA CommentLeft ==
  ASSUME ServiceInv, CommentInv, [Next]_vars, NEW r \in Slots,
         Answers(r, {"del_comment"}), req[r].arg.comment \in DOMAIN comments'
  PROVE  articles'[comments'[req[r].arg.comment].article].slug # req[r].arg.slug
<1> DEFINE q == req[r]
           c == q.arg.comment
<1>0. /\ CallsInv /\ SerialsDrawn /\ CommentKnown(q) /\ NoDanglingReference
  BY DEF ServiceInv, IntegrityInv, Integrity, CommentInv
<1>1. /\ req'[r].status = 200 /\ q.op = "del_comment"
      /\ Step(r) \/ ExecuteFails(r)
  <2>1. req'[r] # q /\ ~Fresh(r)
    BY DEF Answers, InFlight, Fresh
  <2> QED BY <2>1, SlotMoves DEF Answers
<1>2. kDeleteComment(r)
  BY <1>0, <1>1, Arrived
<1>3. q.pc = "kDeleteComment" /\ articles' = articles
  BY <1>2 DEF kDeleteComment, delete_comment
<1>4. /\ DOMAIN comments' = DOMAIN comments \ CommentsMatching(c, q.arg.slug, q.user)
      /\ \A d \in DOMAIN comments' : comments'[d] = comments[d]
  BY <1>2, DeletesComment
<1>5. comments[c].author = q.user /\ c \notin CommentsMatching(c, q.arg.slug, q.user)
  BY <1>0, <1>3, <1>4 DEF CommentKnown
<1>6. comments[c].article \notin get_article_id_by_slug(q.arg.slug)
  BY <1>4, <1>5 DEF CommentsMatching
<1>7. comments[c].article \in DOMAIN articles
  BY <1>0, <1>4 DEF NoDanglingReference
<1> QED BY <1>3, <1>4, <1>6, <1>7 DEF get_article_id_by_slug

(* A comment that outlives a deletion answered 200 is on an article that no *)
(* longer has the slug named: nothing but a rename between the check and    *)
(* the deletion, whoever else writes, keeps it.                             *)
THEOREM CommentsAreLeftByRenamesOnly == Spec => CommentLeftByRenameOnly
<1>1. Init => CommentInv
  BY NothingKnown DEF CommentInv, CommentKnown
<1>2. ServiceInv /\ CommentInv /\ [Next]_vars => CommentInv'
  BY CommentStep
<1>3. ServiceInv /\ CommentInv /\ [Next]_vars =>
        [\A r \in Slots :
           Answers(r, {"del_comment"}) /\ req[r].arg.comment \in DOMAIN comments' =>
             articles'[comments'[req[r].arg.comment].article].slug # req[r].arg.slug]_vars
  BY CommentLeft, Zenon
<1> QED BY <1>1, <1>2, <1>3, ServiceInvAlways, PTL DEF Spec, CommentLeftByRenameOnly

-----------------------------------------------------------------------------
(* Clients that wait for their answers.  All the following is about them.   *)

LEMMA AloneAlways ==
  ASSUME SequentialClients
  PROVE  Spec => []Alone
<1>1. Init => Alone
  BY NothingKnown DEF Alone, InFlight
<1>2. ServiceInv /\ Alone /\ [Next]_vars => Alone'
  BY AloneStep
<1> QED BY <1>1, <1>2, ServiceInvAlways, PTL DEF Spec

(* A handler behind the auth decorator knows its caller, and what belongs   *)
(* to the caller stays while the handler waits for its turn.                *)
LEMMA Identified ==
  ASSUME CallsInv, NEW r \in Slots, req[r].pc \in Statements,
         req[r].op \notin PublicRoutes \cup OptionallyAuthenticated
  PROVE  req[r].user \in Serials /\ req[r].user # NULL
<1>1. req[r].user \in Serials
  BY Caller DEF Parsed
<1>2. Serials \subseteq Int
  BY DEF Serials
<1> QED BY <1>1, <1>2, NullAssumption

LEMMA Waiting ==
  ASSUME ServiceInv, Alone, [Next]_vars, NEW r \in Slots, req'[r] = req[r],
         req[r].pc \in Statements,
         req[r].op \notin PublicRoutes \cup OptionallyAuthenticated
  PROVE  KeepsOf(req[r].user)
<1>1. InFlight(r) /\ req[r].user # NULL
  BY Identified, StatementsInFlight DEF InFlight, ServiceInv
<1> QED BY <1>1, OthersKeep

-----------------------------------------------------------------------------
(* Articles that were deleted.  The author renames nothing meanwhile, so    *)
(* the article looked up is the one the deletion finds.                     *)

DeleteInv == \A r \in Slots : DeleteKnown(req[r])

LEMMA DeleteStep ==
  ASSUME ServiceInv, Alone, DeleteInv, [Next]_vars
  PROVE  DeleteInv'
<1> SUFFICES ASSUME NEW r \in Slots PROVE DeleteKnown(req[r])'
  BY DEF DeleteInv
<1> DEFINE q == req[r]
           n == req'[r]
<1>0. /\ CallsInv /\ SerialsDrawn /\ DeleteKnown(q) /\ Settled
      /\ DOMAIN articles \subseteq 1..articleSeq
      /\ \A i \in 1..articleSeq : i \in 1..articleSeq'
  BY SettledStep DEF ServiceInv, IntegrityInv, DeleteInv, SerialsDrawn, Settled
<1>1. CASE n = q
  <2>1. ASSUME q.pc = "kDeleteArticleBySlug"
        PROVE  KeepsOf(q.user)
    <3>1. q.pc \in Statements /\ q.op = "del_article"
      BY <1>0, <2>1, Caller DEF Serves, Statements
    <3> QED BY <1>1, <3>1, Waiting DEF PublicRoutes, OptionallyAuthenticated
  <2>2. \A i \in 1..articleSeq : i \in DOMAIN articles' =>
          i \in DOMAIN articles /\ articles'[i].author = articles[i].author
    BY <1>0 DEF Settled
  <2>3. q.pc = "kDeleteArticleBySlug" => \A i \in DOMAIN articles :
          articles[i].author = q.user => articles'[i] = articles[i]
    BY <2>1 DEF KeepsOf
  <2> QED BY <1>0, <1>1, <2>2, <2>3 DEF DeleteKnown
<1>2. CASE Fresh(r)
  <2>1. n.pc # "kDeleteArticleBySlug" /\ n.status # 200
    BY <1>2 DEF Fresh, FirstStatements
  <2> QED BY <2>1 DEF DeleteKnown
<1>3. CASE Step(r) \/ ExecuteFails(r)
  <2>0. /\ Stops(r) => n.pc = "done" /\ n.status # 200
        /\ n.op = q.op
    BY <1>0, <1>3, StepShape DEF Stops, StopsWith, Refusals, Shape
  <2>1. ASSUME n.pc = "kDeleteArticleBySlug"
        PROVE  /\ UNCHANGED dbVars
               /\ n.id \in DOMAIN articles /\ articles[n.id].slug = n.arg.slug
    <3>1. kGetArticleIdBySlug(r)
      BY <1>0, <1>3, <2>1, Arrived
    <3>2. UNCHANGED dbVars
      BY <3>1, Reading
    <3>3. /\ ArticleIdOf(q.arg.slug) # NULL
          /\ GoesTo(r, AfterLookup[q.op], ArticleIdOf(q.arg.slug), q.target, q.view)
      BY <1>0, <2>0, <2>1, <3>1, FindsArticle, Zenon
    <3> QED BY <3>2, <3>3, SlugLookup DEF GoesTo
  <2>2. ASSUME n.op = "del_article", n.status = 200
        PROVE  /\ n.id \in 1..articleSeq
               /\ n.id \in DOMAIN articles' => articles'[n.id].author # n.user
    <3>1. kDeleteArticleBySlug(r)
      BY <1>0, <1>3, <2>0, <2>2, Arrived
    <3>2. /\ delete_article_by_slug_error(q.arg.slug, q.user) = "none"
          /\ n.id = q.id /\ n.user = q.user /\ q.pc = "kDeleteArticleBySlug"
      BY <1>0, <2>0, <2>2, <3>1, WritesArticle DEF EndsWith, kDeleteArticleBySlug
    <3>3. articles' = Drop(articles, OwnedBySlug(q.arg.slug, q.user))
      BY <3>1, <3>2 DEF kDeleteArticleBySlug, delete_article_by_slug
    <3>4. /\ DOMAIN articles' = DOMAIN articles \ OwnedBySlug(q.arg.slug, q.user)
          /\ \A i \in DOMAIN articles' : articles'[i] = articles[i]
      <4>1. PICK gone : gone = OwnedBySlug(q.arg.slug, q.user)
        OBVIOUS
      <4>2. /\ DOMAIN Drop(articles, gone) = DOMAIN articles \ gone
            /\ \A i \in DOMAIN articles \ gone : Drop(articles, gone)[i] = articles[i]
        BY DropRows
      <4> QED BY <3>3, <4>1, <4>2
    <3>5. q.id \in DOMAIN articles /\ articles[q.id].author = q.user
            => q.id \in OwnedBySlug(q.arg.slug, q.user)
      BY <1>0, <3>2 DEF DeleteKnown, OwnedBySlug, get_article_id_by_slug
    <3> QED BY <1>0, <3>2, <3>4, <3>5 DEF DeleteKnown
  <2> QED BY <1>0, <2>1, <2>2 DEF DeleteKnown, dbVars
<1> QED BY <1>1, <1>2, <1>3, SlotMoves

(* An author who waits for the answer no longer has the article it deleted. *)
THEOREM OwnDeletesAreGone ==
  ASSUME SequentialClients
  PROVE  Spec => []OwnDeleteGone
<1>1. Init => DeleteInv
  BY NothingKnown DEF DeleteInv, DeleteKnown
<1>2. ServiceInv /\ Alone /\ DeleteInv /\ [Next]_vars => DeleteInv'
  BY DeleteStep
<1>3. DeleteInv => OwnDeleteGone
  BY DEF DeleteInv, DeleteKnown, OwnDeleteGone, Answered
<1> QED BY <1>1, <1>2, <1>3, ServiceInvAlways, AloneAlways, PTL DEF Spec

-----------------------------------------------------------------------------
(* Comments that were stored.                                               *)

(* A request that ends because a row it needs is not there.                 *)
LEMMA RowMissing ==
  ASSUME CallsInv, SerialsDrawn, NEW r \in Slots, Step(r) \/ ExecuteFails(r),
         req[r].op \in {"post_article", "put_article", "post_comment"}
  PROVE  \/ req'[r].err # "nonsingle"
         \/ req'[r].err = req[r].err /\ req'[r].pc \in Statements
         \/ /\ kGetArticleWithAuthorProfile(r) /\ req[r].id \notin DOMAIN articles
         \/ /\ kGetComment(r) /\ req'[r].target = req[r].target /\ req'[r].pc = "done"
            /\ ~ (/\ req[r].id \in DOMAIN comments
                  /\ comments[req[r].id].article \in DOMAIN articles)
<1> DEFINE q == req[r]
           n == req'[r]
<1>0. q.pc \in Statements /\ Serves(q.pc, q.op)
  BY StepInFlight, Caller
<1>1. CASE ExecuteFails(r)
  <2>1. n = Reply(q, 500, "io")
    BY <1>1 DEF ExecuteFails, CallsInv
  <2> QED BY <2>1 DEF Reply, NewRequest
<1>2. CASE Step(r)
  <2>1. \/ kAddNewArticle(r) \/ kUpdateArticleBySlug(r) \/ kGetArticleWithAuthorProfile(r)
        \/ TagListOfArticle(r) \/ FavoritedOfArticle(r) \/ ProfileOfAuthor(r)
        \/ kAddNewComment(r) \/ kGetComment(r)
    <3>1. q.pc \in {"kAddNewArticle", "kUpdateArticleBySlug", "kGetArticleWithAuthorProfile",
                    "article.tagList", "article.favorited", "article.following",
                    "kAddNewComment", "kGetComment"}
      BY <1>0 DEF Serves, Statements, ShowsMany
    <3> QED BY <1>2, <3>1
         DEF Step, ArticleStep, AccountStep, ListStep, kGetArticleIdBySlug,
             kDeleteArticleBySlug, kFavoriteArticle, kUnfavoriteArticle,
             kGetArticleWithAuthorProfileBySlug, kIsCommentExist, kDeleteComment,
             kAddNewUser, kGetUserByEmail, kGetUserById, kUpdateUserById,
             kGetProfileByUsername, kGetUserByUsername, kFollow, kUnfollow,
             kGetArticlesWithAuthorProfile, kGetFeed, TagListOfRow, ProfileOfRow,
             kGetCommentsFromArticle, ProfileOfComment, kGetTags
  <2>2. \/ Stops(r)
        \/ n.err = "none"
        \/ n.err = q.err /\ n.pc \in Statements
        \/ kGetArticleWithAuthorProfile(r) /\ q.id \notin DOMAIN articles
        \/ /\ kGetComment(r) /\ n.target = q.target /\ n.pc = "done"
           /\ ~ (/\ q.id \in DOMAIN comments
                 /\ comments[q.id].article \in DOMAIN articles)
    <3>1. /\ "kGetArticleWithAuthorProfile" \in Statements /\ "kGetComment" \in Statements
          /\ "article.tagList" \in Statements /\ "article.favorited" \in Statements
          /\ "article.following" \in Statements
      BY DEF Statements
    <3>2. CASE kAddNewArticle(r) \/ kUpdateArticleBySlug(r)
      <4>1. Stops(r) \/ \E id : GoesTo(r, "kGetArticleWithAuthorProfile", id, id, q.view)
        BY <3>2, WritesArticle, Zenon
      <4> QED BY <3>1, <4>1 DEF GoesTo
    <3>3. CASE kGetArticleWithAuthorProfile(r)
      <4>1. \/ Stops(r) \/ q.id \notin DOMAIN articles
            \/ \E view : GoesTo(r, "article.tagList", q.id, q.target, view)
        BY <3>3, ShowsArticle, Zenon
      <4> QED BY <3>1, <3>3, <4>1 DEF GoesTo
    <3>4. CASE TagListOfArticle(r) \/ FavoritedOfArticle(r) \/ ProfileOfAuthor(r)
      <4>1. \/ Stops(r) \/ \E view : EndsWith(r, view)
            \/ \E view : GoesTo(r, "article.favorited", q.id, q.target, view)
            \/ \E view : GoesTo(r, "article.following", q.id, q.target, view)
        BY <3>4, ShowsArticle, Zenon
      <4> QED BY <3>1, <4>1 DEF EndsWith, GoesTo
    <3>5. CASE kAddNewComment(r) \/ kGetComment(r)
      BY <3>1, <3>5, WritesComment DEF GoesTo, EndsWith, StopsWith
    <3> QED BY <2>1, <3>2, <3>3, <3>4, <3>5
  <2> QED BY <2>2 DEF Stops, StopsWith
<1> QED BY <1>1, <1>2

StoredInv == \A r \in Slots : StoredKnown(req[r])

LEMMA StoredStep ==
  ASSUME ServiceInv, Alone, StoredInv, [Next]_vars
  PROVE  StoredInv'
<1> SUFFICES ASSUME NEW r \in Slots PROVE StoredKnown(req[r])'
  BY DEF StoredInv
<1> DEFINE q == req[r]
           n == req'[r]
<1>0. /\ CallsInv /\ SerialsDrawn /\ StoredKnown(q) /\ Settled
      /\ DOMAIN articles \subseteq 1..articleSeq
      /\ \A i \in 1..articleSeq : i \in 1..articleSeq'
  BY SettledStep DEF ServiceInv, IntegrityInv, StoredInv, SerialsDrawn, Settled
<1>1. CASE n = q
  <2>1. ASSUME q.pc = "kGetComment"
        PROVE  KeepsOf(q.user)
    <3>1. q.pc \in Statements /\ q.op = "post_comment"
      BY <1>0, <2>1, Caller DEF Serves, Statements
    <3> QED BY <1>1, <3>1, Waiting DEF PublicRoutes, OptionallyAuthenticated
  <2>2. \A i \in 1..articleSeq : i \in DOMAIN articles' => i \in DOMAIN articles
    BY <1>0 DEF Settled
  <2>3. q.pc = "kGetComment" => \A c \in DOMAIN comments : comments[c].author = q.user =>
          \/ c \in DOMAIN comments' /\ comments'[c] = comments[c]
          \/ comments[c].article \notin DOMAIN articles'
    BY <2>1 DEF KeepsOf
  <2> QED BY <1>0, <1>1, <2>2, <2>3 DEF StoredKnown
<1>2. CASE Fresh(r)
  <2>1. n.pc # "kGetComment" /\ n.err # "nonsingle"
    BY <1>2 DEF Fresh, FirstStatements
  <2> QED BY <2>1 DEF StoredKnown
<1>3. CASE Step(r) \/ ExecuteFails(r)
  <2>0. /\ Stops(r) => n.pc = "done"
        /\ n.op = q.op /\ q.pc \in Statements /\ Serves(q.pc, q.op)
    BY <1>0, <1>3, StepShape, StepInFlight, Caller DEF Stops, StopsWith, Shape
  <2>1. ASSUME n.pc = "kGetComment"
        PROVE  /\ n.target \in 1..articleSeq /\ n.id \in DOMAIN comments'
               /\ comments'[n.id].author = n.user /\ comments'[n.id].article = n.target
    <3>1. kAddNewComment(r)
      BY <1>0, <1>3, <2>1, Arrived
    <3>2. /\ add_comment_to_article_error(q.arg.slug, q.user) = "none"
          /\ n.id = commentSeq + 1 /\ n.target = ArticleIdOf(q.arg.slug)
          /\ n.user = q.user
      BY <1>0, <2>0, <2>1, <3>1, WritesComment DEF GoesTo
    <3>3. PICK row : row = [author |-> q.user, article |-> ArticleIdOf(q.arg.slug),
                            body |-> q.arg.body]
      OBVIOUS
    <3>4. comments' = Put(comments, commentSeq + 1, row)
      BY <3>1, <3>2, <3>3 DEF kAddNewComment, add_comment_to_article
    <3>5. commentSeq + 1 \in DOMAIN comments' /\ comments'[commentSeq + 1] = row
      BY <3>4 DEF Put
    <3>6. ArticleIdOf(q.arg.slug) # NULL
      BY <3>2 DEF add_comment_to_article_error
    <3>7. row.author = q.user /\ row.article = ArticleIdOf(q.arg.slug)
      BY <3>3
    <3> QED BY <1>0, <3>2, <3>5, <3>6, <3>7, SlugLookup
  <2>2. ASSUME n.op = "post_comment", n.err = "nonsingle"
        PROVE  /\ n.pc = "done" /\ UNCHANGED dbVars
               /\ n.target \in 1..articleSeq /\ n.target \notin DOMAIN articles
    <3>1. ~ (q.err = "nonsingle" /\ q.pc \in Statements)
      BY <1>0, <2>0, <2>2, StatementsInFlight DEF StoredKnown
    <3>2. ~kGetArticleWithAuthorProfile(r)
      BY <2>0, <2>2 DEF kGetArticleWithAuthorProfile, Serves, ShowsOne
    <3>3. /\ kGetComment(r) /\ n.target = q.target /\ n.pc = "done"
          /\ ~ (q.id \in DOMAIN comments /\ comments[q.id].article \in DOMAIN articles)
      BY <1>0, <1>3, <2>0, <2>2, <3>1, <3>2, RowMissing
    <3>4. UNCHANGED dbVars
      BY <3>3, Reading
    <3>5. q.pc = "kGetComment"
      BY <3>3 DEF kGetComment
    <3> QED BY <1>0, <3>3, <3>4, <3>5 DEF StoredKnown
  <2> QED BY <1>0, <2>1, <2>2 DEF StoredKnown, dbVars
<1> QED BY <1>1, <1>2, <1>3, SlotMoves

(* A comment whose author waits for the answer is lost between its storing  *)
(* and its reading only together with its article.                          *)
THEOREM CommentsGoWithArticles ==
  ASSUME SequentialClients
  PROVE  Spec => []CommentLostOnlyWithArticle
<1>1. Init => StoredInv
  BY NothingKnown DEF StoredInv, StoredKnown
<1>2. ServiceInv /\ Alone /\ StoredInv /\ [Next]_vars => StoredInv'
  BY StoredStep
<1>3. StoredInv => CommentLostOnlyWithArticle
  BY DEF StoredInv, StoredKnown, CommentLostOnlyWithArticle
<1> QED BY <1>1, <1>2, <1>3, ServiceInvAlways, AloneAlways, PTL DEF Spec

-----------------------------------------------------------------------------
(* The following flags.  Only the caller changes whom the caller follows,   *)
(* and what the caller favorited; a caller without an id has neither.       *)

FollowsInv == \A r \in Slots : FollowsKnown(req[r])

LEMMA PairsStay ==
  ASSUME ServiceInv, ServiceInv', Alone, [Next]_vars, NEW r \in Slots, req'[r] = req[r],
         req[r].pc \in Statements
  PROVE  \A v : /\ <<req[r].user, v>> \in followers' <=> <<req[r].user, v>> \in followers
                /\ <<req[r].user, v>> \in favorites' <=> <<req[r].user, v>> \in favorites
<1>1. CASE req[r].user = NULL
  <2>1. NULL \notin Serials
    BY NullAssumption DEF Serials
  <2>2. /\ followers \subseteq Serials \X Serials /\ followers' \subseteq Serials \X Serials
        /\ favorites \subseteq Serials \X Serials /\ favorites' \subseteq Serials \X Serials
    BY DEF ServiceInv, RowsTyped
  <2> QED BY <1>1, <2>1, <2>2
<1>2. CASE req[r].user # NULL
  <2>1. KeepsOf(req[r].user)
    BY <1>2, OthersKeep, StatementsInFlight DEF InFlight
  <2> QED BY <2>1 DEF KeepsOf
<1> QED BY <1>1, <1>2

LEMMA FollowedStays ==
  ASSUME NEW q, NEW row, RowFollowed(q, row),
         \A v : <<q.user, v>> \in followers' <=> <<q.user, v>> \in followers
  PROVE  /\ {"author", "following"} \subseteq DOMAIN row
         /\ row.following # NULL => row.following = (<<q.user, row.author>> \in followers')
         /\ q.op = "get_feed" => <<q.user, row.author>> \in followers'
<1>1. <<q.user, row.author>> \in followers' <=> <<q.user, row.author>> \in followers
  OBVIOUS
<1> QED BY <1>1 DEF RowFollowed

LEMMA FollowsOfRows ==
  ASSUME CallsInv, RowsTyped, NEW r \in Slots, ~Stops(r),
         \/ kGetArticlesWithAuthorProfile(r) \/ kGetFeed(r)
         \/ TagListOfRow(r) \/ ProfileOfRow(r)
         \/ kGetCommentsFromArticle(r) \/ ProfileOfComment(r),
         TagsKnown(req[r]), FollowsKnown(req[r])
  PROVE  \A i \in DOMAIN req'[r].view :
           /\ RowFollowed(req[r], req'[r].view[i])
           /\ req'[r].status = 200 => req'[r].view[i].following # NULL
<1> DEFINE q == req[r]
           n == req'[r]
<1>0. q.pc \in Statements /\ Serves(q.pc, q.op)
  <2>1. q.pc \in Statements
    BY DEF kGetArticlesWithAuthorProfile, kGetFeed, TagListOfRow, ProfileOfRow,
       kGetCommentsFromArticle, ProfileOfComment, Statements
  <2> QED BY <2>1, Caller
<1>1. CASE kGetArticlesWithAuthorProfile(r) \/ kGetFeed(r)
  <2>1. PICK rows :
          /\ Chosen(r, rows, "row.tagList")
          /\ \A i \in DOMAIN rows :
               /\ i \in DOMAIN articles /\ DOMAIN rows[i] = RowFields
               /\ rows[i].following = NULL /\ rows[i].tagList = NULL
               /\ rows[i].author = articles[i].author
               /\ kGetFeed(r) => i \in Feed(req[r].user)
    BY <1>1, RowsOfArticles
  <2>2. n.view = rows /\ (n.status = 200 => DOMAIN rows = {})
    BY <2>1 DEF Chosen, EndsWith, GoesTo
  <2>3. q.op = "get_feed" => kGetFeed(r)
    BY <1>0, <1>1 DEF kGetArticlesWithAuthorProfile, Serves
  <2>4. ASSUME NEW i \in Feed(q.user)
        PROVE  <<q.user, articles[i].author>> \in followers
    <3>1. PICK p \in followers : p[1] = q.user /\ p[2] = articles[i].author
      BY DEF Feed, FollowedBy
    <3>2. p = <<p[1], p[2]>>
      BY DEF RowsTyped
    <3> QED BY <3>1, <3>2
  <2> QED BY <2>1, <2>2, <2>3, <2>4 DEF RowFollowed, RowFields
<1>2. CASE TagListOfRow(r)
  <2>1. \A j \in DOMAIN q.view : RowFollowed(q, q.view[j]) /\ DOMAIN q.view[j] = RowFields
    BY <1>2 DEF FollowsKnown, TagsKnown, TagListOfRow, InRows
  <2>2. /\ n.status # 200 /\ DOMAIN n.view = DOMAIN q.view
        /\ \A j \in DOMAIN q.view :
             /\ DOMAIN n.view[j] = RowFields
             /\ n.view[j].author = q.view[j].author
             /\ n.view[j].following = q.view[j].following
    BY <1>2, <2>1, OneFilled
  <2> QED BY <2>1, <2>2 DEF RowFollowed
<1>4. CASE ProfileOfRow(r) \/ ProfileOfComment(r)
  <2>1. \A j \in DOMAIN q.view : RowFollowed(q, q.view[j])
    BY <1>4 DEF FollowsKnown, ProfileOfRow, ProfileOfComment, InRows
  <2>2. PICK i \in DOMAIN q.view : \E pc : Completed(r, i, pc)
    BY <1>4, ListsRows, Zenon
  <2>3. \A j \in DOMAIN q.view : {"author", "following"} \subseteq DOMAIN q.view[j]
    BY <2>1 DEF RowFollowed
  <2>4. RowCompleted(r, i)
    BY <2>2, <2>3, OneCompleted
  <2>5. /\ DOMAIN n.view = DOMAIN q.view
        /\ \A j \in DOMAIN q.view : n.status = 200 => n.view[j].following # NULL
    BY <2>4 DEF RowCompleted
  <2>6. ASSUME NEW j \in DOMAIN q.view
        PROVE  RowFollowed(q, n.view[j])
    <3>1. /\ {"author", "following"} \subseteq DOMAIN n.view[j]
          /\ n.view[j].author = q.view[j].author
      <4>1. "author" \in DOMAIN q.view[j] \ {"following"}
        BY <2>3
      <4> QED BY <2>3, <2>4, <4>1 DEF RowCompleted
    <3>2. q.op = "get_feed" => <<q.user, n.view[j].author>> \in followers
      BY <2>1, <3>1 DEF RowFollowed
    <3>3. \/ n.view[j].following = q.view[j].following
          \/ n.view[j].following = (<<q.user, q.view[j].author>> \in followers)
      BY <2>4, Zenon DEF RowCompleted
    <3>4. CASE n.view[j].following = q.view[j].following
      BY <2>1, <3>1, <3>2, <3>4 DEF RowFollowed
    <3>5. CASE n.view[j].following = (<<q.user, q.view[j].author>> \in followers)
      BY <3>1, <3>2, <3>5, Zenon DEF RowFollowed
    <3> QED BY <3>3, <3>4, <3>5, Zenon
  <2> QED BY <2>5, <2>6
<1>3. CASE kGetCommentsFromArticle(r)
  <2>1. PICK found \in SUBSET DOMAIN comments :
          Chosen(r, [c \in found |-> [author |-> comments[c].author,
                                      following |-> NULL]], "comment.following")
    BY <1>3, ListsRows, Zenon
  <2>2. PICK rows : rows = [c \in found |-> [author |-> comments[c].author,
                                             following |-> NULL]]
    OBVIOUS
  <2>3. Chosen(r, rows, "comment.following")
    BY <2>1, <2>2, Zenon
  <2>4. n.view = rows /\ (n.status = 200 => DOMAIN rows = {})
    BY <2>3 DEF Chosen, EndsWith, GoesTo
  <2>5. q.op # "get_feed"
    BY <1>0, <1>3 DEF kGetCommentsFromArticle, Serves
  <2>6. \A c \in DOMAIN rows : /\ {"author", "following"} \subseteq DOMAIN rows[c]
                               /\ rows[c].following = NULL
    BY <2>2
  <2> QED BY <2>4, <2>5, <2>6 DEF RowFollowed
<1> QED BY <1>1, <1>2, <1>3, <1>4

LEMMA FollowsStep ==
  ASSUME ServiceInv, ServiceInv', Alone, TagsInv, FollowsInv, [Next]_vars
  PROVE  FollowsInv'
<1> SUFFICES ASSUME NEW r \in Slots PROVE FollowsKnown(req[r])'
  BY DEF FollowsInv
<1> DEFINE q == req[r]
           n == req'[r]
<1>0. CallsInv /\ SerialsDrawn /\ RowsTyped /\ TagsKnown(q) /\ FollowsKnown(q)
  BY DEF ServiceInv, IntegrityInv, TagsInv, FollowsInv
<1>1. CASE n = q
  <2>1. ASSUME q.pc \in InRows \cup {"comment.following"}, NEW i \in DOMAIN q.view
        PROVE  /\ {"author", "following"} \subseteq DOMAIN q.view[i]
               /\ q.view[i].following # NULL
                    => q.view[i].following = (<<q.user, q.view[i].author>> \in followers')
               /\ q.op = "get_feed" => <<q.user, q.view[i].author>> \in followers'
    <3>1. q.pc \in Statements
      BY <2>1 DEF Statements, InRows
    <3>2. \A v : <<q.user, v>> \in followers' <=> <<q.user, v>> \in followers
      BY <1>1, <3>1, PairsStay
    <3>3. RowFollowed(q, q.view[i])
      BY <1>0, <2>1 DEF FollowsKnown
    <3> QED BY <3>2, <3>3, FollowedStays
  <2> QED BY <1>0, <1>1, <2>1 DEF FollowsKnown, RowFollowed
<1>2. CASE Fresh(r)
  <2>1. n.pc \notin InRows \cup {"comment.following"} /\ n.status # 200
    BY <1>2 DEF Fresh, FirstStatements, InRows
  <2> QED BY <2>1 DEF FollowsKnown
<1>3. CASE Step(r) \/ ExecuteFails(r)
  <2>0. /\ Stops(r) => n.pc = "done" /\ n.status # 200
        /\ n.op = q.op /\ (n.status = 200 => n.user = q.user)
        /\ n.pc \in InRows \cup {"comment.following"} => n.user = q.user
    BY <1>0, <1>3, StepShape
       DEF Stops, StopsWith, Refusals, Shape, GoesOn, Succeeds, Fails, InRows
  <2>1. ASSUME \/ n.pc \in InRows \cup {"comment.following"}
               \/ n.op = "get_feed" /\ n.status = 200
        PROVE  /\ UNCHANGED dbVars /\ n.user = q.user
               /\ \A i \in DOMAIN n.view :
                    /\ RowFollowed(q, n.view[i])
                    /\ n.status = 200 => n.view[i].following # NULL
    <3>1. \/ kGetArticlesWithAuthorProfile(r) \/ kGetFeed(r)
          \/ TagListOfRow(r) \/ ProfileOfRow(r)
          \/ kGetCommentsFromArticle(r) \/ ProfileOfComment(r)
      BY <1>0, <1>3, <2>0, <2>1, Arrived DEF ShowsMany, InRows
    <3>2. ~Stops(r)
      BY <2>0, <2>1 DEF InRows
    <3> QED BY <1>0, <2>0, <2>1, <3>1, <3>2, Reading, FollowsOfRows DEF ListStep
  <2>2. ASSUME n.pc \in InRows \cup {"comment.following"}, NEW i \in DOMAIN n.view
        PROVE  RowFollowed(req[r], req[r].view[i])'
    <3>1. RowFollowed(q, n.view[i]) /\ n.user = q.user /\ n.op = q.op
          /\ followers' = followers
      BY <2>0, <2>1, <2>2 DEF dbVars
    <3> QED BY <3>1 DEF RowFollowed
  <2>3. ASSUME n.op = "get_feed", n.status = 200, NEW i \in DOMAIN n.view
        PROVE  n.view[i].following
    <3>1. RowFollowed(q, n.view[i]) /\ n.view[i].following # NULL /\ q.op = "get_feed"
      BY <2>0, <2>1, <2>3
    <3>2. /\ <<q.user, n.view[i].author>> \in followers
          /\ n.view[i].following = (<<q.user, n.view[i].author>> \in followers)
      BY <3>1, Zenon DEF RowFollowed
    <3> QED BY <3>2, Zenon
  <2> QED BY <2>2, <2>3 DEF FollowsKnown
<1> QED BY <1>1, <1>2, <1>3, SlotMoves

LEMMA FollowsAlways ==
  ASSUME SequentialClients
  PROVE  Spec => []FollowsInv
<1>1. Init => FollowsInv
  BY NothingKnown DEF FollowsInv, FollowsKnown, InRows
<1>2. ServiceInv /\ ServiceInv' /\ Alone /\ TagsInv /\ FollowsInv /\ [Next]_vars
        => FollowsInv'
  BY FollowsStep
<1> QED BY <1>1, <1>2, ServiceInvAlways, AloneAlways, TagsAlways, PTL DEF Spec

(* A feed shows every author as followed, although the flags are read after *)
(* the rows were chosen: its reader waits and unfollows nobody meanwhile.   *)
THEOREM FeedsShowFollowed ==
  ASSUME SequentialClients
  PROVE  Spec => []FeedShowsFollowed
<1>1. FollowsInv => FeedShowsFollowed
  BY Zenon DEF FollowsInv, FollowsKnown, FeedShowsFollowed, Answered
<1> QED BY <1>1, FollowsAlways, PTL

LEMMA FollowingStep ==
  ASSUME ServiceInv, TagsInv, FollowsInv, [Next]_vars, NEW r \in Slots
  PROVE  /\ Answers(r, ShowsOne)
              => req'[r].view.following = (<<req[r].user, req'[r].view.author>> \in followers)
         /\ Answers(r, ShowsMany \cup {"get_comments"})
              => \A i \in DOMAIN req'[r].view :
                   req'[r].view[i].following
                     = (<<req[r].user, req'[r].view[i].author>> \in followers)
<1> DEFINE q == req[r]
           n == req'[r]
<1>0. CallsInv /\ SerialsDrawn /\ RowsTyped /\ TagsKnown(q) /\ FollowsKnown(q)
  BY DEF ServiceInv, IntegrityInv, TagsInv, FollowsInv
<1>1. ASSUME NEW ops, Answers(r, ops)
      PROVE  /\ Step(r) \/ ExecuteFails(r)
             /\ ~Stops(r) /\ n.status = 200 /\ q.op \in ops
  <2>1. n # q /\ ~Fresh(r)
    BY <1>1 DEF Answers, InFlight, Fresh
  <2>2. n.status = 200 /\ q.op \in ops
    BY <1>1 DEF Answers
  <2> QED BY <2>1, <2>2, SlotMoves DEF Stops, StopsWith, Refusals
<1>2. ASSUME Answers(r, ShowsOne)
      PROVE  n.view.following = (<<q.user, n.view.author>> \in followers)
  <2>1. ProfileOfAuthor(r) /\ ~Stops(r)
    BY <1>0, <1>1, <1>2, Arrived
  <2>2. FieldFilled(r, "following", <<q.user, q.view.author>> \in followers)
    BY <1>0, <2>1, FillsArticle, Zenon
  <2>3. n.view.author = q.view.author
    BY <2>2, Zenon DEF FieldFilled, ShownFields
  <2> QED BY <2>2, <2>3, Zenon DEF FieldFilled
<1>3. ASSUME Answers(r, ShowsMany \cup {"get_comments"}), NEW i \in DOMAIN n.view
      PROVE  n.view[i].following = (<<q.user, n.view[i].author>> \in followers)
  <2>1. \/ kGetArticlesWithAuthorProfile(r) \/ kGetFeed(r) \/ ProfileOfRow(r)
        \/ kGetCommentsFromArticle(r) \/ ProfileOfComment(r)
    BY <1>0, <1>1, <1>3, Arrived
  <2>2. RowFollowed(q, n.view[i]) /\ n.view[i].following # NULL
    BY <1>0, <1>1, <1>3, <2>1, FollowsOfRows
  <2> QED BY <2>2, Zenon DEF RowFollowed
<1> QED BY <1>2, <1>3

(* The following flag of an answer is true when it is given, also of the    *)
(* rows of a list that were completed long before.                          *)
THEOREM FollowingIsShownTrue ==
  ASSUME SequentialClients
  PROVE  Spec => FollowingShownTrue
<1>1. ServiceInv /\ TagsInv /\ FollowsInv /\ [Next]_vars =>
        [\A r \in Slots :
           /\ Answers(r, ShowsOne)
                => req'[r].view.following
                     = (<<req[r].user, req'[r].view.author>> \in followers)
           /\ Answers(r, ShowsMany \cup {"get_comments"})
                => \A i \in DOMAIN req'[r].view :
                     req'[r].view[i].following
                       = (<<req[r].user, req'[r].view[i].author>> \in followers)]_vars
  BY FollowingStep, Zenon
<1> QED BY <1>1, ServiceInvAlways, TagsAlways, FollowsAlways, PTL
     DEF Spec, FollowingShownTrue

-----------------------------------------------------------------------------
(* The number of favorites.                                                 *)

LEMMA CallerCounted ==
  ASSUME RowsTyped, NEW user, NEW i, <<user, i>> \in favorites
  PROVE  FavoritesCount(i) \in Nat /\ FavoritesCount(i) >= 1
<1> DEFINE S == {p \in favorites : p[2] = i}
<1>1. IsFiniteSet(Serials \X Serials)
  <2>1. IsFiniteSet(Serials)
    BY FS_Interval, MaxSerialAssumption DEF Serials
  <2> QED BY <2>1, FS_Product
<1>2. S \subseteq Serials \X Serials
  BY DEF RowsTyped
<1>3. IsFiniteSet(S)
  BY <1>1, <1>2, FS_Subset
<1>4. <<user, i>> \in S
  OBVIOUS
<1>5. Cardinality(S) \in Nat /\ Cardinality(S) # 0
  BY <1>3, <1>4, FS_CardinalityType, FS_EmptySet
<1> QED BY <1>5 DEF FavoritesCount

CountInv == \A r \in Slots : CountKnown(req[r])

LEMMA CountStep ==
  ASSUME ServiceInv, ServiceInv', Alone, TagsInv, CountInv, [Next]_vars
  PROVE  CountInv'
<1> SUFFICES ASSUME NEW r \in Slots PROVE CountKnown(req[r])'
  BY DEF CountInv
<1> DEFINE q == req[r]
           n == req'[r]
<1>0. CallsInv /\ SerialsDrawn /\ RowsTyped /\ TagsKnown(q) /\ CountKnown(q)
  BY DEF ServiceInv, IntegrityInv, TagsInv, CountInv
<1>1. CASE n = q
  <2>1. ASSUME q.pc \in Shown
        PROVE  <<q.user, q.id>> \in favorites' <=> <<q.user, q.id>> \in favorites
    <3>1. q.pc \in Statements
      BY <2>1 DEF Statements, Shown
    <3> QED BY <1>1, <3>1, PairsStay
  <2> QED BY <1>0, <1>1, <2>1 DEF CountKnown, Shown
<1>2. CASE Fresh(r)
  <2>1. n.pc \notin Shown /\ n.status # 200
    BY <1>2 DEF Fresh, FirstStatements, Shown
  <2> QED BY <2>1 DEF CountKnown, Shown
<1>3. CASE Step(r) \/ ExecuteFails(r)
  <2>0. /\ Stops(r) => n.pc = "done" /\ n.status # 200
        /\ \A status : StopsWith(r, status, "nonsingle") => n.pc = "done"
        /\ n.op = q.op
    BY <1>0, <1>3, StepShape DEF Stops, StopsWith, Refusals, Shape
  <2>1. ASSUME n.pc = "article.tagList"
        PROVE  /\ DOMAIN n.view = ShownFields /\ favorites' = favorites
               /\ <<n.user, n.id>> \in favorites => n.view.favoritesCount >= 1
    <3>1. kGetArticleWithAuthorProfile(r)
      BY <1>0, <1>3, <2>1, Arrived
    <3>2. UNCHANGED dbVars
      BY <3>1, Reading
    <3>3. GoesTo(r, "article.tagList", q.id, q.target, ShownRow(q.id))
      BY <1>0, <2>0, <2>1, <3>1, ShowsArticle, Zenon
    <3>4. /\ DOMAIN ShownRow(q.id) = ShownFields
          /\ ShownRow(q.id).favoritesCount = FavoritesCount(q.id)
      BY DEF ShownRow, ShownFields
    <3> QED BY <1>0, <3>2, <3>3, <3>4, CallerCounted DEF GoesTo, dbVars
  <2>2. ASSUME n.pc \in Filled
        PROVE  /\ DOMAIN n.view = ShownFields /\ favorites' = favorites
               /\ <<n.user, n.id>> \in favorites => n.view.favoritesCount >= 1
               /\ n.pc = "article.following" =>
                    (n.view.favorited => n.view.favoritesCount >= 1)
    <3>1. TagListOfArticle(r) \/ FavoritedOfArticle(r)
      BY <1>0, <1>3, <2>2, Arrived DEF Filled
    <3>2. UNCHANGED dbVars /\ ~Stops(r) /\ q.pc \in Shown
      BY <2>0, <2>2, <3>1, Reading DEF TagListOfArticle, FavoritedOfArticle, Shown, Filled
    <3>3. /\ "favoritesCount" \in ShownFields \ {"tagList"}
          /\ "favoritesCount" \in ShownFields \ {"favorited"}
      BY DEF ShownFields
    <3>4. /\ n.user = q.user /\ n.id = q.id /\ DOMAIN n.view = ShownFields
          /\ n.view.favoritesCount = q.view.favoritesCount
      BY <1>0, <3>1, <3>2, <3>3, FillsArticle DEF GoesTo, FieldFilled
    <3>5. n.pc = "article.following" =>
            FieldFilled(r, "favorited", <<q.user, q.id>> \in favorites)
      <4>1. n.pc = "article.following" => FavoritedOfArticle(r)
        BY <1>0, <1>3, Arrived
      <4> QED BY <1>0, <3>2, <4>1, FillsArticle, Zenon
    <3>6. <<q.user, q.id>> \in favorites => q.view.favoritesCount >= 1
      BY <1>0, <3>2 DEF CountKnown
    <3>7. n.pc = "article.following" /\ n.view.favorited => <<q.user, q.id>> \in favorites
      BY <3>5, Zenon DEF FieldFilled
    <3> QED BY <3>2, <3>4, <3>6, <3>7 DEF dbVars
  <2>3. ASSUME n.op = "get_article", n.status = 200, n.view.favorited
        PROVE  n.view.favoritesCount >= 1
    <3>0. q.op \in ShowsOne /\ n.status = 200
      BY <2>0, <2>3 DEF ShowsOne
    <3>1. ProfileOfAuthor(r) /\ ~Stops(r)
      BY <1>0, <1>3, <2>0, <3>0, Arrived
    <3>2. /\ q.pc = "article.following"
          /\ FieldFilled(r, "following", <<q.user, q.view.author>> \in followers)
      BY <1>0, <3>1, FillsArticle, Zenon
    <3>3. n.view.favoritesCount = q.view.favoritesCount
      BY <3>2 DEF FieldFilled, ShownFields
    <3>4. q.view.favorited
      BY <2>3, <3>2, Zenon DEF FieldFilled, ShownFields
    <3> QED BY <1>0, <3>2, <3>3, <3>4 DEF CountKnown
  <2>4. n.pc \in Shown <=> n.pc = "article.tagList" \/ n.pc \in Filled
    BY DEF Shown, Filled
  <2>5. n.pc = "article.following" => n.pc \in Filled
    BY DEF Filled
  <2> QED BY <2>1, <2>2, <2>3, <2>4, <2>5 DEF CountKnown
<1> QED BY <1>1, <1>2, <1>3, SlotMoves

(* An article shown as favorited by a caller who waits counts the caller.   *)
THEOREM FavoritesAreCounted ==
  ASSUME SequentialClients
  PROVE  Spec => []FavoritedIsCounted
<1>1. Init => CountInv
  BY NothingKnown DEF CountInv, CountKnown, Shown
<1>2. ServiceInv /\ ServiceInv' /\ Alone /\ TagsInv /\ CountInv /\ [Next]_vars => CountInv'
  BY CountStep
<1>3. CountInv => FavoritedIsCounted
  BY DEF CountInv, CountKnown, FavoritedIsCounted, Answered
<1> QED BY <1>1, <1>2, <1>3, ServiceInvAlways, AloneAlways, TagsAlways, PTL DEF Spec

-----------------------------------------------------------------------------
(* What an author wrote.                                                    *)

LEMMA NewArticleHolds ==
  ASSUME SerialsDrawn, NoDanglingReference, NEW r \in Slots, kAddNewArticle(r),
         add_new_article_error(Slugify[req[r].arg.title], req[r].user) = "none",
         NEW new, new = articleSeq + 1
  PROVE  /\ new \in DOMAIN articles' /\ articles'[new].author = req[r].user
         /\ Holds(articles'[new], req[r])
         /\ TagsOf(new)' = {ToLower[g] : g \in req[r].arg.tagList}
<1> DEFINE q == req[r]
<1>1. PICK row, tagList :
        /\ row = [title |-> q.arg.title, slug |-> Slugify[q.arg.title],
                  text |-> q.arg.text, author |-> q.user]
        /\ tagList = {ToLower[g] : g \in q.arg.tagList}
  OBVIOUS
<1>2. /\ articles' = Put(articles, new, row)
      /\ articleTags' = articleTags \cup ({new} \X tagList)
  BY <1>1 DEF kAddNewArticle, add_new_article
<1>3. new \in DOMAIN articles' /\ articles'[new] = row
  BY <1>2 DEF Put
<1>4. \A p \in articleTags : p[1] # new
  <2>1. new \notin DOMAIN articles
    BY MaxSerialAssumption DEF SerialsDrawn
  <2> QED BY <2>1 DEF NoDanglingReference
<1>5. TagsOf(new)' = tagList
  <2>1. TagsOf(new)' = {p[2] : p \in {x \in articleTags' : x[1] = new}}
    BY DEF TagsOf
  <2>2. {x \in articleTags' : x[1] = new} = {new} \X tagList
    BY <1>2, <1>4
  <2>3. ASSUME NEW g \in tagList PROVE \E p \in {new} \X tagList : p[2] = g
    <3>1. <<new, g>> \in {new} \X tagList /\ <<new, g>>[2] = g
      OBVIOUS
    <3> QED BY <3>1
  <2>4. \A p \in {new} \X tagList : p[2] \in tagList
    OBVIOUS
  <2>5. {p[2] : p \in {new} \X tagList} = tagList
    BY <2>3, <2>4
  <2> QED BY <2>1, <2>2, <2>5
<1>6. /\ row.title = q.arg.title /\ row.slug = Slugify[q.arg.title]
      /\ row.text = q.arg.text /\ row.author = q.user
  BY <1>1
<1> QED BY <1>1, <1>3, <1>5, <1>6 DEF Holds

LEMMA UpdatedHolds ==
  ASSUME CallsInv, NEW r \in Slots, kUpdateArticleBySlug(r),
         update_article_by_slug_error(req[r].arg.slug, req[r].user,
                                      NewSlug(req[r].arg.title)) = "none",
         NEW i \in OwnedBySlug(req[r].arg.slug, req[r].user)
  PROVE  /\ i \in DOMAIN articles' /\ articles'[i].author = req[r].user
         /\ Holds(articles'[i], req[r])
<1> DEFINE q == req[r]
<1>1. i \in DOMAIN articles /\ articles[i].author = q.user
  BY DEF OwnedBySlug, get_article_id_by_slug
<1>2. PICK newSlug : newSlug = NewSlug(q.arg.title)
  OBVIOUS
<1>3. PICK row : row = [title |-> Coalesce(q.arg.title, articles[i].title),
                        slug |-> Coalesce(newSlug, articles[i].slug),
                        text |-> Coalesce(q.arg.text, articles[i].text),
                        author |-> articles[i].author]
  OBVIOUS
<1>4. i \in DOMAIN articles' /\ articles'[i] = row
  BY <1>1, <1>2, <1>3 DEF kUpdateArticleBySlug, update_article_by_slug
<1>5. q.arg.title # NULL => newSlug = Slugify[q.arg.title] /\ newSlug # NULL
  <2>1. q.pc \in Statements /\ q.pc = "kUpdateArticleBySlug"
    BY DEF kUpdateArticleBySlug, Statements
  <2>2. q.arg.title \in Opt(Titles)
    BY <2>1, Caller DEF Parsed, Serves
  <2>3. \A t \in Titles : Slugify[t] # NULL
    BY SlugifyAssumption, NullAssumption
  <2> QED BY <1>2, <2>2, <2>3 DEF NewSlug, Opt
<1>6. /\ row.title = Coalesce(q.arg.title, articles[i].title)
      /\ row.slug = Coalesce(newSlug, articles[i].slug)
      /\ row.text = Coalesce(q.arg.text, articles[i].text) /\ row.author = articles[i].author
  BY <1>3
<1> QED BY <1>1, <1>4, <1>5, <1>6 DEF Holds, Coalesce

WrittenInv == \A r \in Slots : WrittenKnown(req[r])

LEMMA WrittenStep ==
  ASSUME ServiceInv, Alone, TagsInv, WrittenInv, [Next]_vars
  PROVE  WrittenInv'
<1> SUFFICES ASSUME NEW r \in Slots PROVE WrittenKnown(req[r])'
  BY DEF WrittenInv
<1> DEFINE q == req[r]
           n == req'[r]
<1>0. /\ CallsInv /\ SerialsDrawn /\ NoDanglingReference /\ TagsKnown(q) /\ WrittenKnown(q)
      /\ Settled /\ DOMAIN articles \subseteq 1..articleSeq
  BY SettledStep
     DEF ServiceInv, IntegrityInv, Integrity, SerialsDrawn, TagsInv, WrittenInv
<1>1. CASE n = q
  <2>0. PICK id : id = q.id
    OBVIOUS
  <2>1. ASSUME q.op \in {"post_article", "put_article"},
               q.pc \in {"kGetArticleWithAuthorProfile", "article.tagList"}
        PROVE  /\ id \in DOMAIN articles' /\ articles'[id] = articles[id]
               /\ TagsOf(id)' = TagsOf(id)
    <3>1. q.pc \in Statements
      BY <2>1 DEF Statements
    <3>2. KeepsOf(q.user)
      BY <1>1, <2>1, <3>1, Waiting DEF PublicRoutes, OptionallyAuthenticated
    <3>3. id \in DOMAIN articles /\ articles[id].author = q.user
      BY <1>0, <2>0, <2>1 DEF WrittenKnown
    <3>4. id \in DOMAIN articles' /\ articles'[id] = articles[id]
      BY <3>2, <3>3 DEF KeepsOf
    <3> QED BY <1>0, <3>3, <3>4 DEF Settled
  <2>2. TagsOf(req[r].id)' = TagsOf(id)'
    BY <1>1, <2>0 DEF TagsOf
  <2> QED BY <1>0, <1>1, <2>0, <2>1, <2>2 DEF WrittenKnown, Shown, Filled
<1>2. CASE Fresh(r)
  <2>1. /\ n.pc \notin {"kGetArticleWithAuthorProfile"} \cup Shown
        /\ n.status # 200 /\ n.err # "nonsingle"
    BY <1>2 DEF Fresh, FirstStatements, Shown
  <2> QED BY <2>1 DEF WrittenKnown, Shown, Filled
<1>3. CASE (Step(r) \/ ExecuteFails(r)) /\ q.op \in {"post_article", "put_article"}
  <2>0. /\ Stops(r) => n.pc = "done" /\ n.status # 200
        /\ \A status : StopsWith(r, status, "nonsingle") => n.pc = "done"
        /\ n.op = q.op /\ q.pc \in Statements /\ Serves(q.pc, q.op)
    BY <1>0, <1>3, StepShape, StepInFlight, Caller
       DEF Stops, StopsWith, Refusals, Shape
  <2>1. ASSUME n.pc = "kGetArticleWithAuthorProfile"
        PROVE  /\ n.status # 200
               /\ n.id \in DOMAIN articles' /\ articles'[n.id].author = n.user
               /\ Tagged(TagsOf(req[r].id)', n) /\ Holds(articles'[n.id], n)
    <3>1. kAddNewArticle(r) \/ kUpdateArticleBySlug(r)
      <4>1. \/ kAddNewArticle(r) \/ kUpdateArticleBySlug(r)
            \/ kFavoriteArticle(r) \/ kUnfavoriteArticle(r)
            \/ kGetArticleWithAuthorProfileBySlug(r)
        BY <1>0, <1>3, <2>1, Arrived
      <4> QED BY <1>3, <2>0, <4>1
           DEF kFavoriteArticle, kUnfavoriteArticle, kGetArticleWithAuthorProfileBySlug, Serves
    <3>2. CASE kAddNewArticle(r)
      <4>1. PICK new : new = articleSeq + 1
        OBVIOUS
      <4>2. /\ add_new_article_error(Slugify[q.arg.title], q.user) = "none"
            /\ GoesTo(r, "kGetArticleWithAuthorProfile", new, new, q.view)
        BY <1>0, <2>0, <2>1, <3>2, <4>1, WritesArticle, Zenon
      <4>3. /\ n.id = new /\ n.user = q.user /\ n.arg = q.arg /\ n.op = q.op /\ n.status = 0
        BY <4>2 DEF GoesTo
      <4>4. /\ new \in DOMAIN articles' /\ articles'[new].author = q.user
            /\ Holds(articles'[new], q)
            /\ TagsOf(new)' = {ToLower[g] : g \in q.arg.tagList}
        BY <1>0, <3>2, <4>1, <4>2, NewArticleHolds
      <4> QED BY <4>3, <4>4 DEF Holds, Tagged, TagsOf
    <3>3. CASE kUpdateArticleBySlug(r)
      <4>1. /\ update_article_by_slug_error(q.arg.slug, q.user, NewSlug(q.arg.title)) = "none"
            /\ \E i \in OwnedBySlug(q.arg.slug, q.user) :
                 GoesTo(r, "kGetArticleWithAuthorProfile", i, i, q.view)
        BY <1>0, <2>0, <2>1, <3>3, WritesArticle, Zenon
      <4>2. PICK i \in OwnedBySlug(q.arg.slug, q.user) :
              GoesTo(r, "kGetArticleWithAuthorProfile", i, i, q.view)
        BY <4>1
      <4>3. /\ n.id = i /\ n.user = q.user /\ n.arg = q.arg /\ n.op = q.op /\ n.status = 0
        BY <4>2 DEF GoesTo
      <4>4. /\ i \in DOMAIN articles' /\ articles'[i].author = q.user
            /\ Holds(articles'[i], q)
        BY <1>0, <3>3, <4>1, UpdatedHolds
      <4>5. n.op # "post_article"
        BY <2>0, <3>3, <4>3 DEF kUpdateArticleBySlug, Serves
      <4> QED BY <4>3, <4>4, <4>5 DEF Holds, Tagged
    <3> QED BY <3>1, <3>2, <3>3
  <2>2. ASSUME n.pc = "article.tagList"
        PROVE  /\ n.status # 200
               /\ UNCHANGED dbVars
               /\ n.id \in DOMAIN articles /\ articles[n.id].author = n.user
               /\ Tagged(TagsOf(q.id), n) /\ n.id = q.id
               /\ DOMAIN n.view = ShownFields /\ Holds(n.view, n)
    <3>1. kGetArticleWithAuthorProfile(r)
      BY <1>0, <1>3, <2>2, Arrived
    <3>2. UNCHANGED dbVars /\ q.pc = "kGetArticleWithAuthorProfile"
      BY <3>1, Reading DEF kGetArticleWithAuthorProfile
    <3>3. GoesTo(r, "article.tagList", q.id, q.target, ShownRow(q.id))
      BY <1>0, <2>0, <2>2, <3>1, ShowsArticle, Zenon
    <3>4. /\ DOMAIN ShownRow(q.id) = ShownFields /\ ShownRow(q.id).slug = articles[q.id].slug
          /\ ShownRow(q.id).title = articles[q.id].title
          /\ ShownRow(q.id).text = articles[q.id].text
      BY DEF ShownRow, ShownFields
    <3>5. /\ q.id \in DOMAIN articles /\ articles[q.id].author = q.user
          /\ Tagged(TagsOf(q.id), q) /\ Holds(articles[q.id], q)
      BY <1>0, <1>3, <3>2 DEF WrittenKnown
    <3>6. Holds(ShownRow(q.id), q)
      BY <3>4, <3>5 DEF Holds
    <3> QED BY <3>2, <3>3, <3>4, <3>5, <3>6 DEF GoesTo, Holds, Tagged
  <2>5. ASSUME n.pc \in Filled
        PROVE  n.status # 200 /\ Holds(n.view, n) /\ Tagged(n.view.tagList, n)
    <3>1. TagListOfArticle(r) \/ FavoritedOfArticle(r)
      BY <1>0, <1>3, <2>5, Arrived DEF Filled
    <3>2. /\ ~Stops(r) /\ q.pc \in Shown
          /\ TagListOfArticle(r) => q.pc = "article.tagList"
          /\ FavoritedOfArticle(r) => q.pc \in Filled
      BY <2>0, <2>5, <3>1 DEF TagListOfArticle, FavoritedOfArticle, Shown, Filled
    <3>10. PICK field \in {"tagList", "favorited"} : \E value :
             /\ FieldFilled(r, field, value)
             /\ field = "tagList" => TagListOfArticle(r) /\ value = TagsOf(q.id)
             /\ field = "favorited" => FavoritedOfArticle(r)
      BY <1>0, <3>1, <3>2, FillsArticle, Zenon
    <3>3. PICK value :
            /\ FieldFilled(r, field, value)
            /\ field = "tagList" => TagListOfArticle(r) /\ value = TagsOf(q.id)
            /\ field = "favorited" => FavoritedOfArticle(r)
      BY <3>10
    <3>9. \E pc, id, target, view : GoesTo(r, pc, id, target, view)
      BY <1>0, <3>1, <3>2, FillsArticle, Zenon
    <3>4. n.op = q.op /\ n.arg = q.arg /\ n.status # 200
      BY <3>9 DEF GoesTo
    <3>5. /\ n.view.title = q.view.title /\ n.view.slug = q.view.slug
          /\ n.view.text = q.view.text
      BY <3>3 DEF FieldFilled, ShownFields
    <3>6. field = "tagList" => n.view.tagList = TagsOf(q.id) /\ Tagged(TagsOf(q.id), q)
      BY <1>0, <1>3, <3>2, <3>3 DEF FieldFilled, WrittenKnown
    <3>7. field = "favorited" =>
            n.view.tagList = q.view.tagList /\ Tagged(q.view.tagList, q)
      BY <1>0, <1>3, <3>2, <3>3 DEF FieldFilled, WrittenKnown, ShownFields
    <3>8. Holds(q.view, q)
      BY <1>0, <1>3, <3>2 DEF WrittenKnown
    <3> QED BY <3>3, <3>4, <3>5, <3>6, <3>7, <3>8 DEF Holds, Tagged
  <2>3. ASSUME n.status = 200
        PROVE  n.pc = "done" /\ Holds(n.view, n) /\ Tagged(n.view.tagList, n)
    <3>0. q.op \in ShowsOne
      BY <1>3 DEF ShowsOne
    <3>1. ProfileOfAuthor(r) /\ ~Stops(r)
      BY <1>0, <1>3, <2>0, <2>3, <3>0, Arrived
    <3>2. /\ q.pc = "article.following" /\ EndsWith(r, n.view)
          /\ FieldFilled(r, "following", <<q.user, q.view.author>> \in followers)
      BY <1>0, <3>1, FillsArticle, Zenon
    <3>3. /\ n.view.title = q.view.title /\ n.view.slug = q.view.slug
          /\ n.view.text = q.view.text /\ n.view.tagList = q.view.tagList
      BY <3>2 DEF FieldFilled, ShownFields
    <3>4. n.pc = "done" /\ n.op = q.op /\ n.arg = q.arg
      BY <3>2 DEF EndsWith
    <3>5. Holds(q.view, q) /\ Tagged(q.view.tagList, q)
      BY <1>0, <1>3, <3>2 DEF WrittenKnown, Shown, Filled
    <3> QED BY <3>3, <3>4, <3>5 DEF Holds, Tagged
  <2>4. n.err # "nonsingle"
    <3>1. q.err # "nonsingle"
      BY <1>0, <1>3 DEF WrittenKnown
    <3>2. kGetArticleWithAuthorProfile(r) => q.id \in DOMAIN articles
      BY <1>0, <1>3 DEF WrittenKnown, kGetArticleWithAuthorProfile
    <3>3. ~kGetComment(r)
      BY <1>3, <2>0 DEF kGetComment, Serves
    <3> QED BY <1>0, <1>3, <3>1, <3>2, <3>3, RowMissing
  <2>6. n.pc \in Shown <=> n.pc = "article.tagList" \/ n.pc \in Filled
    BY DEF Shown, Filled
  <2> QED BY <2>1, <2>2, <2>3, <2>4, <2>5, <2>6 DEF WrittenKnown, TagsOf, dbVars
<1>4. CASE (Step(r) \/ ExecuteFails(r)) /\ q.op \notin {"post_article", "put_article"}
  <2>1. n.op = q.op
    BY <1>0, <1>4, StepShape DEF Shape
  <2> QED BY <1>4, <2>1 DEF WrittenKnown
<1> QED BY <1>1, <1>2, <1>3, <1>4, SlotMoves

(* An author who waits is shown the article as written.                     *)
THEOREM AuthorsSeeTheirWrites ==
  ASSUME SequentialClients
  PROVE  Spec => []AuthorSeesOwnWrite
<1>1. Init => WrittenInv
  BY NothingKnown DEF WrittenInv, WrittenKnown, Shown, Filled
<1>2. ServiceInv /\ Alone /\ TagsInv /\ WrittenInv /\ [Next]_vars => WrittenInv'
  BY WrittenStep
<1>3. WrittenInv => AuthorSeesOwnWrite
  BY DEF WrittenInv, WrittenKnown, AuthorSeesOwnWrite, Holds, Tagged
<1> QED BY <1>1, <1>2, <1>3, ServiceInvAlways, AloneAlways, TagsAlways, PTL DEF Spec

-----------------------------------------------------------------------------
(* Favorites.  The slug names one article as long as nobody renames it, and *)
(* the favorite is the caller's.                                            *)

FavoriteRoutes == {"post_favorite", "del_favorite"}
FavoriteInv == \A r \in Slots : FavoriteKnown(req[r])

(* The article named by a favorite on its way keeps its slug.               *)
SlugsStay ==
  \A r \in Slots, i \in DOMAIN articles \cap DOMAIN articles' :
    InFlight(r) /\ req[r].op \in FavoriteRoutes /\ articles[i].slug = req[r].arg.slug
      => articles'[i].slug = articles[i].slug

LEMMA OneArticle ==
  ASSUME UniqueSlugs, NEW i \in DOMAIN articles, NEW slug, articles[i].slug = slug
  PROVE  ArticleIdOf(slug) = i /\ get_article_id_by_slug(slug) = {i}
<1>1. get_article_id_by_slug(slug) = {i}
  BY DEF UniqueSlugs, get_article_id_by_slug
<1>2. ArticleIdOf(slug) \in {i}
  BY <1>1 DEF ArticleIdOf
<1> QED BY <1>1, <1>2

(* After the statement that writes, the article looked up is the one        *)
(* written, if it is there.                                                 *)
LEMMA FavoriteWritten ==
  ASSUME UniqueSlugs, CallsInv, NEW r \in Slots, ~Stops(r),
         kFavoriteArticle(r) \/ kUnfavoriteArticle(r),
         NEW id, id = req[r].id,
         id \in DOMAIN articles => articles[id].slug = req[r].arg.slug
  PROVE  /\ GoesTo(r, "kGetArticleWithAuthorProfile", id, ArticleIdOf(req[r].arg.slug),
                   req[r].view)
         /\ articles' = articles
         /\ id \in DOMAIN articles =>
              /\ ArticleIdOf(req[r].arg.slug) = id
              /\ kFavoriteArticle(r) => <<req[r].user, id>> \in favorites'
              /\ kUnfavoriteArticle(r) => <<req[r].user, id>> \notin favorites'
<1> DEFINE q == req[r]
<1>1. GoesTo(r, "kGetArticleWithAuthorProfile", id, ArticleIdOf(q.arg.slug), q.view)
  BY WritesFavorite, Zenon
<1>2. articles' = articles
  BY DEF kFavoriteArticle, kUnfavoriteArticle, favorite_article, unfavorite_article
<1>3. ASSUME id \in DOMAIN articles
      PROVE  /\ ArticleIdOf(q.arg.slug) = id /\ get_article_id_by_slug(q.arg.slug) = {id}
  BY <1>3, OneArticle
<1>4. ASSUME kFavoriteArticle(r), id \in DOMAIN articles
      PROVE  <<q.user, id>> \in favorites'
  <2>1. favorite_article_error(q.arg.slug, q.user) = "none"
    BY <1>4, WritesFavorite
  <2>2. favorites' = favorites \cup {<<q.user, ArticleIdOf(q.arg.slug)>>}
    BY <1>4, <2>1 DEF kFavoriteArticle, favorite_article
  <2> QED BY <1>3, <1>4, <2>2
<1>5. ASSUME kUnfavoriteArticle(r), id \in DOMAIN articles
      PROVE  <<q.user, id>> \notin favorites'
  <2>1. favorites' = favorites \ {<<q.user, i>> : i \in get_article_id_by_slug(q.arg.slug)}
    BY <1>5 DEF kUnfavoriteArticle, unfavorite_article
  <2> QED BY <1>3, <1>5, <2>1
<1> QED BY <1>1, <1>2, <1>3, <1>4, <1>5

LEMMA FavoriteStep ==
  ASSUME ServiceInv, ServiceInv', Alone, TagsInv, FavoriteInv, [Next]_vars,
         [SlugsStay]_vars
  PROVE  FavoriteInv'
<1> SUFFICES ASSUME NEW r \in Slots PROVE FavoriteKnown(req[r])'
  BY DEF FavoriteInv
<1> DEFINE q == req[r]
           n == req'[r]
<1>0. /\ CallsInv /\ SerialsDrawn /\ RowsTyped /\ UniqueSlugs
      /\ TagsKnown(q) /\ FavoriteKnown(q)
      /\ Settled /\ DOMAIN articles \subseteq 1..articleSeq
      /\ \A i \in 1..articleSeq : i \in 1..articleSeq'
      /\ \A i \in 1..articleSeq : i \in DOMAIN articles' => i \in DOMAIN articles
  BY SettledStep
     DEF ServiceInv, IntegrityInv, Integrity, SerialsDrawn, TagsInv, FavoriteInv, Settled
<1>1. CASE n = q
  <2>0. PICK id : id = q.id
    OBVIOUS
  <2>1. ASSUME q.pc \in {"kGetArticleWithAuthorProfile"} \cup Shown
        PROVE  <<q.user, q.id>> \in favorites' <=> <<q.user, q.id>> \in favorites
    <3>1. q.pc \in Statements
      BY <2>1 DEF Statements, Shown
    <3> QED BY <1>1, <3>1, PairsStay
  <2>2. ASSUME q.pc \in {"kFavoriteArticle", "kUnfavoriteArticle"}, id \in DOMAIN articles'
        PROVE  articles'[id].slug = q.arg.slug
    <3>1. id \in DOMAIN articles /\ articles[id].slug = q.arg.slug
      BY <1>0, <2>0, <2>2 DEF FavoriteKnown
    <3>2. q.pc \in Statements
      BY <2>2 DEF Statements
    <3>3. InFlight(r) /\ q.op \in FavoriteRoutes
      BY <1>0, <2>2, <3>2, Caller, StatementsInFlight DEF InFlight, Serves, FavoriteRoutes
    <3>4. articles'[id].slug = articles[id].slug
      BY <2>2, <3>1, <3>3 DEF SlugsStay, vars, dbVars
    <3> QED BY <3>1, <3>4
  <2> QED BY <1>0, <1>1, <2>0, <2>1, <2>2 DEF FavoriteKnown, Shown
<1>2. CASE Fresh(r)
  <2>1. /\ n.pc \notin {"kFavoriteArticle", "kUnfavoriteArticle",
                        "kGetArticleWithAuthorProfile"} \cup Shown
        /\ n.status # 200
    BY <1>2 DEF Fresh, FirstStatements, Shown
  <2> QED BY <2>1 DEF FavoriteKnown, Shown
<1>3. CASE Step(r) \/ ExecuteFails(r)
  <2>0. /\ Stops(r) => n.pc = "done" /\ n.status # 200
        /\ \A status : StopsWith(r, status, "nonsingle") => n.pc = "done"
        /\ n.op = q.op /\ q.pc \in Statements /\ Serves(q.pc, q.op)
    BY <1>0, <1>3, StepShape, StepInFlight, Caller
       DEF Stops, StopsWith, Refusals, Shape
  <2>1. ASSUME n.pc \in {"kFavoriteArticle", "kUnfavoriteArticle"}
        PROVE  /\ UNCHANGED dbVars
               /\ n.id \in DOMAIN articles /\ articles[n.id].slug = n.arg.slug
    <3>1. kGetArticleIdBySlug(r)
      BY <1>0, <1>3, <2>1, Arrived
    <3>2. UNCHANGED dbVars
      BY <3>1, Reading
    <3>3. /\ ArticleIdOf(q.arg.slug) # NULL
          /\ GoesTo(r, AfterLookup[q.op], ArticleIdOf(q.arg.slug), q.target, q.view)
      BY <1>0, <2>0, <2>1, <3>1, FindsArticle, Zenon
    <3> QED BY <3>2, <3>3, SlugLookup DEF GoesTo
  <2>2. ASSUME n.pc = "kGetArticleWithAuthorProfile", n.op \in FavoriteRoutes
        PROVE  /\ n.status # 200 /\ n.id \in 1..articleSeq
               /\ n.id \in DOMAIN articles' =>
                    /\ n.target = n.id
                    /\ (<<n.user, n.id>> \in favorites') = (n.op = "post_favorite")
    <3>1. \/ kFavoriteArticle(r) /\ q.op = "post_favorite" /\ q.pc = "kFavoriteArticle"
          \/ kUnfavoriteArticle(r) /\ q.op = "del_favorite" /\ q.pc = "kUnfavoriteArticle"
      <4>1. \/ kAddNewArticle(r) \/ kUpdateArticleBySlug(r)
            \/ kFavoriteArticle(r) \/ kUnfavoriteArticle(r)
            \/ kGetArticleWithAuthorProfileBySlug(r)
        BY <1>0, <1>3, <2>2, Arrived
      <4> QED BY <2>0, <2>2, <4>1
           DEF FavoriteRoutes, kAddNewArticle, kUpdateArticleBySlug, kFavoriteArticle,
               kUnfavoriteArticle, kGetArticleWithAuthorProfileBySlug, Serves
    <3>2. PICK id : id = q.id
      OBVIOUS
    <3>3. id \in 1..articleSeq /\ (id \in DOMAIN articles => articles[id].slug = q.arg.slug)
      BY <1>0, <3>1, <3>2 DEF FavoriteKnown
    <3>4. ~Stops(r)
      BY <2>0, <2>2
    <3>5. /\ GoesTo(r, "kGetArticleWithAuthorProfile", id, ArticleIdOf(q.arg.slug), q.view)
          /\ articles' = articles
          /\ id \in DOMAIN articles =>
               /\ ArticleIdOf(q.arg.slug) = id
               /\ kFavoriteArticle(r) => <<q.user, id>> \in favorites'
               /\ kUnfavoriteArticle(r) => <<q.user, id>> \notin favorites'
      BY <1>0, <3>1, <3>2, <3>3, <3>4, FavoriteWritten
    <3>6. /\ n.id = id /\ n.user = q.user /\ n.target = ArticleIdOf(q.arg.slug)
          /\ n.op = q.op /\ n.status = 0
      BY <3>5 DEF GoesTo
    <3>7. id \in DOMAIN articles =>
            (<<q.user, id>> \in favorites') = (q.op = "post_favorite")
      BY <3>1, <3>5
    <3> QED BY <3>3, <3>5, <3>6, <3>7
  <2>3. ASSUME n.pc = "article.tagList", n.op \in FavoriteRoutes
        PROVE  /\ n.status # 200
               /\ DOMAIN n.view = ShownFields /\ n.target = n.id
               /\ (<<n.user, n.id>> \in favorites') = (n.op = "post_favorite")
               /\ n.op = "post_favorite" => n.view.favoritesCount >= 1
    <3>1. kGetArticleWithAuthorProfile(r)
      BY <1>0, <1>3, <2>3, Arrived
    <3>2. favorites' = favorites /\ q.pc = "kGetArticleWithAuthorProfile"
      BY <3>1, Reading DEF kGetArticleWithAuthorProfile, dbVars
    <3>3. /\ q.id \in DOMAIN articles
          /\ GoesTo(r, "article.tagList", q.id, q.target, ShownRow(q.id))
      BY <1>0, <2>0, <2>3, <3>1, ShowsArticle, Zenon
    <3>4. /\ DOMAIN ShownRow(q.id) = ShownFields
          /\ ShownRow(q.id).favoritesCount = FavoritesCount(q.id)
      BY DEF ShownRow, ShownFields
    <3>5. /\ n.id = q.id /\ n.user = q.user /\ n.target = q.target /\ n.status = 0
          /\ n.op = q.op /\ n.view = ShownRow(q.id)
      BY <3>3 DEF GoesTo
    <3>6. q.target = q.id /\ (<<q.user, q.id>> \in favorites) = (q.op = "post_favorite")
      BY <1>0, <2>0, <2>3, <3>2, <3>3 DEF FavoriteKnown, FavoriteRoutes
    <3>7. q.op = "post_favorite" => FavoritesCount(q.id) >= 1
      BY <1>0, <3>6, CallerCounted
    <3> QED BY <3>2, <3>4, <3>5, <3>6, <3>7
  <2>5. ASSUME n.pc \in Filled, n.op \in FavoriteRoutes
        PROVE  /\ n.status # 200 /\ n.target = n.id
               /\ (<<n.user, n.id>> \in favorites') = (n.op = "post_favorite")
               /\ n.op = "post_favorite" => n.view.favoritesCount >= 1
               /\ n.pc = "article.following" =>
                    n.view.favorited = (n.op = "post_favorite")
    <3>1. TagListOfArticle(r) \/ FavoritedOfArticle(r)
      BY <1>0, <1>3, <2>5, Arrived DEF Filled
    <3>2. UNCHANGED dbVars /\ ~Stops(r) /\ q.pc \in Shown
      BY <2>0, <2>5, <3>1, Reading DEF TagListOfArticle, FavoritedOfArticle, Shown, Filled
    <3>3. /\ "favoritesCount" \in ShownFields \ {"tagList"}
          /\ "favoritesCount" \in ShownFields \ {"favorited"}
      BY DEF ShownFields
    <3>4. /\ n.user = q.user /\ n.id = q.id /\ n.target = q.target /\ n.op = q.op
          /\ n.status # 200 /\ n.view.favoritesCount = q.view.favoritesCount
      <4>1. \E pc, view : GoesTo(r, pc, q.id, q.target, view)
        BY <1>0, <3>1, <3>2, FillsArticle, Zenon
      <4>2. n.view.favoritesCount = q.view.favoritesCount
        BY <1>0, <3>1, <3>2, <3>3, FillsArticle DEF FieldFilled
      <4> QED BY <4>1, <4>2 DEF GoesTo
    <3>5. n.pc = "article.following" => FavoritedOfArticle(r)
      BY <1>0, <1>3, Arrived
    <3>6. n.pc = "article.following" =>
            n.view.favorited = (<<q.user, q.id>> \in favorites)
      BY <1>0, <3>2, <3>5, FillsArticle, Zenon DEF FieldFilled
    <3>7. /\ q.target = q.id
          /\ (<<q.user, q.id>> \in favorites) = (q.op = "post_favorite")
          /\ q.op = "post_favorite" => q.view.favoritesCount >= 1
      BY <1>0, <2>5, <3>2, <3>4 DEF FavoriteKnown, FavoriteRoutes
    <3>8. favorites' = favorites
      BY <3>2 DEF dbVars
    <3> QED BY <3>4, <3>6, <3>7, <3>8, Zenon
  <2>4. ASSUME n.op \in FavoriteRoutes, n.status = 200
        PROVE  /\ n.pc = "done" /\ n.target = n.id
               /\ n.view.favorited = (n.op = "post_favorite")
               /\ n.op = "post_favorite" => n.view.favoritesCount >= 1
    <3>0. q.op \in ShowsOne
      BY <2>0, <2>4 DEF ShowsOne, FavoriteRoutes
    <3>1. ProfileOfAuthor(r) /\ ~Stops(r)
      BY <1>0, <1>3, <2>0, <2>4, <3>0, Arrived
    <3>2. /\ q.pc = "article.following" /\ EndsWith(r, n.view)
          /\ FieldFilled(r, "following", <<q.user, q.view.author>> \in followers)
      BY <1>0, <3>1, FillsArticle, Zenon
    <3>3. /\ n.pc = "done" /\ n.op = q.op /\ n.id = q.id /\ n.target = q.target
      BY <3>2 DEF EndsWith
    <3>4. /\ n.view.favoritesCount = q.view.favoritesCount
          /\ n.view.favorited = q.view.favorited
      BY <3>2 DEF FieldFilled, ShownFields
    <3>5. q.op = "post_favorite" \/ q.op = "del_favorite"
      BY <2>4, <3>3 DEF FavoriteRoutes
    <3>6. /\ q.target = q.id
          /\ q.op = "post_favorite" => q.view.favoritesCount >= 1
      BY <1>0, <3>2, <3>5 DEF FavoriteKnown, Shown
    <3>7. q.view.favorited = (q.op = "post_favorite")
      BY <1>0, <3>2, <3>5 DEF FavoriteKnown
    <3>8. n.view.favorited = (n.op = "post_favorite")
      BY <3>3, <3>4, <3>7, Zenon
    <3> QED BY <3>3, <3>4, <3>6, <3>8
  <2>6. n.pc \in Shown <=> n.pc = "article.tagList" \/ n.pc \in Filled
    BY DEF Shown, Filled
  <2>7. n.pc = "article.following" => n.pc \in Filled
    BY DEF Filled
  <2> QED BY <1>0, <2>1, <2>2, <2>3, <2>4, <2>5, <2>6, <2>7
       DEF FavoriteKnown, FavoriteRoutes, dbVars
<1> QED BY <1>1, <1>2, <1>3, SlotMoves

(* A client who waits is shown the article it named, favorited and counted  *)
(* or not favorited as it asked, in every behaviour in which nobody renames *)
(* that article meanwhile.                                                  *)
THEOREM FavoriteRepliesAreTrue ==
  ASSUME SequentialClients
  PROVE  Spec /\ [][SlugsStay]_vars => []FavoriteReplyTrue
<1>1. Init => FavoriteInv
  BY NothingKnown DEF FavoriteInv, FavoriteKnown, Shown
<1>2. ServiceInv /\ ServiceInv' /\ Alone /\ TagsInv /\ FavoriteInv /\ [Next]_vars
        /\ [SlugsStay]_vars => FavoriteInv'
  BY FavoriteStep
<1>3. FavoriteInv => FavoriteReplyTrue
  <2> SUFFICES ASSUME FavoriteInv, NEW r \in Slots
               PROVE  /\ Answered(r, "post_favorite", 200) =>
                           /\ req[r].target = req[r].id
                           /\ req[r].view.favorited /\ req[r].view.favoritesCount >= 1
                      /\ Answered(r, "del_favorite", 200) =>
                           /\ req[r].target = req[r].id
                           /\ ~req[r].view.favorited
    BY Zenon DEF FavoriteReplyTrue
  <2> DEFINE q == req[r]
  <2>1. q.op \in FavoriteRoutes /\ q.status = 200 =>
          /\ q.target = q.id
          /\ q.view.favorited = (q.op = "post_favorite")
          /\ q.op = "post_favorite" => q.view.favoritesCount >= 1
    BY DEF FavoriteInv, FavoriteKnown, FavoriteRoutes
  <2>2. CASE Answered(r, "post_favorite", 200)
    <3>1. q.op = "post_favorite" /\ q.status = 200 /\ q.op \in FavoriteRoutes
      BY <2>2 DEF Answered, FavoriteRoutes
    <3>2. q.op # "del_favorite"
      BY <3>1
    <3> QED BY <2>1, <3>1, <3>2, Zenon DEF Answered
  <2>3. CASE Answered(r, "del_favorite", 200)
    <3>1. q.op = "del_favorite" /\ q.status = 200 /\ q.op \in FavoriteRoutes
      BY <2>3 DEF Answered, FavoriteRoutes
    <3>2. q.op # "post_favorite"
      BY <3>1
    <3> QED BY <2>1, <3>1, <3>2, Zenon DEF Answered
  <2> QED BY <2>2, <2>3
<1> QED BY <1>1, <1>2, <1>3, ServiceInvAlways, AloneAlways, TagsAlways, PTL DEF Spec

=============================================================================
