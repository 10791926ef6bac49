------------------------------ MODULE Listings -------------------------------
(***************************************************************************)
(* The handlers that answer with several rows: src/handlers/api            *)
(* articles.cpp (get), articles_feed.cpp, articles_slug_comments.cpp (get) *)
(* and tags.cpp.  The rows of a list and COUNT( * ) come from the snapshot *)
(* of the statement; then the functions of the select list run row by row, *)
(* VOLATILE, each in a snapshot of its own.                                *)
(*                                                                         *)
(* A list is a function from the ids of its rows to what is shown of each. *)
(* Its order is left open: ORDER BY created_at decides nothing between     *)
(* articles of one moment, and created_at is the start of the transaction, *)
(* which need not be the order of the ids.                                 *)
(***************************************************************************)
EXTENDS Requests

CONSTANTS
  DefaultLimit,  \* 20 in db_1.sql
  Numbers,       \* what clients name as limit and offset
  Filters        \* the arguments clients name in a request for articles

ASSUME DefaultLimitAssumption == DefaultLimit \in Nat \ {0}
ASSUME NumbersAssumption == Numbers \subseteq Int
ASSUME FiltersAssumption ==
  Filters \subseteq [tag: Opt(TagNames), author: Opt(UserNames), favorited: Opt(UserNames),
                     limit: Opt(Numbers), offset: Opt(Numbers)]

-----------------------------------------------------------------------------
(* Requests arrive.  An argument that is not named is NULL.                 *)

BeginGetArticles(r) ==
  \E u \in Opt(DOMAIN users), f \in Filters :
    Begin(r, "get_articles", u, f, "kGetArticlesWithAuthorProfile")

BeginGetFeed(r) ==
  \E u \in DOMAIN users, l, o \in Opt(Numbers) :
    Begin(r, "get_feed", u, [limit |-> l, offset |-> o], "kGetFeed")

BeginGetComments(r) ==
  \E u \in Opt(DOMAIN users), s \in Slugs :
    Begin(r, "get_comments", u, [slug |-> s], "kGetCommentsFromArticle")

BeginGetTags(r) == Begin(r, "get_tags", NULL, NULL, "kGetTags")

BeginListRequest(r) ==
  \/ BeginGetArticles(r)
  \/ BeginGetFeed(r)
  \/ BeginGetComments(r)
  \/ BeginGetTags(r)

-----------------------------------------------------------------------------
(* Which rows.                                                              *)

HasName(user, name) == CiFold[users[user].username] = CiFold[name]

Listed(f) ==
  {i \in DOMAIN articles :
     /\ f.tag # NULL => <<i, f.tag>> \in articleTags
     /\ f.author # NULL => HasName(articles[i].author, f.author)
     /\ f.favorited # NULL =>
          \E p \in favorites : p[2] = i /\ HasName(p[1], f.favorited)}

FollowedBy_Followers(user) == {p[1] : p \in {q \in followers : q[2] = user}}  \* mutant
FollowedBy(user) == {p[2] : p \in {q \in followers : q[1] = user}}
Feed(user) == {i \in DOMAIN articles : articles[i].author \in FollowedBy(user)}

(* What LIMIT and OFFSET may leave of some rows: a number of them, and any  *)
(* of them, as the order is open.  LIMIT NULL is no limit.                  *)
RowsAfter(offset, rows) == IF rows > offset THEN rows - offset ELSE 0
PageSize(rows, limit, offset) ==
  IF limit # NULL /\ limit < RowsAfter(offset, rows) THEN limit ELSE RowsAfter(offset, rows)
Pages(ids, limit, offset) ==
  {page \in SUBSET ids :
     Cardinality(page) = PageSize(Cardinality(ids), limit, offset)}

Negative(n) == n # NULL /\ n < 0
Default(n, default) == IF n = NULL THEN default ELSE n

-----------------------------------------------------------------------------
(* Statements.  A list without rows is answered at once.  What a function   *)
(* of the select list has yet to fill in is NULL.                           *)

ListRow(i, count) ==
  [author |-> articles[i].author, favoritesCount |-> count,
   tagList |-> NULL, favorited |-> FALSE, following |-> NULL]

Lists(r, rows, pc) ==
  Read(r, IF DOMAIN rows = {} THEN Reply([req[r] EXCEPT !.view = rows], 200, "none")
          ELSE [req[r] EXCEPT !.view = rows, !.pc = pc])

RefusesNumbers(q) == Negative(q.arg.limit) \/ Negative(q.arg.offset)

kGetArticlesWithAuthorProfile(r) ==
  LET q == req[r]
      pages == Pages(Listed(q.arg), Default(q.arg.limit, DefaultLimit),
                     Default(q.arg.offset, 0))
  IN /\ q.pc = "kGetArticlesWithAuthorProfile"
     /\ IF RefusesNumbers(q) THEN Read(r, Reply(q, 500, "negative"))
        ELSE \E page \in pages :
               Lists(r, [i \in page |-> ListRow(i, FavoritesCount(i))], "row.tagList")

(* The handler passes NULL for what the client does not name, so the        *)
(* defaults of get_feed's parameters never apply; and its COUNT compares    *)
(* article_id with itself.                                                  *)
kGetFeed(r) ==
  LET q == req[r]
      pages == Pages(Feed(q.user), q.arg.limit, Default(q.arg.offset, 0))
  IN /\ q.pc = "kGetFeed"
     /\ IF RefusesNumbers(q) THEN Read(r, Reply(q, 500, "negative"))
        ELSE \E page \in pages :
               Lists(r, [i \in page |-> ListRow(i, Cardinality(favorites))], "row.tagList")

(* The following flag completes a row; after the last one comes the answer. *)
CompleteRow(r, i, pc) ==
  LET q == req[r]
      shown == [q.view EXCEPT ![i].following = Follows(q.view[i].author, q.user)]
  IN Read(r, IF \A j \in DOMAIN shown : shown[j].following # NULL
             THEN Reply([q EXCEPT !.view = shown], 200, "none")
             ELSE [q EXCEPT !.view = shown, !.pc = pc])

(* The next row of a list of articles.  is_favorited_article is not told    *)
(* the user: its answer is the same in every snapshot.                      *)
TagListOfRow(r) ==
  LET q == req[r]
  IN /\ q.pc = "row.tagList"
     /\ \E i \in DOMAIN q.view :
          /\ q.view[i].tagList = NULL
          /\ Read(r, [q EXCEPT !.pc = "row.following",
                               !.view[i].tagList = get_article_tag_list(i),
                               !.view[i].favorited = is_favorited_article(i, NULL)])

ProfileOfRow(r) ==
  LET q == req[r]
  IN /\ q.pc = "row.following"
     /\ \E i \in DOMAIN q.view :
          /\ q.view[i].tagList # NULL /\ q.view[i].following = NULL
          /\ CompleteRow(r, i, "row.tagList")

(* No ORDER BY: the rows come in any order.  The answer is 200 even when    *)
(* there is no such article.                                                *)
kGetCommentsFromArticle(r) ==
  LET q == req[r]
      found == CommentsOn(get_article_id_by_slug(q.arg.slug))
  IN /\ q.pc = "kGetCommentsFromArticle"
     /\ Lists(r, [c \in found |-> [author |-> comments[c].author, following |-> NULL]],
              "comment.following")

ProfileOfComment(r) ==
  /\ req[r].pc = "comment.following"
  /\ \E c \in DOMAIN req[r].view :
       /\ req[r].view[c].following = NULL
       /\ CompleteRow(r, c, "comment.following")

(* One row per article and tag: a name is listed as often as it is used.    *)
kGetTags(r) ==
  LET q == req[r]
      used == {p[2] : p \in articleTags}
  IN /\ q.pc = "kGetTags"
     /\ Read(r, Reply([q EXCEPT !.view = [g \in used |->
                         Cardinality({p \in articleTags : p[2] = g})]], 200, "none"))

ListStep(r) ==
  \/ kGetArticlesWithAuthorProfile(r)
  \/ kGetFeed(r)
  \/ TagListOfRow(r)
  \/ ProfileOfRow(r)
  \/ kGetCommentsFromArticle(r)
  \/ ProfileOfComment(r)
  \/ kGetTags(r)
=============================================================================
