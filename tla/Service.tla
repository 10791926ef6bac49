------------------------------ MODULE Service -------------------------------
(***************************************************************************)
(* The service: all handlers on one database.                              *)
(***************************************************************************)
EXTENDS Articles, Accounts, Listings

vars == <<users, articles, comments, tags, articleTags, favorites, followers,
          userSeq, articleSeq, commentSeq, req>>

Init == DbInit /\ RequestsInit

(* What the server does for a request it has begun to handle.               *)
Step(r) == ArticleStep(r) \/ AccountStep(r) \/ ListStep(r)

Next ==
  \E r \in Slots :
    \/ BeginArticleRequest(r)
    \/ BeginAccountRequest(r)
    \/ BeginListRequest(r)
    \/ Reject(r)
    \/ Step(r)
    \/ ExecuteFails(r)

(* A coroutine that waits for a statement is resumed with its answer.       *)
(* Clients need not send anything, and nothing needs to fail.               *)
Fairness == \A r \in Slots : WF_vars(Step(r))

Spec == Init /\ [][Next]_vars
FairSpec == Spec /\ Fairness

-----------------------------------------------------------------------------
Statements ==
  {"kAddNewArticle", "kUpdateArticleBySlug", "kGetArticleIdBySlug",
   "kDeleteArticleBySlug", "kFavoriteArticle", "kUnfavoriteArticle",
   "kGetArticleWithAuthorProfileBySlug", "kGetArticleWithAuthorProfile",
   "article.tagList", "article.favorited", "article.following",
   "kAddNewComment", "kGetComment", "kIsCommentExist", "kDeleteComment", "kAddNewUser",
   "kGetUserByEmail", "kGetUserById", "kUpdateUserById", "kGetProfileByUsername",
   "kGetUserByUsername",
   "kFollow", "kUnfollow", "kGetArticlesWithAuthorProfile", "kGetFeed",
   "row.tagList", "row.following", "kGetCommentsFromArticle", "comment.following",
   "kGetTags"}

(* The tables hold rows of their types, and a request is between two        *)
(* statements of db/sql.hpp or answered with one of the handlers' statuses. *)
TypeOK ==
  /\ DbTypeOK
  /\ DOMAIN req = Slots
  /\ \A r \in Slots :
       /\ req[r].op \in Opt(Routes)
       /\ req[r].pc \in Statements \cup {"idle", "done"}
       /\ req[r].user \in Opt(Serials)
       /\ req[r].id \in Opt(Serials) /\ req[r].target \in Opt(Serials)
       /\ req[r].status \in {0, 200, 400, 401, 403, 404, 422, 500}
       /\ (req[r].status = 0) = (req[r].pc # "done")
       /\ req[r].wrote \in BOOLEAN

(* A request that was refused changed nothing, over all the statements its  *)
(* handler executed: one answered 4xx (the early returns of the handlers    *)
(* and their catch of UniqueViolation), and one ended by a constraint whose *)
(* error no handler catches: a PUT user of a taken name, a DELETE of an     *)
(* article that favorites hold back and that must keep its comments.        *)
Refused(q) == q.status \in 400..499 \/ q.err \notin {"none", "io", "nonsingle"}
RefusedWroteNothing == \A r \in Slots : Refused(req[r]) => ~req[r].wrote

(* No id is given twice, not that of a row that is gone and not one drawn   *)
(* by a refused insert, although a request may keep it from one statement   *)
(* to the next: sequences never go back, and a new row's id is beyond all   *)
(* that were drawn (SERIAL in db_1.sql, refused at its end).                *)
IdsNeverReused ==
  [][/\ userSeq <= userSeq' /\ articleSeq <= articleSeq' /\ commentSeq <= commentSeq'
     /\ \A u \in DOMAIN users' \ DOMAIN users : u > userSeq
     /\ \A i \in DOMAIN articles' \ DOMAIN articles : i > articleSeq
     /\ \A c \in DOMAIN comments' \ DOMAIN comments : c > commentSeq]_vars

(* The slug clients address an article by is always the slug of its current *)
(* title, across POST, PUT with and without a title, and requests that      *)
(* fail half way (Slugify in articles.cpp and articles_slug.cpp).           *)
SlugFollowsTitle ==
  \A i \in DOMAIN articles : articles[i].slug = Slugify[articles[i].title]

Moves(r, ops, user) == req[r].op \in ops /\ req[r].user = user /\ req'[r] # req[r]
MovesSome(ops, user) == \E r \in Slots : Moves(r, ops, user)
Answers(r, ops) == /\ InFlight(r) /\ req[r].op \in ops
                   /\ req'[r].pc = "done" /\ req'[r].status = 200

(* A row changes or disappears only in a step of a request of its owner: an *)
(* article by its author, a comment by its author or with its article, a    *)
(* favorite or follower by the user who holds it, however requests and      *)
(* renames interleave (the author_id and user_id conditions of db_1.sql).   *)
OnlyOwnersChange ==
  [][/\ \A i \in DOMAIN articles :
          i \notin DOMAIN articles' \/ articles'[i] # articles[i]
            => MovesSome({"put_article", "del_article"}, articles[i].author)
     /\ \A c \in DOMAIN comments :
          c \notin DOMAIN comments' \/ comments'[c] # comments[c]
            => \/ MovesSome({"del_comment"}, comments[c].author)
               \/ MovesSome({"del_article"}, articles[comments[c].article].author)
     /\ \A p \in favorites' \ favorites : MovesSome({"post_favorite"}, p[1])
     /\ \A p \in favorites \ favorites' : MovesSome({"del_favorite"}, p[1])
     /\ \A p \in followers' \ followers : MovesSome({"follow"}, p[1])
     /\ \A p \in followers \ followers' : MovesSome({"unfollow"}, p[1])]_vars

(* A field of an account changes only in a PUT of its owner that names the  *)
(* field, and to the value named: two concurrent PUTs never undo each other *)
(* (COALESCE in update_user_by_id).                                         *)
NoLostUpdate ==
  [][/\ \A u \in DOMAIN users :
          /\ \A f \in {"username", "email", "bio"} : users'[u][f] # users[u][f]
               => \E r \in Slots : /\ Moves(r, {"put_user"}, u)
                                   /\ req[r].arg[f] # NULL
                                   /\ req[r].arg[f] = users'[u][f]
          /\ users'[u].password_hash # users[u].password_hash
               => \E r \in Slots : /\ Moves(r, {"put_user"}, u)
                                   /\ req[r].arg.password # NULL
                                   /\ Digest[req[r].arg.password] = users'[u].password_hash]_vars

-----------------------------------------------------------------------------
(* What a client that waits for its answers can rely on.                    *)

(* The author of a POST or PUT is shown what it wrote: the handler's second *)
(* statement finds the row, and nobody changed it in between.               *)
AuthorSeesOwnWrite ==
  \A r \in Slots : req[r].op \in {"post_article", "put_article"} =>
    /\ req[r].err # "nonsingle"
    /\ req[r].status = 200 =>
         /\ req[r].arg.title # NULL => /\ req[r].view.title = req[r].arg.title
                                       /\ req[r].view.slug = Slugify[req[r].arg.title]
         /\ req[r].arg.text # NULL => req[r].view.text = req[r].arg.text
         /\ req[r].op = "post_article" =>
              req[r].view.tagList = {ToLower[g] : g \in req[r].arg.tagList}

(* An author told that DELETE succeeded no longer has the article the       *)
(* handler looked up, although the deletion goes by slug again.             *)
OwnDeleteGone ==
  \A r \in Slots : Answered(r, "del_article", 200) =>
    ~ \E i \in DOMAIN articles : i = req[r].id /\ articles[i].author = req[r].user

(* The article in the reply to a favorite is the one now favorited, and it  *)
(* is shown as favorited and counted; after an unfavorite it is shown as    *)
(* not favorited (lookup by slug, write by slug, read back by id).          *)
FavoriteReplyTrue ==
  \A r \in Slots :
    /\ Answered(r, "post_favorite", 200) =>
         /\ req[r].target = req[r].id
         /\ req[r].view.favorited /\ req[r].view.favoritesCount >= 1
    /\ Answered(r, "del_favorite", 200) =>
         /\ req[r].target = req[r].id
         /\ ~req[r].view.favorited

(* An article shown as favorited by the caller counts the caller, although  *)
(* the count and the flag are read in different snapshots.                  *)
FavoritedIsCounted ==
  \A r \in Slots : Answered(r, "get_article", 200) /\ req[r].view.favorited
    => req[r].view.favoritesCount >= 1

(* A comment that a DELETE answered 200 did not delete is on an article that *)
(* no longer has the slug the client named: it was renamed between the       *)
(* existence check and the DELETE, which are two statements.                 *)
CommentLeftByRenameOnly ==
  [][\A r \in Slots : Answers(r, {"del_comment"}) /\ req[r].arg.comment \in DOMAIN comments'
       => articles'[comments'[req[r].arg.comment].article].slug # req[r].arg.slug]_vars

(* A comment that was stored and then not found for the reply went with its *)
(* article (cascade between kAddNewComment and kGetComment).                *)
CommentLostOnlyWithArticle ==
  \A r \in Slots : req[r].op = "post_comment" /\ req[r].err = "nonsingle"
    => req[r].target \notin DOMAIN articles

-----------------------------------------------------------------------------
(* What the lists show.                                                     *)

ShowsOne == {"get_article", "post_article", "put_article", "post_favorite",
             "del_favorite"}
ShowsMany == {"get_articles", "get_feed"}

TagsOf(i) == {p[2] : p \in {q \in articleTags : q[1] = i}}

(* An article is shown with all its tags unless it is gone: the list of     *)
(* tags is read after the row, and an article deleted in between would      *)
(* appear without any.                                                      *)
ShownTagsOrGone ==
  \A r \in Slots : req[r].status = 200 =>
    /\ req[r].op \in ShowsOne /\ req[r].id \in DOMAIN articles
         => req[r].view.tagList = TagsOf(req[r].id)
    /\ req[r].op \in ShowsMany
         => \A i \in DOMAIN req[r].view \cap DOMAIN articles :
              req[r].view[i].tagList = TagsOf(i)

(* The following flag of every author in a reply is the caller's own at the *)
(* moment of the answer, in lists whose rows are completed one by one.      *)
FollowingShownTrue ==
  [][\A r \in Slots :
       /\ Answers(r, ShowsOne)
            => req'[r].view.following = (<<req[r].user, req'[r].view.author>> \in followers)
       /\ Answers(r, ShowsMany \cup {"get_comments"})
            => \A i \in DOMAIN req'[r].view :
                 req'[r].view[i].following
                   = (<<req[r].user, req'[r].view[i].author>> \in followers)]_vars

(* A feed shows every author as followed: the rows are chosen in one        *)
(* snapshot and the flag is read in later ones.                             *)
FeedShowsFollowed ==
  \A r \in Slots : Answered(r, "get_feed", 200)
    => \A i \in DOMAIN req[r].view : req[r].view[i].following

(* A feed whose reader names no limit has a page of the default size.       *)
FeedPageBounded ==
  \A r \in Slots : Answered(r, "get_feed", 200) /\ req[r].arg.limit = NULL
    => Cardinality(DOMAIN req[r].view) <= DefaultLimit

(* An article in a feed was favorited at most once by each user.            *)
FeedCountsUsers ==
  \A r \in Slots : Answered(r, "get_feed", 200)
    => \A i \in DOMAIN req[r].view :
         req[r].view[i].favoritesCount <= Cardinality(DOMAIN users)

(* Every request that reaches a handler is answered, whatever fails.        *)
EveryRequestAnswered == \A r \in Slots : InFlight(r) ~> ~InFlight(r)
=============================================================================
