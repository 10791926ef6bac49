------------------------------ MODULE Articles ------------------------------
(***************************************************************************)
(* The handlers of articles, favorites and comments: src/handlers/api      *)
(* articles.cpp, articles_slug.cpp, articles_slug_favorite.cpp,            *)
(* articles_slug_unfavorite.cpp and articles_slug_comments.cpp.            *)
(***************************************************************************)
EXTENDS Requests

CONSTANTS
  Slugify,  \* Slugify[title], Oversized when it exceeds VARCHAR(255)
  RawTags,  \* tags as clients spell them
  ToLower,  \* boost::algorithm::to_lower on tags
  FixedSlugs  \* slugs whose path GET /api/articles/{slug} is another handler's

ASSUME SlugifyAssumption == Slugify \in [Titles -> Slugs \cup {Oversized}]
ASSUME ToLowerAssumption == ToLower \in [RawTags -> TagNames]
ASSUME FixedSlugsAssumption == FixedSlugs \subseteq Slugs

-----------------------------------------------------------------------------
(* Requests arrive.  An article's tag list is optional; a PUT names at      *)
(* least one field (its tagList is parsed and goes nowhere).                *)

BeginPostArticle(r) ==
  \E u \in DOMAIN users, t \in Titles, x \in Texts, g \in SUBSET RawTags :
    Begin(r, "post_article", u, [title |-> t, text |-> x, tagList |-> g],
          "kAddNewArticle")

BeginPutArticle(r) ==
  \E u \in DOMAIN users, s \in Slugs, t \in Opt(Titles), x \in Opt(Texts) :
    Begin(r, "put_article", u, [slug |-> s, title |-> t, text |-> x],
          "kUpdateArticleBySlug")

BeginBySlug(r, op, pc) ==
  \E u \in DOMAIN users, s \in Slugs : Begin(r, op, u, [slug |-> s], pc)

BeginGetArticle(r) ==
  \E u \in Opt(DOMAIN users), s \in Slugs \ FixedSlugs :
    Begin(r, "get_article", u, [slug |-> s], "kGetArticleWithAuthorProfileBySlug")

BeginPostComment(r) ==
  \E u \in DOMAIN users, s \in Slugs, x \in Texts :
    Begin(r, "post_comment", u, [slug |-> s, body |-> x], "kAddNewComment")

BeginDelComment(r) ==
  \E u \in DOMAIN users, s \in Slugs, c \in Serials :
    Begin(r, "del_comment", u, [slug |-> s, comment |-> c], "kIsCommentExist")

BeginArticleRequest(r) ==
  \/ BeginPostArticle(r)
  \/ BeginPutArticle(r)
  \/ BeginGetArticle(r)
  \/ BeginBySlug(r, "del_article", "kGetArticleIdBySlug")
  \/ BeginBySlug(r, "post_favorite", "kGetArticleIdBySlug")
  \/ BeginBySlug(r, "del_favorite", "kGetArticleIdBySlug")
  \/ BeginPostComment(r)
  \/ BeginDelComment(r)

-----------------------------------------------------------------------------
(* Statements of the article handlers.  Only a violation of uniq_slug is    *)
(* caught (422); any other error of the database escapes the handler (500). *)

SlugError(q, e) == Reply(q, IF e = "uniq_slug" THEN 422 ELSE 500, e)
ThenReadBack(q, id) ==
  [q EXCEPT !.pc = "kGetArticleWithAuthorProfile", !.id = id, !.target = id]

kAddNewArticle(r) ==
  LET q == req[r]
      slug == Slugify[q.arg.title]
      e == add_new_article_error(slug, q.user)
  IN /\ q.pc = "kAddNewArticle"
     /\ add_new_article(q.arg.title, slug, q.arg.text, q.user,
                        {ToLower[g] : g \in q.arg.tagList})
     /\ Write(r, IF e = "none" THEN ThenReadBack(q, articleSeq + 1)
                 ELSE SlugError(q, e))

NewSlug_Forgotten(title) == NULL  \* mutant: the old slug stays
NewSlug(title) == IF title = NULL THEN NULL ELSE Slugify[title]

kUpdateArticleBySlug(r) ==
  LET q == req[r]
      newSlug == NewSlug(q.arg.title)
      rows == OwnedBySlug(q.arg.slug, q.user)
      e == update_article_by_slug_error(q.arg.slug, q.user, newSlug)
  IN /\ q.pc = "kUpdateArticleBySlug"
     /\ update_article_by_slug(q.arg.slug, q.user, q.arg.title, newSlug, q.arg.text)
     /\ Write(r, IF e # "none" THEN SlugError(q, e)
                 ELSE IF rows = {} THEN Reply(q, 404, "none")
                 ELSE ThenReadBack(q, CHOOSE i \in rows : TRUE))

AfterLookup == [del_article   |-> "kDeleteArticleBySlug",
                post_favorite |-> "kFavoriteArticle",
                del_favorite  |-> "kUnfavoriteArticle"]

kGetArticleIdBySlug(r) ==
  LET q == req[r]
      id == ArticleIdOf(q.arg.slug)
  IN /\ q.pc = "kGetArticleIdBySlug"
     /\ Read(r, IF id = NULL THEN Reply(q, 404, "none")
                ELSE [q EXCEPT !.pc = AfterLookup[q.op], !.id = id])

(* The answer is 200 whether or not the DELETE found a row of the author's. *)
kDeleteArticleBySlug(r) ==
  LET q == req[r]
      e == delete_article_by_slug_error(q.arg.slug, q.user)
  IN /\ q.pc = "kDeleteArticleBySlug"
     /\ delete_article_by_slug(q.arg.slug, q.user)
     /\ Write(r, Reply(q, IF e = "none" THEN 200 ELSE 500, e))

-----------------------------------------------------------------------------
(* Favorites: find the article by slug, write by slug, read back by id.     *)

ThenShow(q) == [q EXCEPT !.pc = "kGetArticleWithAuthorProfile",
                         !.target = ArticleIdOf(q.arg.slug)]

kFavoriteArticle(r) ==
  LET q == req[r]
      e == favorite_article_error(q.arg.slug, q.user)
  IN /\ q.pc = "kFavoriteArticle"
     /\ favorite_article(q.arg.slug, q.user)
     /\ Write(r, IF e = "none" THEN ThenShow(q) ELSE Reply(q, 500, e))

kUnfavoriteArticle(r) ==
  LET q == req[r]
  IN /\ q.pc = "kUnfavoriteArticle"
     /\ unfavorite_article(q.arg.slug, q.user)
     /\ Write(r, ThenShow(q))

-----------------------------------------------------------------------------
(* get_article_with_author_profile.  The row and COUNT( * ) come from the   *)
(* snapshot of the SELECT; the functions in its select list are VOLATILE:   *)
(* each fills its field of the reply from a snapshot of its own and sees    *)
(* what committed in the meantime.  The variant by slug finds the id in a   *)
(* statement of its own first.  AsSingleRow throws without a row; GET       *)
(* answers 404.                                                             *)

kGetArticleWithAuthorProfileBySlug(r) ==
  LET q == req[r]
  IN /\ q.pc = "kGetArticleWithAuthorProfileBySlug"
     /\ Read(r, [q EXCEPT !.pc = "kGetArticleWithAuthorProfile",
                          !.id = ArticleIdOf(q.arg.slug)])

NoArticle_NotFound(q) == Reply(q, 404, "none")  \* mutant: 404 for every handler
NoArticle(q) == Reply(q, IF q.op = "get_article" THEN 404 ELSE 500, "nonsingle")

kGetArticleWithAuthorProfile(r) ==
  LET q == req[r]
  IN /\ q.pc = "kGetArticleWithAuthorProfile"
     /\ Read(r,
          IF q.id \notin DOMAIN articles
          THEN NoArticle(q)
          ELSE [q EXCEPT !.pc = "article.tagList",
                         !.view = [slug |-> articles[q.id].slug,
                                   title |-> articles[q.id].title,
                                   text |-> articles[q.id].text,
                                   author |-> articles[q.id].author,
                                   tagList |-> {}, favorited |-> FALSE,
                                   following |-> FALSE,
                                   favoritesCount |-> FavoritesCount(q.id)]])

TagListOfArticle(r) ==
  LET q == req[r]
  IN /\ q.pc = "article.tagList"
     /\ Read(r, [q EXCEPT !.pc = "article.favorited",
                          !.view.tagList = get_article_tag_list(q.id)])

FavoritedOfArticle(r) ==
  LET q == req[r]
  IN /\ q.pc = "article.favorited"
     /\ Read(r, [q EXCEPT !.pc = "article.following",
                          !.view.favorited = is_favorited_article(q.id, q.user)])

ProfileOfAuthor(r) ==
  LET q == req[r]
  IN /\ q.pc = "article.following"
     /\ Read(r, Reply([q EXCEPT !.view.following = Follows(q.view.author, q.user)],
                      200, "none"))

-----------------------------------------------------------------------------
(* Comments.                                                                *)

kAddNewComment(r) ==
  LET q == req[r]
      e == add_comment_to_article_error(q.arg.slug, q.user)
  IN /\ q.pc = "kAddNewComment"
     /\ add_comment_to_article(q.arg.slug, q.arg.body, q.user)
     /\ Write(r, IF e # "none" THEN Reply(q, 500, e)
                 ELSE [q EXCEPT !.pc = "kGetComment", !.id = commentSeq + 1,
                                !.target = ArticleIdOf(q.arg.slug)])

kGetComment_Again(r) ==  \* mutant: read until the comment is there
  LET q == req[r]
  IN /\ q.pc = "kGetComment"
     /\ Read(r, IF q.id \in DOMAIN comments THEN Reply(q, 200, "none") ELSE q)

(* Joined with articles: the row of a comment whose article is gone is gone. *)
kGetComment(r) ==
  LET q == req[r]
  IN /\ q.pc = "kGetComment"
     /\ Read(r, IF q.id \in DOMAIN comments
                     /\ comments[q.id].article \in DOMAIN articles
                THEN Reply(q, 200, "none") ELSE Reply(q, 500, "nonsingle"))

kIsCommentExist(r) ==
  LET q == req[r]
  IN /\ q.pc = "kIsCommentExist"
     /\ Read(r, IF is_comment_exist(q.arg.comment, q.arg.slug, q.user)
                THEN [q EXCEPT !.pc = "kDeleteComment"]
                ELSE Reply(q, 404, "none"))

kDeleteComment(r) ==
  LET q == req[r]
  IN /\ q.pc = "kDeleteComment"
     /\ delete_comment(q.arg.comment, q.arg.slug, q.user)
     /\ Write(r, Reply(q, 200, "none"))

ArticleStep(r) ==
  \/ kAddNewArticle(r)
  \/ kUpdateArticleBySlug(r)
  \/ kGetArticleIdBySlug(r)
  \/ kDeleteArticleBySlug(r)
  \/ kFavoriteArticle(r)
  \/ kUnfavoriteArticle(r)
  \/ kGetArticleWithAuthorProfileBySlug(r)
  \/ kGetArticleWithAuthorProfile(r)
  \/ TagListOfArticle(r)
  \/ FavoritedOfArticle(r)
  \/ ProfileOfAuthor(r)
  \/ kAddNewComment(r)
  \/ kGetComment(r)
  \/ kIsCommentExist(r)
  \/ kDeleteComment(r)
=============================================================================
