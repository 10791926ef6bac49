--------------------------- MODULE HandlerProofs ----------------------------
(***************************************************************************)
(* What the control of the handlers guarantees for any number of requests: *)
(* what is refused wrote nothing, and slugs follow titles.  Both rest on   *)
(* an invariant that says what a request knows and has done at each of its *)
(* statements.                                                             *)
(***************************************************************************)
EXTENDS Service, TLAPS

Fields == {"op", "pc", "user", "arg", "id", "status", "err", "view", "wrote", "target"}

(* The statements of handlers that write, and the reads that may follow.    *)
Writing == {"kAddNewArticle", "kUpdateArticleBySlug", "kDeleteArticleBySlug",
            "kFavoriteArticle", "kUnfavoriteArticle", "kAddNewComment",
            "kDeleteComment", "kAddNewUser", "kUpdateUserById", "kFollow", "kUnfollow",
            "kGetComment", "kGetArticleIdBySlug", "kIsCommentExist",
            "kGetUserByUsername"}
AfterWrite == {"kGetArticleWithAuthorProfile", "article.tagList", "article.favorited",
               "article.following", "kGetComment", "done"}

(* GET of an article shares its last statements with the handlers that      *)
(* write, and is the only one to answer 404 from there.                     *)
RequestInv(q) ==
  /\ DOMAIN q = Fields
  /\ q.pc # "done" => q.status = 0 /\ q.err = "none"
  /\ Refused(q) => ~q.wrote
  /\ q.pc \notin AfterWrite => ~q.wrote
  /\ q.op = "get_article" => ~q.wrote
  /\ q.pc \in Writing => q.op # "get_article"
  /\ q.pc = "kGetArticleIdBySlug" => q.op \in DOMAIN AfterLookup
  /\ q.pc = "kUpdateArticleBySlug" => q.arg.title \in Opt(Titles)

RequestsInv == DOMAIN req = Slots /\ \A r \in Slots : RequestInv(req[r])
ArticlesMapped == articles = [i \in DOMAIN articles |-> articles[i]]

HandlerInv == RequestsInv /\ ArticlesMapped /\ SlugFollowsTitle

-----------------------------------------------------------------------------
(* One request moves.                                                       *)

LEMMA OneMoves ==
  ASSUME RequestsInv, NEW r \in Slots, NEW q, RequestInv(q), req' = [req EXCEPT ![r] = q]
  PROVE  RequestsInv'
<1>1. DOMAIN req' = Slots
  BY DEF RequestsInv
<1>2. \A s \in Slots : req'[s] = q \/ req'[s] = req[s]
  BY DEF RequestsInv
<1>3. \A s \in Slots : RequestInv(req'[s])
  BY <1>2 DEF RequestsInv
<1> QED BY <1>1, <1>3 DEF RequestsInv, RequestInv

LEMMA NewFields ==
  ASSUME NEW op, NEW user, NEW arg, NEW pc
  PROVE  LET q == NewRequest(op, user, arg, pc)
         IN  /\ DOMAIN q = Fields /\ q.op = op /\ q.pc = pc /\ q.arg = arg
             /\ q.status = 0 /\ q.err = "none" /\ ~q.wrote /\ ~Refused(q)
  BY DEF NewRequest, Fields, Refused

LEMMA ReplyFields ==
  ASSUME NEW q, DOMAIN q = Fields, NEW status, NEW err
  PROVE  /\ DOMAIN Reply(q, status, err) = Fields
         /\ Reply(q, status, err).pc = "done"
         /\ Reply(q, status, err).status = status
         /\ Reply(q, status, err).err = err
         /\ Reply(q, status, err).op = q.op
         /\ Reply(q, status, err).wrote = q.wrote
  BY DEF Reply, NewRequest, Fields

LEMMA ReplyInv ==
  ASSUME NEW q, RequestInv(q), NEW status, NEW err,
         status \in 400..499 \/ err \notin {"none", "io", "nonsingle"} => ~q.wrote
  PROVE  RequestInv(Reply(q, status, err))
  BY ReplyFields DEF RequestInv, AfterWrite, Writing, Refused

LEMMA ReadInv ==
  ASSUME RequestsInv, NEW r \in Slots, NEW q, RequestInv(q), Read(r, q)
  PROVE  RequestsInv'
  BY OneMoves DEF Read

(* After a write the request reads back or is answered; it is refused only  *)
(* when the tables stayed as they were.                                     *)
LEMMA WriteInv ==
  ASSUME RequestsInv, NEW r \in Slots, NEW q, Write(r, q),
         DOMAIN q = Fields, q.op # "get_article", q.pc \in AfterWrite,
         q.pc # "done" => q.status = 0 /\ q.err = "none",
         Refused(q) => ~q.wrote /\ tables' = tables
  PROVE  RequestsInv'
<1>1. PICK out \in {q, Reply(q, 500, "io")} :
        req' = [req EXCEPT ![r] = [out EXCEPT !.wrote = @ \/ tables' # tables]]
  BY DEF Write
<1>2. PICK w : /\ req' = [req EXCEPT ![r] = [out EXCEPT !.wrote = w]]
               /\ ~out.wrote /\ tables' = tables => ~w
  <2> WITNESS out.wrote \/ tables' # tables
  <2> QED BY <1>1, Zenon
<1> DEFINE new == [out EXCEPT !.wrote = w]
<1>3. /\ DOMAIN out = Fields /\ out.op = q.op /\ out.pc \in AfterWrite
      /\ out.pc # "done" => out.status = 0 /\ out.err = "none"
      /\ Refused(out) => ~out.wrote /\ tables' = tables
  BY ReplyFields DEF AfterWrite, Refused
<1>4. /\ DOMAIN new = Fields /\ new.op = out.op /\ new.pc = out.pc
      /\ new.status = out.status /\ new.err = out.err /\ new.wrote = w
  BY <1>3 DEF Fields
<1>5. RequestInv(new)
  <2> HIDE DEF new
  <2> QED BY <1>2, <1>3, <1>4 DEF RequestInv, AfterWrite, Writing, Refused
<1> QED BY <1>2, <1>5, OneMoves

-----------------------------------------------------------------------------
(* Every action keeps what is known of the requests.                        *)

LEMMA BeginInv ==
  ASSUME RequestsInv, NEW r \in Slots,
         BeginArticleRequest(r) \/ BeginAccountRequest(r) \/ BeginListRequest(r)
  PROVE  RequestsInv'
<1>1. ASSUME NEW op, NEW user, NEW arg, NEW pc, Begin(r, op, user, arg, pc),
             pc \notin {"done", "kUpdateArticleBySlug"},
             pc \in Writing => op # "get_article",
             pc = "kGetArticleIdBySlug" => op \in DOMAIN AfterLookup
      PROVE  RequestsInv'
  <2>1. RequestInv(NewRequest(op, user, arg, pc))
    BY <1>1, NewFields DEF RequestInv
  <2> QED BY <1>1, <2>1, OneMoves DEF Begin
<1>2. CASE BeginPutArticle(r)
  <2>1. PICK u, arg : /\ arg.title \in Opt(Titles)
                      /\ Begin(r, "put_article", u, arg, "kUpdateArticleBySlug")
    BY <1>2 DEF BeginPutArticle
  <2>2. RequestInv(NewRequest("put_article", u, arg, "kUpdateArticleBySlug"))
    BY <2>1, NewFields DEF RequestInv
  <2> QED BY <2>1, <2>2, OneMoves DEF Begin
<1>3. CASE BeginPostArticle(r)
  <2>1. PICK u, arg : Begin(r, "post_article", u, arg, "kAddNewArticle")
    BY <1>3 DEF BeginPostArticle
  <2> QED BY <1>1, <2>1
<1>4. CASE BeginGetArticle(r)
  <2>1. PICK u, arg : Begin(r, "get_article", u, arg, "kGetArticleWithAuthorProfileBySlug")
    BY <1>4 DEF BeginGetArticle
  <2> QED BY <1>1, <2>1 DEF Writing
<1>5. CASE \/ BeginBySlug(r, "del_article", "kGetArticleIdBySlug")
           \/ BeginBySlug(r, "post_favorite", "kGetArticleIdBySlug")
           \/ BeginBySlug(r, "del_favorite", "kGetArticleIdBySlug")
  <2>1. ASSUME NEW op \in DOMAIN AfterLookup, BeginBySlug(r, op, "kGetArticleIdBySlug")
        PROVE  RequestsInv'
    <3>1. PICK u, arg : Begin(r, op, u, arg, "kGetArticleIdBySlug")
      BY <2>1 DEF BeginBySlug
    <3> QED BY <1>1, <2>1, <3>1 DEF AfterLookup
  <2> QED BY <1>5, <2>1 DEF AfterLookup
<1>6. CASE BeginPostComment(r)
  <2>1. PICK u, arg : Begin(r, "post_comment", u, arg, "kAddNewComment")
    BY <1>6 DEF BeginPostComment
  <2> QED BY <1>1, <2>1
<1>7. CASE BeginDelComment(r)
  <2>1. PICK u, arg : Begin(r, "del_comment", u, arg, "kIsCommentExist")
    BY <1>7 DEF BeginDelComment
  <2> QED BY <1>1, <2>1
<1>8. CASE BeginAccountRequest(r)
  <2>1. CASE BeginPostUser(r)
    <3>1. PICK u, arg : Begin(r, "post_user", u, arg, "kAddNewUser")
      BY <2>1 DEF BeginPostUser
    <3> QED BY <1>1, <3>1 DEF Writing
  <2>2. CASE BeginLogin(r)
    <3>1. PICK u, arg : Begin(r, "login", u, arg, "kGetUserByEmail")
      BY <2>2 DEF BeginLogin
    <3> QED BY <1>1, <3>1 DEF Writing
  <2>3. CASE BeginGetUser(r)
    <3>1. PICK u, arg : Begin(r, "get_user", u, arg, "kGetUserById")
      BY <2>3 DEF BeginGetUser
    <3> QED BY <1>1, <3>1 DEF Writing
  <2>4. CASE BeginPutUser(r)
    <3>1. PICK u, arg : Begin(r, "put_user", u, arg, "kUpdateUserById")
      BY <2>4 DEF BeginPutUser
    <3> QED BY <1>1, <3>1 DEF Writing
  <2>5. CASE BeginProfile(r, "get_profile", Opt(DOMAIN users), "kGetProfileByUsername")
    <3>1. PICK u, arg : Begin(r, "get_profile", u, arg, "kGetProfileByUsername")
      BY <2>5 DEF BeginProfile
    <3> QED BY <1>1, <3>1 DEF Writing
  <2>6. CASE BeginProfile(r, "follow", DOMAIN users, "kGetUserByUsername")
    <3>1. PICK u, arg : Begin(r, "follow", u, arg, "kGetUserByUsername")
      BY <2>6 DEF BeginProfile
    <3> QED BY <1>1, <3>1 DEF Writing
  <2>7. CASE BeginProfile(r, "unfollow", DOMAIN users, "kGetUserByUsername")
    <3>1. PICK u, arg : Begin(r, "unfollow", u, arg, "kGetUserByUsername")
      BY <2>7 DEF BeginProfile
    <3> QED BY <1>1, <3>1 DEF Writing
  <2> QED BY <1>8, <2>1, <2>2, <2>3, <2>4, <2>5, <2>6, <2>7 DEF BeginAccountRequest
<1>9. CASE BeginListRequest(r)
  <2>1. CASE BeginGetArticles(r)
    <3>1. PICK u, arg : Begin(r, "get_articles", u, arg, "kGetArticlesWithAuthorProfile")
      BY <2>1 DEF BeginGetArticles
    <3> QED BY <1>1, <3>1 DEF Writing
  <2>2. CASE BeginGetFeed(r)
    <3>1. PICK u, arg : Begin(r, "get_feed", u, arg, "kGetFeed")
      BY <2>2 DEF BeginGetFeed
    <3> QED BY <1>1, <3>1 DEF Writing
  <2>3. CASE BeginGetComments(r)
    <3>1. PICK u, arg : Begin(r, "get_comments", u, arg, "kGetCommentsFromArticle")
      BY <2>3 DEF BeginGetComments
    <3> QED BY <1>1, <3>1 DEF Writing
  <2>4. CASE BeginGetTags(r)
    BY <1>1, <2>4 DEF BeginGetTags, Writing
  <2> QED BY <1>9, <2>1, <2>2, <2>3, <2>4 DEF BeginListRequest
<1> QED BY <1>2, <1>3, <1>4, <1>5, <1>6, <1>7, <1>8, <1>9 DEF BeginArticleRequest

LEMMA RejectInv ==
  ASSUME RequestsInv, NEW r \in Slots, Reject(r) \/ ExecuteFails(r)
  PROVE  RequestsInv'
<1>1. RequestInv(Idle)
  BY NewFields DEF Idle, RequestInv, Writing
<1>2. ~Idle.wrote
  BY NewFields DEF Idle
<1>3. CASE Reject(r)
  BY <1>1, <1>2, <1>3, ReplyInv, OneMoves DEF Reject
<1>4. CASE ExecuteFails(r)
  <2>1. RequestInv(Reply(req[r], 500, "io"))
    BY ReplyInv DEF RequestsInv
  <2> QED BY <1>4, <2>1, OneMoves DEF ExecuteFails
<1> QED BY <1>3, <1>4

(* Lookups: the request stays one that wrote nothing.                       *)
LEMMA LookupInv ==
  ASSUME RequestsInv, NEW r \in Slots,
         \/ kGetArticleIdBySlug(r) \/ kGetArticleWithAuthorProfileBySlug(r)
         \/ kIsCommentExist(r) \/ kGetUserByUsername(r)
         \/ kGetUserByEmail(r) \/ kGetUserById(r) \/ kGetProfileByUsername(r)
  PROVE  RequestsInv'
<1> DEFINE q == req[r]
<1>1. RequestInv(q)
  BY DEF RequestsInv
<1>2. q.pc \notin AfterWrite => \A v, s, e :
        /\ RequestInv(Reply(q, s, e))
        /\ RequestInv(Reply([q EXCEPT !.view = v], s, e))
  <2> SUFFICES ASSUME q.pc \notin AfterWrite, NEW v, NEW s, NEW e
               PROVE  /\ RequestInv(Reply(q, s, e))
                      /\ RequestInv(Reply([q EXCEPT !.view = v], s, e))
    OBVIOUS
  <2>1. RequestInv([q EXCEPT !.view = v]) /\ ~q.wrote /\ ~[q EXCEPT !.view = v].wrote
    BY <1>1 DEF RequestInv, Fields, AfterWrite, Writing
  <2> HIDE DEF q
  <2> QED BY <1>1, <2>1, ReplyInv
<1>3. CASE kGetArticleIdBySlug(r)
  <2>1. q.pc = "kGetArticleIdBySlug" /\ q.pc \notin AfterWrite
    BY <1>3 DEF kGetArticleIdBySlug, AfterWrite
  <2>2. ASSUME NEW id
        PROVE  RequestInv([q EXCEPT !.pc = AfterLookup[q.op], !.id = id])
    BY <1>1, <2>1 DEF RequestInv, Fields, AfterLookup, AfterWrite, Writing
  <2>3. \/ Read(r, Reply(q, 404, "none"))
        \/ Read(r, [q EXCEPT !.pc = AfterLookup[q.op], !.id = ArticleIdOf(q.arg.slug)])
    BY <1>3 DEF kGetArticleIdBySlug
  <2>4. RequestInv([q EXCEPT !.pc = AfterLookup[q.op], !.id = ArticleIdOf(q.arg.slug)])
    BY <2>2
  <2> QED BY <1>2, <2>1, <2>3, <2>4, ReadInv
<1>4. CASE kGetArticleWithAuthorProfileBySlug(r)
  <2>1. ASSUME NEW id
        PROVE  RequestInv([q EXCEPT !.pc = "kGetArticleWithAuthorProfile", !.id = id])
    BY <1>1, <1>4 DEF kGetArticleWithAuthorProfileBySlug, RequestInv, Fields,
                      AfterWrite, Writing
  <2> QED BY <1>4, <2>1, ReadInv DEF kGetArticleWithAuthorProfileBySlug
<1>5. CASE kIsCommentExist(r)
  <2>1. q.pc = "kIsCommentExist" /\ q.pc \notin AfterWrite
    BY <1>5 DEF kIsCommentExist, AfterWrite
  <2>2. RequestInv([q EXCEPT !.pc = "kDeleteComment"])
    BY <1>1, <2>1 DEF RequestInv, Fields, AfterWrite, Writing
  <2>3. Read(r, [q EXCEPT !.pc = "kDeleteComment"]) \/ Read(r, Reply(q, 404, "none"))
    BY <1>5 DEF kIsCommentExist
  <2> QED BY <1>2, <2>1, <2>2, <2>3, ReadInv
<1>6. CASE kGetUserByUsername(r)
  <2>1. q.pc = "kGetUserByUsername" /\ q.pc \notin AfterWrite
    BY <1>6 DEF kGetUserByUsername, AfterWrite
  <2>2. ASSUME NEW pc \in {"kFollow", "kUnfollow"}, NEW id, NEW v
        PROVE  RequestInv([q EXCEPT !.pc = pc, !.id = id, !.view = v])
    BY <1>1, <2>1 DEF RequestInv, Fields, AfterWrite, Writing
  <2> DEFINE rows == get_user_by_username(q.arg.username)
             id == CHOOSE i \in rows : TRUE
             pc == IF q.op = "follow" THEN "kFollow" ELSE "kUnfollow"
             v == Profile(users[id], q.op = "follow")
  <2>3. \/ Read(r, Reply(q, 404, "none"))
        \/ Read(r, [q EXCEPT !.pc = pc, !.id = id, !.view = v])
    BY <1>6 DEF kGetUserByUsername
  <2>4. pc \in {"kFollow", "kUnfollow"}
    OBVIOUS
  <2> HIDE DEF pc, id, v
  <2> QED BY <1>2, <2>1, <2>2, <2>3, <2>4, ReadInv
<1>7. CASE kGetUserByEmail(r)
  <2> DEFINE id == CHOOSE i \in get_user_by_email(q.arg.email) : TRUE
             v == Account(id, users[id])
  <2>1. /\ q.pc \notin AfterWrite
        /\ \/ Read(r, Reply(q, 403, "email"))
           \/ Read(r, Reply(q, 403, "password"))
           \/ Read(r, Reply([q EXCEPT !.view = v], 200, "none"))
    BY <1>7 DEF kGetUserByEmail, AfterWrite
  <2> HIDE DEF v
  <2> QED BY <1>2, <2>1, ReadInv
<1>8. CASE kGetUserById(r)
  <2> DEFINE v == Account(q.user, users[q.user])
  <2>1. /\ q.pc \notin AfterWrite
        /\ \/ Read(r, Reply(q, 404, "none"))
           \/ Read(r, Reply([q EXCEPT !.view = v], 200, "none"))
    BY <1>8 DEF kGetUserById, AfterWrite
  <2> HIDE DEF v
  <2> QED BY <1>2, <2>1, ReadInv
<1>9. CASE kGetProfileByUsername(r)
  <2> DEFINE id == CHOOSE i \in get_user_by_username(q.arg.username) : TRUE
             v == Profile(users[id], is_following(q.user, id))
  <2>1. /\ q.pc \notin AfterWrite
        /\ \/ Read(r, Reply(q, 404, "none"))
           \/ Read(r, Reply([q EXCEPT !.view = v], 200, "none"))
    BY <1>9 DEF kGetProfileByUsername, AfterWrite
  <2> HIDE DEF v
  <2> QED BY <1>2, <2>1, ReadInv
<1> QED BY <1>3, <1>4, <1>5, <1>6, <1>7, <1>8, <1>9

(* Listings: rows are shown by requests that wrote nothing.                 *)
ListStatements == {"kGetArticlesWithAuthorProfile", "kGetFeed", "row.tagList",
                   "row.following", "kGetCommentsFromArticle", "comment.following",
                   "kGetTags"}

(* A row of a list after its first two functions.                           *)
FilledRows(view, i, tagList, favorited) ==
  [view EXCEPT ![i].tagList = tagList, ![i].favorited = favorited]

LEMMA TagListOfRowFills ==
  ASSUME NEW r \in Slots, DOMAIN req[r] = Fields, TagListOfRow(r)
  PROVE  /\ req[r].pc = "row.tagList"
         /\ \E i \in DOMAIN req[r].view :
              /\ req[r].view[i].tagList = NULL
              /\ Read(r, [req[r] EXCEPT !.pc = "row.following",
                             !.view = FilledRows(req[r].view, i, get_article_tag_list(i),
                                                 is_favorited_article(i, NULL))])
<1>1. PICK q : q = req[r]
  OBVIOUS
<1>2. PICK i \in DOMAIN q.view :
        /\ q.pc = "row.tagList" /\ q.view[i].tagList = NULL
        /\ Read(r, [q EXCEPT !.pc = "row.following",
                             !.view[i].tagList = get_article_tag_list(i),
                             !.view[i].favorited = is_favorited_article(i, NULL)])
  BY <1>1 DEF TagListOfRow
<1>3. PICK g, f : g = get_article_tag_list(i) /\ f = is_favorited_article(i, NULL)
  OBVIOUS
<1>4. [q EXCEPT !.pc = "row.following", !.view[i].tagList = g, !.view[i].favorited = f]
        = [q EXCEPT !.pc = "row.following", !.view = FilledRows(q.view, i, g, f)]
  BY <1>1 DEF Fields, FilledRows
<1>5. Read(r, [q EXCEPT !.pc = "row.following", !.view = FilledRows(q.view, i, g, f)])
  BY <1>2, <1>3, <1>4, Zenon
<1>6. Read(r, [req[r] EXCEPT !.pc = "row.following",
                 !.view = FilledRows(req[r].view, i, get_article_tag_list(i),
                                     is_favorited_article(i, NULL))])
  BY <1>1, <1>3, <1>5, Zenon
<1> QED BY <1>1, <1>2, <1>6, Zenon

LEMMA ListInv ==
  ASSUME RequestsInv, NEW r \in Slots, ListStep(r)
  PROVE  RequestsInv'
<1> DEFINE q == req[r]
<1>1. RequestInv(q)
  BY DEF RequestsInv
<1>2. q.pc \in ListStatements
  BY DEF ListStep, kGetArticlesWithAuthorProfile, kGetFeed, TagListOfRow, ProfileOfRow,
         kGetCommentsFromArticle, ProfileOfComment, kGetTags, ListStatements
<1>3. ASSUME NEW v
      PROVE  /\ RequestInv([q EXCEPT !.view = v]) /\ ~[q EXCEPT !.view = v].wrote
             /\ \A pc \in ListStatements : RequestInv([q EXCEPT !.view = v, !.pc = pc])
  BY <1>1, <1>2 DEF RequestInv, Fields, AfterWrite, Writing, ListStatements, Refused
<1>4. ASSUME NEW v, NEW status, NEW err
      PROVE  RequestInv(Reply([q EXCEPT !.view = v], status, err))
  BY <1>3, ReplyInv
<1>5. RequestInv(Reply(q, 500, "negative"))
  BY <1>1, <1>2, ReplyInv DEF RequestInv, ListStatements, AfterWrite
<1>6. ASSUME NEW rows, NEW pc \in ListStatements, Lists(r, rows, pc)
      PROVE  RequestsInv'
  <2>1. \/ Read(r, Reply([q EXCEPT !.view = rows], 200, "none"))
        \/ Read(r, [q EXCEPT !.view = rows, !.pc = pc])
    BY <1>6 DEF Lists
  <2> QED BY <1>3, <1>4, <1>6, <2>1, ReadInv
<1>7. ASSUME NEW i, NEW pc \in ListStatements, CompleteRow(r, i, pc)
      PROVE  RequestsInv'
  <2> DEFINE shown == [q.view EXCEPT ![i].following = Follows(q.view[i].author, q.user)]
  <2>1. \/ Read(r, Reply([q EXCEPT !.view = shown], 200, "none"))
        \/ Read(r, [q EXCEPT !.view = shown, !.pc = pc])
    BY <1>7 DEF CompleteRow
  <2> HIDE DEF shown
  <2> QED BY <1>3, <1>4, <1>7, <2>1, ReadInv
<1>8. CASE kGetArticlesWithAuthorProfile(r) \/ kGetFeed(r)
  <2>1. \/ Read(r, Reply(q, 500, "negative"))
        \/ \E rows : Lists(r, rows, "row.tagList")
    BY <1>8, Zenon DEF kGetArticlesWithAuthorProfile, kGetFeed
  <2> QED BY <1>5, <1>6, <2>1, ReadInv DEF ListStatements
<1>9. CASE kGetCommentsFromArticle(r)
  <2>1. \E rows : Lists(r, rows, "comment.following")
    BY <1>9, Zenon DEF kGetCommentsFromArticle
  <2> QED BY <1>6, <2>1 DEF ListStatements
<1>10. CASE ProfileOfRow(r) \/ ProfileOfComment(r)
  <2>1. (\E i : CompleteRow(r, i, "row.tagList")) \/ \E i : CompleteRow(r, i, "comment.following")
    BY <1>10, Zenon DEF ProfileOfRow, ProfileOfComment
  <2> QED BY <1>7, <2>1 DEF ListStatements
<1>11. CASE kGetTags(r)
  <2>1. \E v : Read(r, Reply([q EXCEPT !.view = v], 200, "none"))
    BY <1>11, Zenon DEF kGetTags
  <2> QED BY <1>4, <2>1, ReadInv
<1>12. CASE TagListOfRow(r)
  <2>1. \E view : Read(r, [q EXCEPT !.pc = "row.following", !.view = view])
    BY <1>1, <1>12, TagListOfRowFills, Zenon DEF RequestInv
  <2>2. \A view : RequestInv([q EXCEPT !.pc = "row.following", !.view = view])
    BY <1>3 DEF ListStatements
  <2> QED BY <2>1, <2>2, ReadInv
<1> QED BY <1>8, <1>9, <1>10, <1>11, <1>12 DEF ListStep

(* Reading back: 404 is left to GET, which wrote nothing.                   *)
LEMMA ReadBackInv ==
  ASSUME RequestsInv, NEW r \in Slots,
         \/ kGetArticleWithAuthorProfile(r) \/ TagListOfArticle(r)
         \/ FavoritedOfArticle(r) \/ ProfileOfAuthor(r) \/ kGetComment(r)
  PROVE  RequestsInv'
<1> DEFINE q == req[r]
<1>1. RequestInv(q)
  BY DEF RequestsInv
<1>2. CASE kGetArticleWithAuthorProfile(r)
  <2> DEFINE v == [slug |-> articles[q.id].slug, title |-> articles[q.id].title,
                   text |-> articles[q.id].text, author |-> articles[q.id].author,
                   tagList |-> {}, favorited |-> FALSE, following |-> FALSE,
                   favoritesCount |-> FavoritesCount(q.id)]
  <2>1. \/ Read(r, NoArticle(q))
        \/ Read(r, [q EXCEPT !.pc = "article.tagList", !.view = v])
    BY <1>2 DEF kGetArticleWithAuthorProfile
  <2>2. RequestInv(NoArticle(q))
    BY <1>1, ReplyInv DEF NoArticle, RequestInv
  <2> HIDE DEF v
  <2>3. RequestInv([q EXCEPT !.pc = "article.tagList", !.view = v])
    BY <1>1, <1>2 DEF kGetArticleWithAuthorProfile, RequestInv, Fields, AfterWrite, Writing,
                      Refused
  <2> QED BY <2>1, <2>2, <2>3, ReadInv
<1>3. ASSUME q.pc \in {"article.tagList", "article.favorited", "article.following"},
             NEW view
      PROVE  /\ \A pc \in {"article.favorited", "article.following"} :
                  RequestInv([q EXCEPT !.pc = pc, !.view = view])
             /\ RequestInv(Reply([q EXCEPT !.view = view], 200, "none"))
  <2>1. ASSUME NEW pc \in {"article.favorited", "article.following", q.pc}
        PROVE  RequestInv([q EXCEPT !.pc = pc, !.view = view])
    BY <1>1, <1>3, <2>1 DEF RequestInv, Fields, AfterWrite, Writing, Refused
  <2> DEFINE shown == [q EXCEPT !.view = view]
  <2>2. shown = [q EXCEPT !.pc = q.pc, !.view = view]
    BY <1>1 DEF RequestInv, Fields
  <2>3. RequestInv(shown)
    BY <2>1, <2>2
  <2> HIDE DEF shown
  <2>4. RequestInv(Reply(shown, 200, "none"))
    BY <2>3, ReplyInv
  <2> QED BY <2>1, <2>4 DEF shown
<1>5. CASE TagListOfArticle(r)
  <2>1. PICK g : /\ q.pc = "article.tagList"
                 /\ Read(r, [q EXCEPT !.pc = "article.favorited", !.view.tagList = g])
    BY <1>5 DEF TagListOfArticle
  <2> DEFINE view == [q.view EXCEPT !.tagList = g]
  <2>2. Read(r, [q EXCEPT !.pc = "article.favorited", !.view = view])
    BY <2>1
  <2> HIDE DEF view
  <2> QED BY <1>3, <2>1, <2>2, ReadInv
<1>6. CASE FavoritedOfArticle(r)
  <2>1. PICK f : /\ q.pc = "article.favorited"
                 /\ Read(r, [q EXCEPT !.pc = "article.following", !.view.favorited = f])
    BY <1>6, Zenon DEF FavoritedOfArticle
  <2> DEFINE view == [q.view EXCEPT !.favorited = f]
  <2>2. Read(r, [q EXCEPT !.pc = "article.following", !.view = view])
    BY <2>1
  <2> HIDE DEF view
  <2> QED BY <1>3, <2>1, <2>2, ReadInv
<1>7. CASE ProfileOfAuthor(r)
  <2>1. PICK f : /\ q.pc = "article.following"
                 /\ Read(r, Reply([q EXCEPT !.view.following = f], 200, "none"))
    BY <1>7, Zenon DEF ProfileOfAuthor
  <2> DEFINE view == [q.view EXCEPT !.following = f]
  <2>2. Read(r, Reply([q EXCEPT !.view = view], 200, "none"))
    BY <2>1
  <2> HIDE DEF view
  <2> QED BY <1>3, <2>1, <2>2, ReadInv
<1>4. CASE kGetComment(r)
  <2>1. Read(r, Reply(q, 200, "none")) \/ Read(r, Reply(q, 500, "nonsingle"))
    BY <1>4 DEF kGetComment
  <2> QED BY <1>1, <2>1, ReplyInv, ReadInv
<1> QED BY <1>2, <1>4, <1>5, <1>6, <1>7

(* Writing statements: a request is refused only when the statement failed  *)
(* or found no row.                                                         *)
LEMMA WriteAnswered ==
  ASSUME RequestsInv, NEW r \in Slots, req[r].pc \in Writing, req[r].pc \notin AfterWrite,
         NEW status, NEW err, Write(r, Reply(req[r], status, err)),
         status \in 400..499 \/ err \notin {"none", "io", "nonsingle"} => tables' = tables
  PROVE  RequestsInv'
<1>1. RequestInv(req[r])
  BY DEF RequestsInv
<1>2. ~req[r].wrote /\ req[r].op # "get_article" /\ DOMAIN req[r] = Fields
  BY <1>1 DEF RequestInv
<1> QED BY <1>2, ReplyFields, WriteInv DEF AfterWrite, Refused

LEMMA WriteThenRead ==
  ASSUME RequestsInv, NEW r \in Slots, req[r].pc \in Writing, req[r].pc \notin AfterWrite,
         NEW pc \in AfterWrite \ {"done"}, NEW id, NEW target,
         Write(r, [req[r] EXCEPT !.pc = pc, !.id = id, !.target = target])
  PROVE  RequestsInv'
<1> DEFINE q == [req[r] EXCEPT !.pc = pc, !.id = id, !.target = target]
<1>1. RequestInv(req[r])
  BY DEF RequestsInv
<1>2. /\ DOMAIN q = Fields /\ q.op # "get_article" /\ q.pc \in AfterWrite
      /\ q.status = 0 /\ q.err = "none" /\ ~q.wrote
  BY <1>1 DEF RequestInv, Fields, AfterWrite
<1>3. Write(r, q)
  OBVIOUS
<1> HIDE DEF q
<1> QED BY <1>2, <1>3, WriteInv DEF Refused

LEMMA AddNewArticleInv ==
  ASSUME RequestsInv, NEW r \in Slots, kAddNewArticle(r)
  PROVE  RequestsInv'
<1> DEFINE q == req[r]
           e == add_new_article_error(Slugify[q.arg.title], q.user)
<1>1. q.pc \in Writing /\ q.pc \notin AfterWrite
  BY DEF kAddNewArticle, Writing, AfterWrite
<1>2. CASE e = "none"
  <2>1. Write(r, ThenReadBack(q, articleSeq + 1))
    BY <1>2 DEF kAddNewArticle
  <2> QED BY <1>1, <2>1, WriteThenRead DEF ThenReadBack, AfterWrite
<1>3. CASE e # "none"
  <2>1. tables' = tables
    BY <1>3 DEF kAddNewArticle, add_new_article, tables
  <2>2. Write(r, SlugError(q, e))
    BY <1>3 DEF kAddNewArticle
  <2> QED BY <1>1, <2>1, <2>2, WriteAnswered DEF SlugError
<1> QED BY <1>2, <1>3

LEMMA UpdateArticleInv ==
  ASSUME RequestsInv, ArticlesMapped, NEW r \in Slots, kUpdateArticleBySlug(r)
  PROVE  RequestsInv'
<1> DEFINE q == req[r]
           rows == OwnedBySlug(q.arg.slug, q.user)
           e == update_article_by_slug_error(q.arg.slug, q.user, NewSlug(q.arg.title))
<1>1. q.pc \in Writing /\ q.pc \notin AfterWrite
  BY DEF kUpdateArticleBySlug, Writing, AfterWrite
<1>2. CASE e # "none"
  <2>1. tables' = tables
    BY <1>2 DEF kUpdateArticleBySlug, update_article_by_slug, tables
  <2>2. Write(r, SlugError(q, e))
    BY <1>2 DEF kUpdateArticleBySlug
  <2> QED BY <1>1, <2>1, <2>2, WriteAnswered DEF SlugError
<1>3. CASE e = "none" /\ rows = {}
  <2>1. articles' = [i \in DOMAIN articles |-> articles[i]]
    BY <1>3 DEF kUpdateArticleBySlug, update_article_by_slug
  <2>2. tables' = tables
    BY <2>1 DEF ArticlesMapped, kUpdateArticleBySlug, update_article_by_slug, tables
  <2>3. Write(r, Reply(q, 404, "none"))
    BY <1>3 DEF kUpdateArticleBySlug
  <2> QED BY <1>1, <2>2, <2>3, WriteAnswered
<1>4. CASE e = "none" /\ rows # {}
  <2>1. Write(r, ThenReadBack(q, CHOOSE i \in rows : TRUE))
    BY <1>4 DEF kUpdateArticleBySlug
  <2> QED BY <1>1, <2>1, WriteThenRead DEF ThenReadBack, AfterWrite
<1> QED BY <1>2, <1>3, <1>4

LEMMA AddNewUserInv ==
  ASSUME RequestsInv, NEW r \in Slots, kAddNewUser(r)
  PROVE  RequestsInv'
<1> DEFINE q == req[r]
           e == add_new_user_error(q.arg.username, q.arg.email)
<1>1. q.pc \in Writing /\ q.pc \notin AfterWrite
  BY DEF kAddNewUser, Writing, AfterWrite
<1>2. CASE e = "none"
  <2> DEFINE v == [subject |-> userSeq + 1, username |-> q.arg.username,
                   email |-> q.arg.email, bio |-> NULL]
             shown == [q EXCEPT !.view = v]
  <2>1. Write(r, Reply(shown, 200, "none"))
    BY <1>2 DEF kAddNewUser
  <2> HIDE DEF v
  <2>2. DOMAIN shown = Fields /\ shown.op # "get_article"
    BY <1>1 DEF RequestsInv, RequestInv, Fields
  <2> HIDE DEF shown
  <2> QED BY <2>1, <2>2, ReplyFields, WriteInv DEF AfterWrite, Refused
<1>3. CASE e # "none"
  <2>1. tables' = tables
    BY <1>3 DEF kAddNewUser, add_new_user, tables
  <2>2. \/ Write(r, Reply(q, 422, e))
        \/ Write(r, Reply(q, 500, e))
    BY <1>3 DEF kAddNewUser
  <2> QED BY <1>1, <2>1, <2>2, WriteAnswered
<1> QED BY <1>2, <1>3

LEMMA UpdateUserInv ==
  ASSUME RequestsInv, NEW r \in Slots, kUpdateUserById(r)
  PROVE  RequestsInv'
<1> DEFINE q == req[r]
           e == update_user_by_id_error(q.user, q.arg.username, q.arg.email)
           shown == [q EXCEPT !.view = Account(q.user, users'[q.user])]
<1>1. q.pc \in Writing /\ q.pc \notin AfterWrite
  BY DEF kUpdateUserById, Writing, AfterWrite
<1>2. CASE e # "none"
  <2>1. tables' = tables
    BY <1>2 DEF kUpdateUserById, update_user_by_id, tables
  <2>2. Write(r, Reply(q, 500, e))
    BY <1>2 DEF kUpdateUserById
  <2> QED BY <1>1, <2>1, <2>2, WriteAnswered
<1>3. CASE e = "none" /\ q.user \notin DOMAIN users
  <2>1. tables' = tables
    BY <1>3 DEF kUpdateUserById, update_user_by_id, tables
  <2>2. Write(r, Reply(q, 404, e))
    BY <1>3 DEF kUpdateUserById
  <2> QED BY <1>1, <2>1, <2>2, WriteAnswered
<1>4. CASE e = "none" /\ q.user \in DOMAIN users
  <2>1. Write(r, Reply(shown, 200, "none"))
    BY <1>4 DEF kUpdateUserById
  <2>2. DOMAIN shown = Fields /\ shown.op # "get_article"
    BY <1>1 DEF RequestsInv, RequestInv, Fields
  <2> HIDE DEF shown
  <2> QED BY <2>1, <2>2, ReplyFields, WriteInv DEF AfterWrite, Refused
<1> QED BY <1>2, <1>3, <1>4

(* The writes that answer 200, or 500 when a constraint refuses them.       *)
LEMMA OtherWritesInv ==
  ASSUME RequestsInv, NEW r \in Slots,
         \/ kDeleteArticleBySlug(r) \/ kFavoriteArticle(r) \/ kUnfavoriteArticle(r)
         \/ kAddNewComment(r) \/ kDeleteComment(r) \/ kFollow(r) \/ kUnfollow(r)
  PROVE  RequestsInv'
<1> DEFINE q == req[r]
           refused(e) == e # "none" /\ tables' = tables /\ Write(r, Reply(q, 500, e))
<1>1. /\ q.pc \in Writing /\ q.pc \notin AfterWrite
      /\ \/ Write(r, Reply(q, 200, "none"))
         \/ \E e : refused(e)
         \/ Write(r, ThenShow(q))
         \/ \E id, target : Write(r, [q EXCEPT !.pc = "kGetComment", !.id = id,
                                               !.target = target])
  <2>1. CASE kDeleteArticleBySlug(r)
    <3> DEFINE e == delete_article_by_slug_error(q.arg.slug, q.user)
    <3>1. Write(r, Reply(q, 200, "none")) \/ refused(e)
      BY <2>1 DEF kDeleteArticleBySlug, delete_article_by_slug, tables
    <3> HIDE DEF refused, e
    <3> QED BY <2>1, <3>1 DEF kDeleteArticleBySlug, Writing, AfterWrite
  <2>2. CASE kFavoriteArticle(r)
    <3> DEFINE e == favorite_article_error(q.arg.slug, q.user)
    <3>1. Write(r, ThenShow(q)) \/ refused(e)
      BY <2>2 DEF kFavoriteArticle, favorite_article, tables
    <3> HIDE DEF refused, e
    <3> QED BY <2>2, <3>1 DEF kFavoriteArticle, Writing, AfterWrite
  <2>3. CASE kUnfavoriteArticle(r)
    BY <2>3 DEF kUnfavoriteArticle, Writing, AfterWrite
  <2>4. CASE kAddNewComment(r)
    <3> DEFINE e == add_comment_to_article_error(q.arg.slug, q.user)
    <3>1. \/ Write(r, [q EXCEPT !.pc = "kGetComment", !.id = commentSeq + 1,
                                !.target = ArticleIdOf(q.arg.slug)])
          \/ refused(e)
      BY <2>4 DEF kAddNewComment, add_comment_to_article, tables
    <3> HIDE DEF refused, e
    <3> QED BY <2>4, <3>1 DEF kAddNewComment, Writing, AfterWrite
  <2>5. CASE kDeleteComment(r)
    BY <2>5 DEF kDeleteComment, Writing, AfterWrite
  <2>6. CASE kFollow(r)
    <3> DEFINE e == follow_error(q.user, q.id)
    <3>1. Write(r, Reply(q, 200, "none")) \/ refused(e)
      BY <2>6 DEF kFollow, follow, tables
    <3> HIDE DEF refused, e
    <3> QED BY <2>6, <3>1 DEF kFollow, Writing, AfterWrite
  <2>7. CASE kUnfollow(r)
    BY <2>7 DEF kUnfollow, Writing, AfterWrite
  <2> QED BY <2>1, <2>2, <2>3, <2>4, <2>5, <2>6, <2>7
<1>2. CASE Write(r, Reply(q, 200, "none")) \/ \E e : refused(e)
  <2>1. req[r].pc \in Writing /\ req[r].pc \notin AfterWrite
    BY <1>1, Zenon
  <2>2. CASE Write(r, Reply(q, 200, "none"))
    <3>1. 200 \notin 400..499
      OBVIOUS
    <3> QED BY <2>1, <2>2, <3>1, WriteAnswered, Zenon
  <2>3. CASE \E e : refused(e)
    <3>1. PICK e : refused(e)
      BY <2>3
    <3> QED BY <2>1, <3>1, WriteAnswered, Zenon
  <2> QED BY <1>2, <2>2, <2>3
<1>3. CASE Write(r, ThenShow(q))
  <2> DEFINE shown == ThenShow(q)
  <2>1. DOMAIN q = Fields /\ q.op # "get_article" /\ q.status = 0 /\ q.err = "none"
    BY <1>1 DEF RequestsInv, RequestInv, AfterWrite
  <2>2. /\ DOMAIN shown = Fields /\ shown.op # "get_article"
        /\ shown.pc = "kGetArticleWithAuthorProfile"
        /\ shown.status = 0 /\ shown.err = "none"
    BY <2>1 DEF ThenShow, Fields
  <2>3. Write(r, shown)
    BY <1>3
  <2> HIDE DEF shown
  <2> QED BY <2>2, <2>3, WriteInv DEF AfterWrite, Refused
<1>4. CASE \E id, target : Write(r, [q EXCEPT !.pc = "kGetComment", !.id = id,
                                             !.target = target])
  BY <1>1, <1>4, WriteThenRead DEF AfterWrite
<1> QED BY <1>1, <1>2, <1>3, <1>4

LEMMA RequestsStep ==
  ASSUME RequestsInv, ArticlesMapped, [Next]_vars
  PROVE  RequestsInv'
<1>1. ASSUME NEW r \in Slots, Step(r)
      PROVE  RequestsInv'
  BY <1>1, LookupInv, ListInv, ReadBackInv, AddNewArticleInv, UpdateArticleInv, AddNewUserInv,
     UpdateUserInv, OtherWritesInv DEF Step, ArticleStep, AccountStep
<1>2. CASE UNCHANGED vars
  BY <1>2 DEF vars, RequestsInv, RequestInv
<1> QED BY <1>1, <1>2, BeginInv, RejectInv DEF Next

-----------------------------------------------------------------------------
(* The table of articles.                                                   *)

(* Which steps reach the table, and how.                                    *)
LEMMA ArticlesChange ==
  ASSUME [Next]_vars
  PROVE  \/ articles' = articles
         \/ \E ids : articles' = Drop(articles, ids)
         \/ \E r \in Slots : kAddNewArticle(r) \/ kUpdateArticleBySlug(r)
<1>1. ASSUME NEW r \in Slots, ArticleStep(r)
      PROVE  \/ articles' = articles
             \/ \E ids : articles' = Drop(articles, ids)
             \/ kAddNewArticle(r) \/ kUpdateArticleBySlug(r)
  <2>1. CASE kDeleteArticleBySlug(r)
    BY <2>1 DEF kDeleteArticleBySlug, delete_article_by_slug
  <2>2. CASE kFavoriteArticle(r) \/ kUnfavoriteArticle(r)
    BY <2>2 DEF kFavoriteArticle, kUnfavoriteArticle, favorite_article, unfavorite_article
  <2>3. CASE kAddNewComment(r) \/ kDeleteComment(r)
    BY <2>3 DEF kAddNewComment, kDeleteComment, add_comment_to_article, delete_comment
  <2>4. CASE \/ kGetArticleIdBySlug(r) \/ kGetArticleWithAuthorProfileBySlug(r)
             \/ kGetArticleWithAuthorProfile(r) \/ TagListOfArticle(r)
             \/ FavoritedOfArticle(r) \/ ProfileOfAuthor(r)
             \/ kGetComment(r) \/ kIsCommentExist(r)
    BY <2>4 DEF kGetArticleIdBySlug, kGetArticleWithAuthorProfileBySlug,
                kGetArticleWithAuthorProfile, TagListOfArticle, FavoritedOfArticle,
                ProfileOfAuthor, kGetComment, kIsCommentExist, Read, dbVars
  <2> QED BY <1>1, <2>1, <2>2, <2>3, <2>4 DEF ArticleStep
<1>2. ASSUME NEW r \in Slots, AccountStep(r)
      PROVE  articles' = articles
  BY <1>2 DEF AccountStep, kAddNewUser, kGetUserByEmail, kGetUserById, kUpdateUserById,
              kGetProfileByUsername, kGetUserByUsername, kFollow, kUnfollow,
              add_new_user, update_user_by_id, follow, unfollow, Read, dbVars
<1>3. ASSUME NEW r \in Slots,
             BeginArticleRequest(r) \/ BeginAccountRequest(r) \/ BeginListRequest(r)
      PROVE  articles' = articles
  BY <1>3 DEF BeginListRequest, BeginGetArticles, BeginGetFeed, BeginGetComments,
              BeginGetTags, BeginArticleRequest, BeginPostArticle, BeginPutArticle, BeginGetArticle,
              BeginBySlug, BeginPostComment, BeginDelComment, BeginAccountRequest,
              BeginPostUser, BeginLogin, BeginGetUser, BeginPutUser, BeginProfile,
              Begin, dbVars
<1>4. ASSUME NEW r \in Slots, Reject(r) \/ ExecuteFails(r)
      PROVE  articles' = articles
  BY <1>4 DEF Reject, ExecuteFails, dbVars
<1>5. ASSUME NEW r \in Slots, ListStep(r)
      PROVE  articles' = articles
  <2>1. ASSUME NEW q, Read(r, q)
        PROVE  articles' = articles
    BY <2>1 DEF Read, dbVars
  <2>2. \E q : Read(r, q)
    BY <1>5, Zenon DEF ListStep, kGetArticlesWithAuthorProfile, kGetFeed, Lists, CompleteRow,
       TagListOfRow, ProfileOfRow, kGetCommentsFromArticle, ProfileOfComment, kGetTags
  <2> QED BY <2>1, <2>2
<1> QED BY <1>1, <1>2, <1>3, <1>4, <1>5 DEF Next, Step, vars

(* A new row gets the slug of its title; an update that names a title       *)
(* replaces both columns, and one that does not replaces neither.           *)
LEMMA ArticlesStep ==
  ASSUME RequestsInv, ArticlesMapped, SlugFollowsTitle, [Next]_vars
  PROVE  ArticlesMapped' /\ SlugFollowsTitle'
<1>1. CASE articles' = articles
  BY <1>1 DEF ArticlesMapped, SlugFollowsTitle
<1>2. ASSUME NEW ids, articles' = Drop(articles, ids)
      PROVE  ArticlesMapped' /\ SlugFollowsTitle'
  BY <1>2 DEF Drop, ArticlesMapped, SlugFollowsTitle
<1>3. ASSUME NEW r \in Slots, kAddNewArticle(r), articles' # articles
      PROVE  ArticlesMapped' /\ SlugFollowsTitle'
  <2> DEFINE title == req[r].arg.title
             new == articleSeq + 1
             row == [title |-> title, slug |-> Slugify[title], text |-> req[r].arg.text,
                     author |-> req[r].user]
  <2>1. articles' = Put(articles, new, row)
    BY <1>3 DEF kAddNewArticle, add_new_article
  <2>2. row.slug = Slugify[row.title]
    OBVIOUS
  <2> HIDE DEF row, new
  <2> QED BY <2>1, <2>2 DEF Put, ArticlesMapped, SlugFollowsTitle
<1>4. ASSUME NEW r \in Slots, kUpdateArticleBySlug(r), articles' # articles
      PROVE  ArticlesMapped' /\ SlugFollowsTitle'
  <2> DEFINE q == req[r]
             title == q.arg.title
             rows == OwnedBySlug(q.arg.slug, q.user)
             row(i) == [title |-> Coalesce(title, articles[i].title),
                        slug |-> Coalesce(NewSlug(title), articles[i].slug),
                        text |-> Coalesce(q.arg.text, articles[i].text),
                        author |-> articles[i].author]
  <2>1. articles' = [i \in DOMAIN articles |-> IF i \notin rows THEN articles[i] ELSE row(i)]
    BY <1>4 DEF kUpdateArticleBySlug, update_article_by_slug
  <2>2. title \in Opt(Titles)
    BY <1>4 DEF kUpdateArticleBySlug, RequestsInv, RequestInv
  <2>3. title # NULL => Slugify[title] # NULL
    BY <2>2, SlugifyAssumption, NullAssumption DEF Opt
  <2>4. ASSUME NEW i \in DOMAIN articles
        PROVE  row(i).slug = Slugify[row(i).title]
    BY <2>3 DEF Coalesce, NewSlug, SlugFollowsTitle
  <2> HIDE DEF row, rows
  <2> QED BY <2>1, <2>4 DEF ArticlesMapped, SlugFollowsTitle
<1> QED BY <1>1, <1>2, <1>3, <1>4, ArticlesChange

-----------------------------------------------------------------------------
LEMMA HandlerInvInit == Init => HandlerInv
<1> SUFFICES ASSUME Init PROVE HandlerInv
  OBVIOUS
<1>1. RequestInv(Idle)
  BY NewFields DEF Idle, RequestInv, Writing
<1>2. RequestsInv
  BY <1>1 DEF Init, RequestsInit, RequestsInv
<1>3. ArticlesMapped /\ SlugFollowsTitle
  BY DEF Init, DbInit, ArticlesMapped, SlugFollowsTitle
<1> QED BY <1>2, <1>3 DEF HandlerInv

LEMMA HandlerInvAlways == Spec => []HandlerInv
<1>1. HandlerInv /\ [Next]_vars => HandlerInv'
  BY RequestsStep, ArticlesStep DEF HandlerInv
<1> QED BY <1>1, HandlerInvInit, PTL DEF Spec

(* However many requests run, fail or lose their answers: none that was     *)
(* answered 4xx, or 500 for a constraint that no handler catches, changed a *)
(* table in any of its statements.                                          *)
THEOREM RefusedAlwaysWroteNothing == Spec => []RefusedWroteNothing
<1>1. HandlerInv => RefusedWroteNothing
  BY DEF HandlerInv, RequestsInv, RequestInv, RefusedWroteNothing
<1> QED BY <1>1, HandlerInvAlways, PTL

(* In every reachable state each article is addressed by the slug of its    *)
(* title, whatever mixture of POST, PUT and DELETE produced it.             *)
THEOREM SlugsFollowTitles == Spec => []SlugFollowsTitle
<1>1. HandlerInv => SlugFollowsTitle
  BY DEF HandlerInv
<1> QED BY <1>1, HandlerInvAlways, PTL
=============================================================================
