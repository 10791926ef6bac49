--------------------------- MODULE ServiceProofs ----------------------------
(***************************************************************************)
(* The tables under the whole service, for any number of requests.  Every  *)
(* statement a handler executes is one of the stored functions, or only    *)
(* reads, so the lemmas of DatabaseProofs carry over: integrity whatever   *)
(* the handlers pass, types because of what they pass.  For the second an  *)
(* invariant says what a request is between two of its statements: which   *)
(* handler executes which statement, for whom and with which arguments.    *)
(***************************************************************************)
EXTENDS HandlerProofs, DatabaseProofs

LEMMA BeginReads ==
  ASSUME NEW r \in Slots,
         \/ BeginArticleRequest(r) \/ BeginAccountRequest(r) \/ BeginListRequest(r)
         \/ Reject(r)
  PROVE  UNCHANGED dbVars
  BY DEF BeginListRequest, BeginGetArticles, BeginGetFeed, BeginGetComments,
         BeginGetTags, BeginArticleRequest, BeginPostArticle, BeginPutArticle, BeginGetArticle,
         BeginBySlug, BeginPostComment, BeginDelComment, BeginAccountRequest,
         BeginPostUser, BeginLogin, BeginGetUser, BeginPutUser, BeginProfile,
         Begin, Reject

(* The statements that write, one by one; the others leave the tables alone. *)
LEMMA ArticleStepIntegrity ==
  ASSUME IntegrityInv, NEW r \in Slots, ArticleStep(r)
  PROVE  IntegrityInv'
<1>1. CASE kAddNewArticle(r)
  BY <1>1, AddNewArticle DEF kAddNewArticle
<1>2. CASE kUpdateArticleBySlug(r)
  BY <1>2, UpdateArticleBySlug DEF kUpdateArticleBySlug
<1>3. CASE kDeleteArticleBySlug(r)
  BY <1>3, DeleteArticleBySlug DEF kDeleteArticleBySlug
<1>4. CASE kFavoriteArticle(r)
  BY <1>4, FavoriteArticle DEF kFavoriteArticle
<1>5. CASE kUnfavoriteArticle(r)
  BY <1>5, UnfavoriteArticle DEF kUnfavoriteArticle
<1>6. CASE kAddNewComment(r)
  BY <1>6, AddCommentToArticle DEF kAddNewComment
<1>7. CASE kDeleteComment(r)
  BY <1>7, DeleteComment DEF kDeleteComment
<1>8. CASE \/ kGetArticleIdBySlug(r)
           \/ kGetArticleWithAuthorProfileBySlug(r)
           \/ kGetArticleWithAuthorProfile(r)
           \/ TagListOfArticle(r)
           \/ FavoritedOfArticle(r)
           \/ ProfileOfAuthor(r)
           \/ kGetComment(r)
           \/ kIsCommentExist(r)
  <2>1. UNCHANGED dbVars
    BY <1>8 DEF kGetArticleIdBySlug, kGetArticleWithAuthorProfileBySlug,
                kGetArticleWithAuthorProfile, TagListOfArticle, FavoritedOfArticle,
                ProfileOfAuthor, kGetComment, kIsCommentExist, Read
  <2> QED BY <2>1, StutterIntegrity
<1> QED BY <1>1, <1>2, <1>3, <1>4, <1>5, <1>6, <1>7, <1>8 DEF ArticleStep

LEMMA AccountStepIntegrity ==
  ASSUME IntegrityInv, NEW r \in Slots, AccountStep(r)
  PROVE  IntegrityInv'
<1>1. CASE kAddNewUser(r)
  BY <1>1, AddNewUser DEF kAddNewUser
<1>2. CASE kUpdateUserById(r)
  BY <1>2, UpdateUserById DEF kUpdateUserById
<1>3. CASE kFollow(r)
  BY <1>3, Follow DEF kFollow
<1>4. CASE kUnfollow(r)
  BY <1>4, Unfollow DEF kUnfollow
<1>5. CASE \/ kGetUserByEmail(r)
           \/ kGetUserById(r)
           \/ kGetProfileByUsername(r)
           \/ kGetUserByUsername(r)
  <2>1. UNCHANGED dbVars
    BY <1>5 DEF kGetUserByEmail, kGetUserById, kGetProfileByUsername,
                kGetUserByUsername, Read
  <2> QED BY <2>1, StutterIntegrity
<1> QED BY <1>1, <1>2, <1>3, <1>4, <1>5 DEF AccountStep

(* The listings only read.                                                  *)
LEMMA ListStepReads ==
  ASSUME NEW r \in Slots, ListStep(r)
  PROVE  UNCHANGED dbVars
<1>1. ASSUME NEW i, NEW pc, CompleteRow(r, i, pc)
      PROVE  UNCHANGED dbVars
  BY <1>1 DEF CompleteRow, Read
<1>2. ASSUME NEW rows, NEW pc, Lists(r, rows, pc)
      PROVE  UNCHANGED dbVars
  BY <1>2 DEF Lists, Read
<1>3. CASE kGetArticlesWithAuthorProfile(r)
  <2>1. \/ Read(r, Reply(req[r], 500, "negative"))
        \/ \E rows : Lists(r, rows, "row.tagList")
    BY <1>3, Zenon DEF kGetArticlesWithAuthorProfile
  <2> QED BY <1>2, <2>1 DEF Read
<1>4. CASE kGetFeed(r)
  <2>1. \/ Read(r, Reply(req[r], 500, "negative"))
        \/ \E rows : Lists(r, rows, "row.tagList")
    BY <1>4, Zenon DEF kGetFeed
  <2> QED BY <1>2, <2>1 DEF Read
<1>5. CASE kGetCommentsFromArticle(r)
  BY <1>2, <1>5, Zenon DEF kGetCommentsFromArticle
<1>6. CASE TagListOfRow(r)
  BY <1>6, Zenon DEF TagListOfRow, Read
<1>7. CASE ProfileOfRow(r) \/ ProfileOfComment(r)
  BY <1>1, <1>7, Zenon DEF ProfileOfRow, ProfileOfComment
<1>8. CASE kGetTags(r)
  BY <1>8, Zenon DEF kGetTags, Read
<1> QED BY <1>3, <1>4, <1>5, <1>6, <1>7, <1>8 DEF ListStep

LEMMA IntegrityStep ==
  ASSUME IntegrityInv, [Next]_vars
  PROVE  IntegrityInv'
<1>1. ASSUME NEW r \in Slots,
             \/ BeginArticleRequest(r) \/ BeginAccountRequest(r) \/ BeginListRequest(r)
             \/ Reject(r)
      PROVE  IntegrityInv'
  BY <1>1, BeginReads, StutterIntegrity
<1>2. ASSUME NEW r \in Slots, Step(r) \/ ExecuteFails(r)
      PROVE  IntegrityInv'
  <2>1. CASE ExecuteFails(r)
    BY <2>1, StutterIntegrity DEF ExecuteFails
  <2>2. CASE ListStep(r)
    BY <2>2, ListStepReads, StutterIntegrity
  <2> QED BY <1>2, <2>1, <2>2, ArticleStepIntegrity, AccountStepIntegrity DEF Step
<1>3. CASE UNCHANGED vars
  BY <1>3, StutterIntegrity DEF vars, dbVars
<1> QED BY <1>1, <1>2, <1>3 DEF Next

LEMMA IntegrityInvAlways == Spec => []IntegrityInv
<1>1. Init => IntegrityInv
  BY InitIntegrity DEF Init
<1>2. IntegrityInv /\ [Next]_vars => IntegrityInv'
  BY IntegrityStep
<1> QED BY <1>1, <1>2, PTL DEF Spec

(* However the requests of any number of clients interleave, fail or lose   *)
(* their answers, the constraints of db_1.sql hold in every state.          *)
THEOREM ServiceIntegrity == Spec => []Integrity
<1>1. IntegrityInv => Integrity
  BY DEF IntegrityInv
<1> QED BY <1>1, IntegrityInvAlways, PTL

-----------------------------------------------------------------------------
(* The handlers that execute a statement.                                   *)
Serves(pc, op) ==
  /\ pc = "kAddNewArticle" => op = "post_article"
  /\ pc = "kUpdateArticleBySlug" => op = "put_article"
  /\ pc = "kGetArticleIdBySlug" => op \in {"del_article", "post_favorite", "del_favorite"}
  /\ pc = "kDeleteArticleBySlug" => op = "del_article"
  /\ pc = "kFavoriteArticle" => op = "post_favorite"
  /\ pc = "kUnfavoriteArticle" => op = "del_favorite"
  /\ pc = "kGetArticleWithAuthorProfileBySlug" => op = "get_article"
  /\ pc \in {"kGetArticleWithAuthorProfile", "article.tagList", "article.favorited",
             "article.following"} => op \in ShowsOne
  /\ pc \in {"kAddNewComment", "kGetComment"} => op = "post_comment"
  /\ pc \in {"kIsCommentExist", "kDeleteComment"} => op = "del_comment"
  /\ pc = "kAddNewUser" => op = "post_user"
  /\ pc = "kGetUserByEmail" => op = "login"
  /\ pc = "kGetUserById" => op = "get_user"
  /\ pc = "kUpdateUserById" => op = "put_user"
  /\ pc = "kGetProfileByUsername" => op = "get_profile"
  /\ pc = "kGetUserByUsername" => op \in {"follow", "unfollow"}
  /\ pc = "kFollow" => op = "follow"
  /\ pc = "kUnfollow" => op = "unfollow"
  /\ pc = "kGetArticlesWithAuthorProfile" => op = "get_articles"
  /\ pc = "kGetFeed" => op = "get_feed"
  /\ pc \in {"row.tagList", "row.following"} => op \in ShowsMany
  /\ pc \in {"kGetCommentsFromArticle", "comment.following"} => op = "get_comments"
  /\ pc = "kGetTags" => op = "get_tags"

(* What CheckAuth and ParseRequest hand to each handler.                    *)
OptionallyAuthenticated == {"get_article", "get_articles", "get_comments", "get_profile"}

Parsed(op, user, arg) ==
  /\ user \in Opt(Serials)
  /\ op \notin PublicRoutes \cup OptionallyAuthenticated => user \in Serials
  /\ op = "post_article" => arg \in [title: Titles, text: Texts, tagList: SUBSET RawTags]
  /\ op = "put_article" => arg \in [slug: Slugs, title: Opt(Titles), text: Opt(Texts)]
  /\ op \in {"del_article", "post_favorite", "del_favorite", "get_article", "get_comments"}
       => arg \in [slug: Slugs]
  /\ op = "post_comment" => arg \in [slug: Slugs, body: Texts]
  /\ op = "del_comment" => arg \in [slug: Slugs, comment: Serials]
  /\ op = "post_user"
       => arg \in [username: UserNames, email: Emails \cup {Oversized}, password: Passwords]
  /\ op = "login" => arg \in [email: Emails \cup {Oversized}, password: Passwords]
  /\ op = "put_user"
       => arg \in [username: Opt(UserNames), email: Opt(Emails \cup {Oversized}),
                   password: Opt(Passwords), bio: Opt(Bios)]
  /\ op \in {"get_profile", "follow", "unfollow"} => arg \in [username: UserNames]
  /\ op = "get_articles" => arg \in Filters
  /\ op = "get_feed" => arg \in [limit: Opt(Numbers), offset: Opt(Numbers)]

IsFlag(b) == b \in BOOLEAN
Refusals == {400, 401, 403, 404, 422, 500}

CallInv(q) ==
  /\ DOMAIN q = Fields
  /\ q.op \in Opt(Routes) /\ (q.pc \in Statements => q.op \in Routes)
  /\ q.pc \in Statements \cup {"idle", "done"}
  /\ q.user \in Opt(Serials) /\ q.id \in Opt(Serials) /\ q.target \in Opt(Serials)
  /\ q.status \in {0, 200} \cup Refusals
  /\ (q.status = 0) = (q.pc # "done")
  /\ IsFlag(q.wrote)
  /\ Serves(q.pc, q.op)
  /\ q.pc \in Statements \/ q.status = 200 => Parsed(q.op, q.user, q.arg)

CallsInv == DOMAIN req = Slots /\ \A r \in Slots : CallInv(req[r])

-----------------------------------------------------------------------------
(* How a request moves: it goes on to a statement of its handler and keeps  *)
(* who called with what, or it is answered.  Only a list of comments stays  *)
(* where it is, to complete its next row.                                   *)

GoesOn(q, n) ==
  /\ n.pc \in Statements /\ Serves(n.pc, q.op) /\ n.status = 0
  /\ n.user = q.user /\ n.arg = q.arg
  /\ n.pc = q.pc => n.pc = "comment.following"

Succeeds(q, n) ==
  /\ n.pc = "done" /\ n.status = 200
  /\ n.user = q.user /\ n.arg = q.arg /\ n.id = q.id

Fails(q, n) ==
  /\ n.pc = "done" /\ n.status \in Refusals
  /\ n.user = NULL /\ n.arg = NULL /\ n.id = NULL /\ n.view = NULL

Shape(q, n) ==
  /\ DOMAIN n = Fields /\ n.op = q.op
  /\ n.id \in Opt(Serials) /\ n.target \in Opt(Serials) /\ IsFlag(n.wrote)
  /\ GoesOn(q, n) \/ Succeeds(q, n) \/ Fails(q, n)

(* One slot has a turn, the others keep their requests.                     *)
Turn(r) == DOMAIN req' = Slots /\ \A s \in Slots : s # r => req'[s] = req[s]

LEMMA StatementsInFlight == "idle" \notin Statements /\ "done" \notin Statements
  BY DEF Statements

LEMMA ShapeInv ==
  ASSUME NEW q, CallInv(q), q.pc \in Statements, NEW n, Shape(q, n)
  PROVE  CallInv(n)
<1>1. CASE GoesOn(q, n)
  BY <1>1, StatementsInFlight DEF Shape, GoesOn, CallInv
<1>2. CASE Succeeds(q, n)
  BY <1>2 DEF Shape, Succeeds, CallInv, Serves
<1>3. CASE Fails(q, n)
  BY <1>3 DEF Shape, Fails, CallInv, Serves, Refusals, Statements
<1> QED BY <1>1, <1>2, <1>3 DEF Shape

(* An answer is given to the request as it is, or with another view.        *)
LEMMA ReplyShape ==
  ASSUME NEW q, CallInv(q), q.pc \in Statements,
         NEW x, DOMAIN x = Fields, x.op = q.op, x.user = q.user, x.arg = q.arg,
         x.id = q.id, x.target = q.target, x.wrote = q.wrote,
         NEW status \in {200} \cup Refusals, NEW err
  PROVE  Shape(q, Reply(x, status, err))
<1> DEFINE n == Reply(x, status, err)
<1>1. CASE status = 200
  <2>1. /\ DOMAIN n = Fields /\ n.op = x.op /\ n.user = x.user /\ n.arg = x.arg
        /\ n.id = x.id /\ n.target = x.target /\ n.wrote = x.wrote
        /\ n.pc = "done" /\ n.status = 200
    BY <1>1 DEF Reply, Fields
  <2>2. Shape(q, n)
    <3> HIDE DEF n
    <3> QED BY <2>1 DEF Shape, Succeeds, CallInv
  <2> QED BY <2>2
<1>2. CASE status # 200
  <2>1. /\ DOMAIN n = Fields /\ n.op = x.op /\ n.user = NULL /\ n.arg = NULL
        /\ n.id = NULL /\ n.view = NULL /\ n.target = x.target /\ n.wrote = x.wrote
        /\ n.pc = "done" /\ n.status = status
    BY <1>2 DEF Reply, NewRequest, Fields
  <2>2. status \in Refusals
    BY <1>2
  <2>3. Shape(q, n)
    <3> HIDE DEF n
    <3> QED BY <2>1, <2>2 DEF Shape, Fails, CallInv, Opt
  <2> QED BY <2>3
<1> QED BY <1>1, <1>2

(* The request goes on.                                                     *)
LEMMA NextShape ==
  ASSUME NEW q, CallInv(q), q.pc \in Statements,
         NEW pc \in Statements, Serves(pc, q.op), pc # q.pc,
         NEW id \in Opt(Serials), NEW target \in Opt(Serials), NEW view
  PROVE  Shape(q, [q EXCEPT !.pc = pc, !.id = id, !.target = target, !.view = view])
<1> DEFINE n == [q EXCEPT !.pc = pc, !.id = id, !.target = target, !.view = view]
<1>1. /\ DOMAIN n = Fields /\ n.op = q.op /\ n.user = q.user /\ n.arg = q.arg
      /\ n.id = id /\ n.target = target /\ n.wrote = q.wrote
      /\ n.pc = pc /\ n.status = q.status
  BY DEF CallInv, Fields
<1>2. q.status = 0 /\ IsFlag(q.wrote)
  BY StatementsInFlight DEF CallInv
<1>3. Shape(q, n)
  <2> HIDE DEF n
  <2> QED BY <1>1, <1>2 DEF Shape, GoesOn
<1> QED BY <1>3

LEMMA ReadShape ==
  ASSUME CallsInv, NEW r \in Slots, NEW n, Read(r, n), Shape(req[r], n)
  PROVE  Turn(r) /\ req'[r] = n /\ Shape(req[r], req'[r])
  BY DEF CallsInv, Read, Turn

(* A statement that writes answers what it means to, or loses the answer.   *)
Alike(n, x) ==
  /\ DOMAIN n = Fields
  /\ n.op = x.op /\ n.pc = x.pc /\ n.user = x.user /\ n.arg = x.arg /\ n.id = x.id
  /\ n.status = x.status /\ n.err = x.err /\ n.view = x.view /\ n.target = x.target

Outcome(n, x) == Alike(n, x) \/ Alike(n, Reply(x, 500, "io"))

LEMMA AlikeShape ==
  ASSUME NEW q, NEW x, Shape(q, x), NEW n, Alike(n, x), IsFlag(n.wrote)
  PROVE  Shape(q, n)
  BY DEF Shape, Alike, GoesOn, Succeeds, Fails

LEMMA WriteShape ==
  ASSUME CallsInv, NEW r \in Slots, NEW x, Write(r, x), Shape(req[r], x)
  PROVE  Turn(r) /\ Outcome(req'[r], x) /\ Shape(req[r], req'[r])
<1>1. PICK out \in {x, Reply(x, 500, "io")} :
        req' = [req EXCEPT ![r] = [out EXCEPT !.wrote = @ \/ tables' # tables]]
  BY DEF Write
<1>2. PICK w : IsFlag(w) /\ req' = [req EXCEPT ![r] = [out EXCEPT !.wrote = w]]
  <2>1. IsFlag(out.wrote \/ tables' # tables)
    BY Zenon DEF IsFlag
  <2> WITNESS out.wrote \/ tables' # tables
  <2> QED BY <1>1, <2>1, Zenon
<1> DEFINE n == [out EXCEPT !.wrote = w]
<1>3. Turn(r) /\ req'[r] = n
  BY <1>2 DEF CallsInv, Turn
<1>4. Shape(req[r], Reply(x, 500, "io"))
  <2> DEFINE lost == Reply(x, 500, "io")
  <2>1. /\ DOMAIN lost = Fields /\ lost.op = x.op /\ lost.user = NULL /\ lost.arg = NULL
        /\ lost.id = NULL /\ lost.view = NULL /\ lost.target = x.target
        /\ lost.wrote = x.wrote /\ lost.pc = "done" /\ lost.status = 500
    BY DEF Reply, NewRequest, Fields, Shape
  <2> HIDE DEF lost
  <2>2. Shape(req[r], lost)
    BY <2>1 DEF Shape, Fails, Refusals, Opt
  <2> QED BY <2>2 DEF lost
<1>5. Shape(req[r], out)
  BY <1>4
<1>6. Alike(n, out) /\ IsFlag(n.wrote)
  BY <1>2, <1>5 DEF Shape, Alike, Fields, IsFlag
<1> HIDE DEF n
<1>7. Shape(req[r], n)
  BY <1>5, <1>6, AlikeShape
<1>8. Outcome(n, x)
  BY <1>6 DEF Outcome
<1> QED BY <1>3, <1>7, <1>8

-----------------------------------------------------------------------------
(* Every statement moves its request so.  The ids a handler keeps are ids   *)
(* the database gave it.                                                    *)

LEMMA DrawnSerials ==
  ASSUME SerialsDrawn
  PROVE  /\ DOMAIN users \subseteq Serials /\ DOMAIN articles \subseteq Serials
         /\ DOMAIN comments \subseteq Serials
         /\ \A slug : ArticleIdOf(slug) \in Opt(Serials)
         /\ ~Exhausted(articleSeq) => articleSeq + 1 \in Serials
         /\ ~Exhausted(commentSeq) => commentSeq + 1 \in Serials
<1>1. DOMAIN articles \subseteq Serials
  BY MaxSerialAssumption DEF SerialsDrawn, Serials
<1>2. ASSUME NEW slug PROVE ArticleIdOf(slug) \in Opt(Serials)
  BY <1>1, SlugLookup DEF Opt
<1> QED BY <1>1, <1>2, MaxSerialAssumption DEF SerialsDrawn, Serials, Exhausted

LEMMA FailShape ==
  ASSUME NEW q, CallInv(q), q.pc \in Statements, NEW status \in {200} \cup Refusals, NEW err
  PROVE  Shape(q, Reply(q, status, err))
  BY ReplyShape DEF CallInv

LEMMA AnswerShape ==
  ASSUME NEW q, CallInv(q), q.pc \in Statements, NEW view
  PROVE  Shape(q, Reply([q EXCEPT !.view = view], 200, "none"))
<1> DEFINE x == [q EXCEPT !.view = view]
<1>1. /\ DOMAIN x = Fields /\ x.op = q.op /\ x.user = q.user /\ x.arg = q.arg
      /\ x.id = q.id /\ x.target = q.target /\ x.wrote = q.wrote
  BY DEF CallInv, Fields
<1>2. 200 \in {200} \cup Refusals
  OBVIOUS
<1> HIDE DEF x
<1>3. Shape(q, Reply(x, 200, "none"))
  BY <1>1, <1>2, ReplyShape
<1> QED BY <1>3 DEF x

LEMMA AddNewArticleShape ==
  ASSUME CallsInv, SerialsDrawn, NEW r \in Slots, kAddNewArticle(r)
  PROVE  Turn(r) /\ Shape(req[r], req'[r])
<1> DEFINE q == req[r]
           e == add_new_article_error(Slugify[q.arg.title], q.user)
<1>1. CallInv(q) /\ q.pc = "kAddNewArticle" /\ q.pc \in Statements
  BY DEF CallsInv, kAddNewArticle, Statements
<1>2. CASE e = "none"
  <2> DEFINE x == [q EXCEPT !.pc = "kGetArticleWithAuthorProfile", !.id = articleSeq + 1,
                            !.target = articleSeq + 1, !.view = q.view]
  <2>1. Write(r, ThenReadBack(q, articleSeq + 1))
    BY <1>2 DEF kAddNewArticle
  <2>2. ThenReadBack(q, articleSeq + 1) = x
    BY <1>1 DEF ThenReadBack, CallInv, Fields
  <2>3. articleSeq + 1 \in Opt(Serials)
    BY <1>2, DrawnSerials DEF add_new_article_error, Opt
  <2>4. /\ "kGetArticleWithAuthorProfile" \in Statements
        /\ Serves("kGetArticleWithAuthorProfile", q.op)
    BY <1>1 DEF Statements, CallInv, Serves, ShowsOne
  <2>5. Shape(q, x)
    BY <1>1, <2>3, <2>4, NextShape
  <2> HIDE DEF x
  <2> QED BY <2>1, <2>2, <2>5, WriteShape
<1>3. CASE e # "none"
  <2>1. Write(r, SlugError(q, e))
    BY <1>3 DEF kAddNewArticle
  <2>2. Shape(q, SlugError(q, e))
    BY <1>1, FailShape DEF SlugError, Refusals
  <2> QED BY <2>1, <2>2, WriteShape
<1> QED BY <1>2, <1>3

LEMMA UpdateArticleShape ==
  ASSUME CallsInv, SerialsDrawn, NEW r \in Slots, kUpdateArticleBySlug(r)
  PROVE  Turn(r) /\ Shape(req[r], req'[r])
<1> DEFINE q == req[r]
           rows == OwnedBySlug(q.arg.slug, q.user)
           id == CHOOSE i \in rows : TRUE
           e == update_article_by_slug_error(q.arg.slug, q.user, NewSlug(q.arg.title))
<1>1. CallInv(q) /\ q.pc = "kUpdateArticleBySlug" /\ q.pc \in Statements
  BY DEF CallsInv, kUpdateArticleBySlug, Statements
<1>2. CASE e # "none" \/ rows = {}
  <2>1. Write(r, SlugError(q, e)) \/ Write(r, Reply(q, 404, "none"))
    BY <1>2 DEF kUpdateArticleBySlug
  <2>2. Shape(q, SlugError(q, e)) /\ Shape(q, Reply(q, 404, "none"))
    BY <1>1, FailShape DEF SlugError, Refusals
  <2> QED BY <2>1, <2>2, WriteShape
<1>3. CASE e = "none" /\ rows # {}
  <2> DEFINE x == [q EXCEPT !.pc = "kGetArticleWithAuthorProfile", !.id = id,
                            !.target = id, !.view = q.view]
  <2>1. Write(r, ThenReadBack(q, id))
    BY <1>3 DEF kUpdateArticleBySlug
  <2>2. ThenReadBack(q, id) = x
    <3> HIDE DEF id
    <3> QED BY <1>1 DEF ThenReadBack, CallInv, Fields
  <2>3. id \in Opt(Serials)
    BY <1>3, DrawnSerials DEF OwnedBySlug, get_article_id_by_slug, Opt
  <2>4. /\ "kGetArticleWithAuthorProfile" \in Statements
        /\ Serves("kGetArticleWithAuthorProfile", q.op)
    BY <1>1 DEF Statements, CallInv, Serves, ShowsOne
  <2> HIDE DEF id
  <2>5. Shape(q, x)
    BY <1>1, <2>3, <2>4, NextShape
  <2> HIDE DEF x
  <2> QED BY <2>1, <2>2, <2>5, WriteShape
<1> QED BY <1>2, <1>3

(* Statements that only answer.                                             *)
LEMMA AnsweringShape ==
  ASSUME CallsInv, NEW r \in Slots,
         \/ kDeleteArticleBySlug(r) \/ kDeleteComment(r) \/ kFollow(r) \/ kUnfollow(r)
         \/ kGetComment(r) \/ kGetUserByEmail(r) \/ kGetUserById(r)
         \/ kGetProfileByUsername(r) \/ ExecuteFails(r)
  PROVE  Turn(r) /\ Shape(req[r], req'[r])
<1> DEFINE q == req[r]
<1>1. CallInv(q)
  BY DEF CallsInv
<1>2. ASSUME NEW status \in {200} \cup Refusals, NEW err, q.pc \in Statements,
             \/ Write(r, Reply(q, status, err)) \/ Read(r, Reply(q, status, err))
      PROVE  Turn(r) /\ Shape(req[r], req'[r])
  <2>1. Shape(q, Reply(q, status, err))
    BY <1>1, <1>2, FailShape
  <2> QED BY <1>2, <2>1, WriteShape, ReadShape
<1>3. ASSUME NEW view, q.pc \in Statements,
             Read(r, Reply([q EXCEPT !.view = view], 200, "none"))
      PROVE  Turn(r) /\ Shape(req[r], req'[r])
  <2>1. Shape(q, Reply([q EXCEPT !.view = view], 200, "none"))
    BY <1>1, <1>3, AnswerShape
  <2> QED BY <1>3, <2>1, ReadShape
<1>4. 200 \in {200} \cup Refusals /\ \A s \in {403, 404, 500} : s \in {200} \cup Refusals
  BY DEF Refusals
<1>5. CASE kDeleteArticleBySlug(r)
  <2> DEFINE e == delete_article_by_slug_error(q.arg.slug, q.user)
  <2>1. q.pc \in Statements /\ (Write(r, Reply(q, 200, e)) \/ Write(r, Reply(q, 500, e)))
    BY <1>5 DEF kDeleteArticleBySlug, Statements
  <2> QED BY <1>2, <1>4, <2>1
<1>6. CASE kDeleteComment(r)
  BY <1>2, <1>4, <1>6 DEF kDeleteComment, Statements
<1>7. CASE kFollow(r)
  <2> DEFINE e == follow_error(q.user, q.id)
  <2>1. q.pc \in Statements /\ (Write(r, Reply(q, 200, e)) \/ Write(r, Reply(q, 500, e)))
    BY <1>7 DEF kFollow, Statements
  <2> QED BY <1>2, <1>4, <2>1
<1>8. CASE kUnfollow(r)
  BY <1>2, <1>4, <1>8 DEF kUnfollow, Statements
<1>9. CASE kGetComment(r)
  BY <1>2, <1>4, <1>9 DEF kGetComment, Statements
<1>10. CASE kGetUserByEmail(r)
  <2> DEFINE id == CHOOSE i \in get_user_by_email(q.arg.email) : TRUE
             v == Account(id, users[id])
  <2>1. /\ q.pc \in Statements
        /\ \/ Read(r, Reply(q, 403, "email"))
           \/ Read(r, Reply(q, 403, "password"))
           \/ Read(r, Reply([q EXCEPT !.view = v], 200, "none"))
    BY <1>10 DEF kGetUserByEmail, Statements
  <2> HIDE DEF v
  <2> QED BY <1>2, <1>3, <1>4, <2>1
<1>11. CASE kGetUserById(r)
  <2> DEFINE v == Account(q.user, users[q.user])
  <2>1. /\ q.pc \in Statements
        /\ \/ Read(r, Reply(q, 404, "none"))
           \/ Read(r, Reply([q EXCEPT !.view = v], 200, "none"))
    BY <1>11 DEF kGetUserById, Statements
  <2> HIDE DEF v
  <2> QED BY <1>2, <1>3, <1>4, <2>1
<1>12. CASE kGetProfileByUsername(r)
  <2> DEFINE id == CHOOSE i \in get_user_by_username(q.arg.username) : TRUE
             v == Profile(users[id], is_following(q.user, id))
  <2>1. /\ q.pc \in Statements
        /\ \/ Read(r, Reply(q, 404, "none"))
           \/ Read(r, Reply([q EXCEPT !.view = v], 200, "none"))
    BY <1>12 DEF kGetProfileByUsername, Statements
  <2> HIDE DEF v
  <2> QED BY <1>2, <1>3, <1>4, <2>1
<1>13. CASE ExecuteFails(r)
  <2>1. q.pc \in Statements /\ Read(r, Reply(q, 500, "io"))
    BY <1>1, <1>13 DEF ExecuteFails, Read, InFlight, CallInv
  <2> QED BY <1>2, <1>4, <2>1
<1> QED BY <1>5, <1>6, <1>7, <1>8, <1>9, <1>10, <1>11, <1>12, <1>13

(* Statements that find what the next one works on.                         *)
LEMMA LookupShape ==
  ASSUME CallsInv, SerialsDrawn, NEW r \in Slots,
         \/ kGetArticleIdBySlug(r) \/ kGetArticleWithAuthorProfileBySlug(r)
         \/ kIsCommentExist(r) \/ kGetUserByUsername(r)
         \/ kGetArticleWithAuthorProfile(r) \/ TagListOfArticle(r)
         \/ FavoritedOfArticle(r) \/ ProfileOfAuthor(r)
  PROVE  Turn(r) /\ Shape(req[r], req'[r])
<1> DEFINE q == req[r]
           Onward(pc, id, view) == [q EXCEPT !.pc = pc, !.id = id, !.target = q.target,
                                           !.view = view]
<1>1. CallInv(q)
  BY DEF CallsInv
<1>2. ASSUME NEW pc, NEW id, NEW view, Read(r, Onward(pc, id, view)), q.pc \in Statements,
             pc \in Statements, Serves(pc, q.op), pc # q.pc, id \in Opt(Serials)
      PROVE  Turn(r) /\ Shape(req[r], req'[r])
  <2>1. q.target \in Opt(Serials)
    BY <1>1 DEF CallInv
  <2>2. Shape(q, Onward(pc, id, view))
    BY <1>1, <1>2, <2>1, NextShape
  <2> HIDE DEF Onward
  <2> QED BY <1>2, <2>2, ReadShape
<1>3. ASSUME q.pc \in Statements, Read(r, Reply(q, 404, "none"))
      PROVE  Turn(r) /\ Shape(req[r], req'[r])
  <2>1. Shape(q, Reply(q, 404, "none"))
    BY <1>1, <1>3, FailShape DEF Refusals
  <2> QED BY <1>3, <2>1, ReadShape
<1>4. CASE kGetArticleIdBySlug(r)
  <2> DEFINE id == ArticleIdOf(q.arg.slug)
             pc == AfterLookup[q.op]
  <2>1. q.pc = "kGetArticleIdBySlug" /\ q.pc \in Statements
    BY <1>4 DEF kGetArticleIdBySlug, Statements
  <2>2. id \in Opt(Serials) /\ pc \in Statements /\ pc # q.pc /\ Serves(pc, q.op)
    BY <1>1, <2>1, DrawnSerials DEF CallInv, Serves, AfterLookup, Statements
  <2>3. Read(r, Reply(q, 404, "none")) \/ Read(r, [q EXCEPT !.pc = pc, !.id = id])
    BY <1>4 DEF kGetArticleIdBySlug
  <2> HIDE DEF id, pc
  <2>4. [q EXCEPT !.pc = pc, !.id = id] = Onward(pc, id, q.view)
    BY <1>1 DEF CallInv, Fields
  <2> HIDE DEF Onward
  <2> QED BY <1>2, <1>3, <2>1, <2>2, <2>3, <2>4
<1>5. CASE kGetArticleWithAuthorProfileBySlug(r)
  <2> DEFINE id == ArticleIdOf(q.arg.slug)
             pc == "kGetArticleWithAuthorProfile"
  <2>1. q.pc = "kGetArticleWithAuthorProfileBySlug" /\ q.pc \in Statements
    BY <1>5 DEF kGetArticleWithAuthorProfileBySlug, Statements
  <2>2. id \in Opt(Serials) /\ pc \in Statements /\ pc # q.pc /\ Serves(pc, q.op)
    BY <1>1, <2>1, DrawnSerials DEF CallInv, Serves, ShowsOne, Statements
  <2>3. Read(r, [q EXCEPT !.pc = pc, !.id = id])
    BY <1>5 DEF kGetArticleWithAuthorProfileBySlug
  <2> HIDE DEF id, pc
  <2>4. [q EXCEPT !.pc = pc, !.id = id] = Onward(pc, id, q.view)
    BY <1>1 DEF CallInv, Fields
  <2> HIDE DEF Onward
  <2> QED BY <1>2, <2>1, <2>2, <2>3, <2>4
<1>6. CASE kIsCommentExist(r)
  <2> DEFINE pc == "kDeleteComment"
  <2>1. q.pc = "kIsCommentExist" /\ q.pc \in Statements
    BY <1>6 DEF kIsCommentExist, Statements
  <2>2. q.id \in Opt(Serials) /\ pc \in Statements /\ pc # q.pc /\ Serves(pc, q.op)
    BY <1>1, <2>1 DEF CallInv, Serves, Statements
  <2>3. Read(r, Reply(q, 404, "none")) \/ Read(r, [q EXCEPT !.pc = pc])
    BY <1>6 DEF kIsCommentExist
  <2> HIDE DEF pc
  <2>4. [q EXCEPT !.pc = pc] = Onward(pc, q.id, q.view)
    BY <1>1 DEF CallInv, Fields
  <2> HIDE DEF Onward
  <2> QED BY <1>2, <1>3, <2>1, <2>2, <2>3, <2>4
<1>7. CASE kGetUserByUsername(r)
  <2> DEFINE rows == get_user_by_username(q.arg.username)
             id == CHOOSE i \in rows : TRUE
             pc == IF q.op = "follow" THEN "kFollow" ELSE "kUnfollow"
             v == Profile(users[id], q.op = "follow")
  <2>1. q.pc = "kGetUserByUsername" /\ q.pc \in Statements
    BY <1>7 DEF kGetUserByUsername, Statements
  <2>2. pc \in Statements /\ pc # q.pc /\ Serves(pc, q.op)
    BY <1>1, <2>1 DEF CallInv, Serves, Statements
  <2>3. \/ Read(r, Reply(q, 404, "none"))
        \/ rows # {} /\ Read(r, [q EXCEPT !.pc = pc, !.id = id, !.view = v])
    BY <1>7 DEF kGetUserByUsername
  <2>4. rows # {} => id \in Opt(Serials)
    BY DrawnSerials DEF get_user_by_username, Opt
  <2> HIDE DEF id, pc, v, rows
  <2>5. [q EXCEPT !.pc = pc, !.id = id, !.view = v] = Onward(pc, id, v)
    BY <1>1 DEF CallInv, Fields
  <2> HIDE DEF Onward
  <2> QED BY <1>2, <1>3, <2>1, <2>2, <2>3, <2>4, <2>5
<1>8. CASE kGetArticleWithAuthorProfile(r)
  <2> DEFINE v == [slug |-> articles[q.id].slug, title |-> articles[q.id].title,
                   text |-> articles[q.id].text, author |-> articles[q.id].author,
                   tagList |-> {}, favorited |-> FALSE, following |-> FALSE,
                   favoritesCount |-> FavoritesCount(q.id)]
             pc == "article.tagList"
  <2>1. q.pc = "kGetArticleWithAuthorProfile" /\ q.pc \in Statements
    BY <1>8 DEF kGetArticleWithAuthorProfile, Statements
  <2>2. q.id \in Opt(Serials) /\ pc \in Statements /\ pc # q.pc /\ Serves(pc, q.op)
    BY <1>1, <2>1 DEF CallInv, Serves, Statements
  <2>3. Read(r, NoArticle(q)) \/ Read(r, [q EXCEPT !.pc = pc, !.view = v])
    BY <1>8 DEF kGetArticleWithAuthorProfile
  <2>4. Shape(q, NoArticle(q))
    BY <1>1, <2>1, FailShape DEF NoArticle, Refusals
  <2> HIDE DEF pc, v
  <2>5. [q EXCEPT !.pc = pc, !.view = v] = Onward(pc, q.id, v)
    BY <1>1 DEF CallInv, Fields
  <2> HIDE DEF Onward
  <2> QED BY <1>2, <2>1, <2>2, <2>3, <2>4, <2>5, ReadShape
<1>9. CASE TagListOfArticle(r)
  <2>1. PICK g : /\ q.pc = "article.tagList"
                 /\ Read(r, [q EXCEPT !.pc = "article.favorited", !.view.tagList = g])
    BY <1>9 DEF TagListOfArticle
  <2> DEFINE v == [q.view EXCEPT !.tagList = g]
             pc == "article.favorited"
  <2>2. q.id \in Opt(Serials) /\ q.pc \in Statements /\ pc \in Statements
        /\ pc # q.pc /\ Serves(pc, q.op)
    BY <1>1, <2>1 DEF CallInv, Serves, Statements
  <2>3. [q EXCEPT !.pc = pc, !.view.tagList = g] = Onward(pc, q.id, v)
    BY <1>1 DEF CallInv, Fields
  <2> HIDE DEF Onward, v
  <2> QED BY <1>2, <2>1, <2>2, <2>3
<1>10. CASE FavoritedOfArticle(r)
  <2>1. PICK f : /\ q.pc = "article.favorited"
                 /\ Read(r, [q EXCEPT !.pc = "article.following", !.view.favorited = f])
    BY <1>10, Zenon DEF FavoritedOfArticle
  <2> DEFINE v == [q.view EXCEPT !.favorited = f]
             pc == "article.following"
  <2>2. q.id \in Opt(Serials) /\ q.pc \in Statements /\ pc \in Statements
        /\ pc # q.pc /\ Serves(pc, q.op)
    BY <1>1, <2>1 DEF CallInv, Serves, Statements
  <2>3. [q EXCEPT !.pc = pc, !.view.favorited = f] = Onward(pc, q.id, v)
    BY <1>1 DEF CallInv, Fields
  <2> HIDE DEF Onward, v
  <2> QED BY <1>2, <2>1, <2>2, <2>3
<1>11. CASE ProfileOfAuthor(r)
  <2>1. PICK f : /\ q.pc = "article.following"
                 /\ Read(r, Reply([q EXCEPT !.view.following = f], 200, "none"))
    BY <1>11, Zenon DEF ProfileOfAuthor
  <2> DEFINE v == [q.view EXCEPT !.following = f]
  <2>2. Read(r, Reply([q EXCEPT !.view = v], 200, "none")) /\ q.pc \in Statements
    BY <2>1 DEF Statements
  <2> HIDE DEF v
  <2>3. Shape(q, Reply([q EXCEPT !.view = v], 200, "none"))
    BY <1>1, <2>2, AnswerShape
  <2> QED BY <2>2, <2>3, ReadShape
<1> QED BY <1>4, <1>5, <1>6, <1>7, <1>8, <1>9, <1>10, <1>11

(* The other writes.                                                        *)
LEMMA CommentShape ==
  ASSUME CallsInv, SerialsDrawn, NEW r \in Slots,
         kFavoriteArticle(r) \/ kUnfavoriteArticle(r) \/ kAddNewComment(r)
  PROVE  Turn(r) /\ Shape(req[r], req'[r])
<1> DEFINE q == req[r]
           target == ArticleIdOf(q.arg.slug)
           Onward(pc, id) == [q EXCEPT !.pc = pc, !.id = id, !.target = target,
                                     !.view = q.view]
<1>1. CallInv(q) /\ target \in Opt(Serials)
  BY DrawnSerials DEF CallsInv
<1>2. ASSUME NEW e, q.pc \in Statements, Write(r, Reply(q, 500, e))
      PROVE  Turn(r) /\ Shape(req[r], req'[r])
  <2>1. Shape(q, Reply(q, 500, e))
    BY <1>1, <1>2, FailShape DEF Refusals
  <2> QED BY <1>2, <2>1, WriteShape
<1>3. ASSUME NEW pc, NEW id, Write(r, Onward(pc, id)), q.pc \in Statements,
             pc \in Statements, Serves(pc, q.op), pc # q.pc, id \in Opt(Serials)
      PROVE  Turn(r) /\ Shape(req[r], req'[r])
  <2> HIDE DEF target
  <2>1. Shape(q, Onward(pc, id))
    BY <1>1, <1>3, NextShape
  <2> HIDE DEF Onward
  <2> QED BY <1>3, <2>1, WriteShape
<1>4. CASE kFavoriteArticle(r) \/ kUnfavoriteArticle(r)
  <2> DEFINE pc == "kGetArticleWithAuthorProfile"
  <2>1. /\ q.pc \in {"kFavoriteArticle", "kUnfavoriteArticle"} /\ q.pc \in Statements
        /\ (\E e : Write(r, Reply(q, 500, e))) \/ Write(r, ThenShow(q))
    BY <1>4 DEF kFavoriteArticle, kUnfavoriteArticle, Statements
  <2>2. q.id \in Opt(Serials) /\ pc \in Statements /\ pc # q.pc /\ Serves(pc, q.op)
    BY <1>1, <2>1 DEF CallInv, Serves, ShowsOne, Statements
  <2>3. ThenShow(q) = Onward(pc, q.id)
    <3> HIDE DEF target
    <3>1. [q EXCEPT !.pc = pc, !.target = target] = Onward(pc, q.id)
      BY <1>1 DEF CallInv, Fields
    <3> HIDE DEF Onward
    <3> QED BY <3>1 DEF ThenShow, target
  <2> HIDE DEF pc, Onward
  <2> QED BY <1>2, <1>3, <2>1, <2>2, <2>3
<1>5. CASE kAddNewComment(r)
  <2> DEFINE pc == "kGetComment"
             e == add_comment_to_article_error(q.arg.slug, q.user)
  <2>1. q.pc = "kAddNewComment" /\ q.pc \in Statements
    BY <1>5 DEF kAddNewComment, Statements
  <2>2. pc \in Statements /\ pc # q.pc /\ Serves(pc, q.op)
    BY <1>1, <2>1 DEF CallInv, Serves, Statements
  <2>3. \/ Write(r, Reply(q, 500, e))
        \/ /\ e = "none"
           /\ Write(r, [q EXCEPT !.pc = pc, !.id = commentSeq + 1, !.target = target])
    BY <1>5 DEF kAddNewComment
  <2>4. e = "none" => commentSeq + 1 \in Opt(Serials)
    BY DrawnSerials DEF add_comment_to_article_error, Opt
  <2> HIDE DEF e, pc, target
  <2>5. [q EXCEPT !.pc = pc, !.id = commentSeq + 1, !.target = target]
          = Onward(pc, commentSeq + 1)
    BY <1>1 DEF CallInv, Fields
  <2> HIDE DEF Onward
  <2> QED BY <1>2, <1>3, <2>1, <2>2, <2>3, <2>4, <2>5
<1> QED BY <1>4, <1>5

LEMMA AccountShape ==
  ASSUME CallsInv, NEW r \in Slots, kAddNewUser(r) \/ kUpdateUserById(r)
  PROVE  Turn(r) /\ Shape(req[r], req'[r])
<1> DEFINE q == req[r]
<1>1. CallInv(q)
  BY DEF CallsInv
<1>2. ASSUME NEW status \in Refusals, NEW err, q.pc \in Statements,
             Write(r, Reply(q, status, err))
      PROVE  Turn(r) /\ Shape(req[r], req'[r])
  <2>1. Shape(q, Reply(q, status, err))
    BY <1>1, <1>2, FailShape
  <2> QED BY <1>2, <2>1, WriteShape
<1>3. ASSUME NEW view, q.pc \in Statements,
             Write(r, Reply([q EXCEPT !.view = view], 200, "none"))
      PROVE  Turn(r) /\ Shape(req[r], req'[r])
  <2>1. Shape(q, Reply([q EXCEPT !.view = view], 200, "none"))
    BY <1>1, <1>3, AnswerShape
  <2> QED BY <1>3, <2>1, WriteShape
<1>4. CASE kAddNewUser(r)
  <2> DEFINE e == add_new_user_error(q.arg.username, q.arg.email)
             v == [subject |-> userSeq + 1, username |-> q.arg.username,
                   email |-> q.arg.email, bio |-> NULL]
  <2>1. /\ q.pc \in Statements
        /\ \/ Write(r, Reply(q, 422, e))
           \/ Write(r, Reply(q, 500, e))
           \/ Write(r, Reply([q EXCEPT !.view = v], 200, "none"))
    BY <1>4 DEF kAddNewUser, Statements
  <2> HIDE DEF v, e
  <2> QED BY <1>2, <1>3, <2>1 DEF Refusals
<1>5. CASE kUpdateUserById(r)
  <2> DEFINE e == update_user_by_id_error(q.user, q.arg.username, q.arg.email)
             v == Account(q.user, users'[q.user])
  <2>1. /\ q.pc \in Statements
        /\ \/ Write(r, Reply(q, 404, e))
           \/ Write(r, Reply(q, 500, e))
           \/ Write(r, Reply([q EXCEPT !.view = v], 200, "none"))
    BY <1>5 DEF kUpdateUserById, Statements
  <2>2. PICK w : w = v
    OBVIOUS
  <2>3. Write(r, Reply([q EXCEPT !.view = v], 200, "none"))
          => Write(r, Reply([q EXCEPT !.view = w], 200, "none"))
    BY <2>2
  <2> HIDE DEF v, e
  <2> QED BY <1>2, <1>3, <2>1, <2>3 DEF Refusals
<1> QED BY <1>4, <1>5

(* Lists.                                                                   *)
LEMMA ListShape ==
  ASSUME CallsInv, NEW r \in Slots, ListStep(r)
  PROVE  Turn(r) /\ Shape(req[r], req'[r])
<1> DEFINE q == req[r]
<1>1. CallInv(q)
  BY DEF CallsInv
<1>2. ASSUME q.pc \in Statements, NEW view, Read(r, Reply([q EXCEPT !.view = view], 200, "none"))
      PROVE  Turn(r) /\ Shape(req[r], req'[r])
  <2>1. Shape(q, Reply([q EXCEPT !.view = view], 200, "none"))
    BY <1>1, <1>2, AnswerShape
  <2> QED BY <1>2, <2>1, ReadShape
<1>3. ASSUME NEW rows, NEW pc \in Statements, Lists(r, rows, pc), q.pc \in Statements,
             Serves(pc, q.op), pc # q.pc
      PROVE  Turn(r) /\ Shape(req[r], req'[r])
  <2> DEFINE x == [q EXCEPT !.pc = pc, !.id = q.id, !.target = q.target, !.view = rows]
  <2>1. \/ Read(r, Reply([q EXCEPT !.view = rows], 200, "none"))
        \/ Read(r, [q EXCEPT !.view = rows, !.pc = pc])
    BY <1>3 DEF Lists
  <2>2. [q EXCEPT !.view = rows, !.pc = pc] = x
    BY <1>1 DEF CallInv, Fields
  <2>3. q.id \in Opt(Serials) /\ q.target \in Opt(Serials)
    BY <1>1 DEF CallInv
  <2>4. Shape(q, x)
    BY <1>1, <1>3, <2>3, NextShape
  <2> HIDE DEF x
  <2> QED BY <1>2, <1>3, <2>1, <2>2, <2>4, ReadShape
<1>4. ASSUME NEW view, NEW pc \in Statements, Read(r, [q EXCEPT !.view = view, !.pc = pc]),
             q.pc \in Statements, Serves(pc, q.op), pc = q.pc => pc = "comment.following"
      PROVE  Turn(r) /\ Shape(req[r], req'[r])
  <2> DEFINE x == [q EXCEPT !.view = view, !.pc = pc]
  <2>1. Read(r, x)
    BY <1>4
  <2>2. q.status = 0
    BY <1>1, <1>4, StatementsInFlight DEF CallInv
  <2>3. /\ DOMAIN x = Fields /\ x.op = q.op /\ x.pc = pc /\ x.user = q.user
        /\ x.arg = q.arg /\ x.id = q.id /\ x.target = q.target /\ x.wrote = q.wrote
        /\ x.status = q.status
    BY <1>1 DEF CallInv, Fields
  <2> HIDE DEF x
  <2>4. Shape(q, x)
    BY <1>1, <1>4, <2>2, <2>3 DEF Shape, GoesOn, CallInv
  <2> QED BY <2>1, <2>4, ReadShape
<1>5. CASE kGetArticlesWithAuthorProfile(r) \/ kGetFeed(r)
  <2>1. \/ Read(r, Reply(q, 500, "negative"))
        \/ \E rows : Lists(r, rows, "row.tagList")
    BY <1>5, Zenon DEF kGetArticlesWithAuthorProfile, kGetFeed
  <2>2. q.pc \in {"kGetArticlesWithAuthorProfile", "kGetFeed"} /\ q.pc \in Statements
    BY <1>5 DEF kGetArticlesWithAuthorProfile, kGetFeed, Statements
  <2>3. "row.tagList" \in Statements /\ Serves("row.tagList", q.op) /\ "row.tagList" # q.pc
    BY <1>1, <2>2 DEF CallInv, Serves, ShowsMany, Statements
  <2>4. Shape(q, Reply(q, 500, "negative"))
    BY <1>1, <2>2, FailShape DEF Refusals
  <2> QED BY <1>3, <2>1, <2>2, <2>3, <2>4, ReadShape
<1>6. CASE kGetCommentsFromArticle(r)
  <2>1. \E rows : Lists(r, rows, "comment.following")
    BY <1>6, Zenon DEF kGetCommentsFromArticle
  <2>2. q.pc = "kGetCommentsFromArticle" /\ q.pc \in Statements
    BY <1>6 DEF kGetCommentsFromArticle, Statements
  <2>3. /\ "comment.following" \in Statements /\ Serves("comment.following", q.op)
        /\ "comment.following" # q.pc
    BY <1>1, <2>2 DEF CallInv, Serves, Statements
  <2> QED BY <1>3, <2>1, <2>2, <2>3
<1>7. CASE ProfileOfRow(r) \/ ProfileOfComment(r)
  <2>1. PICK i, pc : /\ CompleteRow(r, i, pc)
                     /\ \/ q.pc = "row.following" /\ pc = "row.tagList"
                        \/ q.pc = "comment.following" /\ pc = "comment.following"
    BY <1>7, Zenon DEF ProfileOfRow, ProfileOfComment
  <2> DEFINE shown == [q.view EXCEPT ![i].following = Follows(q.view[i].author, q.user)]
  <2>2. \/ Read(r, Reply([q EXCEPT !.view = shown], 200, "none"))
        \/ Read(r, [q EXCEPT !.view = shown, !.pc = pc])
    BY <2>1 DEF CompleteRow
  <2> HIDE DEF shown
  <2>3. q.pc \in Statements /\ pc \in Statements /\ Serves(pc, q.op)
    BY <1>1, <2>1 DEF CallInv, Serves, Statements
  <2> QED BY <1>2, <1>4, <2>1, <2>2, <2>3
<1>9. CASE TagListOfRow(r)
  <2>1. PICK view : Read(r, [q EXCEPT !.pc = "row.following", !.view = view])
    BY <1>1, <1>9, TagListOfRowFills, Zenon DEF CallInv
  <2>2. /\ q.pc = "row.tagList" /\ q.pc \in Statements
        /\ "row.following" \in Statements /\ Serves("row.following", q.op)
    BY <1>1, <1>9 DEF TagListOfRow, CallInv, Serves, Statements
  <2>3. Read(r, [q EXCEPT !.view = view, !.pc = "row.following"])
    BY <2>1
  <2> QED BY <1>4, <2>2, <2>3
<1>8. CASE kGetTags(r)
  <2>1. \E v : Read(r, Reply([q EXCEPT !.view = v], 200, "none"))
    BY <1>8, Zenon DEF kGetTags
  <2>2. q.pc \in Statements
    BY <1>8 DEF kGetTags, Statements
  <2> QED BY <1>2, <2>1, <2>2
<1> QED BY <1>5, <1>6, <1>7, <1>8, <1>9 DEF ListStep

LEMMA StepShape ==
  ASSUME CallsInv, SerialsDrawn, NEW r \in Slots, Step(r) \/ ExecuteFails(r)
  PROVE  Turn(r) /\ Shape(req[r], req'[r])
  BY AddNewArticleShape, UpdateArticleShape, AnsweringShape, LookupShape, CommentShape,
     AccountShape, ListShape DEF Step, ArticleStep, AccountStep

(* Only a request between two statements executes one.                      *)
LEMMA StepInFlight ==
  ASSUME CallsInv, NEW r \in Slots, Step(r) \/ ExecuteFails(r)
  PROVE  req[r].pc \in Statements
<1>1. CASE ArticleStep(r)
  BY <1>1 DEF ArticleStep, kAddNewArticle, kUpdateArticleBySlug, kGetArticleIdBySlug,
     kDeleteArticleBySlug, kFavoriteArticle, kUnfavoriteArticle,
     kGetArticleWithAuthorProfileBySlug, kGetArticleWithAuthorProfile,
     TagListOfArticle, FavoritedOfArticle, ProfileOfAuthor, kAddNewComment, kGetComment,
     kIsCommentExist, kDeleteComment, Statements
<1>2. CASE AccountStep(r)
  BY <1>2 DEF AccountStep, kAddNewUser, kGetUserByEmail, kGetUserById, kUpdateUserById,
     kGetProfileByUsername, kGetUserByUsername, kFollow, kUnfollow, Statements
<1>3. CASE ListStep(r)
  BY <1>3 DEF ListStep, kGetArticlesWithAuthorProfile, kGetFeed, TagListOfRow,
     ProfileOfRow, kGetCommentsFromArticle, ProfileOfComment, kGetTags, Statements
<1>4. CASE ExecuteFails(r)
  BY <1>4 DEF ExecuteFails, InFlight, CallsInv, CallInv
<1> QED BY <1>1, <1>2, <1>3, <1>4 DEF Step

-----------------------------------------------------------------------------
(* A request arrives: its caller has an account and its arguments are       *)
(* parsed.                                                                  *)

(* The statement each handler begins with.                                  *)
FirstStatements ==
  {"kAddNewArticle", "kUpdateArticleBySlug", "kGetArticleIdBySlug",
   "kGetArticleWithAuthorProfileBySlug", "kAddNewComment", "kIsCommentExist",
   "kAddNewUser", "kGetUserByEmail", "kGetUserById", "kUpdateUserById",
   "kGetProfileByUsername", "kGetUserByUsername", "kGetArticlesWithAuthorProfile",
   "kGetFeed", "kGetCommentsFromArticle", "kGetTags"}

Arrives(r) ==
  \E op \in Routes, pc \in FirstStatements : \E user, arg :
    /\ Begin(r, op, user, arg, pc)
    /\ Serves(pc, op) /\ Parsed(op, user, arg)

LEMMA BeginArrives ==
  ASSUME NEW r \in Slots, NEW op, NEW user, NEW arg, NEW pc,
         Begin(r, op, user, arg, pc), pc \in FirstStatements, Serves(pc, op),
         Parsed(op, user, arg)
  PROVE  Arrives(r)
<1>1. op \in Routes
  BY DEF Begin
<1> QED BY <1>1 DEF Arrives

LEMMA ArticleRequestArrives ==
  ASSUME SerialsDrawn, NEW r \in Slots, BeginArticleRequest(r)
  PROVE  Arrives(r)
<1>1. DOMAIN users \subseteq Serials /\ DOMAIN users \subseteq Opt(Serials)
  BY DrawnSerials DEF Opt
<1>2. CASE BeginPostArticle(r)
  <2>1. PICK u \in DOMAIN users, t \in Titles, x \in Texts, g \in SUBSET RawTags :
          Begin(r, "post_article", u, [title |-> t, text |-> x, tagList |-> g],
                "kAddNewArticle")
    BY <1>2 DEF BeginPostArticle
  <2>2. Parsed("post_article", u, [title |-> t, text |-> x, tagList |-> g])
    BY <1>1 DEF Parsed
  <2> QED BY <2>1, <2>2, BeginArrives DEF Serves, FirstStatements
<1>3. CASE BeginPutArticle(r)
  <2>1. PICK u \in DOMAIN users, s \in Slugs, t \in Opt(Titles), x \in Opt(Texts) :
          Begin(r, "put_article", u, [slug |-> s, title |-> t, text |-> x],
                "kUpdateArticleBySlug")
    BY <1>3 DEF BeginPutArticle
  <2>2. Parsed("put_article", u, [slug |-> s, title |-> t, text |-> x])
    BY <1>1 DEF Parsed
  <2> QED BY <2>1, <2>2, BeginArrives DEF Serves, FirstStatements
<1>4. CASE BeginGetArticle(r)
  <2>1. PICK u \in Opt(DOMAIN users), s \in Slugs :
          Begin(r, "get_article", u, [slug |-> s], "kGetArticleWithAuthorProfileBySlug")
    BY <1>4 DEF BeginGetArticle
  <2>2. Parsed("get_article", u, [slug |-> s])
    BY <1>1 DEF Parsed, OptionallyAuthenticated, Opt
  <2> QED BY <2>1, <2>2, BeginArrives DEF Serves, FirstStatements
<1>5. ASSUME NEW op \in {"del_article", "post_favorite", "del_favorite"},
             BeginBySlug(r, op, "kGetArticleIdBySlug")
      PROVE  Arrives(r)
  <2>1. PICK u \in DOMAIN users, s \in Slugs :
          Begin(r, op, u, [slug |-> s], "kGetArticleIdBySlug")
    BY <1>5 DEF BeginBySlug
  <2>2. Parsed(op, u, [slug |-> s])
    BY <1>1 DEF Parsed
  <2> QED BY <2>1, <2>2, BeginArrives DEF Serves, FirstStatements
<1>6. CASE BeginPostComment(r)
  <2>1. PICK u \in DOMAIN users, s \in Slugs, x \in Texts :
          Begin(r, "post_comment", u, [slug |-> s, body |-> x], "kAddNewComment")
    BY <1>6 DEF BeginPostComment
  <2>2. Parsed("post_comment", u, [slug |-> s, body |-> x])
    BY <1>1 DEF Parsed
  <2> QED BY <2>1, <2>2, BeginArrives DEF Serves, FirstStatements
<1>7. CASE BeginDelComment(r)
  <2>1. PICK u \in DOMAIN users, s \in Slugs, c \in Serials :
          Begin(r, "del_comment", u, [slug |-> s, comment |-> c], "kIsCommentExist")
    BY <1>7 DEF BeginDelComment
  <2>2. Parsed("del_comment", u, [slug |-> s, comment |-> c])
    BY <1>1 DEF Parsed
  <2> QED BY <2>1, <2>2, BeginArrives DEF Serves, FirstStatements
<1> QED BY <1>2, <1>3, <1>4, <1>5, <1>6, <1>7 DEF BeginArticleRequest

LEMMA AccountRequestArrives ==
  ASSUME SerialsDrawn, NEW r \in Slots, BeginAccountRequest(r)
  PROVE  Arrives(r)
<1>1. DOMAIN users \subseteq Serials /\ DOMAIN users \subseteq Opt(Serials)
  BY DrawnSerials DEF Opt
<1>2. CASE BeginPostUser(r)
  <2>1. PICK n \in UserNames, e \in Emails \cup {Oversized}, p \in Passwords :
          Begin(r, "post_user", NULL, [username |-> n, email |-> e, password |-> p],
                "kAddNewUser")
    BY <1>2 DEF BeginPostUser
  <2>2. Parsed("post_user", NULL, [username |-> n, email |-> e, password |-> p])
    BY DEF Parsed, PublicRoutes, Opt
  <2> QED BY <2>1, <2>2, BeginArrives DEF Serves, FirstStatements
<1>3. CASE BeginLogin(r)
  <2>1. PICK e \in Emails \cup {Oversized}, p \in Passwords :
          Begin(r, "login", NULL, [email |-> e, password |-> p], "kGetUserByEmail")
    BY <1>3 DEF BeginLogin
  <2>2. Parsed("login", NULL, [email |-> e, password |-> p])
    BY DEF Parsed, PublicRoutes, Opt
  <2> QED BY <2>1, <2>2, BeginArrives DEF Serves, FirstStatements
<1>4. CASE BeginGetUser(r)
  <2>1. PICK u \in DOMAIN users : Begin(r, "get_user", u, NULL, "kGetUserById")
    BY <1>4 DEF BeginGetUser
  <2>2. Parsed("get_user", u, NULL)
    BY <1>1 DEF Parsed
  <2> QED BY <2>1, <2>2, BeginArrives DEF Serves, FirstStatements
<1>5. CASE BeginPutUser(r)
  <2>1. PICK u \in DOMAIN users, n \in Opt(UserNames), e \in Opt(Emails \cup {Oversized}),
             p \in Opt(Passwords), b \in Opt(Bios) :
          Begin(r, "put_user", u,
                [username |-> n, email |-> e, password |-> p, bio |-> b],
                "kUpdateUserById")
    BY <1>5 DEF BeginPutUser
  <2>2. Parsed("put_user", u, [username |-> n, email |-> e, password |-> p, bio |-> b])
    BY <1>1 DEF Parsed
  <2> QED BY <2>1, <2>2, BeginArrives DEF Serves, FirstStatements
<1>6. CASE BeginProfile(r, "get_profile", Opt(DOMAIN users), "kGetProfileByUsername")
  <2>1. PICK u \in Opt(DOMAIN users), n \in UserNames :
          Begin(r, "get_profile", u, [username |-> n], "kGetProfileByUsername")
    BY <1>6 DEF BeginProfile
  <2>2. Parsed("get_profile", u, [username |-> n])
    BY <1>1 DEF Parsed, OptionallyAuthenticated, Opt
  <2> QED BY <2>1, <2>2, BeginArrives DEF Serves, FirstStatements
<1>7. ASSUME NEW op \in {"follow", "unfollow"},
             BeginProfile(r, op, DOMAIN users, "kGetUserByUsername")
      PROVE  Arrives(r)
  <2>1. PICK u \in DOMAIN users, n \in UserNames :
          Begin(r, op, u, [username |-> n], "kGetUserByUsername")
    BY <1>7 DEF BeginProfile
  <2>2. Parsed(op, u, [username |-> n])
    BY <1>1 DEF Parsed
  <2> QED BY <2>1, <2>2, BeginArrives DEF Serves, FirstStatements
<1> QED BY <1>2, <1>3, <1>4, <1>5, <1>6, <1>7 DEF BeginAccountRequest

LEMMA ListRequestArrives ==
  ASSUME SerialsDrawn, NEW r \in Slots, BeginListRequest(r)
  PROVE  Arrives(r)
<1>1. DOMAIN users \subseteq Serials /\ DOMAIN users \subseteq Opt(Serials)
  BY DrawnSerials DEF Opt
<1>2. CASE BeginGetArticles(r)
  <2>1. PICK u \in Opt(DOMAIN users), f \in Filters :
          Begin(r, "get_articles", u, f, "kGetArticlesWithAuthorProfile")
    BY <1>2 DEF BeginGetArticles
  <2>2. Parsed("get_articles", u, f)
    BY <1>1 DEF Parsed, OptionallyAuthenticated, Opt
  <2> QED BY <2>1, <2>2, BeginArrives DEF Serves, FirstStatements
<1>3. CASE BeginGetFeed(r)
  <2>1. PICK u \in DOMAIN users, l \in Opt(Numbers), o \in Opt(Numbers) :
          Begin(r, "get_feed", u, [limit |-> l, offset |-> o], "kGetFeed")
    BY <1>3 DEF BeginGetFeed
  <2>2. Parsed("get_feed", u, [limit |-> l, offset |-> o])
    BY <1>1 DEF Parsed
  <2> QED BY <2>1, <2>2, BeginArrives DEF Serves, FirstStatements
<1>4. CASE BeginGetComments(r)
  <2>1. PICK u \in Opt(DOMAIN users), s \in Slugs :
          Begin(r, "get_comments", u, [slug |-> s], "kGetCommentsFromArticle")
    BY <1>4 DEF BeginGetComments
  <2>2. Parsed("get_comments", u, [slug |-> s])
    BY <1>1 DEF Parsed, OptionallyAuthenticated, Opt
  <2> QED BY <2>1, <2>2, BeginArrives DEF Serves, FirstStatements
<1>5. CASE BeginGetTags(r)
  <2>1. Parsed("get_tags", NULL, NULL)
    BY DEF Parsed, PublicRoutes, Opt
  <2>2. Begin(r, "get_tags", NULL, NULL, "kGetTags")
    BY <1>5 DEF BeginGetTags
  <2> QED BY <2>1, <2>2, BeginArrives DEF Serves, FirstStatements
<1> QED BY <1>2, <1>3, <1>4, <1>5 DEF BeginListRequest

(* A slot without a request begins one or refuses one; the tables stay.     *)
Begins(r) ==
  \E op \in Routes, pc \in FirstStatements : \E user, arg :
    /\ req'[r] = NewRequest(op, user, arg, pc)
    /\ Serves(pc, op) /\ Parsed(op, user, arg)
    /\ SequentialClients /\ user # NULL
         => \A s \in Slots : InFlight(s) => req[s].user # user
Refuses(r) == \E status \in Refusals : req'[r] = Reply(Idle, status, "rejected")

LEMMA TurnOfSlot ==
  ASSUME CallsInv, SerialsDrawn, [Next]_vars
  PROVE  \/ UNCHANGED vars
         \/ \E r \in Slots :
              /\ Turn(r)
              /\ \/ ~InFlight(r) /\ (Begins(r) \/ Refuses(r)) /\ UNCHANGED dbVars
                 \/ ExecuteFails(r)
                 \/ Step(r)
<1> SUFFICES ASSUME Next
             PROVE  \E r \in Slots :
                      /\ Turn(r)
                      /\ \/ ~InFlight(r) /\ (Begins(r) \/ Refuses(r)) /\ UNCHANGED dbVars
                         \/ ExecuteFails(r)
                         \/ Step(r)
  OBVIOUS
<1>1. ASSUME NEW r \in Slots, Arrives(r)
      PROVE  Turn(r) /\ ~InFlight(r) /\ Begins(r) /\ UNCHANGED dbVars
  <2>0. PICK op \in Routes, pc \in FirstStatements :
          \E user, arg : Begin(r, op, user, arg, pc) /\ Serves(pc, op) /\ Parsed(op, user, arg)
    BY <1>1 DEF Arrives
  <2>1. PICK user, arg :
          Begin(r, op, user, arg, pc) /\ Serves(pc, op) /\ Parsed(op, user, arg)
    BY <2>0
  <2>2. /\ req' = [req EXCEPT ![r] = NewRequest(op, user, arg, pc)]
        /\ ~InFlight(r) /\ UNCHANGED dbVars
        /\ SequentialClients /\ user # NULL
             => \A s \in Slots : InFlight(s) => req[s].user # user
    BY <2>1, Zenon DEF Begin
  <2>3. Turn(r) /\ req'[r] = NewRequest(op, user, arg, pc)
    BY <2>2 DEF Turn, CallsInv
  <2> QED BY <2>1, <2>2, <2>3, Zenon DEF Begins
<1>2. ASSUME NEW r \in Slots, Reject(r)
      PROVE  Turn(r) /\ ~InFlight(r) /\ Refuses(r) /\ UNCHANGED dbVars
  <2>0. PICK op \in Routes :
          \E status \in Rejections(op) : req' = [req EXCEPT ![r] = Reply(Idle, status, "rejected")]
    BY <1>2 DEF Reject
  <2> Rejections(op) \subseteq Refusals
    BY DEF Rejections, Refusals
  <2>1. PICK status \in Refusals : req' = [req EXCEPT ![r] = Reply(Idle, status, "rejected")]
    BY <2>0
  <2>2. Turn(r) /\ req'[r] = Reply(Idle, status, "rejected")
    BY <2>1 DEF Turn, CallsInv
  <2> QED BY <1>2, <2>2 DEF Reject, Refuses
<1> QED BY <1>1, <1>2, ArticleRequestArrives, AccountRequestArrives, ListRequestArrives,
           StepShape DEF Next

(* A request that just began.                                               *)
IsNew(n, op, user, arg, pc) ==
  /\ DOMAIN n = Fields /\ n.op = op /\ n.pc = pc /\ n.user = user /\ n.arg = arg
  /\ n.id = NULL /\ n.target = NULL /\ n.view = NULL
  /\ n.status = 0 /\ n.err = "none" /\ n.wrote = FALSE

LEMMA NewShape ==
  ASSUME NEW op, NEW user, NEW arg, NEW pc
  PROVE  IsNew(NewRequest(op, user, arg, pc), op, user, arg, pc)
  BY DEF NewRequest, Fields, IsNew

LEMMA IdleShape == IsNew(Idle, NULL, NULL, NULL, "idle")
  BY NewShape DEF Idle

LEMMA BeginsInv ==
  ASSUME NEW r \in Slots, Begins(r) \/ Refuses(r)
  PROVE  CallInv(req'[r])
<1>1. IsFlag(FALSE) /\ NULL \in Opt(Serials)
  BY DEF IsFlag, Opt
<1>2. CASE Begins(r)
  <2>0. PICK op \in Routes, pc \in FirstStatements : \E user, arg :
          IsNew(req'[r], op, user, arg, pc) /\ Serves(pc, op) /\ Parsed(op, user, arg)
    BY <1>2, NewShape DEF Begins
  <2>1. PICK user, arg :
          IsNew(req'[r], op, user, arg, pc) /\ Serves(pc, op) /\ Parsed(op, user, arg)
    BY <2>0
  <2>2. user \in Opt(Serials)
    BY <2>1 DEF Parsed
  <2>3. op \in Opt(Routes) /\ pc \in Statements
    BY DEF Opt, FirstStatements, Statements
  <2> QED BY <1>1, <2>1, <2>2, <2>3, StatementsInFlight DEF CallInv, IsNew
<1>3. CASE Refuses(r)
  <2>1. PICK status \in Refusals : req'[r] = Reply(Idle, status, "rejected")
    BY <1>3 DEF Refuses
  <2>2. /\ DOMAIN Idle = Fields /\ Idle.op = NULL /\ Idle.target = NULL /\ Idle.wrote = FALSE
    BY IdleShape DEF IsNew
  <2> DEFINE n == Reply(Idle, status, "rejected")
  <2>3. /\ DOMAIN n = Fields /\ n.op = NULL /\ n.user = NULL /\ n.id = NULL
        /\ n.target = NULL /\ n.wrote = FALSE /\ n.pc = "done" /\ n.status = status
    BY <2>2 DEF Reply, NewRequest, Fields, Refusals
  <2>4. CallInv(n)
    <3>1. NULL \in Opt(Routes) /\ status # 0 /\ status # 200
      BY DEF Opt, Refusals
    <3> HIDE DEF n
    <3>2. Serves(n.pc, n.op)
      BY <2>3 DEF Serves
    <3> QED BY <1>1, <2>3, <3>1, <3>2, StatementsInFlight DEF CallInv
  <2> QED BY <2>1, <2>4
<1> QED BY <1>2, <1>3

LEMMA CallsStep ==
  ASSUME CallsInv, SerialsDrawn, [Next]_vars
  PROVE  CallsInv'
<1>1. CASE UNCHANGED vars
  BY <1>1 DEF vars, CallsInv
<1>2. ASSUME NEW r \in Slots, Turn(r), CallInv(req'[r])
      PROVE  CallsInv'
  BY <1>2 DEF Turn, CallsInv
<1>3. ASSUME NEW r \in Slots, Step(r) \/ ExecuteFails(r)
      PROVE  CallInv(req'[r])
  <2>1. CallInv(req[r]) /\ req[r].pc \in Statements /\ Shape(req[r], req'[r])
    BY <1>3, StepShape, StepInFlight DEF CallsInv
  <2>2. PICK n : n = req'[r]
    OBVIOUS
  <2> QED BY <2>1, <2>2, ShapeInv
<1> QED BY <1>1, <1>2, <1>3, TurnOfSlot, BeginsInv

LEMMA CallsInvInit == Init => CallsInv
<1> SUFFICES ASSUME Init, NEW r \in Slots PROVE CallInv(Idle)
  BY DEF Init, RequestsInit, CallsInv
<1>1. /\ DOMAIN Idle = Fields /\ Idle.op = NULL /\ Idle.pc = "idle" /\ Idle.user = NULL
      /\ Idle.id = NULL /\ Idle.target = NULL /\ Idle.status = 0 /\ Idle.wrote = FALSE
  BY IdleShape DEF IsNew
<1>2. IsFlag(FALSE) /\ NULL \in Opt(Serials) /\ NULL \in Opt(Routes)
  BY DEF IsFlag, Opt
<1>3. IsFlag(Idle.wrote)
  BY <1>1, Zenon DEF IsFlag
<1>4. Serves("idle", NULL)
  BY DEF Serves
<1> QED BY <1>1, <1>2, <1>3, <1>4, StatementsInFlight DEF CallInv

-----------------------------------------------------------------------------
(* Types of the service: what the handlers pass has the types the stored    *)
(* functions take, so that the lemmas of DatabaseProofs apply.              *)

LEMMA Caller ==
  ASSUME CallsInv, NEW r \in Slots, req[r].pc \in Statements
  PROVE  /\ Parsed(req[r].op, req[r].user, req[r].arg)
         /\ Serves(req[r].pc, req[r].op)
  BY DEF CallsInv, CallInv

LEMMA ArticleCallsTyped ==
  ASSUME CallsInv, RowsTyped, SerialsDrawn, NEW r \in Slots,
         kAddNewArticle(r) \/ kUpdateArticleBySlug(r) \/ kDeleteArticleBySlug(r)
  PROVE  RowsTyped'
<1> DEFINE q == req[r]
           user == q.user
           slug == q.arg.slug
<1>1. CASE kAddNewArticle(r)
  <2>1. /\ q.pc = "kAddNewArticle"
        /\ add_new_article(q.arg.title, Slugify[q.arg.title], q.arg.text, user,
                           {ToLower[g] : g \in q.arg.tagList})
    BY <1>1 DEF kAddNewArticle
  <2>2. /\ user \in Serials
        /\ q.arg \in [title: Titles, text: Texts, tagList: SUBSET RawTags]
    BY <2>1, Caller DEF Parsed, Serves, Statements, PublicRoutes, OptionallyAuthenticated
  <2>3. /\ q.arg.title \in Titles /\ q.arg.text \in Texts
        /\ Slugify[q.arg.title] \in Slugs \cup {Oversized}
        /\ {ToLower[g] : g \in q.arg.tagList} \in SUBSET TagNames
    BY <2>2, SlugifyAssumption, ToLowerAssumption
  <2> QED BY <2>1, <2>2, <2>3, ArticleRowsTyped
<1>2. CASE kUpdateArticleBySlug(r)
  <2>1. /\ q.pc = "kUpdateArticleBySlug"
        /\ update_article_by_slug(slug, user, q.arg.title, NewSlug(q.arg.title), q.arg.text)
    BY <1>2 DEF kUpdateArticleBySlug
  <2>2. /\ user \in Serials
        /\ q.arg \in [slug: Slugs, title: Opt(Titles), text: Opt(Texts)]
    BY <2>1, Caller DEF Parsed, Serves, Statements, PublicRoutes, OptionallyAuthenticated
  <2>3. /\ slug \in Slugs /\ q.arg.title \in Opt(Titles) /\ q.arg.text \in Opt(Texts)
        /\ NewSlug(q.arg.title) \in Opt(Slugs \cup {Oversized})
    BY <2>2, SlugifyAssumption DEF NewSlug, Opt
  <2> QED BY <2>1, <2>2, <2>3, ArticleRowsTyped
<1>3. CASE kDeleteArticleBySlug(r)
  <2>1. q.pc = "kDeleteArticleBySlug" /\ delete_article_by_slug(slug, user)
    BY <1>3 DEF kDeleteArticleBySlug
  <2>2. user \in Serials /\ q.arg \in [slug: Slugs]
    BY <2>1, Caller DEF Parsed, Serves, Statements, PublicRoutes, OptionallyAuthenticated
  <2> QED BY <2>1, <2>2, ArticleRowsTyped
<1> QED BY <1>1, <1>2, <1>3

LEMMA CommentCallsTyped ==
  ASSUME CallsInv, RowsTyped, SerialsDrawn, NEW r \in Slots,
         kFavoriteArticle(r) \/ kUnfavoriteArticle(r) \/ kAddNewComment(r) \/ kDeleteComment(r)
  PROVE  RowsTyped'
<1> DEFINE q == req[r]
           user == q.user
           slug == q.arg.slug
<1>1. CASE kFavoriteArticle(r) \/ kUnfavoriteArticle(r)
  <2>1. /\ q.pc \in {"kFavoriteArticle", "kUnfavoriteArticle"}
        /\ favorite_article(slug, user) \/ unfavorite_article(slug, user)
    BY <1>1 DEF kFavoriteArticle, kUnfavoriteArticle
  <2>2. user \in Serials /\ q.arg \in [slug: Slugs]
    BY <2>1, Caller DEF Parsed, Serves, Statements, PublicRoutes, OptionallyAuthenticated
  <2> QED BY <2>1, <2>2, CommentRowsTyped
<1>2. CASE kAddNewComment(r)
  <2>1. q.pc = "kAddNewComment" /\ add_comment_to_article(slug, q.arg.body, user)
    BY <1>2 DEF kAddNewComment
  <2>2. user \in Serials /\ q.arg \in [slug: Slugs, body: Texts]
    BY <2>1, Caller DEF Parsed, Serves, Statements, PublicRoutes, OptionallyAuthenticated
  <2> QED BY <2>1, <2>2, CommentRowsTyped
<1>3. CASE kDeleteComment(r)
  <2>1. q.pc = "kDeleteComment" /\ delete_comment(q.arg.comment, slug, user)
    BY <1>3 DEF kDeleteComment
  <2>2. user \in Serials /\ q.arg \in [slug: Slugs, comment: Serials]
    BY <2>1, Caller DEF Parsed, Serves, Statements, PublicRoutes, OptionallyAuthenticated
  <2> QED BY <2>1, <2>2, CommentRowsTyped
<1> QED BY <1>1, <1>2, <1>3

LEMMA AccountCallsTyped ==
  ASSUME CallsInv, RowsTyped, SerialsDrawn, NEW r \in Slots,
         kAddNewUser(r) \/ kUpdateUserById(r) \/ kFollow(r) \/ kUnfollow(r)
  PROVE  RowsTyped'
<1> DEFINE q == req[r]
<1>1. CASE kAddNewUser(r)
  <2>1. /\ q.pc = "kAddNewUser"
        /\ add_new_user(q.arg.username, q.arg.email, Digest[q.arg.password])
    BY <1>1 DEF kAddNewUser
  <2>2. q.arg \in [username: UserNames, email: Emails \cup {Oversized}, password: Passwords]
    BY <2>1, Caller DEF Parsed, Serves, Statements
  <2>3. /\ q.arg.username \in UserNames /\ q.arg.email \in Emails \cup {Oversized}
        /\ Digest[q.arg.password] \in Hashes
    BY <2>2, DigestAssumption
  <2> QED BY <2>1, <2>3, UserRowsTyped
<1>2. CASE kUpdateUserById(r)
  <2> DEFINE hash == IF q.arg.password = NULL THEN NULL ELSE Digest[q.arg.password]
  <2>1. /\ q.pc = "kUpdateUserById"
        /\ update_user_by_id(q.user, q.arg.username, q.arg.email, hash, q.arg.bio)
    BY <1>2 DEF kUpdateUserById
  <2>2. /\ q.user \in Serials
        /\ q.arg \in [username: Opt(UserNames), email: Opt(Emails \cup {Oversized}),
                      password: Opt(Passwords), bio: Opt(Bios)]
    BY <2>1, Caller DEF Parsed, Serves, Statements, PublicRoutes, OptionallyAuthenticated
  <2>3. /\ q.arg.username \in Opt(UserNames)
        /\ q.arg.email \in Opt(Emails \cup {Oversized})
        /\ hash \in Opt(Hashes) /\ q.arg.bio \in Opt(Bios)
    BY <2>2, DigestAssumption DEF Opt
  <2> HIDE DEF hash
  <2> QED BY <2>1, <2>2, <2>3, UserRowsTyped
<1>3. CASE kFollow(r) \/ kUnfollow(r)
  <2>1. follow(q.user, q.id) \/ unfollow(q.user, q.id)
    BY <1>3 DEF kFollow, kUnfollow
  <2>2. \/ followers' \subseteq followers
        \/ /\ followers' = followers \cup {<<q.user, q.id>>}
           /\ q.user \in Serials /\ q.id \in Serials
    BY <2>1, DrawnSerials DEF follow, unfollow, follow_error
  <2> QED BY <2>1, <2>2 DEF follow, unfollow, RowsTyped
<1> QED BY <1>1, <1>2, <1>3

(* The statements that write, and the rest.                                 *)
Writes(r) ==
  \/ kAddNewArticle(r) \/ kUpdateArticleBySlug(r) \/ kDeleteArticleBySlug(r)
  \/ kFavoriteArticle(r) \/ kUnfavoriteArticle(r) \/ kAddNewComment(r) \/ kDeleteComment(r)
  \/ kAddNewUser(r) \/ kUpdateUserById(r) \/ kFollow(r) \/ kUnfollow(r)

LEMMA OthersRead ==
  ASSUME NEW r \in Slots, Step(r), ~Writes(r)
  PROVE  UNCHANGED dbVars
<1>1. CASE ListStep(r)
  BY <1>1, ListStepReads
<1>2. CASE \/ kGetArticleIdBySlug(r) \/ kGetArticleWithAuthorProfileBySlug(r)
           \/ kGetArticleWithAuthorProfile(r) \/ TagListOfArticle(r)
           \/ FavoritedOfArticle(r) \/ ProfileOfAuthor(r)
           \/ kGetComment(r) \/ kIsCommentExist(r)
  BY <1>2 DEF kGetArticleIdBySlug, kGetArticleWithAuthorProfileBySlug,
              kGetArticleWithAuthorProfile, TagListOfArticle, FavoritedOfArticle,
              ProfileOfAuthor, kGetComment, kIsCommentExist, Read
<1>3. CASE \/ kGetUserByEmail(r) \/ kGetUserById(r) \/ kGetProfileByUsername(r)
           \/ kGetUserByUsername(r)
  BY <1>3 DEF kGetUserByEmail, kGetUserById, kGetProfileByUsername, kGetUserByUsername, Read
<1> QED BY <1>1, <1>2, <1>3 DEF Step, ArticleStep, AccountStep, Writes

(* Who changes a table: a statement that writes, in the turn of its slot.   *)
LEMMA WhoWrites ==
  ASSUME CallsInv, SerialsDrawn, [Next]_vars
  PROVE  UNCHANGED dbVars \/ \E r \in Slots : Writes(r) /\ Turn(r)
<1>1. UNCHANGED vars => UNCHANGED dbVars
  BY DEF vars, dbVars
<1>2. ASSUME NEW r \in Slots, ExecuteFails(r)
      PROVE  UNCHANGED dbVars
  BY <1>2 DEF ExecuteFails
<1> QED BY <1>1, <1>2, TurnOfSlot, OthersRead

LEMMA RowsStep ==
  ASSUME CallsInv, RowsTyped, SerialsDrawn, [Next]_vars
  PROVE  RowsTyped'
<1>1. CASE UNCHANGED dbVars
  BY <1>1 DEF dbVars, RowsTyped
<1>2. ASSUME NEW r \in Slots, Writes(r)
      PROVE  RowsTyped'
  BY <1>2, ArticleCallsTyped, CommentCallsTyped, AccountCallsTyped DEF Writes
<1> QED BY <1>1, <1>2, WhoWrites

(* The invariant of this module: integrity, types, and what the requests    *)
(* know.                                                                    *)
ServiceInv == IntegrityInv /\ RowsTyped /\ CallsInv

LEMMA ServiceInvAlways == Spec => []ServiceInv
<1>1. Init => ServiceInv
  <2> SUFFICES ASSUME Init PROVE RowsTyped
    BY InitIntegrity, CallsInvInit DEF Init, ServiceInv
  <2> QED BY SeedAssumption DEF Init, DbInit, RowsTyped
<1>2. ServiceInv /\ [Next]_vars => ServiceInv'
  BY IntegrityStep, RowsStep, CallsStep DEF ServiceInv, IntegrityInv
<1> QED BY <1>1, <1>2, PTL DEF Spec

(* Whatever requests run, every row has the columns of its table, and every *)
(* request is between two statements of its handler, or answered with a     *)
(* status the handlers know.                                                *)
THEOREM ServiceTypes == Spec => []TypeOK
<1>1. ServiceInv => TypeOK
  <2> SUFFICES ASSUME ServiceInv PROVE TypeOK
    OBVIOUS
  <2>1. DbTypeOK
    BY DEF ServiceInv, IntegrityInv, RowsTyped, DbTypeOK
  <2>2. ASSUME NEW r \in Slots
        PROVE  /\ req[r].op \in Opt(Routes)
               /\ req[r].pc \in Statements \cup {"idle", "done"}
               /\ req[r].user \in Opt(Serials)
               /\ req[r].id \in Opt(Serials) /\ req[r].target \in Opt(Serials)
               /\ req[r].status \in {0, 200, 400, 401, 403, 404, 422, 500}
               /\ (req[r].status = 0) = (req[r].pc # "done")
    BY DEF ServiceInv, CallsInv, CallInv, Refusals
  <2>3. ASSUME NEW r \in Slots PROVE req[r].wrote \in BOOLEAN
    BY Zenon DEF ServiceInv, CallsInv, CallInv, IsFlag
  <2>4. DOMAIN req = Slots
    BY DEF ServiceInv, CallsInv
  <2> QED BY <2>1, <2>2, <2>3, <2>4 DEF TypeOK
<1> QED BY <1>1, ServiceInvAlways, PTL
=============================================================================
