-------------------------- MODULE OwnershipProofs ---------------------------
(***************************************************************************)
(* Who changes a row.  Every statement that writes has conditions on the   *)
(* caller's id, and a handler calls it with the id of its own caller: so a *)
(* row changes only in a step of its owner's request, and a field of an    *)
(* account only to the value that request names.  Ids are drawn once.      *)
(***************************************************************************)
EXTENDS ServiceProofs

-----------------------------------------------------------------------------
(* What the statements do to the tables.                                    *)

(* Each table has its writers.                                              *)
LEMMA TablesKept ==
  ASSUME NEW r \in Slots, Writes(r)
  PROVE  /\ \/ kAddNewArticle(r) \/ kUpdateArticleBySlug(r) \/ kDeleteArticleBySlug(r)
            \/ articles' = articles
         /\ \/ kAddNewComment(r) \/ kDeleteComment(r) \/ kDeleteArticleBySlug(r)
            \/ comments' = comments
         /\ kAddNewArticle(r) \/ kDeleteArticleBySlug(r) \/ articleTags' = articleTags
         /\ kFavoriteArticle(r) \/ kUnfavoriteArticle(r) \/ favorites' = favorites
         /\ kFollow(r) \/ kUnfollow(r) \/ followers' = followers
         /\ kAddNewUser(r) \/ kUpdateUserById(r) \/ users' = users
         /\ kAddNewArticle(r) \/ articleSeq' = articleSeq
         /\ kAddNewComment(r) \/ commentSeq' = commentSeq
<1>1. CASE kAddNewArticle(r)
  BY <1>1 DEF kAddNewArticle, add_new_article
<1>2. CASE kUpdateArticleBySlug(r)
  BY <1>2 DEF kUpdateArticleBySlug, update_article_by_slug
<1>3. CASE kDeleteArticleBySlug(r)
  BY <1>3 DEF kDeleteArticleBySlug, delete_article_by_slug
<1>4. CASE kFavoriteArticle(r) \/ kUnfavoriteArticle(r)
  BY <1>4 DEF kFavoriteArticle, kUnfavoriteArticle, favorite_article, unfavorite_article
<1>5. CASE kAddNewComment(r) \/ kDeleteComment(r)
  BY <1>5 DEF kAddNewComment, kDeleteComment, add_comment_to_article, delete_comment
<1>6. CASE kAddNewUser(r) \/ kUpdateUserById(r)
  BY <1>6 DEF kAddNewUser, kUpdateUserById, add_new_user, update_user_by_id
<1>7. CASE kFollow(r) \/ kUnfollow(r)
  BY <1>7 DEF kFollow, kUnfollow, follow, unfollow
<1> QED BY <1>1, <1>2, <1>3, <1>4, <1>5, <1>6, <1>7 DEF Writes

(* A new article: the old ones stay, with their tags.                       *)
LEMMA AddsArticle ==
  ASSUME SerialsDrawn, NEW r \in Slots, kAddNewArticle(r)
  PROVE  /\ articleSeq' \in {articleSeq, articleSeq + 1}
         /\ \A i \in DOMAIN articles : i \in DOMAIN articles' /\ articles'[i] = articles[i]
         /\ \A i \in DOMAIN articles' : i \in DOMAIN articles \/ i = articleSeq + 1
         /\ \A p : p[1] # articleSeq + 1 => (p \in articleTags' <=> p \in articleTags)
<1> DEFINE q == req[r]
           new == articleSeq + 1
           row == [title |-> q.arg.title, slug |-> Slugify[q.arg.title],
                   text |-> q.arg.text, author |-> q.user]
           tagList == {ToLower[g] : g \in q.arg.tagList}
           e == add_new_article_error(Slugify[q.arg.title], q.user)
<1>1. articleSeq' \in {articleSeq, articleSeq + 1}
  BY DEF kAddNewArticle, add_new_article, nextval
<1>2. CASE e # "none"
  <2>1. articles' = articles /\ articleTags' = articleTags
    BY <1>2 DEF kAddNewArticle, add_new_article
  <2> QED BY <1>1, <2>1
<1>3. CASE e = "none"
  <2>1. /\ articles' = Put(articles, new, row)
        /\ articleTags' = articleTags \cup ({new} \X tagList)
    BY <1>3 DEF kAddNewArticle, add_new_article
  <2>2. new \notin DOMAIN articles
    BY MaxSerialAssumption DEF SerialsDrawn
  <2>3. /\ DOMAIN articles' = DOMAIN articles \cup {new}
        /\ \A i \in DOMAIN articles : articles'[i] = articles[i]
    <3> HIDE DEF new, row
    <3> QED BY <2>1, <2>2 DEF Put
  <2>4. \A p : p[1] # new => (p \in articleTags' <=> p \in articleTags)
    <3> HIDE DEF new, tagList
    <3> QED BY <2>1
  <2> QED BY <1>1, <2>3, <2>4
<1> QED BY <1>2, <1>3

(* An update: every article keeps its author, and only the caller's with    *)
(* the slug named changes.                                                  *)
LEMMA UpdatesArticle ==
  ASSUME NEW r \in Slots, kUpdateArticleBySlug(r)
  PROVE  /\ DOMAIN articles' = DOMAIN articles
         /\ \A i \in DOMAIN articles :
              /\ articles'[i].author = articles[i].author
              /\ \/ articles'[i] = articles[i]
                 \/ i \in OwnedBySlug(req[r].arg.slug, req[r].user)
<1> DEFINE q == req[r]
           rows == OwnedBySlug(q.arg.slug, q.user)
           row(i) == [title |-> Coalesce(q.arg.title, articles[i].title),
                      slug |-> Coalesce(NewSlug(q.arg.title), articles[i].slug),
                      text |-> Coalesce(q.arg.text, articles[i].text),
                      author |-> articles[i].author]
<1>1. \/ articles' = articles
      \/ articles' = [i \in DOMAIN articles |-> IF i \notin rows THEN articles[i] ELSE row(i)]
  BY DEF kUpdateArticleBySlug, update_article_by_slug
<1>2. \A i : row(i).author = articles[i].author
  OBVIOUS
<1> HIDE DEF row
<1> QED BY <1>1, <1>2

(* A deletion: the caller's article with the slug named goes, with its      *)
(* comments and tags.                                                       *)
LEMMA DeletesArticle ==
  ASSUME NEW r \in Slots, kDeleteArticleBySlug(r)
  PROVE  \E gone \in {{}, OwnedBySlug(req[r].arg.slug, req[r].user)} :
           /\ DOMAIN articles' = DOMAIN articles \ gone
           /\ \A i \in DOMAIN articles \ gone : articles'[i] = articles[i]
           /\ DOMAIN comments' = DOMAIN comments \ CommentsOn(gone)
           /\ \A c \in DOMAIN comments \ CommentsOn(gone) : comments'[c] = comments[c]
           /\ \A p : p[1] \notin gone => (p \in articleTags' <=> p \in articleTags)
<1> DEFINE rows == OwnedBySlug(req[r].arg.slug, req[r].user)
<1>1. \/ articles' = articles /\ comments' = comments /\ articleTags' = articleTags
      \/ /\ articles' = Drop(articles, rows) /\ comments' = Drop(comments, CommentsOn(rows))
         /\ articleTags' = {p \in articleTags : p[1] \notin rows}
  BY DEF kDeleteArticleBySlug, delete_article_by_slug
<1>2. CASE articles' = articles /\ comments' = comments /\ articleTags' = articleTags
  <2>1. CommentsOn({}) = {}
    BY DEF CommentsOn
  <2> QED BY <1>2, <2>1
<1>3. CASE /\ articles' = Drop(articles, rows) /\ comments' = Drop(comments, CommentsOn(rows))
           /\ articleTags' = {p \in articleTags : p[1] \notin rows}
  <2> HIDE DEF rows
  <2>1. /\ DOMAIN articles' = DOMAIN articles \ rows
        /\ \A i \in DOMAIN articles \ rows : articles'[i] = articles[i]
    BY <1>3, DropRows, Zenon
  <2>2. /\ DOMAIN comments' = DOMAIN comments \ CommentsOn(rows)
        /\ \A c \in DOMAIN comments \ CommentsOn(rows) : comments'[c] = comments[c]
    BY <1>3, DropRows, Zenon
  <2>3. \A p : p[1] \notin rows => (p \in articleTags' <=> p \in articleTags)
    BY <1>3
  <2> QED BY <2>1, <2>2, <2>3 DEF rows
<1> QED BY <1>1, <1>2, <1>3

(* Comments: the old ones stay, or the caller's with the id named goes.     *)
LEMMA AddsComment ==
  ASSUME SerialsDrawn, NEW r \in Slots, kAddNewComment(r)
  PROVE  /\ commentSeq' \in {commentSeq, commentSeq + 1}
         /\ \A c \in DOMAIN comments : c \in DOMAIN comments' /\ comments'[c] = comments[c]
         /\ \A c \in DOMAIN comments' : c \in DOMAIN comments \/ c = commentSeq + 1
<1> DEFINE q == req[r]
           new == commentSeq + 1
           row == [author |-> q.user, article |-> ArticleIdOf(q.arg.slug),
                   body |-> q.arg.body]
<1>1. /\ commentSeq' \in {commentSeq, commentSeq + 1}
      /\ comments' = comments \/ comments' = Put(comments, new, row)
  BY DEF kAddNewComment, add_comment_to_article, nextval
<1>2. new \notin DOMAIN comments
  BY MaxSerialAssumption DEF SerialsDrawn
<1>3. ASSUME comments' = Put(comments, new, row)
      PROVE  /\ DOMAIN comments' = DOMAIN comments \cup {new}
             /\ \A c \in DOMAIN comments : comments'[c] = comments[c]
  <2> HIDE DEF new, row
  <2> QED BY <1>2, <1>3 DEF Put
<1> QED BY <1>1, <1>2, <1>3

LEMMA DeletesComment ==
  ASSUME NEW r \in Slots, kDeleteComment(r)
  PROVE  LET lost == CommentsMatching(req[r].arg.comment, req[r].arg.slug, req[r].user)
         IN  /\ DOMAIN comments' = DOMAIN comments \ lost
             /\ \A c \in DOMAIN comments \ lost : comments'[c] = comments[c]
  BY DropRows, Zenon DEF kDeleteComment, delete_comment

(* Favorites and followers: the pairs are the caller's.                     *)
LEMMA ChangesPairs ==
  ASSUME NEW r \in Slots
  PROVE  /\ kFavoriteArticle(r) => /\ favorites \subseteq favorites'
                                   /\ \A p \in favorites' \ favorites : p[1] = req[r].user
         /\ kUnfavoriteArticle(r) => /\ favorites' \subseteq favorites
                                     /\ \A p \in favorites \ favorites' : p[1] = req[r].user
         /\ kFollow(r) => /\ followers \subseteq followers'
                          /\ \A p \in followers' \ followers : p[1] = req[r].user
         /\ kUnfollow(r) => /\ followers' \subseteq followers
                            /\ \A p \in followers \ followers' : p[1] = req[r].user
<1>1. kFavoriteArticle(r) => favorites' = favorites \/
        favorites' = favorites \cup {<<req[r].user, ArticleIdOf(req[r].arg.slug)>>}
  BY DEF kFavoriteArticle, favorite_article
<1>2. kUnfavoriteArticle(r) =>
        favorites' = favorites
                       \ {<<req[r].user, i>> : i \in get_article_id_by_slug(req[r].arg.slug)}
  BY DEF kUnfavoriteArticle, unfavorite_article
<1>3. kFollow(r) => followers' = followers \/
        followers' = followers \cup {<<req[r].user, req[r].id>>}
  BY DEF kFollow, follow
<1>4. kUnfollow(r) => followers' = followers \ {<<req[r].user, req[r].id>>}
  BY DEF kUnfollow, unfollow
<1> QED BY <1>1, <1>2, <1>3, <1>4

-----------------------------------------------------------------------------
(* Only owners change rows.                                                 *)

(* The handler that writes moves on, for the caller it works for.           *)
LEMMA WriterMoves ==
  ASSUME CallsInv, SerialsDrawn, NEW r \in Slots, Writes(r)
  PROVE  /\ req'[r] # req[r]
         /\ kUpdateArticleBySlug(r) => req[r].op = "put_article"
         /\ kDeleteArticleBySlug(r) => req[r].op = "del_article"
         /\ kFavoriteArticle(r) => req[r].op = "post_favorite"
         /\ kUnfavoriteArticle(r) => req[r].op = "del_favorite"
         /\ kDeleteComment(r) => req[r].op = "del_comment"
         /\ kUpdateUserById(r) => req[r].op = "put_user"
         /\ kFollow(r) => req[r].op = "follow"
         /\ kUnfollow(r) => req[r].op = "unfollow"
<1>1. Step(r)
  BY DEF Writes, Step, ArticleStep, AccountStep
<1>2. Shape(req[r], req'[r]) /\ req[r].pc \in Statements /\ Serves(req[r].pc, req[r].op)
  BY <1>1, StepShape, StepInFlight, Caller
<1>3. req[r].pc \in
        {"kAddNewArticle", "kUpdateArticleBySlug", "kDeleteArticleBySlug",
         "kFavoriteArticle", "kUnfavoriteArticle", "kAddNewComment", "kDeleteComment",
         "kAddNewUser", "kUpdateUserById", "kFollow", "kUnfollow"}
  BY DEF Writes, kAddNewArticle, kUpdateArticleBySlug, kDeleteArticleBySlug,
     kFavoriteArticle, kUnfavoriteArticle, kAddNewComment, kDeleteComment, kAddNewUser,
     kUpdateUserById, kFollow, kUnfollow
<1>4. req'[r].pc # req[r].pc
  BY <1>2, <1>3, StatementsInFlight DEF Shape, GoesOn, Succeeds, Fails
<1>5. /\ kUpdateArticleBySlug(r) => req[r].pc = "kUpdateArticleBySlug"
      /\ kDeleteArticleBySlug(r) => req[r].pc = "kDeleteArticleBySlug"
      /\ kFavoriteArticle(r) => req[r].pc = "kFavoriteArticle"
      /\ kUnfavoriteArticle(r) => req[r].pc = "kUnfavoriteArticle"
      /\ kDeleteComment(r) => req[r].pc = "kDeleteComment"
      /\ kUpdateUserById(r) => req[r].pc = "kUpdateUserById"
      /\ kFollow(r) => req[r].pc = "kFollow"
      /\ kUnfollow(r) => req[r].pc = "kUnfollow"
  BY DEF kUpdateArticleBySlug, kDeleteArticleBySlug, kFavoriteArticle,
     kUnfavoriteArticle, kDeleteComment, kUpdateUserById, kFollow, kUnfollow
<1> QED BY <1>2, <1>4, <1>5 DEF Serves

(* The action of OnlyOwnersChange.  A comment that goes with its article    *)
(* goes in the step that deletes the article.                               *)
OwnersOnly ==
  /\ \A i \in DOMAIN articles :
       i \notin DOMAIN articles' \/ articles'[i] # articles[i]
         => MovesSome({"put_article", "del_article"}, articles[i].author)
  /\ \A c \in DOMAIN comments :
       c \notin DOMAIN comments' \/ comments'[c] # comments[c]
         => \/ MovesSome({"del_comment"}, comments[c].author)
            \/ /\ MovesSome({"del_article"}, articles[comments[c].article].author)
               /\ comments[c].article \notin DOMAIN articles'
  /\ \A p \in favorites' \ favorites : MovesSome({"post_favorite"}, p[1])
  /\ \A p \in favorites \ favorites' : MovesSome({"del_favorite"}, p[1])
  /\ \A p \in followers' \ followers : MovesSome({"follow"}, p[1])
  /\ \A p \in followers \ followers' : MovesSome({"unfollow"}, p[1])

LEMMA OwnersStep ==
  ASSUME ServiceInv, [Next]_vars
  PROVE  OwnersOnly
<1>1. CASE UNCHANGED dbVars
  BY <1>1 DEF dbVars, OwnersOnly
<1>2. ASSUME NEW r \in Slots, Writes(r)
      PROVE  OwnersOnly
  <2>1. CallsInv /\ SerialsDrawn
    BY DEF ServiceInv, IntegrityInv
  <2>2. ASSUME NEW ops, req[r].op \in ops
        PROVE  MovesSome(ops, req[r].user)
    BY <1>2, <2>1, <2>2, WriterMoves DEF MovesSome, Moves
  <2>3. ASSUME NEW i \in DOMAIN articles, i \notin DOMAIN articles' \/ articles'[i] # articles[i]
        PROVE  MovesSome({"put_article", "del_article"}, articles[i].author)
    <3>1. CASE kUpdateArticleBySlug(r)
      <4>1. articles[i].author = req[r].user
        BY <2>3, <3>1, UpdatesArticle DEF OwnedBySlug
      <4> QED BY <1>2, <2>1, <2>2, <3>1, <4>1, WriterMoves
    <3>2. CASE kDeleteArticleBySlug(r)
      <4>1. articles[i].author = req[r].user
        BY <2>3, <3>2, DeletesArticle DEF OwnedBySlug
      <4> QED BY <1>2, <2>1, <2>2, <3>2, <4>1, WriterMoves
    <3>3. ~kAddNewArticle(r) /\ articles' # articles
      BY <2>1, <2>3, AddsArticle
    <3> QED BY <1>2, <3>1, <3>2, <3>3, TablesKept
  <2>4. ASSUME NEW c \in DOMAIN comments, c \notin DOMAIN comments' \/ comments'[c] # comments[c]
        PROVE  \/ MovesSome({"del_comment"}, comments[c].author)
               \/ /\ MovesSome({"del_article"}, articles[comments[c].article].author)
                  /\ comments[c].article \notin DOMAIN articles'
    <3>1. CASE kDeleteComment(r)
      <4>1. comments[c].author = req[r].user
        BY <2>4, <3>1, DeletesComment DEF CommentsMatching
      <4> QED BY <1>2, <2>1, <2>2, <3>1, <4>1, WriterMoves
    <3>2. CASE kDeleteArticleBySlug(r)
      <4>1. /\ articles[comments[c].article].author = req[r].user
            /\ comments[c].article \notin DOMAIN articles'
        BY <2>4, <3>2, DeletesArticle DEF OwnedBySlug, CommentsOn
      <4> QED BY <1>2, <2>1, <2>2, <3>2, <4>1, WriterMoves
    <3>3. ~kAddNewComment(r) /\ comments' # comments
      BY <2>1, <2>4, AddsComment
    <3> QED BY <1>2, <3>1, <3>2, <3>3, TablesKept
  <2>5. ASSUME NEW p \in favorites' \ favorites
        PROVE  MovesSome({"post_favorite"}, p[1])
    BY <1>2, <2>1, <2>2, <2>5, ChangesPairs, TablesKept, WriterMoves
  <2>6. ASSUME NEW p \in favorites \ favorites'
        PROVE  MovesSome({"del_favorite"}, p[1])
    BY <1>2, <2>1, <2>2, <2>6, ChangesPairs, TablesKept, WriterMoves
  <2>7. ASSUME NEW p \in followers' \ followers
        PROVE  MovesSome({"follow"}, p[1])
    BY <1>2, <2>1, <2>2, <2>7, ChangesPairs, TablesKept, WriterMoves
  <2>8. ASSUME NEW p \in followers \ followers'
        PROVE  MovesSome({"unfollow"}, p[1])
    BY <1>2, <2>1, <2>2, <2>8, ChangesPairs, TablesKept, WriterMoves
  <2> QED BY <2>3, <2>4, <2>5, <2>6, <2>7, <2>8 DEF OwnersOnly
<1> QED BY <1>1, <1>2, WhoWrites DEF ServiceInv, IntegrityInv

(* However requests and renames interleave, an article, a comment, a        *)
(* favorite or a follower is changed or taken away only by a request of     *)
(* whom the row belongs to.                                                 *)
THEOREM OnlyOwnersWrite == Spec => OnlyOwnersChange
<1>1. OwnersOnly =>
        /\ \A i \in DOMAIN articles :
             i \notin DOMAIN articles' \/ articles'[i] # articles[i]
               => MovesSome({"put_article", "del_article"}, articles[i].author)
        /\ \A c \in DOMAIN comments :
             c \notin DOMAIN comments' \/ comments'[c] # comments[c]
               => \/ MovesSome({"del_comment"}, comments[c].author)
                  \/ MovesSome({"del_article"}, articles[comments[c].article].author)
        /\ \A p \in favorites' \ favorites : MovesSome({"post_favorite"}, p[1])
        /\ \A p \in favorites \ favorites' : MovesSome({"del_favorite"}, p[1])
        /\ \A p \in followers' \ followers : MovesSome({"follow"}, p[1])
        /\ \A p \in followers \ followers' : MovesSome({"unfollow"}, p[1])
  BY DEF OwnersOnly
<1>2. ServiceInv /\ [Next]_vars => OwnersOnly
  BY OwnersStep
<1> QED BY <1>1, <1>2, ServiceInvAlways, PTL DEF Spec, OnlyOwnersChange

-----------------------------------------------------------------------------
(* No update of an account is lost.                                         *)

(* The hash a PUT stores; NULL leaves the stored one.                       *)
NewHash(password) == IF password = NULL THEN NULL ELSE Digest[password]

LEMMA ChangesUser ==
  ASSUME SerialsDrawn, NEW r \in Slots, kAddNewUser(r) \/ kUpdateUserById(r),
         NEW u \in DOMAIN users, users'[u] # users[u]
  PROVE  /\ kUpdateUserById(r) /\ req[r].user = u
         /\ users'[u] = [username |-> Coalesce(req[r].arg.username, users[u].username),
                         email |-> Coalesce(req[r].arg.email, users[u].email),
                         password_hash |-> Coalesce(NewHash(req[r].arg.password),
                                                    users[u].password_hash),
                         bio |-> Coalesce(req[r].arg.bio, users[u].bio)]
<1> DEFINE q == req[r]
           row(id) == [username |-> Coalesce(q.arg.username, users[id].username),
                       email |-> Coalesce(q.arg.email, users[id].email),
                       password_hash |-> Coalesce(NewHash(q.arg.password),
                                                  users[id].password_hash),
                       bio |-> Coalesce(q.arg.bio, users[id].bio)]
           new == userSeq + 1
<1>1. CASE kAddNewUser(r)
  <2>1. users' = users \/ \E x : users' = Put(users, new, x)
    BY <1>1, Zenon DEF kAddNewUser, add_new_user
  <2>2. new \notin DOMAIN users
    BY MaxSerialAssumption DEF SerialsDrawn
  <2> HIDE DEF new
  <2> QED BY <2>1, <2>2 DEF Put
<1>2. CASE kUpdateUserById(r)
  <2>1. users' = users \/ users' = Put(users, q.user, row(q.user))
    BY <1>2, Zenon DEF kUpdateUserById, update_user_by_id, NewHash
  <2> HIDE DEF row
  <2>2. u = q.user /\ users'[u] = row(u)
    BY <2>1 DEF Put
  <2> QED BY <1>2, <2>2 DEF row
<1> QED BY <1>1, <1>2

(* The action of NoLostUpdate.                                              *)
UpdatesNamed ==
  \A u \in DOMAIN users :
    /\ \A f \in {"username", "email", "bio"} : users'[u][f] # users[u][f]
         => \E r \in Slots : /\ Moves(r, {"put_user"}, u)
                             /\ req[r].arg[f] # NULL
                             /\ req[r].arg[f] = users'[u][f]
    /\ users'[u].password_hash # users[u].password_hash
         => \E r \in Slots : /\ Moves(r, {"put_user"}, u)
                             /\ req[r].arg.password # NULL
                             /\ Digest[req[r].arg.password] = users'[u].password_hash

LEMMA UpdatesStep ==
  ASSUME ServiceInv, [Next]_vars
  PROVE  UpdatesNamed
<1> SUFFICES ASSUME NEW u \in DOMAIN users
             PROVE  /\ \A f \in {"username", "email", "bio"} : users'[u][f] # users[u][f]
                         => \E r \in Slots : /\ Moves(r, {"put_user"}, u)
                                             /\ req[r].arg[f] # NULL
                                             /\ req[r].arg[f] = users'[u][f]
                    /\ users'[u].password_hash # users[u].password_hash
                         => \E r \in Slots : /\ Moves(r, {"put_user"}, u)
                                             /\ req[r].arg.password # NULL
                                             /\ Digest[req[r].arg.password]
                                                  = users'[u].password_hash
  BY DEF UpdatesNamed
<1>1. CASE users'[u] = users[u]
  BY <1>1
<1>2. CASE users'[u] # users[u]
  <2>1. CallsInv /\ SerialsDrawn
    BY DEF ServiceInv, IntegrityInv
  <2>2. PICK r \in Slots : Writes(r)
    BY <1>2, <2>1, WhoWrites DEF dbVars
  <2>3. kAddNewUser(r) \/ kUpdateUserById(r)
    BY <1>2, <2>2, TablesKept
  <2>4. /\ kUpdateUserById(r) /\ req[r].user = u
        /\ users'[u] = [username |-> Coalesce(req[r].arg.username, users[u].username),
                        email |-> Coalesce(req[r].arg.email, users[u].email),
                        password_hash |-> Coalesce(NewHash(req[r].arg.password),
                                                   users[u].password_hash),
                        bio |-> Coalesce(req[r].arg.bio, users[u].bio)]
    BY <1>2, <2>1, <2>3, ChangesUser
  <2>5. Moves(r, {"put_user"}, u)
    BY <2>1, <2>2, <2>4, WriterMoves DEF Moves
  <2>6. /\ users'[u].username = Coalesce(req[r].arg.username, users[u].username)
        /\ users'[u].email = Coalesce(req[r].arg.email, users[u].email)
        /\ users'[u].password_hash
             = Coalesce(NewHash(req[r].arg.password), users[u].password_hash)
        /\ users'[u].bio = Coalesce(req[r].arg.bio, users[u].bio)
    BY <2>4
  <2> QED BY <2>5, <2>6 DEF Coalesce, NewHash
<1> QED BY <1>1, <1>2

(* Whatever runs at the same time, a field of an account changes only in a  *)
(* PUT of its owner that names the field, and to the value it names.        *)
THEOREM NoUpdateIsLost == Spec => NoLostUpdate
<1>1. ServiceInv /\ [Next]_vars => UpdatesNamed
  BY UpdatesStep
<1>2. UpdatesNamed =>
        \A u \in DOMAIN users :
          /\ \A f \in {"username", "email", "bio"} : users'[u][f] # users[u][f]
               => \E r \in Slots : /\ Moves(r, {"put_user"}, u)
                                   /\ req[r].arg[f] # NULL
                                   /\ req[r].arg[f] = users'[u][f]
          /\ users'[u].password_hash # users[u].password_hash
               => \E r \in Slots : /\ Moves(r, {"put_user"}, u)
                                   /\ req[r].arg.password # NULL
                                   /\ Digest[req[r].arg.password] = users'[u].password_hash
  BY DEF UpdatesNamed
<1> QED BY <1>1, <1>2, ServiceInvAlways, PTL DEF Spec, NoLostUpdate

-----------------------------------------------------------------------------
(* Ids are drawn once.                                                      *)

(* The action of IdsNeverReused.                                            *)
DrawsOnce ==
  /\ userSeq <= userSeq' /\ articleSeq <= articleSeq' /\ commentSeq <= commentSeq'
  /\ \A u \in DOMAIN users' \ DOMAIN users : u > userSeq
  /\ \A i \in DOMAIN articles' \ DOMAIN articles : i > articleSeq
  /\ \A c \in DOMAIN comments' \ DOMAIN comments : c > commentSeq

(* A registration draws the next id, whether or not it gets a row; nothing  *)
(* else adds a user.                                                        *)
LEMMA DrawsUser ==
  ASSUME SerialsDrawn, NEW r \in Slots, Writes(r)
  PROVE  /\ userSeq' \in {userSeq, userSeq + 1}
         /\ \A u \in DOMAIN users' : u \in DOMAIN users \/ u = userSeq + 1
<1> DEFINE new == userSeq + 1
<1>1. CASE kAddNewUser(r)
  <2>1. users' = users \/ \E x : users' = Put(users, new, x)
    BY <1>1, Zenon DEF kAddNewUser, add_new_user
  <2>2. \A u \in DOMAIN users' : u \in DOMAIN users \/ u = new
    <3> HIDE DEF new
    <3> QED BY <2>1 DEF Put
  <2> QED BY <1>1, <2>2 DEF kAddNewUser, add_new_user, nextval
<1>2. CASE kUpdateUserById(r)
  <2>1. users' = users \/ \E u \in DOMAIN users : \E x : users' = Put(users, u, x)
    BY <1>2, Zenon DEF kUpdateUserById, update_user_by_id
  <2> QED BY <1>2, <2>1 DEF kUpdateUserById, update_user_by_id, Put
<1>3. CASE \/ kAddNewArticle(r) \/ kUpdateArticleBySlug(r) \/ kDeleteArticleBySlug(r)
           \/ kFavoriteArticle(r) \/ kUnfavoriteArticle(r)
           \/ kAddNewComment(r) \/ kDeleteComment(r)
  BY <1>3
     DEF kAddNewArticle, add_new_article, kUpdateArticleBySlug, update_article_by_slug,
         kDeleteArticleBySlug, delete_article_by_slug, kFavoriteArticle, favorite_article,
         kUnfavoriteArticle, unfavorite_article, kAddNewComment, add_comment_to_article,
         kDeleteComment, delete_comment
<1>4. CASE kFollow(r) \/ kUnfollow(r)
  BY <1>4 DEF kFollow, follow, kUnfollow, unfollow
<1> QED BY <1>1, <1>2, <1>3, <1>4 DEF Writes

LEMMA DrawsStep ==
  ASSUME IntegrityInv, CallsInv, [Next]_vars
  PROVE  DrawsOnce
<1>0. /\ SerialsDrawn /\ userSeq \in Nat /\ articleSeq \in Nat /\ commentSeq \in Nat
  BY MaxSerialAssumption DEF IntegrityInv, SerialsDrawn
<1>1. CASE UNCHANGED dbVars
  BY <1>0, <1>1 DEF dbVars, DrawsOnce
<1>2. ASSUME NEW r \in Slots, Writes(r) PROVE DrawsOnce
  <2>1. /\ userSeq' \in {userSeq, userSeq + 1}
        /\ \A u \in DOMAIN users' : u \in DOMAIN users \/ u = userSeq + 1
    BY <1>0, <1>2, DrawsUser
  <2>2. /\ articleSeq' \in {articleSeq, articleSeq + 1}
        /\ \A i \in DOMAIN articles' : i \in DOMAIN articles \/ i = articleSeq + 1
    BY <1>0, <1>2, TablesKept, AddsArticle, UpdatesArticle, DeletesArticle
  <2>3. /\ commentSeq' \in {commentSeq, commentSeq + 1}
        /\ \A c \in DOMAIN comments' : c \in DOMAIN comments \/ c = commentSeq + 1
    BY <1>0, <1>2, TablesKept, AddsComment, DeletesComment, DeletesArticle
  <2> QED BY <1>0, <2>1, <2>2, <2>3 DEF DrawsOnce
<1> QED BY <1>0, <1>1, <1>2, WhoWrites

(* Whatever is refused, deleted or rolled back meanwhile, a row gets an id  *)
(* that no row had and no request was given before.                         *)
THEOREM IdsAreDrawnOnce == Spec => IdsNeverReused
<1>1. IntegrityInv /\ CallsInv /\ [Next]_vars => DrawsOnce
  BY DrawsStep
<1>2. DrawsOnce =>
        /\ userSeq <= userSeq' /\ articleSeq <= articleSeq' /\ commentSeq <= commentSeq'
        /\ \A u \in DOMAIN users' \ DOMAIN users : u > userSeq
        /\ \A i \in DOMAIN articles' \ DOMAIN articles : i > articleSeq
        /\ \A c \in DOMAIN comments' \ DOMAIN comments : c > commentSeq
  BY DEF DrawsOnce
<1>3. ServiceInv => IntegrityInv /\ CallsInv
  BY DEF ServiceInv
<1> QED BY <1>1, <1>2, <1>3, ServiceInvAlways, PTL DEF Spec, IdsNeverReused

=============================================================================
