------------------------------ MODULE Database ------------------------------
(***************************************************************************)
(* The tables of postgresql/schemas/db_1.sql and its stored functions.     *)
(* The service reaches the tables only through these functions, and every  *)
(* call is a transaction of its own (autocommit, READ COMMITTED), so each  *)
(* function that writes is one action.  A function that fails leaves the   *)
(* tables alone but keeps the serial it drew: nextval is not rolled back.  *)
(*                                                                         *)
(* Columns the properties do not tell apart are merged: bio stands for bio *)
(* and image, text for description and body.  Timestamps are left out.  A  *)
(* tag is its name, and its serial is left out.  Oversized stands for any  *)
(* string that does not fit VARCHAR(255).                                  *)
(***************************************************************************)
EXTENDS Integers, FiniteSets

CONSTANTS
  UserNames,  \* spellings of user names (CITEXT)
  CiFold,     \* CiFold[n]: what CITEXT compares instead of n
  Emails, Hashes, Bios, Titles, Slugs, Texts, TagNames,
  Oversized,  \* a string longer than 255 characters
  MaxSerial,  \* the largest SERIAL, 2147483647 in PostgreSQL
  SeedUsers,  \* the users registered before the behaviour starts
  NULL

UserRow == [username: UserNames, email: Emails, password_hash: Hashes,
            bio: Bios \cup {NULL}]
ArticleRow == [title: Titles, slug: Slugs, text: Texts, author: 1..MaxSerial]
CommentRow == [author: 1..MaxSerial, article: 1..MaxSerial, body: Texts]

UniqueUserNames(t) == \A i, j \in DOMAIN t :
  CiFold[t[i].username] = CiFold[t[j].username] => i = j
UniqueEmails(t) == \A i, j \in DOMAIN t : t[i].email = t[j].email => i = j

ASSUME MaxSerialAssumption == MaxSerial \in Nat \ {0}
ASSUME OversizedAssumption == Oversized \notin Emails \cup Slugs
ASSUME NullAssumption ==
  NULL \notin UserNames \cup Emails \cup Hashes \cup Bios \cup Titles
                \cup Slugs \cup {Oversized} \cup Texts \cup Int
ASSUME SeedAssumption ==
  \E n \in 0..MaxSerial : /\ SeedUsers \in [1..n -> UserRow]
                          /\ UniqueUserNames(SeedUsers)
                          /\ UniqueEmails(SeedUsers)

VARIABLES
  users, articles, comments,   \* primary key -> row
  tags,                        \* the names in the table tags
  articleTags,                 \* << article, tag >>
  favorites,                   \* << user, article >>
  followers,                   \* << follower, followed >>
  userSeq, articleSeq, commentSeq  \* last value drawn from each sequence

tables == <<users, articles, comments, tags, articleTags, favorites, followers>>
dbVars == <<users, articles, comments, tags, articleTags, favorites, followers,
            userSeq, articleSeq, commentSeq>>

Serials == 1..MaxSerial

DbInit ==
  /\ users = SeedUsers
  /\ userSeq \in 0..MaxSerial /\ DOMAIN SeedUsers = 1..userSeq
  /\ articles = [i \in {} |-> NULL] /\ articleSeq = 0
  /\ comments = [i \in {} |-> NULL] /\ commentSeq = 0
  /\ tags = {} /\ articleTags = {} /\ favorites = {} /\ followers = {}

-----------------------------------------------------------------------------
(* Rows, serials and columns.                                              *)

Put(t, id, row) == [i \in DOMAIN t \cup {id} |-> IF i = id THEN row ELSE t[i]]
Drop(t, ids) == [i \in DOMAIN t \ ids |-> t[i]]
Coalesce_Overwrite(new, old) == new         \* mutant: absent fields are cleared
Coalesce(new, old) == IF new = NULL THEN old ELSE new
Opt(S) == S \cup {NULL}
TooLong_Never(value) == FALSE               \* mutant: a column without its limit
TooLong(value) == value = Oversized

nextval_Cycle(seq) == IF seq < MaxSerial THEN seq + 1 ELSE 1  \* mutant: CYCLE
nextval(seq) == IF seq < MaxSerial THEN seq + 1 ELSE seq
Exhausted(seq) == seq >= MaxSerial

(* SELECT article_id FROM articles WHERE slug = _slug, as a set of rows and *)
(* as the scalar subquery the other functions use.                          *)
get_article_id_by_slug(slug) == {i \in DOMAIN articles : articles[i].slug = slug}
ArticleIdOf(slug) ==
  IF get_article_id_by_slug(slug) = {} THEN NULL
  ELSE CHOOSE i \in get_article_id_by_slug(slug) : TRUE

-----------------------------------------------------------------------------
(* Users and followers.                                                     *)

NameTaken_CaseSensitive(name, others) ==    \* mutant: TEXT instead of CITEXT
  \E i \in others : users[i].username = name
NameTaken(name, others) ==
  \E i \in others : CiFold[users[i].username] = CiFold[name]
EmailTaken(email, others) == \E i \in others : users[i].email = email

(* The first check of an INSERT or UPDATE that fails: the serial is drawn   *)
(* first, then the values are cast to their columns, then NOT NULL, then    *)
(* the unique indexes in the order of their creation, last the foreign keys. *)
add_new_user_error(name, email) ==
  IF Exhausted(userSeq) THEN "serial"
  ELSE IF TooLong(email) THEN "too_long"
  ELSE IF NameTaken(name, DOMAIN users) THEN "uniq_username"
  ELSE IF EmailTaken(email, DOMAIN users) THEN "uniq_email"
  ELSE "none"

add_new_user(name, email, hash) ==
  /\ userSeq' = nextval(userSeq)
  /\ users' = IF add_new_user_error(name, email) # "none" THEN users
              ELSE Put(users, userSeq + 1,
                       [username |-> name, email |-> email,
                        password_hash |-> hash, bio |-> NULL])
  /\ UNCHANGED <<articles, comments, tags, articleTags, favorites, followers,
                 articleSeq, commentSeq>>

(* No row: nothing is updated and nothing can fail.                         *)
update_user_by_id_error(id, name, email) ==
  IF id \notin DOMAIN users THEN "none"
  ELSE IF TooLong(email) THEN "too_long"
  ELSE IF name # NULL /\ NameTaken(name, DOMAIN users \ {id}) THEN "uniq_username"
  ELSE IF email # NULL /\ EmailTaken(email, DOMAIN users \ {id}) THEN "uniq_email"
  ELSE "none"

update_user_by_id_HashFirst(id, name, email, hash, bio) ==  \* mutant: two statements
  LET e == update_user_by_id_error(id, name, email)
      hashed == [users[id] EXCEPT !.password_hash = Coalesce(hash, @)]
  IN /\ users' = IF id \notin DOMAIN users THEN users
                 ELSE Put(users, id,
                          IF e # "none" THEN hashed
                          ELSE [hashed EXCEPT !.username = Coalesce(name, @),
                                              !.email = Coalesce(email, @),
                                              !.bio = Coalesce(bio, @)])
     /\ UNCHANGED <<articles, comments, tags, articleTags, favorites, followers,
                    userSeq, articleSeq, commentSeq>>

update_user_by_id(id, name, email, hash, bio) ==
  /\ users' =
       IF id \notin DOMAIN users \/ update_user_by_id_error(id, name, email) # "none"
       THEN users
       ELSE Put(users, id,
                [username |-> Coalesce(name, users[id].username),
                 email |-> Coalesce(email, users[id].email),
                 password_hash |-> Coalesce(hash, users[id].password_hash),
                 bio |-> Coalesce(bio, users[id].bio)])
  /\ UNCHANGED <<articles, comments, tags, articleTags, favorites, followers,
                 userSeq, articleSeq, commentSeq>>

get_user_by_email(email) == {i \in DOMAIN users : users[i].email = email}
get_user_by_username(name) ==
  {i \in DOMAIN users : CiFold[users[i].username] = CiFold[name]}
is_following(follower, followed) == <<follower, followed>> \in followers

(* The following flag of get_profile.  Its test _follower_id = NULL is      *)
(* never true, but nobody follows with the id NULL either.                  *)
Follows_Swapped(id, follower) == is_following(id, follower)  \* mutant
Follows(id, follower) == is_following(follower, id)

follow_error(follower, followed) ==
  IF <<follower, followed>> \in followers THEN "pk"
  ELSE IF {follower, followed} \subseteq DOMAIN users THEN "none"
  ELSE "fk"

follow(follower, followed) ==
  /\ followers' = IF follow_error(follower, followed) # "none" THEN followers
                  ELSE followers \cup {<<follower, followed>>}
  /\ UNCHANGED <<users, articles, comments, tags, articleTags, favorites,
                 userSeq, articleSeq, commentSeq>>

unfollow_Everyone(follower, followed) ==  \* mutant: no follower condition
  /\ followers' = {p \in followers : p[2] # followed}
  /\ UNCHANGED <<users, articles, comments, tags, articleTags, favorites,
                 userSeq, articleSeq, commentSeq>>

unfollow(follower, followed) ==
  /\ followers' = followers \ {<<follower, followed>>}
  /\ UNCHANGED <<users, articles, comments, tags, articleTags, favorites,
                 userSeq, articleSeq, commentSeq>>

-----------------------------------------------------------------------------
(* Articles and their tags.                                                 *)

SlugTaken_Never(slug, others) == FALSE      \* mutant: no uniq_slug
SlugTaken(slug, others) == \E i \in others : articles[i].slug = slug

add_new_article_error(slug, author) ==
  IF Exhausted(articleSeq) THEN "serial"
  ELSE IF TooLong(slug) THEN "too_long"
  ELSE IF SlugTaken(slug, DOMAIN articles) THEN "uniq_slug"
  ELSE IF author \notin DOMAIN users THEN "fk"
  ELSE "none"

(* One transaction: the article, the tags not known yet (ON CONFLICT DO     *)
(* NOTHING) and the pairs that join them.                                   *)
add_new_article(title, slug, text, author, tagList) ==
  /\ articleSeq' = nextval(articleSeq)
  /\ IF add_new_article_error(slug, author) # "none"
     THEN UNCHANGED <<articles, tags, articleTags>>
     ELSE /\ articles' = Put(articles, articleSeq + 1,
                             [title |-> title, slug |-> slug, text |-> text,
                              author |-> author])
          /\ tags' = tags \cup tagList
          /\ articleTags' = articleTags \cup ({articleSeq + 1} \X tagList)
  /\ UNCHANGED <<users, comments, favorites, followers, userSeq, commentSeq>>

(* The rows an author reaches through a slug: at most one, slugs are unique. *)
OwnedBySlug_AnyAuthor(slug, author) == get_article_id_by_slug(slug)  \* mutant
OwnedBySlug(slug, author) ==
  {i \in get_article_id_by_slug(slug) : articles[i].author = author}

update_article_by_slug_error(slug, author, newSlug) ==
  IF OwnedBySlug(slug, author) = {} THEN "none"
  ELSE IF TooLong(newSlug) THEN "too_long"
  ELSE IF newSlug # NULL
          /\ SlugTaken(newSlug, DOMAIN articles \ OwnedBySlug(slug, author))
       THEN "uniq_slug"
  ELSE "none"

update_article_by_slug(slug, author, title, newSlug, text) ==
  /\ articles' =
       IF update_article_by_slug_error(slug, author, newSlug) # "none"
       THEN articles
       ELSE [i \in DOMAIN articles |->
               IF i \notin OwnedBySlug(slug, author) THEN articles[i]
               ELSE [title |-> Coalesce(title, articles[i].title),
                     slug |-> Coalesce(newSlug, articles[i].slug),
                     text |-> Coalesce(text, articles[i].text),
                     author |-> articles[i].author]]
  /\ UNCHANGED <<users, comments, tags, articleTags, favorites, followers,
                 userSeq, articleSeq, commentSeq>>

CommentsOn(ids) == {c \in DOMAIN comments : comments[c].article \in ids}

(* Comments and tag pairs go with the article (ON DELETE CASCADE); a        *)
(* favorite has no cascade and holds the article back.                      *)
delete_article_by_slug_error(slug, author) ==
  IF \E i \in OwnedBySlug(slug, author), p \in favorites : p[2] = i
  THEN "fk" ELSE "none"

delete_article_by_slug_CommentsFirst(slug, author) ==  \* mutant: two transactions
  LET gone == OwnedBySlug(slug, author)
  IN /\ comments' = Drop(comments, CommentsOn(gone))
     /\ IF delete_article_by_slug_error(slug, author) # "none"
        THEN UNCHANGED <<articles, articleTags>>
        ELSE /\ articles' = Drop(articles, gone)
             /\ articleTags' = {p \in articleTags : p[1] \notin gone}
     /\ UNCHANGED <<users, tags, favorites, followers, userSeq, articleSeq, commentSeq>>

delete_article_by_slug(slug, author) ==
  /\ IF delete_article_by_slug_error(slug, author) # "none"
     THEN UNCHANGED <<articles, comments, articleTags>>
     ELSE LET gone == OwnedBySlug(slug, author) IN
          /\ articles' = Drop(articles, gone)
          /\ comments' = Drop(comments, CommentsOn(gone))
          /\ articleTags' = {p \in articleTags : p[1] \notin gone}
  /\ UNCHANGED <<users, tags, favorites, followers, userSeq, articleSeq, commentSeq>>

is_favorited_article_Anyone(article, user) == \E p \in favorites : p[2] = article  \* mutant
is_favorited_article(article, user) == <<user, article>> \in favorites
FavoritesCount_Swapped(article) == Cardinality({p \in favorites : p[1] = article})  \* mutant
FavoritesCount(article) == Cardinality({p \in favorites : p[2] = article})
get_article_tag_list_Any(article) == {p[2] : p \in articleTags}  \* mutant: any article's
get_article_tag_list(article) == {p[2] : p \in {q \in articleTags : q[1] = article}}

-----------------------------------------------------------------------------
(* Favorites and comments: both find the article by its slug once more.     *)

favorite_article_error(slug, user) ==
  IF ArticleIdOf(slug) = NULL THEN "notnull"
  ELSE IF <<user, ArticleIdOf(slug)>> \in favorites THEN "pk"
  ELSE IF user \notin DOMAIN users THEN "fk"
  ELSE "none"

favorite_article(slug, user) ==
  /\ favorites' = IF favorite_article_error(slug, user) # "none" THEN favorites
                  ELSE favorites \cup {<<user, ArticleIdOf(slug)>>}
  /\ UNCHANGED <<users, articles, comments, tags, articleTags, followers,
                 userSeq, articleSeq, commentSeq>>

unfavorite_article_Everyone(slug, user) ==  \* mutant: no user condition
  /\ favorites' = {p \in favorites : p[2] \notin get_article_id_by_slug(slug)}
  /\ UNCHANGED <<users, articles, comments, tags, articleTags, followers,
                 userSeq, articleSeq, commentSeq>>

unfavorite_article(slug, user) ==
  /\ favorites' = favorites \ {<<user, i>> : i \in get_article_id_by_slug(slug)}
  /\ UNCHANGED <<users, articles, comments, tags, articleTags, followers,
                 userSeq, articleSeq, commentSeq>>

add_comment_to_article_error(slug, user) ==
  IF Exhausted(commentSeq) THEN "serial"
  ELSE IF ArticleIdOf(slug) = NULL THEN "notnull"
  ELSE IF user \notin DOMAIN users THEN "fk"
  ELSE "none"

add_comment_to_article(slug, body, user) ==
  /\ commentSeq' = nextval(commentSeq)
  /\ comments' = IF add_comment_to_article_error(slug, user) # "none" THEN comments
                 ELSE Put(comments, commentSeq + 1,
                          [author |-> user, article |-> ArticleIdOf(slug),
                           body |-> body])
  /\ UNCHANGED <<users, articles, tags, articleTags, favorites, followers,
                 userSeq, articleSeq>>

CommentsMatching_AnyAuthor(id, slug, user) ==  \* mutant: no author condition
  {c \in DOMAIN comments : c = id /\ comments[c].article \in get_article_id_by_slug(slug)}
CommentsMatching(id, slug, user) ==
  {c \in DOMAIN comments : /\ c = id
                           /\ comments[c].author = user
                           /\ comments[c].article \in get_article_id_by_slug(slug)}
is_comment_exist(id, slug, user) == CommentsMatching(id, slug, user) # {}

delete_comment_ByArticleAuthor(id, slug, user) ==  \* mutant: the wrong author_id
  /\ comments' = Drop(comments, {c \in DOMAIN comments :
                                   c = id /\ comments[c].article \in OwnedBySlug(slug, user)})
  /\ UNCHANGED <<users, articles, tags, articleTags, favorites, followers,
                 userSeq, articleSeq, commentSeq>>

delete_comment(id, slug, user) ==
  /\ comments' = Drop(comments, CommentsMatching(id, slug, user))
  /\ UNCHANGED <<users, articles, tags, articleTags, favorites, followers,
                 userSeq, articleSeq, commentSeq>>

-----------------------------------------------------------------------------
(* Any caller, with any arguments a caller can pass.                        *)

DbNext ==
  \/ \E n \in UserNames, e \in Emails \cup {Oversized}, h \in Hashes :
       add_new_user(n, e, h)
  \/ \E u \in Serials, n \in Opt(UserNames), e \in Opt(Emails \cup {Oversized}),
        h \in Opt(Hashes), b \in Opt(Bios) : update_user_by_id(u, n, e, h, b)
  \/ \E u, v \in Serials : follow(u, v) \/ unfollow(u, v)
  \/ \E u \in Serials, t \in Titles, s \in Slugs \cup {Oversized}, x \in Texts,
        g \in SUBSET TagNames : add_new_article(t, s, x, u, g)
  \/ \E u \in Serials, s \in Slugs, t \in Opt(Titles),
        n \in Opt(Slugs \cup {Oversized}), x \in Opt(Texts) :
       update_article_by_slug(s, u, t, n, x)
  \/ \E u \in Serials, s \in Slugs :
       \/ delete_article_by_slug(s, u)
       \/ favorite_article(s, u)
       \/ unfavorite_article(s, u)
       \/ \E b \in Texts : add_comment_to_article(s, b, u)
       \/ \E c \in Serials : delete_comment(c, s, u)

DbSpec == DbInit /\ [][DbNext]_dbVars

-----------------------------------------------------------------------------
(* What the schema's constraints promise.                                   *)

(* Every id in use was drawn from its sequence.                             *)
SerialsDrawn ==
  /\ userSeq \in 0..MaxSerial /\ DOMAIN users \subseteq 1..userSeq
  /\ articleSeq \in 0..MaxSerial /\ DOMAIN articles \subseteq 1..articleSeq
  /\ commentSeq \in 0..MaxSerial /\ DOMAIN comments \subseteq 1..commentSeq

(* Rows have the columns of their tables.                                   *)
DbTypeOK ==
  /\ SerialsDrawn
  /\ users \in [DOMAIN users -> UserRow]
  /\ articles \in [DOMAIN articles -> ArticleRow]
  /\ comments \in [DOMAIN comments -> CommentRow]
  /\ tags \subseteq TagNames /\ articleTags \subseteq Serials \X TagNames
  /\ favorites \subseteq Serials \X Serials /\ followers \subseteq Serials \X Serials

UniqueSlugs ==
  \A i, j \in DOMAIN articles : articles[i].slug = articles[j].slug => i = j

NoDanglingReference ==
  /\ \A i \in DOMAIN articles : articles[i].author \in DOMAIN users
  /\ \A c \in DOMAIN comments : /\ comments[c].author \in DOMAIN users
                                /\ comments[c].article \in DOMAIN articles
  /\ \A p \in articleTags : p[1] \in DOMAIN articles /\ p[2] \in tags
  /\ \A p \in favorites : p[1] \in DOMAIN users /\ p[2] \in DOMAIN articles
  /\ \A p \in followers : p[1] \in DOMAIN users /\ p[2] \in DOMAIN users

(* Whatever sequence of stored functions the handlers call, no two rows     *)
(* share a user name (up to case), an e-mail or a slug, and no row refers   *)
(* to one that is gone (the constraints of db_1.sql and their cascades).    *)
Integrity ==
  /\ UniqueUserNames(users) /\ UniqueEmails(users)
  /\ UniqueSlugs
  /\ NoDanglingReference
=============================================================================
