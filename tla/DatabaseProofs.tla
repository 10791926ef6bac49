--------------------------- MODULE DatabaseProofs ---------------------------
(***************************************************************************)
(* Every stored function preserves the schema's integrity, whatever its    *)
(* arguments.  The invariant is Integrity with SerialsDrawn: without it a  *)
(* new row could take the id of an old one.                                *)
(***************************************************************************)
EXTENDS Database, TLAPS

IntegrityInv == SerialsDrawn /\ Integrity

USE MaxSerialAssumption

-----------------------------------------------------------------------------
(* Lemmas about rows, serials and lookups.                                  *)

(* A drawn serial is no id in use, and the sequence stays within bounds.    *)
LEMMA FreshSerial ==
  ASSUME NEW seq \in 0..MaxSerial, NEW ids \in SUBSET (1..seq), ~Exhausted(seq)
  PROVE  /\ nextval(seq) = seq + 1
         /\ nextval(seq) \in 0..MaxSerial
         /\ seq + 1 \notin ids
         /\ ids \cup {seq + 1} \subseteq 1..nextval(seq)
  BY DEF Exhausted, nextval

LEMMA SequenceGrows ==
  ASSUME NEW seq \in 0..MaxSerial, NEW ids \in SUBSET (1..seq)
  PROVE  nextval(seq) \in 0..MaxSerial /\ ids \subseteq 1..nextval(seq)
  BY DEF nextval

LEMMA DropRows ==
  ASSUME NEW t, NEW ids
  PROVE  /\ DOMAIN Drop(t, ids) = DOMAIN t \ ids
         /\ \A i \in DOMAIN t \ ids : Drop(t, ids)[i] = t[i]
  BY DEF Drop

(* The scalar subquery finds a row of the slug, or NULL.                    *)
LEMMA SlugLookup ==
  ASSUME NEW slug, ArticleIdOf(slug) # NULL
  PROVE  /\ ArticleIdOf(slug) \in DOMAIN articles
         /\ articles[ArticleIdOf(slug)].slug = slug
  BY DEF ArticleIdOf, get_article_id_by_slug

-----------------------------------------------------------------------------
(* Users and followers.                                                     *)

LEMMA AddNewUser ==
  ASSUME IntegrityInv, NEW name, NEW email, NEW hash, add_new_user(name, email, hash)
  PROVE  IntegrityInv'
<1> USE DEF IntegrityInv, SerialsDrawn, Integrity
<1>1. CASE add_new_user_error(name, email) # "none"
  BY <1>1, SequenceGrows
     DEF add_new_user, UniqueUserNames, UniqueEmails, UniqueSlugs, NoDanglingReference
<1>2. CASE add_new_user_error(name, email) = "none"
  <2> DEFINE new == userSeq + 1
             row == [username |-> name, email |-> email, password_hash |-> hash,
                     bio |-> NULL]
  <2>1. /\ ~Exhausted(userSeq)
        /\ ~NameTaken(name, DOMAIN users) /\ ~EmailTaken(email, DOMAIN users)
    BY <1>2 DEF add_new_user_error
  <2>2. users' = Put(users, new, row)
    BY <1>2 DEF add_new_user
  <2>3. /\ DOMAIN users' = DOMAIN users \cup {new}
        /\ users'[new] = row
        /\ \A i \in DOMAIN users : i # new => users'[i] = users[i]
    <3> HIDE DEF new, row
    <3> QED BY <2>2 DEF Put
  <2>4. new \notin DOMAIN users /\ SerialsDrawn'
    BY <2>1, <2>3, FreshSerial DEF add_new_user
  <2>5. UniqueUserNames(users)'
    BY <2>1, <2>3, <2>4 DEF UniqueUserNames, NameTaken
  <2>6. UniqueEmails(users)'
    BY <2>1, <2>3, <2>4 DEF UniqueEmails, EmailTaken
  <2>7. UniqueSlugs' /\ NoDanglingReference'
    BY <2>3 DEF add_new_user, UniqueSlugs, NoDanglingReference
  <2> QED BY <2>4, <2>5, <2>6, <2>7
<1> QED BY <1>1, <1>2

(* A new value that is not taken, or the old one, keeps the column unique.  *)
LEMMA UpdateUserById ==
  ASSUME IntegrityInv, NEW id, NEW name, NEW email, NEW hash, NEW bio,
         update_user_by_id(id, name, email, hash, bio)
  PROVE  IntegrityInv'
<1> USE DEF IntegrityInv, SerialsDrawn, Integrity
<1>1. CASE users' = users
  BY <1>1 DEF update_user_by_id, UniqueUserNames, UniqueEmails, UniqueSlugs,
              NoDanglingReference
<1>2. CASE users' # users
  <2> DEFINE row == [username |-> Coalesce(name, users[id].username),
                     email |-> Coalesce(email, users[id].email),
                     password_hash |-> Coalesce(hash, users[id].password_hash),
                     bio |-> Coalesce(bio, users[id].bio)]
  <2>1. /\ id \in DOMAIN users
        /\ update_user_by_id_error(id, name, email) = "none"
        /\ users' = Put(users, id, row)
    BY <1>2 DEF update_user_by_id
  <2>2. /\ name # NULL => ~NameTaken(name, DOMAIN users \ {id})
        /\ email # NULL => ~EmailTaken(email, DOMAIN users \ {id})
    BY <2>1 DEF update_user_by_id_error
  <2>3. /\ DOMAIN users' = DOMAIN users \cup {id}
        /\ users'[id] = row
        /\ \A i \in DOMAIN users : i # id => users'[i] = users[i]
    <3> HIDE DEF row
    <3> QED BY <2>1 DEF Put
  <2>4. /\ DOMAIN users' = DOMAIN users
        /\ users'[id].username = Coalesce(name, users[id].username)
        /\ users'[id].email = Coalesce(email, users[id].email)
    BY <2>1, <2>3
  <2>5. UniqueUserNames(users)'
    BY <2>1, <2>2, <2>3, <2>4 DEF UniqueUserNames, NameTaken, Coalesce
  <2>6. UniqueEmails(users)'
    BY <2>1, <2>2, <2>3, <2>4 DEF UniqueEmails, EmailTaken, Coalesce
  <2>7. SerialsDrawn' /\ UniqueSlugs' /\ NoDanglingReference'
    BY <2>4 DEF update_user_by_id, UniqueSlugs, NoDanglingReference
  <2> QED BY <2>5, <2>6, <2>7
<1> QED BY <1>1, <1>2

LEMMA Follow ==
  ASSUME IntegrityInv, NEW follower, NEW followed, follow(follower, followed)
  PROVE  IntegrityInv'
<1>1. \/ followers' = followers
      \/ /\ followers' = followers \cup {<<follower, followed>>}
         /\ {follower, followed} \subseteq DOMAIN users
  BY DEF follow, follow_error
<1> QED BY <1>1 DEF follow, IntegrityInv, SerialsDrawn, Integrity, UniqueUserNames,
                    UniqueEmails, UniqueSlugs, NoDanglingReference

LEMMA Unfollow ==
  ASSUME IntegrityInv, NEW follower, NEW followed, unfollow(follower, followed)
  PROVE  IntegrityInv'
  BY DEF unfollow, IntegrityInv, SerialsDrawn, Integrity, UniqueUserNames,
         UniqueEmails, UniqueSlugs, NoDanglingReference

-----------------------------------------------------------------------------
(* Articles.                                                                *)

LEMMA AddNewArticle ==
  ASSUME IntegrityInv, NEW title, NEW slug, NEW text, NEW author, NEW tagList,
         add_new_article(title, slug, text, author, tagList)
  PROVE  IntegrityInv'
<1> USE DEF IntegrityInv, SerialsDrawn, Integrity
<1>1. CASE add_new_article_error(slug, author) # "none"
  BY <1>1, SequenceGrows
     DEF add_new_article, UniqueUserNames, UniqueEmails, UniqueSlugs, NoDanglingReference
<1>2. CASE add_new_article_error(slug, author) = "none"
  <2> DEFINE new == articleSeq + 1
             row == [title |-> title, slug |-> slug, text |-> text, author |-> author]
  <2>1. /\ ~Exhausted(articleSeq)
        /\ ~SlugTaken(slug, DOMAIN articles) /\ author \in DOMAIN users
    BY <1>2 DEF add_new_article_error
  <2>2. articles' = Put(articles, new, row)
    BY <1>2 DEF add_new_article
  <2>3. /\ DOMAIN articles' = DOMAIN articles \cup {new}
        /\ articles'[new] = row
        /\ \A i \in DOMAIN articles : i # new => articles'[i] = articles[i]
    <3> HIDE DEF new, row
    <3> QED BY <2>2 DEF Put
  <2>4. new \notin DOMAIN articles /\ SerialsDrawn'
    BY <2>1, <2>3, FreshSerial DEF add_new_article
  <2>5. UniqueSlugs'
    BY <2>1, <2>3, <2>4 DEF UniqueSlugs, SlugTaken
  <2>6. /\ users' = users /\ comments' = comments
        /\ favorites' = favorites /\ followers' = followers
        /\ tags' = tags \cup tagList
        /\ articleTags' = articleTags \cup ({new} \X tagList)
    BY <1>2 DEF add_new_article
  <2>7. \A p \in articleTags' : p[1] \in DOMAIN articles' /\ p[2] \in tags'
    BY <2>3, <2>6 DEF NoDanglingReference
  <2>8. NoDanglingReference'
    BY <2>1, <2>3, <2>6, <2>7 DEF NoDanglingReference
  <2>9. UniqueUserNames(users)' /\ UniqueEmails(users)'
    BY <2>6 DEF UniqueUserNames, UniqueEmails
  <2> QED BY <2>4, <2>5, <2>8, <2>9
<1> QED BY <1>1, <1>2

(* At most one row has the old slug, so at most one takes the new one.      *)
LEMMA UpdateArticleBySlug ==
  ASSUME IntegrityInv, NEW slug, NEW author, NEW title, NEW newSlug, NEW text,
         update_article_by_slug(slug, author, title, newSlug, text)
  PROVE  IntegrityInv'
<1> USE DEF IntegrityInv, SerialsDrawn, Integrity
<1> DEFINE rows == OwnedBySlug(slug, author)
<1>1. CASE articles' = articles
  BY <1>1 DEF update_article_by_slug, UniqueUserNames, UniqueEmails, UniqueSlugs,
              NoDanglingReference
<1>2. CASE articles' # articles
  <2>1. /\ update_article_by_slug_error(slug, author, newSlug) = "none"
        /\ DOMAIN articles' = DOMAIN articles
        /\ \A i \in DOMAIN articles \ rows : articles'[i] = articles[i]
        /\ \A i \in DOMAIN articles \cap rows :
             /\ articles'[i].slug = Coalesce(newSlug, articles[i].slug)
             /\ articles'[i].author = articles[i].author
    BY <1>2 DEF update_article_by_slug
  <2>2. \A i, j \in rows : i = j
    BY DEF OwnedBySlug, get_article_id_by_slug, UniqueSlugs
  <2>3. CASE rows = {}
    BY <2>1, <2>3 DEF update_article_by_slug, UniqueUserNames, UniqueEmails,
                      UniqueSlugs, NoDanglingReference
  <2>4. CASE rows # {}
    <3>1. newSlug # NULL => ~SlugTaken(newSlug, DOMAIN articles \ rows)
      BY <2>1, <2>4 DEF update_article_by_slug_error
    <3>2. UniqueSlugs'
      BY <2>1, <2>2, <3>1 DEF UniqueSlugs, SlugTaken, Coalesce
    <3>3. /\ SerialsDrawn' /\ NoDanglingReference'
          /\ UniqueUserNames(users)' /\ UniqueEmails(users)'
      BY <2>1 DEF update_article_by_slug, NoDanglingReference, UniqueUserNames,
                  UniqueEmails
    <3> QED BY <3>2, <3>3
  <2> QED BY <2>3, <2>4
<1> QED BY <1>1, <1>2

(* The cascade removes what refers to the article; a favorite refuses.      *)
LEMMA DeleteArticleBySlug ==
  ASSUME IntegrityInv, NEW slug, NEW author, delete_article_by_slug(slug, author)
  PROVE  IntegrityInv'
<1> USE DEF IntegrityInv, SerialsDrawn, Integrity
<1> DEFINE gone == OwnedBySlug(slug, author)
           lost == CommentsOn(gone)
<1>1. CASE delete_article_by_slug_error(slug, author) # "none"
  BY <1>1 DEF delete_article_by_slug, UniqueUserNames, UniqueEmails, UniqueSlugs,
              NoDanglingReference
<1>2. CASE delete_article_by_slug_error(slug, author) = "none"
  <2>1. \A p \in favorites : p[2] \notin gone
    BY <1>2 DEF delete_article_by_slug_error
  <2>2. /\ articles' = Drop(articles, gone) /\ comments' = Drop(comments, lost)
        /\ articleTags' = {p \in articleTags : p[1] \notin gone}
        /\ UNCHANGED <<users, tags, favorites, followers, userSeq, articleSeq, commentSeq>>
    BY <1>2 DEF delete_article_by_slug
  <2>3. /\ DOMAIN articles' = DOMAIN articles \ gone
        /\ \A i \in DOMAIN articles \ gone : articles'[i] = articles[i]
    BY <2>2, DropRows, Zenon
  <2>4. /\ DOMAIN comments' = DOMAIN comments \ lost
        /\ \A c \in DOMAIN comments \ lost : comments'[c] = comments[c]
    BY <2>2, DropRows, Zenon
  <2>5. UniqueSlugs'
    BY <2>3 DEF UniqueSlugs
  <2>6. NoDanglingReference'
    BY <2>1, <2>2, <2>3, <2>4 DEF NoDanglingReference, CommentsOn
  <2>7. SerialsDrawn' /\ UniqueUserNames(users)' /\ UniqueEmails(users)'
    BY <2>2, <2>3, <2>4 DEF UniqueUserNames, UniqueEmails
  <2> QED BY <2>5, <2>6, <2>7
<1> QED BY <1>1, <1>2

-----------------------------------------------------------------------------
(* Favorites and comments.                                                  *)

LEMMA FavoriteArticle ==
  ASSUME IntegrityInv, NEW slug, NEW user, favorite_article(slug, user)
  PROVE  IntegrityInv'
<1>1. \/ favorites' = favorites
      \/ /\ favorites' = favorites \cup {<<user, ArticleIdOf(slug)>>}
         /\ user \in DOMAIN users /\ ArticleIdOf(slug) \in DOMAIN articles
  BY SlugLookup DEF favorite_article, favorite_article_error
<1> QED BY <1>1 DEF favorite_article, IntegrityInv, SerialsDrawn, Integrity,
                    UniqueUserNames, UniqueEmails, UniqueSlugs, NoDanglingReference

LEMMA UnfavoriteArticle ==
  ASSUME IntegrityInv, NEW slug, NEW user, unfavorite_article(slug, user)
  PROVE  IntegrityInv'
  BY DEF unfavorite_article, IntegrityInv, SerialsDrawn, Integrity, UniqueUserNames,
         UniqueEmails, UniqueSlugs, NoDanglingReference

LEMMA AddCommentToArticle ==
  ASSUME IntegrityInv, NEW slug, NEW body, NEW user,
         add_comment_to_article(slug, body, user)
  PROVE  IntegrityInv'
<1> USE DEF IntegrityInv, SerialsDrawn, Integrity
<1>1. CASE add_comment_to_article_error(slug, user) # "none"
  BY <1>1, SequenceGrows
     DEF add_comment_to_article, UniqueUserNames, UniqueEmails, UniqueSlugs,
         NoDanglingReference
<1>2. CASE add_comment_to_article_error(slug, user) = "none"
  <2> DEFINE new == commentSeq + 1
             row == [author |-> user, article |-> ArticleIdOf(slug), body |-> body]
  <2>1. /\ ~Exhausted(commentSeq) /\ user \in DOMAIN users
        /\ ArticleIdOf(slug) \in DOMAIN articles
    BY <1>2, SlugLookup DEF add_comment_to_article_error
  <2>2. comments' = Put(comments, new, row)
    BY <1>2 DEF add_comment_to_article
  <2>3. /\ DOMAIN comments' = DOMAIN comments \cup {new}
        /\ comments'[new] = row
        /\ \A c \in DOMAIN comments : c # new => comments'[c] = comments[c]
    <3> HIDE DEF new, row
    <3> QED BY <2>2 DEF Put
  <2>4. new \notin DOMAIN comments /\ SerialsDrawn'
    BY <2>1, <2>3, FreshSerial DEF add_comment_to_article
  <2>5. NoDanglingReference'
    BY <2>1, <2>3, <2>4 DEF add_comment_to_article, NoDanglingReference
  <2>6. UniqueUserNames(users)' /\ UniqueEmails(users)' /\ UniqueSlugs'
    BY DEF add_comment_to_article, UniqueUserNames, UniqueEmails, UniqueSlugs
  <2> QED BY <2>4, <2>5, <2>6
<1> QED BY <1>1, <1>2

LEMMA DeleteComment ==
  ASSUME IntegrityInv, NEW id, NEW slug, NEW user, delete_comment(id, slug, user)
  PROVE  IntegrityInv'
<1> DEFINE lost == CommentsMatching(id, slug, user)
<1>1. /\ DOMAIN comments' = DOMAIN comments \ lost
      /\ \A c \in DOMAIN comments \ lost : comments'[c] = comments[c]
  BY DropRows, Zenon DEF delete_comment
<1> QED BY <1>1 DEF delete_comment, IntegrityInv, SerialsDrawn, Integrity,
                    UniqueUserNames, UniqueEmails, UniqueSlugs, NoDanglingReference

-----------------------------------------------------------------------------
LEMMA InitIntegrity == DbInit => IntegrityInv
<1> SUFFICES ASSUME DbInit PROVE IntegrityInv
  OBVIOUS
<1>1. UniqueUserNames(users) /\ UniqueEmails(users)
  BY SeedAssumption DEF DbInit
<1>2. SerialsDrawn /\ UniqueSlugs /\ NoDanglingReference
  BY DEF DbInit, SerialsDrawn, UniqueSlugs, NoDanglingReference
<1> QED BY <1>1, <1>2 DEF IntegrityInv, Integrity

LEMMA StutterIntegrity ==
  ASSUME IntegrityInv, UNCHANGED dbVars
  PROVE  IntegrityInv'
  BY DEF dbVars, IntegrityInv, SerialsDrawn, Integrity, UniqueUserNames, UniqueEmails,
         UniqueSlugs, NoDanglingReference

LEMMA StepIntegrity ==
  ASSUME IntegrityInv, DbNext
  PROVE  IntegrityInv'
<1>1. CASE \E n \in UserNames, e \in Emails \cup {Oversized}, h \in Hashes :
             add_new_user(n, e, h)
  BY <1>1, AddNewUser
<1>2. CASE \E u \in Serials, n \in Opt(UserNames), e \in Opt(Emails \cup {Oversized}),
              h \in Opt(Hashes), b \in Opt(Bios) : update_user_by_id(u, n, e, h, b)
  BY <1>2, UpdateUserById
<1>3. CASE \E u, v \in Serials : follow(u, v) \/ unfollow(u, v)
  BY <1>3, Follow, Unfollow
<1>4. CASE \E u \in Serials, t \in Titles, s \in Slugs \cup {Oversized}, x \in Texts,
              g \in SUBSET TagNames : add_new_article(t, s, x, u, g)
  BY <1>4, AddNewArticle
<1>5. CASE \E u \in Serials, s \in Slugs, t \in Opt(Titles),
              n \in Opt(Slugs \cup {Oversized}), x \in Opt(Texts) :
             update_article_by_slug(s, u, t, n, x)
  BY <1>5, UpdateArticleBySlug
<1>6. CASE \E u \in Serials, s \in Slugs :
             \/ delete_article_by_slug(s, u)
             \/ favorite_article(s, u)
             \/ unfavorite_article(s, u)
             \/ \E b \in Texts : add_comment_to_article(s, b, u)
             \/ \E c \in Serials : delete_comment(c, s, u)
  BY <1>6, DeleteArticleBySlug, FavoriteArticle, UnfavoriteArticle,
     AddCommentToArticle, DeleteComment
<1> QED BY <1>1, <1>2, <1>3, <1>4, <1>5, <1>6 DEF DbNext

(* Whatever a caller passes to the stored functions, in any order, the      *)
(* constraints of db_1.sql hold in every state.                             *)
THEOREM DatabaseIntegrity == DbSpec => []Integrity
<1>1. IntegrityInv /\ [DbNext]_dbVars => IntegrityInv'
  BY StepIntegrity, StutterIntegrity
<1>2. IntegrityInv => Integrity
  BY DEF IntegrityInv
<1> QED BY InitIntegrity, <1>1, <1>2, PTL DEF DbSpec

-----------------------------------------------------------------------------
(* Types.  A row written has the columns of its table, because the error    *)
(* checks refuse a value that does not fit.                                 *)

LEMMA PutTyped ==
  ASSUME NEW S, NEW row \in S, NEW id, NEW t, t \in [DOMAIN t -> S]
  PROVE  Put(t, id, row) \in [DOMAIN Put(t, id, row) -> S]
  BY DEF Put

LEMMA DropTyped ==
  ASSUME NEW S, NEW ids, NEW t, t \in [DOMAIN t -> S]
  PROVE  Drop(t, ids) \in [DOMAIN Drop(t, ids) -> S]
  BY DEF Drop

LEMMA CoalesceTyped ==
  ASSUME NEW S, NEW new \in Opt(S), NEW old \in S
  PROVE  Coalesce(new, old) \in S
  BY DEF Coalesce, Opt

(* What is left to show once the serials are known to be drawn.             *)
RowsTyped ==
  /\ users \in [DOMAIN users -> UserRow]
  /\ articles \in [DOMAIN articles -> ArticleRow]
  /\ comments \in [DOMAIN comments -> CommentRow]
  /\ tags \subseteq TagNames /\ articleTags \subseteq Serials \X TagNames
  /\ favorites \subseteq Serials \X Serials /\ followers \subseteq Serials \X Serials

LEMMA UserRowsTyped ==
  ASSUME RowsTyped, SerialsDrawn,
         \/ \E n \in UserNames, e \in Emails \cup {Oversized}, h \in Hashes :
              add_new_user(n, e, h)
         \/ \E u \in Serials, n \in Opt(UserNames), e \in Opt(Emails \cup {Oversized}),
               h \in Opt(Hashes), b \in Opt(Bios) : update_user_by_id(u, n, e, h, b)
         \/ \E u, v \in Serials : follow(u, v) \/ unfollow(u, v)
  PROVE  RowsTyped'
<1>1. ASSUME NEW n \in UserNames, NEW e \in Emails \cup {Oversized}, NEW h \in Hashes,
             add_new_user(n, e, h)
      PROVE  RowsTyped'
  <2>1. CASE add_new_user_error(n, e) # "none"
    BY <1>1, <2>1 DEF add_new_user, RowsTyped
  <2>2. CASE add_new_user_error(n, e) = "none"
    <3> DEFINE row == [username |-> n, email |-> e, password_hash |-> h, bio |-> NULL]
    <3>1. e \in Emails
      BY <2>2 DEF add_new_user_error, TooLong
    <3>2. row \in UserRow
      BY <3>1 DEF UserRow
    <3>3. users' = Put(users, userSeq + 1, row)
      BY <1>1, <2>2 DEF add_new_user
    <3>4. users' \in [DOMAIN users' -> UserRow]
      <4> HIDE DEF row
      <4> QED BY <3>2, <3>3, PutTyped DEF RowsTyped
    <3> QED BY <1>1, <3>4 DEF add_new_user, RowsTyped
  <2> QED BY <2>1, <2>2
<1>2. ASSUME NEW u \in Serials, NEW n \in Opt(UserNames),
             NEW e \in Opt(Emails \cup {Oversized}), NEW h \in Opt(Hashes),
             NEW b \in Opt(Bios), update_user_by_id(u, n, e, h, b)
      PROVE  RowsTyped'
  <2>1. CASE users' = users
    BY <1>2, <2>1 DEF update_user_by_id, RowsTyped
  <2>2. CASE users' # users
    <3> DEFINE row == [username |-> Coalesce(n, users[u].username),
                       email |-> Coalesce(e, users[u].email),
                       password_hash |-> Coalesce(h, users[u].password_hash),
                       bio |-> Coalesce(b, users[u].bio)]
    <3>1. /\ u \in DOMAIN users /\ update_user_by_id_error(u, n, e) = "none"
          /\ users' = Put(users, u, row)
      BY <1>2, <2>2 DEF update_user_by_id
    <3>2. users[u] \in UserRow
      BY <3>1 DEF RowsTyped
    <3>3. e \in Opt(Emails)
      BY <3>1 DEF update_user_by_id_error, TooLong, Opt
    <3>4. b \in Opt(Bios \cup {NULL})
      BY DEF Opt
    <3>5. /\ Coalesce(n, users[u].username) \in UserNames
          /\ Coalesce(e, users[u].email) \in Emails
          /\ Coalesce(h, users[u].password_hash) \in Hashes
          /\ Coalesce(b, users[u].bio) \in Bios \cup {NULL}
      BY <3>2, <3>3, <3>4, CoalesceTyped DEF UserRow
    <3>6. row \in UserRow
      BY <3>5 DEF UserRow
    <3>7. users' \in [DOMAIN users' -> UserRow]
      <4> HIDE DEF row
      <4> QED BY <3>1, <3>6, PutTyped DEF RowsTyped
    <3> QED BY <1>2, <3>7 DEF update_user_by_id, RowsTyped
  <2> QED BY <2>1, <2>2
<1>3. ASSUME NEW u \in Serials, NEW v \in Serials, follow(u, v) \/ unfollow(u, v)
      PROVE  RowsTyped'
  BY <1>3 DEF follow, unfollow, RowsTyped
<1> QED BY <1>1, <1>2, <1>3

LEMMA ArticleRowsTyped ==
  ASSUME RowsTyped, SerialsDrawn,
         \/ \E u \in Serials, t \in Titles, s \in Slugs \cup {Oversized}, x \in Texts,
               g \in SUBSET TagNames : add_new_article(t, s, x, u, g)
         \/ \E u \in Serials, s \in Slugs, t \in Opt(Titles),
               n \in Opt(Slugs \cup {Oversized}), x \in Opt(Texts) :
              update_article_by_slug(s, u, t, n, x)
         \/ \E u \in Serials, s \in Slugs : delete_article_by_slug(s, u)
  PROVE  RowsTyped'
<1>1. ASSUME NEW u \in Serials, NEW t \in Titles, NEW s \in Slugs \cup {Oversized},
             NEW x \in Texts, NEW g \in SUBSET TagNames, add_new_article(t, s, x, u, g)
      PROVE  RowsTyped'
  <2>1. CASE add_new_article_error(s, u) # "none"
    BY <1>1, <2>1 DEF add_new_article, RowsTyped
  <2>2. CASE add_new_article_error(s, u) = "none"
    <3> DEFINE row == [title |-> t, slug |-> s, text |-> x, author |-> u]
    <3>1. s \in Slugs /\ articleSeq + 1 \in Serials
      BY <2>2 DEF add_new_article_error, TooLong, Exhausted, SerialsDrawn, Serials
    <3>2. row \in ArticleRow
      BY <3>1 DEF ArticleRow, Serials
    <3>3. articles' = Put(articles, articleSeq + 1, row)
      BY <1>1, <2>2 DEF add_new_article
    <3>4. articles' \in [DOMAIN articles' -> ArticleRow]
      <4> HIDE DEF row
      <4> QED BY <3>2, <3>3, PutTyped DEF RowsTyped
    <3>5. articleTags' \subseteq Serials \X TagNames
      BY <1>1, <2>2, <3>1 DEF add_new_article, RowsTyped
    <3> QED BY <1>1, <2>2, <3>4, <3>5 DEF add_new_article, RowsTyped
  <2> QED BY <2>1, <2>2
<1>2. ASSUME NEW u \in Serials, NEW s \in Slugs, NEW t \in Opt(Titles),
             NEW n \in Opt(Slugs \cup {Oversized}), NEW x \in Opt(Texts),
             update_article_by_slug(s, u, t, n, x)
      PROVE  RowsTyped'
  <2>1. CASE articles' = articles
    BY <1>2, <2>1 DEF update_article_by_slug, RowsTyped
  <2>2. CASE articles' # articles
    <3> DEFINE rows == OwnedBySlug(s, u)
               row(i) == [title |-> Coalesce(t, articles[i].title),
                          slug |-> Coalesce(n, articles[i].slug),
                          text |-> Coalesce(x, articles[i].text),
                          author |-> articles[i].author]
    <3>1. /\ update_article_by_slug_error(s, u, n) = "none"
          /\ articles' = [i \in DOMAIN articles |->
                            IF i \notin rows THEN articles[i] ELSE row(i)]
      BY <1>2, <2>2 DEF update_article_by_slug
    <3>2. ASSUME NEW i \in DOMAIN articles, i \in rows
          PROVE  row(i) \in ArticleRow
      <4>1. n \in Opt(Slugs)
        BY <3>1, <3>2 DEF update_article_by_slug_error, TooLong, Opt
      <4>2. articles[i] \in ArticleRow
        BY <3>2 DEF RowsTyped
      <4>3. /\ Coalesce(t, articles[i].title) \in Titles
            /\ Coalesce(n, articles[i].slug) \in Slugs
            /\ Coalesce(x, articles[i].text) \in Texts
        BY <4>1, <4>2, CoalesceTyped DEF ArticleRow
      <4> QED BY <4>2, <4>3 DEF ArticleRow
    <3>3. \A i \in DOMAIN articles : articles[i] \in ArticleRow
      BY DEF RowsTyped
    <3>4. articles' \in [DOMAIN articles' -> ArticleRow]
      <4> HIDE DEF rows, row
      <4> QED BY <3>1, <3>2, <3>3
    <3> QED BY <1>2, <3>4 DEF update_article_by_slug, RowsTyped
  <2> QED BY <2>1, <2>2
<1>3. ASSUME NEW u \in Serials, NEW s \in Slugs, delete_article_by_slug(s, u)
      PROVE  RowsTyped'
  <2>1. /\ articles' = articles \/ articles' = Drop(articles, OwnedBySlug(s, u))
        /\ \/ comments' = comments
           \/ \E ids : comments' = Drop(comments, ids)
        /\ articleTags' \subseteq articleTags
    BY <1>3 DEF delete_article_by_slug
  <2>2. articles' \in [DOMAIN articles' -> ArticleRow]
    BY <2>1, DropTyped DEF RowsTyped
  <2>3. comments' \in [DOMAIN comments' -> CommentRow]
    BY <2>1, DropTyped DEF RowsTyped
  <2> QED BY <1>3, <2>1, <2>2, <2>3 DEF delete_article_by_slug, RowsTyped
<1> QED BY <1>1, <1>2, <1>3

LEMMA CommentRowsTyped ==
  ASSUME RowsTyped, SerialsDrawn,
         \E u \in Serials, s \in Slugs :
           \/ favorite_article(s, u)
           \/ unfavorite_article(s, u)
           \/ \E b \in Texts : add_comment_to_article(s, b, u)
           \/ \E c \in Serials : delete_comment(c, s, u)
  PROVE  RowsTyped'
<1>1. ASSUME NEW u \in Serials, NEW s \in Slugs, favorite_article(s, u)
      PROVE  RowsTyped'
  <2>1. \/ favorites' = favorites
        \/ /\ favorites' = favorites \cup {<<u, ArticleIdOf(s)>>}
           /\ ArticleIdOf(s) \in DOMAIN articles
    BY <1>1, SlugLookup DEF favorite_article, favorite_article_error
  <2>2. DOMAIN articles \subseteq Serials
    BY DEF SerialsDrawn, Serials
  <2> QED BY <1>1, <2>1, <2>2 DEF favorite_article, RowsTyped
<1>2. ASSUME NEW u \in Serials, NEW s \in Slugs, unfavorite_article(s, u)
      PROVE  RowsTyped'
  BY <1>2 DEF unfavorite_article, RowsTyped
<1>3. ASSUME NEW u \in Serials, NEW s \in Slugs, NEW b \in Texts,
             add_comment_to_article(s, b, u)
      PROVE  RowsTyped'
  <2>1. CASE add_comment_to_article_error(s, u) # "none"
    BY <1>3, <2>1 DEF add_comment_to_article, RowsTyped
  <2>2. CASE add_comment_to_article_error(s, u) = "none"
    <3> DEFINE row == [author |-> u, article |-> ArticleIdOf(s), body |-> b]
    <3>1. ArticleIdOf(s) \in 1..MaxSerial
      BY <2>2, SlugLookup DEF add_comment_to_article_error, SerialsDrawn
    <3>2. row \in CommentRow
      BY <3>1 DEF CommentRow, Serials
    <3>3. comments' = Put(comments, commentSeq + 1, row)
      BY <1>3, <2>2 DEF add_comment_to_article
    <3>4. comments' \in [DOMAIN comments' -> CommentRow]
      <4> HIDE DEF row
      <4> QED BY <3>2, <3>3, PutTyped DEF RowsTyped
    <3> QED BY <1>3, <3>4 DEF add_comment_to_article, RowsTyped
  <2> QED BY <2>1, <2>2
<1>4. ASSUME NEW u \in Serials, NEW s \in Slugs, NEW c \in Serials, delete_comment(c, s, u)
      PROVE  RowsTyped'
  <2>1. comments' \in [DOMAIN comments' -> CommentRow]
    BY <1>4, DropTyped DEF delete_comment, RowsTyped
  <2> QED BY <1>4, <2>1 DEF delete_comment, RowsTyped
<1> QED BY <1>1, <1>2, <1>3, <1>4

(* Every row ever stored has the columns of its table and a drawn id: no    *)
(* oversized value and no NULL gets past the checks of an INSERT or UPDATE. *)
THEOREM DatabaseTypes == DbSpec => []DbTypeOK
<1> DEFINE TypeInv == IntegrityInv /\ RowsTyped
<1>1. DbInit => TypeInv
  <2> SUFFICES ASSUME DbInit PROVE RowsTyped
    BY InitIntegrity
  <2> QED BY SeedAssumption DEF DbInit, RowsTyped
<1>2. TypeInv /\ [DbNext]_dbVars => TypeInv'
  <2> SUFFICES ASSUME TypeInv, [DbNext]_dbVars PROVE RowsTyped'
    BY StepIntegrity, StutterIntegrity
  <2>1. CASE DbNext
    <3>1. RowsTyped /\ SerialsDrawn
      BY DEF IntegrityInv
    <3> QED BY <2>1, <3>1, UserRowsTyped, ArticleRowsTyped, CommentRowsTyped DEF DbNext
  <2>2. CASE UNCHANGED dbVars
    BY <2>2 DEF dbVars, RowsTyped
  <2> QED BY <2>1, <2>2
<1>3. TypeInv => DbTypeOK
  BY DEF IntegrityInv, RowsTyped, DbTypeOK
<1> QED BY <1>1, <1>2, <1>3, PTL DEF DbSpec
=============================================================================
