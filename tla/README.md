# Verification of realworld_service

TLA+ models of `realworld_service`, a blogging backend (users, profiles,
articles, comments, favorites, tags) written in C++ on the userver framework
with PostgreSQL. TLC checks the models on small instances; TLAPS proves the
theorems in `*Proofs.tla` for every value of the constants.

## The system

A request passes through userver's listener, the bearer check and one handler.
The handler parses the body, executes one to three SQL statements and answers.
Handlers keep no state of their own: everything lasting is in the database,
and everything else lives in the coroutine of the request.

| Part | Source | State | Operations |
|---|---|---|---|
| Schema and stored functions | `postgresql/schemas/db_1.sql` | tables users, articles, tags, article_tags, favorites, followers, comments; serial sequences | 11 functions that write, 17 that read |
| SQL statements | `src/db/sql.hpp` | none | one `SELECT function(...)` per constant |
| Article handlers | `src/handlers/api/articles*.cpp` | id kept between statements | list, feed, create, read, update, delete, favorite, unfavorite, comments |
| Account handlers | `users.cpp`, `users_login.cpp`, `user.cpp`, `profiles.cpp` | row kept between statements | register, login, read, update, profile, follow, unfollow |
| Authentication | `handlers/auth/auth.cpp`, `common/jwt.cpp` | none (the token carries the user id and its expiry) | check a token, issue a token |
| Validation, slugs | `common/utils.cpp`, `common/slugify.cpp` | none | CheckSize, ValidateEmail, Slugify |
| DTOs and models | `dto/`, `models/` | none | rows to JSON |
| Configuration | `configs/` | none | routes, pool (15 connections), statement timeout 500 ms, network timeout 750 ms |
| Vendored | `third_party/` (jwt-cpp, libbcrypt, userver) | | |

How the parts interact, and what is hard about it:

- **Every `cluster_->Execute` is a transaction of its own** (autocommit, READ
  COMMITTED). A handler that executes three statements can see three different
  databases. Requests of all clients interleave between statements.
- **Articles are addressed by slug, and slugs move.** favorite, unfavorite,
  delete article and delete comment look something up by slug in one
  transaction and write by slug in the next. PUT gives an article a new slug.
- **A write commits before its reply is built.** POST and PUT of an article and
  POST of a comment read the row back in a second transaction, which can fail or
  find nothing; then the client gets 500 for something that happened.
- **Statements fail** (pool, statement timeout), with no effect, **or succeed
  without an answer** (network timeout).
- **Constraints decide races**: slugs, user names (CITEXT) and e-mails are unique
  by index; the handlers turn some violations into 422 and let others escape
  as 500. Refused inserts still draw serials.
- **One reply mixes snapshots**: the functions in the select list of the article
  queries are VOLATILE and see commits later than the row beside them.

What makes each part correct: the schema's constraints hold under all callers;
a row is changed only by its owner's request; a 4xx answer means nothing
changed; a 2xx answer tells the truth about what was done; updates that name
different fields do not undo each other; slug and title stay together; and
every request is answered.

## Modules

```
Database ── the tables and stored functions          DatabaseProofs
   │
Requests ── requests in flight, failures, lost answers
   │      \         \
Articles  Accounts  Listings ── the handlers, one action per statement
   │      /         /
Service ── composition, fairness, properties         HandlerProofs, ServiceProofs,
                                                     OwnershipProofs, ReplyProofs

RowLocks ══implements══> ArticleStore      the stored functions, lock by lock
                                                     RowLocksProofs
Authentication ── tokens and time                    AuthenticationProofs
Texts ── Inputs                            the texts in requests
                                                     InputsProofs
```

The proof modules build on each other: DatabaseProofs and HandlerProofs,
then ServiceProofs, OwnershipProofs, ReplyProofs. RowLocksProofs,
AuthenticationProofs and InputsProofs stand alone.

**Database** has one variable per table (a function from ids to rows, or a set of
pairs) and one per sequence. Each stored function that writes is an action with
the function's name and parameters. `<function>_error` is the first check of the
statement that fails, in the order in which PostgreSQL makes them (serial,
column width, NOT NULL, unique indexes, foreign keys). A function that fails
leaves the tables alone but keeps the serial it drew. `DbNext` is the most
general caller. Merged columns: `bio` stands for bio and image, `text` for
description and body; created_at and updated_at are left out; a tag is its name.

**Requests** has the one variable `req`: a record per slot, with `pc` the name of
the statement (the constant in `db/sql.hpp`) that the handler executes next.
`Begin` is a request whose token and body were accepted; `Reject` answers 400 (a body
that is not JSON, for every handler), 401, 422 or 500 before any statement runs;
`ExecuteFails` ends any statement with 500 and no effect; `Write` lets the answer of a
committed statement get lost. The fields `wrote` and `target` only observe what the
request did to the tables. A request keeps its slot until its transaction has ended,
which statement_timeout (500 ms) sees to before network_timeout (750 ms) answers. In
the narrow case of a transaction that began so late that it outlives the answer, the
slot stands for the transaction, and its client learns of the 500 later in the model
than in the program.

**Articles** and **Accounts** have one `Begin...` action per handler and one action
per SQL statement. The control of each handler (early returns, the catch of
`UniqueViolation`, `AsSingleRow` that throws when there is no row) decides which
statement or answer comes next. `kGetArticleWithAuthorProfile` is four steps: row
and COUNT in the snapshot of the SELECT, then one for each VOLATILE function of its
select list, the tag list, the favorited flag and the author's profile, each in a
snapshot of its own.
`Slugify`, `ToLower` and `Digest` are constant functions: titles may share a slug
and a slug may be `Oversized`.

**Listings** has the handlers that answer with several rows. One step selects the
rows of a page, in the snapshot of the statement; then the VOLATILE functions of
the select list run row by row, a step each (`TagListOfRow`, `ProfileOfRow`), and other
requests commit between them; `is_favorited_article` shares the step of the tags
because the lists pass it no user, so that it is false in every snapshot. The order of
a list is left open: ORDER BY `created_at` has no tie-break, and `created_at` is the start
of the transaction, which need not be the order of the ids. So a page is any set of
rows of the size that LIMIT and OFFSET leave (`Pages`), completed in any order.
Comments have no ORDER BY at all. A negative LIMIT or OFFSET is PostgreSQL's error, 500.

**Service** composes the three. `Next` lets any slot begin, reject, step or fail.

**RowLocks** opens up the three functions that write articles. Each connection of
the pool runs one of them as a transaction, statement by statement, at READ
COMMITTED. A transaction holds the rows it changes, the entries of `uniq_slug` it
inserts or deletes, and the tag names it inserts; whoever needs one of them
waits for it to end. UPDATE and DELETE find their row in a snapshot, then wait for
its lock, then put its newest version to the WHERE clause again. `Cancel` is
statement_timeout or a lost connection.

**ArticleStore** says what the callers of these functions rely on: each call takes
effect at one moment between its start and its answer, or not at all, and a
refusal was true at some moment of the call. `RowLocks!ImplementsStore` maps the
committed tables to `store`, joining articles with their tags, and each
transaction to a pending `call`. This is what justifies that Database models the
functions as single steps.

**Authentication** follows one caller's password and token through time: the checks of
the bearer header, a clock that ticks between any two steps, tokens that expire,
registration, login (which reads the hash and compares it later) and the
handlers that hand the token of the request back. A token of another key and
anything malformed are one value: signatures are taken to be unforgeable.

**Texts** computes Slugify and ValidateEmail on sequences of characters, where one
character stands for a class that the code treats alike, and says what the two
promise without their rules. **Inputs** has the bounds of CheckSize in every
ParseRequest, the widths of the columns, and the texts clients put into fields:
typed out in a title or e-mail, only counted elsewhere.

`ServiceMC`, `RowLocksMC` and `AuthenticationMC` only give values to constants. Operators
marked `mutant` in a comment are wrong variants of the definition that follows
them; each makes some run find its property violated.

## Runs

| Run | Question | Instance |
|---|---|---|
| `articles` | Create, update, delete with all interleavings: `Integrity`, `SlugFollowsTitle`, `OnlyOwnersChange`, `IdsNeverReused`; and can an author trust its answers? `AuthorSeesOwnWrite`, `OwnDeleteGone` | 2 users, 2 requests, 2 titles and slugs, 2 article ids, a tag |
| `favorites` | `FavoriteReplyTrue`, `FavoritedIsCounted`: is the article in the reply the one that was favorited? `RefusedWroteNothing`: does the DELETE that a favorite holds back keep the comments? `OnlyOwnersChange` for favorites | 2 users, one slug that is deleted and created again, a comment (`MCOneComment`), no PUT, readers beside |
| `favorites_rename` | the same with PUT: **violated** | 2 slugs |
| `comments` | `CommentLeftByRenameOnly`: what can keep a comment whose deletion was answered 200? `CommentLostOnlyWithArticle`, `OnlyOwnersChange` for comments, and `EveryRequestAnswered` under fairness | 2 users, one article that PUT renames from A to B and DELETE removes, one comment (`MCOneOfEach`) |
| `accounts` | Registrations and PUTs racing for names and e-mails: `Integrity`, `DbTypeOK`; `NoLostUpdate` of PUTs that name different fields; `RefusedWroteNothing`: does a PUT of a taken name or e-mail leave the row as it was? | one user and a second one to come, several requests of one user, 3 spellings of 2 names, 2 e-mails, 2 hashes |
| `lists` | `FeedShowsFollowed`, `FollowingShownTrue`: is the following flag of each row the caller's? `OnlyOwnersChange` for followers | 2 users who follow and unfollow each other, 2 articles, or one with 2 comments (`MCShortLists`): lists of two rows |
| `listings` | `ShownTagsOrGone`: may an article be shown without its tags? `RefusedWroteNothing`: did a refused request change anything? `TypeOK` | 1 user with 2 requests at once, 3 titles (one whose slug is too long, one whose slug is a fixed path), 2 articles, one tag, limits and offsets -1, 1, 2, one argument at a time (`MCFilters`) |
| `feed_unlimited` | Does a feed without limit have the default size? **violated** | 1 user, 2 articles, `DefaultLimit` 1 |
| `feed_counts` | Does a feed count each user's favorite once? **violated** | 1 user, 2 articles |
| `locks` | `LocksExclude`, `ImplementsStore`: are the functions that write articles atomic? `CirclesOfOneKind`: which statements can wait for each other in a circle? `EveryCallEnds`: do deadlocks end? | 2 connections, 2 authors, 2 slugs, tag lists x,y and y,x, fair |
| `auth` | Who is let in, and by which password? | 1 account, 2 passwords, 2 requests, tokens that last 1 of 3 moments |
| `inputs` | `AcceptedFits` (all fields but e-mails, which `ValidateEmail` does not bound), `LoginAcceptsPasswords`, `EditsCouldBeCreated`, `SlugKeepsWords`, `EmailsHaveDomain` | the bounds of the code, all lengths up to 65536; all titles of up to 6 characters of 7 classes, all e-mails of up to 7 characters of 5 |

Bounds. `Routes` chooses the handlers of a run; the model of a handler is the same
in all of them. Two requests in flight give every interleaving of two handlers,
and a slot is used again at once, so a long handler in one slot meets any
sequence of requests in the other: the counterexample of `favorites_rename` needs
a PUT and a POST inside one favorite. Two users are enough to tell the owner
from the others. Serials end at `MaxSerial` (2), where PostgreSQL stops at
2147483647, so the runs also reach the state in which inserts are refused.
`SeedUsers` are users who registered before the behaviour starts. Slots are
symmetric where only safety is checked. `DefaultLimit` is 1 where the code says 20,
so that two articles are more than a page.

State constraints keep four instances small. They cut behaviours short and change no
step. `lists` ends at two articles, A and then B, or one article with two comments, and
has nobody follow themselves; `favorites` ends at two articles, or one with a comment.
`comments` ends at one article and one comment, and its PUTs name the title B only. Its
liveness is checked of the behaviours that stay within. A cut can hide a behaviour but
make none up: fairness speaks of steps that are enabled, cut or not.

Some clauses have no case in their runs and rest on the theorems: `Bios` is empty in
`accounts`, so `NoLostUpdate` for the bio is `NoUpdateIsLost` (the bio is COALESCEd beside
the name and the e-mail), and with one text in `articles` the clause of
`AuthorSeesOwnWrite` about texts is `AuthorsSeeTheirWrites`.

In `locks` two connections meet in every order, the tag lists in opposite orders
and two PUTs that swap slugs close circles of both kinds (longer ones are left to the
theorem), and a row can be renamed or deleted between the moments at
which a PUT finds and locks it. In `auth` a token lasts one tick of three, so it is
used before, at and after its end, and a request can outlive it. `inputs` types
texts of one class per rule of the transliterator, and six characters put every
rule before and after every other one; its e-mails have the characters the
pattern names, and seven are enough for the longest form with one letter per
part. The bounds of CheckSize are those of the code, not of a small instance.

`SequentialClients` is an assumption on clients, not on the service: a user does
not send a request while one of theirs is unanswered (or its transaction goes on,
see Requests). Without it even a correct
service could not keep `FavoriteReplyTrue`, because a user's own unfavorite may
overtake.

Fairness. `FairSpec` asks that each slot's pending statement is eventually executed
(`WF_vars(Step(r))`): userver's scheduler resumes a coroutine when its answer
comes. It does not ask that clients send anything or that a statement fails, so a
handler that waits for a failure to get rid of a request would not pass.

`RowLocks!FairSpec` asks two things. A transaction that may go on again and again
does (`SF`): PostgreSQL queues the waiters of a lock and wakes the first, so
nobody is overtaken for ever. And a transaction that keeps waiting is cancelled
(`WF` of `TimesOut`): statement_timeout is 500 ms in the configuration and
deadlock_timeout 1 s in PostgreSQL, so it is the timeout that ends a deadlock.
Nothing is assumed of transactions that do not wait being cancelled.

### What the violated runs show

1. `favorites_rename`: the author renames the article and gives its slug to a
   new one between the lookup and the insert. The favorite is stored for the
   new article; the reply, 200, shows the old one with `favorited: false`.
2. `feed_unlimited`: `get_feed` declares a limit of 20, but the handler passes NULL
   for what the client does not name, and LIMIT NULL is no limit.
3. `feed_counts`: `WHERE article_id = article_id` compares the column of favorites with
   itself, so every article of a feed shows the number of all favorites.

### Known consequences of the code that no run states

The models do all of these as the code does:

- A rename between `is_comment_exist` and `delete_comment` leaves the comment in place
  although the answer is 200: the window of `favorites_rename` again. `comments` reaches
  it; `CommentLeftByRenameOnly` says that nothing else has this effect.
- An e-mail longer than its column is accepted by `ValidateEmail` and answered 500 by
  PostgreSQL, and so is a title whose slug transliteration makes too long. The rows stay
  as they were (`DbTypeOK` and `RefusedWroteNothing`); `AcceptedFits` names the exception.
- PUT of the current user does not catch `UniqueViolation`: a taken name is a 500 where
  registration answers 422.
- Articles of one moment may come in another order in the next request, and pages are
  queries of their own: a client that turns them can miss an article or see it twice.
- DELETE of another author's article deletes nothing and is answered 200, where PUT
  answers 404. `OwnDeleteGone` is therefore only about the author.
- The lists call `is_favorited_article` without the user: `favorited` is false for
  everyone. The following flag beside it is right (`lists`).
- The title "Feed" makes the slug of the fixed path `/api/articles/feed`
  (`FixedSlugs`): the article is listed and can be deleted, but not read.
- `get_tags` lists a tag as often as it is used; the comments of a slug that no
  article has are answered 200; a title of punctuation only has the empty slug.

## Proofs

The theorems of `DatabaseProofs` are about `DbSpec`, the most general caller of the
stored functions, which no run explores by itself: its actions are those the
requests of the other runs execute. Assumptions: the named ASSUMEs of the modules
(MaxSerial is positive, Oversized fits no column, NULL is no value, the seed users are
a legal users table, Slugify, ToLower and Digest are functions). TLC evaluates them in
the runs.

`DatabaseProofs`
- `DatabaseIntegrity`: `DbSpec => []Integrity`. Integrity alone is not inductive: a
  new row could take the id of an old one, or a foreign row could already point
  to an id that is drawn later. The invariant adds `SerialsDrawn` (ids in use lie
  below their sequence). One lemma per stored function shows that it preserves
  the invariant **for any arguments at all**.
- `DatabaseTypes`: `DbSpec => []DbTypeOK`, on top of the first: what is written has
  the columns of its table because the error checks refuse what does not fit.

`HandlerProofs` needs none of the others
- `RefusedAlwaysWroteNothing`: `Spec => []RefusedWroteNothing`. A refusal (4xx, or a 500 by
  a constraint) is given at the end of a handler, so the property alone says nothing about the
  statements before it. The invariant `RequestInv` says of each request, by the
  statement it executes next, that it has written nothing before its first
  writing statement; that the statements which read back after a write, shared
  by several handlers, answer 404 only for GET of an article, which never
  writes; and that a statement refused by a constraint left every table alone.
- `SlugsFollowTitles`: `Spec => []SlugFollowsTitle`. A PUT replaces title and slug by
  COALESCE separately; they stay together because a request at
  `kUpdateArticleBySlug` carries a title of the service or none, and the slug
  of a title is never NULL (the last clause of `RequestInv`).

`ServiceProofs`
- `ServiceIntegrity`: `Spec => []Integrity`. Each statement of a handler is one of
  the stored functions or only reads, so the lemmas of DatabaseProofs carry over
  with no assumption about what the handlers pass.
- `ServiceTypes`: `Spec => []TypeOK`. Types do depend on what is passed. `CallInv` says
  of each request which handlers execute its next statement (`Serves`), that
  its arguments are those the handler's parsing lets through (`Parsed`), and
  that its status is 0 exactly until it is answered. `StepShape` says how a
  request moves: on to a statement of its own handler, or to an answer, keeping
  caller and arguments. `ServiceInv` is integrity, typed rows and `CallsInv`
  together; everything below starts from it.

`OwnershipProofs`
- `OnlyOwnersWrite`: `Spec => OnlyOwnersChange`, an action property. The conditions of
  the stored functions name the user they were called with; that this is the
  user of the request is in `CallsInv`. One lemma per table says what the
  statements that write it change. What is proved of each step (`OwnersOnly`) is a
  little more than the property: a comment that goes with a DELETE of an
  article loses that article in the same step.
- `NoUpdateIsLost`: `Spec => NoLostUpdate`, from COALESCE in `update_user_by_id`.
- `IdsAreDrawnOnce`: `Spec => IdsNeverReused`. An INSERT that draws no serial is refused
  (`Exhausted`), so a new row's id is beyond every id drawn before, its own or a
  refused one's.

`ReplyProofs` is about what an answer says after several transactions. Three facts
about steps carry all of it:
- `Settled`: ids are drawn once. What has an id below the sequence and exists
  after a step existed before it, with the same author, tags and, where no PUT
  runs, the same row. What is gone stays gone.
- `KeepsOf(user)`: while a request of this user waits and no other of its requests
  runs, the user's articles, comments, favorites and follows stay as they are.
  This is `OwnersOnly` again, with `Alone` (a user has one request in flight).
- `SlotMoves`: in a step, a slot keeps its request, begins or refuses another one, or
  executes a statement. So the lemma `...Step` of each invariant has three cases:
  what a waiting request knows survives the steps of others, a new request knows
  nothing, and each statement establishes what is known at the next.

Each theorem has an invariant `...Known` that says what the handler still knows at
each statement, from the one in which it read to the answer:

| Theorem | What has to be known in between |
|---|---|
| `TagsShownAreKept` | the tags put into the rows so far are the articles' tags, for the articles that exist |
| `FeedsShowFollowed`, `FollowingIsShownTrue` | the flag of each completed row is the caller's now; in a feed also that of the rows to come |
| `FavoritesAreCounted` | a caller who has a favorite when the flag is read already had it when the count was made |
| `AuthorsSeeTheirWrites` | the article written exists, is the caller's and has the title, text and tags of the request |
| `OwnDeletesAreGone` | the article looked up still has the slug named, or is not the caller's |
| `CommentsGoWithArticles` | the comment stored exists, or its article is gone |
| `CommentsAreLeftByRenamesOnly` | the comment, if it exists, is the caller's; so a DELETE that does not find it found its article without the slug named |
| `FavoriteRepliesAreTrue` | the article looked up, if it exists, has the slug; after the write it is the one written, and the favorite is as asked |

Two hypotheses appear in these theorems, each only where it is needed.
`SequentialClients` (all but the tags and the comments left by renames): a user waits for
an answer before the next request, see Runs. And `[][SlugsStay]_vars`
(`FavoriteRepliesAreTrue`): the article named by a favorite in flight keeps its slug until
the answer. It is about single behaviours, not about the routes: all handlers run,
PUT among them, and other articles are renamed at will. Without it the property is
false of the code, as `favorites_rename` shows. All other theorems hold with every
rename.

`RowLocksProofs`
- `LocksTypes`, `LocksAlwaysExclude`, `LocksImplementStore`: `Spec => []TypeOK`,
  `[]LocksExclude` and `ImplementsStore`, from one invariant `LocksInv`. Exclusion alone is
  not inductive. `Knows` says what a transaction knows at its next statement: the row
  that it has locked still matches its WHERE clause, the serial drawn is not in
  the table, the tags gone through exist or are its own. `OwnSerials` keeps
  the rows of two inserts apart, and `Seen` says that a transaction has taken note of
  each reason for a refusal (no row, slug taken) there has been since it began.
- The refinement maps a begin to `Start`, a commit to `Effect`, an end without commit to
  `NoEffect` (a refusal with the reason that `Seen` remembers), and each other
  statement to a stutter of the store. At a commit the new rows are compared with the store's,
  function by function, and the tags by `TagsAdded`. The theorem is about safety:
  `Spec`, without the fairness of `FairSpec`, implements the store's next-state
  relation.
- `CirclesAreOfOneKind`: `Spec => []CirclesOfOneKind`. Nothing orders the waits, so there are
  deadlocks; the theorem says of which statements, for any number of connections.
  Who holds something another waits for, and waits too, inserts tags or enters a new
  slug, and who waits for a tag waits for one that inserts tags (`WaitedFor`). That
  needs `TagsInv`: before its first statement a POST has no tag yet.
- `TagCirclesCrossOrders`: why circles of tags close. For every set of transactions that
  wait for each other at their tags, and every order of the tags, one of their lists is
  out of that order; so it takes clients that name the same new tags in different
  orders (`articles.cpp` passes the lists on as they come, and those of `locks` differ).
  No assumption on the lists is made. The proof (`NoOrderedCircle`): in one order,
  whoever waits for a tag waits for one that waits for a smaller tag, and a set of
  numbers has a least one.

`AuthenticationProofs`
- `AuthTypes`: `Spec => []TypeOK`, among it that each statement has the id and the hash
  it works with, which the early returns see to.
- `TokensAlwaysNameAccounts` and `AlwaysAdmittedByRecentLogin`. The invariant says
  where tokens come from: each token held, and each token of a request, has an
  entry in `granted` (a registration or login of its account, no later than now)
  whose time plus the expiration time is its `exp`; and a request about to answer
  with a new token has an account. A check that admits compares with `exp`, so the
  grant is recent at that moment.
- `LoginsShowAPassword`: `Spec => []LoginPasswordWasCurrent`. The password of the account
  is, at every moment of a login, among those it has seen, because every statement
  that changes a password shows it to all logins in flight; so the hash read is
  among them, and it stays so until the comparison.

`InputsProofs`
- `AcceptedAlwaysFits`, `LoginAlwaysAccepts`, `EditsCouldAlwaysBeCreated`: for texts of any
  length (e-mails excepted by the property itself), `[]AcceptedFits`, `[]LoginAcceptsPasswords` and `[]EditsCouldBeCreated`.
- `EmailsAlwaysHaveDomain` and `SlugsAlwaysKeepWords`: `[]EmailsHaveDomain` and
  `[]SlugKeepsWords`, facts about what recursion and folds compute, for texts of any
  length. The library's induction theorems take an operator as a parameter, which no
  installed prover can instantiate; but that a set of numbers has a least member
  follows from the library without one (`LeastNumber`), and with it induction over
  sets of numbers (`NumberInduction`) and of sequences (`TextInduction`, one character
  more at the end). What is proved by induction is therefore always that a set,
  such as the titles for which two texts have the same words, holds everything.
- E-mails: `LabelsFact` says without recursion what `Labels` computes (only words
  between dots, no dot first, last or twice in a row), by induction over the prefix;
  with it both sides of the equivalence speak of the places of dots.
- Slugs: `FlattenSeq` is determined by its equations for the empty sequence and for one
  more element (`FlattenFact`, `FlattenOneMore`), so the passes of Slugify become steps
  over the title. `Words`, a CHOOSE over places, is not inductive: `Cut` says of a
  list of places that they are the starts and ends of the words so far, `CutAppend` how
  one more character moves it, and `CutExists` that every text has one. The
  invariant over the title is `SameWords`: the text before and after CollapseSpaces
  and Hyphenate have equal words, end both within or both outside of a word,
  and have no two hyphens in a row without a line separator.

Only model-checked: `EveryRequestAnswered` and `EveryCallEnds`, liveness under fairness,
which is out of the prover's reach. Every other property of a passing run is a
theorem. The properties of the three violated runs are false of the code.

## Not modelled

- **Replicas**: GET handlers ask for kSlave. The configurations name one host, which
  serves both roles, and nothing in the repository says how far a replica may
  lag; the models read the master.
- **Pool and queue limits** (15 connections, 200 waiting): a request that gets no
  connection is a statement that fails.
- **Locks of the other tables**: a favorite or comment locks the article it refers to
  (KEY SHARE) and registrations lock the index entries of users. These functions
  are one statement each; Database models them as atomic.
- **Row versions in lists**: a single SELECT has one snapshot, as modelled; JSON, dates
  and `updated_at` are left out.
- **JSON**: what is no JSON or has a member of another type is answered 400 or 500
  before any statement, as `Reject` and `ExecuteFails` are.
- **ICU's tables**: Texts knows the classes and the order of the rules, not which
  letter becomes which.
- **bcrypt and JWT cryptography**, logging, userver's internals (vendored or external).
