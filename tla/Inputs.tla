-------------------------------- MODULE Inputs -------------------------------
(***************************************************************************)
(* The texts clients put into the fields of their requests: CheckSize      *)
(* (common/utils.cpp) as the handlers call it, against the columns of      *)
(* db_1.sql the fields are written to, and Slugify and ValidateEmail on    *)
(* the two fields whose characters matter.  CheckSize counts code points,  *)
(* as VARCHAR does, so a text is otherwise its number of characters.       *)
(***************************************************************************)
EXTENDS Texts

CONSTANTS
  TitleCharacters, EmailCharacters,
  MaxTitle, MaxEmail,  \* bounds of the texts that are typed out
  MaxLength            \* bound of the texts that are only counted

ASSUME InputsBounds == {MaxTitle, MaxEmail, MaxLength} \subseteq Nat

VARIABLES
  request, name,  \* the handler and the field
  length,         \* of the text
  text            \* its characters, if they are typed out

(* << min, max >> of CheckSize(..., min, max) in each ParseRequest.         *)
PostArticle == [title |-> <<3, 256>>, description |-> <<5, 8192>>,
                body |-> <<5, 65535>>, tagList |-> <<2, 256>>]
PutArticle_OwnMinimum ==  \* mutant: a shorter title will do
  [title |-> <<2, 255>>, description |-> <<5, 8192>>,
   body |-> <<5, 65535>>, tagList |-> <<2, 256>>]
PutArticle == [title |-> <<3, 255>>, description |-> <<5, 8192>>,
               body |-> <<5, 65535>>, tagList |-> <<2, 256>>]
PostComment == [body |-> <<4, 16384>>]
PostUser == [username |-> <<2, 20>>, password |-> <<5, 100>>]
PutUser == [username |-> <<2, 20>>, password |-> <<5, 100>>,
            bio |-> <<3, 65535>>, image |-> <<3, 255>>]
Login_Stricter == [password |-> <<8, 100>>]  \* mutant
Login == [password |-> <<5, 100>>]

Bounds == [post_article |-> PostArticle, put_article |-> PutArticle,
           post_comment |-> PostComment, post_user |-> PostUser,
           put_user |-> PutUser, login |-> Login]

CheckSize_Inclusive(n, min, max) == min <= n /\ n <= max  \* mutant
CheckSize(n, min, max) == min < n /\ n < max
Accepts(q, f, n) == CheckSize(n, Bounds[q][f][1], Bounds[q][f][2])

(* VARCHAR(n).  The other columns are TEXT or CITEXT; of a password only    *)
(* the hash is stored, and the tags of a PUT go nowhere.                    *)
Columns == [post_article |-> [title |-> 255, tagList |-> 255],
            put_article |-> [title |-> 255],
            post_comment |-> [body |-> 16384],
            post_user |-> [email |-> 255],
            put_user |-> [email |-> 255, image |-> 255]]
Fits(q, f, n) ==
  q \in DOMAIN Columns => (f \in DOMAIN Columns[q] => n <= Columns[q][f])

Title == request = "post_article" /\ name = "title"
Email == request \in {"post_user", "put_user"} /\ name = "email"
Sized == name \in DOMAIN Bounds[request]
Typed == length = Len(text)

Init ==
  /\ length = 0 /\ text = <<>>
  /\ request \in DOMAIN Bounds
  /\ Sized \/ Email

Type ==
  /\ Typed
  /\ \/ Title /\ length < MaxTitle /\ \E c \in TitleCharacters : text' = Append(text, c)
     \/ Email /\ length < MaxEmail /\ \E c \in EmailCharacters : text' = Append(text, c)
  /\ length' = length + 1
  /\ UNCHANGED <<request, name>>

Count ==
  /\ text = <<>>
  /\ length < MaxLength /\ length' = length + 1
  /\ UNCHANGED <<request, name, text>>

Next == Type \/ Count
Spec == Init /\ [][Next]_<<request, name, length, text>>

-----------------------------------------------------------------------------
(* Whatever does not fit its column is refused by CheckSize (422) before it *)
(* reaches the database (500), but for an e-mail: ValidateEmail has no      *)
(* length (articles.cpp:87, utils.cpp:19, db_1.sql:9).  The column slug is  *)
(* not among the fields: Slugify may lengthen a title that fits.            *)
AcceptedFits ==
  ~Fits(request, name, length) => name = "email" \/ ~Accepts(request, name, length)

(* Who registered with a password, or changed to one, can log in with it:   *)
(* the login has a check of its own (users_login.cpp:26).                   *)
LoginAcceptsPasswords ==
  \A q \in {"post_user", "put_user"} :
    Accepts(q, "password", length) => Accepts("login", "password", length)

(* A row that a PUT wrote is one its POST would have taken, though not the  *)
(* other way round: a PUT refuses a title of 255 characters                 *)
(* (articles_slug.cpp:64, articles.cpp:87).                                 *)
EditsCouldBeCreated ==
  /\ \A f \in DOMAIN PutArticle :
       Accepts("put_article", f, length) => Accepts("post_article", f, length)
  /\ \A f \in DOMAIN PostUser :
       Accepts("put_user", f, length) => Accepts("post_user", f, length)

(* The slug has the words of the title and one hyphen where its spaces      *)
(* were: passes in another order would let two titles that differ in        *)
(* punctuation only have different slugs (slugify.cpp:13).                  *)
SlugKeepsWords == Title /\ Typed => IsSlugOf(Slugify(text), text)

(* What ValidateEmail accepts is what can be said without its expression:   *)
(* one @ and a domain of at least two labels (utils.cpp:19).                *)
EmailsHaveDomain == Email /\ Typed => (ValidateEmail(text) <=> IsEmail(text))
=============================================================================
