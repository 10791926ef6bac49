----------------------------- MODULE ServiceMC ------------------------------
(* Values of the constants of Service: two registered users, a title whose  *)
(* slug does not fit its column, two titles with one slug.                  *)
EXTENDS Service, TLC

MCCiFold == [n \in UserNames |-> IF n \in {"bob", "Bob"} THEN "bob" ELSE n]
MCUser(name, email) ==
  [username |-> name, email |-> email, password_hash |-> "h1", bio |-> NULL]
MCOneUser == <<MCUser("ann", "e1")>>
MCTwoUsers == <<MCUser("ann", "e1"), MCUser("bob", "e2")>>

MCSlugify == [t \in Titles |->
  CASE t = "Long" -> Oversized [] t \in {"A", "a"} -> "a" [] t = "B" -> "b"
      [] t = "Feed" -> "feed"]
MCNumbers == {-1, 1, 2}

(* Bound: a request for articles names at most one argument.                *)
MCFilters ==
  {f \in [tag: Opt(TagNames), author: Opt(UserNames), favorited: Opt(UserNames),
          limit: Opt(Numbers), offset: Opt(Numbers)] :
     Cardinality({a \in DOMAIN f : f[a] # NULL}) <= 1}

MCToLower == [g \in RawTags |-> "go"]
MCDigest == [p \in Passwords |-> IF p = "p1" THEN "h1" ELSE "h2"]

(* Bound: two articles, A and then B, or A with two comments; nobody follows *)
(* themselves.                                                               *)
MCShortLists == /\ articleSeq <= 1 \/ commentSeq = 0
                /\ \A i \in DOMAIN articles : articles[i].title = <<"A", "B">>[i]
                /\ \A p \in followers : p[1] # p[2]

(* Bound: one article and one comment are ever created; a PUT names only the *)
(* title B.                                                                  *)
MCOneOfEach ==
  /\ articleSeq <= 1 /\ commentSeq <= 1
  /\ \A r \in Slots : req[r].op = "put_article" /\ req[r].arg # NULL
       => req[r].arg.title = "B" /\ req[r].arg.text = NULL

(* Bound: two articles, or one with a comment.                               *)
MCOneComment == commentSeq = 0 \/ (commentSeq = 1 /\ articleSeq <= 1)

MCSymmetry == Permutations(Slots)
=============================================================================
