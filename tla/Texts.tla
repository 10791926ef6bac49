-------------------------------- MODULE Texts --------------------------------
(***************************************************************************)
(* What the handlers do with one text of a request before the database     *)
(* sees it: CheckSize and ValidateEmail (common/utils.cpp) and Slugify     *)
(* (common/slugify.cpp).  A text is a sequence of characters, and one      *)
(* character stands for all that the transliterator treats alike:          *)
(*                                                                         *)
(*   "a"  a small letter or a digit      "A"   a capital letter            *)
(*   "ss" a letter spelled out (sharp s) "1/2" a fraction, spelled out     *)
(*   " "  a space                        "LS"  another line separator      *)
(*   "-"  punctuation or a symbol        "TAB" a control character         *)
(*                                                                         *)
(* "_", "." and "@" are punctuation that e-mail addresses may hold.        *)
(***************************************************************************)
EXTENDS Integers, SequencesExt

(* Slugify: the passes of the transliterator's rules, in their order.       *)

Punctuation == {"-", "_", ".", "@"}
RemovePunctuation(s) ==
  FlattenSeq([i \in 1..Len(s) |-> IF s[i] \in Punctuation THEN <<>> ELSE <<s[i]>>])

(* Latin-ASCII and Lower().  The slash of a fraction is not removed any     *)
(* more; the space before it is one more space.                             *)
Spelling(c) ==
  CASE c = "A"   -> <<"a">>
    [] c = "ss"  -> <<"a", "a">>
    [] c = "1/2" -> <<" ", "a", "/", "a">>
    [] OTHER     -> <<c>>
Lower(s) == FlattenSeq([i \in 1..Len(s) |-> Spelling(s[i])])

(* ' ' {' '} > ;  removes a space after a space.                            *)
CollapseSpaces(s) ==
  FlattenSeq([i \in 1..Len(s) |->
    IF i > 1 /\ s[i] = " " /\ s[i-1] = " " THEN <<>> ELSE <<s[i]>>])

Separator == {" ", "LS"}
Hyphenate(s) == [i \in 1..Len(s) |-> IF s[i] \in Separator THEN "-" ELSE s[i]]

Slugify_CollapseFirst(s) ==  \* mutant: the rules in another order
  Hyphenate(Lower(RemovePunctuation(CollapseSpaces(s))))
Slugify(s) == Hyphenate(CollapseSpaces(Lower(RemovePunctuation(s))))

-----------------------------------------------------------------------------
(* ValidateEmail matches the whole text: the local part is word characters, *)
(* an optional . or _, then any number of word characters; the domain is    *)
(* (\w+)(\.(\w+))+ .                                                        *)

WordCharacters == {"a", "A", "_"}
IsWord(s) == \A i \in 1..Len(s) : s[i] \in WordCharacters

IsLocalPart(s) ==
  \E i \in 1..Len(s) :
    /\ IsWord(SubSeq(s, 1, i))
    /\ \/ IsWord(SubSeq(s, i + 1, Len(s)))
       \/ i < Len(s) /\ s[i+1] \in {".", "_"} /\ IsWord(SubSeq(s, i + 2, Len(s)))

(* labels[i]: the first i characters are labels between dots.               *)
Labels(s) ==
  LET labels[i \in 0..Len(s)] ==
        \E j \in 0..(i - 1) : /\ IsWord(SubSeq(s, j + 1, i))
                              /\ j = 0 \/ (s[j] = "." /\ labels[j - 1])
  IN labels
IsDomain_OneLabel(s) == Labels(s)[Len(s)]  \* mutant: a domain without dot
IsDomain(s) ==
  \E j \in 1..(Len(s) - 1) : /\ Labels(s)[j - 1]
                             /\ s[j] = "."
                             /\ IsWord(SubSeq(s, j + 1, Len(s)))

ValidateEmail(s) ==
  \E i \in 1..Len(s) : /\ s[i] = "@"
                       /\ IsLocalPart(SubSeq(s, 1, i - 1))
                       /\ IsDomain(SubSeq(s, i + 1, Len(s)))

-----------------------------------------------------------------------------
(* What the two promise, said without their rules.                          *)

(* Words of a text: its runs of characters outside of gaps.                 *)
Words(s, gaps) ==
  LET starts == {i \in 1..Len(s) : s[i] \notin gaps /\ (i = 1 \/ s[i-1] \in gaps)}
      end(i) == CHOOSE k \in i..Len(s) :
                  /\ \A l \in i..k : s[l] \notin gaps
                  /\ k = Len(s) \/ s[k+1] \in gaps
      start(k) == CHOOSE i \in starts : Cardinality({j \in starts : j <= i}) = k
  IN [k \in 1..Cardinality(starts) |-> SubSeq(s, start(k), end(start(k)))]

(* The words of the title in their order, spelled in small letters without  *)
(* punctuation, and one hyphen where spaces were, however punctuation stood *)
(* among them.                                                              *)
IsSlugOf(slug, title) ==
  LET spelled == FlattenSeq([i \in 1..Len(title) |->
                   IF title[i] \in Punctuation THEN <<>> ELSE Spelling(title[i])])
  IN /\ Words(slug, {"-"}) = Words(spelled, Separator)
     /\ \A i \in 2..Len(slug) :
          slug[i] = "-" /\ slug[i-1] = "-" => "LS" \in Range(title)

(* One @; before it at most one dot, not in front; after it labels between  *)
(* single dots, at least two.                                               *)
IsEmail(s) ==
  LET dots == {i \in 1..Len(s) : s[i] = "."}
  IN \E at \in 2..Len(s) :
       /\ s[at] = "@" /\ \A i \in 1..Len(s) : i = at \/ i \in dots \/ IsWord(<<s[i]>>)
       /\ 1 \notin dots /\ Cardinality({i \in dots : i < at}) <= 1
       /\ \E i \in dots : i > at
       /\ \A i \in dots : i > at => i - 1 \notin dots \cup {at} /\ i # Len(s)
=============================================================================
