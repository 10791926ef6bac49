----------------------------- MODULE InputsProofs -----------------------------
(***************************************************************************)
(* What Inputs promises of every text, whatever its characters and however *)
(* long: the sizes by arithmetic, Slugify and ValidateEmail by induction   *)
(* over the text.  Induction is over sets of numbers and of texts, from    *)
(* LeastNumber.                                                            *)
(***************************************************************************)
EXTENDS Inputs, FiniteSetTheorems, SequenceTheorems, WellFoundedInduction, TLAPS

(* A set of numbers that is not empty has a least member.                   *)
LEMMA LeastNumber ==
  ASSUME NEW T, T \subseteq Nat, T # {}
  PROVE  \E n \in T : \A m \in T : n <= m
<1> DEFINE R == {p \in Nat \X Nat : p[1] < p[2]}
<1>1. IsWellFoundedOn(R, Nat)
  BY NatLessThanWellFounded DEF OpToRel
<1>2. \A m, n \in Nat : <<m, n>> \in R <=> m < n
  OBVIOUS
<1> HIDE DEF R
<1>3. PICK n \in T : \A m \in T : ~ (<<m, n>> \in R)
  BY <1>1, WFMin
<1>4. ASSUME NEW m \in T PROVE n <= m
  <2>1. m \in Nat /\ n \in Nat /\ ~ (m < n)
    BY <1>2, <1>3
  <2> QED BY <2>1
<1> QED BY <1>4

(* Induction: a set with 0 and every successor of its members has them all. *)
LEMMA NumberInduction ==
  ASSUME NEW S, 0 \in S, \A n \in Nat : n \in S => n + 1 \in S
  PROVE  Nat \subseteq S
<1> SUFFICES ASSUME Nat \ S # {} PROVE FALSE
  OBVIOUS
<1>1. Nat \ S \subseteq Nat
  OBVIOUS
<1>2. PICK n \in Nat \ S : \A m \in Nat \ S : n <= m
  BY <1>1, LeastNumber
<1>3. n # 0 /\ n - 1 \in Nat
  BY <1>2
<1>4. n - 1 \in S
  BY <1>2, <1>3
<1> QED BY <1>2, <1>3, <1>4

(* The same for texts, one character more at a time.                        *)
LEMMA TextInduction ==
  ASSUME NEW X, NEW S, <<>> \in S,
         \A s \in Seq(X), c \in X : s \in S => Append(s, c) \in S
  PROVE  Seq(X) \subseteq S
<1> DEFINE N == {n \in Nat : \A s \in Seq(X) : Len(s) = n => s \in S}
<1>1. 0 \in N
  <2>1. \A s \in Seq(X) : Len(s) = 0 => s = <<>>
    BY EmptySeq
  <2> QED BY <2>1
<1>2. ASSUME NEW n \in Nat, n \in N PROVE n + 1 \in N
  <2>1. ASSUME NEW s \in Seq(X), Len(s) = n + 1 PROVE s \in S
    <3>1. s # <<>>
      BY <2>1, EmptySeq
    <3>2. PICK r \in Seq(X), c \in X : s = Append(r, c)
      BY <3>1, SequenceEmptyOrAppend
    <3>3. Len(s) = Len(r) + 1 /\ Len(r) \in Nat
      BY <3>2, AppendProperties, LenProperties
    <3>4. r \in S
      BY <1>2, <2>1, <3>3
    <3> QED BY <3>2, <3>4
  <2> QED BY <2>1
<1> HIDE DEF N
<1>3. Nat \subseteq N
  BY <1>1, <1>2, NumberInduction
<1>4. ASSUME NEW s \in Seq(X) PROVE s \in S
  <2>1. Len(s) \in N
    BY <1>3, LenProperties
  <2> QED BY <2>1 DEF N
<1> QED BY <1>4

-----------------------------------------------------------------------------
(* The sizes: the request does not change, and the text only grows.         *)
LEMMA LengthsAlways ==
  Spec => [](request \in DOMAIN Bounds /\ length \in Nat /\ (Sized \/ Email))
<1> DEFINE Ok == request \in DOMAIN Bounds /\ length \in Nat /\ (Sized \/ Email)
<1>1. Init => Ok
  BY DEF Init
<1>2. Ok /\ [Next]_<<request, name, length, text>> => Ok'
  BY DEF Next, Type, Count, Sized, Email
<1>3. Ok => request \in DOMAIN Bounds /\ length \in Nat /\ (Sized \/ Email)
  OBVIOUS
<1> QED BY <1>1, <1>2, <1>3, PTL DEF Spec

(* What does not fit its column is refused at any length, or is an e-mail.  *)
THEOREM AcceptedAlwaysFits == Spec => []AcceptedFits
<1>1. request \in DOMAIN Bounds /\ length \in Nat /\ (Sized \/ Email) => AcceptedFits
  BY DEF AcceptedFits, Sized, Email, Accepts, CheckSize, Fits, Bounds, Columns,
         PostArticle, PutArticle, PostComment, PostUser, PutUser, Login
<1> QED BY <1>1, LengthsAlways, PTL

(* A password of any length that a registration or a PUT takes is one the   *)
(* login takes too.                                                         *)
THEOREM LoginAlwaysAccepts == Spec => []LoginAcceptsPasswords
<1>1. length \in Nat => LoginAcceptsPasswords
  BY DEF LoginAcceptsPasswords, Accepts, CheckSize, Bounds, PostUser, PutUser, Login
<1> QED BY <1>1, LengthsAlways, PTL

(* What a PUT takes, at any length, its POST would have taken.              *)
THEOREM EditsCouldAlwaysBeCreated == Spec => []EditsCouldBeCreated
<1>1. length \in Nat => EditsCouldBeCreated
  BY DEF EditsCouldBeCreated, Accepts, CheckSize, Bounds, PostArticle, PutArticle,
         PostUser, PutUser
<1> QED BY <1>1, LengthsAlways, PTL

-----------------------------------------------------------------------------
(* ValidateEmail.  Labels is recursive over the position; what it says of   *)
(* the first i characters can be said at once: labels between single dots.  *)
Labelled(s, i) ==
  /\ i >= 1 /\ s[1] # "." /\ s[i] # "."
  /\ \A k \in 1..i : s[k] \in WordCharacters \cup {"."}
  /\ \A k \in 2..i : s[k] = "." => s[k-1] # "."

(* A part of a text is a word if each of its characters is one of words.    *)
LEMMA WordPart ==
  ASSUME NEW X, NEW s \in Seq(X), NEW m \in Nat, NEW n \in Nat, m >= 1, n <= Len(s)
  PROVE  IsWord(SubSeq(s, m, n)) <=> \A k \in m..n : s[k] \in WordCharacters
<1>1. Len(s) \in Nat /\ \A i \in 1..Len(s) : s[i] \in X
  BY LenProperties
<1>2. \A i \in m..n : s[i] \in X
  BY <1>1
<1>3. /\ Len(SubSeq(s, m, n)) = IF m <= n THEN n - m + 1 ELSE 0
      /\ \A i \in 1..(n - m + 1) : SubSeq(s, m, n)[i] = s[m+i-1]
  BY <1>2, SubSeqProperties
<1>4. ASSUME IsWord(SubSeq(s, m, n)), NEW k \in m..n PROVE s[k] \in WordCharacters
  <2>1. k - m + 1 \in 1..(n - m + 1) /\ m + (k - m + 1) - 1 = k
    OBVIOUS
  <2>2. SubSeq(s, m, n)[k - m + 1] = s[k]
    BY <1>3, <2>1
  <2>3. k - m + 1 \in 1..Len(SubSeq(s, m, n))
    BY <1>3, <2>1
  <2> QED BY <1>4, <2>2, <2>3 DEF IsWord
<1>5. ASSUME \A k \in m..n : s[k] \in WordCharacters PROVE IsWord(SubSeq(s, m, n))
  <2>1. SUFFICES ASSUME NEW i \in 1..Len(SubSeq(s, m, n))
                 PROVE  SubSeq(s, m, n)[i] \in WordCharacters
    BY DEF IsWord
  <2>2. i \in 1..(n - m + 1) /\ m + i - 1 \in m..n
    BY <1>3, <2>1
  <2> QED BY <1>3, <1>5, <2>2
<1> QED BY <1>4, <1>5

(* One step of the recursion, F being the positions where a label may end:  *)
(* the last dot before i is where the last label starts.                    *)
LEMMA OneMoreLabel ==
  ASSUME NEW X, NEW s \in Seq(X), NEW i \in 0..Len(s), NEW F,
         \A j \in 0..(i - 1) : j \in F <=> Labelled(s, j)
  PROVE  Labelled(s, i) <=>
           \E j \in 0..(i - 1) : /\ IsWord(SubSeq(s, j + 1, i))
                                 /\ j = 0 \/ (s[j] = "." /\ j - 1 \in F)
<1> DEFINE Word(j) == \A k \in (j + 1)..i : s[k] \in WordCharacters
<1>1. Len(s) \in Nat /\ i \in Nat
  BY LenProperties
<1>2. \A j \in 0..(i - 1) : IsWord(SubSeq(s, j + 1, i)) <=> Word(j)
  <2>1. SUFFICES ASSUME NEW j \in 0..(i - 1)
                 PROVE  IsWord(SubSeq(s, j + 1, i)) <=> Word(j)
    OBVIOUS
  <2>2. j + 1 \in Nat /\ j + 1 >= 1 /\ i <= Len(s)
    BY <1>1
  <2>3. IsWord(SubSeq(s, j + 1, i)) <=> Word(j)
    BY <1>1, <2>2, WordPart
  <2> QED BY <2>3
<1>3. ASSUME NEW j \in 0..(i - 1), Word(j), j = 0 \/ (s[j] = "." /\ j - 1 \in F)
      PROVE  Labelled(s, i)
  <2>1. "." \notin WordCharacters
    BY DEF WordCharacters
  <2>2. CASE j = 0
    BY <1>1, <1>3, <2>1, <2>2 DEF Labelled
  <2>3. CASE j # 0
    <3>1. s[j] = "." /\ j - 1 \in 0..(i - 1) /\ Labelled(s, j - 1)
      BY <1>1, <1>3, <2>3
    <3>2. j - 1 >= 1 /\ s[1] # "." /\ s[j - 1] # "."
      BY <3>1 DEF Labelled
    <3>3. s[i] # "."
      BY <1>1, <1>3, <2>1
    <3>4. \A k \in 1..i : s[k] \in WordCharacters \cup {"."}
      <4>1. \A k \in 1..(j - 1) : s[k] \in WordCharacters \cup {"."}
        BY <3>1 DEF Labelled
      <4>2. \A k \in 1..i : k \in 1..(j - 1) \/ k = j \/ k \in (j + 1)..i
        BY <1>1
      <4> QED BY <1>3, <3>1, <4>1, <4>2
    <3>5. \A k \in 2..i : s[k] = "." => s[k-1] # "."
      <4>1. \A k \in 2..(j - 1) : s[k] = "." => s[k-1] # "."
        BY <3>1 DEF Labelled
      <4>2. \A k \in 2..i : k \in 2..(j - 1) \/ k = j \/ k \in (j + 1)..i
        BY <1>1
      <4> QED BY <1>3, <2>1, <3>2, <4>1, <4>2
    <3> QED BY <1>1, <3>1, <3>2, <3>3, <3>4, <3>5 DEF Labelled
  <2> QED BY <2>2, <2>3
<1>4. ASSUME Labelled(s, i)
      PROVE  \E j \in 0..(i - 1) : Word(j) /\ (j = 0 \/ (s[j] = "." /\ j - 1 \in F))
  <2> DEFINE T == {j \in 0..(i - 1) : Word(j)}
  <2>1. i - 1 \in T
    BY <1>1, <1>4 DEF Labelled
  <2>5. \A j \in T : j \in Nat
    BY <1>1
  <2>2. PICK j \in T : \A m \in T : j <= m
    <3>1. T \subseteq Nat /\ T # {}
      BY <2>1, <2>5
    <3> HIDE DEF T
    <3> QED BY <3>1, LeastNumber
  <2>3. CASE j = 0
    BY <2>2, <2>3
  <2>4. CASE j # 0
    <3>1. j \in 1..(i - 1) /\ j \in Nat /\ j - 1 \in 0..(i - 1)
      BY <1>1, <2>2, <2>4
    <3>2. ~ Word(j - 1)
      BY <1>1, <2>2, <3>1
    <3>3. s[j] \notin WordCharacters
      <4>1. \A k \in ((j - 1) + 1)..i : k = j \/ k \in (j + 1)..i
        BY <1>1, <3>1
      <4> QED BY <2>2, <3>2, <4>1
    <3>4. s[j] = "." /\ j # 1
      BY <1>1, <1>4, <3>1, <3>3 DEF Labelled
    <3>5. s[j - 1] # "."
      BY <1>1, <1>4, <3>1, <3>4 DEF Labelled
    <3>6. Labelled(s, j - 1)
      BY <1>1, <1>4, <3>1, <3>4, <3>5 DEF Labelled
    <3> QED BY <2>2, <3>1, <3>4, <3>6
  <2> QED BY <2>3, <2>4
<1> QED BY <1>2, <1>3, <1>4

(* The recursive function is the closed form, by induction over the         *)
(* position: the closed form solves its equation, and only it does.         *)
LEMMA LabelsFact ==
  ASSUME NEW X, NEW s \in Seq(X)
  PROVE  \A i \in 0..Len(s) : Labels(s)[i] <=> Labelled(s, i)
<1>1. Len(s) \in Nat
  BY LenProperties
<1> DEFINE D == 0..Len(s)
           Step(f, i) == \E j \in 0..(i - 1) : /\ IsWord(SubSeq(s, j + 1, i))
                                               /\ j = 0 \/ (s[j] = "." /\ f[j - 1])
           Into(F, i) == \E j \in 0..(i - 1) : /\ IsWord(SubSeq(s, j + 1, i))
                                               /\ j = 0 \/ (s[j] = "." /\ j - 1 \in F)
           L == [i \in D |-> Labelled(s, i)]
           True(f) == {i \in D : f[i]}
           Holds(f) == {n \in Nat : \A i \in D : i < n => (i \in True(f) <=> Labelled(s, i))}
<1>0. ASSUME NEW f, NEW i \in D PROVE Step(f, i) <=> Into(True(f), i)
  <2>1. \A j \in 0..(i - 1) : j # 0 => j - 1 \in D
    BY <1>1
  <2>2. \A j \in 0..(i - 1) : j # 0 => (f[j - 1] <=> j - 1 \in True(f))
    BY <2>1, Zenon
  <2> QED BY <2>2, Zenon
<1>10. ASSUME NEW F, NEW i \in D, \A j \in 0..(i - 1) : j \in F <=> Labelled(s, j)
       PROVE  Labelled(s, i) <=> Into(F, i)
  BY <1>10, OneMoreLabel, Zenon
<1> HIDE DEF Into
<1>2. ASSUME NEW f, \A i \in D : f[i] <=> Step(f, i)
      PROVE  \A i \in D : f[i] <=> Labelled(s, i)
  <2>1. 0 \in Holds(f)
    OBVIOUS
  <2>5. \A i \in D : i \in True(f) <=> Into(True(f), i)
    BY <1>0, <1>2, Zenon
  <2> HIDE DEF True
  <2>2. ASSUME NEW n \in Nat, n \in Holds(f) PROVE n + 1 \in Holds(f)
    <3>1. ASSUME NEW i \in D, i < n + 1 PROVE i \in True(f) <=> Labelled(s, i)
      <4>1. \A j \in 0..(i - 1) : j \in True(f) <=> Labelled(s, j)
        BY <1>1, <2>2, <3>1
      <4>2. Labelled(s, i) <=> Into(True(f), i)
        BY <1>10, <4>1, Zenon
      <4> QED BY <2>5, <4>2
    <3> QED BY <3>1
  <2> HIDE DEF Holds
  <2>3. Nat \subseteq Holds(f)
    BY <2>1, <2>2, NumberInduction
  <2>4. Len(s) + 1 \in Holds(f)
    BY <1>1, <2>3
  <2>6. \A i \in D : i \in True(f) <=> Labelled(s, i)
    BY <1>1, <2>4 DEF Holds
  <2> QED BY <2>6, Zenon DEF True
<1>3. ASSUME NEW i \in D PROVE Labelled(s, i) = Step(L, i)
  <2>1. \A j \in 0..(i - 1) : j \in D
    BY <1>1
  <2>2. \A j \in D : L[j] <=> Labelled(s, j)
    OBVIOUS
  <2>3. \A j \in 0..(i - 1) : j \in True(L) <=> Labelled(s, j)
    BY <2>1, <2>2, Zenon
  <2> HIDE DEF L
  <2>4. Labelled(s, i) <=> Into(True(L), i)
    BY <1>10, <2>3, Zenon
  <2>5. Step(L, i) <=> Into(True(L), i)
    BY <1>0, Zenon
  <2>6. Labelled(s, i) \in BOOLEAN /\ Step(L, i) \in BOOLEAN
    BY DEF Labelled
  <2> HIDE DEF Step
  <2> QED BY <2>4, <2>5, <2>6
<1>4. L = [i \in D |-> Step(L, i)]
  <2>1. \A i \in D : Labelled(s, i) = Step(L, i)
    BY <1>3
  <2> QED BY <2>1
<1>5. Labels(s) = CHOOSE f : f = [i \in D |-> Step(f, i)]
  BY DEF Labels
<1> HIDE DEF L, Step
<1>6. Labels(s) = [i \in D |-> Step(Labels(s), i)]
  BY <1>4, <1>5
<1>7. \A i \in D : Labels(s)[i] <=> Step(Labels(s), i)
  BY <1>6
<1> QED BY <1>2, <1>7

(* The two parts around the character at, on the text itself.               *)
LocalPart(s, at) ==
  /\ at >= 2 /\ s[1] # "."
  /\ \A k \in 1..(at - 1) : s[k] \in WordCharacters \cup {"."}
  /\ \A a, b \in 1..(at - 1) : s[a] = "." /\ s[b] = "." => a = b

Domain(s, at) ==
  /\ at < Len(s) /\ s[at+1] # "." /\ s[Len(s)] # "."
  /\ \A k \in (at + 1)..Len(s) : s[k] \in WordCharacters \cup {"."}
  /\ \A k \in (at + 2)..Len(s) : s[k] = "." => s[k-1] # "."
  /\ \E d \in (at + 1)..Len(s) : s[d] = "."

(* What the expression before the @ matches: no dot in front, and one at    *)
(* most.                                                                    *)
LEMMA LocalPartFact ==
  ASSUME NEW X, NEW s \in Seq(X), NEW at \in 1..Len(s)
  PROVE  IsLocalPart(SubSeq(s, 1, at - 1)) <=> LocalPart(s, at)
<1>1. Len(s) \in Nat /\ at \in Nat /\ \A i \in 1..Len(s) : s[i] \in X
  BY LenProperties
<1>2. PICK u : u = SubSeq(s, 1, at - 1)
  OBVIOUS
<1>3. u \in Seq(X) /\ Len(u) = at - 1 /\ \A k \in 1..(at - 1) : u[k] = s[k]
  <2>1. 1 \in Int /\ at - 1 \in Int /\ \A i \in 1..(at - 1) : s[i] \in X
    BY <1>1
  <2>2. /\ SubSeq(s, 1, at - 1) \in Seq(X)
        /\ Len(SubSeq(s, 1, at - 1)) = IF 1 <= at - 1 THEN (at - 1) - 1 + 1 ELSE 0
        /\ \A i \in 1..((at - 1) - 1 + 1) : SubSeq(s, 1, at - 1)[i] = s[1+i-1]
    BY <2>1, SubSeqProperties
  <2>3. \A i \in 1..(at - 1) : 1 + i - 1 = i /\ i \in 1..((at - 1) - 1 + 1)
    BY <1>1
  <2> QED BY <1>1, <1>2, <2>2, <2>3
<1>4. \A m \in 1..(at + 1), n \in 0..(at - 1) :
        IsWord(SubSeq(u, m, n)) <=> \A k \in m..n : s[k] \in WordCharacters
  <2>1. SUFFICES ASSUME NEW m \in 1..(at + 1), NEW n \in 0..(at - 1)
                 PROVE  IsWord(SubSeq(u, m, n)) <=> \A k \in m..n : s[k] \in WordCharacters
    OBVIOUS
  <2>5. m \in Nat /\ n \in Nat /\ m >= 1 /\ n <= at - 1
    BY <1>1
  <2>2. m \in Nat /\ n \in Nat /\ m >= 1 /\ n <= Len(u)
    BY <1>3, <2>5
  <2>3. IsWord(SubSeq(u, m, n)) <=> \A k \in m..n : u[k] \in WordCharacters
    BY <1>3, <2>2, WordPart
  <2>4. \A k \in m..n : u[k] = s[k]
    <3>1. \A k \in m..n : k \in 1..(at - 1)
      BY <1>1, <2>5
    <3> QED BY <1>3, <3>1
  <2> QED BY <2>3, <2>4
<1>5. IsLocalPart(u) <=>
        \E i \in 1..(at - 1) :
          /\ \A k \in 1..i : s[k] \in WordCharacters
          /\ \/ \A k \in (i + 1)..(at - 1) : s[k] \in WordCharacters
             \/ /\ i < at - 1 /\ s[i+1] \in {".", "_"}
                /\ \A k \in (i + 2)..(at - 1) : s[k] \in WordCharacters
  <2>1. \A i \in 1..(at - 1) :
          /\ IsWord(SubSeq(u, 1, i)) <=> \A k \in 1..i : s[k] \in WordCharacters
          /\ IsWord(SubSeq(u, i + 1, at - 1))
               <=> \A k \in (i + 1)..(at - 1) : s[k] \in WordCharacters
          /\ IsWord(SubSeq(u, i + 2, at - 1))
               <=> \A k \in (i + 2)..(at - 1) : s[k] \in WordCharacters
    <3>1. \A i \in 1..(at - 1) : /\ 1 \in 1..(at + 1) /\ i \in 0..(at - 1)
                                 /\ i + 1 \in 1..(at + 1) /\ i + 2 \in 1..(at + 1)
                                 /\ at - 1 \in 0..(at - 1)
      BY <1>1
    <3> QED BY <1>4, <3>1
  <2>2. \A i \in 1..(at - 1) : i < at - 1 => u[i+1] = s[i+1]
    BY <1>1, <1>3
  <2> QED BY <1>3, <2>1, <2>2 DEF IsLocalPart
<1>6. "." \notin WordCharacters /\ "_" \in WordCharacters
  BY DEF WordCharacters
<1>7. ASSUME NEW i \in 1..(at - 1), \A k \in 1..i : s[k] \in WordCharacters,
             \/ \A k \in (i + 1)..(at - 1) : s[k] \in WordCharacters
             \/ /\ i < at - 1 /\ s[i+1] \in {".", "_"}
                /\ \A k \in (i + 2)..(at - 1) : s[k] \in WordCharacters
      PROVE  LocalPart(s, at)
  <2>1. \A k \in 1..(at - 1) : k \in 1..i \/ k = i + 1 \/ k \in (i + 2)..(at - 1)
    BY <1>1
  <2>2. \A k \in (i + 2)..(at - 1) : k \in (i + 1)..(at - 1)
    BY <1>1
  <2>3. \A k \in 1..(at - 1) : s[k] \in WordCharacters \/ (k = i + 1 /\ s[k] = ".")
    <3>1. ASSUME NEW k \in 1..(at - 1), k = i + 1
          PROVE  s[k] \in WordCharacters \/ s[k] = "."
      <4>1. k \in (i + 1)..(at - 1)
        BY <1>1, <3>1
      <4> QED BY <1>6, <1>7, <3>1, <4>1
    <3>2. \A k \in (i + 2)..(at - 1) : s[k] \in WordCharacters
      BY <1>7, <2>2
    <3> QED BY <1>7, <2>1, <3>1, <3>2
  <2>4. 1 \in 1..i /\ at >= 2
    BY <1>1
  <2> QED BY <1>6, <1>7, <2>3, <2>4 DEF LocalPart
<1>8. ASSUME LocalPart(s, at)
      PROVE  \E i \in 1..(at - 1) :
               /\ \A k \in 1..i : s[k] \in WordCharacters
               /\ \/ \A k \in (i + 1)..(at - 1) : s[k] \in WordCharacters
                  \/ /\ i < at - 1 /\ s[i+1] \in {".", "_"}
                     /\ \A k \in (i + 2)..(at - 1) : s[k] \in WordCharacters
  <2>1. at - 1 \in 1..(at - 1)
    BY <1>1, <1>8 DEF LocalPart
  <2>2. CASE \A k \in 1..(at - 1) : s[k] # "."
    <3>1. \A k \in 1..(at - 1) : s[k] \in WordCharacters
      BY <1>8, <2>2 DEF LocalPart
    <3>2. \A k \in ((at - 1) + 1)..(at - 1) : s[k] \in WordCharacters
      BY <1>1
    <3> QED BY <2>1, <3>1, <3>2
  <2>3. CASE \E d \in 1..(at - 1) : s[d] = "."
    <3>1. PICK d \in 1..(at - 1) : s[d] = "."
      BY <2>3
    <3>2. \A k \in 1..(at - 1) : k # d => s[k] \in WordCharacters
      BY <1>8, <3>1 DEF LocalPart
    <3>3. d # 1 /\ d \in Nat /\ d - 1 \in 1..(at - 1) /\ d - 1 < at - 1
      BY <1>1, <1>8, <3>1 DEF LocalPart
    <3>4. PICK i \in 1..(at - 1) : i = d - 1
      BY <3>3
    <3>5. \A k \in 1..i : k \in 1..(at - 1) /\ k # d
      BY <1>1, <3>3, <3>4
    <3>6. \A k \in (i + 2)..(at - 1) : k \in 1..(at - 1) /\ k # d
      BY <1>1, <3>3, <3>4
    <3>7. i + 1 = d /\ i < at - 1
      BY <1>1, <3>3, <3>4
    <3> QED BY <3>1, <3>2, <3>5, <3>6, <3>7
  <2> QED BY <2>2, <2>3
<1> QED BY <1>2, <1>5, <1>7, <1>8

(* What the expression after the @ matches: two labels or more.             *)
LEMMA DomainFact ==
  ASSUME NEW X, NEW s \in Seq(X), NEW at \in 1..Len(s)
  PROVE  IsDomain(SubSeq(s, at + 1, Len(s))) <=> Domain(s, at)
<1>1. Len(s) \in Nat /\ at \in Nat /\ \A i \in 1..Len(s) : s[i] \in X
  BY LenProperties
<1>2. PICK u : u = SubSeq(s, at + 1, Len(s))
  OBVIOUS
<1>3. PICK n \in Nat : n = Len(s) - at
  <2>1. Len(s) - at \in Nat
    BY <1>1
  <2> QED BY <2>1
<1>4. u \in Seq(X) /\ Len(u) = n /\ \A k \in 1..n : u[k] = s[at+k]
  <2>1. at + 1 \in Int /\ Len(s) \in Int /\ \A i \in (at + 1)..Len(s) : s[i] \in X
    BY <1>1
  <2>2. /\ SubSeq(s, at + 1, Len(s)) \in Seq(X)
        /\ Len(SubSeq(s, at + 1, Len(s)))
             = IF at + 1 <= Len(s) THEN Len(s) - (at + 1) + 1 ELSE 0
        /\ \A i \in 1..(Len(s) - (at + 1) + 1) :
             SubSeq(s, at + 1, Len(s))[i] = s[(at+1)+i-1]
    BY <2>1, SubSeqProperties
  <2>3. \A i \in 1..n : (at + 1) + i - 1 = at + i /\ i \in 1..(Len(s) - (at + 1) + 1)
    BY <1>1, <1>3
  <2> QED BY <1>1, <1>2, <1>3, <2>2, <2>3
<1>5. IsDomain(u) <=> Labelled(u, n) /\ \E d \in 1..n : u[d] = "."
  <2> DEFINE F == {i \in 0..n : Labelled(u, i)}
  <2>1. n \in 0..Len(u) /\ \A j \in 0..(n - 1) : j \in F <=> Labelled(u, j)
    BY <1>3, <1>4
  <2>2. Labelled(u, n) <=>
          \E j \in 0..(n - 1) : /\ IsWord(SubSeq(u, j + 1, n))
                                /\ j = 0 \/ (u[j] = "." /\ j - 1 \in F)
    <3> HIDE DEF F
    <3> QED BY <1>4, <2>1, OneMoreLabel
  <2>3. \A i \in 0..n : Labels(u)[i] <=> Labelled(u, i)
    BY <1>4, LabelsFact
  <2>4. \A j \in 1..(n - 1) : j - 1 \in 0..n /\ j \in 0..(n - 1) /\ j # 0 /\ j \in 1..n
    BY <1>3
  <2>5. ASSUME NEW j \in 1..(n - 1), Labels(u)[j - 1], u[j] = ".", IsWord(SubSeq(u, j + 1, n))
        PROVE  Labelled(u, n) /\ \E d \in 1..n : u[d] = "."
    <3>1. j - 1 \in F
      BY <2>3, <2>4, <2>5
    <3> QED BY <2>2, <2>4, <2>5, <3>1
  <2>6. ASSUME Labelled(u, n), NEW d \in 1..n, u[d] = "."
        PROVE  \E j \in 1..(n - 1) : /\ Labels(u)[j - 1] /\ u[j] = "."
                                     /\ IsWord(SubSeq(u, j + 1, n))
    <3>1. PICK j \in 0..(n - 1) : /\ IsWord(SubSeq(u, j + 1, n))
                                  /\ j = 0 \/ (u[j] = "." /\ j - 1 \in F)
      BY <2>2, <2>6
    <3>2. j # 0
      <4>1. SUFFICES ASSUME j = 0 PROVE FALSE
        OBVIOUS
      <4>2. 1 \in Nat /\ 1 >= 1 /\ n <= Len(u)
        BY <1>3, <1>4
      <4>3. IsWord(SubSeq(u, 1, n)) <=> \A k \in 1..n : u[k] \in WordCharacters
        BY <1>3, <1>4, <4>2, WordPart
      <4>4. IsWord(SubSeq(u, 1, n))
        BY <3>1, <4>1
      <4> QED BY <2>6, <4>3, <4>4 DEF WordCharacters
    <3>3. j \in 1..(n - 1) /\ u[j] = "." /\ j - 1 \in F
      BY <1>3, <3>1, <3>2
    <3>4. Labels(u)[j - 1]
      BY <2>3, <3>3
    <3> QED BY <3>1, <3>3, <3>4
  <2> QED BY <1>4, <2>5, <2>6 DEF IsDomain
<1>6. Labelled(u, n) /\ (\E d \in 1..n : u[d] = ".") <=> Domain(s, at)
  <2>1. ASSUME Labelled(u, n), NEW d \in 1..n, u[d] = "." PROVE Domain(s, at)
    <3>1. n >= 1 /\ at + n = Len(s) /\ at < Len(s) /\ at + d \in (at + 1)..Len(s)
      BY <1>1, <1>3
    <3>2. s[at + 1] # "." /\ s[Len(s)] # "." /\ s[at + d] = "."
      <4>1. 1 \in 1..n /\ n \in 1..n
        BY <3>1
      <4>2. u[1] = s[at + 1] /\ u[n] = s[at + n] /\ u[d] = s[at + d]
        BY <1>4, <4>1
      <4> QED BY <2>1, <3>1, <4>2 DEF Labelled
    <3>3. \A k \in (at + 1)..Len(s) : s[k] \in WordCharacters \cup {"."}
      <4>1. SUFFICES ASSUME NEW k \in (at + 1)..Len(s)
                     PROVE  s[k] \in WordCharacters \cup {"."}
        OBVIOUS
      <4>2. k - at \in 1..n /\ at + (k - at) = k
        BY <1>1, <1>3
      <4>3. u[k - at] = s[k]
        BY <1>4, <4>2
      <4> QED BY <2>1, <4>2, <4>3 DEF Labelled
    <3>4. \A k \in (at + 2)..Len(s) : s[k] = "." => s[k-1] # "."
      <4>1. SUFFICES ASSUME NEW k \in (at + 2)..Len(s), s[k] = "." PROVE s[k-1] # "."
        OBVIOUS
      <4>2. /\ k - at \in 2..n /\ k - at \in 1..n /\ at + (k - at) = k
            /\ (k - at) - 1 \in 1..n /\ at + ((k - at) - 1) = k - 1
        BY <1>1, <1>3
      <4>3. u[k - at] = s[k] /\ u[(k - at) - 1] = s[k-1]
        BY <1>4, <4>2
      <4> QED BY <2>1, <4>1, <4>2, <4>3 DEF Labelled
    <3> QED BY <3>1, <3>2, <3>3, <3>4 DEF Domain
  <2>2. ASSUME Domain(s, at) PROVE Labelled(u, n) /\ \E d \in 1..n : u[d] = "."
    <3>1. n >= 1 /\ at + n = Len(s) /\ 1 \in 1..n /\ n \in 1..n
      BY <1>1, <1>3, <2>2 DEF Domain
    <3>2. u[1] # "." /\ u[n] # "."
      BY <1>4, <2>2, <3>1 DEF Domain
    <3>3. \A k \in 1..n : u[k] \in WordCharacters \cup {"."}
      <4>1. \A k \in 1..n : at + k \in (at + 1)..Len(s)
        BY <1>1, <1>3
      <4> QED BY <1>4, <2>2, <4>1 DEF Domain
    <3>4. \A k \in 2..n : u[k] = "." => u[k-1] # "."
      <4>1. SUFFICES ASSUME NEW k \in 2..n, u[k] = "." PROVE u[k-1] # "."
        OBVIOUS
      <4>2. /\ at + k \in (at + 2)..Len(s) /\ at + (k - 1) = (at + k) - 1
            /\ k \in 1..n /\ k - 1 \in 1..n
        BY <1>1, <1>3
      <4>3. s[at+k] = "." /\ u[k-1] = s[(at+k)-1]
        BY <1>4, <4>1, <4>2
      <4> QED BY <2>2, <4>2, <4>3 DEF Domain
    <3>5. \E d \in 1..n : u[d] = "."
      <4>1. PICK e \in (at + 1)..Len(s) : s[e] = "."
        BY <2>2 DEF Domain
      <4>2. e - at \in 1..n /\ at + (e - at) = e
        BY <1>1, <1>3
      <4>3. u[e - at] = "."
        BY <1>4, <4>1, <4>2
      <4> QED BY <4>2, <4>3
    <3> QED BY <3>1, <3>2, <3>3, <3>4, <3>5 DEF Labelled
  <2> QED BY <2>1, <2>2
<1> QED BY <1>2, <1>5, <1>6

(* Of every text of any characters.                                         *)
LEMMA EmailFact ==
  ASSUME NEW X, NEW s \in Seq(X)
  PROVE  ValidateEmail(s) <=> IsEmail(s)
<1>1. Len(s) \in Nat
  BY LenProperties
<1>2. ValidateEmail(s) <=> \E at \in 1..Len(s) : s[at] = "@" /\ LocalPart(s, at) /\ Domain(s, at)
  <2>1. \A at \in 1..Len(s) :
          /\ IsLocalPart(SubSeq(s, 1, at - 1)) <=> LocalPart(s, at)
          /\ IsDomain(SubSeq(s, at + 1, Len(s))) <=> Domain(s, at)
    BY LocalPartFact, DomainFact
  <2> QED BY <2>1 DEF ValidateEmail
<1> DEFINE dots == {i \in 1..Len(s) : s[i] = "."}
           before(at) == {i \in dots : i < at}
<1>3. \A i \in 1..Len(s) : IsWord(<<s[i]>>) <=> s[i] \in WordCharacters
  BY DEF IsWord
<1>4. ASSUME NEW at \in 1..Len(s)
      PROVE  Cardinality(before(at)) <= 1 <=> \A a, b \in before(at) : a = b
  <2>1. IsFiniteSet(before(at))
    <3>1. IsFiniteSet(1..Len(s))
      BY <1>1, FS_Interval
    <3>2. before(at) \in SUBSET (1..Len(s))
      OBVIOUS
    <3> HIDE DEF before
    <3> QED BY <3>1, <3>2, FS_Subset
  <2> HIDE DEF before
  <2>2. PICK D : D = before(at)
    OBVIOUS
  <2>3. Cardinality(D) \in Nat
    BY <2>1, <2>2, FS_CardinalityType
  <2>4. ASSUME Cardinality(D) <= 1 PROVE \A a, b \in D : a = b
    <3>1. CASE Cardinality(D) = 0
      <4>1. D = {}
        BY <2>1, <2>2, <3>1, FS_EmptySet
      <4> QED BY <4>1
    <3>2. CASE Cardinality(D) = 1
      <4>1. \E x : D = {x}
        BY <2>1, <2>2, <3>2, FS_Singleton
      <4> QED BY <4>1
    <3> QED BY <2>3, <2>4, <3>1, <3>2
  <2>5. ASSUME \A a, b \in D : a = b PROVE Cardinality(D) <= 1
    <3>1. CASE D = {}
      BY <3>1, FS_EmptySet
    <3>2. CASE D # {}
      <4>1. PICK x : D = {x}
        BY <2>5, <3>2
      <4>2. Cardinality(D) = 1
        BY <2>1, <2>2, <4>1, FS_Singleton
      <4> QED BY <4>2
    <3> QED BY <3>1, <3>2
  <2> QED BY <2>2, <2>4, <2>5
<1>5. ASSUME NEW at \in 1..Len(s), s[at] = "@", LocalPart(s, at), Domain(s, at)
      PROVE  IsEmail(s)
  <2>1. at \in 2..Len(s) /\ 1 \notin dots
    BY <1>1, <1>5 DEF LocalPart
  <2>2. \A i \in 1..Len(s) : i = at \/ i \in dots \/ IsWord(<<s[i]>>)
    <3>1. \A i \in 1..Len(s) : i = at \/ i \in 1..(at - 1) \/ i \in (at + 1)..Len(s)
      BY <1>1
    <3>2. \A i \in 1..Len(s) : i = at \/ s[i] \in WordCharacters \cup {"."}
      BY <1>5, <3>1 DEF LocalPart, Domain
    <3> QED BY <1>3, <3>2
  <2>3. Cardinality(before(at)) <= 1
    <3>1. \A a \in before(at) : a \in 1..(at - 1) /\ s[a] = "."
      BY <1>1
    <3>2. \A a, b \in before(at) : a = b
      BY <1>5, <3>1 DEF LocalPart
    <3> HIDE DEF before
    <3> QED BY <1>4, <3>2
  <2>4. \E i \in dots : i > at
    <3>1. PICK d \in (at + 1)..Len(s) : s[d] = "."
      BY <1>5 DEF Domain
    <3>2. d \in dots /\ d > at
      BY <1>1, <3>1
    <3> QED BY <3>2
  <2>5. ASSUME NEW i \in dots, i > at PROVE i - 1 \notin dots \cup {at} /\ i # Len(s)
    <3>1. i # at + 1 /\ i # Len(s)
      BY <1>1, <1>5, <2>5 DEF Domain
    <3>2. i \in (at + 2)..Len(s)
      BY <1>1, <2>5, <3>1
    <3>3. s[i - 1] # "."
      BY <1>5, <2>5, <3>2 DEF Domain
    <3> QED BY <1>1, <3>1, <3>2, <3>3
  <2> QED BY <2>1, <2>2, <2>3, <2>4, <2>5, <1>5 DEF IsEmail
<1>6. ASSUME IsEmail(s)
      PROVE  \E at \in 1..Len(s) : s[at] = "@" /\ LocalPart(s, at) /\ Domain(s, at)
  <2>1. PICK at \in 2..Len(s) :
          /\ s[at] = "@" /\ \A i \in 1..Len(s) : i = at \/ i \in dots \/ IsWord(<<s[i]>>)
          /\ 1 \notin dots /\ Cardinality(before(at)) <= 1
          /\ \E i \in dots : i > at
          /\ \A i \in dots : i > at => i - 1 \notin dots \cup {at} /\ i # Len(s)
    BY <1>6 DEF IsEmail
  <2>2. at \in 1..Len(s) /\ at \in Nat /\ at >= 2
    BY <1>1
  <2>3. \A i \in 1..Len(s) : i # at => s[i] \in WordCharacters \cup {"."}
    BY <1>3, <2>1
  <2>4. LocalPart(s, at)
    <3>1. s[1] # "."
      BY <1>1, <2>1, <2>2
    <3>2. \A k \in 1..(at - 1) : k \in 1..Len(s) /\ k # at /\ k < at
      BY <1>1, <2>2
    <3>3. \A a, b \in before(at) : a = b
      <4> HIDE DEF before
      <4> QED BY <1>4, <2>1, <2>2
    <3>4. \A a \in 1..(at - 1) : s[a] = "." => a \in before(at)
      BY <3>2
    <3> HIDE DEF before
    <3> QED BY <2>2, <2>3, <3>1, <3>2, <3>3, <3>4 DEF LocalPart
  <2>5. Domain(s, at)
    <3>1. \E d \in (at + 1)..Len(s) : s[d] = "."
      <4>1. PICK d \in dots : d > at
        BY <2>1
      <4>2. d \in (at + 1)..Len(s) /\ s[d] = "."
        BY <1>1, <2>2, <4>1
      <4> QED BY <4>2
    <3>2. at < Len(s)
      BY <1>1, <2>2, <3>1
    <3>3. ASSUME NEW i \in (at + 1)..Len(s), s[i] = "."
          PROVE  i - 1 # at /\ i # Len(s) /\ (i - 1 \in 1..Len(s) => s[i-1] # ".")
      <4>1. i \in dots /\ i > at
        BY <1>1, <2>2, <3>3
      <4> QED BY <2>1, <4>1
    <3>4. s[at+1] # "." /\ s[Len(s)] # "."
      <4>1. at + 1 \in (at + 1)..Len(s) /\ (at + 1) - 1 = at /\ Len(s) \in (at + 1)..Len(s)
        BY <1>1, <2>2, <3>2
      <4> QED BY <3>3, <4>1
    <3>5. \A k \in (at + 1)..Len(s) : s[k] \in WordCharacters \cup {"."}
      <4>1. \A k \in (at + 1)..Len(s) : k \in 1..Len(s) /\ k # at
        BY <1>1, <2>2
      <4> QED BY <2>3, <4>1
    <3>6. \A k \in (at + 2)..Len(s) : s[k] = "." => s[k-1] # "."
      <4>1. \A k \in (at + 2)..Len(s) : k \in (at + 1)..Len(s) /\ k - 1 \in 1..Len(s)
        BY <1>1, <2>2
      <4> QED BY <3>3, <4>1
    <3> QED BY <3>1, <3>2, <3>4, <3>5, <3>6 DEF Domain
  <2> QED BY <2>1, <2>2, <2>4, <2>5
<1> QED BY <1>2, <1>5, <1>6

(* The text is typed out of the two alphabets.                              *)
LEMMA TextAlways == Spec => [](text \in Seq(TitleCharacters \cup EmailCharacters))
<1> DEFINE X == TitleCharacters \cup EmailCharacters
           Ok == text \in Seq(X)
<1>1. Init => Ok
  BY DEF Init
<1>2. Ok /\ [Next]_<<request, name, length, text>> => Ok'
  <2>1. ASSUME Ok, NEW c \in X, text' = Append(text, c) PROVE Ok'
    BY <2>1, AppendProperties
  <2> QED BY <2>1 DEF Next, Type, Count
<1> QED BY <1>1, <1>2, PTL DEF Spec

(* An address of any length that ValidateEmail accepts has one @ and a      *)
(* domain of two labels or more, and each such address is accepted.         *)
THEOREM EmailsAlwaysHaveDomain == Spec => []EmailsHaveDomain
<1>1. text \in Seq(TitleCharacters \cup EmailCharacters) => EmailsHaveDomain
  BY EmailFact DEF EmailsHaveDomain
<1> QED BY <1>1, TextAlways, PTL

-----------------------------------------------------------------------------
(* Slugify. Its passes are flattened sequences. Solves says that f is the   *)
(* recursive function inside FlattenSeq.                                    *)
Solves(f, ss) ==
  f = [i \in 1..Len(ss) |-> IF i = 1 THEN ss[i] ELSE f[i-1] \o ss[i]]

(* Two solutions for sequences with a common beginning agree on it.         *)
LEMMA SolutionsAgree ==
  ASSUME NEW f, NEW g, NEW ss, NEW tt, NEW n \in Nat,
         Len(ss) \in Nat, Len(tt) \in Nat, n <= Len(ss), n <= Len(tt),
         \A i \in 1..n : ss[i] = tt[i], Solves(f, ss), Solves(g, tt)
  PROVE  \A i \in 1..n : f[i] = g[i]
<1> DEFINE S == {k \in Nat : \A i \in 1..n : i <= k => f[i] = g[i]}
<1>1. 0 \in S
  OBVIOUS
<1>2. ASSUME NEW k \in Nat, k \in S PROVE k + 1 \in S
  <2>1. ASSUME NEW i \in 1..n, i <= k + 1 PROVE f[i] = g[i]
    <3>1. i \in 1..Len(ss) /\ i \in 1..Len(tt)
      OBVIOUS
    <3>2. f[i] = IF i = 1 THEN ss[i] ELSE f[i-1] \o ss[i]
      BY <3>1, Zenon DEF Solves
    <3>3. g[i] = IF i = 1 THEN tt[i] ELSE g[i-1] \o tt[i]
      BY <3>1, Zenon DEF Solves
    <3>4. i # 1 => i - 1 \in 1..n /\ i - 1 <= k
      BY <2>1
    <3>5. i # 1 => f[i-1] = g[i-1]
      BY <1>2, <3>4
    <3> QED BY <3>2, <3>3, <3>5
  <2> QED BY <2>1
<1> HIDE DEF S
<1>3. n \in S
  BY <1>1, <1>2, NumberInduction
<1> QED BY <1>3 DEF S

(* There is a solution for every sequence of texts.                         *)
LEMMA SolutionExists ==
  ASSUME NEW Y, NEW ss \in Seq(Seq(Y))
  PROVE  \E f \in [1..Len(ss) -> Seq(Y)] : Solves(f, ss)
<1> DEFINE S == {r \in Seq(Seq(Y)) : \E f \in [1..Len(r) -> Seq(Y)] : Solves(f, r)}
<1>1. <<>> \in S
  <2>1. <<>> \in [1..Len(<<>>) -> Seq(Y)] /\ Solves(<<>>, <<>>)
    BY DEF Solves
  <2> QED BY <2>1, EmptySeq
<1>2. ASSUME NEW r \in Seq(Seq(Y)), NEW x \in Seq(Y), r \in S PROVE Append(r, x) \in S
  <2>1. PICK f \in [1..Len(r) -> Seq(Y)] : Solves(f, r)
    BY <1>2
  <2>2. PICK n \in Nat : n = Len(r)
    BY LenProperties
  <2>3. PICK rx : rx = Append(r, x)
    OBVIOUS
  <2>4. /\ rx \in Seq(Seq(Y)) /\ Len(rx) = n + 1
        /\ \A i \in 1..n : rx[i] = r[i]
        /\ rx[n+1] = x
    BY <2>2, <2>3, AppendProperties
  <2> DEFINE g == [i \in 1..(n + 1) |->
                     IF i <= n THEN f[i] ELSE IF n = 0 THEN x ELSE f[n] \o x]
  <2>5. \A i \in 1..(n + 1) : g[i] = IF i = 1 THEN rx[i] ELSE g[i-1] \o rx[i]
    <3>1. SUFFICES ASSUME NEW i \in 1..(n + 1)
                   PROVE  g[i] = IF i = 1 THEN rx[i] ELSE g[i-1] \o rx[i]
      OBVIOUS
    <3>2. CASE i <= n
      <4>1. i \in 1..n /\ i \in 1..Len(r) /\ (i # 1 => i - 1 \in 1..(n + 1) /\ i - 1 <= n)
        BY <2>2, <3>2
      <4>2. f[i] = IF i = 1 THEN r[i] ELSE f[i-1] \o r[i]
        BY <2>1, <4>1, Zenon DEF Solves
      <4>3. g[i] = f[i] /\ (i # 1 => g[i-1] = f[i-1])
        BY <4>1
      <4> HIDE DEF g
      <4> QED BY <2>4, <4>1, <4>2, <4>3
    <3>3. CASE i = n + 1
      <4>1. ~ (i <= n) /\ (i # 1 => n # 0 /\ n \in 1..(n + 1) /\ n <= n /\ i - 1 = n)
        BY <3>3
      <4>2. g[i] = (IF n = 0 THEN x ELSE f[n] \o x) /\ (i # 1 => g[n] = f[n])
        BY <4>1
      <4> HIDE DEF g
      <4> QED BY <2>4, <3>3, <4>1, <4>2
    <3> QED BY <3>2, <3>3
  <2>6. g \in [1..(n + 1) -> Seq(Y)]
    <3>3. \A i \in 1..n : f[i] \in Seq(Y)
      BY <2>1, <2>2
    <3>1. \A i \in 1..(n + 1) : i <= n => f[i] \in Seq(Y)
      BY <3>3
    <3>2. ASSUME n # 0 PROVE f[n] \o x \in Seq(Y)
      <4>1. f[n] \in Seq(Y)
        BY <3>2, <3>3
      <4> QED BY <4>1, ConcatProperties
    <3> QED BY <3>1, <3>2
  <2>7. g = [i \in 1..(n + 1) |-> IF i = 1 THEN rx[i] ELSE g[i-1] \o rx[i]]
    <3> DEFINE h == [i \in 1..(n + 1) |-> IF i = 1 THEN rx[i] ELSE g[i-1] \o rx[i]]
    <3>1. \A i \in 1..(n + 1) : g[i] = h[i]
      BY <2>5, Zenon
    <3>2. g \in [1..(n + 1) -> Seq(Y)] /\ DOMAIN h = 1..(n + 1) /\ h = [i \in 1..(n + 1) |-> h[i]]
      BY <2>6
    <3> HIDE DEF g, h
    <3>3. g = h
      BY <3>1, <3>2
    <3> QED BY <3>3 DEF h
  <2>8. Solves(g, rx)
    BY <2>4, <2>7, Zenon DEF Solves
  <2> HIDE DEF g
  <2> QED BY <2>3, <2>4, <2>6, <2>8
<1>3. ss \in S
  <2> HIDE DEF S
  <2> QED BY <1>1, <1>2, TextInduction
<1> QED BY <1>3

(* So FlattenSeq is the last value of one.                                  *)
LEMMA FlattenFact ==
  ASSUME NEW Y, NEW ss \in Seq(Seq(Y))
  PROVE  /\ ss = <<>> => FlattenSeq(ss) = <<>>
         /\ ss # <<>> => \E f \in [1..Len(ss) -> Seq(Y)] :
                           Solves(f, ss) /\ FlattenSeq(ss) = f[Len(ss)]
<1>1. ss = <<>> => FlattenSeq(ss) = <<>>
  BY DEF FlattenSeq
<1>2. ASSUME ss # <<>>
      PROVE  \E f \in [1..Len(ss) -> Seq(Y)] : Solves(f, ss) /\ FlattenSeq(ss) = f[Len(ss)]
  <2>1. Len(ss) \in Nat /\ Len(ss) # 0
    BY <1>2, EmptySeq
  <2>2. PICK f \in [1..Len(ss) -> Seq(Y)] : Solves(f, ss)
    BY SolutionExists
  <2>3. PICK g : g = CHOOSE h : h = [i \in 1..Len(ss) |-> IF i = 1 THEN ss[i] ELSE h[i-1] \o ss[i]]
    OBVIOUS
  <2>4. FlattenSeq(ss) = g[Len(ss)]
    BY <2>1, <2>3 DEF FlattenSeq
  <2>5. Solves(g, ss)
    BY <2>2, <2>3 DEF Solves
  <2>6. \A i \in 1..Len(ss) : f[i] = g[i]
    BY <2>1, <2>2, <2>5, SolutionsAgree
  <2>7. f[Len(ss)] = g[Len(ss)]
    BY <2>1, <2>6
  <2> QED BY <2>2, <2>4, <2>7
<1> QED BY <1>1, <1>2

(* The two equations of FlattenSeq that later proofs cite: it is a text,    *)
(* and one more part is put behind it.                                      *)
LEMMA FlattenAppend ==
  ASSUME NEW Y, NEW ss \in Seq(Seq(Y)), NEW x \in Seq(Y)
  PROVE  /\ FlattenSeq(ss) \in Seq(Y)
         /\ FlattenSeq(Append(ss, x)) = FlattenSeq(ss) \o x
<1>1. Len(ss) \in Nat
  BY LenProperties
<1>2. PICK sx : sx = Append(ss, x)
  OBVIOUS
<1>3. /\ sx \in Seq(Seq(Y)) /\ sx # <<>> /\ Len(sx) = Len(ss) + 1
      /\ \A i \in 1..Len(ss) : sx[i] = ss[i]
      /\ sx[Len(ss)+1] = x
  BY <1>2, AppendProperties
<1>4. PICK g \in [1..Len(sx) -> Seq(Y)] : Solves(g, sx) /\ FlattenSeq(sx) = g[Len(sx)]
  BY <1>3, FlattenFact
<1>5. g[Len(ss)+1] = IF Len(ss) + 1 = 1 THEN sx[Len(ss)+1] ELSE g[(Len(ss)+1)-1] \o sx[Len(ss)+1]
  <2>1. Len(ss) + 1 \in 1..Len(sx)
    BY <1>1, <1>3
  <2> QED BY <1>4, <2>1, Zenon DEF Solves
<1>6. CASE ss = <<>>
  <2>1. FlattenSeq(ss) = <<>> /\ Len(ss) = 0
    BY <1>6, FlattenFact
  <2>2. FlattenSeq(sx) = x
    BY <1>3, <1>4, <1>5, <2>1
  <2> QED BY <1>2, <2>1, <2>2, EmptySeq, ConcatEmptySeq
<1>7. CASE ss # <<>>
  <2>1. PICK f \in [1..Len(ss) -> Seq(Y)] : Solves(f, ss) /\ FlattenSeq(ss) = f[Len(ss)]
    BY <1>7, FlattenFact
  <2>2. Len(ss) # 0 /\ Len(ss) \in 1..Len(ss) /\ (Len(ss) + 1) - 1 = Len(ss) /\ Len(ss) + 1 # 1
    BY <1>1, <1>7, EmptySeq
  <2>3. Len(ss) <= Len(sx) /\ Len(sx) \in Nat /\ Len(ss) <= Len(ss)
    BY <1>1, <1>3
  <2>4. \A i \in 1..Len(ss) : ss[i] = sx[i]
    BY <1>3
  <2>7. Solves(f, ss) /\ Solves(g, sx)
    BY <1>4, <2>1
  <2>8. PICK n \in Nat : n = Len(ss)
    BY <1>1
  <2>9. n <= Len(ss) /\ n <= Len(sx) /\ \A i \in 1..n : ss[i] = sx[i]
    BY <2>3, <2>4, <2>8
  <2>5. \A i \in 1..n : f[i] = g[i]
    BY <1>1, <2>3, <2>7, <2>9, SolutionsAgree
  <2>6. g[Len(ss)+1] = f[Len(ss)] \o x
    BY <1>3, <1>5, <2>2, <2>5, <2>8
  <2> QED BY <1>2, <1>3, <1>4, <2>1, <2>2, <2>6
<1> QED BY <1>6, <1>7

(* The parts of Words, each with a name: where a word starts, the rank of a *)
(* start, and where the word that starts at i ends.                         *)
Starts(s, gaps) == {i \in 1..Len(s) : s[i] \notin gaps /\ (i = 1 \/ s[i-1] \in gaps)}
RankIn(S, i) == Cardinality({j \in S : j <= i})
EndsAt(s, gaps, i, k) ==
  /\ k \in i..Len(s) /\ \A l \in i..k : s[l] \notin gaps
  /\ k = Len(s) \/ s[k+1] \in gaps

(* The m words of s go from b[k] to e[k]. The last clause is what makes it  *)
(* inductive over s: only the last word can reach the end of the text.      *)
Cut(s, gaps, m, b, e) ==
  /\ b \in [1..m -> 1..Len(s)] /\ e \in [1..m -> 1..Len(s)]
  /\ Starts(s, gaps) = {b[k] : k \in 1..m} /\ Cardinality(Starts(s, gaps)) = m
  /\ \A k \in 1..m : RankIn(Starts(s, gaps), b[k]) = k /\ EndsAt(s, gaps, b[k], e[k])
  /\ Len(s) # 0 /\ s[Len(s)] \notin gaps =>
       m # 0 /\ e[m] = Len(s) /\ \A k \in 1..(m - 1) : e[k] # Len(s)

(* What one more character does to b and e, and the words they cut out.     *)
Grown(f, m, x) == [k \in 1..(m + 1) |-> IF k <= m THEN f[k] ELSE x]
Moved(f, m, x) == [f EXCEPT ![m] = x]
Parts(s, m, b, e) == [k \in 1..m |-> SubSeq(s, b[k], e[k])]

(* A word ends at one place only.                                           *)
LEMMA EndsOnce ==
  ASSUME NEW s, Len(s) \in Nat, NEW gaps, NEW i \in 1..Len(s),
         NEW k, EndsAt(s, gaps, i, k), NEW l, EndsAt(s, gaps, i, l)
  PROVE  k = l
<1>1. i \in Nat /\ k \in i..Len(s) /\ l \in i..Len(s) /\ k \in Nat /\ l \in Nat
  BY DEF EndsAt
<1>2. CASE k < l
  <2>1. k + 1 \in i..l /\ k # Len(s)
    BY <1>1, <1>2
  <2> QED BY <2>1 DEF EndsAt
<1>3. CASE l < k
  <2>1. l + 1 \in i..k /\ l # Len(s)
    BY <1>1, <1>3
  <2> QED BY <2>1 DEF EndsAt
<1> QED BY <1>1, <1>2, <1>3

(* Words chooses what Cut names.                                            *)
LEMMA WordsOfCut ==
  ASSUME NEW s, Len(s) \in Nat, NEW gaps, NEW m \in Nat, NEW b, NEW e, Cut(s, gaps, m, b, e)
  PROVE  Words(s, gaps) = Parts(s, m, b, e)
<1> DEFINE end(i) == CHOOSE k \in i..Len(s) : /\ \A l \in i..k : s[l] \notin gaps
                                              /\ k = Len(s) \/ s[k+1] \in gaps
           start(k) == CHOOSE i \in Starts(s, gaps) : RankIn(Starts(s, gaps), i) = k
<1>1. Words(s, gaps) = [k \in 1..Cardinality(Starts(s, gaps)) |->
                          SubSeq(s, start(k), end(start(k)))]
  BY DEF Words, Starts, RankIn
<1>2. Cardinality(Starts(s, gaps)) = m
  BY DEF Cut
<1>3. ASSUME NEW k \in 1..m PROVE start(k) = b[k] /\ end(b[k]) = e[k]
  <2>1. b[k] \in Starts(s, gaps) /\ RankIn(Starts(s, gaps), b[k]) = k
    BY DEF Cut
  <2>2. \A i \in Starts(s, gaps) : RankIn(Starts(s, gaps), i) = k => i = b[k]
    BY DEF Cut
  <2>3. start(k) = b[k]
    BY <2>1, <2>2
  <2>4. EndsAt(s, gaps, b[k], e[k]) /\ b[k] \in 1..Len(s)
    BY DEF Cut
  <2>5. end(b[k]) = CHOOSE j : EndsAt(s, gaps, b[k], j)
    BY DEF EndsAt
  <2>6. PICK i \in 1..Len(s) : i = b[k]
    BY <2>4
  <2>7. PICK j : j = e[k]
    OBVIOUS
  <2>8. \A l : EndsAt(s, gaps, i, l) => l = j
    BY <2>4, <2>6, <2>7, EndsOnce
  <2> HIDE DEF end
  <2>9. end(b[k]) = e[k]
    BY <2>4, <2>5, <2>6, <2>7, <2>8
  <2> QED BY <2>3, <2>9
<1> HIDE DEF start, end
<1> QED BY <1>1, <1>2, <1>3 DEF Parts

(* One more character: a gap changes nothing, another one starts a word     *)
(* after a gap and makes the last word longer otherwise.                    *)
LEMMA CutAppend ==
  ASSUME NEW X, NEW s \in Seq(X), NEW c \in X, NEW gaps, NEW m \in Nat, NEW b, NEW e,
         Cut(s, gaps, m, b, e), NEW n \in Nat, n = Len(s)
  PROVE  /\ c \in gaps => Cut(Append(s, c), gaps, m, b, e)
         /\ c \notin gaps /\ (n = 0 \/ s[n] \in gaps) =>
              Cut(Append(s, c), gaps, m + 1, Grown(b, m, n + 1), Grown(e, m, n + 1))
         /\ c \notin gaps /\ n # 0 /\ s[n] \notin gaps =>
              Cut(Append(s, c), gaps, m, b, Moved(e, m, n + 1))
<1>1. PICK t : t = Append(s, c)
  OBVIOUS
<1>2. t \in Seq(X) /\ Len(t) = n + 1 /\ t[n+1] = c /\ \A i \in 1..n : t[i] = s[i]
  BY <1>1, AppendProperties
<1>3. PICK S : S = Starts(s, gaps)
  OBVIOUS
<1>4. PICK T : T = Starts(t, gaps)
  OBVIOUS
<1>5. /\ b \in [1..m -> 1..n] /\ e \in [1..m -> 1..n]
      /\ S = {b[k] : k \in 1..m} /\ Cardinality(S) = m
      /\ \A k \in 1..m : RankIn(S, b[k]) = k /\ EndsAt(s, gaps, b[k], e[k])
      /\ n # 0 /\ s[n] \notin gaps =>
           m # 0 /\ e[m] = n /\ \A k \in 1..(m - 1) : e[k] # n
  BY <1>3 DEF Cut
<1>6. S \subseteq 1..n /\ IsFiniteSet(S)
  <2>1. S \subseteq 1..n
    BY <1>3 DEF Starts
  <2>2. IsFiniteSet(1..n)
    BY FS_Interval
  <2> QED BY <2>1, <2>2, FS_Subset
<1>7. \A i \in 1..n : i \in T <=> i \in S
  BY <1>2, <1>3, <1>4 DEF Starts
<1>8. n + 1 \in T <=> c \notin gaps /\ (n = 0 \/ s[n] \in gaps)
  BY <1>2, <1>4 DEF Starts
<1>9. T \subseteq 1..(n + 1)
  BY <1>2, <1>4 DEF Starts
<1>10. T = IF c \notin gaps /\ (n = 0 \/ s[n] \in gaps) THEN S \cup {n + 1} ELSE S
  <2>1. \A i \in T : i \in 1..n \/ i = n + 1
    BY <1>9
  <2>2. n + 1 \notin S
    BY <1>6
  <2>3. \A i : i \in T <=> i \in S \/ (i = n + 1 /\ n + 1 \in T)
    BY <1>6, <1>7, <2>1
  <2> QED BY <1>8, <2>2, <2>3
<1>11. \A i \in 1..n : RankIn(T, i) = RankIn(S, i)
  <2>1. SUFFICES ASSUME NEW i \in 1..n PROVE RankIn(T, i) = RankIn(S, i)
    OBVIOUS
  <2>2. {j \in T : j <= i} = {j \in S : j <= i}
    BY <1>6, <1>10
  <2> QED BY <2>2 DEF RankIn
<1>12. ASSUME NEW k \in 1..m, e[k] # n \/ c \in gaps PROVE EndsAt(t, gaps, b[k], e[k])
  <2>1. EndsAt(s, gaps, b[k], e[k]) /\ b[k] \in 1..n /\ e[k] \in 1..n
    BY <1>5
  <2>2. e[k] \in b[k]..n /\ \A l \in b[k]..e[k] : s[l] \notin gaps
    BY <2>1 DEF EndsAt
  <2>3. \A l \in b[k]..e[k] : t[l] \notin gaps
    <3>1. \A l \in b[k]..e[k] : l \in 1..n
      BY <2>1
    <3> QED BY <1>2, <2>2, <3>1
  <2>4. t[e[k]+1] \in gaps
    <3>1. CASE e[k] = n
      BY <1>2, <1>12, <3>1
    <3>2. CASE e[k] # n
      <4>1. e[k] + 1 \in 1..n
        BY <2>1, <3>2
      <4>2. s[e[k]+1] \in gaps
        BY <2>1, <3>2 DEF EndsAt
      <4> QED BY <1>2, <4>1, <4>2
    <3> QED BY <3>1, <3>2
  <2>5. e[k] \in b[k]..Len(t)
    BY <1>2, <2>1, <2>2
  <2> QED BY <2>3, <2>4, <2>5 DEF EndsAt
<1>13. \A k \in 1..m : b[k] \in 1..(n + 1) /\ e[k] \in 1..(n + 1) /\ b[k] \in 1..n
  <2>1. \A k \in 1..m : b[k] \in 1..n /\ e[k] \in 1..n
    BY <1>5
  <2>2. \A i \in 1..n : i \in 1..(n + 1)
    OBVIOUS
  <2> QED BY <2>1, <2>2
<1>14. CASE c \in gaps
  <2>1. b \in [1..m -> 1..Len(t)] /\ e \in [1..m -> 1..Len(t)]
    BY <1>2, <1>5, <1>13
  <2>2. T = S
    BY <1>10, <1>14
  <2>3. \A k \in 1..m : RankIn(T, b[k]) = k /\ EndsAt(t, gaps, b[k], e[k])
    BY <1>5, <1>11, <1>12, <1>13, <1>14
  <2>4. t[Len(t)] \in gaps
    BY <1>2, <1>14
  <2> QED BY <1>1, <1>4, <1>5, <1>14, <2>1, <2>2, <2>3, <2>4 DEF Cut
<1>15. CASE c \notin gaps /\ (n = 0 \/ s[n] \in gaps)
  <2> DEFINE B == [k \in 1..(m + 1) |-> IF k <= m THEN b[k] ELSE n + 1]
             E == [k \in 1..(m + 1) |-> IF k <= m THEN e[k] ELSE n + 1]
  <2>1. \A k \in 1..(m + 1) : k = m + 1 \/ k \in 1..m
    OBVIOUS
  <2>2. /\ \A k \in 1..m : k <= m /\ k \in 1..(m + 1) /\ B[k] = b[k] /\ E[k] = e[k]
        /\ m + 1 \in 1..(m + 1) /\ B[m+1] = n + 1 /\ E[m+1] = n + 1
    OBVIOUS
  <2>3. B \in [1..(m + 1) -> 1..Len(t)] /\ E \in [1..(m + 1) -> 1..Len(t)]
    <3>1. \A k \in 1..(m + 1) : B[k] \in 1..Len(t) /\ E[k] \in 1..Len(t)
      <4> HIDE DEF B, E
      <4>1. n + 1 \in 1..Len(t)
        BY <1>2
      <4>2. \A k \in 1..m : B[k] \in 1..Len(t) /\ E[k] \in 1..Len(t)
        BY <1>2, <1>13, <2>2
      <4> QED BY <2>1, <2>2, <4>1, <4>2
    <3> QED BY <3>1
  <2> HIDE DEF B, E
  <2>4. T = S \cup {n + 1} /\ n + 1 \notin S
    BY <1>6, <1>10, <1>15
  <2>5. Cardinality(T) = m + 1
    <3>1. \A x : x \notin S => Cardinality(S \cup {x}) = Cardinality(S) + 1
      BY <1>6, FS_AddElement
    <3>2. Cardinality(S \cup {n + 1}) = Cardinality(S) + 1
      BY <2>4, <3>1
    <3> QED BY <1>5, <2>4, <3>2
  <2>6. T = {B[k] : k \in 1..(m + 1)}
    <3>1. \A x \in T : \E k \in 1..(m + 1) : x = B[k]
      BY <1>5, <2>2, <2>4
    <3>2. \A k \in 1..(m + 1) : B[k] \in T
      BY <1>5, <2>1, <2>2, <2>4
    <3> QED BY <3>1, <3>2
  <2>7. \A k \in 1..m : RankIn(T, B[k]) = k /\ EndsAt(t, gaps, B[k], E[k])
    <3>1. \A k \in 1..m : e[k] # n \/ c \in gaps
      <4>1. SUFFICES ASSUME NEW k \in 1..m, e[k] = n PROVE FALSE
        OBVIOUS
      <4>4. e[k] \in b[k]..Len(s) /\ \A l \in b[k]..e[k] : s[l] \notin gaps
        BY <1>5 DEF EndsAt
      <4>5. e[k] \in b[k]..e[k]
        BY <1>13, <4>4
      <4>2. s[e[k]] \notin gaps
        BY <4>4, <4>5
      <4>3. n # 0
        BY <1>5, <4>1
      <4> QED BY <1>15, <4>1, <4>2, <4>3
    <3> QED BY <1>5, <1>11, <1>12, <1>13, <2>2, <3>1
  <2>8. RankIn(T, n + 1) = m + 1
    <3>2. \A j \in T : j <= n + 1
      BY <1>9
    <3>1. {j \in T : j <= n + 1} = T
      BY <3>2
    <3> QED BY <2>5, <3>1 DEF RankIn
  <2>9. EndsAt(t, gaps, n + 1, n + 1)
    BY <1>2, <1>15 DEF EndsAt
  <2>10. \A k \in 1..((m + 1) - 1) : E[k] # Len(t)
    BY <1>2, <1>5, <2>2
  <2>11. \A k \in 1..(m + 1) : RankIn(T, B[k]) = k /\ EndsAt(t, gaps, B[k], E[k])
    BY <2>1, <2>2, <2>7, <2>8, <2>9
  <2>13. m + 1 # 0 /\ E[m+1] = Len(t)
    BY <1>2, <2>2
  <2>12. Cut(t, gaps, m + 1, B, E)
    BY <1>4, <2>3, <2>5, <2>6, <2>10, <2>11, <2>13 DEF Cut
  <2> QED BY <1>1, <1>15, <2>12 DEF B, E, Grown
<1>16. CASE c \notin gaps /\ n # 0 /\ s[n] \notin gaps
  <2>1. m # 0 /\ m \in 1..m /\ e[m] = n /\ \A k \in 1..(m - 1) : e[k] # n
    BY <1>5, <1>16
  <2> DEFINE E == [e EXCEPT ![m] = n + 1]
  <2>2. E[m] = n + 1 /\ \A k \in 1..m : k # m => E[k] = e[k] /\ k \in 1..(m - 1)
    BY <1>5, <2>1
  <2>3. b \in [1..m -> 1..Len(t)] /\ E \in [1..m -> 1..Len(t)]
    <3>1. n + 1 \in 1..Len(t) /\ b \in [1..m -> 1..Len(t)] /\ e \in [1..m -> 1..Len(t)]
      BY <1>2, <1>5, <1>13
    <3> QED BY <3>1
  <2> HIDE DEF E
  <2>4. T = S
    BY <1>10, <1>16
  <2>5. EndsAt(t, gaps, b[m], n + 1)
    <3>1. b[m] \in 1..n /\ EndsAt(s, gaps, b[m], n)
      BY <1>5, <2>1
    <3>2. \A l \in b[m]..(n + 1) : l = n + 1 \/ (l \in 1..n /\ l \in b[m]..n)
      BY <3>1
    <3>3. \A l \in b[m]..(n + 1) : t[l] \notin gaps
      BY <1>2, <1>16, <3>1, <3>2 DEF EndsAt
    <3>4. n + 1 \in b[m]..Len(t)
      BY <1>2, <3>1
    <3> QED BY <1>2, <3>3, <3>4 DEF EndsAt
  <2>6. \A k \in 1..m : RankIn(T, b[k]) = k /\ EndsAt(t, gaps, b[k], E[k])
    <3>1. \A k \in 1..m : RankIn(T, b[k]) = k
      BY <1>5, <1>11, <1>13
    <3>2. \A k \in 1..m : k # m => EndsAt(t, gaps, b[k], e[k])
      BY <1>12, <2>1, <2>2
    <3> QED BY <2>2, <2>5, <3>1, <3>2
  <2>7. \A k \in 1..(m - 1) : E[k] # Len(t)
    <3>1. \A k \in 1..(m - 1) : k \in 1..m /\ k # m
      OBVIOUS
    <3> QED BY <1>2, <1>5, <2>2, <3>1
  <2>8. Cut(t, gaps, m, b, E)
    BY <1>2, <1>4, <1>5, <2>1, <2>2, <2>3, <2>4, <2>6, <2>7 DEF Cut
  <2> QED BY <1>1, <1>16, <2>8 DEF E, Moved
<1> QED BY <1>14, <1>15, <1>16

(* A function on 1..n is a sequence of length n.                            *)
LEMMA SequenceOf ==
  ASSUME NEW Y, NEW n \in Nat, NEW f \in [1..n -> Y]
  PROVE  f \in Seq(Y) /\ Len(f) = n
<1>1. f \in Seq(Y)
  BY SeqDef
<1>2. DOMAIN f = 1..n
  OBVIOUS
<1> QED BY <1>1, <1>2, LenProperties

(* Every text can be cut into its words.                                    *)
LEMMA CutExists ==
  ASSUME NEW X, NEW s \in Seq(X), NEW gaps
  PROVE  \E m \in Nat : \E b, e : Cut(s, gaps, m, b, e)
<1> DEFINE S == {r \in Seq(X) : \E m \in Nat : \E b, e : Cut(r, gaps, m, b, e)}
<1>1. <<>> \in S
  <2>1. Starts(<<>>, gaps) = {}
    BY DEF Starts
  <2>2. Cardinality({}) = 0
    BY FS_EmptySet
  <2>3. <<>> \in [1..0 -> 1..Len(<<>>)]
    OBVIOUS
  <2>4. {(<<>>)[k] : k \in 1..0} = {}
    OBVIOUS
  <2>5. Len(<<>>) = 0 /\ \A k \in 1..0 : FALSE
    OBVIOUS
  <2>6. Cut(<<>>, gaps, 0, <<>>, <<>>)
    BY <2>1, <2>2, <2>3, <2>4, <2>5 DEF Cut
  <2> QED BY <2>6, EmptySeq
<1>2. ASSUME NEW r \in Seq(X), NEW c \in X, r \in S PROVE Append(r, c) \in S
  <2>1. PICK m \in Nat : \E b, e : Cut(r, gaps, m, b, e)
    BY <1>2
  <2>2. PICK b, e : Cut(r, gaps, m, b, e)
    BY <2>1
  <2>3. PICK n \in Nat : n = Len(r)
    BY LenProperties
  <2>4. /\ c \in gaps => Cut(Append(r, c), gaps, m, b, e)
        /\ c \notin gaps /\ (n = 0 \/ r[n] \in gaps) =>
             Cut(Append(r, c), gaps, m + 1, Grown(b, m, n + 1), Grown(e, m, n + 1))
        /\ c \notin gaps /\ n # 0 /\ r[n] \notin gaps =>
             Cut(Append(r, c), gaps, m, b, Moved(e, m, n + 1))
    BY <2>2, <2>3, CutAppend
  <2>5. m + 1 \in Nat
    OBVIOUS
  <2>6. \E p \in Nat : \E f, g : Cut(Append(r, c), gaps, p, f, g)
    BY <2>4, <2>5, Zenon
  <2> QED BY <2>6, AppendProperties
<1>3. s \in S
  <2> HIDE DEF S
  <2> QED BY <1>1, <1>2, TextInduction
<1> QED BY <1>3

(* The last word with one more character.                                   *)
Longer(W, c) == [W EXCEPT ![Len(W)] = Append(@, c)]

(* What one more character does to the words of a text. It depends on the   *)
(* characters only, not on how the two texts got here: this is what makes   *)
(* the words of the title and of the slug comparable.                       *)
LEMMA WordsAppend ==
  ASSUME NEW X, NEW s \in Seq(X), NEW c \in X, NEW gaps, NEW n \in Nat, n = Len(s)
  PROVE  /\ c \in gaps => Words(Append(s, c), gaps) = Words(s, gaps)
         /\ c \notin gaps /\ (n = 0 \/ s[n] \in gaps) =>
              Words(Append(s, c), gaps) = Append(Words(s, gaps), <<c>>)
         /\ c \notin gaps /\ n # 0 /\ s[n] \notin gaps =>
              Words(Append(s, c), gaps) = Longer(Words(s, gaps), c)
<1>1. PICK t : t = Append(s, c)
  OBVIOUS
<1>2. /\ t \in Seq(X) /\ Len(t) = n + 1 /\ t[n+1] = c
      /\ t = s \o <<c>> /\ <<c>> \in Seq(X)
  BY <1>1, AppendProperties, AppendIsConcat
<1>14. PICK m \in Nat : \E b, e : Cut(s, gaps, m, b, e)
  BY CutExists
<1>3. PICK b, e : Cut(s, gaps, m, b, e)
  BY <1>14
<1>15. Len(t) \in Nat
  BY <1>2
<1>4. /\ c \in gaps => Cut(t, gaps, m, b, e)
      /\ c \notin gaps /\ (n = 0 \/ s[n] \in gaps) =>
           Cut(t, gaps, m + 1, Grown(b, m, n + 1), Grown(e, m, n + 1))
      /\ c \notin gaps /\ n # 0 /\ s[n] \notin gaps =>
           Cut(t, gaps, m, b, Moved(e, m, n + 1))
  BY <1>1, <1>3, CutAppend
<1>5. \A k \in 1..m : b[k] \in 1..n /\ e[k] \in 1..n
  BY <1>3 DEF Cut
<1>6. ASSUME NEW i \in 1..n, NEW j \in 1..n
      PROVE  SubSeq(t, i, j) = SubSeq(s, i, j) /\ SubSeq(s, i, j) \in Seq(X)
  <2>1. SubSeq(s \o <<c>>, i, j) = SubSeq(s, i, j)
    BY <1>2, SubSeqOfConcat1
  <2>2. \A k \in i..j : s[k] \in X
    BY LenProperties
  <2> QED BY <1>2, <2>1, <2>2, SubSeqProperties
<1>7. PICK W : W = Words(s, gaps)
  OBVIOUS
<1>8. W = [k \in 1..m |-> SubSeq(s, b[k], e[k])]
  <2>1. Len(s) \in Nat
    OBVIOUS
  <2> QED BY <1>3, <1>7, <2>1, WordsOfCut DEF Parts
<1>9. W \in [1..m -> Seq(X)] /\ W \in Seq(Seq(X)) /\ Len(W) = m
  <2>1. W \in [1..m -> Seq(X)]
    BY <1>5, <1>6, <1>8
  <2> QED BY <2>1, SequenceOf
<1>10. \A k \in 1..m : SubSeq(t, b[k], e[k]) = W[k]
  BY <1>5, <1>6, <1>8
<1>11. CASE c \in gaps
  <2>1. Words(t, gaps) = [k \in 1..m |-> SubSeq(t, b[k], e[k])]
    BY <1>4, <1>11, <1>15, WordsOfCut DEF Parts
  <2> QED BY <1>1, <1>7, <1>8, <1>10, <1>11, <2>1
<1>12. CASE c \notin gaps /\ (n = 0 \/ s[n] \in gaps)
  <2>14. PICK B, E : B = Grown(b, m, n + 1) /\ E = Grown(e, m, n + 1)
    OBVIOUS
  <2>3. Cut(t, gaps, m + 1, B, E)
    BY <1>4, <1>12, <2>14
  <2>1. B = [k \in 1..(m + 1) |-> IF k <= m THEN b[k] ELSE n + 1]
    BY <2>14 DEF Grown
  <2>2. E = [k \in 1..(m + 1) |-> IF k <= m THEN e[k] ELSE n + 1]
    BY <2>14 DEF Grown
  <2>4. PICK p \in Nat : p = m + 1
    OBVIOUS
  <2>5. PICK V : V = Words(t, gaps)
    OBVIOUS
  <2>6. V = [k \in 1..p |-> SubSeq(t, B[k], E[k])]
    <3>1. Cut(t, gaps, p, B, E)
      BY <2>3, <2>4
    <3>2. Words(t, gaps) = [k \in 1..p |-> SubSeq(t, B[k], E[k])]
      BY <1>15, <3>1, WordsOfCut DEF Parts
    <3> QED BY <2>5, <3>2
  <2>7. \A k \in 1..m : V[k] = W[k]
    <3>1. \A k \in 1..m : k \in 1..p /\ B[k] = b[k] /\ E[k] = e[k]
      BY <2>1, <2>2, <2>4
    <3> QED BY <1>10, <2>6, <3>1
  <2>8. V[m+1] = <<c>>
    <3>1. m + 1 \in 1..p /\ B[m+1] = n + 1 /\ E[m+1] = n + 1
      BY <2>1, <2>2, <2>4
    <3>2. /\ SubSeq(t, n + 1, n + 1) \in Seq(X) /\ Len(SubSeq(t, n + 1, n + 1)) = 1
          /\ SubSeq(t, n + 1, n + 1)[1] = c
      <4>1. \A i \in (n + 1)..(n + 1) : t[i] \in X
        BY <1>2
      <4>2. /\ SubSeq(t, n + 1, n + 1) \in Seq(X)
            /\ Len(SubSeq(t, n + 1, n + 1))
                 = IF n + 1 <= n + 1 THEN (n + 1) - (n + 1) + 1 ELSE 0
            /\ \A i \in 1..((n + 1) - (n + 1) + 1) :
                 SubSeq(t, n + 1, n + 1)[i] = t[(n + 1) + i - 1]
        BY <4>1, SubSeqProperties
      <4> QED BY <1>2, <4>2
    <3>3. SubSeq(t, n + 1, n + 1) = <<c>>
      <4>1. Len(<<c>>) = 1 /\ (<<c>>)[1] = c
        OBVIOUS
      <4>2. PICK u \in Seq(X) : u = SubSeq(t, n + 1, n + 1)
        BY <3>2
      <4>3. PICK v \in Seq(X) : v = <<c>>
        BY <1>2
      <4>4. Len(u) = 1 /\ Len(v) = 1 /\ \A i \in 1..1 : u[i] = v[i]
        BY <3>2, <4>1, <4>2, <4>3
      <4>5. u = v
        BY <4>4, SeqEqual
      <4> QED BY <4>2, <4>3, <4>5
    <3> QED BY <2>6, <3>1, <3>3
  <2>9. V \in Seq(Seq(X)) /\ Len(V) = p
    <3>1. \A k \in 1..p : k \in 1..m \/ k = m + 1
      BY <2>4
    <3>2. \A k \in 1..p : V[k] \in Seq(X)
      BY <1>2, <1>9, <2>7, <2>8, <3>1
    <3>3. V \in [1..p -> Seq(X)]
      BY <2>6, <3>2
    <3> QED BY <3>3, SequenceOf
  <2>10. PICK U : U = Append(W, <<c>>)
    OBVIOUS
  <2>11. /\ U \in Seq(Seq(X)) /\ Len(U) = m + 1 /\ U[m+1] = <<c>>
         /\ \A k \in 1..m : U[k] = W[k]
    BY <1>2, <1>9, <2>10, AppendProperties
  <2>12. \A k \in 1..Len(V) : V[k] = U[k]
    <3>1. \A k \in 1..Len(V) : k \in 1..m \/ k = m + 1
      BY <2>4, <2>9
    <3> QED BY <2>7, <2>8, <2>11, <3>1
  <2>13. V = U
    BY <2>4, <2>9, <2>11, <2>12, SeqEqual
  <2> QED BY <1>1, <1>7, <1>12, <2>5, <2>10, <2>13
<1>13. CASE c \notin gaps /\ n # 0 /\ s[n] \notin gaps
  <2>10. PICK E : E = Moved(e, m, n + 1)
    OBVIOUS
  <2>2. Cut(t, gaps, m, b, E)
    BY <1>4, <1>13, <2>10
  <2>1. E = [e EXCEPT ![m] = n + 1]
    BY <2>10 DEF Moved
  <2>3. m # 0 /\ m \in 1..m /\ e[m] = n /\ e \in [1..m -> 1..n]
    BY <1>3, <1>13 DEF Cut
  <2>4. E[m] = n + 1 /\ \A k \in 1..m : k # m => E[k] = e[k]
    BY <2>1, <2>3
  <2>5. Words(t, gaps) = [k \in 1..m |-> SubSeq(t, b[k], E[k])]
    BY <1>15, <2>2, WordsOfCut DEF Parts
  <2>6. SubSeq(t, b[m], n + 1) = Append(W[m], c)
    <3>1. PICK i \in 1..n : i = b[m]
      BY <1>5, <2>3
    <3>2. i \in 1..Len(t) /\ n + 1 \in i..Len(t) /\ (n + 1) - 1 = n /\ n \in 1..n
      BY <1>2, <1>13
    <3>3. SubSeq(t, i, n + 1) = SubSeq(t, i, (n + 1) - 1) \o <<t[n+1]>>
      BY <1>2, <3>2, SubSeqRecursiveSecond
    <3>4. SubSeq(t, i, n) = W[m] /\ W[m] \in Seq(X)
      BY <1>9, <1>10, <2>3, <3>1
    <3>5. SubSeq(t, i, n + 1) = W[m] \o <<c>>
      BY <1>2, <3>2, <3>3, <3>4
    <3> QED BY <3>1, <3>4, <3>5, AppendIsConcat
  <2>7. [W EXCEPT ![m] = Append(@, c)] = [k \in 1..m |-> IF k = m THEN Append(W[m], c) ELSE W[k]]
    BY <1>8
  <2>8. \A k \in 1..m : SubSeq(t, b[k], E[k]) = IF k = m THEN Append(W[m], c) ELSE W[k]
    BY <1>10, <2>4, <2>6
  <2>9. Words(t, gaps) = [W EXCEPT ![m] = Append(@, c)]
    BY <2>5, <2>7, <2>8
  <2> QED BY <1>1, <1>7, <1>9, <1>13, <2>9 DEF Longer
<1> QED BY <1>1, <1>11, <1>12, <1>13

(* The same for sequences that are written as functions of the position.    *)
LEMMA FlattenOneMore ==
  ASSUME NEW Y, NEW n \in Nat, NEW f \in [1..n -> Seq(Y)], NEW g \in [1..(n + 1) -> Seq(Y)],
         \A i \in 1..n : g[i] = f[i]
  PROVE  FlattenSeq(f) \in Seq(Y) /\ FlattenSeq(g) = FlattenSeq(f) \o g[n+1]
<1>1. f \in Seq(Seq(Y)) /\ Len(f) = n
  BY SequenceOf
<1>2. n + 1 \in Nat /\ g[n+1] \in Seq(Y)
  OBVIOUS
<1>3. g \in Seq(Seq(Y)) /\ Len(g) = n + 1
  BY <1>2, SequenceOf
<1>4. PICK x \in Seq(Y) : x = g[n+1]
  BY <1>2
<1>5. PICK h : h = Append(f, x)
  OBVIOUS
<1>6. h \in Seq(Seq(Y)) /\ Len(h) = n + 1 /\ h[n+1] = x /\ \A i \in 1..n : h[i] = f[i]
  BY <1>1, <1>5, AppendProperties
<1>7. \A i \in 1..Len(g) : g[i] = h[i]
  <2>1. \A i \in 1..Len(g) : i \in 1..n \/ i = n + 1
    BY <1>3
  <2> QED BY <1>4, <1>6, <2>1
<1>8. g = h
  BY <1>3, <1>6, <1>7, SeqEqual
<1> QED BY <1>1, <1>4, <1>5, <1>8, FlattenAppend

(* The characters of a spelled title over X: no hyphen is left.             *)
Alphabet(X) == (X \cup {"a", " ", "/"}) \ {"-"}

(* Short texts.                                                             *)
LEMMA Tuples ==
  ASSUME NEW A, NEW x \in A, NEW y \in A, NEW z \in A, NEW w \in A
  PROVE  /\ <<x>> \in Seq(A) /\ Len(<<x>>) = 1 /\ (<<x>>)[1] = x
         /\ <<x, y>> \in Seq(A) /\ Len(<<x, y>>) = 2 /\ (<<x, y>>)[1] = x /\ (<<x, y>>)[2] = y
         /\ <<x, y, z, w>> \in Seq(A) /\ Len(<<x, y, z, w>>) = 4
         /\ (<<x, y, z, w>>)[1] = x /\ (<<x, y, z, w>>)[2] = y
         /\ (<<x, y, z, w>>)[3] = z /\ (<<x, y, z, w>>)[4] = w
<1>1. <<x>> \in Seq(A) /\ Len(<<x>>) = 1 /\ (<<x>>)[1] = x
  OBVIOUS
<1>2. <<x, y>> \in Seq(A) /\ Len(<<x, y>>) = 2 /\ (<<x, y>>)[1] = x /\ (<<x, y>>)[2] = y
  OBVIOUS
<1>3. /\ Len(<<x, y, z, w>>) = 4
         /\ (<<x, y, z, w>>)[1] = x /\ (<<x, y, z, w>>)[2] = y
         /\ (<<x, y, z, w>>)[3] = z /\ (<<x, y, z, w>>)[4] = w
  OBVIOUS
<1>5. <<x, y, z, w>> \in [1..4 -> A]
  OBVIOUS
<1>4.  <<x, y, z, w>> \in Seq(A)
  BY <1>5, SeqDef
<1> QED BY <1>1, <1>2, <1>3, <1>4

(* The spelling of a character has no hyphen, and a line separator only if  *)
(* the character is one.                                                    *)
LEMMA SpellingFact ==
  ASSUME NEW X, NEW c \in X, c \notin Punctuation
  PROVE  /\ Spelling(c) \in Seq(Alphabet(X))
         /\ \A i \in 1..Len(Spelling(c)) : Spelling(c)[i] = "LS" => c = "LS"
<1>1. PICK A : A = Alphabet(X)
  OBVIOUS
<1>2. "a" \in A /\ " " \in A /\ "/" \in A /\ c \in A
  BY <1>1 DEF Alphabet, Punctuation
<1>7. PICK x \in A, y \in A, z \in A : x = "a" /\ y = " " /\ z = "/"
  BY <1>2
<1>8. x # "LS" /\ y # "LS" /\ z # "LS"
  BY <1>7
<1>3. CASE c = "A"
  <2>1. Spelling(c) = <<x>>
    BY <1>3, <1>7, Zenon DEF Spelling
  <2> QED BY <1>1, <1>8, <2>1, Tuples
<1>4. CASE c = "ss"
  <2>1. Spelling(c) = <<x, x>>
    <3>1. c # "A"
      BY <1>4
    <3> QED BY <1>4, <1>7, <3>1, Zenon DEF Spelling
  <2>2. <<x, x>> \in Seq(A) /\ Len(<<x, x>>) = 2 /\ (<<x, x>>)[1] = x /\ (<<x, x>>)[2] = x
    BY Tuples
  <2>3. \A i \in 1..2 : i = 1 \/ i = 2
    OBVIOUS
  <2> QED BY <1>1, <1>8, <2>1, <2>2, <2>3
<1>5. CASE c = "1/2"
  <2>1. Spelling(c) = <<y, x, z, x>>
    <3>1. c # "A" /\ c # "ss"
      BY <1>5
    <3> QED BY <1>5, <1>7, <3>1, Zenon DEF Spelling
  <2>2. PICK u : u = <<y, x, z, x>>
    OBVIOUS
  <2>3. u \in Seq(A) /\ Len(u) = 4 /\ u[1] = y /\ u[2] = x /\ u[3] = z /\ u[4] = x
    BY <2>2, Tuples
  <2>4. \A i \in 1..4 : i = 1 \/ i = 2 \/ i = 3 \/ i = 4
    OBVIOUS
  <2> QED BY <1>1, <1>8, <2>1, <2>2, <2>3, <2>4
<1>6. CASE c \notin {"A", "ss", "1/2"}
  <2>1. Spelling(c) = <<c>>
    <3>1. c # "A" /\ c # "ss" /\ c # "1/2"
      BY <1>6
    <3> QED BY <3>1, Zenon DEF Spelling
  <2>2. <<c>> \in Seq(A) /\ Len(<<c>>) = 1 /\ (<<c>>)[1] = c
    BY <1>2, Tuples
  <2> QED BY <1>1, <2>1, <2>2
<1> QED BY <1>3, <1>4, <1>5, <1>6

(* Each pass handles one more character by itself, but for CollapseSpaces,  *)
(* which looks at the one before it.                                        *)
LEMMA RemoveFact ==
  ASSUME NEW X, NEW s \in Seq(X), NEW c \in X
  PROVE  /\ RemovePunctuation(<<>>) = <<>>
         /\ RemovePunctuation(s) \in Seq(X \ Punctuation)
         /\ RemovePunctuation(Append(s, c)) =
              RemovePunctuation(s) \o IF c \in Punctuation THEN <<>> ELSE <<c>>
<1> DEFINE Y == X \ Punctuation
           Pass(u) == [i \in 1..Len(u) |-> IF u[i] \in Punctuation THEN <<>> ELSE <<u[i]>>]
<1>1. PICK n \in Nat : n = Len(s)
  BY LenProperties
<1>2. PICK t : t = Append(s, c)
  OBVIOUS
<1>3. Len(t) = n + 1 /\ t[n+1] = c /\ (\A i \in 1..n : t[i] = s[i] /\ s[i] \in X)
      /\ t \in Seq(X)
  BY <1>1, <1>2, AppendProperties, LenProperties
<1>4. \A x \in X : (IF x \in Punctuation THEN <<>> ELSE <<x>>) \in Seq(Y)
  <2>1. <<>> \in Seq(Y)
    OBVIOUS
  <2>2. ASSUME NEW x \in Y PROVE <<x>> \in Seq(Y)
    OBVIOUS
  <2>3. \A x \in X : x \notin Punctuation => x \in Y
    OBVIOUS
  <2> QED BY <2>1, <2>2, <2>3
<1>5. Pass(s) \in [1..n -> Seq(Y)]
  BY <1>1, <1>3, <1>4
<1>6. Pass(t) \in [1..(n + 1) -> Seq(Y)]
  <2>1. \A i \in 1..(n + 1) : t[i] \in X
    BY <1>3, LenProperties
  <2> QED BY <1>3, <1>4, <2>1
<1>7. /\ \A i \in 1..n : Pass(t)[i] = Pass(s)[i]
      /\ Pass(t)[n+1] = IF c \in Punctuation THEN <<>> ELSE <<c>>
  BY <1>1, <1>3
<1>8. Pass(<<>>) = <<>>
  OBVIOUS
<1>9. FlattenSeq(<<>>) = <<>>
  BY DEF FlattenSeq
<1> HIDE DEF Pass, Y
<1>10. FlattenSeq(Pass(s)) \in Seq(Y) /\ FlattenSeq(Pass(t)) = FlattenSeq(Pass(s)) \o Pass(t)[n+1]
  BY <1>5, <1>6, <1>7, FlattenOneMore
<1>11. \A u : RemovePunctuation(u) = FlattenSeq(Pass(u))
  BY Zenon DEF RemovePunctuation, Pass
<1> QED BY <1>2, <1>7, <1>8, <1>9, <1>10, <1>11 DEF Y

(* Lower spells one more character.                                         *)
LEMMA LowerFact ==
  ASSUME NEW X, NEW s \in Seq(X \ Punctuation), NEW c \in X \ Punctuation
  PROVE  /\ Lower(<<>>) = <<>>
         /\ Lower(s) \in Seq(Alphabet(X))
         /\ Lower(Append(s, c)) = Lower(s) \o Spelling(c)
<1> DEFINE Y == X \ Punctuation
           Pass(u) == [i \in 1..Len(u) |-> Spelling(u[i])]
<1>1. PICK n \in Nat : n = Len(s)
  BY LenProperties
<1>2. PICK t : t = Append(s, c)
  OBVIOUS
<1>3. Len(t) = n + 1 /\ t[n+1] = c /\ (\A i \in 1..n : t[i] = s[i] /\ s[i] \in Y)
      /\ t \in Seq(Y)
  BY <1>1, <1>2, AppendProperties, LenProperties
<1>4. \A x \in Y : Spelling(x) \in Seq(Alphabet(X))
  BY SpellingFact
<1>5. Pass(s) \in [1..n -> Seq(Alphabet(X))]
  BY <1>1, <1>3, <1>4
<1>6. Pass(t) \in [1..(n + 1) -> Seq(Alphabet(X))]
  <2>1. \A i \in 1..(n + 1) : t[i] \in Y
    BY <1>3, LenProperties
  <2> QED BY <1>3, <1>4, <2>1
<1>7. (\A i \in 1..n : Pass(t)[i] = Pass(s)[i]) /\ Pass(t)[n+1] = Spelling(c)
  BY <1>1, <1>3
<1>8. Pass(<<>>) = <<>>
  OBVIOUS
<1>9. FlattenSeq(<<>>) = <<>>
  BY DEF FlattenSeq
<1> HIDE DEF Pass
<1>10. /\ FlattenSeq(Pass(s)) \in Seq(Alphabet(X))
       /\ FlattenSeq(Pass(t)) = FlattenSeq(Pass(s)) \o Pass(t)[n+1]
  BY <1>5, <1>6, <1>7, FlattenOneMore
<1>11. \A u : Lower(u) = FlattenSeq(Pass(u))
  BY Zenon DEF Lower, Pass
<1> QED BY <1>2, <1>7, <1>8, <1>9, <1>10, <1>11

(* The spelled title of IsSlugOf.                                           *)
Spelled(s) == FlattenSeq([i \in 1..Len(s) |->
                IF s[i] \in Punctuation THEN <<>> ELSE Spelling(s[i])])

(* And so does the spelled title, unless it is punctuation.                 *)
LEMMA SpelledFact ==
  ASSUME NEW X, NEW s \in Seq(X), NEW c \in X
  PROVE  /\ Spelled(<<>>) = <<>>
         /\ Spelled(s) \in Seq(Alphabet(X))
         /\ Spelled(Append(s, c)) =
              Spelled(s) \o IF c \in Punctuation THEN <<>> ELSE Spelling(c)
<1> DEFINE Pass(u) == [i \in 1..Len(u) |->
                        IF u[i] \in Punctuation THEN <<>> ELSE Spelling(u[i])]
<1>1. PICK n \in Nat : n = Len(s)
  BY LenProperties
<1>2. PICK t : t = Append(s, c)
  OBVIOUS
<1>3. Len(t) = n + 1 /\ t[n+1] = c /\ (\A i \in 1..n : t[i] = s[i] /\ s[i] \in X)
      /\ t \in Seq(X)
  BY <1>1, <1>2, AppendProperties, LenProperties
<1>4. \A x \in X : (IF x \in Punctuation THEN <<>> ELSE Spelling(x)) \in Seq(Alphabet(X))
  <2>1. <<>> \in Seq(Alphabet(X))
    OBVIOUS
  <2> QED BY <2>1, SpellingFact
<1>5. Pass(s) \in [1..n -> Seq(Alphabet(X))]
  BY <1>1, <1>3, <1>4
<1>6. Pass(t) \in [1..(n + 1) -> Seq(Alphabet(X))]
  <2>1. \A i \in 1..(n + 1) : t[i] \in X
    BY <1>3, LenProperties
  <2> QED BY <1>3, <1>4, <2>1
<1>7. /\ \A i \in 1..n : Pass(t)[i] = Pass(s)[i]
      /\ Pass(t)[n+1] = IF c \in Punctuation THEN <<>> ELSE Spelling(c)
  BY <1>1, <1>3
<1>8. Pass(<<>>) = <<>>
  OBVIOUS
<1>9. FlattenSeq(<<>>) = <<>>
  BY DEF FlattenSeq
<1> HIDE DEF Pass
<1>10. /\ FlattenSeq(Pass(s)) \in Seq(Alphabet(X))
       /\ FlattenSeq(Pass(t)) = FlattenSeq(Pass(s)) \o Pass(t)[n+1]
  BY <1>5, <1>6, <1>7, FlattenOneMore
<1>11. \A u : Spelled(u) = FlattenSeq(Pass(u))
  BY Zenon DEF Spelled, Pass
<1> QED BY <1>2, <1>7, <1>8, <1>9, <1>10, <1>11

(* CollapseSpaces drops one more character if it is a space after a space.  *)
CollapsesOneMore(s, c, n) ==
  CollapseSpaces(Append(s, c)) =
    CollapseSpaces(s) \o IF n # 0 /\ c = " " /\ s[n] = " " THEN <<>> ELSE <<c>>

LEMMA CollapseFact ==
  ASSUME NEW Y, NEW s \in Seq(Y), NEW c \in Y, NEW n \in Nat, n = Len(s)
  PROVE  /\ CollapseSpaces(<<>>) = <<>>
         /\ CollapseSpaces(s) \in Seq(Y)
         /\ CollapsesOneMore(s, c, n)
<1> DEFINE Pass(u) == [i \in 1..Len(u) |->
                        IF i > 1 /\ u[i] = " " /\ u[i-1] = " " THEN <<>> ELSE <<u[i]>>]
<1>2. PICK t : t = Append(s, c)
  OBVIOUS
<1>3. Len(t) = n + 1 /\ t[n+1] = c /\ (\A i \in 1..n : t[i] = s[i] /\ s[i] \in Y)
      /\ t \in Seq(Y)
  BY <1>2, AppendProperties, LenProperties
<1>4. \A x \in Y : <<>> \in Seq(Y) /\ <<x>> \in Seq(Y)
  OBVIOUS
<1>5. Pass(s) \in [1..n -> Seq(Y)]
  BY <1>3, <1>4
<1>6. Pass(t) \in [1..(n + 1) -> Seq(Y)]
  <2>1. \A i \in 1..(n + 1) : t[i] \in Y
    BY <1>3, LenProperties
  <2> QED BY <1>3, <1>4, <2>1
<1>7. \A i \in 1..n : Pass(t)[i] = Pass(s)[i]
  <2>1. \A i \in 1..n : i \in 1..(n + 1) /\ (i > 1 => i - 1 \in 1..n)
    OBVIOUS
  <2> QED BY <1>3, <2>1
<1>12. Pass(t)[n+1] = IF n # 0 /\ c = " " /\ s[n] = " " THEN <<>> ELSE <<c>>
  <2>1. n + 1 \in 1..Len(t) /\ (n + 1) - 1 = n /\ (n + 1 > 1 <=> n # 0)
    BY <1>3
  <2>2. n # 0 => t[n] = s[n]
    BY <1>3
  <2> QED BY <1>3, <2>1, <2>2
<1>8. Pass(<<>>) = <<>>
  OBVIOUS
<1>9. FlattenSeq(<<>>) = <<>>
  BY DEF FlattenSeq
<1> HIDE DEF Pass
<1>10. FlattenSeq(Pass(s)) \in Seq(Y) /\ FlattenSeq(Pass(t)) = FlattenSeq(Pass(s)) \o Pass(t)[n+1]
  BY <1>5, <1>6, <1>7, FlattenOneMore
<1>11. \A u : CollapseSpaces(u) = FlattenSeq(Pass(u))
  BY Zenon DEF CollapseSpaces, Pass
<1> QED BY <1>2, <1>8, <1>9, <1>10, <1>11, <1>12 DEF CollapsesOneMore

(* Hyphenate puts a hyphen for one more separator.                          *)
LEMMA HyphenateFact ==
  ASSUME NEW Y, NEW s \in Seq(Y), NEW c \in Y
  PROVE  /\ Hyphenate(<<>>) = <<>>
         /\ Hyphenate(s) \in Seq(Y \cup {"-"})
         /\ Hyphenate(Append(s, c)) =
              Append(Hyphenate(s), IF c \in Separator THEN "-" ELSE c)
<1> DEFINE Z == Y \cup {"-"}
<1>1. PICK n \in Nat : n = Len(s)
  BY LenProperties
<1>2. PICK t : t = Append(s, c)
  OBVIOUS
<1>3. Len(t) = n + 1 /\ t[n+1] = c /\ (\A i \in 1..n : t[i] = s[i] /\ s[i] \in Y)
      /\ t \in Seq(Y)
  BY <1>1, <1>2, AppendProperties, LenProperties
<1>4. PICK x \in Z : x = IF c \in Separator THEN "-" ELSE c
  OBVIOUS
<1>5. PICK f : f = Hyphenate(s)
  OBVIOUS
<1>6. PICK g : g = Hyphenate(t)
  OBVIOUS
<1>7. f \in [1..n -> Z] /\ \A i \in 1..n : f[i] = IF s[i] \in Separator THEN "-" ELSE s[i]
  BY <1>1, <1>3, <1>5 DEF Hyphenate
<1>8. /\ g \in [1..(n + 1) -> Z]
      /\ \A i \in 1..(n + 1) : g[i] = IF t[i] \in Separator THEN "-" ELSE t[i]
  <2>1. \A i \in 1..(n + 1) : t[i] \in Y
    BY <1>3, LenProperties
  <2> QED BY <1>3, <1>6, <2>1 DEF Hyphenate
<1>9. (\A i \in 1..n : g[i] = f[i]) /\ g[n+1] = x
  BY <1>3, <1>4, <1>7, <1>8
<1> HIDE DEF Z
<1>10. f \in Seq(Z) /\ Len(f) = n /\ g \in Seq(Z) /\ Len(g) = n + 1
  BY <1>7, <1>8, SequenceOf
<1>11. PICK h : h = Append(f, x)
  OBVIOUS
<1>12. h \in Seq(Z) /\ Len(h) = n + 1 /\ h[n+1] = x /\ \A i \in 1..n : h[i] = f[i]
  BY <1>10, <1>11, AppendProperties
<1>13. \A i \in 1..Len(g) : g[i] = h[i]
  <2>1. \A i \in 1..Len(g) : i \in 1..n \/ i = n + 1
    BY <1>10
  <2> QED BY <1>9, <1>12, <2>1
<1>14. g = h
  BY <1>10, <1>12, <1>13, SeqEqual
<1>15. Hyphenate(<<>>) = <<>>
  BY DEF Hyphenate
<1> QED BY <1>2, <1>4, <1>5, <1>6, <1>10, <1>11, <1>14, <1>15 DEF Z

(* The first two passes spell the title.                                    *)
LEMMA SpelledIsLower ==
  ASSUME NEW X, NEW s \in Seq(X)
  PROVE  Lower(RemovePunctuation(s)) = Spelled(s)
<1> DEFINE S == {r \in Seq(X) : Lower(RemovePunctuation(r)) = Spelled(r)}
<1>1. <<>> \in S
  <2>1. RemovePunctuation(<<>>) = <<>> /\ Lower(<<>>) = <<>> /\ Spelled(<<>>) = <<>>
    <3>1. FlattenSeq(<<>>) = <<>>
      BY DEF FlattenSeq
    <3>2. \A f : [i \in 1..Len(<<>>) |-> f[i]] = <<>>
      OBVIOUS
    <3> QED BY <3>1 DEF RemovePunctuation, Lower, Spelled
  <2> QED BY <2>1, EmptySeq
<1>2. ASSUME NEW r \in Seq(X), NEW c \in X, r \in S PROVE Append(r, c) \in S
  <2>1. PICK rc : rc = Append(r, c)
    OBVIOUS
  <2>2. PICK p \in Seq(X \ Punctuation) : p = RemovePunctuation(r)
    BY RemoveFact
  <2>3. RemovePunctuation(rc) = p \o IF c \in Punctuation THEN <<>> ELSE <<c>>
    BY <2>1, <2>2, RemoveFact
  <2>4. /\ Spelled(r) \in Seq(Alphabet(X))
        /\ Spelled(rc) = Spelled(r) \o IF c \in Punctuation THEN <<>> ELSE Spelling(c)
    BY <2>1, SpelledFact
  <2>5. Lower(p) = Spelled(r)
    BY <1>2, <2>2
  <2>6. CASE c \in Punctuation
    <3>1. RemovePunctuation(rc) = p /\ Spelled(rc) = Spelled(r)
      BY <2>3, <2>4, <2>6, ConcatEmptySeq
    <3> QED BY <2>1, <2>5, <3>1, AppendProperties
  <2>7. CASE c \notin Punctuation
    <3>1. c \in X \ Punctuation
      BY <2>7
    <3>2. RemovePunctuation(rc) = Append(p, c)
      BY <2>3, <2>7, <3>1, AppendIsConcat
    <3>3. Lower(Append(p, c)) = Lower(p) \o Spelling(c)
      BY <3>1, LowerFact
    <3>4. Lower(RemovePunctuation(rc)) = Spelled(rc)
      BY <2>4, <2>5, <2>7, <3>2, <3>3
    <3> QED BY <2>1, <3>4, AppendProperties
  <2> QED BY <2>6, <2>7
<1>3. s \in S
  <2> HIDE DEF S
  <2> QED BY <1>1, <1>2, TextInduction
<1> QED BY <1>3

(* The characters of a text.                                                *)
Characters(s) == {s[i] : i \in 1..Len(s)}

(* No pass makes a line separator.                                          *)
LEMMA LinesComeFromTitle ==
  ASSUME NEW X, NEW s \in Seq(X)
  PROVE  "LS" \in Characters(Spelled(s)) => "LS" \in Characters(s)
<1> DEFINE S == {r \in Seq(X) : "LS" \in Characters(Spelled(r)) => "LS" \in Characters(r)}
<1>1. <<>> \in S
  <2>1. Spelled(<<>>) = <<>>
    <3>1. FlattenSeq(<<>>) = <<>>
      BY DEF FlattenSeq
    <3> QED BY <3>1 DEF Spelled
  <2> QED BY <2>1, EmptySeq
<1>2. ASSUME NEW r \in Seq(X), NEW c \in X, r \in S PROVE Append(r, c) \in S
  <2>1. PICK rc : rc = Append(r, c)
    OBVIOUS
  <2>2. rc \in Seq(X) /\ Len(rc) = Len(r) + 1 /\ rc[Len(r)+1] = c
        /\ \A i \in 1..Len(r) : rc[i] = r[i]
    BY <2>1, AppendProperties
  <2>3. PICK a \in Seq(Alphabet(X)) : a = Spelled(r)
    BY SpelledFact
  <2>4. PICK b : b = IF c \in Punctuation THEN <<>> ELSE Spelling(c)
    OBVIOUS
  <2>5. b \in Seq(Alphabet(X)) /\ \A i \in 1..Len(b) : b[i] = "LS" => c = "LS"
    <3>1. CASE c \in Punctuation
      BY <2>4, <3>1, EmptySeq
    <3>2. CASE c \notin Punctuation
      BY <2>4, <3>2, SpellingFact
    <3> QED BY <3>1, <3>2
  <2>6. Spelled(rc) = a \o b
    BY <2>1, <2>3, <2>4, SpelledFact
  <2>7. Len(a) \in Nat /\ Len(b) \in Nat /\ Len(r) \in Nat
    BY <2>3, <2>5, LenProperties
  <2>8. /\ Len(a \o b) = Len(a) + Len(b)
        /\ \A i \in 1..(Len(a) + Len(b)) : (a \o b)[i] = IF i <= Len(a) THEN a[i] ELSE b[i - Len(a)]
    BY <2>5, ConcatProperties
  <2>9. ASSUME "LS" \in Characters(a \o b) PROVE "LS" \in Characters(rc)
    <3>1. PICK i \in 1..(Len(a) + Len(b)) : (a \o b)[i] = "LS"
      BY <2>8, <2>9 DEF Characters
    <3>2. CASE i <= Len(a)
      <4>1. "LS" \in Characters(a)
        BY <2>7, <2>8, <3>1, <3>2 DEF Characters
      <4>2. PICK j \in 1..Len(r) : r[j] = "LS"
        BY <1>2, <2>3, <4>1 DEF Characters
      <4>3. j \in 1..Len(rc) /\ rc[j] = "LS"
        BY <2>2, <2>7, <4>2
      <4> QED BY <4>3 DEF Characters
    <3>3. CASE ~ (i <= Len(a))
      <4>1. i - Len(a) \in 1..Len(b) /\ b[i - Len(a)] = "LS"
        BY <2>7, <2>8, <3>1, <3>3
      <4>2. c = "LS" /\ Len(r) + 1 \in 1..Len(rc)
        BY <2>2, <2>5, <2>7, <4>1
      <4> QED BY <2>2, <4>2 DEF Characters
    <3> QED BY <3>2, <3>3
  <2>10. rc \in S
    BY <2>2, <2>6, <2>9
  <2> QED BY <2>1, <2>10
<1>3. s \in S
  <2> HIDE DEF S
  <2> QED BY <1>1, <1>2, TextInduction
<1> QED BY <1>3

(* The last two passes.                                                     *)
Joined(t) == Hyphenate(CollapseSpaces(t))

(* Both on one more character.                                              *)
LEMMA JoinedAppend ==
  ASSUME NEW Y, NEW t \in Seq(Y), NEW c \in Y, NEW n \in Nat, n = Len(t)
  PROVE  /\ Joined(t) \in Seq(Y \cup {"-"})
         /\ Joined(Append(t, c)) =
              IF n # 0 /\ c = " " /\ t[n] = " " THEN Joined(t)
              ELSE Append(Joined(t), IF c \in Separator THEN "-" ELSE c)
<1>0. CollapseSpaces(t) \in Seq(Y) /\ CollapsesOneMore(t, c, n)
  BY CollapseFact
<1>1. PICK u \in Seq(Y) : u = CollapseSpaces(t)
  BY <1>0
<1>2. PICK v : v = CollapseSpaces(Append(t, c))
  OBVIOUS
<1>3. v = u \o IF n # 0 /\ c = " " /\ t[n] = " " THEN <<>> ELSE <<c>>
  BY <1>0, <1>1, <1>2, Zenon DEF CollapsesOneMore
<1>4. Hyphenate(u) \in Seq(Y \cup {"-"})
  BY HyphenateFact
<1>5. CASE n # 0 /\ c = " " /\ t[n] = " "
  <2>1. v = u
    BY <1>3, <1>5, ConcatEmptySeq
  <2> QED BY <1>1, <1>2, <1>4, <1>5, <2>1 DEF Joined
<1>6. CASE ~ (n # 0 /\ c = " " /\ t[n] = " ")
  <2>1. v = Append(u, c)
    <3>1. v = u \o <<c>>
      BY <1>3, <1>6
    <3> QED BY <3>1, AppendIsConcat
  <2>2. Hyphenate(Append(u, c)) = Append(Hyphenate(u), IF c \in Separator THEN "-" ELSE c)
    BY HyphenateFact
  <2> QED BY <1>1, <1>2, <1>4, <1>6, <2>1, <2>2 DEF Joined
<1> QED BY <1>5, <1>6

(* What the last two passes keep of a spelled title t: the words, and       *)
(* whether the end is a gap. Two hyphens in a row come from a line          *)
(* separator.                                                               *)
SameWords(t) ==
  LET d == Joined(t)
  IN  /\ Len(d) = 0 <=> Len(t) = 0
      /\ Len(t) # 0 => (d[Len(d)] = "-" <=> t[Len(t)] \in Separator)
      /\ Words(d, {"-"}) = Words(t, Separator)
      /\ \A i \in 2..Len(d) : d[i] = "-" /\ d[i-1] = "-" => "LS" \in Characters(t)

(* It is inductive over the title.                                          *)
LEMMA SameWordsAppend ==
  ASSUME NEW Y, "-" \notin Y, NEW t \in Seq(Y), NEW c \in Y, SameWords(t)
  PROVE  SameWords(Append(t, c))
<1>1. PICK n \in Nat : n = Len(t)
  BY LenProperties
<1>2. PICK u : u = Append(t, c)
  OBVIOUS
<1>3. u \in Seq(Y) /\ Len(u) = n + 1 /\ u[n+1] = c /\ \A i \in 1..n : u[i] = t[i]
  BY <1>1, <1>2, AppendProperties
<1> DEFINE Z == Y \cup {"-"}
<1>4. PICK d \in Seq(Z) : d = Joined(t)
  BY <1>1, JoinedAppend
<1>5. PICK m \in Nat : m = Len(d)
  BY LenProperties
<1>6. PICK h \in Z : h = IF c \in Separator THEN "-" ELSE c
  OBVIOUS
<1>7. PICK v : v = Joined(u)
  OBVIOUS
<1>8. v = IF n # 0 /\ c = " " /\ t[n] = " " THEN d ELSE Append(d, h)
  BY <1>1, <1>2, <1>4, <1>6, <1>7, JoinedAppend
<1>9. /\ m = 0 <=> n = 0
      /\ n # 0 => (d[m] = "-" <=> t[n] \in Separator)
      /\ Words(d, {"-"}) = Words(t, Separator)
      /\ \A i \in 2..m : d[i] = "-" /\ d[i-1] = "-" => "LS" \in Characters(t)
  BY <1>1, <1>4, <1>5 DEF SameWords
<1>10. /\ "LS" \in Characters(t) \/ c = "LS" => "LS" \in Characters(u)
       /\ n # 0 /\ t[n] = "LS" => "LS" \in Characters(u)
  <2>1. \A i \in 1..n : i \in 1..Len(u)
    BY <1>3
  <2>2. n + 1 \in 1..Len(u) /\ (n # 0 => n \in 1..n)
    BY <1>3
  <2> QED BY <1>1, <1>3, <2>1, <2>2 DEF Characters
<1>11. c # "-" /\ c \in Y
  OBVIOUS
<1>12. /\ c \in Separator => Words(u, Separator) = Words(t, Separator)
       /\ c \notin Separator /\ (n = 0 \/ t[n] \in Separator) =>
            Words(u, Separator) = Append(Words(t, Separator), <<c>>)
       /\ c \notin Separator /\ n # 0 /\ t[n] \notin Separator =>
            Words(u, Separator) = Longer(Words(t, Separator), c)
  BY <1>1, <1>2, WordsAppend
<1>13. CASE n # 0 /\ c = " " /\ t[n] = " "
  <2>1. c \in Separator /\ t[n] \in Separator
    BY <1>13 DEF Separator
  <2>2. v = d
    BY <1>8, <1>13
  <2>3. /\ Len(d) = 0 <=> Len(u) = 0
        /\ Len(u) # 0 => (d[Len(d)] = "-" <=> u[Len(u)] \in Separator)
    <3>1. d[m] = "-" /\ u[n+1] \in Separator /\ m # 0
      BY <1>3, <1>9, <1>13, <2>1
    <3>2. m = Len(d) /\ n + 1 = Len(u) /\ n + 1 # 0
      BY <1>3, <1>5
    <3> QED BY <3>1, <3>2
  <2>4. \A i \in 2..Len(d) : d[i] = "-" /\ d[i-1] = "-" => "LS" \in Characters(u)
    BY <1>5, <1>9, <1>10
  <2>5. Words(d, {"-"}) = Words(u, Separator)
    BY <1>9, <1>12, <2>1
  <2> QED BY <1>2, <1>7, <2>2, <2>3, <2>4, <2>5 DEF SameWords
<1>14. CASE ~ (n # 0 /\ c = " " /\ t[n] = " ")
  <2>1. v = Append(d, h)
    BY <1>8, <1>14
  <2>2. v \in Seq(Z) /\ Len(v) = m + 1 /\ v[m+1] = h /\ \A i \in 1..m : v[i] = d[i]
    BY <1>5, <2>1, AppendProperties
  <2>3. h = "-" <=> c \in Separator
    BY <1>6, <1>11
  <2>4. /\ h \in {"-"} => Words(v, {"-"}) = Words(d, {"-"})
        /\ h \notin {"-"} /\ (m = 0 \/ d[m] \in {"-"}) =>
             Words(v, {"-"}) = Append(Words(d, {"-"}), <<h>>)
        /\ h \notin {"-"} /\ m # 0 /\ d[m] \notin {"-"} =>
             Words(v, {"-"}) = Longer(Words(d, {"-"}), h)
    <3> HIDE DEF Z
    <3>1. PICK gaps : gaps = {"-"}
      OBVIOUS
    <3>2. /\ h \in gaps => Words(v, gaps) = Words(d, gaps)
          /\ h \notin gaps /\ (m = 0 \/ d[m] \in gaps) =>
               Words(v, gaps) = Append(Words(d, gaps), <<h>>)
          /\ h \notin gaps /\ m # 0 /\ d[m] \notin gaps =>
               Words(v, gaps) = Longer(Words(d, gaps), h)
      BY <1>5, <2>1, WordsAppend
    <3> QED BY <3>1, <3>2
  <2>5. Words(v, {"-"}) = Words(u, Separator)
    <3>1. CASE c \in Separator
      BY <1>9, <1>12, <2>3, <2>4, <3>1
    <3>2. CASE c \notin Separator
      <4>1. h = c /\ h \notin {"-"}
        BY <1>6, <2>3, <3>2
      <4>2. CASE n = 0 \/ t[n] \in Separator
        <5>1. m = 0 \/ d[m] \in {"-"}
          BY <1>9, <4>2
        <5> QED BY <1>9, <1>12, <2>4, <3>2, <4>1, <4>2, <5>1
      <4>3. CASE n # 0 /\ t[n] \notin Separator
        <5>1. m # 0 /\ d[m] \notin {"-"}
          BY <1>9, <4>3
        <5> QED BY <1>9, <1>12, <2>4, <3>2, <4>1, <4>3, <5>1
      <4> QED BY <4>2, <4>3
    <3> QED BY <3>1, <3>2
  <2>6. ASSUME NEW i \in 2..(m + 1), v[i] = "-", v[i-1] = "-" PROVE "LS" \in Characters(u)
    <3>1. CASE i = m + 1
      <4>1. m # 0 /\ i - 1 = m /\ m \in 1..m
        BY <3>1
      <4>2. c \in Separator /\ n # 0 /\ t[n] \in Separator
        BY <1>9, <2>2, <2>3, <2>6, <3>1, <4>1
      <4>3. c = "LS" \/ t[n] = "LS"
        BY <1>14, <4>2 DEF Separator
      <4> QED BY <1>10, <4>2, <4>3
    <3>2. CASE i # m + 1
      <4>1. i \in 2..m /\ i \in 1..m /\ i - 1 \in 1..m
        BY <3>2
      <4>2. d[i] = "-" /\ d[i-1] = "-"
        BY <2>2, <2>6, <4>1
      <4> QED BY <1>9, <1>10, <4>1, <4>2
    <3> QED BY <3>1, <3>2
  <2>7. /\ Len(v) = 0 <=> Len(u) = 0
        /\ Len(u) # 0 => (v[Len(v)] = "-" <=> u[Len(u)] \in Separator)
    BY <1>3, <2>2, <2>3
  <2> QED BY <1>2, <1>7, <2>2, <2>5, <2>6, <2>7 DEF SameWords
<1> QED BY <1>13, <1>14

(* So it holds of every text without hyphens.                               *)
LEMMA SameWordsFact ==
  ASSUME NEW Y, "-" \notin Y, NEW t \in Seq(Y)
  PROVE  SameWords(t)
<1> DEFINE S == {r \in Seq(Y) : SameWords(r)}
<1>1. <<>> \in S
  <2>1. CollapseSpaces(<<>>) = <<>>
    <3>1. FlattenSeq(<<>>) = <<>>
      BY DEF FlattenSeq
    <3> QED BY <3>1 DEF CollapseSpaces
  <2>2. Joined(<<>>) = <<>>
    BY <2>1 DEF Joined, Hyphenate
  <2>3. \A gaps : Words(<<>>, gaps) = <<>>
    <3>1. SUFFICES ASSUME NEW gaps PROVE Words(<<>>, gaps) = <<>>
      OBVIOUS
    <3>2. PICK m \in Nat : \E b, e : Cut(<<>>, gaps, m, b, e)
      BY EmptySeq, CutExists
    <3>3. PICK b, e : Cut(<<>>, gaps, m, b, e)
      BY <3>2
    <3>4. Starts(<<>>, gaps) = {} /\ Len(<<>>) \in Nat
      BY DEF Starts
    <3>5. m = 0
      BY <3>3, <3>4, FS_EmptySet DEF Cut
    <3>6. Words(<<>>, gaps) = Parts(<<>>, m, b, e)
      BY <3>3, <3>4, WordsOfCut
    <3> QED BY <3>5, <3>6 DEF Parts
  <2>4. Len(<<>>) = 0
    OBVIOUS
  <2>5. SameWords(<<>>)
    BY <2>2, <2>3, <2>4 DEF SameWords
  <2> QED BY <2>5, EmptySeq
<1>2. ASSUME NEW r \in Seq(Y), NEW c \in Y, r \in S PROVE Append(r, c) \in S
  BY <1>2, SameWordsAppend, AppendProperties
<1>3. t \in S
  <2> HIDE DEF S
  <2> QED BY <1>1, <1>2, TextInduction
<1> QED BY <1>3

(* Of every title of any characters.                                        *)
LEMMA SlugFact ==
  ASSUME NEW X, NEW s \in Seq(X)
  PROVE  IsSlugOf(Slugify(s), s)
<1>1. PICK t \in Seq(Alphabet(X)) : t = Spelled(s)
  <2>1. CASE s = <<>>
    <3>1. FlattenSeq(<<>>) = <<>>
      BY DEF FlattenSeq
    <3>2. Spelled(<<>>) = <<>>
      BY <3>1 DEF Spelled
    <3> QED BY <2>1, <3>2, EmptySeq
  <2>2. CASE s # <<>>
    <3>1. PICK r \in Seq(X), c \in X : s = Append(r, c)
      BY <2>2, SequenceEmptyOrAppend
    <3> QED BY <3>1, SpelledFact
  <2> QED BY <2>1, <2>2
<1>2. Slugify(s) = Joined(t)
  BY <1>1, SpelledIsLower DEF Slugify, Joined
<1>3. "-" \notin Alphabet(X)
  BY DEF Alphabet
<1>4. SameWords(t)
  BY <1>3, SameWordsFact
<1>5. "LS" \in Characters(t) => "LS" \in Range(s)
  <2>1. DOMAIN s = 1..Len(s)
    BY LenProperties
  <2> QED BY <1>1, <2>1, LinesComeFromTitle DEF Characters, Range
<1>6. IsSlugOf(Joined(t), s) <=>
        /\ Words(Joined(t), {"-"}) = Words(t, Separator)
        /\ \A i \in 2..Len(Joined(t)) :
             Joined(t)[i] = "-" /\ Joined(t)[i-1] = "-" => "LS" \in Range(s)
  BY <1>1, Zenon DEF IsSlugOf, Spelled
<1> QED BY <1>2, <1>4, <1>5, <1>6 DEF SameWords

(* The slug of a title of any length has the words of the title in their    *)
(* order, and two hyphens in a row only where the title has a line          *)
(* separator.                                                               *)
THEOREM SlugsAlwaysKeepWords == Spec => []SlugKeepsWords
<1>1. text \in Seq(TitleCharacters \cup EmailCharacters) => SlugKeepsWords
  BY SlugFact DEF SlugKeepsWords
<1> QED BY <1>1, TextAlways, PTL
===============================================================================
