------------------------- MODULE JsonAnswersProofs -------------------------
(***************************************************************************)
(* Proofs about Util.json_parse: it reads the value of the field it was    *)
(* asked for, for any words, and for any number of members in any order.   *)
(*                                                                         *)
(* A text is taken apart at its quotes.  Seen from its beginning, every    *)
(* position is inside or outside of quotes, what indexOf finds of the      *)
(* field is inside, and json_parse always goes on from outside.            *)
(***************************************************************************)
EXTENDS JsonAnswers, FiniteSetTheorems, SequenceTheorems, TLAPS

Tokens == Words \cup Punctuation

-----------------------------------------------------------------------------
(* Induction.                                                              *)

(* Induction over the natural numbers, for a set: the intervals 0..n are   *)
(* finite sets, and strict inclusion is well founded on those.             *)
LEMMA SetInduction ==
  ASSUME NEW S, 0 \in S, \A n \in Nat : n \in S => n + 1 \in S
  PROVE  Nat \subseteq S
<1> DEFINE R == StrictSubsetOrdering(Nat)
           T == {U \in FiniteSubsetsOf(Nat) : \E n \in Nat \ S : U = 0..n}
<1> SUFFICES ASSUME NEW m \in Nat, m \notin S PROVE FALSE
  OBVIOUS
<1>1. \A n \in Nat : 0..n \in FiniteSubsetsOf(Nat)
  BY FS_Interval DEF FiniteSubsetsOf
<1>2. 0..m \in T
  BY <1>1
<1>3. \E U \in T : \A V \in T : ~(<<V, U>> \in R)
  <2>1. IsWellFoundedOn(R, FiniteSubsetsOf(Nat))
    BY FS_StrictSubsetOrderingWellFounded
  <2>2. T \subseteq FiniteSubsetsOf(Nat) /\ T # {}
    BY <1>2
  <2> HIDE DEF R, T
  <2> QED BY <2>1, <2>2, WFMin
<1>4. PICK U \in T : \A V \in T : ~(<<V, U>> \in R)
  BY <1>3
<1>5. PICK n \in Nat \ S : U = 0..n
  BY <1>4
<1>6. n # 0 /\ n - 1 \in Nat
  BY <1>5
<1>7. n - 1 \notin S
  BY <1>5, <1>6
<1>8. 0..(n - 1) \in T
  BY <1>1, <1>6, <1>7
<1>9. <<0..(n - 1), U>> \in R
  <2>1. 0..(n - 1) \subseteq U /\ n \in U /\ n \notin 0..(n - 1)
    BY <1>5, <1>6
  <2>2. 0..(n - 1) \in SUBSET Nat /\ U \in SUBSET Nat
    BY <1>1, <1>5, <1>6
  <2> QED BY <2>1, <2>2 DEF StrictSubsetOrdering
<1> QED BY <1>4, <1>8, <1>9

(* A set of natural numbers that is not empty has a least element.         *)
LEMMA Least ==
  ASSUME NEW T \in SUBSET Nat, T # {}
  PROVE  \E m \in T : \A k \in T : m <= k
<1> SUFFICES ASSUME \A m \in T : \E k \in T : k < m PROVE FALSE
  OBVIOUS
<1> DEFINE S == {n \in Nat : \A k \in T : n < k}
<1>1. 0 \in S
  OBVIOUS
<1>2. \A n \in Nat : n \in S => n + 1 \in S
  <2> SUFFICES ASSUME NEW n \in S PROVE n + 1 \in S
    OBVIOUS
  <2>1. \A k \in T : n + 1 <= k
    OBVIOUS
  <2>2. n + 1 \notin T
    BY <2>1
  <2> QED BY <2>1, <2>2
<1>3. Nat \subseteq S
  <2> HIDE DEF S
  <2> QED BY <1>1, <1>2, SetInduction
<1>4. PICK k \in T : TRUE
  OBVIOUS
<1>5. k \in S
  BY <1>3, <1>4
<1> QED BY <1>4, <1>5

(* What FirstAt finds.                                                     *)
IsFirst(f, S, i) ==
  \/ f = 0 /\ \A j \in i..Len(json) : json[j] \notin S
  \/ f \in i..Len(json) /\ json[f] \in S /\ \A j \in i..(f - 1) : json[j] \notin S

(* indexOf finds the first of the tokens, or none.                         *)
LEMMA FirstAtFinds ==
  ASSUME NEW S, NEW i \in Nat \ {0}, Len(json) \in Nat
  PROVE  IsFirst(FirstAt(S, i), S, i)
<1> DEFINE T == {j \in i..Len(json) : json[j] \in S}
<1>1. CASE T = {}
  BY <1>1 DEF FirstAt, IsFirst
<1>2. CASE T # {}
  <2>0. \E m \in T : \A k \in T : m <= k
    <3>1. T \in SUBSET Nat
      OBVIOUS
    <3> HIDE DEF T
    <3> QED BY <1>2, <3>1, Least
  <2>1. PICK m \in T : \A k \in T : m <= k
    BY <2>0
  <2>2. \A k \in i..(m - 1) : json[k] \notin S
    BY <2>1
  <2>3. \E j \in i..Len(json) : json[j] \in S /\ \A k \in i..(j - 1) : json[k] \notin S
    BY <2>1, <2>2
  <2>4. /\ FirstAt(S, i) \in i..Len(json) /\ json[FirstAt(S, i)] \in S
        /\ \A k \in i..(FirstAt(S, i) - 1) : json[k] \notin S
    BY <2>3, Zenon DEF FirstAt
  <2> QED BY <2>4 DEF IsFirst
<1> QED BY <1>1, <1>2

-----------------------------------------------------------------------------
(* Inside and outside of quotes.                                           *)

(* I: the positions of t that are inside of quotes, counted from the       *)
(* opening quote (outside) to the closing one (inside).  What indexOf      *)
(* finds of the field is inside.                                           *)
QuotedIn(t, I) ==
  /\ 1 \notin I /\ Len(t) + 1 \notin I
  /\ \A i \in 1..Len(t) :
       /\ t[i] = Quote => (i + 1 \in I <=> i \notin I)
       /\ t[i] # Quote => (i + 1 \in I <=> i \in I)
       /\ t[i] \in Hits => i \in I

Balanced(t) == \E I \in SUBSET Nat : QuotedIn(t, I)

(* A text of single tokens that are neither quotes nor found by indexOf.   *)
LEMMA PlainBalanced ==
  ASSUME NEW t \in Seq(Tokens), \A i \in 1..Len(t) : t[i] # Quote /\ t[i] \notin Hits
  PROVE  Balanced(t)
<1>1. QuotedIn(t, {})
  BY DEF QuotedIn
<1> QED BY <1>1 DEF Balanced

(* Two texts one after the other: what is inside in one is in both.        *)
LEMMA JoinBalanced ==
  ASSUME NEW s \in Seq(Tokens), NEW t \in Seq(Tokens), Balanced(s), Balanced(t)
  PROVE  Balanced(s \o t)
<1>1. PICK I \in SUBSET Nat : QuotedIn(s, I)
  BY DEF Balanced
<1>2. PICK J \in SUBSET Nat : QuotedIn(t, J)
  BY DEF Balanced
<1> DEFINE n == Len(s)
           K == {k \in Nat : (k <= n /\ k \in I) \/ (k > n /\ k - n \in J)}
<1>3. /\ n \in Nat /\ Len(t) \in Nat /\ Len(s \o t) = n + Len(t)
      /\ \A i \in 1..n : (s \o t)[i] = s[i]
      /\ \A i \in (n + 1)..(n + Len(t)) : (s \o t)[i] = t[i - n]
  OBVIOUS
<1>4. 1 \notin K /\ n + Len(t) + 1 \notin K
  BY <1>1, <1>2, <1>3 DEF QuotedIn
<1>5. \A i \in 1..n : (i \in K <=> i \in I) /\ (i + 1 \in K <=> i + 1 \in I)
  <2>1. 1 \notin J /\ n + 1 \notin I
    BY <1>1, <1>2 DEF QuotedIn
  <2>2. \A i \in Nat : (i <= n => (i \in K <=> i \in I)) /\ (i > n => (i \in K <=> i - n \in J))
    <3> SUFFICES ASSUME NEW i \in Nat
                 PROVE  (i <= n => (i \in K <=> i \in I)) /\ (i > n => (i \in K <=> i - n \in J))
      OBVIOUS
    <3>1. i \in K <=> (i <= n /\ i \in I) \/ (i > n /\ i - n \in J)
      OBVIOUS
    <3>2. ~(i <= n /\ i > n)
      BY <1>3
    <3> HIDE DEF K
    <3> QED BY <3>1, <3>2
  <2>3. n + 1 \notin K
    <3>1. (n + 1) - n = 1
      BY <1>3
    <3> QED BY <1>3, <2>1, <2>2, <3>1
  <2> HIDE DEF K
  <2> QED BY <1>3, <2>1, <2>2, <2>3
<1>6. \A i \in (n + 1)..(n + Len(t)) : (i \in K <=> i - n \in J) /\ (i + 1 \in K <=> (i - n) + 1 \in J)
  BY <1>3
<1>7. \A i \in (n + 1)..(n + Len(t)) : i - n \in 1..Len(t)
  BY <1>3
<1> HIDE DEF K
<1>8. ASSUME NEW i \in 1..(n + Len(t))
      PROVE  /\ (s \o t)[i] = Quote => (i + 1 \in K <=> i \notin K)
             /\ (s \o t)[i] # Quote => (i + 1 \in K <=> i \in K)
             /\ (s \o t)[i] \in Hits => i \in K
  <2>1. CASE i \in 1..n
    BY <1>1, <1>3, <1>5, <2>1 DEF QuotedIn
  <2>2. CASE i \in (n + 1)..(n + Len(t))
    <3>1. i - n \in 1..Len(t) /\ (s \o t)[i] = t[i - n]
      BY <1>3, <1>7, <2>2
    <3>2. (i \in K <=> i - n \in J) /\ (i + 1 \in K <=> (i - n) + 1 \in J)
      BY <1>6, <2>2
    <3> QED BY <1>2, <3>1, <3>2 DEF QuotedIn
  <2> QED BY <1>3, <2>1, <2>2
<1>9. QuotedIn(s \o t, K)
  BY <1>3, <1>4, <1>8 DEF QuotedIn
<1> QED BY <1>9 DEF Balanced, K

(* From a quote to the next nothing changes: a stretch without quotes is   *)
(* all inside or all outside.                                              *)
LEMMA SameSide ==
  ASSUME NEW t \in Seq(Tokens), NEW I \in SUBSET Nat, QuotedIn(t, I),
         NEW a \in 1..(Len(t) + 1), NEW b \in a..(Len(t) + 1),
         \A i \in a..(b - 1) : t[i] # Quote
  PROVE  b \in I <=> a \in I
<1> DEFINE S == {n \in Nat : a + n <= b => (a + n \in I <=> a \in I)}
<1>1. 0 \in S
  OBVIOUS
<1>2. ASSUME NEW n \in Nat, n \in S PROVE n + 1 \in S
  <2> SUFFICES ASSUME a + (n + 1) <= b PROVE a + (n + 1) \in I <=> a \in I
    OBVIOUS
  <2>1. a + n \in 1..Len(t) /\ t[a + n] # Quote /\ (a + n) + 1 = a + (n + 1)
    OBVIOUS
  <2>2. a + n \in I <=> a \in I
    BY <1>2
  <2> QED BY <2>1, <2>2 DEF QuotedIn
<1>3. Nat \subseteq S
  <2> HIDE DEF S
  <2> QED BY <1>1, <1>2, SetInduction
<1>4. b - a \in Nat /\ a + (b - a) = b
  OBVIOUS
<1>5. b - a \in S
  BY <1>3, <1>4
<1> QED BY <1>4, <1>5

-----------------------------------------------------------------------------
(* The texts of the services.                                              *)

(* At p stands the field's name, quoted, and behind it v and the end of    *)
(* the member.                                                             *)
Holds(t, p, v) ==
  /\ p > 1 /\ p + Len(v) + 3 <= Len(t)
  /\ t[p - 1] = Quote /\ t[p + 1] = Quote /\ t[p + 2] = ":"
  /\ \A i \in 1..Len(v) : t[p + 2 + i] = v[i]
  /\ t[p + Len(v) + 3] \in {Comma, RBrace}

(* Wherever the field's name stands in t it is the name of one of the      *)
(* members in N, and has that member's value; one that is in N is found.   *)
Tells(t, N) ==
  /\ \A p \in 1..Len(t) : t[p] = Field => \E m \in N : m.name = Field /\ Holds(t, p, m.value)
  /\ \A m \in N : m.name = Field => \E p \in 1..Len(t) : t[p] = Field

Sound(t, N) == t \in Seq(Tokens) /\ Balanced(t) /\ Tells(t, N)

(* The tokens of two texts one after the other.                            *)
LEMMA Joined ==
  ASSUME NEW S, NEW s \in Seq(S), NEW t \in Seq(S)
  PROVE  /\ s \o t \in Seq(S) /\ Len(s) \in Nat /\ Len(t) \in Nat
         /\ Len(s \o t) = Len(s) + Len(t)
         /\ \A i \in 1..Len(s) : (s \o t)[i] = s[i]
         /\ \A i \in 1..Len(t) : (s \o t)[Len(s) + i] = t[i]
         /\ \A i \in 1..Len(s \o t) : i \in 1..Len(s) \/ \E j \in 1..Len(t) : i = Len(s) + j
<1>1. /\ s \o t \in Seq(S) /\ Len(s) \in Nat /\ Len(t) \in Nat
      /\ Len(s \o t) = Len(s) + Len(t)
      /\ \A i \in 1..Len(s) : (s \o t)[i] = s[i]
      /\ \A i \in 1..Len(t) : (s \o t)[Len(s) + i] = t[i]
  OBVIOUS
<1>2. ASSUME NEW i \in 1..(Len(s) + Len(t)), i \notin 1..Len(s)
      PROVE  \E j \in 1..Len(t) : i = Len(s) + j
  <2>1. i - Len(s) \in 1..Len(t) /\ i = Len(s) + (i - Len(s))
    BY <1>1, <1>2
  <2> QED BY <2>1
<1> QED BY <1>1, <1>2

(* What a text holds it also holds in front of another ...                 *)
LEMMA HoldsBefore ==
  ASSUME NEW s \in Seq(Tokens), NEW t \in Seq(Tokens), NEW v, Len(v) \in Nat,
         NEW p \in 1..Len(s), Holds(s, p, v)
  PROVE  Holds(s \o t, p, v)
<1>1. /\ Len(s) \in Nat /\ Len(t) \in Nat /\ Len(s \o t) = Len(s) + Len(t)
      /\ \A i \in 1..Len(s) : (s \o t)[i] = s[i]
  BY Joined
<1>2. p > 1 /\ p + Len(v) + 3 <= Len(s)
  BY DEF Holds
<1>3. /\ p - 1 \in 1..Len(s) /\ p + 1 \in 1..Len(s) /\ p + 2 \in 1..Len(s)
      /\ p + Len(v) + 3 \in 1..Len(s)
      /\ \A i \in 1..Len(v) : p + 2 + i \in 1..Len(s)
  BY <1>1, <1>2
<1>4. /\ (s \o t)[p - 1] = Quote /\ (s \o t)[p + 1] = Quote /\ (s \o t)[p + 2] = ":"
      /\ (s \o t)[p + Len(v) + 3] \in {Comma, RBrace}
  BY <1>1, <1>3 DEF Holds
<1>5. \A i \in 1..Len(v) : (s \o t)[p + 2 + i] = v[i]
  BY <1>1, <1>3 DEF Holds
<1>6. p + Len(v) + 3 <= Len(s \o t)
  BY <1>1, <1>2
<1> QED BY <1>2, <1>4, <1>5, <1>6, Zenon DEF Holds

(* ... and behind another.                                                 *)
LEMMA HoldsBehind ==
  ASSUME NEW s \in Seq(Tokens), NEW t \in Seq(Tokens), NEW v, Len(v) \in Nat,
         NEW p \in 1..Len(t), Holds(t, p, v)
  PROVE  Holds(s \o t, Len(s) + p, v)
<1>1. /\ Len(s) \in Nat /\ Len(t) \in Nat /\ Len(s \o t) = Len(s) + Len(t)
      /\ \A i \in 1..Len(t) : (s \o t)[Len(s) + i] = t[i]
  BY Joined
<1>2. p > 1 /\ p + Len(v) + 3 <= Len(t)
  BY DEF Holds
<1>3. /\ p - 1 \in 1..Len(t) /\ p + 1 \in 1..Len(t) /\ p + 2 \in 1..Len(t)
      /\ p + Len(v) + 3 \in 1..Len(t)
      /\ \A i \in 1..Len(v) : p + 2 + i \in 1..Len(t)
  BY <1>1, <1>2
<1> DEFINE q == Len(s) + p
<1>4. /\ q - 1 = Len(s) + (p - 1) /\ q + 1 = Len(s) + (p + 1) /\ q + 2 = Len(s) + (p + 2)
      /\ q + Len(v) + 3 = Len(s) + (p + Len(v) + 3)
      /\ \A i \in 1..Len(v) : q + 2 + i = Len(s) + (p + 2 + i)
  BY <1>1
<1>5. q > 1 /\ q + Len(v) + 3 <= Len(s \o t)
  BY <1>1, <1>2
<1> HIDE DEF q
<1>6. /\ (s \o t)[q - 1] = Quote /\ (s \o t)[q + 1] = Quote /\ (s \o t)[q + 2] = ":"
      /\ (s \o t)[q + Len(v) + 3] \in {Comma, RBrace}
  BY <1>1, <1>3, <1>4 DEF Holds
<1>7. \A i \in 1..Len(v) : (s \o t)[q + 2 + i] = v[i]
  BY <1>1, <1>3, <1>4 DEF Holds
<1>8. Holds(s \o t, q, v)
  BY <1>5, <1>6, <1>7, Zenon DEF Holds
<1> QED BY <1>8 DEF q

(* Sound texts one after the other.                                        *)
LEMMA JoinSound ==
  ASSUME NEW s, NEW t, NEW M, NEW N, Sound(s, M), Sound(t, N),
         \A m \in M \cup N : Len(m.value) \in Nat
  PROVE  Sound(s \o t, M \cup N)
<1>1. s \in Seq(Tokens) /\ t \in Seq(Tokens) /\ Balanced(s \o t)
  BY JoinBalanced DEF Sound
<1>2. /\ s \o t \in Seq(Tokens) /\ Len(s) \in Nat /\ Len(t) \in Nat
      /\ Len(s \o t) = Len(s) + Len(t)
      /\ \A i \in 1..Len(s) : (s \o t)[i] = s[i]
      /\ \A i \in 1..Len(t) : (s \o t)[Len(s) + i] = t[i]
      /\ \A i \in 1..Len(s \o t) : i \in 1..Len(s) \/ \E j \in 1..Len(t) : i = Len(s) + j
  BY <1>1, Joined
<1>3. ASSUME NEW p \in 1..Len(s \o t), (s \o t)[p] = Field
      PROVE  \E m \in M \cup N : m.name = Field /\ Holds(s \o t, p, m.value)
  <2>1. CASE p \in 1..Len(s)
    <3>1. PICK m \in M : m.name = Field /\ Holds(s, p, m.value)
      BY <1>2, <1>3, <2>1 DEF Sound, Tells
    <3>2. Holds(s \o t, p, m.value)
      BY <1>1, <2>1, <3>1, HoldsBefore
    <3> QED BY <3>1, <3>2
  <2>2. CASE p \notin 1..Len(s)
    <3>1. PICK j \in 1..Len(t) : p = Len(s) + j
      BY <1>2, <2>2
    <3>2. PICK m \in N : m.name = Field /\ Holds(t, j, m.value)
      BY <1>2, <1>3, <3>1 DEF Sound, Tells
    <3>3. Holds(s \o t, p, m.value)
      BY <1>1, <3>1, <3>2, HoldsBehind
    <3> QED BY <3>2, <3>3
  <2> QED BY <2>1, <2>2
<1>4. ASSUME NEW m \in M \cup N, m.name = Field PROVE \E p \in 1..Len(s \o t) : (s \o t)[p] = Field
  <2>1. CASE m \in M
    <3>1. PICK p \in 1..Len(s) : s[p] = Field
      BY <1>4, <2>1 DEF Sound, Tells
    <3>2. p \in 1..Len(s \o t) /\ (s \o t)[p] = Field
      BY <1>2, <3>1
    <3> QED BY <3>2
  <2>2. CASE m \in N
    <3>1. PICK p \in 1..Len(t) : t[p] = Field
      BY <1>4, <2>2 DEF Sound, Tells
    <3>2. Len(s) + p \in 1..Len(s \o t) /\ (s \o t)[Len(s) + p] = Field
      BY <1>2, <3>1
    <3> QED BY <3>2
  <2> QED BY <2>1, <2>2
<1> QED BY <1>1, <1>2, <1>3, <1>4 DEF Sound, Tells

(* Text that is not quoted and does not hold the field tells of nobody.    *)
LEMMA PlainSound ==
  ASSUME NEW t \in Seq(Tokens), \A i \in 1..Len(t) : t[i] # Quote /\ t[i] \notin Hits
  PROVE  Sound(t, {})
BY PlainBalanced DEF Sound, Tells, Hits

(* Words, found and not found by indexOf, and punctuation.                 *)
LEMMA TokensApart ==
  /\ Field \in Hits /\ Hits \subseteq Words /\ Words \cap Punctuation = {}
  /\ Others \subseteq Words \ Hits /\ Numbers \cup {"null", "status", "data", "1"} \subseteq Words \ Hits
  /\ \A w \in Longer : w # Field
  /\ Words \subseteq Tokens /\ Punctuation \subseteq Tokens
  /\ {Quote, ":", Comma, LBrace, RBrace, "[", "]"} = Punctuation
  /\ Quote \in Tokens /\ {":", Comma, LBrace, RBrace, "[", "]"} \subseteq Tokens
  /\ Quote \notin {":", Comma, LBrace, RBrace, "[", "]"}
BY JsonAssumption DEF Hits, Words, Tokens, Punctuation, Quote, Comma, LBrace, RBrace

(* Texts of one token and of three. *)
LEMMA OneToken ==
  ASSUME NEW S, NEW w \in S
  PROVE  <<w>> \in Seq(S) /\ Len(<<w>>) = 1 /\ <<w>>[1] = w /\ \A i \in 1..1 : <<w>>[i] = w
OBVIOUS

(* The same of a text of three: a word between its quotes, a member. *)
LEMMA ThreeTokens ==
  ASSUME NEW S, NEW w \in S, NEW x \in S, NEW y \in S
  PROVE  /\ <<w, x, y>> \in Seq(S) /\ Len(<<w, x, y>>) = 3
         /\ <<w, x, y>>[1] = w /\ <<w, x, y>>[2] = x /\ <<w, x, y>>[3] = y
         /\ \A i \in 1..3 : i = 1 \/ i = 2 \/ i = 3
OBVIOUS

(* A text between quotes.                                                  *)
LEMMA QuotedText ==
  ASSUME NEW u \in Seq(Tokens)
  PROVE  /\ Quoted(u) \in Seq(Tokens) /\ Len(u) \in Nat /\ Len(Quoted(u)) = Len(u) + 2
         /\ Quoted(u)[1] = Quote /\ Quoted(u)[Len(u) + 2] = Quote
         /\ \A i \in 1..Len(u) : Quoted(u)[i + 1] = u[i]
<1>1. <<Quote>> \in Seq(Tokens) /\ Len(<<Quote>>) = 1 /\ <<Quote>>[1] = Quote
  BY TokensApart, OneToken
<1>2. Quoted(u) \in Seq(Tokens) /\ Len(u) \in Nat /\ Len(Quoted(u)) = Len(u) + 2
  BY <1>1, Joined DEF Quoted
<1>3. /\ <<Quote>> \o u \in Seq(Tokens) /\ Len(<<Quote>> \o u) = Len(u) + 1
      /\ (<<Quote>> \o u)[1] = Quote /\ \A i \in 1..Len(u) : (<<Quote>> \o u)[1 + i] = u[i]
  BY <1>1, Joined
<1>4. /\ \A i \in 1..(Len(u) + 1) : Quoted(u)[i] = (<<Quote>> \o u)[i]
      /\ Quoted(u)[Len(u) + 2] = Quote
  BY <1>1, <1>2, <1>3, Joined DEF Quoted
<1> QED BY <1>2, <1>3, <1>4

(* ... is inside of them. *)
LEMMA QuotedBalanced ==
  ASSUME NEW u \in Seq(Tokens), \A i \in 1..Len(u) : u[i] # Quote
  PROVE  Balanced(Quoted(u))
<1> DEFINE t == Quoted(u)
           I == 2..(Len(u) + 2)
<1>1. /\ Len(u) \in Nat /\ Len(t) = Len(u) + 2 /\ t[1] = Quote /\ t[Len(u) + 2] = Quote
      /\ \A i \in 1..Len(u) : t[i + 1] = u[i]
  BY QuotedText
<1>2. Quote \notin Hits
  BY TokensApart
<1> HIDE DEF t
<1>3. \A i \in 2..(Len(u) + 1) : t[i] # Quote
  <2> SUFFICES ASSUME NEW i \in 2..(Len(u) + 1) PROVE t[i] # Quote
    OBVIOUS
  <2>1. i - 1 \in 1..Len(u) /\ (i - 1) + 1 = i
    BY <1>1
  <2>2. t[(i - 1) + 1] = u[i - 1]
    BY <1>1, <2>1
  <2> QED BY <2>1, <2>2
<1>4. QuotedIn(t, I)
  BY <1>1, <1>2, <1>3 DEF QuotedIn
<1>5. I \in SUBSET Nat
  BY <1>1
<1> QED BY <1>4, <1>5 DEF Balanced, t

(* What is between the quotes of a value.                                  *)
LEMMA QuotedValueText ==
  ASSUME NEW u \in QuotedValues
  PROVE  /\ u \in Seq(Tokens) /\ Len(u) \in {1, 3}
         /\ \A i \in 1..Len(u) : u[i] \in (Words \cup {Comma}) \ {Field, Quote}
<1>1. CASE \E w \in Longer \cup Others : u = <<w>>
  <2>1. PICK w \in Longer \cup Others : u = <<w>>
    BY <1>1
  <2>2. w \in Words /\ w \in Tokens /\ w # Field /\ w # Quote
    BY TokensApart, JsonAssumption DEF Hits
  <2>3. u \in Seq(Tokens) /\ Len(u) = 1 /\ \A i \in 1..1 : u[i] = w
    BY <2>1, <2>2, OneToken
  <2> QED BY <2>2, <2>3
<1>2. CASE \E w \in Others : u = <<w, Comma, w>>
  <2>1. PICK w \in Others : u = <<w, Comma, w>>
    BY <1>2
  <2>2. w \in Words /\ w \in Tokens /\ w # Field /\ w # Quote
        /\ Comma \in Tokens /\ Comma # Quote /\ Comma # Field
    BY TokensApart, JsonAssumption DEF Hits
  <2>3. /\ u \in Seq(Tokens) /\ Len(u) = 3 /\ u[1] = w /\ u[2] = Comma /\ u[3] = w
        /\ \A i \in 1..3 : i = 1 \/ i = 2 \/ i = 3
    BY <2>1, <2>2, ThreeTokens
  <2> QED BY <2>2, <2>3
<1> QED BY <1>1, <1>2 DEF QuotedValues

(* A value: its quotes match, and the field's name is nowhere in it.       *)
LEMMA ValueText ==
  ASSUME NEW v \in Values
  PROVE  /\ v \in Seq(Tokens) /\ Len(v) \in Nat /\ Balanced(v)
         /\ \A i \in 1..Len(v) : v[i] # Field
<1>1. CASE \E u \in QuotedValues : v = Quoted(u)
  <2>1. PICK u \in QuotedValues : v = Quoted(u)
    BY <1>1
  <2>2. /\ u \in Seq(Tokens) /\ \A i \in 1..Len(u) : u[i] # Field /\ u[i] # Quote
    BY QuotedValueText
  <2>3. /\ v \in Seq(Tokens) /\ Len(u) \in Nat /\ Len(v) = Len(u) + 2
        /\ v[1] = Quote /\ v[Len(u) + 2] = Quote
        /\ \A i \in 1..Len(u) : v[i + 1] = u[i]
    BY <2>1, <2>2, QuotedText
  <2>4. \A i \in 1..Len(v) : v[i] # Field
    <3> SUFFICES ASSUME NEW i \in 1..Len(v), i # 1, i # Len(u) + 2 PROVE v[i] # Field
      BY <2>3, TokensApart
    <3>1. i - 1 \in 1..Len(u) /\ (i - 1) + 1 = i
      BY <2>3
    <3> QED BY <2>2, <2>3, <3>1
  <2> QED BY <2>1, <2>2, <2>3, <2>4, QuotedBalanced
<1>2. CASE \E w \in Numbers \cup {"null"} : v = <<w>>
  <2>1. PICK w \in Numbers \cup {"null"} : v = <<w>>
    BY <1>2
  <2>2. w \in Tokens /\ w # Quote /\ w \notin Hits /\ w # Field
    BY TokensApart
  <2>3. v \in Seq(Tokens) /\ Len(v) = 1 /\ v[1] = w
    BY <2>1, <2>2
  <2> QED BY <2>2, <2>3, PlainBalanced
<1> QED BY <1>1, <1>2 DEF Values

(* A text of n tokens. *)
Long(t, n) == t \in Seq(Tokens) /\ n \in Nat /\ Len(t) = n

(* The tokens of a text of one token ... *)
LEMMA LongOne ==
  ASSUME NEW w \in Tokens
  PROVE  Long(<<w>>, 1) /\ <<w>>[1] = w
BY OneToken DEF Long

(* ... between quotes ... *)
LEMMA LongQuoted ==
  ASSUME NEW u, NEW n, Long(u, n)
  PROVE  /\ Long(Quoted(u), n + 2) /\ Quoted(u)[1] = Quote /\ Quoted(u)[n + 2] = Quote
         /\ \A i \in 1..n : Quoted(u)[i + 1] = u[i]
<1>1. u \in Seq(Tokens) /\ n = Len(u) /\ n \in Nat
  BY DEF Long
<1> QED BY <1>1, QuotedText DEF Long

(* The tokens of r are the k tokens of s, and the n of t behind them.      *)
Both(r, s, k, t, n) ==
  /\ \A i \in 1..k : r[i] = s[i]
  /\ \A i \in 1..n : r[k + i] = t[i]

(* ... and of two texts one after the other.                               *)
LEMMA LongJoined ==
  ASSUME NEW s, NEW t, NEW k, NEW n, Long(s, k), Long(t, n)
  PROVE  Long(s \o t, k + n) /\ Both(s \o t, s, k, t, n)
<1>1. /\ s \in Seq(Tokens) /\ k = Len(s) /\ k \in Nat
      /\ t \in Seq(Tokens) /\ n = Len(t) /\ n \in Nat
  BY DEF Long
<1>2. /\ s \o t \in Seq(Tokens) /\ Len(s \o t) = Len(s) + Len(t)
      /\ \A i \in 1..Len(s) : (s \o t)[i] = s[i]
      /\ \A i \in 1..Len(t) : (s \o t)[Len(s) + i] = t[i]
  BY <1>1, Joined
<1>3. k + n \in Nat
  BY <1>1
<1>4. Both(s \o t, s, k, t, n)
  BY <1>1, <1>2 DEF Both
<1> QED BY <1>1, <1>2, <1>3, <1>4, Zenon DEF Long

(* The tokens of a member and of what ends it.                             *)
LEMMA MemberTokens ==
  ASSUME NEW m \in Members, NEW c \in {Comma, RBrace}
  PROVE  LET t == MemberText(m) \o <<c>> IN
         \E k \in Nat :
         /\ Long(MemberText(m), k + 4) /\ Long(t, k + 5) /\ Long(m.value, k) /\ Balanced(t)
         /\ t[1] = Quote /\ t[2] = m.name /\ t[3] = Quote /\ t[4] = ":"
         /\ \A i \in 1..k : t[4 + i] = m.value[i]
         /\ t[k + 5] = c
<1> DEFINE n == m.name
           v == m.value
           k == Len(v)
           colon == <<":">>
           end == <<c>>
           q == Quoted(<<n>>)
           qc == q \o colon
           qv == qc \o v
           t == qv \o end
<1>1. n \in Tokens /\ n # Quote /\ v \in Values
  BY TokensApart DEF Members, Hits
<1>2. Long(v, k) /\ Balanced(v)
  BY <1>1, ValueText DEF Long
<1>3. \A w \in {":", Comma, RBrace} : w \in Tokens /\ w # Quote /\ w \notin Hits
  BY TokensApart
<1>4. \A w \in {":", Comma, RBrace} : Balanced(<<w>>)
  <2> SUFFICES ASSUME NEW w \in {":", Comma, RBrace} PROVE Balanced(<<w>>)
    OBVIOUS
  <2>1. w \in Tokens /\ w # Quote /\ w \notin Hits
    BY <1>3
  <2>2. /\ <<w>> \in Seq(Tokens) /\ Len(<<w>>) = 1 /\ \A i \in 1..1 : <<w>>[i] = w
    BY <2>1, OneToken
  <2> QED BY <2>1, <2>2, PlainBalanced
<1>5. Balanced(q)
  <2>1. /\ <<n>> \in Seq(Tokens) /\ Len(<<n>>) = 1 /\ \A i \in 1..1 : <<n>>[i] = n
    BY <1>1, OneToken
  <2> QED BY <1>1, <2>1, QuotedBalanced
<1>6. Long(<<n>>, 1) /\ <<n>>[1] = n
  BY <1>1, LongOne
<1>7. /\ Long(colon, 1) /\ colon[1] = ":" /\ Balanced(colon)
      /\ Long(end, 1) /\ end[1] = c /\ Balanced(end)
  BY <1>3, <1>4, LongOne
<1>8. MemberText(m) = qv
  BY Zenon DEF MemberText
<1> HIDE DEF n, v, k, colon, end
<1>9. Long(q, 3) /\ q[1] = Quote /\ q[2] = n /\ q[3] = Quote
  <2>1. /\ Long(q, 1 + 2) /\ q[1] = Quote /\ q[1 + 2] = Quote
        /\ \A i \in 1..1 : q[i + 1] = <<n>>[i]
    BY <1>6, LongQuoted
  <2> HIDE DEF q
  <2>2. q[1 + 1] = n
    BY <1>6, <2>1
  <2> QED BY <2>1, <2>2
<1> HIDE DEF q
<1>10. Long(qc, 4) /\ qc[1] = Quote /\ qc[2] = n /\ qc[3] = Quote /\ qc[4] = ":"
  <2>1. Long(qc, 3 + 1) /\ Both(qc, q, 3, colon, 1)
    BY <1>7, <1>9, LongJoined
  <2> HIDE DEF qc
  <2>2. \A i \in 1..3 : qc[i] = q[i]
    BY <2>1 DEF Both
  <2>3. qc[3 + 1] = ":"
    BY <1>7, <2>1 DEF Both
  <2> QED BY <1>9, <2>1, <2>2, <2>3
<1>11. Balanced(qc)
  BY <1>5, <1>7, <1>9, JoinBalanced DEF Long
<1> HIDE DEF qc
<1>12. /\ Long(qv, 4 + k) /\ \A i \in 1..4 : qv[i] = qc[i]
       /\ \A i \in 1..k : qv[4 + i] = v[i]
  <2>1. Long(qv, 4 + k) /\ Both(qv, qc, 4, v, k)
    BY <1>2, <1>10, LongJoined
  <2> QED BY <2>1 DEF Both
<1>13. Balanced(qv)
  BY <1>2, <1>10, <1>11, JoinBalanced DEF Long
<1> HIDE DEF qv
<1>14. /\ Long(t, 4 + k + 1) /\ \A i \in 1..(4 + k) : t[i] = qv[i]
       /\ \A i \in 1..1 : t[4 + k + i] = end[i]
  <2>1. Long(t, 4 + k + 1) /\ Both(t, qv, 4 + k, end, 1)
    BY <1>7, <1>12, LongJoined
  <2> QED BY <2>1 DEF Both
<1>15. Balanced(t)
  BY <1>7, <1>12, <1>13, JoinBalanced DEF Long
<1> HIDE DEF t
<1>16. k \in Nat /\ 4 + k = k + 4 /\ 4 + k + 1 = k + 5
  BY <1>2 DEF Long
<1>17. /\ t[1] = Quote /\ t[2] = n /\ t[3] = Quote /\ t[4] = ":"
       /\ \A i \in 1..k : t[4 + i] = v[i]
  BY <1>10, <1>12, <1>14, <1>16
<1>18. t[k + 5] = c
  BY <1>7, <1>14, <1>16
<1>19. Long(qv, k + 4) /\ Long(t, k + 5)
  BY <1>12, <1>14, <1>16
<1>20. MemberText(m) \o <<c>> = t
  BY <1>8 DEF t, end
<1> QED BY <1>2, <1>8, <1>15, <1>16, <1>17, <1>18, <1>19, <1>20, Zenon DEF n, v

(* It tells of that member.                                                *)
LEMMA MemberSound ==
  ASSUME NEW m \in Members, NEW c \in {Comma, RBrace}
  PROVE  Sound(MemberText(m) \o <<c>>, {m})
<1> DEFINE t == MemberText(m) \o <<c>>
           v == m.value
<1>1. PICK k \in Nat :
        /\ Long(t, k + 5) /\ Long(v, k) /\ Balanced(t)
        /\ t[1] = Quote /\ t[2] = m.name /\ t[3] = Quote /\ t[4] = ":"
        /\ \A i \in 1..k : t[4 + i] = v[i]
        /\ t[k + 5] = c
  BY MemberTokens
<1>2. v \in Values
  BY DEF Members
<1>3. \A i \in 1..k : v[i] # Field
  BY <1>1, <1>2, ValueText DEF Long
<1>4. Field # Quote /\ Field # ":" /\ Field # c
  BY TokensApart
<1> HIDE DEF t, v
<1>5. t \in Seq(Tokens) /\ Len(t) = k + 5 /\ Len(v) = k
  BY <1>1 DEF Long
<1>6. ASSUME NEW p \in 1..(k + 5), t[p] = Field PROVE p = 2
  <2>1. p # 1 /\ p # 3 /\ p # 4 /\ p # k + 5
    BY <1>1, <1>4, <1>6
  <2>2. CASE p > 4
    <3>1. p - 4 \in 1..k /\ 4 + (p - 4) = p
      BY <2>1, <2>2
    <3> QED BY <1>1, <1>3, <1>6, <3>1
  <2> QED BY <2>1, <2>2
<1>7. Holds(t, 2, v)
  <2>1. /\ 2 > 1 /\ 2 + k + 3 <= k + 5 /\ 2 - 1 = 1 /\ 2 + 1 = 3 /\ 2 + 2 = 4 /\ 2 + k + 3 = k + 5
    OBVIOUS
  <2>2. \A i \in 1..k : t[2 + 2 + i] = v[i]
    BY <1>1
  <2>3. t[2 + k + 3] \in {Comma, RBrace}
    BY <1>1, <2>1
  <2> QED BY <1>1, <1>5, <2>1, <2>2, <2>3 DEF Holds
<1>8. 2 \in 1..(k + 5)
  OBVIOUS
<1>9. \A p \in 1..Len(t) : t[p] = Field => m.name = Field /\ Holds(t, p, v)
  BY <1>1, <1>5, <1>6, <1>7
<1>10. m.name = Field => \E p \in 1..Len(t) : t[p] = Field
  BY <1>1, <1>5, <1>8
<1>11. Tells(t, {m})
  BY <1>9, <1>10 DEF Tells, v
<1> QED BY <1>1, <1>5, <1>11 DEF Sound, t

(* The text of the first n members is defined for every n.                 *)
LEMMA ListExists ==
  ASSUME NEW ms, NEW n \in Nat
  PROVE  \E list : list = [i \in 1..n |->
           IF i = 1 THEN MemberText(ms[1]) ELSE (list[i - 1] \o <<Comma>>) \o MemberText(ms[i])]
<1> DEFINE Next1(x, i) == IF i = 1 THEN MemberText(ms[1]) ELSE (x \o <<Comma>>) \o MemberText(ms[i])
           Is(f, k) == f = [i \in 1..k |-> Next1(f[i - 1], i)]
           S == {k \in Nat : \E f : Is(f, k)}
<1>1. 0 \in S
  <2>1. Is([i \in 1..0 |-> Next1(0, i)], 0)
    OBVIOUS
  <2> QED BY <2>1
<1> HIDE DEF Next1
<1>2. ASSUME NEW k \in Nat, k \in S PROVE k + 1 \in S
  <2>1. PICK f : Is(f, k)
    BY <1>2
  <2> DEFINE g == [i \in 1..(k + 1) |-> IF i = k + 1 THEN Next1(f[k], k + 1) ELSE f[i]]
  <2>2. \A i \in 1..k : g[i] = f[i] /\ f[i] = Next1(f[i - 1], i)
    BY <2>1
  <2>3. ASSUME NEW i \in 2..(k + 1) PROVE g[i] = Next1(g[i - 1], i)
    <3>1. i - 1 \in 1..k /\ g[i - 1] = f[i - 1]
      BY <2>2
    <3>2. CASE i = k + 1
      BY <3>1, <3>2
    <3>3. CASE i # k + 1
      <4>1. i \in 1..k
        BY <3>3
      <4>2. g[i] = f[i] /\ f[i] = Next1(f[i - 1], i)
        BY <2>2, <4>1
      <4> HIDE DEF g
      <4> QED BY <3>1, <4>2
    <3> QED BY <3>2, <3>3
  <2>4. g[1] = Next1(g[0], 1)
    <3>1. g[1] = Next1(f[0], 1)
      <4>1. CASE k = 0
        BY <4>1
      <4>2. CASE k # 0
        BY <2>2, <4>2
      <4> QED BY <4>1, <4>2
    <3> QED BY <3>1 DEF Next1
  <2>5. Is(g, k + 1)
    BY <2>3, <2>4
  <2> HIDE DEF g, Is
  <2> QED BY <2>5
<1>3. n \in S
  <2> HIDE DEF S
  <2> QED BY <1>1, <1>2, SetInduction
<1> QED BY <1>3 DEF Next1

(* Texts may be put together in any order.                                 *)
LEMMA Behind ==
  ASSUME NEW r \in Seq(Tokens), NEW s \in Seq(Tokens), NEW t \in Seq(Tokens)
  PROVE  (r \o s) \o t = r \o (s \o t)
BY ConcatAssociative

(* The members, up to what ends the last one, tell of all of them.         *)
LEMMA ListSound ==
  ASSUME NEW ms \in Seq(Members), Len(ms) # 0, NEW c \in {Comma, RBrace}
  PROVE  Sound(MemberList(ms) \o <<c>>, {ms[i] : i \in 1..Len(ms)})
<1> DEFINE list == CHOOSE l : l = [i \in 1..Len(ms) |->
             IF i = 1 THEN MemberText(ms[1]) ELSE (l[i - 1] \o <<Comma>>) \o MemberText(ms[i])]
           First(k) == {ms[i] : i \in 1..k}
           S == {k \in Nat : k + 1 <= Len(ms) =>
                   list[k + 1] \in Seq(Tokens) /\ \A d \in {Comma, RBrace} : Sound(list[k + 1] \o <<d>>, First(k + 1))}
<1>1. list = [i \in 1..Len(ms) |->
             IF i = 1 THEN MemberText(ms[1]) ELSE (list[i - 1] \o <<Comma>>) \o MemberText(ms[i])]
  <2>1. Len(ms) \in Nat
    OBVIOUS
  <2> QED BY <2>1, ListExists
<1>2. MemberList(ms) = list[Len(ms)]
  BY DEF MemberList
<1> HIDE DEF list
<1>3. /\ Len(ms) \in Nat /\ \A i \in 1..Len(ms) : ms[i] \in Members
  OBVIOUS
<1>4. \A i \in 1..Len(ms) : /\ MemberText(ms[i]) \in Seq(Tokens)
                            /\ Len(ms[i].value) \in Nat
                            /\ \A d \in {Comma, RBrace} : Sound(MemberText(ms[i]) \o <<d>>, {ms[i]})
  <2> SUFFICES ASSUME NEW i \in 1..Len(ms)
               PROVE  /\ MemberText(ms[i]) \in Seq(Tokens) /\ Len(ms[i].value) \in Nat
                      /\ \A d \in {Comma, RBrace} : Sound(MemberText(ms[i]) \o <<d>>, {ms[i]})
    OBVIOUS
  <2>1. ms[i] \in Members
    BY <1>3
  <2>2. /\ MemberText(ms[i]) \in Seq(Tokens) /\ Len(ms[i].value) \in Nat
    <3>1. Comma \in {Comma, RBrace}
      OBVIOUS
    <3> QED BY <2>1, <3>1, MemberTokens DEF Long
  <2> QED BY <2>1, <2>2, MemberSound
<1>5. 0 \in S
  <2>1. list[1] = MemberText(ms[1]) /\ 1 \in 1..Len(ms)
    BY <1>1, <1>3
  <2>2. First(1) = {ms[1]}
    OBVIOUS
  <2> HIDE DEF First
  <2>3. list[1] \in Seq(Tokens) /\ \A d \in {Comma, RBrace} : Sound(list[1] \o <<d>>, First(1))
    BY <1>4, <2>1, <2>2, Zenon
  <2>4. 0 + 1 = 1
    OBVIOUS
  <2> QED BY <2>3, <2>4
<1>6. ASSUME NEW k \in Nat, k \in S PROVE k + 1 \in S
  <2> SUFFICES ASSUME (k + 1) + 1 <= Len(ms)
               PROVE  /\ list[(k + 1) + 1] \in Seq(Tokens)
                      /\ \A d \in {Comma, RBrace} : Sound(list[(k + 1) + 1] \o <<d>>, First((k + 1) + 1))
    OBVIOUS
  <2> DEFINE s == list[k + 1]
             m == ms[k + 2]
             t == MemberText(m)
  <2>1. (k + 1) + 1 = k + 2 /\ k + 2 \in 1..Len(ms)
    BY <1>3
  <2>2. s \in Seq(Tokens) /\ Sound(s \o <<Comma>>, First(k + 1))
    BY <1>3, <1>6
  <2>3. list[k + 2] = (s \o <<Comma>>) \o t
    <3>1. k + 2 # 1 /\ (k + 2) - 1 = k + 1
      OBVIOUS
    <3>2. list[k + 2] = (list[(k + 2) - 1] \o <<Comma>>) \o MemberText(ms[k + 2])
      BY <1>1, <2>1, <3>1
    <3> QED BY <3>1, <3>2
  <2>4. t \in Seq(Tokens) /\ Len(m.value) \in Nat /\ \A d \in {Comma, RBrace} : Sound(t \o <<d>>, {m})
    BY <1>4, <2>1
  <2>5. First(k + 2) = First(k + 1) \cup {m}
    OBVIOUS
  <2>6. \A x \in First(k + 1) \cup {m} : Len(x.value) \in Nat
    <3>1. \A i \in 1..(k + 1) : i \in 1..Len(ms)
      BY <2>1
    <3>2. \A x \in First(k + 1) : Len(x.value) \in Nat
      BY <1>4, <3>1
    <3> QED BY <2>4, <3>2
  <2>7. \A d \in {Comma, RBrace} : d \in Tokens /\ <<d>> \in Seq(Tokens)
    BY TokensApart, OneToken
  <2> HIDE DEF First, s, m, t
  <2>8. s \o <<Comma>> \in Seq(Tokens)
    BY <2>2, <2>7, Joined
  <2>9. ASSUME NEW d \in {Comma, RBrace} PROVE Sound(list[k + 2] \o <<d>>, First(k + 2))
    <3>1. list[k + 2] \o <<d>> = (s \o <<Comma>>) \o (t \o <<d>>)
      <4>1. s \o <<Comma>> \in Seq(Tokens) /\ t \in Seq(Tokens) /\ <<d>> \in Seq(Tokens)
        BY <2>4, <2>7, <2>8
      <4>2. ((s \o <<Comma>>) \o t) \o <<d>> = (s \o <<Comma>>) \o (t \o <<d>>)
        BY <4>1, Behind
      <4> QED BY <2>3, <4>2
    <3>2. Sound((s \o <<Comma>>) \o (t \o <<d>>), First(k + 1) \cup {m})
      BY <2>2, <2>4, <2>6, JoinSound
    <3> QED BY <2>5, <3>1, <3>2
  <2>10. list[k + 2] \in Seq(Tokens)
    BY <2>3, <2>4, <2>8, Joined
  <2> QED BY <2>1, <2>9, <2>10
<1>7. Nat \subseteq S
  <2> HIDE DEF S
  <2> QED BY <1>5, <1>6, SetInduction
<1>8. Len(ms) - 1 \in S /\ (Len(ms) - 1) + 1 = Len(ms)
  <2>1. Len(ms) - 1 \in Nat /\ (Len(ms) - 1) + 1 = Len(ms)
    BY <1>3
  <2> HIDE DEF S
  <2> QED BY <1>7, <2>1
<1> QED BY <1>2, <1>3, <1>8

(* The values of members are texts. *)
LEMMA MemberValues ==
  ASSUME NEW ms \in Seq(Members)
  PROVE  \A m \in {ms[i] : i \in 1..Len(ms)} : m \in Members /\ m.value \in Values /\ Len(m.value) \in Nat
<1>1. \A i \in 1..Len(ms) : ms[i] \in Members
  OBVIOUS
<1>2. \A m \in Members : m.value \in Values
  BY DEF Members
<1> QED BY <1>1, <1>2, ValueText

(* The text of an object tells of its members.                             *)
LEMMA ObjectSound ==
  ASSUME NEW ms \in Seq(Members), Len(ms) # 0
  PROVE  Sound(ObjectText(ms), {ms[i] : i \in 1..Len(ms)})
<1> DEFINE N == {ms[i] : i \in 1..Len(ms)}
           l == MemberList(ms) \o <<RBrace>>
<1>1. Sound(l, N)
  <2>1. RBrace \in {Comma, RBrace}
    OBVIOUS
  <2> QED BY <2>1, ListSound
<1>2. Sound(<<LBrace>>, {})
  <2>1. LBrace \in Tokens /\ LBrace # Quote /\ LBrace \notin Hits
    BY TokensApart
  <2>2. /\ <<LBrace>> \in Seq(Tokens) /\ Len(<<LBrace>>) = 1 /\ \A i \in 1..1 : <<LBrace>>[i] = LBrace
    BY <2>1, OneToken
  <2> QED BY <2>1, <2>2, PlainSound
<1>3. \A m \in {} \cup N : Len(m.value) \in Nat
  BY MemberValues
<1>4. ObjectText(ms) = <<LBrace>> \o l
  BY DEF ObjectText
<1>5. {} \cup N = N
  OBVIOUS
<1> HIDE DEF N, l
<1>6. Sound(<<LBrace>> \o l, {} \cup N)
  BY <1>1, <1>2, <1>3, JoinSound
<1> QED BY <1>4, <1>5, <1>6 DEF N

(* What stands before the object in an answer, token by token.             *)
LEMMA HeadSound ==
  Sound(<<LBrace, Quote, "status", Quote, ":", "1", Comma, Quote, "data", Quote, ":", "[">>, {})
<1> DEFINE h == <<LBrace, Quote, "status", Quote, ":", "1", Comma, Quote, "data", Quote, ":", "[">>
           I == {3, 4, 9, 10}
<1>1. /\ {LBrace, ":", "1", Comma, "[", "status", "data", Quote} \subseteq Tokens
      /\ {LBrace, ":", "1", Comma, "[", "status", "data", Quote} \cap Hits = {}
      /\ Quote \notin {LBrace, ":", "1", Comma, "[", "status", "data"}
      /\ Field \in Hits
  BY TokensApart
<1>2. h \in Seq(Tokens) /\ Len(h) = 12
  BY <1>1
<1>3. /\ h[1] = LBrace /\ h[2] = Quote /\ h[3] = "status" /\ h[4] = Quote /\ h[5] = ":" /\ h[6] = "1"
      /\ h[7] = Comma /\ h[8] = Quote /\ h[9] = "data" /\ h[10] = Quote /\ h[11] = ":" /\ h[12] = "["
  OBVIOUS
<1> HIDE DEF h
<1>4. \A i \in 1..12 : i = 1 \/ i = 2 \/ i = 3 \/ i = 4 \/ i = 5 \/ i = 6 \/ i = 7 \/ i = 8 \/ i = 9
                          \/ i = 10 \/ i = 11 \/ i = 12
  OBVIOUS
<1>5. \A i \in 1..12 : h[i] \notin Hits /\ h[i] # Field /\ (h[i] = Quote <=> i \in {2, 4, 8, 10})
  BY <1>1, <1>3, <1>4
<1>6. \A i \in 1..12 : /\ i \in {2, 4, 8, 10} => (i + 1 \in I <=> i \notin I)
                       /\ i \notin {2, 4, 8, 10} => (i + 1 \in I <=> i \in I)
  BY <1>4
<1>7. QuotedIn(h, I)
  BY <1>2, <1>5, <1>6 DEF QuotedIn
<1>8. Balanced(h)
  BY <1>7 DEF Balanced
<1>9. Tells(h, {})
  BY <1>2, <1>5 DEF Tells
<1> QED BY <1>2, <1>8, <1>9 DEF Sound, h

(* So does the text of an answer around the object.                        *)
LEMMA AnswerSound ==
  ASSUME NEW ms \in Seq(Members), Len(ms) # 0
  PROVE  Sound(AnswerText(ms), {ms[i] : i \in 1..Len(ms)})
<1> DEFINE N == {ms[i] : i \in 1..Len(ms)}
           o == ObjectText(ms)
           h == <<LBrace, Quote, "status", Quote, ":", "1", Comma, Quote, "data", Quote, ":", "[">>
           t == <<"]", RBrace>>
<1>1. Sound(o, N)
  BY ObjectSound
<1>2. Sound(h, {})
  BY HeadSound
<1>3. Sound(t, {})
  <2>1. /\ "]" \in Tokens /\ "]" # Quote /\ "]" \notin Hits
        /\ RBrace \in Tokens /\ RBrace # Quote /\ RBrace \notin Hits
    BY TokensApart
  <2>2. /\ t \in Seq(Tokens) /\ Len(t) = 2 /\ t[1] = "]" /\ t[2] = RBrace
    BY <2>1
  <2>3. \A i \in 1..2 : i = 1 \/ i = 2
    OBVIOUS
  <2> HIDE DEF t
  <2> QED BY <2>1, <2>2, <2>3, PlainSound
<1>4. \A m \in N : Len(m.value) \in Nat
  BY MemberValues
<1>5. AnswerText(ms) = h \o (o \o t)
  BY DEF AnswerText
<1> HIDE DEF N, o, h, t
<1>6. Sound(o \o t, N)
  <2>1. N \cup {} = N
    OBVIOUS
  <2>2. Sound(o \o t, N \cup {})
    BY <1>1, <1>3, <1>4, <2>1, JoinSound
  <2> QED BY <2>1, <2>2
<1>7. Sound(h \o (o \o t), N)
  <2>1. {} \cup N = N
    OBVIOUS
  <2>2. Sound(h \o (o \o t), {} \cup N)
    BY <1>2, <1>4, <1>6, <2>1, JoinSound
  <2> QED BY <2>1, <2>2
<1> QED BY <1>5, <1>7 DEF N

-----------------------------------------------------------------------------
(* The text without its quotes.                                            *)

(* The text of the first n tokens is defined for every n.                  *)
LEMMA KeptExists ==
  ASSUME NEW t, NEW n \in Nat
  PROVE  \E kept : kept = [i \in 0..n |->
           IF i = 0 THEN <<>> ELSE IF t[i] = Quote THEN kept[i - 1] ELSE Append(kept[i - 1], t[i])]
<1> DEFINE Next1(x, i) == IF i = 0 THEN <<>> ELSE IF t[i] = Quote THEN x ELSE Append(x, t[i])
           Is(f, k) == f = [i \in 0..k |-> Next1(f[i - 1], i)]
           S == {k \in Nat : \E f : Is(f, k)}
<1>1. 0 \in S
  <2> DEFINE g == [i \in 0..0 |-> <<>>]
  <2>1. Is(g, 0)
    OBVIOUS
  <2> HIDE DEF g, Is
  <2> QED BY <2>1
<1>2. ASSUME NEW k \in Nat, k \in S PROVE k + 1 \in S
  <2>1. PICK f : Is(f, k)
    BY <1>2
  <2> DEFINE g == [i \in 0..(k + 1) |-> IF i = k + 1 THEN Next1(f[k], k + 1) ELSE f[i]]
  <2>2. f[0] = <<>> /\ g[0] = <<>>
    BY <2>1
  <2> HIDE DEF Next1
  <2>3. \A i \in 1..k : g[i] = f[i] /\ f[i] = Next1(f[i - 1], i)
    BY <2>1
  <2>4. ASSUME NEW i \in 1..(k + 1) PROVE g[i] = Next1(g[i - 1], i)
    <3>1. i - 1 \in 0..k /\ g[i - 1] = f[i - 1]
      OBVIOUS
    <3>2. CASE i = k + 1
      BY <3>1, <3>2
    <3>3. CASE i # k + 1
      <4>1. i \in 1..k
        BY <3>3
      <4>2. g[i] = f[i] /\ f[i] = Next1(f[i - 1], i)
        BY <2>3, <4>1
      <4> HIDE DEF g
      <4> QED BY <3>1, <4>2
    <3> QED BY <3>2, <3>3
  <2>5. g[0] = Next1(g[0 - 1], 0)
    BY <2>2 DEF Next1
  <2>6. Is(g, k + 1)
    <3>1. \A i \in 0..(k + 1) : g[i] = Next1(g[i - 1], i)
      <4>1. \A i \in 0..(k + 1) : i = 0 \/ i \in 1..(k + 1)
        OBVIOUS
      <4> HIDE DEF g
      <4> QED BY <2>4, <2>5, <4>1
    <3>2. g = [i \in 0..(k + 1) |-> g[i]]
      OBVIOUS
    <3> HIDE DEF g
    <3> QED BY <3>1, <3>2
  <2> HIDE DEF g, Is
  <2> QED BY <2>6
<1>3. n \in S
  <2> HIDE DEF S
  <2> QED BY <1>1, <1>2, SetInduction
<1> QED BY <1>3

(* What the first tokens leave.                                            *)
LEMMA KeptSteps ==
  ASSUME NEW t \in Seq(Tokens)
  PROVE  \E kept : /\ kept[0] = <<>> /\ Unquoted(t) = kept[Len(t)]
                   /\ \A i \in 1..Len(t) :
                        kept[i] = IF t[i] = Quote THEN kept[i - 1] ELSE Append(kept[i - 1], t[i])
<1> DEFINE kept == CHOOSE f : f = [i \in 0..Len(t) |->
             IF i = 0 THEN <<>> ELSE IF t[i] = Quote THEN f[i - 1] ELSE Append(f[i - 1], t[i])]
<1>1. Len(t) \in Nat
  OBVIOUS
<1>2. kept = [i \in 0..Len(t) |->
             IF i = 0 THEN <<>> ELSE IF t[i] = Quote THEN kept[i - 1] ELSE Append(kept[i - 1], t[i])]
  BY <1>1, KeptExists
<1>3. Unquoted(t) = kept[Len(t)]
  BY DEF Unquoted
<1> HIDE DEF kept
<1>4. kept[0] = <<>>
  BY <1>1, <1>2
<1>5. \A i \in 1..Len(t) : kept[i] = IF t[i] = Quote THEN kept[i - 1] ELSE Append(kept[i - 1], t[i])
  <2> SUFFICES ASSUME NEW i \in 1..Len(t)
               PROVE  kept[i] = IF t[i] = Quote THEN kept[i - 1] ELSE Append(kept[i - 1], t[i])
    OBVIOUS
  <2>1. i \in 0..Len(t) /\ i # 0
    OBVIOUS
  <2>2. kept[i] = IF i = 0 THEN <<>> ELSE IF t[i] = Quote THEN kept[i - 1] ELSE Append(kept[i - 1], t[i])
    BY <1>2, <2>1, Zenon
  <2> QED BY <2>1, <2>2, Zenon
<1> QED BY <1>3, <1>4, <1>5

(* A text without quotes stays as it is.                                   *)
LEMMA UnquotedPlain ==
  ASSUME NEW u \in Seq(Tokens), \A i \in 1..Len(u) : u[i] # Quote
  PROVE  Unquoted(u) = u
<1>1. PICK kept : /\ kept[0] = <<>> /\ Unquoted(u) = kept[Len(u)]
                  /\ \A i \in 1..Len(u) :
                       kept[i] = IF u[i] = Quote THEN kept[i - 1] ELSE Append(kept[i - 1], u[i])
  BY KeptSteps
<1> DEFINE S == {k \in Nat : k <= Len(u) => kept[k] = SubSeq(u, 1, k)}
<1>2. 0 \in S
  <2>1. SubSeq(u, 1, 0) = <<>>
    <3>1. 0 < 1 /\ 0 \in Int /\ 1 \in Int
      OBVIOUS
    <3> QED BY <3>1, SubSeqEmpty, Zenon
  <2> QED BY <1>1, <2>1
<1>3. ASSUME NEW k \in Nat, k \in S PROVE k + 1 \in S
  <2> SUFFICES ASSUME k + 1 <= Len(u) PROVE kept[k + 1] = SubSeq(u, 1, k + 1)
    OBVIOUS
  <2>1. k + 1 \in 1..Len(u) /\ (k + 1) - 1 = k
    OBVIOUS
  <2>2. kept[k + 1] = Append(kept[k], u[k + 1])
    BY <1>1, <2>1
  <2>3. kept[k] = SubSeq(u, 1, k)
    BY <1>3
  <2>4. SubSeq(u, 1, k + 1) = Append(SubSeq(u, 1, k), u[k + 1])
    BY <2>1, SubSeqRecursiveSecond
  <2> QED BY <2>2, <2>3, <2>4
<1>4. Len(u) \in S
  <2> HIDE DEF S
  <2> QED BY <1>2, <1>3, SetInduction
<1>5. SubSeq(u, 1, Len(u)) = u
  BY SubSeqFull
<1> QED BY <1>1, <1>4, <1>5

(* A quoted text loses its quotes.                                         *)
LEMMA UnquotedQuoted ==
  ASSUME NEW u \in Seq(Tokens), \A i \in 1..Len(u) : u[i] # Quote
  PROVE  Unquoted(Quoted(u)) = u
<1> DEFINE t == Quoted(u)
<1>1. /\ t \in Seq(Tokens) /\ Len(u) \in Nat /\ Len(t) = Len(u) + 2
      /\ t[1] = Quote /\ t[Len(u) + 2] = Quote
      /\ \A i \in 1..Len(u) : t[i + 1] = u[i]
  BY QuotedText
<1> HIDE DEF t
<1>2. PICK kept : /\ kept[0] = <<>> /\ Unquoted(t) = kept[Len(t)]
                  /\ \A i \in 1..Len(t) :
                       kept[i] = IF t[i] = Quote THEN kept[i - 1] ELSE Append(kept[i - 1], t[i])
  BY <1>1, KeptSteps
<1> DEFINE S == {k \in Nat : k <= Len(u) => kept[k + 1] = SubSeq(u, 1, k)}
<1>3. 0 \in S
  <2>1. kept[1] = kept[0]
    <3>1. 1 \in 1..Len(t) /\ 1 - 1 = 0
      BY <1>1
    <3> QED BY <1>1, <1>2, <3>1
  <2>2. SubSeq(u, 1, 0) = <<>>
    <3>1. 0 < 1 /\ 0 \in Int /\ 1 \in Int
      OBVIOUS
    <3> QED BY <3>1, SubSeqEmpty, Zenon
  <2>3. kept[0] = <<>> /\ 0 + 1 = 1
    BY <1>2
  <2>4. kept[0 + 1] = SubSeq(u, 1, 0)
    BY <2>1, <2>2, <2>3
  <2> QED BY <2>4
<1>4. ASSUME NEW k \in Nat, k \in S PROVE k + 1 \in S
  <2> SUFFICES ASSUME k + 1 <= Len(u) PROVE kept[(k + 1) + 1] = SubSeq(u, 1, k + 1)
    OBVIOUS
  <2>1. k + 1 \in 1..Len(u) /\ (k + 1) + 1 \in 1..Len(t) /\ ((k + 1) + 1) - 1 = k + 1
    BY <1>1
  <2>2. t[(k + 1) + 1] = u[k + 1] /\ u[k + 1] # Quote
    BY <1>1, <2>1
  <2>3. kept[(k + 1) + 1] = Append(kept[k + 1], u[k + 1])
    BY <1>2, <2>1, <2>2
  <2>4. kept[k + 1] = SubSeq(u, 1, k)
    BY <1>4
  <2>5. SubSeq(u, 1, k + 1) = Append(SubSeq(u, 1, k), u[k + 1])
    BY <2>1, SubSeqRecursiveSecond
  <2> QED BY <2>3, <2>4, <2>5
<1>5. Len(u) \in S
  <2> HIDE DEF S
  <2> QED BY <1>1, <1>3, <1>4, SetInduction
<1>6. kept[Len(u) + 1] = u
  BY <1>5, SubSeqFull
<1>7. kept[Len(u) + 2] = kept[Len(u) + 1]
  <2>1. Len(u) + 2 \in 1..Len(t) /\ (Len(u) + 2) - 1 = Len(u) + 1
    BY <1>1
  <2> QED BY <1>1, <1>2, <2>1
<1> QED BY <1>1, <1>2, <1>6, <1>7 DEF t

-----------------------------------------------------------------------------
(* The value of the field.                                                 *)

(* indexOf finds j when j is the first of the tokens.                      *)
LEMMA FirstAtIs ==
  ASSUME NEW S, NEW i \in Nat \ {0}, Len(json) \in Nat, NEW j \in i..Len(json), json[j] \in S,
         \A k \in i..(j - 1) : json[k] \notin S
  PROVE  FirstAt(S, i) = j
<1> DEFINE f == FirstAt(S, i)
<1>1. \/ f = 0 /\ \A k \in i..Len(json) : json[k] \notin S
      \/ f \in i..Len(json) /\ json[f] \in S /\ \A k \in i..(f - 1) : json[k] \notin S
  BY FirstAtFinds DEF IsFirst
<1> HIDE DEF f
<1>2. f \in i..Len(json) /\ json[f] \in S /\ \A k \in i..(f - 1) : json[k] \notin S
  BY <1>1
<1>3. ~(f < j) /\ ~(j < f)
  BY <1>2
<1>4. f = j
  BY <1>2, <1>3
<1> QED BY <1>4 DEF f

(* The text from b on, as long as u, when it has the tokens of u.          *)
LEMMA SubSeqIs ==
  ASSUME NEW t \in Seq(Tokens), NEW u \in Seq(Tokens), NEW b \in Nat \ {0},
         b + Len(u) <= Len(t) + 1, \A i \in 1..Len(u) : t[b + i - 1] = u[i]
  PROVE  SubSeq(t, b, b + Len(u) - 1) = u
<1> DEFINE n == b + Len(u) - 1
           r == SubSeq(t, b, n)
<1>1. /\ b \in Int /\ n \in Int /\ Len(u) \in Nat
      /\ \A i \in b..n : t[i] \in Tokens
  OBVIOUS
<1>2. /\ r \in Seq(Tokens) /\ Len(r) = IF b <= n THEN n - b + 1 ELSE 0
      /\ \A i \in 1..(n - b + 1) : r[i] = t[b + i - 1]
  <2> HIDE DEF n
  <2> QED BY <1>1, SubSeqProperties
<1> HIDE DEF r
<1>3. Len(r) = Len(u) /\ n - b + 1 = Len(u)
  BY <1>1, <1>2
<1>4. \A i \in 1..Len(u) : r[i] = u[i]
  BY <1>2, <1>3
<1>5. r = u
  BY <1>2, <1>3, <1>4, SeqEqual
<1> QED BY <1>5 DEF r

(* json_parse finds the value between the colon and what ends the member,  *)
(* or between the quotes.                                                  *)
LEMMA ReadValue ==
  ASSUME json \in Seq(Tokens), NEW f \in 1..Len(json), NEW v \in Values, Holds(json, f, v)
  PROVE  /\ ValueAt(f) = Unquoted(v)
         /\ \A i \in DOMAIN Unquoted(v) : Unquoted(v)[i] \in Words \cup {Comma}
<1> DEFINE k == Len(v)
<1>1. /\ v \in Seq(Tokens) /\ k \in Nat /\ Len(json) \in Nat
  BY ValueText
<1>2. /\ f > 1 /\ f + k + 3 <= Len(json)
      /\ json[f + 1] = Quote /\ json[f + 2] = ":"
      /\ \A i \in 1..k : json[f + 2 + i] = v[i]
      /\ json[f + k + 3] \in {Comma, RBrace}
  BY DEF Holds
<1>3. Quote # ":" /\ Quote \notin {Comma, RBrace}
  BY TokensApart
<1> HIDE DEF k
<1>4. FirstAt({":"}, f + 1) = f + 2
  <2>1. f + 1 \in Nat \ {0} /\ f + 2 \in (f + 1)..Len(json)
    BY <1>1, <1>2
  <2>2. \A j \in (f + 1)..(f + 2 - 1) : json[j] \notin {":"}
    BY <1>2, <1>3
  <2> QED BY <1>1, <1>2, <2>1, <2>2, FirstAtIs
<1> DEFINE b == f + 3
           end == FirstAt({Comma, RBrace}, b)
           quote == FirstAt({Quote}, b)
           match == FirstAt({Quote}, quote + 1)
           raw == IF quote > 0 /\ quote < end /\ match > 0
                  THEN SubSeq(json, quote + 1, match - 1) ELSE SubSeq(json, b, end - 1)
<1>5. ValueAt(f) = IF end = 0 THEN <<>> ELSE Unquoted(raw)
  <2>1. f + 2 + 1 = f + 3
    OBVIOUS
  <2> QED BY <1>4, <2>1 DEF ValueAt
<1>6. b \in Nat \ {0}
  OBVIOUS
<1>7. IsFirst(end, {Comma, RBrace}, b) /\ IsFirst(quote, {Quote}, b)
  <2> HIDE DEF b
  <2> QED BY <1>1, <1>6, FirstAtFinds
<1>8. CASE \E u \in QuotedValues : v = Quoted(u)
  <2>1. PICK u \in QuotedValues : v = Quoted(u)
    BY <1>8
  <2>2. /\ u \in Seq(Tokens) /\ \A i \in 1..Len(u) : u[i] \in Words \cup {Comma} /\ u[i] # Quote
    BY QuotedValueText
  <2>3. /\ Len(u) \in Nat /\ k = Len(u) + 2 /\ v[1] = Quote /\ v[Len(u) + 2] = Quote
        /\ \A i \in 1..Len(u) : v[i + 1] = u[i]
    BY <2>1, <2>2, QuotedText DEF k
  <2>4. json[b] = Quote /\ b \in b..Len(json)
    <3>1. 1 \in 1..k /\ f + 2 + 1 = b
      BY <2>3
    <3> QED BY <1>1, <1>2, <2>3, <3>1
  <2>5. json[f + Len(u) + 4] = Quote /\ f + Len(u) + 4 \in (b + 1)..Len(json)
    <3>1. Len(u) + 2 \in 1..k /\ f + 2 + (Len(u) + 2) = f + Len(u) + 4
      BY <2>3
    <3>2. json[f + 2 + (Len(u) + 2)] = v[Len(u) + 2]
      BY <1>2, <3>1
    <3> QED BY <1>1, <1>2, <2>3, <3>1, <3>2
  <2>6. \A i \in 1..Len(u) : json[(b + 1) + i - 1] = u[i]
    <3> SUFFICES ASSUME NEW i \in 1..Len(u) PROVE json[(b + 1) + i - 1] = u[i]
      OBVIOUS
    <3>1. i + 1 \in 1..k /\ (b + 1) + i - 1 = f + 2 + (i + 1)
      BY <2>3
    <3>2. json[f + 2 + (i + 1)] = v[i + 1]
      BY <1>2, <3>1
    <3> QED BY <2>3, <3>1, <3>2
  <2>7. quote = b
    <3>1. \A j \in b..(b - 1) : json[j] \notin {Quote}
      OBVIOUS
    <3> HIDE DEF b
    <3> QED BY <1>1, <1>6, <2>4, <3>1, FirstAtIs
  <2>8. end # 0 /\ quote < end
    <3>1. f + k + 3 \in b..Len(json)
      BY <1>1, <1>2
    <3>2. end # 0
      BY <1>2, <1>7, <3>1 DEF IsFirst
    <3>3. end \in b..Len(json) /\ json[end] \in {Comma, RBrace}
      BY <1>7, <3>2 DEF IsFirst
    <3>4. end # b
      BY <1>3, <2>4, <3>3
    <3> HIDE DEF end
    <3> QED BY <2>7, <3>2, <3>3, <3>4
  <2>9. match = f + Len(u) + 4
    <3> DEFINE e == f + Len(u) + 4
    <3>1. b + 1 \in Nat \ {0} /\ e \in (b + 1)..Len(json) /\ json[e] \in {Quote}
      BY <2>5
    <3>2. ASSUME NEW j \in (b + 1)..(e - 1) PROVE json[j] \notin {Quote}
      <4>1. j - b \in 1..Len(u) /\ (b + 1) + (j - b) - 1 = j
        BY <2>3
      <4>2. json[(b + 1) + (j - b) - 1] = u[j - b]
        BY <2>6, <4>1, Zenon
      <4> QED BY <2>2, <4>1, <4>2
    <3> HIDE DEF b, e
    <3>3. FirstAt({Quote}, b + 1) = e
      BY <1>1, <3>1, <3>2, FirstAtIs
    <3> QED BY <2>7, <3>3 DEF e
  <2>10. SubSeq(json, quote + 1, match - 1) = u
    <3>1. b + 1 \in Nat \ {0} /\ (b + 1) + Len(u) <= Len(json) + 1 /\ (b + 1) + Len(u) - 1 = f + Len(u) + 4 - 1
      BY <1>1, <2>3, <2>5
    <3>2. SubSeq(json, b + 1, (b + 1) + Len(u) - 1) = u
      <4> HIDE DEF b
      <4> QED BY <2>2, <2>6, <3>1, SubSeqIs
    <3>3. quote + 1 = b + 1 /\ match - 1 = (b + 1) + Len(u) - 1
      <4> HIDE DEF quote, match
      <4> QED BY <2>3, <2>7, <2>9
    <3> QED BY <3>2, <3>3
  <2>11. quote > 0 /\ match > 0
    BY <2>3, <2>7, <2>9
  <2> HIDE DEF quote, match, end
  <2>12. raw = u
    BY <2>8, <2>10, <2>11
  <2>13. Unquoted(u) = u /\ Unquoted(v) = u
    BY <2>1, <2>2, UnquotedPlain, UnquotedQuoted
  <2>14. ValueAt(f) = u
    BY <1>5, <2>8, <2>12, <2>13
  <2>15. DOMAIN u = 1..Len(u)
    BY <2>2
  <2> QED BY <2>2, <2>13, <2>14, <2>15
<1>9. CASE \E w \in Numbers \cup {"null"} : v = <<w>>
  <2>1. PICK w \in Numbers \cup {"null"} : v = <<w>>
    BY <1>9
  <2>2. w \in Words /\ w \in Tokens /\ w # Quote /\ w \notin {Comma, RBrace}
    BY TokensApart
  <2>3. k = 1 /\ v[1] = w
    BY <2>1, <2>2, OneToken DEF k
  <2>4. json[b] = w /\ json[b + 1] \in {Comma, RBrace} /\ b + 1 \in b..Len(json)
    <3>1. f + 2 + 1 = b /\ f + k + 3 = b + 1 /\ 1 \in 1..k
      BY <2>3
    <3> QED BY <1>1, <1>2, <2>3, <3>1
  <2>5. end = b + 1
    <3>1. \A j \in b..(b + 1 - 1) : json[j] \notin {Comma, RBrace}
      BY <2>2, <2>4
    <3> HIDE DEF b
    <3> QED BY <1>1, <1>6, <2>4, <3>1, FirstAtIs
  <2>6. ~(quote > 0 /\ quote < end)
    <3>1. quote = 0 \/ (quote \in b..Len(json) /\ json[quote] = Quote)
      BY <1>7 DEF IsFirst
    <3>2. quote # b
      BY <1>6, <2>2, <2>4, <3>1
    <3> HIDE DEF quote
    <3> QED BY <2>5, <3>1, <3>2
  <2>7. SubSeq(json, b, end - 1) = v
    <3>1. b + k <= Len(json) + 1 /\ b + k - 1 = end - 1
      BY <2>3, <2>4, <2>5
    <3>2. \A i \in 1..k : json[b + i - 1] = v[i]
      BY <2>3, <2>4
    <3>3. SubSeq(json, b, b + k - 1) = v
      <4> HIDE DEF b, end
      <4> QED BY <1>1, <1>6, <3>1, <3>2, SubSeqIs DEF k
    <3> QED BY <3>1, <3>3
  <2> HIDE DEF quote, match, end
  <2>8. raw = v
    BY <2>6, <2>7
  <2>9. Unquoted(v) = v
    <3>1. \A i \in 1..Len(v) : v[i] # Quote
      BY <2>2, <2>3 DEF k
    <3> QED BY <1>1, <3>1, UnquotedPlain
  <2>10. ValueAt(f) = v
    <3>1. end # 0
      BY <1>6, <2>5
    <3> HIDE DEF raw
    <3> QED BY <1>5, <2>8, <2>9, <3>1
  <2>11. DOMAIN v = 1..k
    BY <1>1 DEF k
  <2> QED BY <2>2, <2>3, <2>9, <2>10, <2>11
<1> QED BY <1>8, <1>9 DEF Values

-----------------------------------------------------------------------------
(* The inductive invariant.                                                *)

(* The text is sound for the members, and no two have the same name.       *)
JsonMeant ==
  /\ members \in Seq(Members) /\ Len(members) # 0
  /\ \A i, j \in DOMAIN members : members[i].name = members[j].name => i = j
  /\ Sound(json, {members[i] : i \in 1..Len(members)})

(* json_parse stands outside of quotes, and has not passed the field.      *)
Outside ==
  /\ idx \in 1..(Len(json) + 1)
  /\ \E I \in SUBSET Nat : QuotedIn(json, I) /\ idx \notin I
  /\ \A j \in 1..(idx - 1) : json[j] # Field

JsonKept ==
  /\ JsonMeant
  /\ Outside
  /\ done \in BOOLEAN
  /\ done => value = FieldValue
  /\ \A i \in DOMAIN value : value[i] \in Words \cup {Comma}

(* Where it starts.                                                        *)
LEMMA JsonStarts == JsonInit => JsonKept
<1> SUFFICES ASSUME JsonInit PROVE JsonKept
  OBVIOUS
<1>1. PICK n \in 1..MaxMembers : members \in [1..n -> Members]
  BY DEF JsonInit
<1>2. members \in Seq(Members) /\ Len(members) = n /\ n # 0
  BY <1>1, JsonAssumption
<1>3. Sound(json, {members[i] : i \in 1..Len(members)})
  BY <1>2, ObjectSound, AnswerSound DEF JsonInit
<1>4. json \in Seq(Tokens) /\ Len(json) \in Nat
  BY <1>3 DEF Sound
<1>5. Outside
  <2>1. PICK I \in SUBSET Nat : QuotedIn(json, I)
    BY <1>3 DEF Sound, Balanced
  <2>2. 1 \notin I
    BY <2>1 DEF QuotedIn
  <2>3. idx = 1 /\ idx \in 1..(Len(json) + 1)
    BY <1>4 DEF JsonInit
  <2> QED BY <2>1, <2>2, <2>3 DEF Outside
<1>6. JsonMeant
  <2>1. \A i, j \in DOMAIN members : members[i].name = members[j].name => i = j
    BY DEF JsonInit
  <2> QED BY <1>2, <1>3, <2>1, Zenon DEF JsonMeant
<1>7. done = FALSE /\ DOMAIN value = {}
  BY DEF JsonInit
<1> QED BY <1>5, <1>6, <1>7 DEF JsonKept

(* What indexOf finds next from outside of quotes: no name of the field    *)
(* before a quote, and behind the quote its match, which leads outside.    *)
LEMMA NextQuoted ==
  ASSUME json \in Seq(Tokens), idx \in 1..(Len(json) + 1),
         NEW I \in SUBSET Nat, QuotedIn(json, I), idx \notin I
  PROVE  \/ /\ QuoteIdx = 0
            /\ \A j \in idx..Len(json) : json[j] \notin Hits
         \/ /\ QuoteIdx \in idx..Len(json) /\ MatchIdx \in (QuoteIdx + 1)..Len(json)
            /\ json[QuoteIdx] = Quote /\ json[MatchIdx] = Quote
            /\ MatchIdx + 1 \notin I
            /\ \A j \in idx..QuoteIdx : json[j] \notin Hits
            /\ \A j \in (QuoteIdx + 1)..(MatchIdx - 1) : json[j] # Quote
<1> DEFINE q == QuoteIdx
           m == MatchIdx
           L == Len(json)
<1>1. L \in Nat /\ idx \in Nat \ {0}
  OBVIOUS
<1>2. IsFirst(q, {Quote}, idx)
  BY <1>1, FirstAtFinds DEF QuoteIdx
<1>3. m = FirstAt({Quote}, q + 1)
  BY DEF MatchIdx
<1>4. ASSUME NEW b \in idx..(L + 1), \A i \in idx..(b - 1) : json[i] # Quote
      PROVE  b \notin I /\ \A j \in idx..b : j <= L => json[j] \notin Hits
  <2>1. ASSUME NEW j \in idx..b PROVE j \notin I
    <3>1. j \in idx..(L + 1) /\ \A i \in idx..(j - 1) : json[i] # Quote
      BY <1>1, <1>4
    <3> QED BY <3>1, SameSide
  <2>2. ASSUME NEW j \in idx..b, j <= L PROVE json[j] \notin Hits
    <3>1. j \in 1..L /\ j \notin I
      BY <1>1, <2>1, <2>2
    <3> QED BY <3>1 DEF QuotedIn
  <2>3. b \in idx..b
    BY <1>1
  <2> QED BY <2>1, <2>2, <2>3
<1> HIDE DEF q, m, L
<1>5. CASE q = 0
  <2>1. \A j \in idx..L : json[j] # Quote
    BY <1>1, <1>2, <1>5 DEF IsFirst, L
  <2>2. L + 1 \in idx..(L + 1) /\ (L + 1) - 1 = L
    BY <1>1 DEF L
  <2>3. \A j \in idx..(L + 1) : j <= L => json[j] \notin Hits
    BY <1>4, <2>1, <2>2
  <2>4. \A j \in idx..L : json[j] \notin Hits
    BY <1>1, <2>3
  <2> QED BY <1>5, <2>4 DEF q, L
<1>6. CASE q # 0
  <2>1. q \in idx..L /\ json[q] = Quote /\ \A j \in idx..(q - 1) : json[j] # Quote
    BY <1>2, <1>6 DEF IsFirst, L
  <2>2. q \in idx..(L + 1)
    BY <1>1, <2>1
  <2>3. q \notin I /\ \A j \in idx..q : j <= L => json[j] \notin Hits
    BY <1>4, <2>1, <2>2
  <2>4. \A j \in idx..q : json[j] \notin Hits
    BY <1>1, <2>1, <2>3
  <2>5. q \in 1..L /\ q + 1 \in Nat \ {0} /\ q + 1 \in 1..(L + 1)
    BY <1>1, <2>1
  <2>6. q + 1 \in I
    BY <2>1, <2>3, <2>5 DEF QuotedIn, L
  <2>7. IsFirst(m, {Quote}, q + 1)
    BY <1>1, <1>3, <2>5, FirstAtFinds DEF L
  <2>8. m # 0
    <3> SUFFICES ASSUME m = 0 PROVE FALSE
      OBVIOUS
    <3>1. \A j \in (q + 1)..L : json[j] # Quote
      BY <1>1, <2>1, <2>5, <2>7 DEF IsFirst, L
    <3>2. L + 1 \in (q + 1)..(L + 1) /\ (L + 1) - 1 = L
      BY <1>1, <2>1
    <3>3. L + 1 \in I <=> q + 1 \in I
      BY <2>5, <3>1, <3>2, SameSide DEF L
    <3> QED BY <2>6, <3>3 DEF QuotedIn, L
  <2>9. m \in (q + 1)..L /\ json[m] = Quote /\ \A j \in (q + 1)..(m - 1) : json[j] # Quote
    BY <2>7, <2>8 DEF IsFirst, L
  <2>10. m \in I
    <3>1. m \in (q + 1)..(L + 1)
      BY <1>1, <2>5, <2>9
    <3> QED BY <2>5, <2>6, <2>9, <3>1, SameSide DEF L
  <2>11. m + 1 \notin I
    <3>1. m \in 1..L
      BY <1>1, <2>5, <2>9
    <3> QED BY <2>9, <2>10, <3>1 DEF QuotedIn, L
  <2> QED BY <2>1, <2>4, <2>9, <2>11 DEF q, m, L
<1> QED BY <1>5, <1>6

(* The name of the field between two quotes is all there is between them.  *)
LEMMA NameAlone ==
  ASSUME JsonMeant, NEW q \in 1..Len(json), NEW m \in (q + 1)..Len(json), json[q] = Quote,
         json[m] = Quote, \A j \in (q + 1)..(m - 1) : json[j] # Quote,
         NEW j \in (q + 1)..(m - 1), json[j] = Field
  PROVE  SubSeq(json, q + 1, m - 1) = <<Field>>
<1>1. json \in Seq(Tokens) /\ Len(json) \in Nat /\ Tells(json, {members[i] : i \in 1..Len(members)})
  BY DEF JsonMeant, Sound
<1>2. j \in 1..Len(json)
  BY <1>1
<1>3. PICK n \in {members[i] : i \in 1..Len(members)} : Holds(json, j, n.value)
  BY <1>1, <1>2 DEF Tells
<1>4. json[j - 1] = Quote /\ json[j + 1] = Quote
  BY <1>3 DEF Holds
<1>5. j = q + 1
  <2>1. j - 1 \notin (q + 1)..(m - 1)
    BY <1>4
  <2> QED BY <1>1, <2>1
<1>6. j + 1 = m
  <2>1. j + 1 \notin (q + 1)..(m - 1)
    BY <1>4
  <2> QED BY <1>1, <2>1
<1>7. Field \in Tokens
  BY TokensApart
<1>8. <<Field>> \in Seq(Tokens) /\ Len(<<Field>>) = 1 /\ \A i \in 1..1 : <<Field>>[i] = Field
  BY <1>7, OneToken
<1>9. /\ q + 1 \in Nat \ {0} /\ (q + 1) + Len(<<Field>>) <= Len(json) + 1
      /\ (q + 1) + Len(<<Field>>) - 1 = m - 1
  BY <1>1, <1>5, <1>6, <1>8
<1>10. \A i \in 1..Len(<<Field>>) : json[(q + 1) + i - 1] = <<Field>>[i]
  <2>1. json[(q + 1) + 1 - 1] = Field
    BY <1>5
  <2>2. \A i \in 1..1 : i = 1
    OBVIOUS
  <2> QED BY <1>8, <2>1, <2>2
<1>11. SubSeq(json, q + 1, (q + 1) + Len(<<Field>>) - 1) = <<Field>>
  BY <1>1, <1>8, <1>9, <1>10, SubSeqIs
<1> QED BY <1>9, <1>11

(* A quoted text that is skipped does not hold the field.                  *)
LEMMA SkipKeeps == JsonKept /\ Skip => JsonKept'
<1> SUFFICES ASSUME JsonKept, Skip PROVE JsonKept'
  OBVIOUS
<1> DEFINE q == QuoteIdx
           m == MatchIdx
<1>1. /\ json \in Seq(Tokens) /\ Len(json) \in Nat
      /\ idx \in 1..(Len(json) + 1) /\ \A j \in 1..(idx - 1) : json[j] # Field
  BY DEF JsonKept, JsonMeant, Sound, Outside
<1>2. PICK I \in SUBSET Nat : QuotedIn(json, I) /\ idx \notin I
  BY DEF JsonKept, Outside
<1>3. q > 0 /\ SubSeq(json, q + 1, m - 1) # <<Field>>
  BY DEF Skip, OtherQuoted, NamesField
<1>4. /\ q \in idx..Len(json) /\ m \in (q + 1)..Len(json)
      /\ json[q] = Quote /\ json[m] = Quote
      /\ m + 1 \notin I
      /\ \A j \in idx..q : json[j] \notin Hits
      /\ \A j \in (q + 1)..(m - 1) : json[j] # Quote
  BY <1>1, <1>2, <1>3, NextQuoted
<1>5. idx' = m + 1 /\ UNCHANGED <<members, json, done, value>>
  BY DEF Skip
<1> HIDE DEF q, m
<1>6. ASSUME NEW j \in 1..m PROVE json[j] # Field
  <2>1. j \in 1..(idx - 1) \/ j \in idx..q \/ j \in (q + 1)..(m - 1) \/ j = m
    BY <1>1, <1>4
  <2>2. CASE j \in 1..(idx - 1)
    BY <1>1, <2>2
  <2>3. CASE j \in idx..q
    BY <1>4, <2>3, TokensApart
  <2>4. CASE j \in (q + 1)..(m - 1)
    <3>1. q \in 1..Len(json)
      BY <1>1, <1>4
    <3>2. JsonMeant
      BY DEF JsonKept
    <3> QED BY <1>3, <1>4, <2>4, <3>1, <3>2, NameAlone
  <2>5. CASE j = m
    <3>1. Field # Quote
      BY TokensApart
    <3> QED BY <1>4, <2>5, <3>1
  <2> QED BY <2>1, <2>2, <2>3, <2>4, <2>5
<1>7. Outside'
  <2>1. idx' \in 1..(Len(json) + 1) /\ idx' - 1 = m
    BY <1>1, <1>4, <1>5
  <2>2. QuotedIn(json, I) /\ idx' \notin I
    BY <1>2, <1>4, <1>5
  <2>3. json' = json
    BY <1>5
  <2> QED BY <1>6, <2>1, <2>2, <2>3 DEF Outside, QuotedIn
<1>8. JsonMeant'
  BY <1>5 DEF JsonKept, JsonMeant
<1>9. FieldValue' = FieldValue
  BY <1>5 DEF FieldValue
<1>10. (done => value = FieldValue)'
  BY <1>5, <1>9 DEF JsonKept
<1> QED BY <1>5, <1>7, <1>8, <1>10 DEF JsonKept

(* What is taken is the field's value: the field, when it is found, is the *)
(* quoted text that is found first, and when it is not, no member has its  *)
(* name.                                                                   *)
LEMMA TakeKeeps == JsonKept /\ Take => JsonKept'
<1> SUFFICES ASSUME JsonKept, Take PROVE JsonKept'
  OBVIOUS
<1> DEFINE q == QuoteIdx
           m == MatchIdx
           f == FieldIdx
           named == {i \in DOMAIN members : members[i].name = Field}
           Taken == value' = FieldValue /\ \A i \in DOMAIN value' : value'[i] \in Words \cup {Comma}
<1>1. /\ json \in Seq(Tokens) /\ Len(json) \in Nat
      /\ idx \in 1..(Len(json) + 1) /\ \A j \in 1..(idx - 1) : json[j] # Field
      /\ members \in Seq(Members) /\ DOMAIN members = 1..Len(members)
      /\ \A i, j \in DOMAIN members : members[i].name = members[j].name => i = j
  BY DEF JsonKept, JsonMeant, Sound, Outside
<1>2. Tells(json, {members[i] : i \in 1..Len(members)})
  BY DEF JsonKept, JsonMeant, Sound
<1>3. IsFirst(f, Hits, idx)
  <2>1. idx \in Nat \ {0}
    BY <1>1
  <2> QED BY <1>1, <2>1, FirstAtFinds DEF FieldIdx
<1>4. /\ done' = TRUE /\ UNCHANGED <<members, json, idx>>
      /\ value' = IF f > 0 THEN ValueAt(f) ELSE <<>>
  BY DEF Take
<1>5. ~(q > 0 /\ q < f /\ m > 0 /\ SubSeq(json, q + 1, m - 1) # <<Field>>)
  BY DEF Take, OtherQuoted, NamesField
<1>6. FieldValue = IF named = {} THEN <<>> ELSE Unquoted(members[CHOOSE i \in named : TRUE].value)
  BY DEF FieldValue
<1>7. ASSUME f = 0 PROVE Taken
  <2>1. \A j \in idx..Len(json) : json[j] # Field
    <3>1. \A j \in idx..Len(json) : json[j] \notin Hits
      BY <1>1, <1>3, <1>7 DEF IsFirst
    <3> QED BY <3>1, TokensApart
  <2>2. \A p \in 1..Len(json) : json[p] # Field
    BY <1>1, <2>1
  <2>3. \A i \in 1..Len(members) : members[i].name # Field
    BY <1>2, <2>2 DEF Tells
  <2>4. named = {}
    BY <1>1, <2>3
  <2> HIDE DEF named, f
  <2>5. value' = FieldValue /\ value' = <<>>
    BY <1>4, <1>6, <1>7, <2>4
  <2>6. DOMAIN value' = {}
    BY <2>5
  <2> QED BY <2>5, <2>6
<1>8. ASSUME f # 0 PROVE Taken
  <2>1. f \in idx..Len(json) /\ json[f] \in Hits
    BY <1>3, <1>8 DEF IsFirst
  <2>2. PICK I \in SUBSET Nat : QuotedIn(json, I) /\ idx \notin I
    BY DEF JsonKept, Outside
  <2>3. /\ q \in idx..Len(json) /\ m \in (q + 1)..Len(json)
        /\ \A j \in idx..q : json[j] \notin Hits
    <3> HIDE DEF f
    <3> QED BY <1>1, <2>1, <2>2, NextQuoted
  <2> HIDE DEF q, m, f, named
  <2>4. q < f /\ q \in 1..Len(json) /\ m - 1 \in 1..Len(json) \cup {0}
    BY <1>1, <2>1, <2>3
  <2>5. SubSeq(json, q + 1, m - 1) = <<Field>>
    BY <1>1, <1>5, <2>3, <2>4
  <2>6. m - 1 = q + 1 /\ json[q + 1] = Field
    <3> DEFINE r == SubSeq(json, q + 1, m - 1)
    <3>1. /\ Len(r) = IF q + 1 <= m - 1 THEN (m - 1) - (q + 1) + 1 ELSE 0
          /\ \A i \in 1..((m - 1) - (q + 1) + 1) : r[i] = json[(q + 1) + i - 1]
      <4>1. q + 1 \in Int /\ m - 1 \in Int
        BY <2>3, <2>4
      <4>2. \A i \in (q + 1)..(m - 1) : json[i] \in Tokens
        BY <1>1, <2>3, <2>4
      <4> QED BY <4>1, <4>2, SubSeqProperties
    <3>2. Len(r) = 1 /\ r[1] = Field
      <4>1. r = <<Field>>
        BY <2>5
      <4> HIDE DEF r
      <4> QED BY <4>1
    <3> HIDE DEF r
    <3>3. m - 1 = q + 1
      <4>1. q + 1 <= m - 1 /\ (m - 1) - (q + 1) + 1 = 1
        <5>1. q + 1 <= m - 1
          BY <3>1, <3>2
        <5> QED BY <3>1, <3>2, <5>1
      <4>2. q \in Int /\ m \in Int
        BY <2>3, <2>4
      <4> QED BY <4>1, <4>2
    <3>4. 1 \in 1..((m - 1) - (q + 1) + 1) /\ (q + 1) + 1 - 1 = q + 1
      BY <2>4, <3>3
    <3> QED BY <3>1, <3>2, <3>3, <3>4
  <2>7. f = q + 1
    <3>1. q + 1 \in idx..Len(json) /\ json[q + 1] \in Hits
      BY <1>1, <2>3, <2>4, <2>6, TokensApart
    <3>2. \A k \in idx..(f - 1) : json[k] \notin Hits
      BY <1>3, <1>8 DEF IsFirst
    <3> QED BY <1>1, <2>1, <2>4, <3>1, <3>2
  <2>8. f \in 1..Len(json) /\ json[f] = Field
    BY <1>1, <2>1, <2>6, <2>7
  <2>9. PICK k \in 1..Len(members) : members[k].name = Field /\ Holds(json, f, members[k].value)
    BY <1>2, <2>8 DEF Tells
  <2>10. named = {k}
    BY <1>1, <2>9 DEF named
  <2>11. (CHOOSE i \in named : TRUE) = k
    BY <2>10
  <2>12. FieldValue = Unquoted(members[k].value)
    BY <1>6, <2>10, <2>11
  <2>13. members[k].value \in Values
    <3>1. members[k] \in Members
      BY <1>1, <2>9
    <3> QED BY <3>1 DEF Members
  <2>14. /\ ValueAt(f) = Unquoted(members[k].value)
         /\ \A i \in DOMAIN Unquoted(members[k].value) :
              Unquoted(members[k].value)[i] \in Words \cup {Comma}
    BY <1>1, <2>8, <2>9, <2>13, ReadValue
  <2>15. value' = ValueAt(f)
    BY <1>1, <1>4, <1>8, <2>1
  <2> QED BY <2>12, <2>14, <2>15
<1>9. value' = FieldValue /\ \A i \in DOMAIN value' : value'[i] \in Words \cup {Comma}
  BY <1>7, <1>8
<1>10. FieldValue' = FieldValue
  BY <1>4 DEF FieldValue
<1>11. JsonMeant' /\ Outside'
  BY <1>4 DEF JsonKept, JsonMeant, Outside, QuotedIn
<1> QED BY <1>4, <1>9, <1>10, <1>11 DEF JsonKept

-----------------------------------------------------------------------------
(* Results.                                                                *)

LEMMA JsonStep == JsonKept /\ [JsonNext]_jsonVars => JsonKept'
<1> SUFFICES ASSUME JsonKept, [JsonNext]_jsonVars PROVE JsonKept'
  OBVIOUS
<1>1. CASE Skip
  BY <1>1, SkipKeeps
<1>2. CASE Take
  BY <1>2, TakeKeeps
<1>3. CASE UNCHANGED jsonVars
  <2>1. UNCHANGED <<members, json, idx, done, value>>
    BY <1>3 DEF jsonVars
  <2>2. FieldValue' = FieldValue
    BY <2>1 DEF FieldValue
  <2>3. JsonMeant' /\ Outside'
    BY <2>1 DEF JsonKept, JsonMeant, Outside, QuotedIn
  <2> QED BY <2>1, <2>2, <2>3 DEF JsonKept
<1> QED BY <1>1, <1>2, <1>3 DEF JsonNext

(* The types of the parser.                                                *)
LEMMA JsonTyped == JsonKept => JsonTypeOK
BY DEF JsonKept, Outside, JsonTypeOK

(* json_parse stays within the text, whatever the text, and what it        *)
(* returns is made of words of the text and commas.                        *)
THEOREM JsonTyping == JsonSpec => []JsonTypeOK
<1>1. JsonInit => JsonKept
  BY JsonStarts
<1>2. JsonKept /\ [JsonNext]_jsonVars => JsonKept'
  BY JsonStep
<1>3. JsonKept => JsonTypeOK
  BY JsonTyped
<1> QED BY <1>1, <1>2, <1>3, PTL DEF JsonSpec

(* json_parse returns the value of the field, or nothing when no member    *)
(* has its name, for any number of members in any order, any names that    *)
(* contain the field's, any values, quoted or not, and with any status     *)
(* around the object.                                                      *)
THEOREM FieldRead == JsonSpec => []ReadsField
<1>1. JsonInit => JsonKept
  BY JsonStarts
<1>2. JsonKept /\ [JsonNext]_jsonVars => JsonKept'
  BY JsonStep
<1>3. JsonKept => ReadsField
  BY DEF JsonKept, ReadsField
<1> QED BY <1>1, <1>2, <1>3, PTL DEF JsonSpec
=============================================================================
