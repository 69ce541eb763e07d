------------------------------ MODULE ConlluProofs ------------------------------
(***************************************************************************)
(* Theorems about ConlluFormat for texts of any length, with any numbers   *)
(* and any ends of lines.                                                  *)
(***************************************************************************)
EXTENDS ConlluFormat, SequenceTheorems, WellFoundedInduction, TLAPS

-----------------------------------------------------------------------------
(* The inductive invariant.  What a reader has of a sentence after any     *)
(* line: tokens that do not overlap and began at the latest with the next  *)
(* word, and nodes that belong to words that are there.                    *)
Sentences ==
  [words : Seq(-1..MaxWords),
   multiword_tokens : Seq([from : Numbers, to : Numbers]),
   empty_nodes : Seq([id : 0..MaxWords, index : Nat]),
   comments : Nat, last_multiword_token : 0..MaxWords]

TokensOK(s) ==
  \A i \in 1..Len(s.multiword_tokens) :
    LET t == s.multiword_tokens[i] IN
    /\ t.from <= t.to /\ t.to <= s.last_multiword_token
    /\ i > 1 => s.multiword_tokens[i - 1].to < t.from

NodesOK(s) ==
  \A i \in 1..Len(s.empty_nodes) :
    LET n == s.empty_nodes[i] IN
    /\ n.id <= Len(s.words)
    /\ \/ n.index = 1 /\ (i > 1 => s.empty_nodes[i - 1].id < n.id)
       \/ i > 1 /\ s.empty_nodes[i - 1] = [id |-> n.id, index |-> n.index - 1]

SentenceOK(s) == s \in Sentences /\ TokensOK(s) /\ NodesOK(s)

(* While no sentence was detached from its comments by an empty line, the  *)
(* two readers work on the same sentence.                                  *)
InStep == ~detached => whole = block /\ out.whole = out.block

ReaderInv == SentenceOK(whole) /\ SentenceOK(block) /\ ReturnsWellFormed /\ InStep

-----------------------------------------------------------------------------
(* A set of natural numbers has a least element.                           *)
LEMMA LeastNat ==
  ASSUME NEW T \in SUBSET Nat, T # {}
  PROVE  \E x \in T : \A y \in T : x <= y
<1>1. PICK x \in T : \A y \in T : ~ (<<y, x>> \in OpToRel(<, Nat))
  BY NatLessThanWellFounded, WFMin
<1>2. \A y \in T : ~ (y < x)
  BY <1>1 DEF OpToRel
<1> QED BY <1>2

-----------------------------------------------------------------------------
(* The children.  A list holds the numbers of a set in order.              *)
Lists(list, S) ==
  /\ list \in Seq(Nat) /\ Range(list) = S
  /\ \A i, j \in 1..Len(list) : i < j => list[i] < list[j]

LEMMA ListsFacts ==
  ASSUME NEW S, NEW list, Lists(list, S)
  PROVE  /\ Len(list) \in Nat /\ DOMAIN list = 1..Len(list)
         /\ \A i \in 1..Len(list) : list[i] \in S /\ list[i] \in Nat
         /\ \A x \in S : \E i \in 1..Len(list) : list[i] = x
<1>1. list \in Seq(Nat) /\ Range(list) = S
  BY DEF Lists
<1>2. Len(list) \in Nat /\ DOMAIN list = 1..Len(list) /\ \A i \in 1..Len(list) : list[i] \in Nat
  BY <1>1, LenProperties
<1> QED BY <1>1, <1>2 DEF Range

(* The loop from the back stops at once for a number larger than all.      *)
LEMMA InsertedFacts ==
  ASSUME NEW S, NEW list, Lists(list, S), NEW id \in Nat, \A x \in S : x < id
  PROVE  Lists(Inserted(list, id), S \cup {id})
<1> DEFINE L == Len(list)
           P(j) == /\ j = 0 \/ list[j] <= id
                   /\ \A k \in j + 1 .. Len(list) : list[k] > id
           i == CHOOSE j \in 0..Len(list) : P(j)
           a == Append(list, id)
<1>1. /\ L \in Nat /\ list \in Seq(Nat)
      /\ \A k \in 1..L : list[k] \in Nat /\ list[k] \in S /\ list[k] < id
  BY ListsFacts DEF Lists
<1>2. L \in 0..L /\ P(L)
  BY <1>1
<1>3. \A j \in 0..L : P(j) => j = L
  <2> SUFFICES ASSUME NEW j \in 0..L, P(j), j # L PROVE FALSE
    OBVIOUS
  <2>1. j + 1 \in 1..L /\ j + 1 \in j + 1 .. L
    BY <1>1
  <2>2. list[j + 1] > id
    BY <2>1
  <2>3. list[j + 1] < id /\ list[j + 1] \in Nat
    BY <1>1, <2>1
  <2> QED BY <2>2, <2>3
<1>4. i \in 0..L /\ P(i)
  BY <1>2
<1>5. i = L
  BY <1>3, <1>4
<1>6. Inserted(list, id) = SubSeq(list, 1, L) \o <<id>> \o SubSeq(list, L + 1, L)
  <2>1. i = 0 \/ list[i] < id
    BY <1>1, <1>4, <1>5
  <2>2. Inserted(list, id) = SubSeq(list, 1, i) \o <<id>> \o SubSeq(list, i + 1, Len(list))
    BY <2>1 DEF Inserted
  <2> HIDE DEF i
  <2> QED BY <1>5, <2>2
<1>7. Inserted(list, id) = a
  <2>1. SubSeq(list, 1, L) = list /\ SubSeq(list, L + 1, L) = <<>>
    BY <1>1, SubSeqFull, SubSeqEmpty
  <2>2. <<id>> \in Seq(Nat) /\ list \o <<id>> \in Seq(Nat)
    BY <1>1, ConcatProperties
  <2>3. (list \o <<id>>) \o <<>> = list \o <<id>>
    BY <2>2, ConcatEmptySeq
  <2>4. list \o <<id>> = a
    BY <1>1, AppendIsConcat
  <2> QED BY <1>6, <2>1, <2>3, <2>4
<1>8. /\ a \in Seq(Nat) /\ Len(a) = L + 1 /\ a[L + 1] = id
      /\ \A k \in 1..L : a[k] = list[k]
  BY <1>1, AppendProperties
<1> HIDE DEF a, L
<1>9. \A k \in 1..(L + 1) : k \in 1..L \/ k = L + 1
  BY <1>1
<1>10. Range(a) = S \cup {id}
  <2>1. DOMAIN a = 1..(L + 1)
    BY <1>8, LenProperties
  <2>2. \A k \in 1..L : k \in 1..(L + 1)
    BY <1>1
  <2>3. L + 1 \in 1..(L + 1)
    BY <1>1
  <2>4. Range(a) \subseteq S \cup {id}
    BY <1>1, <1>8, <1>9, <2>1 DEF Range
  <2>5. \A x \in S : \E k \in 1..L : list[k] = x
    BY ListsFacts DEF L
  <2>6. S \cup {id} \subseteq Range(a)
    BY <1>8, <2>1, <2>2, <2>3, <2>5 DEF Range
  <2> QED BY <2>4, <2>6
<1>11. \A k, j \in 1..(L + 1) : k < j => a[k] < a[j]
  <2> TAKE k, j \in 1..(L + 1)
  <2> HAVE k < j
  <2>1. k \in 1..L /\ a[k] = list[k]
    BY <1>1, <1>8
  <2>2. CASE j \in 1..L
    BY <1>8, <2>1, <2>2 DEF Lists, L
  <2>3. CASE j = L + 1
    BY <1>1, <1>8, <2>1, <2>3
  <2> QED BY <1>9, <2>2, <2>3
<1> QED BY <1>7, <1>8, <1>10, <1>11 DEF Lists

(* The loop of next_sentence over all words, as a recursive function.      *)
Loop(words, g, k) ==
  IF k = 0 THEN [n \in 0..Len(words) |-> <<>>] ELSE set_head(g[k - 1], k, words[k])

LEMMA LoopExists ==
  ASSUME NEW words, Len(words) \in Nat, NEW m \in Nat
  PROVE  \E g : g = [k \in 0..m |-> Loop(words, g, k)]
<1> DEFINE bad == {k \in Nat : ~\E g : g = [j \in 0..k |-> Loop(words, g, j)]}
<1>1. bad = {}
  <2> SUFFICES ASSUME bad # {} PROVE FALSE
    OBVIOUS
  <2>1. PICK k \in bad : \A y \in bad : k <= y
    BY LeastNat
  <2>2. CASE k = 0
    <3> DEFINE g == [j \in 0..0 |-> [n \in 0..Len(words) |-> <<>>]]
    <3>1. \A j \in 0..0 : Loop(words, g, j) = [n \in 0..Len(words) |-> <<>>]
      BY DEF Loop
    <3>2. g = [j \in 0..0 |-> Loop(words, g, j)]
      BY <3>1
    <3> HIDE DEF g
    <3>3. \E f : f = [j \in 0..0 |-> Loop(words, f, j)]
      BY <3>2
    <3> QED BY <2>1, <2>2, <3>3
  <2>3. CASE k # 0
    <3>1. k - 1 \in Nat /\ k - 1 \notin bad
      BY <2>1, <2>3
    <3>2. PICK g : g = [j \in 0..(k - 1) |-> Loop(words, g, j)]
      BY <3>1
    <3> DEFINE f == [j \in 0..k |-> IF j < k THEN g[j] ELSE Loop(words, g, k)]
    <3>3. ASSUME NEW j \in 0..k PROVE f[j] = Loop(words, f, j)
      <4>1. j # 0 => f[j - 1] = g[j - 1]
        BY <2>1
      <4>2. Loop(words, f, j) = Loop(words, g, j)
        BY <4>1 DEF Loop
      <4>3. CASE j < k
        <5>1. j \in 0..(k - 1)
          BY <2>1, <4>3
        <5>2. g[j] = Loop(words, g, j)
          BY <3>2, <5>1
        <5> QED BY <4>2, <4>3, <5>2
      <4>4. CASE ~(j < k)
        <5>1. j = k
          BY <2>1, <4>4
        <5> QED BY <4>2, <5>1
      <4> QED BY <4>3, <4>4
    <3>4. f = [j \in 0..k |-> f[j]]
      OBVIOUS
    <3> HIDE DEF f
    <3>5. f = [j \in 0..k |-> Loop(words, f, j)]
      BY <3>3, <3>4
    <3>6. \E h : h = [j \in 0..k |-> Loop(words, h, j)]
      BY <3>5
    <3> QED BY <2>1, <3>6
  <2> QED BY <2>2, <2>3
<1> QED BY <1>1

(* The words before the k-th, itself included, that have the head h.       *)
Below(words, k, h) == {i \in 1..k : words[i] = h}

(* The lists of children hold what the heads say.                          *)
LEMMA ChildrenFacts ==
  ASSUME NEW s, NEW n \in Nat, Len(s.words) = n, \A i \in 1..n : s.words[i] \in -1..n
  PROVE  \A h \in 0..n : Lists(Children(s)[h], Below(s.words, n, h))
<1> DEFINE words == s.words
           after[k \in 0..Len(s.words)] ==
             IF k = 0 THEN [m \in 0..Len(s.words) |-> <<>>]
             ELSE set_head(after[k - 1], k, s.words[k])
<1>1. Children(s) = after[n]
  BY DEF Children
<1>2. after = CHOOSE g : g = [k \in 0..Len(s.words) |->
                 IF k = 0 THEN [m \in 0..Len(s.words) |-> <<>>]
                 ELSE set_head(g[k - 1], k, s.words[k])]
  BY DEF after
<1> HIDE DEF after
<1>3. after = [k \in 0..n |-> Loop(words, after, k)]
  <2>1. \E g : g = [k \in 0..n |-> Loop(words, g, k)]
    BY LoopExists
  <2>2. after = CHOOSE g : g = [k \in 0..n |-> Loop(words, g, k)]
    BY <1>2 DEF Loop
  <2> QED BY <2>1, <2>2
<1> DEFINE Good(k) == /\ after[k] = [h \in 0..n |-> after[k][h]]
                      /\ \A h \in 0..n : Lists(after[k][h], Below(words, k, h))
           bad == {k \in 0..n : ~Good(k)}
<1>4. bad = {}
  <2> SUFFICES ASSUME bad # {} PROVE FALSE
    OBVIOUS
  <2>0. bad \in SUBSET Nat
    <3>1. \A k \in bad : k \in 0..n
      OBVIOUS
    <3> HIDE DEF bad
    <3> QED BY <3>1
  <2>1. PICK k \in bad : \A y \in bad : k <= y
    <3> HIDE DEF bad
    <3> QED BY <2>0, LeastNat
  <2>2. CASE k = 0
    <3>1. after[k] = [h \in 0..n |-> <<>>]
      BY <1>3, <2>2 DEF Loop
    <3>2. \A h \in 0..n : Below(words, 0, h) = {}
      BY DEF Below
    <3>3. Lists(<<>>, {})
      <4>1. <<>> \in Seq(Nat) /\ Len(<<>>) = 0
        BY EmptySeq
      <4>2. Range(<<>>) = {}
        BY DEF Range
      <4> QED BY <4>1, <4>2 DEF Lists
    <3>4. Good(k)
      BY <2>2, <3>1, <3>2, <3>3
    <3> QED BY <2>1, <3>4
  <2>3. CASE k # 0
    <3>1. k - 1 \in 0..n /\ k - 1 \notin bad /\ k \in 1..n /\ k \in Nat
      BY <2>1, <2>3
    <3>2. Good(k - 1)
      BY <3>1
    <3> DEFINE b == after[k - 1]
    <3>3. after[k] = set_head(b, k, words[k])
      BY <1>3, <2>3, <3>1 DEF Loop
    <3>4. /\ b = [h \in 0..n |-> b[h]]
          /\ \A h \in 0..n : Lists(b[h], Below(words, k - 1, h))
      BY <3>2
    <3> HIDE DEF b
    <3>5. \A h \in 0..n : Below(words, k, h) =
             IF words[k] = h THEN Below(words, k - 1, h) \cup {k} ELSE Below(words, k - 1, h)
      <4>1. \A i \in 1..k : i \in 1..(k - 1) \/ i = k
        BY <3>1
      <4>2. \A i \in 1..(k - 1) : i \in 1..k
        BY <3>1
      <4>3. k \in 1..k
        BY <3>1
      <4> QED BY <4>1, <4>2, <4>3 DEF Below
    <3>6. words[k] \in -1..n
      BY <3>1
    <3>7. CASE words[k] < 0
      <4>1. after[k] = b
        BY <3>3, <3>7 DEF set_head
      <4>2. \A h \in 0..n : words[k] # h
        BY <3>7
      <4>3. Good(k)
        BY <3>4, <3>5, <4>1, <4>2
      <4> QED BY <2>1, <4>3
    <3>8. CASE ~(words[k] < 0)
      <4>1. words[k] \in 0..n
        BY <3>6, <3>8
      <4>2. after[k] = [b EXCEPT ![words[k]] = Inserted(b[words[k]], k)]
        BY <3>3, <3>8 DEF set_head
      <4>3. after[k][words[k]] = Inserted(b[words[k]], k)
        BY <3>4, <4>1, <4>2
      <4>4. \A h \in 0..n : h # words[k] => after[k][h] = b[h]
        BY <3>4, <4>2
      <4>5. after[k] = [h \in 0..n |-> after[k][h]]
        BY <3>4, <4>2
      <4>6. \A x \in Below(words, k - 1, words[k]) : x < k
        BY <3>1 DEF Below
      <4>7. Lists(Inserted(b[words[k]], k), Below(words, k - 1, words[k]) \cup {k})
        BY <3>1, <3>4, <4>1, <4>6, InsertedFacts
      <4>8. ASSUME NEW h \in 0..n PROVE Lists(after[k][h], Below(words, k, h))
        <5>1. CASE h = words[k]
          BY <3>5, <4>1, <4>3, <4>7, <5>1
        <5>2. CASE h # words[k]
          BY <3>4, <3>5, <4>4, <5>2
        <5> QED BY <5>1, <5>2
      <4>9. Good(k)
        BY <4>5, <4>8
      <4> QED BY <2>1, <4>9
    <3> QED BY <3>7, <3>8
  <2> QED BY <2>2, <2>3
<1>5. n \in 0..n
  OBVIOUS
<1>6. Good(n)
  BY <1>4, <1>5
<1> QED BY <1>1, <1>6
-----------------------------------------------------------------------------
(* Lines.                                                                  *)
LEMMA Fields ==
  ASSUME NEW s \in Sentences
  PROVE  /\ s.words \in Seq(-1..MaxWords) /\ Len(s.words) \in Nat
         /\ s.multiword_tokens \in Seq([from : Numbers, to : Numbers])
         /\ Len(s.multiword_tokens) \in Nat
         /\ s.empty_nodes \in Seq([id : 0..MaxWords, index : Nat])
         /\ Len(s.empty_nodes) \in Nat
         /\ s.comments \in Nat /\ s.last_multiword_token \in 0..MaxWords
BY LenProperties DEF Sentences

LEMMA ClearFacts ==
  /\ SentenceOK(Clear) /\ Clear.words = <<>> /\ Clear.last_multiword_token = 0
<1>1. /\ <<>> \in Seq(-1..MaxWords) /\ <<>> \in Seq([from : Numbers, to : Numbers])
      /\ <<>> \in Seq([id : 0..MaxWords, index : Nat]) /\ Len(<<>>) = 0
  BY EmptySeq
<1>2. 0 \in 0..MaxWords
  BY BoundsAssumption
<1>3. Clear \in Sentences
  BY <1>1, <1>2 DEF Clear, Sentences
<1>4. TokensOK(Clear) /\ NodesOK(Clear)
  BY <1>1 DEF TokensOK, NodesOK, Clear
<1> QED BY <1>3, <1>4 DEF SentenceOK, Clear

LEMMA WordTaken ==
  ASSUME NEW s, SentenceOK(s), NEW head \in -1..MaxWords
  PROVE  SentenceOK([s EXCEPT !.words = Append(@, head)])
<1> DEFINE w == Append(s.words, head)
           r == [s EXCEPT !.words = w]
<1>1. s \in Sentences
  BY DEF SentenceOK
<1>2. w \in Seq(-1..MaxWords) /\ Len(w) = Len(s.words) + 1 /\ Len(s.words) \in Nat
  BY <1>1, Fields, AppendProperties
<1> HIDE DEF w
<1>3. /\ r \in Sentences /\ r.words = w /\ r.empty_nodes = s.empty_nodes
      /\ r.multiword_tokens = s.multiword_tokens
      /\ r.last_multiword_token = s.last_multiword_token
  BY <1>1, <1>2 DEF Sentences
<1> HIDE DEF r
<1>4. TokensOK(r)
  BY <1>3 DEF SentenceOK, TokensOK
<1>5. NodesOK(r)
  <2>1. ASSUME NEW i \in 1..Len(s.empty_nodes) PROVE s.empty_nodes[i].id <= Len(w)
    <3>1. s.empty_nodes[i].id <= Len(s.words)
      BY DEF SentenceOK, NodesOK
    <3>2. s.empty_nodes[i] \in [id : 0..MaxWords, index : Nat]
      BY <1>1, Fields, ElementOfSeq
    <3> QED BY <1>2, <3>1, <3>2, BoundsAssumption
  <2> QED BY <1>3, <2>1 DEF SentenceOK, NodesOK
<1> QED BY <1>3, <1>4, <1>5 DEF SentenceOK, r, w

LEMMA TokenTaken ==
  ASSUME NEW s, SentenceOK(s), NEW from \in Numbers, NEW to \in Numbers,
         to >= from, from > s.last_multiword_token
  PROVE  SentenceOK([s EXCEPT !.multiword_tokens = Append(@, [from |-> from, to |-> to]),
                              !.last_multiword_token = to])
<1> DEFINE t == [from |-> from, to |-> to]
           m == s.multiword_tokens
           a == Append(m, t)
           r == [s EXCEPT !.multiword_tokens = a, !.last_multiword_token = to]
<1>1. s \in Sentences /\ TokensOK(s) /\ NodesOK(s)
  BY DEF SentenceOK
<1>2. t \in [from : Numbers, to : Numbers] /\ t.from = from /\ t.to = to
  OBVIOUS
<1>3. m \in Seq([from : Numbers, to : Numbers]) /\ Len(m) \in Nat
  BY <1>1, Fields
<1> HIDE DEF t
<1>4. /\ a \in Seq([from : Numbers, to : Numbers]) /\ Len(a) = Len(m) + 1
      /\ a[Len(m) + 1] = t /\ \A i \in 1..Len(m) : a[i] = m[i]
  BY <1>2, <1>3, AppendProperties
<1> HIDE DEF a
<1>5. to \in 0..MaxWords /\ to \in Nat /\ from \in Nat /\ s.last_multiword_token \in Nat
  BY <1>1, Fields, BoundsAssumption DEF Numbers
<1>6. /\ r \in Sentences /\ r.words = s.words /\ r.empty_nodes = s.empty_nodes
      /\ r.multiword_tokens = a /\ r.last_multiword_token = to
  BY <1>1, <1>4, <1>5 DEF Sentences
<1> HIDE DEF r
<1>7. \A i \in 1..Len(m) : /\ m[i].from \in Nat /\ m[i].to \in Nat
                           /\ m[i].from <= m[i].to /\ m[i].to <= s.last_multiword_token
                           /\ i > 1 => m[i - 1].to < m[i].from
  <2> TAKE i \in 1..Len(m)
  <2>1. m[i] \in [from : Numbers, to : Numbers]
    BY <1>3, ElementOfSeq
  <2>2. m[i].from \in Nat /\ m[i].to \in Nat
    BY <2>1, BoundsAssumption DEF Numbers
  <2> QED BY <1>1, <2>2 DEF TokensOK
<1> HIDE DEF m
<1>8. ASSUME NEW i \in 1..Len(a)
      PROVE  /\ a[i].from <= a[i].to /\ a[i].to <= to
             /\ i > 1 => a[i - 1].to < a[i].from
  <2>1. CASE i \in 1..Len(m)
    <3>1. a[i] = m[i] /\ (i > 1 => i - 1 \in 1..Len(m) /\ a[i - 1] = m[i - 1])
      BY <1>3, <1>4, <2>1
    <3>2. a[i].from <= a[i].to /\ (i > 1 => a[i - 1].to < a[i].from)
      BY <1>7, <2>1, <3>1
    <3>3. a[i].to <= to
      BY <1>5, <1>7, <2>1, <3>1
    <3> QED BY <3>2, <3>3
  <2>2. CASE i = Len(m) + 1
    <3>1. a[i].from = from /\ a[i].to = to
      BY <1>2, <1>4, <2>2
    <3>2. i > 1 => i - 1 \in 1..Len(m) /\ a[i - 1] = m[i - 1]
      BY <1>3, <1>4, <2>2
    <3>3. i > 1 => a[i - 1].to < from
      BY <1>5, <1>7, <3>2
    <3> QED BY <1>5, <3>1, <3>3
  <2> QED BY <1>3, <1>4, <2>1, <2>2
<1>9. TokensOK(r)
  BY <1>6, <1>8 DEF TokensOK
<1>10. NodesOK(r)
  BY <1>1, <1>6 DEF NodesOK
<1> QED BY <1>6, <1>9, <1>10 DEF SentenceOK, r, a, t, m

LEMMA NodeTaken ==
  ASSUME NEW s, SentenceOK(s), NEW id \in 0..MaxWords, NEW index \in Numbers,
         id = Len(s.words),
         IF s.empty_nodes # <<>> /\ Last(s.empty_nodes).id = id
         THEN index = Last(s.empty_nodes).index + 1 ELSE index = 1
  PROVE  SentenceOK([s EXCEPT !.empty_nodes = Append(@, [id |-> id, index |-> index])])
<1> DEFINE A == [id : 0..MaxWords, index : Nat]
           e == [id |-> id, index |-> index]
           m == s.empty_nodes
           a == Append(m, e)
           r == [s EXCEPT !.empty_nodes = a]
<1>1. s \in Sentences /\ TokensOK(s) /\ NodesOK(s)
  BY DEF SentenceOK
<1>2. index \in Nat /\ id \in Nat /\ e \in A /\ e.id = id /\ e.index = index
  BY BoundsAssumption DEF Numbers
<1>3. m \in Seq(A) /\ Len(m) \in Nat
  BY <1>1, Fields
<1> HIDE DEF e
<1>4. /\ a \in Seq(A) /\ Len(a) = Len(m) + 1
      /\ a[Len(m) + 1] = e /\ \A i \in 1..Len(m) : a[i] = m[i]
  BY <1>2, <1>3, AppendProperties
<1> HIDE DEF a
<1>5. /\ r \in Sentences /\ r.words = s.words /\ r.empty_nodes = a
      /\ r.multiword_tokens = s.multiword_tokens
      /\ r.last_multiword_token = s.last_multiword_token
  BY <1>1, <1>4 DEF Sentences
<1> HIDE DEF r
<1>6. \A i \in 1..Len(m) :
        /\ m[i] \in A /\ m[i].id \in Nat /\ m[i].index \in Nat /\ m[i].id <= id
        /\ \/ m[i].index = 1 /\ (i > 1 => m[i - 1].id < m[i].id)
           \/ i > 1 /\ m[i - 1] = [id |-> m[i].id, index |-> m[i].index - 1]
  <2> TAKE i \in 1..Len(m)
  <2>1. m[i] \in A
    BY <1>3, ElementOfSeq
  <2>2. m[i].id \in Nat /\ m[i].index \in Nat
    BY <2>1, BoundsAssumption
  <2> QED BY <1>1, <2>1, <2>2 DEF NodesOK
<1>7. ASSUME NEW i \in 1..Len(a)
      PROVE  /\ a[i].id <= Len(s.words)
             /\ \/ a[i].index = 1 /\ (i > 1 => a[i - 1].id < a[i].id)
                \/ i > 1 /\ a[i - 1] = [id |-> a[i].id, index |-> a[i].index - 1]
  <2>1. CASE i \in 1..Len(m)
    <3>1. a[i] = m[i] /\ (i > 1 => i - 1 \in 1..Len(m) /\ a[i - 1] = m[i - 1])
      BY <1>3, <1>4, <2>1
    <3>2. a[i].id <= Len(s.words)
      BY <1>6, <2>1, <3>1
    <3> QED BY <1>6, <2>1, <3>1, <3>2
  <2>2. CASE i = Len(m) + 1
    <3>1. a[i].id = id /\ a[i].index = index
      BY <1>2, <1>4, <2>2
    <3>2. m # <<>> <=> i > 1
      BY <1>3, <2>2, EmptySeq
    <3>3. i > 1 => i - 1 \in 1..Len(m) /\ i - 1 = Len(m) /\ a[i - 1] = m[Len(m)]
      <4>1. i > 1 => i - 1 \in 1..Len(m) /\ i - 1 = Len(m)
        BY <1>3, <2>2
      <4> QED BY <1>4, <4>1
    <3>4. Last(m) = m[Len(m)]
      BY DEF Last
    <3>5. CASE i > 1 /\ Last(m).id = id
      <4>1. index = Last(m).index + 1
        BY <3>2, <3>5
      <4>2. m[Len(m)] \in A /\ m[Len(m)].index \in Nat
        BY <1>6, <3>3, <3>5
      <4>3. m[Len(m)].index = index - 1 /\ m[Len(m)].id = id
        BY <3>4, <3>5, <4>1, <4>2
      <4>4. m[Len(m)] = [id |-> id, index |-> index - 1]
        BY <4>2, <4>3
      <4> QED BY <1>2, <3>1, <3>3, <3>5, <4>4
    <3>6. CASE ~(i > 1 /\ Last(m).id = id)
      <4>1. index = 1
        BY <3>2, <3>6
      <4>2. i > 1 => m[Len(m)].id < id
        <5>1. ASSUME i > 1 PROVE m[Len(m)].id < id
          <6>1. m[Len(m)].id # id
            BY <3>4, <3>6, <5>1
          <6>2. m[Len(m)].id \in Nat /\ m[Len(m)].id <= id
            BY <1>6, <3>3, <5>1
          <6> QED BY <1>2, <6>1, <6>2
        <5> QED BY <5>1
      <4> QED BY <1>2, <3>1, <3>3, <4>1, <4>2
    <3> QED BY <3>5, <3>6
  <2> QED BY <1>3, <1>4, <2>1, <2>2
<1>8. NodesOK(r)
  BY <1>5, <1>7 DEF NodesOK
<1>9. TokensOK(r)
  BY <1>1, <1>5 DEF TokensOK
<1> QED BY <1>5, <1>8, <1>9 DEF SentenceOK, r, a, e

LEMMA TakenKeeps ==
  ASSUME NEW s, SentenceOK(s), NEW l \in Line, l # Blank, Fits(s, l)
  PROVE  SentenceOK(Taken(s, l))
<1>1. CASE l.kind = "comment"
  <2>1. s \in Sentences /\ s.comments \in Nat
    BY Fields DEF SentenceOK
  <2>2. [s EXCEPT !.comments = @ + 1] \in Sentences
    BY <2>1 DEF Sentences
  <2>3. SentenceOK([s EXCEPT !.comments = @ + 1])
    BY <2>1, <2>2 DEF SentenceOK, TokensOK, NodesOK, Sentences
  <2> QED BY <1>1, <2>3 DEF Taken
<1>2. CASE l.kind = "bad"
  BY <1>2 DEF Fits
<1>3. CASE l \in [kind : {"word"}, id : Numbers, head : -1..MaxWords]
  <2>1. Taken(s, l) = [s EXCEPT !.words = Append(@, l.head)]
    BY <1>3 DEF Taken
  <2> QED BY <1>3, <2>1, WordTaken
<1>4. CASE l \in [kind : {"multiword"}, from : Numbers, to : Numbers]
  <2>1. /\ Taken(s, l) =
             [s EXCEPT !.multiword_tokens = Append(@, [from |-> l.from, to |-> l.to]),
                       !.last_multiword_token = l.to]
        /\ l.from \in Numbers /\ l.to \in Numbers
    BY <1>4 DEF Taken
  <2>2. MultiwordFits(s, l)
    BY <1>4 DEF Fits
  <2>3. l.to >= l.from /\ l.from > s.last_multiword_token
    BY <2>2 DEF MultiwordFits
  <2>4. SentenceOK([s EXCEPT !.multiword_tokens = Append(@, [from |-> l.from, to |-> l.to]),
                             !.last_multiword_token = l.to])
    BY <2>1, <2>3, TokenTaken
  <2> QED BY <2>1, <2>4
<1>5. CASE l \in [kind : {"empty node"}, id : 0..MaxWords, index : Numbers]
  <2>1. /\ Taken(s, l) = [s EXCEPT !.empty_nodes = Append(@, [id |-> l.id, index |-> l.index])]
        /\ l.id \in 0..MaxWords /\ l.index \in Numbers
    BY <1>5 DEF Taken
  <2>2. EmptyNodeFits(s, l)
    BY <1>5 DEF Fits
  <2> QED BY <2>1, <2>2, NodeTaken DEF EmptyNodeFits
<1>6. \/ l.kind \in {"comment", "bad"}
      \/ l \in [kind : {"word"}, id : Numbers, head : -1..MaxWords]
      \/ l \in [kind : {"multiword"}, from : Numbers, to : Numbers]
      \/ l \in [kind : {"empty node"}, id : 0..MaxWords, index : Numbers]
  <2>1. CASE l = [kind |-> "comment"] \/ l = [kind |-> "bad"]
    <3>1. l.kind = "comment" \/ l.kind = "bad"
      BY <2>1
    <3> QED BY <3>1
  <2>2. CASE ~(l = [kind |-> "comment"] \/ l = [kind |-> "bad"])
    BY <2>2 DEF Line
  <2> QED BY <2>1, <2>2
<1> QED BY <1>1, <1>2, <1>3, <1>4, <1>5, <1>6
-----------------------------------------------------------------------------
(* What is returned.                                                       *)
LEMMA ReturnedFacts ==
  ASSUME NEW s, SentenceOK(s)
  PROVE  Returned(s).is = "sentence" => WellFormed(Returned(s))
<1> SUFFICES ASSUME Returned(s).is = "sentence" PROVE WellFormed(Returned(s))
  OBVIOUS
<1> DEFINE n == Len(s.words)
           r == [s EXCEPT !.last_multiword_token = 0]
           o == [is |-> "sentence", sentence |-> r, children |-> Children(s)]
<1>1. CompleteWords(s) /\ Returned(s) = o
  BY DEF Returned, Error, More
<1>2. s \in Sentences /\ TokensOK(s) /\ NodesOK(s)
  BY DEF SentenceOK
<1>3. /\ r.words = s.words /\ r.multiword_tokens = s.multiword_tokens
      /\ r.empty_nodes = s.empty_nodes
  BY <1>2 DEF Sentences
<1>4. o.sentence = r /\ o.children = Children(s)
  OBVIOUS
<1> HIDE DEF r, o
<1>5. n \in Nat
  BY <1>2, Fields
<1>6. \A i \in 1..n : s.words[i] \in -1..n
  <2> TAKE i \in 1..n
  <2>1. s.words[i] \in -1..MaxWords /\ i \in DOMAIN s.words
    BY <1>2, Fields, ElementOfSeq, LenProperties
  <2>2. s.words[i] <= n
    BY <1>1, <2>1 DEF CompleteWords
  <2> QED BY <1>5, <2>1, <2>2, BoundsAssumption
<1>7. s.last_multiword_token \in Nat /\ s.last_multiword_token <= n
  BY <1>1, <1>2, Fields, BoundsAssumption DEF CompleteWords
<1>8. ASSUME NEW i \in DOMAIN s.multiword_tokens
      PROVE  LET t == s.multiword_tokens IN
             /\ 1 <= t[i].from /\ t[i].from <= t[i].to /\ t[i].to <= n
             /\ i > 1 => t[i - 1].to < t[i].from
  <2> DEFINE t == s.multiword_tokens
  <2>1. i \in 1..Len(t) /\ t[i] \in [from : Numbers, to : Numbers]
    BY <1>2, Fields, ElementOfSeq, LenProperties
  <2>2. 1 <= t[i].from /\ t[i].from \in Nat /\ t[i].to \in Nat
    BY <2>1, BoundsAssumption DEF Numbers
  <2>3. /\ t[i].from <= t[i].to /\ t[i].to <= s.last_multiword_token
        /\ i > 1 => t[i - 1].to < t[i].from
    BY <1>2, <2>1 DEF TokensOK
  <2>4. t[i].to <= n
    BY <1>5, <1>7, <2>2, <2>3
  <2> QED BY <2>2, <2>3, <2>4
<1>9. ASSUME NEW i \in DOMAIN s.empty_nodes
      PROVE  LET e == s.empty_nodes IN
             /\ e[i].id \in 0..n
             /\ \/ e[i].index = 1 /\ (i > 1 => e[i - 1].id < e[i].id)
                \/ i > 1 /\ e[i - 1] = [id |-> e[i].id, index |-> e[i].index - 1]
  <2> DEFINE e == s.empty_nodes
  <2>1. i \in 1..Len(e) /\ e[i] \in [id : 0..MaxWords, index : Nat]
    BY <1>2, Fields, ElementOfSeq, LenProperties
  <2>2. e[i].id \in Nat /\ e[i].id <= n
    <3>1. e[i].id \in Nat
      BY <2>1, BoundsAssumption
    <3>2. e[i].id <= n
      BY <1>2, <2>1 DEF NodesOK
    <3> QED BY <3>1, <3>2
  <2>3. e[i].id \in 0..n
    BY <1>5, <2>2
  <2>4. \/ e[i].index = 1 /\ (i > 1 => e[i - 1].id < e[i].id)
        \/ i > 1 /\ e[i - 1] = [id |-> e[i].id, index |-> e[i].index - 1]
    BY <1>2, <2>1 DEF NodesOK
  <2> QED BY <2>3, <2>4
<1>10. ASSUME NEW h \in 0..n
       PROVE  LET c == Children(s)[h] IN
              /\ Range(c) = {i \in 1..n : s.words[i] = h}
              /\ \A i, j \in DOMAIN c : i < j => c[i] < c[j]
  <2> DEFINE c == Children(s)[h]
  <2>1. Lists(c, Below(s.words, n, h))
    BY <1>5, <1>6, ChildrenFacts
  <2> HIDE DEF c
  <2>2. DOMAIN c = 1..Len(c)
    BY <2>1, ListsFacts
  <2>3. Range(c) = {i \in 1..n : s.words[i] = h} /\ \A i, j \in DOMAIN c : i < j => c[i] < c[j]
    BY <2>1, <2>2 DEF Lists, Below
  <2> QED BY <2>3 DEF c
<1>11. WellFormed(o)
  BY <1>3, <1>4, <1>6, <1>8, <1>9, <1>10 DEF WellFormed
<1> QED BY <1>1, <1>11

LEMMA ReadFacts ==
  ASSUME NEW s, SentenceOK(s), NEW l \in Line, NEW ends \in BOOLEAN
  PROVE  /\ SentenceOK(Read(s, l, ends).next)
         /\ Read(s, l, ends).out.is = "sentence" => WellFormed(Read(s, l, ends).out)
<1> DEFINE Stay(t) == IF ends THEN [next |-> Clear, out |-> Returned(t)]
                      ELSE [next |-> t, out |-> More]
<1>1. ASSUME NEW t, SentenceOK(t)
      PROVE  /\ SentenceOK(Stay(t).next)
             /\ Stay(t).out.is = "sentence" => WellFormed(Stay(t).out)
  <2>1. CASE ends
    BY <1>1, <2>1, ClearFacts, ReturnedFacts
  <2>2. CASE ~ends
    BY <1>1, <2>2 DEF More
  <2> QED BY <2>1, <2>2
<1>2. CASE l = Blank /\ s.words = <<>>
  <2>1. Read(s, l, ends) = Stay(s)
    BY <1>2 DEF Read
  <2> HIDE DEF Stay
  <2> QED BY <1>1, <2>1
<1>3. CASE l = Blank /\ s.words # <<>>
  <2>1. Read(s, l, ends) = [next |-> Clear, out |-> Returned(s)]
    BY <1>3 DEF Read
  <2> QED BY <2>1, ClearFacts, ReturnedFacts
<1>4. CASE l # Blank /\ Fits(s, l)
  <2>1. Read(s, l, ends) = Stay(Taken(s, l))
    BY <1>4 DEF Read
  <2>2. SentenceOK(Taken(s, l))
    BY <1>4, TakenKeeps
  <2> HIDE DEF Stay
  <2> QED BY <1>1, <2>1, <2>2
<1>5. CASE l # Blank /\ ~Fits(s, l)
  <2>1. Read(s, l, ends) = [next |-> Clear, out |-> Error]
    BY <1>5 DEF Read
  <2> QED BY <2>1, ClearFacts DEF Error
<1> QED BY <1>2, <1>3, <1>4, <1>5

(* The end of a block makes no difference to a reader that has nothing: an *)
(* empty line after words ends the sentence for both readers.              *)
LEMMA SameRead ==
  ASSUME NEW s, NEW l, NEW ends \in BOOLEAN, NEW ends_block \in BOOLEAN,
         ends # ends_block => l = Blank /\ (s.words = <<>> => s = Clear)
  PROVE  Read(s, l, ends) = Read(s, l, ends_block)
<1>1. CASE ends = ends_block
  BY <1>1
<1>2. CASE ends # ends_block /\ s.words # <<>>
  BY <1>2 DEF Read
<1>3. CASE ends # ends_block /\ s.words = <<>>
  <2>1. s = Clear /\ l = Blank
    BY <1>3
  <2>2. Returned(Clear) = More
    <3>1. CompleteWords(Clear)
      <4>1. Clear.words = <<>> /\ Clear.last_multiword_token = 0
        BY ClearFacts
      <4>2. Len(<<>>) = 0 /\ DOMAIN <<>> = {}
        OBVIOUS
      <4> QED BY <4>1, <4>2 DEF CompleteWords
    <3> QED BY <3>1, ClearFacts DEF Returned
  <2>3. \A e \in BOOLEAN : Read(Clear, Blank, e) = [next |-> Clear, out |-> More]
    <3> TAKE e \in BOOLEAN
    <3>1. Clear.words = <<>>
      BY ClearFacts
    <3>2. CASE e
      BY <2>2, <3>1, <3>2 DEF Read
    <3>3. CASE ~e
      BY <3>1, <3>3 DEF Read
    <3> QED BY <3>2, <3>3
  <2> QED BY <2>1, <2>3
<1> QED BY <1>1, <1>2, <1>3

LEMMA BothKeep ==
  ASSUME ReaderInv, NEW l \in Line, NEW ends \in BOOLEAN, NEW ends_block \in BOOLEAN,
         ends # ends_block => l = Blank, Both(l, ends, ends_block)
  PROVE  ReaderInv'
<1> DEFINE w == Read(whole, l, ends)
           b == Read(block, l, ends_block)
<1>1. /\ whole' = w.next /\ block' = b.next
      /\ out' = [whole |-> w.out, block |-> b.out]
      /\ detached' = (detached \/ (l = Blank /\ whole # Clear /\ whole.words = <<>>))
  BY DEF Both
<1>2. /\ SentenceOK(w.next) /\ (w.out.is = "sentence" => WellFormed(w.out))
      /\ SentenceOK(b.next) /\ (b.out.is = "sentence" => WellFormed(b.out))
  BY ReadFacts DEF ReaderInv
<1>3. ASSUME ~detached' PROVE w = b
  <2>1. whole = block
    BY <1>1, <1>3 DEF ReaderInv, InStep
  <2>2. l = Blank => (whole.words = <<>> => whole = Clear)
    BY <1>1, <1>3
  <2> QED BY <2>1, <2>2, SameRead
<1> HIDE DEF w, b
<1>4. SentenceOK(whole)' /\ SentenceOK(block)'
  BY <1>1, <1>2 DEF SentenceOK, TokensOK, NodesOK
<1>5. out'.whole = w.out /\ out'.block = b.out
  BY <1>1
<1>6. ReturnsWellFormed'
  BY <1>2, <1>5 DEF ReturnsWellFormed, Delivered
<1>7. InStep'
  BY <1>1, <1>3, <1>5 DEF InStep
<1> QED BY <1>4, <1>6, <1>7 DEF ReaderInv

-----------------------------------------------------------------------------
(* Reading lines one by one.                                               *)
Reader(lines, g, k) ==
  IF k = 0 THEN [next |-> Clear, out |-> More] ELSE ReadOne(g[k - 1], lines[k])

LEMMA ReaderExists ==
  ASSUME NEW lines, NEW m \in Nat
  PROVE  \E g : g = [k \in 0..m |-> Reader(lines, g, k)]
<1> DEFINE bad == {k \in Nat : ~\E g : g = [j \in 0..k |-> Reader(lines, g, j)]}
<1>1. bad = {}
  <2> SUFFICES ASSUME bad # {} PROVE FALSE
    OBVIOUS
  <2>1. PICK k \in bad : \A y \in bad : k <= y
    BY LeastNat
  <2>2. CASE k = 0
    <3> DEFINE g == [j \in 0..0 |-> [next |-> Clear, out |-> More]]
    <3>1. \A j \in 0..0 : Reader(lines, g, j) = [next |-> Clear, out |-> More]
      BY DEF Reader
    <3>2. g = [j \in 0..0 |-> Reader(lines, g, j)]
      BY <3>1
    <3> HIDE DEF g
    <3>3. \E f : f = [j \in 0..0 |-> Reader(lines, f, j)]
      BY <3>2
    <3> QED BY <2>1, <2>2, <3>3
  <2>3. CASE k # 0
    <3>1. k - 1 \in Nat /\ k - 1 \notin bad
      BY <2>1, <2>3
    <3>2. PICK g : g = [j \in 0..(k - 1) |-> Reader(lines, g, j)]
      BY <3>1
    <3> DEFINE f == [j \in 0..k |-> IF j < k THEN g[j] ELSE Reader(lines, g, k)]
    <3>3. ASSUME NEW j \in 0..k PROVE f[j] = Reader(lines, f, j)
      <4>1. j # 0 => f[j - 1] = g[j - 1]
        BY <2>1
      <4>2. Reader(lines, f, j) = Reader(lines, g, j)
        BY <4>1 DEF Reader
      <4>3. CASE j < k
        <5>1. j \in 0..(k - 1)
          BY <2>1, <4>3
        <5>2. g[j] = Reader(lines, g, j)
          BY <3>2, <5>1
        <5> QED BY <4>2, <4>3, <5>2
      <4>4. CASE ~(j < k)
        <5>1. j = k
          BY <2>1, <4>4
        <5> QED BY <4>2, <5>1
      <4> QED BY <4>3, <4>4
    <3>4. f = [j \in 0..k |-> f[j]]
      OBVIOUS
    <3> HIDE DEF f
    <3>5. f = [j \in 0..k |-> Reader(lines, f, j)]
      BY <3>3, <3>4
    <3>6. \E h : h = [j \in 0..k |-> Reader(lines, h, j)]
      BY <3>5
    <3> QED BY <2>1, <3>6
  <2> QED BY <2>2, <2>3
<1> QED BY <1>1

ReaderOf(lines) == CHOOSE g : g = [k \in 0..Len(lines) |-> Reader(lines, g, k)]

LEMMA ReaderFacts ==
  ASSUME NEW lines, Len(lines) \in Nat
  PROVE  /\ ReadLines(lines) = ReaderOf(lines)[Len(lines)]
         /\ \A k \in 0..Len(lines) : ReaderOf(lines)[k] = Reader(lines, ReaderOf(lines), k)
<1>1. \E g : g = [k \in 0..Len(lines) |-> Reader(lines, g, k)]
  BY ReaderExists
<1>2. ReaderOf(lines) = [k \in 0..Len(lines) |-> Reader(lines, ReaderOf(lines), k)]
  BY <1>1 DEF ReaderOf
<1>3. ReadLines(lines) = ReaderOf(lines)[Len(lines)]
  BY DEF ReadLines, ReaderOf, Reader
<1>4. ASSUME NEW k \in 0..Len(lines)
      PROVE  ReaderOf(lines)[k] = Reader(lines, ReaderOf(lines), k)
  BY <1>2
<1> QED BY <1>3, <1>4

LEMMA ReadNoLine == ReadLines(<<>>) = [next |-> Clear, out |-> More]
<1>1. Len(<<>>) = 0 /\ 0 \in 0..0
  OBVIOUS
<1>2. ReadLines(<<>>) = Reader(<<>>, ReaderOf(<<>>), 0)
  BY <1>1, ReaderFacts
<1> QED BY <1>2 DEF Reader

LEMMA ReadOneLine ==
  ASSUME NEW S, NEW lines \in Seq(S), NEW l \in S
  PROVE  ReadLines(Append(lines, l)) = ReadOne(ReadLines(lines), l)
<1> DEFINE n == Len(lines)
           more == Append(lines, l)
           f == ReaderOf(lines)
           g == ReaderOf(more)
<1>1. n \in Nat /\ Len(more) = n + 1 /\ more[n + 1] = l /\ \A k \in 1..n : more[k] = lines[k]
  BY AppendProperties, LenProperties
<1> HIDE DEF more
<1>2. /\ ReadLines(lines) = f[n] /\ ReadLines(more) = g[n + 1]
      /\ \A k \in 0..n : f[k] = Reader(lines, f, k)
      /\ \A k \in 0..n + 1 : g[k] = Reader(more, g, k)
  BY <1>1, ReaderFacts
<1> HIDE DEF f, g
<1> DEFINE bad == {k \in 0..n : f[k] # g[k]}
<1>3. bad = {}
  <2> SUFFICES ASSUME bad # {} PROVE FALSE
    OBVIOUS
  <2>1. bad \in SUBSET Nat
    BY <1>1
  <2>2. PICK k \in bad : \A y \in bad : k <= y
    <3> HIDE DEF bad
    <3> QED BY <2>1, LeastNat
  <2>3. k \in 0..n /\ k \in 0..n + 1 /\ f[k] # g[k]
    BY <1>1, <2>2
  <2>4. CASE k = 0
    BY <1>2, <2>3, <2>4 DEF Reader
  <2>5. CASE k # 0
    <3>1. k - 1 \in 0..n /\ k \in 1..n
      BY <1>1, <2>3, <2>5
    <3>2. k - 1 \notin bad
      BY <2>2, <3>1
    <3>3. f[k - 1] = g[k - 1] /\ more[k] = lines[k]
      BY <1>1, <3>1, <3>2
    <3>4. Reader(lines, f, k) = Reader(more, g, k)
      BY <3>3 DEF Reader
    <3> QED BY <1>2, <2>3, <3>4
  <2> QED BY <2>4, <2>5
<1>4. f[n] = g[n]
  <2>1. n \in 0..n
    BY <1>1
  <2> QED BY <1>3, <2>1
<1>5. g[n + 1] = ReadOne(g[n], l)
  <2>1. n + 1 \in 0..n + 1 /\ n + 1 # 0 /\ (n + 1) - 1 = n
    BY <1>1
  <2>2. g[n + 1] = Reader(more, g, n + 1)
    BY <1>2, <2>1
  <2> QED BY <1>1, <2>1, <2>2 DEF Reader
<1> QED BY <1>2, <1>4, <1>5 DEF more

(* A reader has the sentence t after the lines and has returned nothing.   *)
Reads(lines, t) == ReadLines(lines) = [next |-> t, out |-> More]

(* Lines that fit after one another take the sentence along st.            *)
LEMMA ReadsOn ==
  ASSUME NEW S, NEW lines \in Seq(S), NEW more \in Seq(S), NEW st,
         Reads(lines, st[0]),
         \A j \in 1..Len(more) : /\ more[j] # Blank /\ Fits(st[j - 1], more[j])
                                 /\ st[j] = Taken(st[j - 1], more[j])
  PROVE  lines \o more \in Seq(S) /\ Reads(lines \o more, st[Len(more)])
<1> DEFINE n == Len(more)
           cut(k) == lines \o SubSeq(more, 1, k)
           bad == {k \in 0..n : ~Reads(cut(k), st[k])}
<1>1. n \in Nat
  BY LenProperties
<1>2. \A k \in 0..n : SubSeq(more, 1, k) \in Seq(S)
  BY <1>1, SubSeqProperties, LenProperties
<1>3. bad = {}
  <2> SUFFICES ASSUME bad # {} PROVE FALSE
    OBVIOUS
  <2>1. bad \in SUBSET Nat
    BY <1>1
  <2>2. PICK k \in bad : \A y \in bad : k <= y
    <3> HIDE DEF bad
    <3> QED BY <2>1, LeastNat
  <2>3. k \in 0..n /\ ~Reads(cut(k), st[k])
    BY <2>2
  <2>4. CASE k = 0
    <3>1. SubSeq(more, 1, 0) = <<>>
      BY SubSeqEmpty
    <3>2. cut(0) = lines
      BY <3>1, ConcatEmptySeq
    <3> QED BY <2>3, <2>4, <3>2
  <2>5. CASE k # 0
    <3>1. k - 1 \in 0..n /\ k \in 1..n
      BY <1>1, <2>3, <2>5
    <3>2. Reads(cut(k - 1), st[k - 1])
      <4>1. k - 1 \notin bad
        BY <2>2, <3>1
      <4> QED BY <3>1, <4>1
    <3>3. more[k] \in S
      BY <3>1, ElementOfSeq
    <3>4. SubSeq(more, 1, k) = Append(SubSeq(more, 1, k - 1), more[k])
      BY <1>1, <3>1, SubSeqRecursiveSecond
    <3> DEFINE a == SubSeq(more, 1, k - 1)
    <3>5. a \in Seq(S)
      BY <1>2, <3>1
    <3> HIDE DEF a
    <3>6. lines \o Append(a, more[k]) = Append(lines \o a, more[k])
      <4>1. <<more[k]>> \in Seq(S)
        BY <3>3
      <4>2. Append(a, more[k]) = a \o <<more[k]>>
        BY <3>3, <3>5, AppendIsConcat
      <4>3. lines \o a \in Seq(S)
        BY <3>5, ConcatProperties
      <4>4. Append(lines \o a, more[k]) = (lines \o a) \o <<more[k]>>
        BY <3>3, <4>3, AppendIsConcat
      <4>5. lines \o (a \o <<more[k]>>) = (lines \o a) \o <<more[k]>>
        BY <3>5, <4>1, ConcatAssociative
      <4> QED BY <4>2, <4>4, <4>5
    <3>7. cut(k) = Append(cut(k - 1), more[k])
      BY <3>4, <3>6 DEF a
    <3>8. cut(k - 1) \in Seq(S)
      BY <1>2, <3>1, ConcatProperties
    <3> HIDE DEF cut
    <3>9. ReadLines(cut(k)) = ReadOne([next |-> st[k - 1], out |-> More], more[k])
      BY <3>2, <3>3, <3>7, <3>8, ReadOneLine DEF Reads
    <3>10. ReadOne([next |-> st[k - 1], out |-> More], more[k])
             = Read(st[k - 1], more[k], FALSE)
      BY DEF ReadOne
    <3>11. Read(st[k - 1], more[k], FALSE) = [next |-> st[k], out |-> More]
      BY <3>1 DEF Read
    <3> QED BY <2>3, <3>9, <3>10, <3>11 DEF Reads
  <2> QED BY <2>4, <2>5
<1>4. n \in 0..n
  BY <1>1
<1>5. Reads(cut(n), st[n])
  BY <1>3, <1>4
<1>6. SubSeq(more, 1, n) = more
  BY SubSeqFull
<1>7. lines \o more \in Seq(S)
  BY ConcatProperties
<1> QED BY <1>5, <1>6, <1>7

-----------------------------------------------------------------------------
(* Writing word by word.                                                   *)
Start(s) == [lines |-> [i \in 1..s.comments |-> [kind |-> "comment"]], tokens |-> 0, nodes |-> 0]
Writer(s, g, k) == IF k = 0 THEN Start(s) ELSE WriteNode(g[k - 1], s, k - 1)

LEMMA WriterExists ==
  ASSUME NEW s, NEW m \in Nat
  PROVE  \E g : g = [k \in 0..m |-> Writer(s, g, k)]
<1> DEFINE bad == {k \in Nat : ~\E g : g = [j \in 0..k |-> Writer(s, g, j)]}
<1>1. bad = {}
  <2> SUFFICES ASSUME bad # {} PROVE FALSE
    OBVIOUS
  <2>1. PICK k \in bad : \A y \in bad : k <= y
    BY LeastNat
  <2>2. CASE k = 0
    <3> DEFINE g == [j \in 0..0 |-> Start(s)]
    <3>1. \A j \in 0..0 : Writer(s, g, j) = Start(s)
      BY DEF Writer
    <3>2. g = [j \in 0..0 |-> Writer(s, g, j)]
      BY <3>1
    <3> HIDE DEF g
    <3>3. \E f : f = [j \in 0..0 |-> Writer(s, f, j)]
      BY <3>2
    <3> QED BY <2>1, <2>2, <3>3
  <2>3. CASE k # 0
    <3>1. k - 1 \in Nat /\ k - 1 \notin bad
      BY <2>1, <2>3
    <3>2. PICK g : g = [j \in 0..(k - 1) |-> Writer(s, g, j)]
      BY <3>1
    <3> DEFINE f == [j \in 0..k |-> IF j < k THEN g[j] ELSE Writer(s, g, k)]
    <3>3. ASSUME NEW j \in 0..k PROVE f[j] = Writer(s, f, j)
      <4>1. j # 0 => f[j - 1] = g[j - 1]
        BY <2>1
      <4>2. Writer(s, f, j) = Writer(s, g, j)
        BY <4>1 DEF Writer
      <4>3. CASE j < k
        <5>1. j \in 0..(k - 1)
          BY <2>1, <4>3
        <5>2. g[j] = Writer(s, g, j)
          BY <3>2, <5>1
        <5> QED BY <4>2, <4>3, <5>2
      <4>4. CASE ~(j < k)
        <5>1. j = k
          BY <2>1, <4>4
        <5> QED BY <4>2, <5>1
      <4> QED BY <4>3, <4>4
    <3>4. f = [j \in 0..k |-> f[j]]
      OBVIOUS
    <3> HIDE DEF f
    <3>5. f = [j \in 0..k |-> Writer(s, f, j)]
      BY <3>3, <3>4
    <3>6. \E h : h = [j \in 0..k |-> Writer(s, h, j)]
      BY <3>5
    <3> QED BY <2>1, <3>6
  <2> QED BY <2>2, <2>3
<1> QED BY <1>1

WriterOf(s) == CHOOSE g : g = [k \in 0..Len(s.words) + 1 |-> Writer(s, g, k)]

LEMMA WriterFacts ==
  ASSUME NEW s, NEW n \in Nat, n = Len(s.words)
  PROVE  /\ write_sentence(s) = Append(WriterOf(s)[n + 1].lines, Blank)
         /\ WriterOf(s)[0] = Start(s)
         /\ \A k \in 1..n + 1 : WriterOf(s)[k] = WriteNode(WriterOf(s)[k - 1], s, k - 1)
<1>1. \E g : g = [k \in 0..Len(s.words) + 1 |-> Writer(s, g, k)]
  BY WriterExists
<1>2. WriterOf(s) = [k \in 0..Len(s.words) + 1 |-> Writer(s, WriterOf(s), k)]
  BY <1>1 DEF WriterOf
<1>3. write_sentence(s) = Append(WriterOf(s)[Len(s.words) + 1].lines, Blank)
  BY DEF write_sentence, WriterOf, Writer, Start
<1>4. ASSUME NEW k \in 0..n + 1 PROVE WriterOf(s)[k] = Writer(s, WriterOf(s), k)
  BY <1>2
<1>5. WriterOf(s)[0] = Start(s)
  BY <1>4 DEF Writer
<1>6. ASSUME NEW k \in 1..n + 1 PROVE WriterOf(s)[k] = WriteNode(WriterOf(s)[k - 1], s, k - 1)
  <2>1. k \in 0..n + 1 /\ k # 0
    BY <1>6
  <2> QED BY <1>4, <2>1 DEF Writer
<1> QED BY <1>3, <1>5, <1>6

(* What a written sentence is read as so far.                              *)
Part(s, words, tokens, nodes) ==
  [words |-> SubSeq(s.words, 1, words),
   multiword_tokens |-> SubSeq(s.multiword_tokens, 1, tokens),
   empty_nodes |-> SubSeq(s.empty_nodes, 1, nodes),
   comments |-> s.comments,
   last_multiword_token |-> IF tokens = 0 THEN 0 ELSE s.multiword_tokens[tokens].to]

WrittenLines ==
  {[kind |-> "comment"]}
    \cup [kind : {"word"}, id : Nat, head : -1..MaxWords]
    \cup [kind : {"multiword"}, from : Numbers, to : Numbers]
    \cup [kind : {"empty node"}, id : 0..MaxWords, index : Nat]

Position(k) == IF k = 0 THEN 0 ELSE k - 1

(* The state of the writer before word k: no token and no node was passed  *)
(* over, and the lines are read as the part of the sentence before k.      *)
Written(w, s, k) ==
  /\ w.tokens \in 0..Len(s.multiword_tokens) /\ w.nodes \in 0..Len(s.empty_nodes)
  /\ w.tokens < Len(s.multiword_tokens) => s.multiword_tokens[w.tokens + 1].from >= k
  /\ w.nodes < Len(s.empty_nodes) => s.empty_nodes[w.nodes + 1].id >= k
  /\ w.lines \in Seq(WrittenLines)
  /\ Reads(w.lines, Part(s, Position(k), w.tokens, w.nodes))

(* A sentence that is returned, before the last token is forgotten.        *)
Complete(s) ==
  /\ SentenceOK(s) /\ CompleteWords(s) /\ s.words # <<>>
  /\ version >= 2 \/ s.empty_nodes = <<>>

LEMMA SubSeqGrows ==
  ASSUME NEW S, NEW seq \in Seq(S), NEW k \in Nat, k < Len(seq)
  PROVE  SubSeq(seq, 1, k + 1) = Append(SubSeq(seq, 1, k), seq[k + 1])
<1>1. Len(seq) \in Nat
  BY LenProperties
<1>2. 1 \in 1..Len(seq) /\ k + 1 \in 1..Len(seq) /\ (k + 1) - 1 = k
  BY <1>1
<1>3. SubSeq(seq, 1, k + 1) = SubSeq(seq, 1, k) \o <<seq[k + 1]>>
  BY <1>2, SubSeqRecursiveSecond
<1>4. SubSeq(seq, 1, k) \in Seq(S) /\ seq[k + 1] \in S
  <2>1. \A i \in 1..k : i \in 1..Len(seq)
    BY <1>1
  <2>2. \A i \in 1..Len(seq) : seq[i] \in S
    BY ElementOfSeq
  <2> QED BY <1>2, <2>1, <2>2, SubSeqProperties, LenProperties
<1> QED BY <1>3, <1>4, AppendIsConcat

LEMMA CompleteFacts ==
  ASSUME NEW s, Complete(s)
  PROVE  /\ s \in Sentences
         /\ Len(s.words) \in Nat /\ Len(s.words) > 0
         /\ Len(s.multiword_tokens) \in Nat /\ Len(s.empty_nodes) \in Nat
         /\ \A i \in 1..Len(s.multiword_tokens) :
              LET t == s.multiword_tokens[i] IN
              /\ t \in [from : Numbers, to : Numbers] /\ t.from \in Nat /\ t.to \in Nat /\ t.from >= 1
              /\ t.from <= t.to /\ t.to <= Len(s.words)
              /\ i > 1 => s.multiword_tokens[i - 1].to < t.from /\ s.multiword_tokens[i - 1].to \in Nat
         /\ \A i \in 1..Len(s.empty_nodes) :
              LET e == s.empty_nodes[i] IN
              /\ e \in [id : 0..MaxWords, index : Nat] /\ e.id \in Nat /\ e.index \in Nat
              /\ e.id <= Len(s.words)
              /\ \/ e.index = 1 /\ (i > 1 => s.empty_nodes[i - 1].id < e.id)
                 \/ i > 1 /\ s.empty_nodes[i - 1] = [id |-> e.id, index |-> e.index - 1]
         /\ \A i \in 1..Len(s.words) : s.words[i] \in -1..MaxWords /\ s.words[i] <= Len(s.words)
<1>1. s \in Sentences /\ TokensOK(s) /\ NodesOK(s) /\ CompleteWords(s) /\ s.words # <<>>
  BY DEF Complete, SentenceOK
<1>2. /\ Len(s.words) \in Nat /\ Len(s.multiword_tokens) \in Nat /\ Len(s.empty_nodes) \in Nat
      /\ s.last_multiword_token \in 0..MaxWords
      /\ s.words \in Seq(-1..MaxWords)
      /\ s.multiword_tokens \in Seq([from : Numbers, to : Numbers])
      /\ s.empty_nodes \in Seq([id : 0..MaxWords, index : Nat])
  BY <1>1, Fields
<1>3. Len(s.words) > 0
  BY <1>1, <1>2, EmptySeq
<1>4. \A i \in 1..Len(s.multiword_tokens) :
        /\ s.multiword_tokens[i] \in [from : Numbers, to : Numbers]
        /\ s.multiword_tokens[i].from \in Nat /\ s.multiword_tokens[i].to \in Nat
        /\ s.multiword_tokens[i].from >= 1
  <2> TAKE i \in 1..Len(s.multiword_tokens)
  <2>1. s.multiword_tokens[i] \in [from : Numbers, to : Numbers]
    BY <1>2, ElementOfSeq
  <2> QED BY <2>1, BoundsAssumption DEF Numbers
<1>5. ASSUME NEW i \in 1..Len(s.multiword_tokens)
      PROVE  LET t == s.multiword_tokens[i] IN
             /\ t.from <= t.to /\ t.to <= Len(s.words)
             /\ i > 1 => s.multiword_tokens[i - 1].to < t.from /\ s.multiword_tokens[i - 1].to \in Nat
  <2> DEFINE t == s.multiword_tokens[i]
  <2>1. /\ t.from <= t.to /\ t.to <= s.last_multiword_token
        /\ i > 1 => s.multiword_tokens[i - 1].to < t.from
    BY <1>1 DEF TokensOK
  <2>2. s.last_multiword_token <= Len(s.words)
    BY <1>1 DEF CompleteWords
  <2>3. i > 1 => i - 1 \in 1..Len(s.multiword_tokens)
    BY <1>2
  <2>4. s.last_multiword_token \in Nat
    BY <1>2, BoundsAssumption
  <2>5. t.to \in Nat /\ t.from \in Nat /\ (i > 1 => s.multiword_tokens[i - 1].to \in Nat)
    BY <1>4, <2>3
  <2>6. t.to <= Len(s.words)
    BY <1>2, <2>1, <2>2, <2>4, <2>5
  <2> QED BY <2>1, <2>5, <2>6
<1>6. ASSUME NEW i \in 1..Len(s.empty_nodes)
      PROVE  LET e == s.empty_nodes[i] IN
             /\ e \in [id : 0..MaxWords, index : Nat] /\ e.id \in Nat /\ e.index \in Nat
             /\ e.id <= Len(s.words)
             /\ \/ e.index = 1 /\ (i > 1 => s.empty_nodes[i - 1].id < e.id)
                \/ i > 1 /\ s.empty_nodes[i - 1] = [id |-> e.id, index |-> e.index - 1]
  <2> DEFINE e == s.empty_nodes[i]
  <2>1. e \in [id : 0..MaxWords, index : Nat]
    BY <1>2, ElementOfSeq
  <2>2. e.id \in Nat /\ e.index \in Nat
    BY <2>1, BoundsAssumption
  <2> QED BY <1>1, <2>1, <2>2 DEF NodesOK
<1>7. ASSUME NEW i \in 1..Len(s.words)
      PROVE  s.words[i] \in -1..MaxWords /\ s.words[i] <= Len(s.words)
  BY <1>1, <1>2, ElementOfSeq, LenProperties DEF CompleteWords
<1> QED BY <1>1, <1>2, <1>3, <1>4, <1>5, <1>6, <1>7

(* The run of empty nodes of a word ends somewhere.                        *)
RunEnd(nodes, a, i) ==
  CHOOSE k \in a .. Len(nodes) : /\ \A j \in a + 1 .. k : nodes[j].id = i
                                 /\ k < Len(nodes) => nodes[k + 1].id # i

LEMMA RunEnds ==
  ASSUME NEW nodes, NEW L \in Nat, L = Len(nodes), NEW a \in 0..L, NEW i, NEW m, m = RunEnd(nodes, a, i)
  PROVE  /\ m \in a..L
         /\ \A j \in a + 1 .. m : nodes[j].id = i
         /\ m < L => nodes[m + 1].id # i
<1> DEFINE T == {k \in a..L : k < L => nodes[k + 1].id # i}
<1>1. T \in SUBSET Nat /\ T # {}
  <2>1. L \in T
    OBVIOUS
  <2> QED BY <2>1
<1>2. PICK k \in T : \A y \in T : k <= y
  <2> HIDE DEF T
  <2> QED BY <1>1, LeastNat
<1>3. ASSUME NEW j \in a + 1 .. k PROVE nodes[j].id = i
  <2>1. j - 1 \in a..L /\ j - 1 < k /\ (j - 1) + 1 = j
    BY <1>2
  <2>2. j - 1 \notin T
    BY <1>2, <2>1
  <2> QED BY <2>1, <2>2
<1>4. /\ k \in a..Len(nodes) /\ \A j \in a + 1 .. k : nodes[j].id = i
      /\ k < Len(nodes) => nodes[k + 1].id # i
  BY <1>2, <1>3
<1>5. /\ m \in a..Len(nodes) /\ \A j \in a + 1 .. m : nodes[j].id = i
      /\ m < Len(nodes) => nodes[m + 1].id # i
  BY <1>4 DEF RunEnd
<1> QED BY <1>5

LEMMA TwoFields ==
  ASSUME NEW w, NEW m, NEW e, NEW c, NEW l, NEW a, NEW b
  PROVE  [[words |-> w, multiword_tokens |-> m, empty_nodes |-> e, comments |-> c,
           last_multiword_token |-> l] EXCEPT !.multiword_tokens = a, !.last_multiword_token = b]
           = [words |-> w, multiword_tokens |-> a, empty_nodes |-> e, comments |-> c,
              last_multiword_token |-> b]
<1> DEFINE p == [words |-> w, multiword_tokens |-> m, empty_nodes |-> e, comments |-> c,
                 last_multiword_token |-> l]
           q == [words |-> w, multiword_tokens |-> a, empty_nodes |-> e, comments |-> c,
                 last_multiword_token |-> l]
           r == [words |-> w, multiword_tokens |-> a, empty_nodes |-> e, comments |-> c,
                 last_multiword_token |-> b]
<1>1. [p EXCEPT !.multiword_tokens = a] = q
  OBVIOUS
<1>2. [q EXCEPT !.last_multiword_token = b] = r
  OBVIOUS
<1> HIDE DEF p, q, r
<1>3. [p EXCEPT !.multiword_tokens = a, !.last_multiword_token = b]
        = [[p EXCEPT !.multiword_tokens = a] EXCEPT !.last_multiword_token = b]
  OBVIOUS
<1>4. [p EXCEPT !.multiword_tokens = a, !.last_multiword_token = b] = r
  BY <1>1, <1>2, <1>3
<1> QED BY <1>4 DEF p, r

LEMMA TokenWritten ==
  ASSUME NEW s, Complete(s), NEW w, NEW k \in 0..Len(s.words), Written(w, s, k)
  PROVE  LET ts == NextToken(w, s, k)
             lines == w.lines \o [j \in DOMAIN ts |-> TokenLine(ts[j])]
             n == w.tokens + Len(ts) IN
         /\ Len(ts) \in Nat /\ n \in 0..Len(s.multiword_tokens)
         /\ n < Len(s.multiword_tokens) => s.multiword_tokens[n + 1].from >= k + 1
         /\ lines \in Seq(WrittenLines) /\ Reads(lines, Part(s, Position(k), n, w.nodes))
<1> DEFINE T == s.multiword_tokens
           tk == w.tokens
           P == Part(s, Position(k), tk, w.nodes)
<1>1. /\ tk \in 0..Len(T) /\ Len(T) \in Nat /\ Len(s.words) \in Nat
      /\ tk < Len(T) => T[tk + 1].from >= k
      /\ w.lines \in Seq(WrittenLines) /\ Reads(w.lines, P)
  BY CompleteFacts DEF Written
<1>2. tk < Len(T) => T[tk + 1] \in [from : Numbers, to : Numbers] /\ T[tk + 1].from \in Nat
                       /\ T[tk + 1].from >= 1 /\ T[tk + 1].to >= T[tk + 1].from
                       /\ T[tk + 1].to \in Nat
  <2>1. tk < Len(T) => tk + 1 \in 1..Len(T)
    BY <1>1
  <2> QED BY <2>1, CompleteFacts
<1>3. CASE tk < Len(T) /\ T[tk + 1].from = k
  <2> DEFINE t == T[tk + 1]
             l == TokenLine(t)
             more == <<l>>
             st == [j \in 0..1 |-> Part(s, Position(k), tk + j, w.nodes)]
  <2>1. NextToken(w, s, k) = <<t>>
    BY <1>3 DEF NextToken
  <2>2. [j \in DOMAIN <<t>> |-> TokenLine(<<t>>[j])] = more
    OBVIOUS
  <2>3. /\ l = [kind |-> "multiword", from |-> t.from, to |-> t.to] /\ l.kind = "multiword"
        /\ l.from = k /\ l.to = t.to /\ l # Blank /\ l \in WrittenLines
    BY <1>2, <1>3 DEF TokenLine, Blank, WrittenLines
  <2> HIDE DEF l
  <2>4. Len(P.words) = k - 1 /\ k >= 1
    <3>1. k >= 1 /\ Position(k) = k - 1
      BY <1>2, <1>3 DEF Position
    <3>2. s.words \in Seq(-1..MaxWords)
      BY CompleteFacts, Fields
    <3>3. SubSeq(s.words, 1, k - 1) \in Seq(-1..MaxWords) /\ Len(SubSeq(s.words, 1, k - 1)) = k - 1
      <4>1. \A i \in 1..k - 1 : s.words[i] \in -1..MaxWords
        <5>1. \A i \in 1..k - 1 : i \in 1..Len(s.words)
          BY <1>1
        <5> QED BY <5>1, CompleteFacts
      <4> QED BY <1>1, <3>1, <3>2, <4>1, SubSeqProperties
    <3> QED BY <3>1, <3>3 DEF Part
  <2>5. t.from > P.last_multiword_token
    <3>1. CASE tk = 0
      BY <1>2, <1>3, <3>1 DEF Part
    <3>2. CASE tk # 0
      <4>1. tk + 1 \in 1..Len(T) /\ tk + 1 > 1 /\ (tk + 1) - 1 = tk
        BY <1>1, <1>3, <3>2
      <4>2. T[tk].to < t.from /\ T[tk].to \in Nat
        BY <4>1, CompleteFacts
      <4> QED BY <1>2, <1>3, <3>2, <4>2 DEF Part
    <3> QED BY <3>1, <3>2
  <2>6. Fits(P, l)
    <3>1. MultiwordFits(P, l)
      BY <1>2, <1>3, <2>3, <2>4, <2>5 DEF MultiwordFits
    <3> QED BY <2>3, <3>1 DEF Fits
  <2>7. Taken(P, l) = Part(s, Position(k), tk + 1, w.nodes)
    <3>1. Taken(P, l) = [P EXCEPT !.multiword_tokens = Append(@, [from |-> l.from, to |-> l.to]),
                                  !.last_multiword_token = l.to]
      BY <2>3 DEF Taken
    <3>2. [from |-> l.from, to |-> l.to] = t
      BY <1>2, <1>3, <2>3
    <3>3. T \in Seq([from : Numbers, to : Numbers])
      BY CompleteFacts, Fields
    <3>4. SubSeq(T, 1, tk + 1) = Append(SubSeq(T, 1, tk), t)
      <4>1. tk \in Nat /\ tk < Len(T)
        BY <1>1, <1>3
      <4> QED BY <3>3, <4>1, SubSeqGrows
    <3>5. tk + 1 # 0
      BY <1>1
    <3>6. Taken(P, l) = [P EXCEPT !.multiword_tokens = SubSeq(T, 1, tk + 1),
                                  !.last_multiword_token = t.to]
      <4>1. Append(P.multiword_tokens, t) = SubSeq(T, 1, tk + 1)
        BY <3>4 DEF Part
      <4> HIDE DEF P, t, T
      <4> QED BY <2>3, <3>1, <3>2, <4>1
    <3>7. P = [words |-> SubSeq(s.words, 1, Position(k)), multiword_tokens |-> SubSeq(T, 1, tk),
               empty_nodes |-> SubSeq(s.empty_nodes, 1, w.nodes), comments |-> s.comments,
               last_multiword_token |-> IF tk = 0 THEN 0 ELSE T[tk].to]
      BY DEF Part
    <3>8. Taken(P, l) = [words |-> SubSeq(s.words, 1, Position(k)),
                         multiword_tokens |-> SubSeq(T, 1, tk + 1),
                         empty_nodes |-> SubSeq(s.empty_nodes, 1, w.nodes),
                         comments |-> s.comments, last_multiword_token |-> t.to]
      <4> HIDE DEF P, t, T
      <4> QED BY <3>6, <3>7, TwoFields
    <3> QED BY <3>5, <3>8 DEF Part
  <2>8. st[0] = P /\ st[1] = Part(s, Position(k), tk + 1, w.nodes)
    BY <1>1
  <2>9. more \in Seq(WrittenLines) /\ Len(more) = 1 /\ more[1] = l
    BY <2>3
  <2> HIDE DEF more, st, P
  <2>10. \A j \in 1..Len(more) : /\ more[j] # Blank /\ Fits(st[j - 1], more[j])
                                 /\ st[j] = Taken(st[j - 1], more[j])
    BY <2>3, <2>6, <2>7, <2>8, <2>9
  <2>11. w.lines \o more \in Seq(WrittenLines) /\ Reads(w.lines \o more, st[Len(more)])
    BY <1>1, <2>8, <2>9, <2>10, ReadsOn
  <2>12. tk + 1 \in 0..Len(T) /\ Len(<<t>>) = 1
    BY <1>1, <1>3
  <2>13. tk + 1 < Len(T) => T[(tk + 1) + 1].from >= k + 1
    <3> SUFFICES ASSUME tk + 1 < Len(T) PROVE T[(tk + 1) + 1].from >= k + 1
      OBVIOUS
    <3>1. (tk + 1) + 1 \in 1..Len(T) /\ (tk + 1) + 1 > 1 /\ ((tk + 1) + 1) - 1 = tk + 1
      BY <1>1
    <3>2. t.to < T[(tk + 1) + 1].from /\ T[(tk + 1) + 1].from \in Nat
      BY <3>1, CompleteFacts
    <3> QED BY <1>2, <1>3, <3>2
  <2> HIDE DEF t, T
  <2> QED BY <2>1, <2>2, <2>8, <2>9, <2>11, <2>12, <2>13 DEF T
<1>4. CASE ~(tk < Len(T) /\ T[tk + 1].from = k)
  <2>1. NextToken(w, s, k) = <<>>
    BY <1>4 DEF NextToken
  <2>2. [j \in DOMAIN <<>> |-> TokenLine(<<>>[j])] = <<>>
    OBVIOUS
  <2>3. w.lines \o <<>> = w.lines
    BY <1>1, ConcatEmptySeq
  <2>4. Len(<<>>) = 0 /\ tk + 0 = tk
    BY <1>1
  <2>5. tk < Len(T) => T[tk + 1].from >= k + 1
    BY <1>1, <1>2, <1>4
  <2> QED BY <1>1, <2>1, <2>2, <2>3, <2>4, <2>5
<1> QED BY <1>3, <1>4

LEMMA WordWritten ==
  ASSUME NEW s, Complete(s), NEW k \in 0..Len(s.words),
         NEW tk \in 0..Len(s.multiword_tokens), NEW nd \in 0..Len(s.empty_nodes),
         NEW lines \in Seq(WrittenLines), Reads(lines, Part(s, Position(k), tk, nd))
  PROVE  LET more == lines \o (IF k > 0 THEN <<WordLine(s, k)>> ELSE <<>>) IN
         more \in Seq(WrittenLines) /\ Reads(more, Part(s, k, tk, nd))
<1>1. CASE k = 0
  <2>1. lines \o <<>> = lines /\ Position(k) = k /\ ~(k > 0)
    BY <1>1, ConcatEmptySeq DEF Position
  <2> QED BY <2>1
<1>2. CASE k # 0
  <2> DEFINE l == WordLine(s, k)
             more == <<l>>
             P == Part(s, k - 1, tk, nd)
             st == [j \in 0..1 |-> Part(s, (k - 1) + j, tk, nd)]
  <2>1. /\ Position(k) = k - 1 /\ k > 0 /\ k \in Nat /\ k \in 1..Len(s.words)
        /\ s.words[k] \in -1..MaxWords /\ s.words \in Seq(-1..MaxWords)
    <3>1. k \in 1..Len(s.words) /\ k \in Nat
      BY <1>2, CompleteFacts
    <3> QED BY <1>2, <3>1, CompleteFacts, Fields DEF Position
  <2>2. /\ l.kind = "word" /\ l.id = k /\ l.head = s.words[k]
        /\ l # Blank /\ l \in WrittenLines
    BY <2>1 DEF WordLine, Blank, WrittenLines
  <2> HIDE DEF l
  <2>3. Len(P.words) = k - 1
    <3>1. \A i \in 1..k - 1 : s.words[i] \in -1..MaxWords
      BY <2>1, CompleteFacts
    <3>2. Len(SubSeq(s.words, 1, k - 1)) = k - 1
      BY <2>1, <3>1, SubSeqProperties
    <3> QED BY <3>2 DEF Part
  <2>4. Fits(P, l)
    <3>1. WordFits(P, l)
      BY <2>1, <2>2, <2>3 DEF WordFits
    <3> QED BY <2>2, <3>1 DEF Fits
  <2>5. Taken(P, l) = Part(s, k, tk, nd)
    <3>1. Taken(P, l) = [P EXCEPT !.words = Append(@, s.words[k])]
      BY <2>2 DEF Taken
    <3>2. SubSeq(s.words, 1, (k - 1) + 1) = Append(SubSeq(s.words, 1, k - 1), s.words[(k - 1) + 1])
      <4>1. k - 1 \in Nat /\ k - 1 < Len(s.words)
        BY <2>1, CompleteFacts
      <4> QED BY <2>1, <4>1, SubSeqGrows
    <3>3. (k - 1) + 1 = k
      BY <2>1
    <3> QED BY <3>1, <3>2, <3>3 DEF Part
  <2>6. st[0] = P /\ st[1] = Part(s, k, tk, nd)
    BY <2>1
  <2>7. more \in Seq(WrittenLines) /\ Len(more) = 1 /\ more[1] = l
    BY <2>2
  <2>8. Reads(lines, P)
    BY <2>1
  <2> HIDE DEF more, st, P
  <2>9. \A j \in 1..Len(more) : /\ more[j] # Blank /\ Fits(st[j - 1], more[j])
                                /\ st[j] = Taken(st[j - 1], more[j])
    BY <2>2, <2>4, <2>5, <2>6, <2>7
  <2>10. lines \o more \in Seq(WrittenLines) /\ Reads(lines \o more, st[Len(more)])
    BY <2>6, <2>7, <2>8, <2>9, ReadsOn
  <2> QED BY <2>1, <2>6, <2>7, <2>10 DEF more, l
<1> QED BY <1>1, <1>2

(* The node after the first a nodes, when it belongs to the last word.     *)
LEMMA NodeFits ==
  ASSUME NEW s, Complete(s), version >= 2, NEW k \in 0..Len(s.words), NEW tk,
         NEW E, E = s.empty_nodes, NEW a \in Nat, a < Len(E), E[a + 1].id = k
  PROVE  LET l == NodeLine(E[a + 1])
             P == Part(s, k, tk, a) IN
         l # Blank /\ l \in WrittenLines /\ Fits(P, l) /\ Taken(P, l) = Part(s, k, tk, a + 1)
<1> DEFINE before == SubSeq(E, 1, a)
           P == Part(s, k, tk, a)
           l == NodeLine(E[a + 1])
<1>1. /\ Len(E) \in Nat /\ E \in Seq([id : 0..MaxWords, index : Nat])
      /\ Len(s.words) \in Nat /\ s.words \in Seq(-1..MaxWords)
  BY CompleteFacts, Fields
<1>2. a + 1 \in 1..Len(E) /\ (a + 1) - 1 = a /\ (a # 0 => a \in 1..Len(E) /\ a + 1 > 1)
  BY <1>1
<1>3. PICK e : e = E[a + 1]
  OBVIOUS
<1>4. e \in [id : 0..MaxWords, index : Nat] /\ e.id = k /\ e.index \in Nat /\ k \in Nat
  BY <1>1, <1>2, <1>3, CompleteFacts
<1>5. /\ \/ e.index = 1 /\ (a # 0 => E[a].id < k)
         \/ a # 0 /\ E[a] = [id |-> k, index |-> e.index - 1]
      /\ a # 0 => E[a].id \in Nat
  <2>1. PICK b \in 1..Len(E) : b = a + 1 /\ E[b] = e
    BY <1>2, <1>3
  <2>2. \/ E[b].index = 1 /\ (b > 1 => E[b - 1].id < E[b].id)
        \/ b > 1 /\ E[b - 1] = [id |-> E[b].id, index |-> E[b].index - 1]
    BY CompleteFacts
  <2>3. b - 1 = a /\ (b > 1 <=> a # 0)
    BY <2>1
  <2>4. a # 0 => E[a].id \in Nat
    BY <1>2, CompleteFacts
  <2> QED BY <1>4, <2>1, <2>2, <2>3, <2>4
<1>6. /\ before \in Seq([id : 0..MaxWords, index : Nat]) /\ Len(before) = a
      /\ a # 0 => before[a] = E[a]
  <2>1. \A i \in 1..a : i \in 1..Len(E)
    BY <1>1
  <2>2. \A i \in 1..a : E[i] \in [id : 0..MaxWords, index : Nat]
    BY <2>1, CompleteFacts
  <2>3. /\ SubSeq(E, 1, a) \in Seq([id : 0..MaxWords, index : Nat])
        /\ Len(SubSeq(E, 1, a)) = IF 1 <= a THEN a - 1 + 1 ELSE 0
        /\ \A i \in 1..a - 1 + 1 : SubSeq(E, 1, a)[i] = E[1 + i - 1]
    BY <2>2, SubSeqProperties
  <2>4. Len(before) = a
    BY <2>3
  <2>5. a # 0 => a \in 1..a - 1 + 1 /\ 1 + a - 1 = a
    OBVIOUS
  <2>6. a # 0 => before[a] = E[a]
    BY <2>3, <2>5
  <2> QED BY <2>3, <2>4, <2>6
<1>7. Len(SubSeq(s.words, 1, k)) = k
  <2>1. \A i \in 1..k : i \in 1..Len(s.words)
    BY <1>1
  <2>2. \A i \in 1..k : s.words[i] \in -1..MaxWords
    BY <2>1, CompleteFacts
  <2> QED BY <1>4, <2>2, SubSeqProperties
<1> HIDE DEF before
<1>8. before # <<>> <=> a # 0
  BY <1>6, EmptySeq
<1>9. a # 0 => Last(before) = E[a]
  BY <1>6 DEF Last
<1>10. P.words = SubSeq(s.words, 1, k) /\ P.empty_nodes = before
  BY DEF Part, before
<1>11. /\ l = [kind |-> "empty node", id |-> k, index |-> e.index] /\ l.kind = "empty node"
       /\ l.id = k /\ l.index = e.index
  BY <1>3, <1>4 DEF NodeLine
<1>12. k \in 0..MaxWords
  BY <1>4
<1>13. l # Blank /\ l \in WrittenLines
  <2> HIDE DEF l
  <2>1. l \in [kind : {"empty node"}, id : 0..MaxWords, index : Nat]
    BY <1>4, <1>11, <1>12
  <2> QED BY <1>11, <2>1 DEF Blank, WrittenLines
<1> HIDE DEF l, P
<1>14. EmptyNodeFits(P, l)
  <2>1. CASE e.index = 1 /\ (a # 0 => E[a].id < k)
    <3>1. a # 0 => E[a].id # k
      BY <1>4, <1>5, <2>1
    <3>2. ~(before # <<>> /\ Last(before).id = k)
      BY <1>8, <1>9, <3>1
    <3> QED BY <1>7, <1>10, <1>11, <2>1, <3>2 DEF EmptyNodeFits
  <2>2. CASE a # 0 /\ E[a] = [id |-> k, index |-> e.index - 1]
    <3>1. before # <<>> /\ Last(before).id = k /\ Last(before).index = e.index - 1
      BY <1>8, <1>9, <2>2
    <3>2. e.index = Last(before).index + 1
      BY <1>4, <3>1
    <3> QED BY <1>7, <1>10, <1>11, <3>1, <3>2 DEF EmptyNodeFits
  <2> QED BY <1>5, <2>1, <2>2
<1>15. Fits(P, l)
  BY <1>11, <1>14 DEF Fits
<1>16. Taken(P, l) = Part(s, k, tk, a + 1)
  <2>1. Taken(P, l) = [P EXCEPT !.empty_nodes = Append(@, [id |-> k, index |-> e.index])]
    BY <1>11 DEF Taken
  <2>2. [id |-> k, index |-> e.index] = e
    BY <1>4
  <2>3. SubSeq(E, 1, a + 1) = Append(before, e)
    BY <1>1, <1>3, SubSeqGrows DEF before
  <2>4. Taken(P, l) = [P EXCEPT !.empty_nodes = SubSeq(E, 1, a + 1)]
    BY <1>10, <2>1, <2>2, <2>3
  <2> QED BY <2>4 DEF P, Part
<1> QED BY <1>13, <1>15, <1>16 DEF P, l

LEMMA NodesWritten ==
  ASSUME NEW s, Complete(s), NEW w, NEW k \in 0..Len(s.words),
         NEW tk, NEW E, E = s.empty_nodes, NEW L \in Nat, L = Len(E),
         NEW nd \in 0..L, w.nodes = nd, nd < L => E[nd + 1].id >= k,
         NEW lines \in Seq(WrittenLines), Reads(lines, Part(s, k, tk, nd))
  PROVE  LET ns == NextNodes(w, s, k)
             more == lines \o [j \in DOMAIN ns |-> NodeLine(ns[j])]
             n == nd + Len(ns) IN
         /\ Len(ns) \in Nat /\ n \in 0..L /\ (n < L => E[n + 1].id >= k + 1)
         /\ more \in Seq(WrittenLines) /\ Reads(more, Part(s, k, tk, n))
<1>1. /\ E \in Seq([id : 0..MaxWords, index : Nat]) /\ k \in Nat
      /\ \A i \in 1..L :
           /\ E[i] \in [id : 0..MaxWords, index : Nat] /\ E[i].id \in Nat
           /\ \/ (i > 1 => E[i - 1].id < E[i].id)
              \/ E[i - 1] = [id |-> E[i].id, index |-> E[i].index - 1]
  <2>1. Len(s.words) \in Nat
    BY CompleteFacts
  <2>2. k \in Nat
    BY <2>1
  <2> QED BY <2>2, CompleteFacts, Fields
<1>2. CASE version >= 2
  <2>1. PICK m : m = RunEnd(E, nd, k)
    OBVIOUS
  <2>2. /\ m \in nd .. L /\ (\A i \in nd + 1 .. m : E[i].id = k)
        /\ (m < L => E[m + 1].id # k)
    BY <2>1, RunEnds
  <2>3. PICK d \in Nat : d = m - nd
    BY <2>2
  <2>4. /\ m = nd + d /\ m \in 0..L
        /\ \A j \in 1..d : nd + j \in nd + 1 .. m /\ nd + j \in 1..L
    BY <2>2, <2>3
  <2> DEFINE ns == SubSeq(E, nd + 1, m)
             more == [j \in 1..d |-> NodeLine(E[nd + j])]
             st == [j \in 0..d |-> Part(s, k, tk, nd + j)]
  <2>5. NextNodes(w, s, k) = ns
    BY <1>2, <2>1 DEF NextNodes, RunEnd
  <2>6. Len(ns) = d /\ DOMAIN ns = 1..d /\ \A j \in 1..d : ns[j] = E[nd + j]
    <3>1. \A i \in nd + 1 .. m : i \in 1..L
      BY <2>2
    <3>2. \A i \in nd + 1 .. m : E[i] \in [id : 0..MaxWords, index : Nat]
      BY <1>1, <3>1
    <3>3. /\ ns \in Seq([id : 0..MaxWords, index : Nat])
          /\ Len(ns) = IF nd + 1 <= m THEN m - (nd + 1) + 1 ELSE 0
          /\ \A i \in 1..m - (nd + 1) + 1 : ns[i] = E[(nd + 1) + i - 1]
      BY <2>2, <3>2, SubSeqProperties
    <3> HIDE DEF ns
    <3>4. Len(ns) = d
      BY <2>2, <2>3, <3>3
    <3>5. \A j \in 1..d : j \in 1..m - (nd + 1) + 1 /\ (nd + 1) + j - 1 = nd + j
      BY <2>4
    <3>6. \A j \in 1..d : ns[j] = E[nd + j]
      BY <3>3, <3>5
    <3>7. DOMAIN ns = 1..d
      BY <3>3, <3>4, LenProperties
    <3> QED BY <3>4, <3>6, <3>7
  <2> HIDE DEF ns
  <2>7. [j \in DOMAIN ns |-> NodeLine(ns[j])] = more
    BY <2>6
  <2>8. ASSUME NEW j \in 1..d
        PROVE  /\ more[j] # Blank /\ more[j] \in WrittenLines /\ Fits(st[j - 1], more[j])
               /\ st[j] = Taken(st[j - 1], more[j])
    <3>1. PICK a \in Nat : a = nd + (j - 1)
      BY <2>4
    <3>2. a + 1 = nd + j /\ a < L /\ E[a + 1].id = k
      <4>1. a + 1 = nd + j /\ nd + j \in 1..L
        BY <2>4, <3>1
      <4>2. E[nd + j].id = k
        BY <2>2, <2>4
      <4> QED BY <4>1, <4>2
    <3>3. st[j - 1] = Part(s, k, tk, a) /\ st[j] = Part(s, k, tk, a + 1)
      <4>1. j - 1 \in 0..d /\ j \in 0..d
        OBVIOUS
      <4> QED BY <3>1, <3>2, <4>1
    <3>4. more[j] = NodeLine(E[a + 1])
      BY <3>2
    <3> HIDE DEF st, more
    <3>5. PICK l : l = NodeLine(E[a + 1])
      OBVIOUS
    <3>6. a < Len(E)
      BY <3>2
    <3>7. /\ l # Blank /\ l \in WrittenLines /\ Fits(Part(s, k, tk, a), l)
          /\ Taken(Part(s, k, tk, a), l) = Part(s, k, tk, a + 1)
      BY <1>2, <3>2, <3>5, <3>6, NodeFits
    <3> QED BY <3>3, <3>4, <3>5, <3>7
  <2>9. more \in Seq(WrittenLines) /\ Len(more) = d
    <3>1. \A j \in 1..d : more[j] \in WrittenLines
      BY <2>8
    <3>2. more = [j \in 1..d |-> more[j]]
      OBVIOUS
    <3> HIDE DEF more
    <3>3. more \in [1..d -> WrittenLines]
      BY <3>1, <3>2
    <3> QED BY <3>3
  <2>10. st[0] = Part(s, k, tk, nd) /\ st[d] = Part(s, k, tk, m)
    <3>1. 0 \in 0..d /\ d \in 0..d /\ nd + 0 = nd
      BY <2>3
    <3> QED BY <2>4, <3>1
  <2> HIDE DEF more, st
  <2>11. lines \o more \in Seq(WrittenLines) /\ Reads(lines \o more, st[d])
    BY <2>8, <2>9, <2>10, ReadsOn
  <2>12. m < L => E[m + 1].id >= k + 1
    <3> SUFFICES ASSUME m < L PROVE E[m + 1].id >= k + 1
      OBVIOUS
    <3>1. m \in Nat /\ m + 1 \in 1..L /\ (m + 1) - 1 = m
      BY <2>4
    <3>2. PICK x \in Nat : x = E[m + 1].id
      BY <1>1, <3>1
    <3>3. x # k
      BY <2>2, <3>2
    <3>4. CASE m = nd
      <4>1. x >= k
        BY <3>2, <3>4
      <4> QED BY <1>1, <3>2, <3>3, <4>1
    <3>5. CASE m # nd
      <4>1. m \in nd + 1 .. m /\ m + 1 > 1
        BY <2>2, <2>4, <3>5
      <4>2. E[m].id = k
        BY <2>2, <4>1
      <4>3. E[m].id < x \/ E[m] = [id |-> x, index |-> E[m + 1].index - 1]
        BY <1>1, <3>1, <3>2, <4>1
      <4>4. k < x
        BY <3>3, <4>2, <4>3
      <4> QED BY <1>1, <3>2, <4>4
    <3> QED BY <3>4, <3>5
  <2> QED BY <2>4, <2>5, <2>6, <2>7, <2>10, <2>11, <2>12
<1>3. CASE ~(version >= 2)
  <2>1. NextNodes(w, s, k) = <<>>
    BY <1>3 DEF NextNodes
  <2>2. [j \in DOMAIN <<>> |-> NodeLine(<<>>[j])] = <<>> /\ lines \o <<>> = lines
    BY ConcatEmptySeq
  <2>3. E = <<>>
    BY <1>3 DEF Complete
  <2>4. Len(<<>>) = 0
    OBVIOUS
  <2>5. L = 0 /\ nd = 0
    BY <2>3, <2>4
  <2>6. nd + Len(<<>>) = 0
    BY <2>4, <2>5
  <2> QED BY <2>1, <2>2, <2>4, <2>5, <2>6
<1> QED BY <1>2, <1>3

(* The comments come first.                                                *)
LEMMA StartWritten ==
  ASSUME NEW s, Complete(s)
  PROVE  Written(Start(s), s, 0)
<1> DEFINE T == s.multiword_tokens
           E == s.empty_nodes
           comment == [kind |-> "comment"]
<1>1. PICK c \in Nat : c = s.comments
  BY CompleteFacts, Fields
<1> DEFINE more == [i \in 1..c |-> comment]
           part(j) == [words |-> <<>>, multiword_tokens |-> <<>>, empty_nodes |-> <<>>,
                       comments |-> j, last_multiword_token |-> 0]
           st == [j \in 0..c |-> part(j)]
<1>2. comment # Blank /\ comment \in WrittenLines /\ comment.kind = "comment"
  BY DEF Blank, WrittenLines
<1> HIDE DEF comment
<1>3. more \in Seq(WrittenLines) /\ Len(more) = c /\ \A j \in 1..c : more[j] = comment
  BY <1>2
<1>4. Start(s).lines = more /\ Start(s).tokens = 0 /\ Start(s).nodes = 0
  BY <1>1 DEF Start, comment
<1>5. ASSUME NEW j \in 1..c
      PROVE  /\ more[j] # Blank /\ Fits(st[j - 1], more[j])
             /\ st[j] = Taken(st[j - 1], more[j])
  <2>1. st[j - 1] = part(j - 1) /\ st[j] = part(j)
    BY <1>1
  <2>2. Fits(part(j - 1), comment)
    BY <1>2 DEF Fits
  <2>3. Taken(part(j - 1), comment) = [part(j - 1) EXCEPT !.comments = (j - 1) + 1]
    BY <1>2 DEF Taken
  <2>4. [part(j - 1) EXCEPT !.comments = (j - 1) + 1] = part((j - 1) + 1)
    OBVIOUS
  <2>5. (j - 1) + 1 = j
    BY <1>1
  <2> HIDE DEF part, st
  <2> QED BY <1>2, <1>3, <2>1, <2>2, <2>3, <2>4, <2>5
<1>6. st[0] = Clear /\ st[c] = part(c)
  <2>1. 0 \in 0..c /\ c \in 0..c
    BY <1>1
  <2> QED BY <2>1 DEF Clear
<1>7. Reads(<<>>, st[0]) /\ <<>> \in Seq(WrittenLines)
  <2>1. Reads(<<>>, Clear)
    BY ReadNoLine DEF Reads
  <2> QED BY <1>6, <2>1, EmptySeq
<1>8. part(c) = Part(s, Position(0), 0, 0)
  <2>1. \A seq : SubSeq(seq, 1, 0) = <<>>
    BY SubSeqEmpty
  <2> QED BY <1>1, <2>1 DEF Part, Position
<1> HIDE DEF more, st, part
<1>9. Reads(<<>> \o more, st[c])
  BY <1>3, <1>5, <1>7, ReadsOn
<1>10. <<>> \o more = more
  BY <1>3, ConcatEmptySeq
<1>11. Len(T) \in Nat /\ Len(E) \in Nat
  BY CompleteFacts
<1>12. 0 < Len(T) => T[0 + 1].from >= 0
  <2>1. 0 < Len(T) => 0 + 1 \in 1..Len(T)
    BY <1>11
  <2>2. 0 < Len(T) => T[0 + 1].from \in Nat
    BY <2>1, CompleteFacts
  <2> QED BY <2>2
<1>13. 0 < Len(E) => E[0 + 1].id >= 0
  <2>1. 0 < Len(E) => 0 + 1 \in 1..Len(E)
    BY <1>11
  <2>2. 0 < Len(E) => E[0 + 1].id \in Nat
    BY <2>1, CompleteFacts
  <2> QED BY <2>2
<1>14. 0 \in 0..Len(T) /\ 0 \in 0..Len(E)
  BY <1>11
<1>15. Reads(more, Part(s, Position(0), 0, 0))
  BY <1>6, <1>8, <1>9, <1>10
<1> QED BY <1>3, <1>4, <1>12, <1>13, <1>14, <1>15 DEF Written

(* A word is written with the token before it and the nodes after it.      *)
LEMMA StepWritten ==
  ASSUME NEW s, Complete(s), NEW w, NEW k \in 0..Len(s.words), Written(w, s, k)
  PROVE  Written(WriteNode(w, s, k), s, k + 1)
<1> DEFINE ts == NextToken(w, s, k)
           ns == NextNodes(w, s, k)
           n == w.tokens + Len(ts)
           m == w.nodes + Len(ns)
           lines1 == w.lines \o [j \in DOMAIN ts |-> TokenLine(ts[j])]
           lines2 == lines1 \o (IF k > 0 THEN <<WordLine(s, k)>> ELSE <<>>)
           lines3 == lines2 \o [j \in DOMAIN ns |-> NodeLine(ns[j])]
<1>1. /\ Len(ts) \in Nat /\ n \in 0..Len(s.multiword_tokens)
      /\ n < Len(s.multiword_tokens) => s.multiword_tokens[n + 1].from >= k + 1
      /\ lines1 \in Seq(WrittenLines) /\ Reads(lines1, Part(s, Position(k), n, w.nodes))
  BY TokenWritten
<1>2. w.nodes \in 0..Len(s.empty_nodes)
      /\ (w.nodes < Len(s.empty_nodes) => s.empty_nodes[w.nodes + 1].id >= k)
  BY DEF Written
<1>3. lines2 \in Seq(WrittenLines) /\ Reads(lines2, Part(s, k, n, w.nodes))
  <2> HIDE DEF lines1, n
  <2> QED BY <1>1, <1>2, WordWritten
<1>4. Len(s.empty_nodes) \in Nat /\ Len(s.words) \in Nat
  BY CompleteFacts
<1> DEFINE E == s.empty_nodes
<1>5. PICK L \in Nat : L = Len(E)
  BY <1>4
<1>6. PICK nd \in 0..L : nd = w.nodes
  BY <1>2, <1>5
<1>7. /\ Len(ns) \in Nat /\ m \in 0..L /\ (m < L => E[m + 1].id >= k + 1)
      /\ lines3 \in Seq(WrittenLines) /\ Reads(lines3, Part(s, k, n, m))
  <2>1. nd < L => E[nd + 1].id >= k
    BY <1>2, <1>5, <1>6
  <2>2. Reads(lines2, Part(s, k, n, nd))
    BY <1>3, <1>6
  <2> DEFINE ns2 == NextNodes(w, s, k)
             m2 == nd + Len(ns2)
             more == lines2 \o [j \in DOMAIN ns2 |-> NodeLine(ns2[j])]
  <2>3. /\ Len(ns2) \in Nat /\ m2 \in 0..L /\ (m2 < L => E[m2 + 1].id >= k + 1)
        /\ more \in Seq(WrittenLines) /\ Reads(more, Part(s, k, n, m2))
    <3> HIDE DEF lines2, n
    <3> QED BY <1>3, <1>5, <1>6, <2>1, <2>2, NodesWritten
  <2> QED BY <1>6, <2>3
<1>8. WriteNode(w, s, k) = [lines |-> lines3, tokens |-> n, nodes |-> m]
  BY DEF WriteNode
<1>9. Position(k + 1) = k
  BY <1>4 DEF Position
<1> HIDE DEF lines3, n, m
<1>10. /\ WriteNode(w, s, k).lines = lines3 /\ WriteNode(w, s, k).tokens = n
       /\ WriteNode(w, s, k).nodes = m
  BY <1>8
<1> QED BY <1>1, <1>5, <1>7, <1>9, <1>10 DEF Written

LEMMA AllWritten ==
  ASSUME NEW s, Complete(s), NEW n \in Nat, n = Len(s.words)
  PROVE  Written(WriterOf(s)[n + 1], s, n + 1)
<1> DEFINE bad == {k \in 0..n + 1 : ~Written(WriterOf(s)[k], s, k)}
<1>1. bad = {}
  <2> SUFFICES ASSUME bad # {} PROVE FALSE
    OBVIOUS
  <2>1. bad \in SUBSET Nat
    OBVIOUS
  <2>2. PICK k \in bad : \A y \in bad : k <= y
    <3> HIDE DEF bad
    <3> QED BY <2>1, LeastNat
  <2>3. k \in 0..n + 1 /\ ~Written(WriterOf(s)[k], s, k)
    BY <2>2
  <2>4. CASE k = 0
    BY <2>3, <2>4, StartWritten, WriterFacts
  <2>5. CASE k # 0
    <3>1. k - 1 \in 0..n + 1 /\ k - 1 \in 0..n /\ k \in 1..n + 1 /\ (k - 1) + 1 = k
      BY <2>3, <2>5
    <3>2. k - 1 \notin bad
      BY <2>2, <3>1
    <3>3. Written(WriterOf(s)[k - 1], s, k - 1)
      BY <3>1, <3>2
    <3>4. Written(WriteNode(WriterOf(s)[k - 1], s, k - 1), s, (k - 1) + 1)
      BY <3>1, <3>3, StepWritten
    <3>5. WriterOf(s)[k] = WriteNode(WriterOf(s)[k - 1], s, k - 1)
      BY <3>1, WriterFacts
    <3> QED BY <2>3, <3>1, <3>4, <3>5
  <2> QED BY <2>4, <2>5
<1>2. n + 1 \in 0..n + 1
  OBVIOUS
<1> QED BY <1>1, <1>2

(* Of a complete sentence everything is written.                           *)
LEMMA WholePart ==
  ASSUME NEW s, Complete(s), NEW n \in Nat, n = Len(s.words), NEW w, Written(w, s, n + 1)
  PROVE  \E last \in Nat :
           /\ last <= n
           /\ Reads(w.lines, [words |-> s.words, multiword_tokens |-> s.multiword_tokens,
                              empty_nodes |-> s.empty_nodes, comments |-> s.comments,
                              last_multiword_token |-> last])
<1> DEFINE T == s.multiword_tokens
           E == s.empty_nodes
<1>1. Len(T) \in Nat /\ Len(E) \in Nat
  BY CompleteFacts
<1>2. PICK tk \in 0..Len(T), nd \in 0..Len(E) : tk = w.tokens /\ nd = w.nodes
  BY DEF Written
<1>3. /\ tk < Len(T) => T[tk + 1].from >= n + 1
      /\ nd < Len(E) => E[nd + 1].id >= n + 1
      /\ Reads(w.lines, Part(s, Position(n + 1), tk, nd))
  BY <1>2 DEF Written
<1>4. tk = Len(T)
  <2> SUFFICES ASSUME tk < Len(T) PROVE FALSE
    BY <1>1
  <2>1. tk + 1 \in 1..Len(T)
    BY <1>1
  <2>2. PICK t : t = T[tk + 1]
    OBVIOUS
  <2>3. t.from \in Nat /\ t.to \in Nat /\ t.from <= t.to /\ t.to <= n
    BY <2>1, <2>2, CompleteFacts
  <2> QED BY <1>3, <2>2, <2>3
<1>5. nd = Len(E)
  <2> SUFFICES ASSUME nd < Len(E) PROVE FALSE
    BY <1>1
  <2>1. nd + 1 \in 1..Len(E)
    BY <1>1
  <2>2. PICK e : e = E[nd + 1]
    OBVIOUS
  <2>3. e.id \in Nat /\ e.id <= n
    BY <2>1, <2>2, CompleteFacts
  <2> QED BY <1>3, <2>2, <2>3
<1>6. Position(n + 1) = n
  BY DEF Position
<1>7. /\ SubSeq(s.words, 1, n) = s.words /\ SubSeq(T, 1, tk) = T /\ SubSeq(E, 1, nd) = E
  <2>1. /\ s.words \in Seq(-1..MaxWords) /\ T \in Seq([from : Numbers, to : Numbers])
        /\ E \in Seq([id : 0..MaxWords, index : Nat])
    BY CompleteFacts, Fields
  <2> QED BY <1>4, <1>5, <2>1, SubSeqFull
<1>8. PICK last : last = IF tk = 0 THEN 0 ELSE T[tk].to
  OBVIOUS
<1>9. last \in Nat /\ last <= n
  <2>1. CASE tk = 0
    BY <1>8, <2>1
  <2>2. CASE tk # 0
    <3>1. tk \in 1..Len(T)
      BY <1>1, <2>2
    <3>2. T[tk].to \in Nat /\ T[tk].to <= n
      BY <3>1, CompleteFacts
    <3> QED BY <1>8, <2>2, <3>2
  <2> QED BY <2>1, <2>2
<1>10. Part(s, n, tk, nd) = [words |-> s.words, multiword_tokens |-> T, empty_nodes |-> E,
                             comments |-> s.comments, last_multiword_token |-> last]
  BY <1>7, <1>8 DEF Part
<1> QED BY <1>3, <1>6, <1>9, <1>10

(* The last number of a token is forgotten; it is not written.             *)
LEMMA WriteForgets ==
  ASSUME NEW s \in Sentences
  PROVE  write_sentence([s EXCEPT !.last_multiword_token = 0]) = write_sentence(s)
<1> DEFINE r == [s EXCEPT !.last_multiword_token = 0]
<1>1. /\ r.words = s.words /\ r.multiword_tokens = s.multiword_tokens
      /\ r.empty_nodes = s.empty_nodes /\ r.comments = s.comments
  BY DEF Sentences
<1> HIDE DEF r
<1>2. \A w, i : WriteNode(w, r, i) = WriteNode(w, s, i)
  BY <1>1 DEF WriteNode, NextToken, NextNodes, WordLine
<1>3. \A g, k : Writer(r, g, k) = Writer(s, g, k)
  BY <1>1, <1>2 DEF Writer, Start
<1>4. WriterOf(r) = WriterOf(s)
  BY <1>1, <1>3 DEF WriterOf
<1>5. PICK n \in Nat : n = Len(s.words)
  BY Fields
<1>6. write_sentence(s) = Append(WriterOf(s)[n + 1].lines, Blank)
  BY <1>5, WriterFacts
<1>7. write_sentence(r) = Append(WriterOf(r)[n + 1].lines, Blank)
  BY <1>1, <1>5, WriterFacts
<1>8. write_sentence(r) = write_sentence(s)
  BY <1>4, <1>6, <1>7
<1> QED BY <1>8 DEF r

LEMMA ReadsBack ==
  ASSUME NEW s, Complete(s)
  PROVE  /\ Returned(s).is = "sentence"
         /\ ReadBack(write_sentence(Returned(s).sentence)) = Returned(s)
<1>1. PICK n \in Nat : n = Len(s.words)
  BY CompleteFacts
<1>2. /\ s \in Sentences /\ s.words # <<>> /\ CompleteWords(s)
  BY DEF Complete, SentenceOK
<1> DEFINE w == WriterOf(s)[n + 1]
           p(x) == [words |-> s.words, multiword_tokens |-> s.multiword_tokens,
                    empty_nodes |-> s.empty_nodes, comments |-> s.comments,
                    last_multiword_token |-> x]
<1>3. Written(w, s, n + 1)
  BY <1>1, AllWritten
<1>4. write_sentence(s) = Append(w.lines, Blank)
  BY <1>1, WriterFacts
<1> HIDE DEF w
<1>5. PICK last \in Nat : last <= n /\ Reads(w.lines, p(last))
  BY <1>1, <1>3, WholePart
<1>6. w.lines \in Seq(WrittenLines)
  BY <1>3 DEF Written
<1>7. ReadLines(Append(w.lines, Blank)) = ReadOne(ReadLines(w.lines), Blank)
  <2> DEFINE S == WrittenLines \cup {Blank}
  <2>1. w.lines \in Seq(S) /\ Blank \in S
    <3>1. WrittenLines \subseteq S /\ Blank \in S
      OBVIOUS
    <3> HIDE DEF S
    <3> QED BY <1>6, <3>1
  <2> HIDE DEF S
  <2> QED BY <2>1, ReadOneLine
<1>8. p(last).words = s.words /\ p(last).last_multiword_token = last
  OBVIOUS
<1>9. s = p(s.last_multiword_token)
  BY <1>2 DEF Sentences
<1>10. \A x : [p(x) EXCEPT !.last_multiword_token = 0] = p(0)
  OBVIOUS
<1>11. [s EXCEPT !.last_multiword_token = 0] = p(0)
  <2> HIDE DEF p
  <2> QED BY <1>9, <1>10
<1> HIDE DEF p
<1>12. ReadOne(ReadLines(w.lines), Blank) = Read(p(last), Blank, FALSE)
  BY <1>5 DEF Reads, ReadOne
<1>13. Read(p(last), Blank, FALSE).out = Returned(p(last))
  BY <1>2, <1>8 DEF Read
<1>14. CompleteWords(p(last))
  BY <1>1, <1>2, <1>5, <1>8 DEF CompleteWords
<1>15. Children(p(last)) = Children(s)
  BY <1>8 DEF Children
<1>16. Returned(p(last)) = [is |-> "sentence", sentence |-> p(0), children |-> Children(s)]
  BY <1>2, <1>8, <1>10, <1>14, <1>15 DEF Returned
<1>17. Returned(s) = [is |-> "sentence", sentence |-> p(0), children |-> Children(s)]
  BY <1>2, <1>11 DEF Returned
<1>18. Returned(s).is = "sentence" /\ Returned(s).sentence = [s EXCEPT !.last_multiword_token = 0]
  BY <1>11, <1>17
<1>19. ReadBack(write_sentence(s)) = Returned(s)
  BY <1>4, <1>7, <1>12, <1>13, <1>16, <1>17 DEF ReadBack
<1> QED BY <1>2, <1>18, <1>19, WriteForgets

(* The invariant for writing: what was returned came from a complete       *)
(* sentence, and only version 2 has empty nodes.                           *)
Versioned(s) == version >= 2 \/ s.empty_nodes = <<>>

CompleteInv ==
  /\ Versioned(whole) /\ Versioned(block)
  /\ \A o \in Delivered : \E s \in Sentences : Complete(s) /\ o = Returned(s)

LEMMA TakenVersioned ==
  ASSUME NEW s \in Sentences, Versioned(s), NEW l \in Line, l # Blank, Fits(s, l)
  PROVE  Versioned(Taken(s, l))
<1>1. CASE version >= 2
  BY <1>1 DEF Versioned
<1>2. CASE ~(version >= 2)
  <2>1. s.empty_nodes = <<>>
    BY <1>2 DEF Versioned
  <2>2. l.kind # "empty node" /\ l.kind # "bad"
    BY <1>2 DEF Fits, EmptyNodeFits
  <2>3. l.kind \in {"comment", "multiword", "word"}
    <3>1. CASE l = [kind |-> "comment"] \/ l = [kind |-> "bad"]
      <4>1. l.kind = "comment" \/ l.kind = "bad"
        BY <3>1
      <4> QED BY <2>2, <4>1
    <3>2. CASE ~(l = [kind |-> "comment"] \/ l = [kind |-> "bad"])
      BY <2>2, <3>2 DEF Line
    <3> QED BY <3>1, <3>2
  <2>4. Taken(s, l).empty_nodes = s.empty_nodes
    <3>1. CASE l.kind = "comment"
      BY <3>1 DEF Taken, Sentences
    <3>2. CASE l.kind = "multiword"
      BY <3>2 DEF Taken, Sentences
    <3>3. CASE l.kind = "word"
      BY <3>3 DEF Taken, Sentences
    <3> QED BY <2>3, <3>1, <3>2, <3>3
  <2> QED BY <2>1, <2>4 DEF Versioned
<1> QED BY <1>1, <1>2

LEMMA ReturnedComplete ==
  ASSUME NEW s, SentenceOK(s), Versioned(s), Returned(s).is = "sentence"
  PROVE  s \in Sentences /\ Complete(s)
<1>1. CompleteWords(s) /\ s.words # <<>>
  BY DEF Returned, Error, More
<1> QED BY <1>1 DEF Complete, SentenceOK, Versioned

LEMMA ReadComplete ==
  ASSUME NEW s, SentenceOK(s), Versioned(s), NEW l \in Line, NEW ends \in BOOLEAN
  PROVE  /\ Versioned(Read(s, l, ends).next)
         /\ Read(s, l, ends).out.is = "sentence" =>
              \E t \in Sentences : Complete(t) /\ Read(s, l, ends).out = Returned(t)
<1> DEFINE Stay(t) == IF ends THEN [next |-> Clear, out |-> Returned(t)]
                      ELSE [next |-> t, out |-> More]
           Good(r) == /\ Versioned(r.next)
                      /\ r.out.is = "sentence" =>
                           \E t \in Sentences : Complete(t) /\ r.out = Returned(t)
<1>1. Versioned(Clear)
  BY DEF Versioned, Clear
<1>2. ASSUME NEW t, SentenceOK(t), Versioned(t)
      PROVE  Good([next |-> Clear, out |-> Returned(t)])
  <2>1. Returned(t).is = "sentence" => t \in Sentences /\ Complete(t)
    BY <1>2, ReturnedComplete
  <2> QED BY <1>1, <2>1
<1>3. ASSUME NEW t, SentenceOK(t), Versioned(t)
      PROVE  Good(Stay(t))
  <2>1. CASE ends
    BY <1>2, <1>3, <2>1
  <2>2. CASE ~ends
    BY <1>3, <2>2 DEF More
  <2> QED BY <2>1, <2>2
<1>4. CASE l = Blank /\ s.words = <<>>
  <2>1. Read(s, l, ends) = Stay(s)
    BY <1>4 DEF Read
  <2> HIDE DEF Stay
  <2> QED BY <1>3, <2>1
<1>5. CASE l = Blank /\ s.words # <<>>
  <2>1. Read(s, l, ends) = [next |-> Clear, out |-> Returned(s)]
    BY <1>5 DEF Read
  <2>2. Good(Read(s, l, ends))
    <3> HIDE DEF Good
    <3> QED BY <1>2, <2>1
  <2> QED BY <2>2
<1>6. CASE l # Blank /\ Fits(s, l)
  <2>1. Read(s, l, ends) = Stay(Taken(s, l))
    BY <1>6 DEF Read
  <2>2. SentenceOK(Taken(s, l)) /\ Versioned(Taken(s, l))
    BY <1>6, TakenKeeps, TakenVersioned DEF SentenceOK
  <2> HIDE DEF Stay
  <2> QED BY <1>3, <2>1, <2>2
<1>7. CASE l # Blank /\ ~Fits(s, l)
  <2>1. Read(s, l, ends) = [next |-> Clear, out |-> Error]
    BY <1>7 DEF Read
  <2> QED BY <1>1, <2>1 DEF Error
<1> QED BY <1>4, <1>5, <1>6, <1>7

LEMMA CompleteKept ==
  ASSUME ReaderInv, CompleteInv, version' = version,
         NEW l \in Line, NEW ends \in BOOLEAN, NEW ends_block \in BOOLEAN,
         Both(l, ends, ends_block)
  PROVE  CompleteInv'
<1> DEFINE w == Read(whole, l, ends)
           b == Read(block, l, ends_block)
<1>1. /\ whole' = w.next /\ block' = b.next
      /\ out' = [whole |-> w.out, block |-> b.out]
  BY DEF Both
<1>2. /\ Versioned(w.next)
      /\ w.out.is = "sentence" => \E s \in Sentences : Complete(s) /\ w.out = Returned(s)
  BY ReadComplete DEF ReaderInv, CompleteInv
<1>3. /\ Versioned(b.next)
      /\ b.out.is = "sentence" => \E s \in Sentences : Complete(s) /\ b.out = Returned(s)
  BY ReadComplete DEF ReaderInv, CompleteInv
<1> HIDE DEF w, b
<1>4. out'.whole = w.out /\ out'.block = b.out
  BY <1>1
<1>5. \A s : Complete(s) => Complete(s)'
  BY DEF Complete
<1>6. Versioned(whole)' /\ Versioned(block)'
  BY <1>1, <1>2, <1>3 DEF Versioned
<1>7. \A o \in Delivered' : \E s \in Sentences : Complete(s) /\ o = Returned(s)
  BY <1>2, <1>3, <1>4 DEF Delivered
<1>8. \A o \in Delivered' : \E s \in Sentences : Complete(s)' /\ o = Returned(s)
  BY <1>5, <1>7
<1> QED BY <1>6, <1>8 DEF CompleteInv

-----------------------------------------------------------------------------
(* The theorems.                                                           *)

(* Both readers keep a sentence in progress sound, line after line.        *)
THEOREM ReaderInvariance == Spec => []ReaderInv
<1>1. Init => ReaderInv
  <2> SUFFICES ASSUME Init PROVE ReaderInv
    OBVIOUS
  <2>1. SentenceOK(whole) /\ SentenceOK(block)
    BY ClearFacts DEF Init
  <2>2. out.whole = More /\ out.block = More
    BY DEF Init
  <2>3. ReturnsWellFormed
    BY <2>2 DEF ReturnsWellFormed, Delivered, More
  <2> QED BY <2>1, <2>2, <2>3 DEF Init, ReaderInv, InStep
<1>2. ReaderInv /\ [Next]_vars => ReaderInv'
  <2> SUFFICES ASSUME ReaderInv, [Next]_vars PROVE ReaderInv'
    OBVIOUS
  <2>1. CASE ReadLine
    <3>1. PICK l \in Line, ending \in Endings : Both(l, FALSE, EndsBlock(l, ending))
      BY <2>1 DEF ReadLine
    <3>2. EndsBlock(l, ending) \in BOOLEAN /\ (EndsBlock(l, ending) => l = Blank)
      BY DEF EndsBlock
    <3> QED BY <3>1, <3>2, BothKeep
  <2>2. CASE ReadLast
    <3>1. PICK l \in Line : Both(l, TRUE, TRUE)
      BY <2>2 DEF ReadLast
    <3> QED BY <3>1, BothKeep
  <2>3. CASE UNCHANGED vars
    <3>1. SentenceOK(whole)' /\ SentenceOK(block)' /\ InStep'
      BY <2>3 DEF vars, ReaderInv, SentenceOK, TokensOK, NodesOK, InStep
    <3>2. ReturnsWellFormed'
      BY <2>3 DEF vars, ReaderInv, ReturnsWellFormed, Delivered
    <3> QED BY <3>1, <3>2 DEF ReaderInv
  <2> QED BY <2>1, <2>2, <2>3 DEF Next
<1> QED BY <1>1, <1>2, PTL DEF Spec

(* next_sentence of the CoNLL-U reader returns sentences whose multi-word  *)
(* tokens do not overlap and are complete, whose empty nodes are numbered  *)
(* from 1, whose heads exist and whose lists of children repeat them.      *)
THEOREM ReturnsWellFormedHolds == Spec => []ReturnsWellFormed
<1>1. ReaderInv => ReturnsWellFormed
  BY DEF ReaderInv
<1> QED BY <1>1, ReaderInvariance, PTL

(* read_block and getpara cut a text where next_sentence of the whole text *)
(* ends a sentence, unless an empty line follows its comments or tokens.   *)
THEOREM SameByBlocksHolds == Spec => []SameByBlocks
<1>1. ReaderInv => SameByBlocks
  BY DEF ReaderInv, InStep, SameByBlocks
<1> QED BY <1>1, ReaderInvariance, PTL

(* What write_sentence writes of a sentence that a reader returned is read *)
(* back as the same sentence with the same children, whatever its length:  *)
(* no token or empty node is passed over or put at another word.           *)
THEOREM RoundTripHolds == Spec => []RoundTrip
<1>1. Init => CompleteInv
  <2> SUFFICES ASSUME Init PROVE CompleteInv
    OBVIOUS
  <2>1. Versioned(whole) /\ Versioned(block)
    BY DEF Init, Versioned, Clear
  <2>2. out.whole = More /\ out.block = More
    BY DEF Init
  <2>3. Delivered = {}
    BY <2>2 DEF Delivered, More
  <2> QED BY <2>1, <2>3 DEF CompleteInv
<1>2. ReaderInv /\ CompleteInv /\ [Next]_vars => CompleteInv'
  <2> SUFFICES ASSUME ReaderInv, CompleteInv, [Next]_vars PROVE CompleteInv'
    OBVIOUS
  <2>1. CASE ReadLine
    <3>1. PICK l \in Line, ending \in Endings : Both(l, FALSE, EndsBlock(l, ending))
      BY <2>1 DEF ReadLine
    <3>2. EndsBlock(l, ending) \in BOOLEAN /\ version' = version
      BY <2>1 DEF EndsBlock, ReadLine
    <3> QED BY <3>1, <3>2, CompleteKept
  <2>2. CASE ReadLast
    <3>1. PICK l \in Line : Both(l, TRUE, TRUE)
      BY <2>2 DEF ReadLast
    <3>2. version' = version
      BY <2>2 DEF ReadLast
    <3> QED BY <3>1, <3>2, CompleteKept
  <2>3. CASE UNCHANGED vars
    BY <2>3 DEF vars, CompleteInv, Versioned, Delivered, Complete
  <2> QED BY <2>1, <2>2, <2>3 DEF Next
<1>3. CompleteInv => RoundTrip
  <2> SUFFICES ASSUME CompleteInv, NEW o \in Delivered
               PROVE  ReadBack(write_sentence(o.sentence)) = o
    BY DEF RoundTrip
  <2>1. PICK s \in Sentences : Complete(s) /\ o = Returned(s)
    BY DEF CompleteInv
  <2> QED BY <2>1, ReadsBack
<1> QED BY <1>1, <1>2, <1>3, ReaderInvariance, PTL DEF Spec
=============================================================================
