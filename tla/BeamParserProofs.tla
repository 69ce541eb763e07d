--------------------------- MODULE BeamParserProofs ---------------------------
(***************************************************************************)
(* Theorems about BeamParser for every sentence length, every set of       *)
(* labels, every beam size, every cost and the three transition systems.   *)
(***************************************************************************)
EXTENDS BeamParser, TransitionsProofs

-----------------------------------------------------------------------------
(* The inductive invariant, part by part.                                  *)
Costs == 0..MaxCost

Entries ==
  [stack : Seq(Nodes), buffer : Seq(Nodes), head : [Nodes -> Nodes \cup {-1}],
   deprel : [Nodes -> Labels \cup {NoLabel}], cost : Costs]

(* What a configuration of the beam saved is sound with the tree that      *)
(* refresh_tree makes of it.                                               *)
SavedOK(e) == e \in Entries /\ ConfOK(Conf(e, TreeOf(e)))

AllSaved(s) == s \in Seq(Entries) /\ \A i \in 1..Len(s) : SavedOK(s[i])

AllFinal(s) == \A i \in 1..Len(s) : Final(s[i])

(* The alternatives that may be in the heap: each continues a              *)
(* configuration of the beam in a way open to it, and carries it over only *)
(* if it is final.                                                         *)
OpenOnes ==
  {a \in [from : 1..Len(beam), transition : Transition(system) \cup {Stay}, cost : Costs] :
     IF a.transition = Stay THEN Final(beam[a.from])
     ELSE Applicable(beam[a.from], a.transition) /\ ~Final(beam[a.from])}

Heaps(A) == [alts : Seq(A), dropped : Costs]

(* At most BeamSize alternatives, all at least as good as any that was     *)
(* refused or evicted, and none was before the heap was full.              *)
HeapKept(kept) ==
  /\ Len(kept.alts) <= BeamSize
  /\ Len(kept.alts) < BeamSize => kept.dropped = 0
  /\ \A i \in 1..Len(kept.alts) : kept.alts[i].cost >= kept.dropped

Handed ==
  \E i \in 1..Len(beam) :
    /\ tree = TreeOf(beam[i]) /\ IsTree(tree) /\ HasSingleRoot(tree)
    /\ \A j \in 1..Len(beam) : beam[i].cost >= beam[j].cost

(* What each phase knows.                                                  *)
Asking ==
  /\ at <= Len(beam) /\ ~Final(beam[at])
  /\ tree = TreeOf(beam[at]) /\ embedded = beam[at].deprel
  /\ asked \in 0..Len(TransitionVector[system])
  /\ \A k \in 1..asked :
       Applicable(beam[at], TransitionVector[system][k]) => alternatives # <<>>
  /\ at > 1 => alternatives # <<>>

Building ==
  /\ alternatives # <<>>
  /\ Len(built) = at - 1 /\ at <= Len(alternatives) + 1
  /\ AllFinal(beam) => AllFinal(built)

PhaseFacts ==
  /\ phase \in {"idle", "expand", "classify", "build", "return"}
  /\ phase # "idle" => beam # <<>>
  /\ phase # "classify" => asked = 0
  /\ phase # "build" => built = <<>>
  /\ phase = "expand" => (at > 1 => alternatives # <<>>)
  /\ phase = "classify" => Asking
  /\ phase = "build" => Building
  /\ phase = "return" => AllFinal(beam)
  /\ phase = "idle" /\ beam # <<>> => Handed

BeamInv ==
  /\ system \in Systems /\ at \in Nat \ {0}
  /\ AllSaved(beam) /\ Len(beam) <= BeamSize
  /\ AllSaved(built)
  /\ Kept \in Heaps(OpenOnes) /\ HeapKept(Kept)
  /\ PhaseFacts

-----------------------------------------------------------------------------
(* The library's SetToSeq lists a finite set.                              *)
LEMMA SetToSeqFacts ==
  ASSUME NEW S, IsFiniteSet(S)
  PROVE  /\ SetToSeq(S) \in [1..Cardinality(S) -> S]
         /\ \A x \in S : \E i \in 1..Cardinality(S) : SetToSeq(S)[i] = x
<1> DEFINE D == 1..Cardinality(S)
           g == SetToSeq(S)
<1>1. Cardinality(S) \in Nat /\ ExistsBijection(D, S)
  BY FS_CardinalityType
<1>2. PICK f \in [D -> S] : IsInjective(f)
  BY <1>1 DEF ExistsBijection, Bijection, Injection
<1>3. g \in [D -> S] /\ IsInjective(g)
  BY <1>2 DEF SetToSeq
<1> HIDE DEF g
<1>4. g \in Injection(D, S)
  BY <1>3 DEF Injection
<1>5. IsFiniteSet(D) /\ Cardinality(D) = Cardinality(S)
  <2>1. IsFiniteSet(D)
    BY <1>1, FS_Interval
  <2>2. Cardinality(S) = Cardinality(D)
    BY <1>1, <2>1, FS_Bijection
  <2> QED BY <2>1, <2>2
<1>6. g \in Surjection(D, S)
  BY <1>4, <1>5, FS_Injection
<1>7. \A x \in S : \E i \in D : g[i] = x
  BY <1>6 DEF Surjection
<1> QED BY <1>3, <1>7 DEF g

(* Among finitely many words there is a last one.                          *)
LEMMA LastWord ==
  ASSUME NEW S \in SUBSET Words, S # {}
  PROVE  \E x \in S : \A y \in S : y <= x
<1> DEFINE T == {N - m : m \in S}
<1>1. N \in Nat /\ \A m \in S : m \in Nat /\ N - m \in Nat
  BY SentenceAssumption DEF Words
<1>2. T \in SUBSET Nat /\ T # {}
  BY <1>1
<1>3. PICK z \in T : \A y \in T : z <= y
  BY <1>2, LeastNat
<1>4. PICK x \in S : z = N - x
  BY <1>3
<1>5. \A y \in S : N - x <= N - y
  BY <1>3, <1>4
<1> QED BY <1>1, <1>5

(* Every set of words has, for every k up to its size, an element with     *)
(* k - 1 smaller ones.                                                     *)
LEMMA Ranks ==
  ASSUME NEW S \in SUBSET Words, NEW k \in 1..Cardinality(S)
  PROVE  \E m \in S : Cardinality({x \in S : x < m}) = k - 1
<1> DEFINE Ranked(R, j) == \E m \in R : Cardinality({x \in R : x < m}) = j - 1
           bad == {n \in Nat : \E R \in SUBSET Words : Cardinality(R) = n
                                  /\ \E j \in 1..n : ~Ranked(R, j)}
<1>1. \A R \in SUBSET Words : IsFiniteSet(R) /\ Cardinality(R) \in Nat
  <2>1. IsFiniteSet(Words)
    BY SentenceAssumption, FS_Interval DEF Words
  <2> QED BY <2>1, FS_Subset, FS_CardinalityType
<1>2. bad = {}
  <2> SUFFICES ASSUME bad # {} PROVE FALSE
    OBVIOUS
  <2>1. PICK n \in bad : \A y \in bad : n <= y
    BY LeastNat
  <2>2. PICK R \in SUBSET Words, j \in 1..n : Cardinality(R) = n /\ ~Ranked(R, j)
    BY <2>1
  <2>3. n \in Nat /\ n >= 1 /\ R # {} /\ IsFiniteSet(R)
    BY <1>1, <2>1, <2>2, FS_EmptySet
  <2>4. PICK x \in R : \A y \in R : y <= x
    BY <2>2, <2>3, LastWord
  <2> DEFINE Q == R \ {x}
  <2>5. Q \in SUBSET Words /\ Cardinality(Q) = n - 1
    BY <2>2, <2>3, <2>4, FS_RemoveElement
  <2>6. \A y \in R : y \in Nat
    BY <2>2, SentenceAssumption DEF Words
  <2>7. CASE j = n
    <3>1. {y \in R : y < x} = Q
      BY <2>4, <2>6
    <3> QED BY <2>2, <2>4, <2>5, <2>7, <3>1
  <2>8. CASE j # n
    <3>1. j \in 1..(n - 1) /\ n - 1 \in Nat
      BY <2>2, <2>3, <2>8
    <3>2. n - 1 \notin bad
      BY <2>1, <2>3, <3>1
    <3>3. Ranked(Q, j)
      BY <2>5, <3>1, <3>2
    <3>4. PICK m \in Q : Cardinality({y \in Q : y < m}) = j - 1
      BY <3>3
    <3>5. {y \in R : y < m} = {y \in Q : y < m}
      BY <2>4, <2>6, <3>4
    <3> QED BY <2>2, <3>4, <3>5
  <2> QED BY <2>7, <2>8
<1>3. Cardinality(S) \notin bad /\ Cardinality(S) \in Nat
  BY <1>1, <1>2
<1>4. Ranked(S, k)
  BY <1>3
<1> QED BY <1>4

(* refresh_tree rebuilds lists of words.                                   *)
LEMMA InOrderTyped ==
  ASSUME NEW S \in SUBSET Words
  PROVE  InOrder(S) \in Seq(Nodes)
<1>1. Cardinality(S) \in Nat
  <2>1. IsFiniteSet(Words)
    BY SentenceAssumption, FS_Interval DEF Words
  <2> QED BY <2>1, FS_Subset, FS_CardinalityType
<1>2. ASSUME NEW k \in 1..Cardinality(S)
      PROVE  (CHOOSE m \in S : Cardinality({x \in S : x < m}) = k - 1) \in Nodes
  <2>1. \E m \in S : Cardinality({x \in S : x < m}) = k - 1
    BY Ranks
  <2> DEFINE w == CHOOSE m \in S : Cardinality({x \in S : x < m}) = k - 1
  <2>2. w \in S
    BY <2>1
  <2> HIDE DEF w
  <2>3. w \in Nodes
    BY <2>2, SentenceAssumption DEF Words, Nodes
  <2> QED BY <2>3 DEF w
<1>3. InOrder(S) \in [1..Cardinality(S) -> Nodes]
  BY <1>2 DEF InOrder
<1> QED BY <1>1, <1>3, SeqDef

LEMMA TreeTyped ==
  ASSUME NEW e
  PROVE  /\ TreeOf(e).head = e.head /\ TreeOf(e).deprel = e.deprel
         /\ TreeOf(e).children \in [Nodes -> Seq(Nodes)]
<1>1. \A n \in Nodes : InOrder({m \in Words : e.head[m] = n}) \in Seq(Nodes)
  BY InOrderTyped
<1> QED BY <1>1 DEF TreeOf
-----------------------------------------------------------------------------
(* Whether a configuration is sound, final or open to a transition does    *)
(* not depend on its lists of children, which refresh_tree rebuilds.       *)
LEMMA SameShape ==
  ASSUME NEW c, ConfOK(c), NEW d \in Configurations,
         d.stack = c.stack, d.buffer = c.buffer, d.head = c.head, d.deprel = c.deprel
  PROVE  ConfOK(d)
<1>1. Final(d) <=> Final(c)
  BY DEF Final
<1>2. Linked(d) = Linked(c)
  BY DEF Linked
<1>3. RootAtBottom(d) /\ EachNodeOnce(d)
  BY <1>2 DEF ConfOK, RootAtBottom, EachNodeOnce
<1>4. Acyclic(d)
  BY <1>2 DEF ConfOK, Acyclic
<1>5. RootLast(d)
  BY <1>1 DEF ConfOK, RootLast
<1>6. LabelsMatchHeads(d)
  BY DEF ConfOK, LabelsMatchHeads
<1> QED BY <1>3, <1>4, <1>5, <1>6 DEF ConfOK

LEMMA SameMoves ==
  ASSUME NEW c, NEW d, c.stack = d.stack, c.buffer = d.buffer,
         NEW s, NEW t \in Transition(s)
  PROVE  /\ Final(c) <=> Final(d)
         /\ Applicable(c, t) <=> Applicable(d, t)
<1>1. Final(c) <=> Final(d)
  BY DEF Final
<1>2. t.kind \in {"shift", "swap", "left", "right", "left2", "right2"}
  BY DEF Transition, Unlabelled, Labelled
<1>3. Applicable(c, t) <=> Applicable(d, t)
  <2>1. CASE t.kind = "shift"
    BY <2>1 DEF Applicable
  <2>2. CASE t.kind = "swap"
    BY <2>2 DEF Applicable, SwapApplicable
  <2>3. CASE t.kind = "left"
    BY <2>3 DEF Applicable, LeftApplicable
  <2>4. CASE t.kind = "right"
    BY <2>4 DEF Applicable, RightApplicable
  <2>5. CASE t.kind = "left2"
    BY <2>5 DEF Applicable, Left2Applicable
  <2>6. CASE t.kind = "right2"
    BY <2>6 DEF Applicable, Right2Applicable
  <2> QED BY <1>2, <2>1, <2>2, <2>3, <2>4, <2>5, <2>6
<1> QED BY <1>1, <1>3

(* save_tree keeps a sound configuration sound.                            *)
LEMMA SavedConf ==
  ASSUME NEW c, ConfOK(c), NEW cost \in Costs
  PROVE  SavedOK(Saved(c, cost))
<1> DEFINE e == Saved(c, cost)
           d == Conf(e, TreeOf(e))
<1>1. /\ e.stack = c.stack /\ e.buffer = c.buffer /\ e.head = c.head
      /\ e.deprel = c.deprel /\ e.cost = cost
  BY DEF Saved
<1>2. e \in Entries
  BY DEF ConfOK, Configurations, Saved, Entries
<1>3. /\ d.stack = c.stack /\ d.buffer = c.buffer /\ d.head = c.head
      /\ d.deprel = c.deprel /\ d.children \in [Nodes -> Seq(Nodes)]
  BY <1>1, TreeTyped DEF Conf
<1>4. d \in Configurations
  BY <1>3 DEF ConfOK, Configurations, Conf
<1> HIDE DEF d
<1>5. ConfOK(d)
  BY <1>3, <1>4, SameShape
<1> QED BY <1>2, <1>5 DEF SavedOK, d

(* What a saved configuration shows of the one it stands for.              *)
LEMMA SavedShows ==
  ASSUME NEW e, SavedOK(e)
  PROVE  /\ e.cost \in Costs
         /\ Conf(e, TreeOf(e)).stack = e.stack /\ Conf(e, TreeOf(e)).buffer = e.buffer
         /\ Conf(e, TreeOf(e)).head = e.head /\ Conf(e, TreeOf(e)).deprel = e.deprel
         /\ ConfOK(Conf(e, TreeOf(e)))
<1>1. e.cost \in Costs /\ ConfOK(Conf(e, TreeOf(e)))
  BY DEF SavedOK, Entries
<1>2. /\ Conf(e, TreeOf(e)).stack = e.stack /\ Conf(e, TreeOf(e)).buffer = e.buffer
      /\ Conf(e, TreeOf(e)).head = e.head /\ Conf(e, TreeOf(e)).deprel = e.deprel
  BY TreeTyped DEF Conf
<1> QED BY <1>1, <1>2

(* A copy taken over at a new cost is as sound.                            *)
LEMMA CarriedSaved ==
  ASSUME NEW e, SavedOK(e), NEW cost \in Costs
  PROVE  /\ SavedOK([e EXCEPT !.cost = cost])
         /\ Final(e) => Final([e EXCEPT !.cost = cost])
<1> DEFINE d == [e EXCEPT !.cost = cost]
<1>1. /\ d \in Entries /\ d.stack = e.stack /\ d.buffer = e.buffer
      /\ d.head = e.head /\ d.deprel = e.deprel
  BY DEF SavedOK, Entries
<1>2. TreeOf(d) = TreeOf(e)
  BY <1>1 DEF TreeOf
<1>3. Conf(d, TreeOf(d)) = Conf(e, TreeOf(e))
  BY <1>1, <1>2 DEF Conf
<1> QED BY <1>1, <1>3 DEF SavedOK, Final

(* refresh_tree, perform and save_tree from a sound configuration.         *)
LEMMA GrownSaved ==
  ASSUME NEW e, SavedOK(e), NEW s, NEW t \in Transition(s), Applicable(e, t),
         NEW cost \in Costs
  PROVE  SavedOK(Saved(Perform(Conf(e, TreeOf(e)), t), cost))
<1> DEFINE c == Conf(e, TreeOf(e))
<1>1. ConfOK(c) /\ c.stack = e.stack /\ c.buffer = e.buffer
  BY SavedShows
<1> HIDE DEF c
<1>2. Applicable(c, t)
  BY <1>1, SameMoves
<1>3. ConfOK(Perform(c, t))
  BY <1>1, <1>2, PerformStep
<1>4. SavedOK(Saved(Perform(c, t), cost))
  BY <1>3, SavedConf
<1> QED BY <1>4 DEF c

-----------------------------------------------------------------------------
(* The heap.  What a removal at i leaves was in the list before.           *)
LEMMA RemovedEntries ==
  ASSUME NEW A, NEW s \in Seq(A), NEW i \in 1..Len(s)
  PROVE  /\ RemoveAt(s, i) \in Seq(A) /\ Len(RemoveAt(s, i)) = Len(s) - 1
         /\ \A k \in 1..Len(RemoveAt(s, i)) :
              \E j \in 1..Len(s) : RemoveAt(s, i)[k] = s[j]
<1> DEFINE front == SubSeq(s, 1, i - 1)
           back == SubSeq(s, i + 1, Len(s))
           r == front \o back
<1>1. Len(s) \in Nat /\ i \in Nat /\ i >= 1 /\ i <= Len(s)
  BY LenProperties
<1>2. /\ front \in Seq(A) /\ Len(front) = i - 1
      /\ \A k \in 1..(i - 1) : front[k] = s[k]
  <2>1. \A k \in 1..(i - 1) : k \in 1..Len(s) /\ s[k] \in A
    BY <1>1, ElementOfSeq
  <2> QED BY <1>1, <2>1, SubSeqProperties
<1>3. /\ back \in Seq(A) /\ Len(back) = Len(s) - i
      /\ \A k \in 1..(Len(s) - i) : back[k] = s[i + k]
  BY <1>1, SubSeqProperties
<1> HIDE DEF front, back
<1>4. /\ r \in Seq(A) /\ Len(r) = Len(front) + Len(back)
      /\ \A k \in 1..(Len(front) + Len(back)) : r[k] = IF k <= Len(front) THEN front[k] ELSE back[k - Len(front)]
  BY <1>2, <1>3, ConcatProperties
<1> HIDE DEF r
<1>5. Len(r) = Len(s) - 1
  BY <1>1, <1>2, <1>3, <1>4
<1>6. ASSUME NEW k \in 1..Len(r) PROVE \E j \in 1..Len(s) : r[k] = s[j]
  <2>1. CASE k <= i - 1
    <3>1. k \in 1..(i - 1) /\ k \in 1..Len(s)
      BY <1>1, <1>5, <2>1
    <3> QED BY <1>2, <1>4, <2>1, <3>1
  <2>2. CASE ~(k <= i - 1)
    <3>1. k - (i - 1) \in 1..(Len(s) - i) /\ i + (k - (i - 1)) \in 1..Len(s)
      BY <1>1, <1>5, <2>2
    <3>2. r[k] = back[k - (i - 1)]
      BY <1>2, <1>4, <2>2
    <3> QED BY <1>3, <3>1, <3>2
  <2> QED BY <2>1, <2>2
<1>7. RemoveAt(s, i) = r
  BY DEF RemoveAt, r, front, back
<1> QED BY <1>4, <1>5, <1>6, <1>7

(* Some entry of a list that is not empty is the cheapest.                 *)
LEMMA WorstFacts ==
  ASSUME NEW A, \A a \in A : a.cost \in Costs, NEW s \in Seq(A), s # <<>>
  PROVE  /\ Worst(s) \in 1..Len(s)
         /\ \A j \in 1..Len(s) : s[Worst(s)].cost <= s[j].cost
<1> DEFINE T == {s[j].cost : j \in 1..Len(s)}
<1>1. Len(s) \in Nat /\ Len(s) >= 1 /\ DOMAIN s = 1..Len(s)
  BY EmptySeq, LenProperties
<1>2. \A j \in 1..Len(s) : s[j].cost \in Nat
  <2>1. \A j \in 1..Len(s) : s[j] \in A
    BY ElementOfSeq
  <2> QED BY <2>1, BeamAssumption DEF Costs
<1>3. T \in SUBSET Nat /\ T # {}
  BY <1>1, <1>2
<1>4. PICK x \in T : \A y \in T : x <= y
  BY <1>3, LeastNat
<1>5. PICK i \in 1..Len(s) : s[i].cost = x
  BY <1>4
<1>6. \A j \in 1..Len(s) : s[i].cost <= s[j].cost
  BY <1>4, <1>5
<1>7. \E k \in DOMAIN s : \A j \in DOMAIN s : s[k].cost <= s[j].cost
  BY <1>1, <1>6
<1> QED BY <1>1, <1>7 DEF Worst

(* A full heap gives up its worst alternative for a better one.            *)
LEMMA OfferFacts ==
  ASSUME NEW A, \A x \in A : x.cost \in Costs,
         NEW kept \in Heaps(A), HeapKept(kept), NEW a \in A
  PROVE  /\ Offer(kept, a) \in Heaps(A) /\ HeapKept(Offer(kept, a))
         /\ Offer(kept, a).alts # <<>>
<1> DEFINE s == kept.alts
           d == kept.dropped
           k == Offer(kept, a)
<1>1. /\ s \in Seq(A) /\ d \in Costs /\ a.cost \in Costs
      /\ Len(s) \in Nat /\ Len(s) <= BeamSize
      /\ Costs \subseteq Nat /\ BeamSize \in Nat \ {0}
  BY BeamAssumption, LenProperties DEF Heaps, HeapKept, Costs
<1>2. \A i \in 1..Len(s) : s[i] \in A /\ s[i].cost \in Costs /\ s[i].cost >= d
  BY <1>1, ElementOfSeq DEF HeapKept
<1>3. CASE Len(s) < BeamSize
  <2> DEFINE g == Append(s, a)
  <2>1. k = [kept EXCEPT !.alts = g]
    BY <1>3 DEF Offer
  <2>2. /\ g \in Seq(A) /\ Len(g) = Len(s) + 1
        /\ \A i \in 1..Len(s) : g[i] = s[i]
        /\ g[Len(s) + 1] = a
    BY <1>1, AppendProperties
  <2>3. k.alts = g /\ k.dropped = d /\ k \in Heaps(A)
    BY <1>1, <2>1, <2>2 DEF Heaps
  <2>4. d = 0
    BY <1>3 DEF HeapKept
  <2>5. \A i \in 1..Len(g) : g[i].cost >= d
    <3> TAKE i \in 1..Len(g)
    <3>1. i \in 1..Len(s) \/ i = Len(s) + 1
      BY <1>1, <2>2
    <3>2. CASE i \in 1..Len(s)
      BY <1>2, <2>2, <3>2
    <3>3. CASE i = Len(s) + 1
      <4>1. g[i] = a /\ a.cost \in Nat
        BY <1>1, <2>2, <3>3
      <4> HIDE DEF g, d
      <4> QED BY <2>4, <4>1
    <3> QED BY <3>1, <3>2, <3>3
  <2>6. g # <<>>
    BY <1>1, <2>2, EmptySeq
  <2> HIDE DEF g, k
  <2>7. HeapKept(k)
    BY <1>1, <1>3, <2>2, <2>3, <2>4, <2>5 DEF HeapKept
  <2> QED BY <2>3, <2>6, <2>7 DEF k
<1>4. CASE ~(Len(s) < BeamSize)
  <2> DEFINE w == Worst(s)
             f == s[w]
  <2>1. Len(s) = BeamSize /\ s # <<>>
    <3>1. Len(s) = BeamSize /\ Len(s) # 0
      BY <1>1, <1>4
    <3> QED BY <3>1, EmptySeq
  <2>2. w \in 1..Len(s) /\ \A j \in 1..Len(s) : f.cost <= s[j].cost
    BY <1>1, <2>1, WorstFacts
  <2>3. f.cost \in Costs /\ f.cost >= d
    BY <1>2, <2>2
  <2>4. CASE a.cost <= f.cost
    <3>1. k = [kept EXCEPT !.dropped = Larger(d, a.cost)]
      BY <1>4, <2>4 DEF Offer
    <3>2. Larger(d, a.cost) \in Costs /\ Larger(d, a.cost) <= f.cost
      BY <1>1, <2>3, <2>4 DEF Larger
    <3>3. k.alts = s /\ k.dropped = Larger(d, a.cost) /\ k \in Heaps(A)
      BY <1>1, <3>1, <3>2 DEF Heaps
    <3>4. \A i \in 1..Len(s) : s[i].cost >= Larger(d, a.cost)
      <4> TAKE i \in 1..Len(s)
      <4>1. f.cost <= s[i].cost /\ s[i].cost \in Nat /\ f.cost \in Nat /\ Larger(d, a.cost) \in Nat
        BY <1>1, <1>2, <2>2, <2>3, <3>2
      <4> HIDE DEF f
      <4> QED BY <3>2, <4>1
    <3> HIDE DEF k
    <3>5. HeapKept(k)
      BY <1>1, <2>1, <3>3, <3>4 DEF HeapKept
    <3> QED BY <2>1, <3>3, <3>5 DEF k
  <2>5. CASE ~(a.cost <= f.cost)
    <3> DEFINE r == RemoveAt(s, w)
               g == Append(r, a)
               m == Larger(d, f.cost)
    <3>1. k = [alts |-> g, dropped |-> m]
      BY <1>4, <2>5 DEF Offer
    <3>2. m = f.cost
      <4>1. \A p, q \in Nat : q >= p => Larger(p, q) = q
        BY DEF Larger
      <4>2. d \in Nat /\ f.cost \in Nat
        BY <1>1, <2>3
      <4> HIDE DEF d, f
      <4> QED BY <2>3, <4>1, <4>2
    <3>3. /\ r \in Seq(A) /\ Len(r) = Len(s) - 1
          /\ \A i \in 1..Len(r) : \E j \in 1..Len(s) : r[i] = s[j]
      BY <1>1, <2>2, RemovedEntries
    <3>4. /\ g \in Seq(A) /\ Len(g) = Len(r) + 1
          /\ \A i \in 1..Len(r) : g[i] = r[i]
          /\ g[Len(r) + 1] = a
      BY <3>3, AppendProperties
    <3>5. Len(g) = BeamSize /\ g # <<>>
      <4>1. Len(g) = BeamSize
        BY <1>1, <2>1, <3>3, <3>4
      <4> QED BY <1>1, <3>4, <4>1, EmptySeq
    <3>6. \A i \in 1..Len(g) : g[i].cost >= f.cost
      <4> TAKE i \in 1..Len(g)
      <4>1. i \in 1..Len(r) \/ i = Len(r) + 1
        BY <1>1, <3>3, <3>4
      <4>2. CASE i \in 1..Len(r)
        <5>1. PICK j \in 1..Len(s) : g[i] = s[j]
          BY <3>3, <3>4, <4>2
        <5>2. f.cost <= s[j].cost /\ s[j].cost \in Nat /\ f.cost \in Nat
          BY <1>1, <1>2, <2>2, <2>3
        <5> HIDE DEF f, g
        <5> QED BY <5>1, <5>2
      <4>3. CASE i = Len(r) + 1
        <5>1. g[i] = a /\ a.cost \in Nat /\ f.cost \in Nat
          BY <1>1, <2>3, <3>4, <4>3
        <5> HIDE DEF f, g
        <5> QED BY <2>5, <5>1
      <4> QED BY <4>1, <4>2, <4>3
    <3> HIDE DEF f, g, m
    <3>7. k.alts = g /\ k.dropped = m /\ k \in Heaps(A)
      BY <2>3, <3>1, <3>2, <3>4 DEF Heaps
    <3> HIDE DEF k
    <3>8. HeapKept(k)
      BY <1>1, <3>2, <3>5, <3>6, <3>7 DEF HeapKept
    <3> QED BY <3>5, <3>7, <3>8 DEF k
  <2> QED BY <2>4, <2>5
<1> QED BY <1>3, <1>4

(* Some configuration of a beam that is not empty has the best cost.       *)
LEMMA BestFacts ==
  ASSUME NEW s, AllSaved(s), s # <<>>
  PROVE  /\ BestOf(s) \in 1..Len(s)
         /\ \A j \in 1..Len(s) : s[BestOf(s)].cost >= s[j].cost
<1> DEFINE T == {MaxCost - s[j].cost : j \in 1..Len(s)}
<1>1. Len(s) \in Nat /\ Len(s) >= 1 /\ DOMAIN s = 1..Len(s)
  BY EmptySeq, LenProperties DEF AllSaved
<1>2. \A j \in 1..Len(s) : s[j].cost \in Nat /\ MaxCost - s[j].cost \in Nat
  <2>1. \A j \in 1..Len(s) : s[j].cost \in Costs
    BY SavedShows DEF AllSaved
  <2> QED BY <2>1, BeamAssumption DEF Costs
<1>3. T \in SUBSET Nat /\ T # {}
  BY <1>1, <1>2
<1>4. PICK x \in T : \A y \in T : x <= y
  BY <1>3, LeastNat
<1> DEFINE U == {j \in 1..Len(s) : MaxCost - s[j].cost = x}
<1>5. U \in SUBSET Nat /\ U # {}
  BY <1>4
<1>6. PICK i \in U : \A j \in U : i <= j
  BY <1>5, LeastNat
<1>7. \A j \in 1..Len(s) : s[i].cost > s[j].cost \/ (s[i].cost = s[j].cost /\ i <= j)
  <2> TAKE j \in 1..Len(s)
  <2>1. MaxCost - s[i].cost <= MaxCost - s[j].cost
    BY <1>4, <1>6
  <2>2. s[i].cost >= s[j].cost
    BY <1>2, <1>6, <2>1, BeamAssumption
  <2>3. CASE s[i].cost = s[j].cost
    BY <1>6, <2>3
  <2>4. CASE s[i].cost # s[j].cost
    BY <1>2, <1>6, <2>2, <2>4
  <2> QED BY <2>3, <2>4
<1>8. \E k \in DOMAIN s : \A j \in DOMAIN s :
        s[k].cost > s[j].cost \/ (s[k].cost = s[j].cost /\ k <= j)
  BY <1>1, <1>6, <1>7
<1>9. /\ BestOf(s) \in 1..Len(s)
      /\ \A j \in 1..Len(s) :
           s[BestOf(s)].cost > s[j].cost \/ (s[BestOf(s)].cost = s[j].cost /\ BestOf(s) <= j)
  BY <1>1, <1>8 DEF BestOf
<1> HIDE DEF T, U
<1>10. \A x1, x2 \in Nat : x1 > x2 \/ x1 = x2 => x1 >= x2
  OBVIOUS
<1> QED BY <1>2, <1>9, <1>10
-----------------------------------------------------------------------------
(* Division by the number of arcs.                                         *)
LEMMA Divided ==
  ASSUME NEW m \in {2, 4}, NEW l \in Nat
  PROVE  /\ \A j \in Nat : j < l * m => j % m \in 0..(m - 1) /\ j \div m \in 0..(l - 1)
         /\ \A i \in 0..(l - 1), r \in 0..(m - 1) :
              /\ (i * m) + r \in Nat /\ (i * m) + r < l * m
              /\ ((i * m) + r) % m = r /\ ((i * m) + r) \div m = i
<1>1. CASE m = 2
  <2>1. \A j \in Nat : j < l * 2 => j % 2 \in 0..1 /\ j \div 2 \in 0..(l - 1)
    OBVIOUS
  <2>2. \A i \in 0..(l - 1), r \in 0..1 :
          /\ (i * 2) + r \in Nat /\ (i * 2) + r < l * 2
          /\ ((i * 2) + r) % 2 = r /\ ((i * 2) + r) \div 2 = i
    OBVIOUS
  <2> QED BY <1>1, <2>1, <2>2
<1>2. CASE m = 4
  <2>1. \A j \in Nat : j < l * 4 => j % 4 \in 0..3 /\ j \div 4 \in 0..(l - 1)
    OBVIOUS
  <2>2. \A i \in 0..(l - 1), r \in 0..3 :
          /\ (i * 4) + r \in Nat /\ (i * 4) + r < l * 4
          /\ ((i * 4) + r) % 4 = r /\ ((i * 4) + r) \div 4 = i
    OBVIOUS
  <2> QED BY <1>2, <2>1, <2>2
<1> QED BY <1>1, <1>2

(* The moves and arcs of a system, listed.                                 *)
LEMMA MovesFacts ==
  ASSUME NEW s \in Systems
  PROVE  /\ Len(Moves(s)) \in Nat
         /\ \A k \in 1..Len(Moves(s)) : Moves(s)[k] \in Unlabelled(s)
         /\ \A x \in Unlabelled(s) : \E k \in 1..Len(Moves(s)) : Moves(s)[k] = x
         /\ Len(Arcs(s)) \in {2, 4}
         /\ \A k \in 1..Len(Arcs(s)) : Arcs(s)[k] \in Labelled(s)
         /\ \A x \in Labelled(s) : \E k \in 1..Len(Arcs(s)) : Arcs(s)[k] = x
<1>1. CASE s = "swap"
  BY <1>1 DEF Moves, Arcs, Unlabelled, Labelled
<1>2. CASE s = "link2"
  BY <1>2 DEF Moves, Arcs, Unlabelled, Labelled
<1>3. CASE s = "projective"
  BY <1>3 DEF Moves, Arcs, Unlabelled, Labelled
<1> QED BY <1>1, <1>2, <1>3, SystemsAssumption

(* The network gives a cost to every transition of the system, and to      *)
(* nothing else.                                                           *)
LEMMA VectorFacts ==
  ASSUME NEW s \in Systems
  PROVE  /\ Len(TransitionVector[s]) \in Nat
         /\ \A k \in 1..Len(TransitionVector[s]) : TransitionVector[s][k] \in Transition(s)
         /\ \A t \in Transition(s) :
              \E k \in 1..Len(TransitionVector[s]) : TransitionVector[s][k] = t
<1> DEFINE n == Len(Moves(s))
           m == Len(Arcs(s))
           l == Cardinality(Labels)
           total == n + (l * m)
           v == TransitionVector[s]
<1>1. n \in Nat /\ m \in {2, 4} /\ l \in Nat /\ total \in Nat
  <2>1. n \in Nat /\ m \in {2, 4}
    BY MovesFacts
  <2>2. l \in Nat
    BY BeamAssumption, FS_CardinalityType
  <2>3. \A a, b, c \in Nat : a + (b * c) \in Nat
    OBVIOUS
  <2> HIDE DEF n, m, l
  <2> QED BY <2>1, <2>2, <2>3
<1>2. v = [k \in 1..total |->
        IF k <= n THEN [kind |-> Moves(s)[k], label |-> NoLabel]
        ELSE LET j == k - n - 1
             IN [kind |-> Arcs(s)[1 + (j % m)], label |-> SetToSeq(Labels)[1 + (j \div m)]]]
  BY DEF TransitionVector
<1>3. /\ SetToSeq(Labels) \in [1..l -> Labels]
      /\ \A x \in Labels : \E i \in 1..l : SetToSeq(Labels)[i] = x
  BY BeamAssumption, SetToSeqFacts
<1>4. Len(v) = total
  <2> HIDE DEF total, n, m, l
  <2> QED BY <1>1, <1>2
<1> DEFINE row(k) == k - n - 1
<1> HIDE DEF v, total
<1>5. ASSUME NEW k \in 1..total PROVE v[k] \in Transition(s)
  <2>1. CASE k <= n
    <3>1. v[k] = [kind |-> Moves(s)[k], label |-> NoLabel]
      BY <1>2, <2>1
    <3>2. k \in 1..n
      BY <1>1, <2>1
    <3>3. Moves(s)[k] \in Unlabelled(s)
      BY <3>2, MovesFacts
    <3> QED BY <3>1, <3>3 DEF Transition
  <2>2. CASE ~(k <= n)
    <3> DEFINE j == k - n - 1
    <3>1. v[k] = [kind |-> Arcs(s)[1 + (j % m)], label |-> SetToSeq(Labels)[1 + (j \div m)]]
      BY <1>2, <2>2
    <3>2. j \in Nat /\ j < l * m
      <4>1. l * m \in Int
        BY <1>1
      <4> HIDE DEF n, m, l
      <4> QED BY <1>1, <2>2, <4>1 DEF total
    <3> HIDE DEF n, m, l, j
    <3>3. j % m \in 0..(m - 1) /\ j \div m \in 0..(l - 1)
      BY <1>1, <3>2, Divided
    <3>4. 1 + (j % m) \in 1..m /\ 1 + (j \div m) \in 1..l
      BY <1>1, <3>3
    <3>5. Arcs(s)[1 + (j % m)] \in Labelled(s)
      BY <3>4, MovesFacts DEF m
    <3>6. SetToSeq(Labels)[1 + (j \div m)] \in Labels
      BY <1>3, <3>4
    <3> QED BY <3>1, <3>5, <3>6 DEF Transition
  <2> QED BY <2>1, <2>2
<1>6. ASSUME NEW t \in Transition(s) PROVE \E k \in 1..total : v[k] = t
  <2>1. CASE t \in [kind : Unlabelled(s), label : {NoLabel}]
    <3>1. PICK k \in 1..n : Moves(s)[k] = t.kind
      BY <2>1, MovesFacts
    <3>2. k \in 1..total /\ k <= n
      <4>1. \A a, b, c \in Nat : a <= b => a <= b + c
        OBVIOUS
      <4>2. l * m \in Nat
        BY <1>1
      <4> HIDE DEF n, m, l
      <4> QED BY <1>1, <4>1, <4>2 DEF total
    <3>3. v[k] = [kind |-> Moves(s)[k], label |-> NoLabel]
      BY <1>2, <3>2
    <3> QED BY <2>1, <3>1, <3>2, <3>3
  <2>2. CASE t \in [kind : Labelled(s), label : Labels]
    <3>1. PICK r \in 1..m : Arcs(s)[r] = t.kind
      BY <2>2, MovesFacts
    <3>2. PICK i \in 1..l : SetToSeq(Labels)[i] = t.label
      BY <1>3, <2>2
    <3> DEFINE j == ((i - 1) * m) + (r - 1)
               k == j + n + 1
    <3>3. i - 1 \in 0..(l - 1) /\ r - 1 \in 0..(m - 1)
      BY <1>1
    <3>4. j \in Nat /\ j < l * m /\ j % m = r - 1 /\ j \div m = i - 1
      <4> HIDE DEF n, m, l
      <4> QED BY <1>1, <3>3, Divided
    <3>5. k \in 1..total /\ ~(k <= n) /\ k - n - 1 = j
      <4>1. l * m \in Nat
        BY <1>1
      <4> HIDE DEF n, m, l, j
      <4> QED BY <1>1, <3>4, <4>1 DEF total
    <3>6. v[k] = [kind |-> Arcs(s)[1 + (j % m)], label |-> SetToSeq(Labels)[1 + (j \div m)]]
      <4> HIDE DEF n, m, l, j, k
      <4> QED BY <1>2, <3>5
    <3>7. 1 + (j % m) = r /\ 1 + (j \div m) = i
      <4> HIDE DEF n, m, l, j
      <4> QED BY <1>1, <3>4
    <3>8. v[k] = [kind |-> t.kind, label |-> t.label]
      BY <3>1, <3>2, <3>6, <3>7
    <3> QED BY <2>2, <3>5, <3>8
  <2> QED BY <2>1, <2>2 DEF Transition
<1> QED BY <1>1, <1>4, <1>5, <1>6 DEF v
-----------------------------------------------------------------------------
(* The invariant holds at first.                                           *)
LEMMA NoEntries ==
  ASSUME NEW A
  PROVE  /\ <<>> \in Seq(A) /\ Len(<<>>) = 0
         /\ AllSaved(<<>>) /\ AllFinal(<<>>)
         /\ HeapKept([alts |-> <<>>, dropped |-> 0])
         /\ [alts |-> <<>>, dropped |-> 0] \in Heaps(A)
<1>1. <<>> \in Seq(A) /\ <<>> \in Seq(Entries) /\ Len(<<>>) = 0
  BY EmptySeq
<1>2. BeamSize \in Nat \ {0} /\ 0 \in Costs
  BY BeamAssumption DEF Costs
<1> QED BY <1>1, <1>2 DEF AllSaved, AllFinal, HeapKept, Heaps

LEMMA BeamInitial == Init => BeamInv
<1> SUFFICES ASSUME Init PROVE BeamInv
  OBVIOUS
<1> USE DEF Init
<1>1. AllSaved(beam) /\ Len(beam) <= BeamSize /\ AllSaved(built)
  BY NoEntries, BeamAssumption
<1>2. Kept \in Heaps(OpenOnes) /\ HeapKept(Kept)
  BY NoEntries DEF Kept
<1>3. PhaseFacts
  BY DEF PhaseFacts
<1> QED BY <1>1, <1>2, <1>3 DEF BeamInv

(* A step that leaves the system and the beam leaves what is open.         *)
LEMMA SameOpenOnes ==
  ASSUME UNCHANGED <<system, beam>>
  PROVE  OpenOnes' = OpenOnes
BY DEF OpenOnes

LEMMA StartKeeps == ASSUME BeamInv, Start PROVE BeamInv'
<1> USE DEF Start
<1>1. phase' = "expand" /\ asked' = 0 /\ built' = <<>> /\ at' = 1
  BY DEF BeamInv, PhaseFacts
<1>2. SavedOK(Saved(InitialConf, 0))
  <2>1. 0 \in Costs
    BY BeamAssumption DEF Costs
  <2> QED BY <2>1, InitialSound, SavedConf
<1>3. AllSaved(beam') /\ Len(beam') = 1 /\ beam' # <<>>
  <2> DEFINE e == Saved(InitialConf, 0)
  <2>1. beam' = <<e>> /\ e \in Entries
    BY <1>2 DEF SavedOK
  <2> HIDE DEF e
  <2>2. beam' \in Seq(Entries) /\ Len(beam') = 1 /\ beam'[1] = e
    BY <2>1
  <2> QED BY <1>2, <2>1, <2>2 DEF AllSaved, e
<1>4. AllSaved(beam)' /\ AllSaved(built)' /\ (Len(beam) <= BeamSize)'
  BY <1>1, <1>3, NoEntries, BeamAssumption DEF AllSaved
<1>5. (Kept \in Heaps(OpenOnes))' /\ HeapKept(Kept)'
  <2>1. Kept' = [alts |-> <<>>, dropped |-> 0]
    BY DEF Kept
  <2>2. Kept' \in Heaps(OpenOnes') /\ HeapKept(Kept')
    BY <2>1, NoEntries
  <2> QED BY <2>2 DEF Heaps, HeapKept
<1>6. PhaseFacts'
  BY <1>1, <1>3 DEF PhaseFacts
<1> QED BY <1>1, <1>4, <1>5, <1>6 DEF BeamInv

(* An alternative offered to the heap.                                     *)
LEMMA HeapOffered ==
  ASSUME BeamInv, NEW a \in OpenOnes,
         alternatives' = Offer(Kept, a).alts, dropped' = Offer(Kept, a).dropped
  PROVE  /\ Kept' \in Heaps(OpenOnes) /\ HeapKept(Kept') /\ alternatives' # <<>>
<1>1. \A x \in OpenOnes : x.cost \in Costs
  BY DEF OpenOnes
<1>2. /\ Offer(Kept, a) \in Heaps(OpenOnes) /\ HeapKept(Offer(Kept, a))
      /\ Offer(Kept, a).alts # <<>>
  BY <1>1, OfferFacts DEF BeamInv
<1>3. Kept' = Offer(Kept, a)
  BY <1>2 DEF Kept, Heaps
<1> QED BY <1>2, <1>3

LEMMA CarryKeeps == ASSUME BeamInv, Carry PROVE BeamInv'
<1> USE DEF Carry
<1> DEFINE a == [from |-> at, transition |-> Stay, cost |-> beam[at].cost]
<1>1. at \in 1..Len(beam) /\ Len(beam) \in Nat
  BY LenProperties DEF BeamInv, AllSaved
<1>2. a \in OpenOnes
  <2>1. beam[at].cost \in Costs
    BY <1>1, SavedShows DEF BeamInv, AllSaved
  <2> QED BY <1>1, <2>1 DEF OpenOnes
<1>3. Kept' \in Heaps(OpenOnes) /\ HeapKept(Kept') /\ alternatives' # <<>>
  BY <1>2, HeapOffered
<1>4. (Kept \in Heaps(OpenOnes))' /\ HeapKept(Kept)'
  BY <1>3, SameOpenOnes DEF Heaps, HeapKept
<1>5. PhaseFacts'
  BY <1>1, <1>3 DEF PhaseFacts, BeamInv
<1>6. at' \in Nat \ {0}
  BY <1>1
<1> QED BY <1>4, <1>5, <1>6 DEF BeamInv, AllSaved

LEMMA RefreshKeeps == ASSUME BeamInv, Refresh PROVE BeamInv'
<1> USE DEF Refresh
<1>1. Len(TransitionVector[system]) \in Nat /\ asked = 0
  BY VectorFacts DEF BeamInv, PhaseFacts
<1>2. tree' = TreeOf(beam[at]) /\ embedded' = beam[at].deprel
  BY TreeTyped
<1>3. Asking'
  BY <1>1, <1>2 DEF Asking, BeamInv, PhaseFacts
<1>4. PhaseFacts'
  BY <1>3 DEF PhaseFacts, BeamInv
<1>5. (Kept \in Heaps(OpenOnes))' /\ HeapKept(Kept)'
  BY SameOpenOnes DEF BeamInv, Kept, Heaps, HeapKept
<1> QED BY <1>4, <1>5 DEF BeamInv, AllSaved

LEMMA ClassifyKeeps == ASSUME BeamInv, Classify PROVE BeamInv'
<1> DEFINE t == TransitionVector[system][asked + 1]
<1>1. /\ phase = "classify" /\ asked < Len(TransitionVector[system]) /\ asked' = asked + 1
      /\ UNCHANGED <<system, phase, tree, embedded, beam, built, at>>
      /\ \/ /\ Applicable(beam[at], t)
            /\ \E cost \in 1..MaxCost :
                 LET kept == Offer(Kept, [from |-> at, transition |-> t, cost |-> cost])
                 IN alternatives' = kept.alts /\ dropped' = kept.dropped
         \/ ~Applicable(beam[at], t) /\ UNCHANGED <<alternatives, dropped>>
  BY DEF Classify
<1>2. Asking /\ system \in Systems /\ at \in 1..Len(beam)
  BY <1>1, LenProperties DEF BeamInv, PhaseFacts, Asking, AllSaved
<1>3. /\ asked + 1 \in 1..Len(TransitionVector[system])
      /\ t \in Transition(system) /\ Len(TransitionVector[system]) \in Nat
  <2>1. asked + 1 \in 1..Len(TransitionVector[system]) /\ Len(TransitionVector[system]) \in Nat
    BY <1>1, <1>2, VectorFacts DEF Asking
  <2> QED BY <1>2, <2>1, VectorFacts
<1> HIDE DEF t
<1>4. /\ Kept' \in Heaps(OpenOnes) /\ HeapKept(Kept')
      /\ alternatives # <<>> \/ Applicable(beam[at], t) => alternatives' # <<>>
  <2>1. CASE Applicable(beam[at], t)
    <3>1. PICK cost \in 1..MaxCost :
            /\ alternatives' = Offer(Kept, [from |-> at, transition |-> t, cost |-> cost]).alts
            /\ dropped' = Offer(Kept, [from |-> at, transition |-> t, cost |-> cost]).dropped
      BY <1>1, <2>1
    <3> DEFINE a == [from |-> at, transition |-> t, cost |-> cost]
    <3>2. t # Stay
      <4>1. t.kind # "stay"
        BY <1>3 DEF Transition, Unlabelled, Labelled
      <4> QED BY <4>1 DEF Stay
    <3>3. cost \in Costs /\ ~Final(beam[at])
      BY <1>2, BeamAssumption DEF Costs, Asking
    <3>4. a \in OpenOnes
      BY <1>2, <1>3, <2>1, <3>2, <3>3 DEF OpenOnes
    <3> QED BY <3>1, <3>4, HeapOffered
  <2>2. CASE ~Applicable(beam[at], t)
    BY <1>1, <2>2 DEF BeamInv, Kept
  <2> QED BY <2>1, <2>2
<1>5. Asking'
  <2>1. asked' \in 0..Len(TransitionVector[system])
    BY <1>1, <1>3
  <2>2. \A k \in 1..asked' :
          Applicable(beam[at], TransitionVector[system][k]) => alternatives' # <<>>
    <3> TAKE k \in 1..asked'
    <3>1. k \in 1..asked \/ k = asked + 1
      BY <1>1, <1>2 DEF Asking
    <3> QED BY <1>2, <1>4, <3>1 DEF Asking, t
  <2> QED BY <1>1, <1>2, <1>4, <2>1, <2>2 DEF Asking
<1>6. PhaseFacts'
  BY <1>1, <1>5 DEF PhaseFacts, BeamInv
<1>7. (Kept \in Heaps(OpenOnes))' /\ HeapKept(Kept)'
  BY <1>1, <1>4, SameOpenOnes DEF Heaps, HeapKept
<1> QED BY <1>1, <1>6, <1>7 DEF BeamInv, AllSaved

(* Of a configuration that is not final the network was asked about a      *)
(* transition open to it, so the heap is not empty.                        *)
LEMMA ClassifiedKeeps == ASSUME BeamInv, Classified PROVE BeamInv'
<1> USE DEF Classified
<1>1. Asking /\ system \in Systems /\ at \in 1..Len(beam)
  BY LenProperties DEF BeamInv, PhaseFacts, Asking, AllSaved
<1>2. alternatives # <<>>
  <2> DEFINE e == beam[at]
             c == Conf(e, TreeOf(e))
  <2>1. SavedOK(e) /\ ~Final(e)
    BY <1>1 DEF BeamInv, AllSaved, Asking
  <2>2. ConfOK(c) /\ c.stack = e.stack /\ c.buffer = e.buffer
    BY <2>1, SavedShows
  <2>3. ~Final(c)
    BY <2>1, <2>2 DEF Final
  <2>4. PICK t \in Transition(system) : Applicable(c, t)
    BY <2>2, <2>3, SomeApplicable
  <2>5. Applicable(e, t)
    BY <2>2, <2>4, SameMoves
  <2>6. PICK k \in 1..Len(TransitionVector[system]) : TransitionVector[system][k] = t
    BY <1>1, VectorFacts
  <2> QED BY <1>1, <2>5, <2>6 DEF Asking
<1>3. PhaseFacts'
  BY <1>1, <1>2 DEF PhaseFacts, BeamInv
<1>4. (Kept \in Heaps(OpenOnes))' /\ HeapKept(Kept)'
  BY SameOpenOnes DEF BeamInv, Kept, Heaps, HeapKept
<1>5. at' \in Nat \ {0}
  BY DEF BeamInv
<1> QED BY <1>3, <1>4, <1>5 DEF BeamInv, AllSaved

LEMMA ExpandedKeeps == ASSUME BeamInv, Expanded PROVE BeamInv'
<1> USE DEF Expanded
<1>1. beam # <<>> /\ built = <<>> /\ asked = 0 /\ (at > 1 => alternatives # <<>>)
  BY DEF BeamInv, PhaseFacts
<1>2. alternatives # <<>>
  <2>1. Len(beam) \in Nat /\ Len(beam) # 0 /\ at \in Nat
    BY <1>1, EmptySeq, LenProperties DEF BeamInv, AllSaved
  <2>2. at > 1
    BY <2>1
  <2> QED BY <1>1, <2>2
<1>3. Building'
  <2>1. Len(alternatives) \in Nat
    BY LenProperties DEF BeamInv, Heaps, Kept
  <2> QED BY <1>1, <1>2, <2>1, NoEntries DEF Building, AllFinal
<1>4. PhaseFacts'
  BY <1>1, <1>3 DEF PhaseFacts, BeamInv
<1>5. (Kept \in Heaps(OpenOnes))' /\ HeapKept(Kept)'
  BY SameOpenOnes DEF BeamInv, Kept, Heaps, HeapKept
<1> QED BY <1>4, <1>5 DEF BeamInv, AllSaved

(* What is added to the next beam, from the alternative at hand.           *)
LEMMA BuiltEntry ==
  ASSUME BeamInv, Build
  PROVE  \E e \in Entries :
           /\ SavedOK(e) /\ built' = Append(built, e)
           /\ AllFinal(beam) => Final(e)
<1> DEFINE a == alternatives[at]
           b == beam[a.from]
<1>1. /\ at <= Len(alternatives)
      /\ \/ /\ a.transition = Stay
            /\ built' = Append(built, [b EXCEPT !.cost = a.cost])
         \/ a.transition # Stay /\ BuildFrom(a)
  BY DEF Build
<1>2. alternatives \in Seq(OpenOnes) /\ at \in Nat \ {0}
  BY DEF BeamInv, Heaps, Kept
<1>3. a \in OpenOnes
  <2>1. at \in 1..Len(alternatives)
    BY <1>1, <1>2, LenProperties
  <2> QED BY <1>2, <2>1, ElementOfSeq
<1> HIDE DEF a
<1>4. /\ a.from \in 1..Len(beam) /\ a.transition \in Transition(system) \cup {Stay}
      /\ a.cost \in Costs
      /\ IF a.transition = Stay THEN Final(b) ELSE Applicable(b, a.transition) /\ ~Final(b)
  BY <1>3 DEF OpenOnes
<1>5. SavedOK(b)
  BY <1>4 DEF BeamInv, AllSaved
<1>6. CASE a.transition = Stay
  <2>1. SavedOK([b EXCEPT !.cost = a.cost]) /\ Final([b EXCEPT !.cost = a.cost])
    BY <1>4, <1>5, <1>6, CarriedSaved
  <2> QED BY <1>1, <1>6, <2>1 DEF SavedOK
<1>7. CASE a.transition # Stay
  <2> DEFINE e == Saved(Perform(Conf(b, TreeOf(b)), a.transition), a.cost)
  <2>1. a.transition \in Transition(system) /\ Applicable(b, a.transition) /\ ~Final(b)
    BY <1>4, <1>7
  <2>2. SavedOK(e)
    BY <1>4, <1>5, <2>1, GrownSaved
  <2>3. built' = Append(built, e)
    BY <1>1, <1>7 DEF BuildFrom, Grown
  <2>4. ~AllFinal(beam)
    BY <1>4, <2>1 DEF AllFinal
  <2> QED BY <2>2, <2>3, <2>4 DEF SavedOK
<1> QED BY <1>6, <1>7

LEMMA BuildKeeps == ASSUME BeamInv, Build PROVE BeamInv'
<1>1. /\ phase = "build" /\ at <= Len(alternatives) /\ at' = at + 1
      /\ UNCHANGED <<system, asked, phase, embedded, beam, alternatives, dropped>>
  BY DEF Build
<1>2. PICK e \in Entries : /\ SavedOK(e) /\ built' = Append(built, e)
                           /\ AllFinal(beam) => Final(e)
  BY BuiltEntry
<1>3. built \in Seq(Entries) /\ Building /\ at \in Nat \ {0}
  BY <1>1 DEF BeamInv, AllSaved, PhaseFacts
<1>4. /\ built' \in Seq(Entries) /\ Len(built') = Len(built) + 1
      /\ Len(built) \in Nat
      /\ \A i \in 1..Len(built) : built'[i] = built[i]
      /\ built'[Len(built) + 1] = e
  BY <1>2, <1>3, AppendProperties, LenProperties
<1>5. \A i \in 1..Len(built') : i \in 1..Len(built) \/ i = Len(built) + 1
  BY <1>4
<1>6. AllSaved(built')
  BY <1>2, <1>4, <1>5 DEF BeamInv, AllSaved
<1>7. AllFinal(beam) => AllFinal(built')
  BY <1>2, <1>3, <1>4, <1>5 DEF Building, AllFinal
<1>8. Building'
  <2>1. Len(built') = at' - 1 /\ at' <= Len(alternatives) + 1
    <3>1. Len(built) = at - 1 /\ Len(alternatives) \in Nat
      BY <1>3, LenProperties DEF Building, BeamInv, Heaps, Kept
    <3> QED BY <1>1, <1>3, <1>4, <3>1
  <2> QED BY <1>1, <1>3, <1>7, <2>1 DEF Building, AllFinal
<1>9. PhaseFacts'
  BY <1>1, <1>8 DEF PhaseFacts, BeamInv
<1>10. (Kept \in Heaps(OpenOnes))' /\ HeapKept(Kept)'
  BY <1>1, SameOpenOnes DEF BeamInv, Kept, Heaps, HeapKept
<1>11. at' \in Nat \ {0}
  BY <1>1, <1>3
<1> QED BY <1>1, <1>6, <1>9, <1>10, <1>11 DEF BeamInv, AllSaved

LEMMA EndRoundKeeps == ASSUME BeamInv, EndRound PROVE BeamInv'
<1> DEFINE done == \A i \in DOMAIN beam : Final(beam[i])
<1>1. /\ phase = "build" /\ at > Len(alternatives)
      /\ phase' = IF done THEN "return" ELSE "expand"
      /\ beam' = built
      /\ alternatives' = <<>> /\ built' = <<>> /\ at' = 1 /\ dropped' = 0
      /\ UNCHANGED <<system, asked, tree, embedded>>
  BY DEF EndRound, EndOf
<1>2. done => AllFinal(beam)
  BY LenProperties DEF BeamInv, AllSaved, AllFinal
<1> HIDE DEF done
<1>3. Building /\ asked = 0 /\ AllSaved(built) /\ at \in Nat
  BY <1>1 DEF BeamInv, PhaseFacts
<1>4. Len(built) = Len(alternatives) /\ Len(alternatives) # 0 /\ Len(alternatives) <= BeamSize
  <2>1. alternatives \in Seq(OpenOnes) /\ alternatives # <<>> /\ Len(alternatives) <= BeamSize
    BY <1>3 DEF BeamInv, Heaps, HeapKept, Kept, Building
  <2>2. Len(alternatives) \in Nat /\ Len(alternatives) # 0
    BY <2>1, EmptySeq, LenProperties
  <2>3. Len(built) = at - 1 /\ at <= Len(alternatives) + 1
    BY <1>3 DEF Building
  <2> QED BY <1>1, <1>3, <2>1, <2>2, <2>3
<1>5. built # <<>>
  BY <1>4
<1>6. AllSaved(beam)' /\ (Len(beam) <= BeamSize)' /\ AllSaved(built)'
  BY <1>1, <1>3, <1>4, NoEntries DEF AllSaved
<1>7. (Kept \in Heaps(OpenOnes))' /\ HeapKept(Kept)'
  <2>1. Kept' = [alts |-> <<>>, dropped |-> 0]
    BY <1>1 DEF Kept
  <2>2. Kept' \in Heaps(OpenOnes') /\ HeapKept(Kept')
    BY <2>1, NoEntries
  <2> QED BY <2>2 DEF Heaps, HeapKept
<1>8. (phase = "return" => AllFinal(beam))'
  BY <1>1, <1>2, <1>3 DEF Building, AllFinal
<1>9. PhaseFacts'
  BY <1>1, <1>3, <1>5, <1>8 DEF PhaseFacts
<1> QED BY <1>1, <1>6, <1>7, <1>9 DEF BeamInv

(* The tree that is handed back.                                           *)
LEMMA SavedTree ==
  ASSUME NEW e, SavedOK(e), Final(e)
  PROVE  IsTree(TreeOf(e)) /\ HasSingleRoot(TreeOf(e))
<1> DEFINE c == Conf(e, TreeOf(e))
           t == TreeOf(e)
<1>1. ConfOK(c) /\ c.stack = e.stack /\ c.buffer = e.buffer /\ c.head = e.head /\ c.deprel = e.deprel
  BY SavedShows
<1>2. t.head = e.head /\ t.deprel = e.deprel
  BY TreeTyped
<1> HIDE DEF c, t
<1>3. Final(c)
  BY <1>1 DEF Final
<1>4. IsTree(c) /\ HasSingleRoot(c)
  BY <1>1, <1>3, FinalTree
<1>5. IsTree(t) /\ HasSingleRoot(t)
  BY <1>1, <1>2, <1>4 DEF IsTree, HasSingleRoot
<1> QED BY <1>5 DEF t

LEMMA ReturnKeeps == ASSUME BeamInv, Return PROVE BeamInv'
<1> USE DEF Return
<1>1. AllFinal(beam) /\ AllSaved(beam) /\ beam # <<>>
  BY DEF BeamInv, PhaseFacts
<1> DEFINE i == BestOf(beam)
<1>2. i \in 1..Len(beam) /\ \A j \in 1..Len(beam) : beam[i].cost >= beam[j].cost
  BY <1>1, BestFacts
<1>3. tree' = TreeOf(beam[i])
  OBVIOUS
<1> HIDE DEF i
<1>4. IsTree(TreeOf(beam[i])) /\ HasSingleRoot(TreeOf(beam[i]))
  BY <1>1, <1>2, SavedTree DEF AllSaved, AllFinal
<1>5. IsTree(tree)' /\ HasSingleRoot(tree)'
  BY <1>3, <1>4 DEF IsTree, HasSingleRoot
<1>6. Handed'
  BY <1>2, <1>3, <1>5 DEF Handed
<1>7. PhaseFacts'
  BY <1>6 DEF PhaseFacts, BeamInv
<1>8. (Kept \in Heaps(OpenOnes))' /\ HeapKept(Kept)'
  BY SameOpenOnes DEF BeamInv, Kept, Heaps, HeapKept
<1> QED BY <1>7, <1>8 DEF BeamInv, AllSaved

-----------------------------------------------------------------------------
(* The theorems.                                                           *)

(* parse_beam_search: every configuration of the beam is sound, the heap   *)
(* holds continuations of the beam only, and it is not empty when the next *)
(* beam is built.                                                          *)
THEOREM BeamInvariance == Spec => []BeamInv
<1>1. BeamInv /\ [Next]_vars => BeamInv'
  <2> SUFFICES ASSUME BeamInv, [Next]_vars PROVE BeamInv'
    OBVIOUS
  <2>1. CASE UNCHANGED vars
    <3>1. (Kept \in Heaps(OpenOnes))' /\ HeapKept(Kept)'
      BY <2>1, SameOpenOnes DEF vars, BeamInv, Kept, Heaps, HeapKept
    <3>2. Asking' = Asking /\ Building' = Building /\ Handed' = Handed
      BY <2>1 DEF vars, Asking, Building, Handed, AllFinal
    <3>3. PhaseFacts'
      BY <2>1, <3>2 DEF vars, BeamInv, PhaseFacts, AllFinal
    <3> QED BY <2>1, <3>1, <3>3 DEF vars, BeamInv, AllSaved
  <2> QED BY <2>1, StartKeeps, CarryKeeps, RefreshKeeps, ClassifyKeeps, ClassifiedKeeps,
             ExpandedKeeps, BuildKeeps, EndRoundKeeps, ReturnKeeps DEF Next
<1> QED BY <1>1, BeamInitial, PTL DEF Spec

(* Sharing one tree mixes no configurations up: whatever the beam holds is *)
(* sound with the tree refresh_tree makes of it, and when the network is   *)
(* asked, tree and embeddings are those of the configuration asked about.  *)
THEOREM BeamSoundHolds == Spec => []BeamSound
<1>1. BeamInv => BeamSound
  <2> SUFFICES ASSUME BeamInv PROVE BeamSound
    OBVIOUS
  <2>1. ASSUME NEW s, AllSaved(s), NEW i \in DOMAIN s PROVE ConfOK(Conf(s[i], TreeOf(s[i])))
    <3>1. i \in 1..Len(s)
      BY <2>1, LenProperties DEF AllSaved
    <3> QED BY <2>1, <3>1, SavedShows DEF AllSaved
  <2>2. phase = "classify" => tree = TreeOf(beam[at]) /\ embedded = beam[at].deprel
    BY DEF BeamInv, PhaseFacts, Asking
  <2> QED BY <2>1, <2>2 DEF BeamSound, BeamInv
<1> QED BY <1>1, BeamInvariance, PTL

(* The vectors of beam and alternatives are never overrun, a beam in use   *)
(* is never empty, the heap keeps the best alternatives, and what is       *)
(* handed back is a tree, of a best configuration.                         *)
THEOREM BeamKeepsBestHolds == Spec => []BeamKeepsBest
<1>1. BeamInv => BeamKeepsBest
  <2> SUFFICES ASSUME BeamInv PROVE BeamKeepsBest
    OBVIOUS
  <2>1. DOMAIN beam = 1..Len(beam) /\ DOMAIN alternatives = 1..Len(alternatives)
    BY LenProperties DEF BeamInv, AllSaved, Heaps, Kept
  <2>2. /\ Len(beam) <= BeamSize /\ Len(alternatives) <= BeamSize
        /\ \A i \in DOMAIN alternatives : alternatives[i].cost >= dropped
    BY <2>1 DEF BeamInv, HeapKept, Kept
  <2>3. phase # "idle" => beam # <<>>
    BY DEF BeamInv, PhaseFacts
  <2>4. phase = "idle" /\ beam # <<>> => Handed
    BY DEF BeamInv, PhaseFacts
  <2> QED BY <2>1, <2>2, <2>3, <2>4 DEF BeamKeepsBest, Handed
<1> QED BY <1>1, BeamInvariance, PTL
=============================================================================
