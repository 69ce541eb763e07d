--------------------------- MODULE TransitionsProofs ---------------------------
(***************************************************************************)
(* Lemmas about the transition systems for every sentence length and every *)
(* set of labels: what a transition does to a sound configuration.         *)
(***************************************************************************)
EXTENDS Transitions, FiniteSetTheorems, SequenceTheorems, WellFoundedInduction, TLAPS

-----------------------------------------------------------------------------
(* A set of natural numbers has a least element.                           *)
LEMMA LeastNat ==
  ASSUME NEW T \in SUBSET Nat, T # {}
  PROVE  \E x \in T : \A y \in T : x <= y
<1>1. \E x \in T : \A y \in T : ~ (<<y, x>> \in OpToRel(<, Nat))
  BY NatLessThanWellFounded, WFMin
<1>2. PICK x \in T : \A y \in T : ~ (<<y, x>> \in OpToRel(<, Nat))
  BY <1>1
<1>3. \A y \in T : ~ (y < x)
  BY <1>2 DEF OpToRel
<1> QED BY <1>3

(* The backward loop of set_head always finds a place.                     *)
LEMMA InsertPlace ==
  ASSUME NEW list \in Seq(Nodes), NEW id \in Nodes
  PROVE  \E j \in 0..Len(list) :
           /\ j = 0 \/ list[j] <= id
           /\ \A k \in j + 1 .. Len(list) : list[k] > id
<1> DEFINE L == Len(list)
           T == {m \in 0..L : L - m = 0 \/ list[L - m] <= id}
<1>1. L \in Nat /\ \A k \in 1..L : list[k] \in Int
  BY LenProperties, SentenceAssumption DEF Nodes
<1>2. T \in SUBSET Nat /\ L \in T
  BY <1>1
<1>3. PICK m \in T : \A y \in T : m <= y
  BY <1>2, LeastNat
<1>4. \A k \in (L - m) + 1 .. L : list[k] > id
  <2> TAKE k \in (L - m) + 1 .. L
  <2>1. L - k \in 0..L /\ L - k < m /\ k \in 1..L /\ L - (L - k) = k
    BY <1>1, <1>3
  <2>2. L - k \notin T
    BY <1>1, <1>3, <2>1
  <2>3. ~(list[k] <= id)
    BY <2>1, <2>2
  <2> QED BY <1>1, <2>1, <2>3, SentenceAssumption DEF Nodes
<1>5. L - m \in 0..L /\ (L - m = 0 \/ list[L - m] <= id)
  BY <1>1, <1>3
<1> QED BY <1>4, <1>5

Ascending(list) == \A i, j \in 1..Len(list) : i < j => list[i] < list[j]

(* Inserting a new child keeps the list sorted and adds just that child.   *)
LEMMA InsertFacts ==
  ASSUME NEW list \in Seq(Nodes), NEW id \in Nodes
  PROVE  /\ InsertSorted(list, id) \in Seq(Nodes)
         /\ id \notin In(list) /\ Ascending(list) =>
              /\ In(InsertSorted(list, id)) = In(list) \cup {id}
              /\ Ascending(InsertSorted(list, id))
<1> DEFINE P(j) == /\ j = 0 \/ list[j] <= id
                   /\ \A k \in j + 1 .. Len(list) : list[k] > id
           i == CHOOSE j \in 0..Len(list) : P(j)
           front == SubSeq(list, 1, i)
           back == SubSeq(list, i + 1, Len(list))
           new == front \o <<id>> \o back
<1>1. /\ Len(list) \in Nat /\ id \in Int
      /\ \A k \in 1..Len(list) : list[k] \in Nodes /\ list[k] \in Int
  BY LenProperties, SentenceAssumption DEF Nodes
<1>2. i \in 0..Len(list) /\ P(i)
  <2>1. \E j \in 0..Len(list) : P(j)
    BY InsertPlace
  <2> QED BY <2>1
<1>3. InsertSorted(list, id) = IF i = 0 \/ list[i] < id THEN new ELSE list
  BY DEF InsertSorted
<1> HIDE DEF i
<1>4. /\ front \in Seq(Nodes) /\ Len(front) = i
      /\ \A j \in 1..i : front[j] = list[j]
  BY <1>1, <1>2, SubSeqProperties
<1>5. /\ back \in Seq(Nodes) /\ Len(back) = Len(list) - i
      /\ \A j \in 1..(Len(list) - i) : back[j] = list[i + j]
  <2>1. \A j \in (i + 1)..Len(list) : list[j] \in Nodes
    BY <1>1, <1>2
  <2>2. /\ back \in Seq(Nodes)
        /\ Len(back) = IF i + 1 <= Len(list) THEN Len(list) - (i + 1) + 1 ELSE 0
        /\ \A j \in 1..(Len(list) - (i + 1) + 1) : back[j] = list[(i + 1) + j - 1]
    BY <1>1, <1>2, <2>1, SubSeqProperties
  <2> QED BY <1>1, <1>2, <2>2
<1> HIDE DEF front, back
<1>6. /\ new \in Seq(Nodes) /\ Len(new) = Len(list) + 1
      /\ \A j \in 1..i : new[j] = list[j]
      /\ new[i + 1] = id
      /\ \A j \in (i + 2)..(Len(list) + 1) : new[j] = list[j - 1]
  <2> DEFINE one == front \o <<id>>
  <2>1. /\ <<id>> \in Seq(Nodes) /\ Len(<<id>>) = 1 /\ <<id>>[1] = id
    OBVIOUS
  <2>2. /\ one \in Seq(Nodes) /\ Len(one) = i + 1
        /\ \A j \in 1..(i + 1) : one[j] = IF j <= i THEN front[j] ELSE <<id>>[j - i]
    BY <1>2, <1>4, <2>1, ConcatProperties
  <2>3. /\ \A j \in 1..i : one[j] = list[j]
        /\ one[i + 1] = id
    BY <1>2, <1>4, <2>1, <2>2
  <2> HIDE DEF one
  <2> DEFINE two == one \o back
  <2>4. /\ two \in Seq(Nodes) /\ Len(two) = Len(one) + Len(back)
        /\ \A j \in 1..(Len(one) + Len(back)) :
             two[j] = IF j <= Len(one) THEN one[j] ELSE back[j - Len(one)]
    BY <1>5, <2>2, ConcatProperties
  <2>5. new = two
    BY DEF one
  <2> HIDE DEF two, new
  <2>6. Len(two) = Len(list) + 1
    BY <1>1, <1>2, <1>5, <2>2, <2>4
  <2>7. \A j \in (i + 2)..(Len(list) + 1) : two[j] = list[j - 1]
    <3> TAKE j \in (i + 2)..(Len(list) + 1)
    <3>1. two[j] = back[j - (i + 1)] /\ j - (i + 1) \in 1..(Len(list) - i)
      <4>1. j \in 1..(Len(one) + Len(back)) /\ ~(j <= Len(one)) /\ Len(one) = i + 1
        BY <1>1, <1>2, <1>5, <2>2
      <4>2. j - (i + 1) \in 1..(Len(list) - i)
        BY <1>1, <1>2
      <4> QED BY <2>4, <4>1, <4>2
    <3>2. back[j - (i + 1)] = list[i + (j - (i + 1))]
      BY <1>5, <3>1
    <3>3. i + (j - (i + 1)) = j - 1
      BY <1>1, <1>2
    <3> QED BY <3>1, <3>2, <3>3
  <2>8. \A j \in 1..(i + 1) : two[j] = one[j]
    <3> TAKE j \in 1..(i + 1)
    <3>1. j \in 1..(Len(one) + Len(back)) /\ j <= Len(one)
      BY <1>1, <1>2, <1>5, <2>2
    <3> QED BY <2>4, <3>1
  <2>9. \A j \in 1..i : two[j] = list[j]
    <3> TAKE j \in 1..i
    <3>1. j \in 1..(i + 1)
      BY <1>1, <1>2
    <3> QED BY <2>3, <2>8, <3>1
  <2>10. two[i + 1] = id
    <3>1. i + 1 \in 1..(i + 1)
      BY <1>1, <1>2
    <3> QED BY <2>3, <2>8, <3>1
  <2> QED BY <2>4, <2>5, <2>6, <2>7, <2>9, <2>10
<1> HIDE DEF new
<1>7. InsertSorted(list, id) \in Seq(Nodes)
  BY <1>3, <1>6
<1>8. ASSUME id \notin In(list), Ascending(list)
      PROVE  In(InsertSorted(list, id)) = In(list) \cup {id} /\ Ascending(InsertSorted(list, id))
  <2>1. i = 0 \/ list[i] < id
    BY <1>1, <1>2, <1>8 DEF In
  <2>2. InsertSorted(list, id) = new
    BY <1>3, <2>1
  <2>3. In(new) \subseteq In(list) \cup {id}
    <3> SUFFICES ASSUME NEW j \in 1..(Len(list) + 1) PROVE new[j] \in In(list) \cup {id}
      BY <1>6 DEF In
    <3>1. CASE j \in 1..i BY <1>1, <1>2, <1>6, <3>1 DEF In
    <3>2. CASE j = i + 1 BY <1>6, <3>2
    <3>3. CASE j \in (i + 2)..(Len(list) + 1)
      <4>1. new[j] = list[j - 1] /\ j - 1 \in 1..Len(list)
        BY <1>1, <1>2, <1>6, <3>3
      <4> QED BY <4>1 DEF In
    <3> QED BY <1>1, <1>2, <3>1, <3>2, <3>3
  <2>4. In(list) \cup {id} \subseteq In(new)
    <3>1. id \in In(new)
      <4>1. i + 1 \in 1..Len(new)
        BY <1>1, <1>2, <1>6
      <4> QED BY <1>6, <4>1 DEF In
    <3>2. ASSUME NEW j \in 1..Len(list) PROVE list[j] \in In(new)
      <4>1. CASE j <= i
        <5>1. j \in 1..Len(new) /\ new[j] = list[j]
          BY <1>1, <1>2, <1>6, <4>1
        <5> QED BY <5>1 DEF In
      <4>2. CASE j > i
        <5>1. j + 1 \in (i + 2)..(Len(list) + 1) /\ j + 1 \in 1..Len(new)
          BY <1>1, <1>2, <1>6, <4>2
        <5>2. new[j + 1] = list[(j + 1) - 1]
          BY <1>6, <5>1
        <5> QED BY <5>1, <5>2 DEF In
      <4> QED BY <1>1, <1>2, <4>1, <4>2
    <3> QED BY <3>1, <3>2 DEF In
  <2>5. Ascending(new)
    <3> SUFFICES ASSUME NEW j \in 1..(Len(list) + 1), NEW k \in 1..(Len(list) + 1), j < k
                 PROVE  new[j] < new[k]
      BY <1>6 DEF Ascending
    <3>1. CASE k <= i
      BY <1>1, <1>2, <1>6, <1>8, <3>1 DEF Ascending
    <3>2. CASE k = i + 1
      <4>1. new[k] = id /\ new[j] = list[j] /\ j \in 1..i /\ i \in 1..Len(list)
        BY <1>1, <1>2, <1>6, <3>2
      <4>2. j = i \/ list[j] < list[i]
        BY <1>1, <1>8, <4>1 DEF Ascending
      <4> QED BY <1>1, <1>2, <2>1, <4>1, <4>2
    <3>3. CASE k > i + 1
      <4>1. k \in (i + 2)..(Len(list) + 1) /\ k - 1 \in 1..Len(list) /\ k - 1 \in (i + 1)..Len(list)
        BY <1>1, <1>2, <3>3
      <4>2. new[k] = list[k - 1] /\ list[k - 1] > id
        BY <1>2, <1>6, <4>1
      <4>3. CASE j <= i
        <5>1. new[j] = list[j] /\ j \in 1..Len(list) /\ j < k - 1
          BY <1>1, <1>2, <1>6, <3>3, <4>3
        <5> QED BY <1>8, <4>1, <4>2, <5>1 DEF Ascending
      <4>4. CASE j = i + 1
        BY <1>1, <1>6, <4>1, <4>2, <4>4
      <4>5. CASE j > i + 1
        <5>1. j \in (i + 2)..(Len(list) + 1) /\ j - 1 \in 1..Len(list) /\ j - 1 < k - 1
          BY <1>1, <1>2, <4>1, <4>5
        <5>2. new[j] = list[j - 1]
          BY <1>6, <5>1
        <5> QED BY <1>8, <4>1, <4>2, <5>1, <5>2 DEF Ascending
      <4> QED BY <1>1, <1>2, <4>3, <4>4, <4>5
    <3> QED BY <1>1, <1>2, <3>1, <3>2, <3>3
  <2> QED BY <2>2, <2>3, <2>4, <2>5
<1> QED BY <1>7, <1>8

-----------------------------------------------------------------------------
(* What the vectors hold after the pops and pushes of the transitions.     *)
LEMMA SeqFacts ==
  ASSUME NEW s \in Seq(Nodes)
  PROVE  /\ Len(s) \in Nat
         /\ \A i \in 1..Len(s) : s[i] \in Nodes
         /\ \A n \in 0..Len(s) :
              /\ Pop(s, n) \in Seq(Nodes) /\ Len(Pop(s, n)) = Len(s) - n
              /\ \A i \in 1..(Len(s) - n) : Pop(s, n)[i] = s[i]
         /\ \A x \in Nodes :
              /\ Append(s, x) \in Seq(Nodes) /\ Len(Append(s, x)) = Len(s) + 1
              /\ \A i \in 1..Len(s) : Append(s, x)[i] = s[i]
              /\ Append(s, x)[Len(s) + 1] = x
<1>1. Len(s) \in Nat /\ \A i \in 1..Len(s) : s[i] \in Nodes
  BY LenProperties
<1>2. ASSUME NEW n \in 0..Len(s)
      PROVE  /\ Pop(s, n) \in Seq(Nodes) /\ Len(Pop(s, n)) = Len(s) - n
             /\ \A i \in 1..(Len(s) - n) : Pop(s, n)[i] = s[i]
  <2>1. \A i \in 1..(Len(s) - n) : s[i] \in Nodes
    BY <1>1
  <2>2. /\ SubSeq(s, 1, Len(s) - n) \in Seq(Nodes)
        /\ Len(SubSeq(s, 1, Len(s) - n)) =
             IF 1 <= Len(s) - n THEN (Len(s) - n) - 1 + 1 ELSE 0
        /\ \A i \in 1..((Len(s) - n) - 1 + 1) : SubSeq(s, 1, Len(s) - n)[i] = s[1 + i - 1]
    BY <1>1, <2>1, SubSeqProperties
  <2> QED BY <1>1, <2>2 DEF Pop
<1>3. ASSUME NEW x \in Nodes
      PROVE  /\ Append(s, x) \in Seq(Nodes) /\ Len(Append(s, x)) = Len(s) + 1
             /\ \A i \in 1..Len(s) : Append(s, x)[i] = s[i]
             /\ Append(s, x)[Len(s) + 1] = x
  BY AppendProperties
<1> QED BY <1>1, <1>2, <1>3

(* SetHead on a node without a head, field by field.                       *)
LEMMA SetHeadFields ==
  ASSUME NEW c \in Configurations, NEW id \in Nodes, NEW h \in Nodes, NEW l \in Labels,
         c.head[id] = -1
  PROVE  /\ SetHead(c, id, h, l) \in Configurations
         /\ SetHead(c, id, h, l).stack = c.stack
         /\ SetHead(c, id, h, l).buffer = c.buffer
         /\ SetHead(c, id, h, l).head = [c.head EXCEPT ![id] = h]
         /\ SetHead(c, id, h, l).deprel = [c.deprel EXCEPT ![id] = l]
         /\ SetHead(c, id, h, l).children = [c.children EXCEPT ![h] = InsertSorted(c.children[h], id)]
<1> DEFINE head == [c.head EXCEPT ![id] = h]
           deprel == [c.deprel EXCEPT ![id] = l]
           children == [c.children EXCEPT ![h] = InsertSorted(c.children[h], id)]
<1>1. /\ c.stack \in Seq(Nodes) /\ c.buffer \in Seq(Nodes)
      /\ c.head \in [Nodes -> Nodes \cup {-1}]
      /\ c.deprel \in [Nodes -> Labels \cup {NoLabel}]
      /\ c.children \in [Nodes -> Seq(Nodes)]
  BY DEF Configurations
<1>2. ~(c.head[id] >= 0)
  OBVIOUS
<1>3. SetHead(c, id, h, l) =
        [c EXCEPT !.head[id] = h, !.deprel[id] = l,
                  !.children = [c.children EXCEPT ![h] = InsertSorted(@, id)]]
  BY <1>2 DEF SetHead
<1>4. SetHead(c, id, h, l) =
        [stack |-> c.stack, buffer |-> c.buffer, head |-> head, deprel |-> deprel,
         children |-> children]
  BY <1>3 DEF Configurations
<1>5. head \in [Nodes -> Nodes \cup {-1}] /\ deprel \in [Nodes -> Labels \cup {NoLabel}]
  BY <1>1
<1>6. children \in [Nodes -> Seq(Nodes)]
  <2>1. InsertSorted(c.children[h], id) \in Seq(Nodes)
    BY <1>1, InsertFacts
  <2> QED BY <1>1, <2>1
<1> HIDE DEF head, deprel, children
<1> QED BY <1>1, <1>4, <1>5, <1>6 DEF Configurations, head, deprel, children

-----------------------------------------------------------------------------
(* Linking a node that leaves the stack, whatever the transition: head and *)
(* child are different nodes, the child had no head, and the head has none *)
(* yet, so that no cycle can close.                                        *)
LEMMA ArcStep ==
  ASSUME NEW c, ConfOK(c), ~Final(c),
         NEW d \in Configurations,
         d.head = c.head, d.deprel = c.deprel, d.children = c.children,
         NEW id \in Words, NEW h \in In(d.stack), NEW l \in Labels,
         id \in In(c.stack),
         In(d.stack) \cup In(d.buffer) = (In(c.stack) \cup In(c.buffer)) \ {id},
         In(d.stack) \cap In(d.buffer) = {},
         Injective(d.stack), Injective(d.buffer),
         Len(d.stack) >= 1, d.stack[1] = 0,
         SingleRoot => (l = RootLabel <=> h = 0),
         SingleRoot /\ l = RootLabel => d.buffer = <<>> /\ Len(d.stack) <= 1
  PROVE  /\ ConfOK(SetHead(d, id, h, l))
         /\ SetHead(d, id, h, l).deprel = [c.deprel EXCEPT ![id] = l]
         /\ ChildrenMatch(c) => ChildrenMatch(SetHead(d, id, h, l))
<1> DEFINE e == SetHead(d, id, h, l)
<1>1. /\ c.head \in [Nodes -> Nodes \cup {-1}]
      /\ c.deprel \in [Nodes -> Labels \cup {NoLabel}]
      /\ c.children \in [Nodes -> Seq(Nodes)]
      /\ d.stack \in Seq(Nodes) /\ d.buffer \in Seq(Nodes)
  BY DEF ConfOK, Configurations
<1>2. /\ id \in Nodes /\ h \in Nodes /\ -1 \notin Nodes /\ 0 \in Nodes
      /\ \A n \in Words : n \in Nodes /\ n # 0
      /\ \A n \in Nodes : n = 0 \/ n \in Words
  <2>1. Len(d.stack) \in Nat /\ \A i \in 1..Len(d.stack) : d.stack[i] \in Nodes
    BY <1>1, SeqFacts
  <2>2. h \in Nodes
    BY <2>1 DEF In
  <2> QED BY <2>2, SentenceAssumption DEF Words, Nodes
<1>3. c.head[id] = -1 /\ c.head[h] = -1 /\ h # id
  BY <1>2 DEF ConfOK, EachNodeOnce, Linked
<1>4. /\ e \in Configurations
      /\ e.stack = d.stack /\ e.buffer = d.buffer
      /\ e.head = [c.head EXCEPT ![id] = h]
      /\ e.deprel = [c.deprel EXCEPT ![id] = l]
      /\ e.children = [c.children EXCEPT ![h] = InsertSorted(c.children[h], id)]
  BY <1>2, <1>3, SetHeadFields
<1> HIDE DEF e
<1>5. /\ e.head[id] = h /\ e.deprel[id] = l
      /\ \A n \in Nodes \ {id} : e.head[n] = c.head[n] /\ e.deprel[n] = c.deprel[n]
  BY <1>1, <1>2, <1>4
<1>6. Linked(e) = Linked(c) \cup {id}
  BY <1>2, <1>5 DEF Linked
<1>7. RootAtBottom(e)
  <2>1. 0 \in In(d.stack)
    <3>1. Len(d.stack) \in Nat
      BY <1>1, SeqFacts
    <3>2. 1 \in 1..Len(d.stack)
      BY <3>1
    <3> QED BY <3>2 DEF In
  <2> QED BY <1>4, <2>1 DEF RootAtBottom
<1>8. EachNodeOnce(e)
  <2>1. Nodes \ Linked(c) = In(c.stack) \cup In(c.buffer)
    BY DEF ConfOK, EachNodeOnce
  <2>2. Nodes \ Linked(e) = In(d.stack) \cup In(d.buffer)
    BY <1>6, <2>1
  <2> QED BY <1>4, <2>2 DEF EachNodeOnce
<1>9. Acyclic(e)
  <2> SUFFICES ASSUME NEW S \in SUBSET Linked(e), S # {}
               PROVE  \E n \in S : e.head[n] \notin S
    BY DEF Acyclic
  <2>1. h \notin Linked(e)
    BY <1>3, <1>5, <1>2, <1>6 DEF Linked
  <2>2. CASE id \in S
    BY <1>5, <2>1, <2>2
  <2>3. CASE id \notin S
    <3>1. S \in SUBSET Linked(c)
      BY <1>6, <2>3
    <3>2. PICK n \in S : c.head[n] \notin S
      BY <3>1 DEF ConfOK, Acyclic
    <3>3. n \in Nodes \ {id}
      BY <2>3, <3>1, <3>2 DEF Linked
    <3> QED BY <1>5, <3>2, <3>3
  <2> QED BY <2>2, <2>3
<1>10. RootLast(e)
  <2> SUFFICES ASSUME SingleRoot, NEW n \in Words, e.head[n] = 0 \/ e.deprel[n] = RootLabel
               PROVE  /\ e.head[n] = 0 /\ e.deprel[n] = RootLabel
                      /\ Final(e)
                      /\ \A m \in Words : e.head[m] = 0 => m = n
    BY DEF RootLast
  <2>1. \A m \in Words : c.head[m] # 0 /\ c.deprel[m] # RootLabel
    BY DEF ConfOK, RootLast
  <2>2. \A m \in Words \ {id} : e.head[m] # 0 /\ e.deprel[m] # RootLabel
    BY <1>2, <1>5, <2>1
  <2>3. n = id /\ l = RootLabel /\ h = 0
    BY <1>5, <2>2
  <2> QED BY <1>4, <1>5, <2>2, <2>3 DEF Final
<1>11. LabelsMatchHeads(e)
  <2>1. l # NoLabel /\ h # -1
    BY <1>2, LabelsAssumption
  <2> QED BY <1>2, <1>5, <2>1 DEF ConfOK, LabelsMatchHeads
<1>12. ASSUME ChildrenMatch(c) PROVE ChildrenMatch(e)
  <2> DEFINE old == c.children[h]
             new == InsertSorted(old, id)
  <2>1. old \in Seq(Nodes)
    BY <1>1, <1>2
  <2>2. In(old) = {m \in Words : c.head[m] = h} /\ Ascending(old)
    BY <1>2, <1>12 DEF ChildrenMatch, Ascending
  <2>3. id \notin In(old)
    BY <1>2, <1>3, <2>2
  <2>4. In(new) = In(old) \cup {id} /\ Ascending(new)
    BY <1>2, <2>1, <2>2, <2>3, InsertFacts
  <2>5. e.children[h] = new
    BY <1>1, <1>2, <1>4
  <2> HIDE DEF old, new
  <2> SUFFICES ASSUME NEW n \in Nodes
               PROVE  /\ In(e.children[n]) = {m \in Words : e.head[m] = n}
                      /\ Ascending(e.children[n])
    BY DEF ChildrenMatch, Ascending
  <2>6. CASE n = h
    <3>1. {m \in Words : e.head[m] = h} = {m \in Words : c.head[m] = h} \cup {id}
      BY <1>2, <1>5
    <3> QED BY <2>2, <2>4, <2>5, <2>6, <3>1
  <2>7. CASE n # h
    <3>1. e.children[n] = c.children[n]
      BY <1>1, <1>2, <1>4, <2>7
    <3>2. {m \in Words : e.head[m] = n} = {m \in Words : c.head[m] = n}
      BY <1>2, <1>3, <1>5, <2>7
    <3>3. In(c.children[n]) = {m \in Words : c.head[m] = n} /\ Ascending(c.children[n])
      BY <1>12 DEF ChildrenMatch, Ascending
    <3> QED BY <3>1, <3>2, <3>3
  <2> QED BY <2>6, <2>7
<1>13. ConfOK(e)
  BY <1>4, <1>7, <1>8, <1>9, <1>10, <1>11 DEF ConfOK
<1> QED BY <1>4, <1>12, <1>13 DEF e

(* Moving nodes between stack and buffer leaves the tree as it is.         *)
LEMMA MoveStep ==
  ASSUME NEW c, ConfOK(c), ~Final(c),
         NEW d \in Configurations,
         d.head = c.head, d.deprel = c.deprel, d.children = c.children,
         In(d.stack) \cup In(d.buffer) = In(c.stack) \cup In(c.buffer),
         In(d.stack) \cap In(d.buffer) = {},
         Injective(d.stack), Injective(d.buffer),
         Len(d.stack) >= 1, d.stack[1] = 0
  PROVE  ConfOK(d) /\ (ChildrenMatch(c) => ChildrenMatch(d))
<1>1. Linked(d) = Linked(c)
  BY DEF Linked
<1>2. RootAtBottom(d)
  <2>1. Len(d.stack) \in Nat
    BY SeqFacts DEF Configurations
  <2>2. 1 \in 1..Len(d.stack)
    BY <2>1
  <2>3. 0 \in In(d.stack)
    BY <2>2 DEF In
  <2> QED BY <2>3 DEF RootAtBottom
<1>3. EachNodeOnce(d)
  BY <1>1 DEF ConfOK, EachNodeOnce
<1>4. Acyclic(d)
  BY <1>1 DEF ConfOK, Acyclic
<1>5. RootLast(d)
  BY DEF ConfOK, RootLast
<1>6. LabelsMatchHeads(d)
  BY DEF ConfOK, LabelsMatchHeads
<1>7. ChildrenMatch(c) => ChildrenMatch(d)
  BY DEF ChildrenMatch
<1> QED BY <1>2, <1>3, <1>4, <1>5, <1>6, <1>7 DEF ConfOK

-----------------------------------------------------------------------------
(* The contents of a vector after popping and after pushing.               *)
LEMMA PopContents ==
  ASSUME NEW s \in Seq(Nodes), Injective(s), NEW n \in 0..Len(s)
  PROVE  /\ Pop(s, n) \in Seq(Nodes) /\ Len(Pop(s, n)) = Len(s) - n
         /\ \A i \in 1..(Len(s) - n) : Pop(s, n)[i] = s[i]
         /\ Injective(Pop(s, n))
         /\ In(Pop(s, n)) = In(s) \ {Top(s, k) : k \in 1..n}
<1>1. /\ Len(s) \in Nat
      /\ Pop(s, n) \in Seq(Nodes) /\ Len(Pop(s, n)) = Len(s) - n
      /\ \A i \in 1..(Len(s) - n) : Pop(s, n)[i] = s[i]
  BY SeqFacts
<1>2. \A i \in 1..(Len(s) - n) : i \in 1..Len(s)
  BY <1>1
<1>3. Injective(Pop(s, n))
  BY <1>1, <1>2 DEF Injective
<1>4. In(Pop(s, n)) \subseteq In(s) \ {Top(s, k) : k \in 1..n}
  <2> SUFFICES ASSUME NEW i \in 1..(Len(s) - n), NEW k \in 1..n
               PROVE  s[i] \in In(s) /\ s[i] # Top(s, k)
    BY <1>1, <1>2 DEF In
  <2>1. Len(s) - k + 1 \in 1..Len(s) /\ i \in 1..Len(s) /\ i # Len(s) - k + 1
    BY <1>1
  <2> QED BY <2>1 DEF Injective, In, Top
<1>5. In(s) \ {Top(s, k) : k \in 1..n} \subseteq In(Pop(s, n))
  <2> SUFFICES ASSUME NEW i \in 1..Len(s), s[i] \notin {Top(s, k) : k \in 1..n}
               PROVE  s[i] \in In(Pop(s, n))
    BY DEF In
  <2>1. CASE i <= Len(s) - n
    <3>1. i \in 1..(Len(s) - n)
      BY <1>1, <2>1
    <3> QED BY <1>1, <3>1 DEF In
  <2>2. CASE i > Len(s) - n
    <3>1. Len(s) - i + 1 \in 1..n /\ Len(s) - (Len(s) - i + 1) + 1 = i
      BY <1>1, <2>2
    <3>2. Top(s, Len(s) - i + 1) = s[i]
      BY <3>1 DEF Top
    <3> QED BY <3>1, <3>2
  <2> QED BY <1>1, <2>1, <2>2
<1> QED BY <1>1, <1>3, <1>4, <1>5

LEMMA PushContents ==
  ASSUME NEW s \in Seq(Nodes), Injective(s), NEW x \in Nodes, x \notin In(s)
  PROVE  /\ Append(s, x) \in Seq(Nodes) /\ Len(Append(s, x)) = Len(s) + 1
         /\ \A i \in 1..Len(s) : Append(s, x)[i] = s[i]
         /\ Injective(Append(s, x))
         /\ In(Append(s, x)) = In(s) \cup {x}
<1> DEFINE a == Append(s, x)
<1>1. /\ Len(s) \in Nat
      /\ a \in Seq(Nodes) /\ Len(a) = Len(s) + 1
      /\ \A i \in 1..Len(s) : a[i] = s[i]
      /\ a[Len(s) + 1] = x
  BY SeqFacts
<1> HIDE DEF a
<1>2. \A i \in 1..(Len(s) + 1) : i \in 1..Len(s) \/ i = Len(s) + 1
  BY <1>1
<1>3. \A i \in 1..Len(s) : i \in 1..(Len(s) + 1)
  BY <1>1
<1>4. Len(s) + 1 \in 1..(Len(s) + 1)
  BY <1>1
<1>5. Injective(a)
  BY <1>1, <1>2 DEF Injective, In
<1>6. In(a) = In(s) \cup {x}
  BY <1>1, <1>2, <1>3, <1>4 DEF In
<1> QED BY <1>1, <1>5, <1>6 DEF a

(* The stack of a sound configuration, seen from its top.                  *)
LEMMA StackFacts ==
  ASSUME NEW c, ConfOK(c)
  PROVE  /\ c.stack \in Seq(Nodes) /\ Len(c.stack) \in Nat /\ Len(c.stack) >= 1
         /\ c.stack[1] = 0 /\ Injective(c.stack)
         /\ \A k \in 1..Len(c.stack) :
              /\ Top(c.stack, k) \in In(c.stack) /\ Top(c.stack, k) \in Nodes
              /\ k < Len(c.stack) => Top(c.stack, k) \in Words /\ Top(c.stack, k) # 0
              /\ \A j \in 1..Len(c.stack) : Top(c.stack, j) = Top(c.stack, k) => j = k
         /\ Top(c.stack, Len(c.stack)) = 0
<1> DEFINE s == c.stack
<1>1. s \in Seq(Nodes) /\ Injective(s) /\ s[1] = 0 /\ Len(s) >= 1
  BY DEF ConfOK, Configurations, EachNodeOnce, RootAtBottom
<1>2. Len(s) \in Nat /\ \A i \in 1..Len(s) : s[i] \in Nodes
  BY <1>1, SeqFacts
<1> HIDE DEF s
<1>3. ASSUME NEW k \in 1..Len(s)
      PROVE  /\ Top(s, k) \in In(s) /\ Top(s, k) \in Nodes
             /\ k < Len(s) => Top(s, k) \in Words /\ Top(s, k) # 0
             /\ \A j \in 1..Len(s) : Top(s, j) = Top(s, k) => j = k
  <2>1. \A j \in 1..Len(s) : Len(s) - j + 1 \in 1..Len(s)
    BY <1>2
  <2>2. Top(s, k) \in In(s) /\ Top(s, k) \in Nodes
    BY <1>2, <2>1 DEF Top, In
  <2>3. ASSUME k < Len(s) PROVE Top(s, k) \in Words /\ Top(s, k) # 0
    <3>1. Len(s) - k + 1 # 1 /\ 1 \in 1..Len(s)
      BY <1>2, <2>3
    <3>2. Top(s, k) # 0
      BY <1>1, <2>1, <3>1 DEF Injective, Top
    <3> QED BY <2>2, <3>2, SentenceAssumption DEF Nodes, Words
  <2>4. ASSUME NEW j \in 1..Len(s), Top(s, j) = Top(s, k) PROVE j = k
    <3>1. Len(s) - j + 1 = Len(s) - k + 1
      BY <1>1, <2>1, <2>4 DEF Injective, Top
    <3> QED BY <1>2, <3>1
  <2> QED BY <2>2, <2>3, <2>4
<1>4. Top(s, Len(s)) = 0
  <2>1. Len(s) - Len(s) + 1 = 1
    BY <1>2
  <2> QED BY <1>1, <2>1 DEF Top
<1> QED BY <1>1, <1>2, <1>3, <1>4 DEF s

Moved(c, S, B) == [c EXCEPT !.stack = S, !.buffer = B]

LEMMA MovedFields ==
  ASSUME NEW c \in Configurations, NEW S \in Seq(Nodes), NEW B \in Seq(Nodes)
  PROVE  /\ Moved(c, S, B) \in Configurations
         /\ Moved(c, S, B).stack = S /\ Moved(c, S, B).buffer = B
         /\ Moved(c, S, B).head = c.head /\ Moved(c, S, B).deprel = c.deprel
         /\ Moved(c, S, B).children = c.children
BY DEF Moved, Configurations

LEMMA MovedStack ==
  ASSUME NEW c \in Configurations, NEW S \in Seq(Nodes)
  PROVE  [c EXCEPT !.stack = S] = Moved(c, S, c.buffer)
BY DEF Moved, Configurations

(* The transitions, one by one.                                            *)
LEMMA ShiftStep ==
  ASSUME NEW c, ConfOK(c), c.buffer # <<>>
  PROVE  /\ ConfOK(Shift(c)) /\ (ChildrenMatch(c) => ChildrenMatch(Shift(c)))
         /\ Shift(c).deprel = c.deprel
<1> DEFINE x == Top(c.buffer, 1)
           S == Append(c.stack, x)
           B == Pop(c.buffer, 1)
<1>1. /\ c \in Configurations /\ c.stack \in Seq(Nodes) /\ c.buffer \in Seq(Nodes)
      /\ Injective(c.stack) /\ Injective(c.buffer) /\ In(c.stack) \cap In(c.buffer) = {}
  BY DEF ConfOK, Configurations, EachNodeOnce
<1>2. Len(c.buffer) \in Nat /\ Len(c.buffer) >= 1 /\ 1 \in 0..Len(c.buffer)
  BY <1>1, SeqFacts, EmptySeq
<1>3. x \in In(c.buffer) /\ x \in Nodes /\ x \notin In(c.stack)
  <2>1. Len(c.buffer) - 1 + 1 \in 1..Len(c.buffer)
    BY <1>2
  <2>2. x \in In(c.buffer) /\ x \in Nodes
    BY <1>1, <2>1, SeqFacts DEF In, Top
  <2> QED BY <1>1, <2>2
<1>4. B \in Seq(Nodes) /\ Injective(B) /\ In(B) = In(c.buffer) \ {x}
  <2>1. {Top(c.buffer, k) : k \in 1..1} = {x}
    OBVIOUS
  <2> QED BY <1>1, <1>2, <2>1, PopContents
<1>5. /\ S \in Seq(Nodes) /\ Injective(S) /\ In(S) = In(c.stack) \cup {x}
      /\ Len(S) = Len(c.stack) + 1 /\ \A i \in 1..Len(c.stack) : S[i] = c.stack[i]
  BY <1>1, <1>3, PushContents
<1> HIDE DEF x, S, B
<1>6. Len(S) >= 1 /\ S[1] = 0
  <2>1. 1 \in 1..Len(c.stack) /\ c.stack[1] = 0
    BY StackFacts
  <2> QED BY <1>5, <2>1, StackFacts
<1> DEFINE d == Moved(c, S, B)
<1>7. /\ d \in Configurations /\ d.stack = S /\ d.buffer = B
      /\ d.head = c.head /\ d.deprel = c.deprel /\ d.children = c.children
  BY <1>1, <1>4, <1>5, MovedFields
<1>8. Shift(c) = d
  BY DEF Shift, Moved, S, B, x
<1>9. ~Final(c)
  BY DEF Final
<1> HIDE DEF d
<1>10. In(d.stack) \cup In(d.buffer) = In(c.stack) \cup In(c.buffer)
  BY <1>3, <1>4, <1>5, <1>7
<1>11. In(d.stack) \cap In(d.buffer) = {}
  BY <1>1, <1>3, <1>4, <1>5, <1>7
<1> QED BY <1>4, <1>5, <1>6, <1>7, <1>8, <1>9, <1>10, <1>11, MoveStep

LEMMA SwapStep ==
  ASSUME NEW c, ConfOK(c), SwapApplicable(c)
  PROVE  /\ ConfOK(Swap(c)) /\ (ChildrenMatch(c) => ChildrenMatch(Swap(c)))
         /\ Swap(c).deprel = c.deprel
<1> DEFINE x == Top(c.stack, 1)
           y == Top(c.stack, 2)
           P == Pop(c.stack, 2)
           S == Append(P, x)
           B == Append(c.buffer, y)
<1>1. /\ c \in Configurations /\ c.stack \in Seq(Nodes) /\ c.buffer \in Seq(Nodes)
      /\ Injective(c.stack) /\ Injective(c.buffer) /\ In(c.stack) \cap In(c.buffer) = {}
  BY DEF ConfOK, Configurations, EachNodeOnce
<1>2. Len(c.stack) \in Nat /\ Len(c.stack) >= 3
  BY StackFacts DEF SwapApplicable
<1>3. 1 \in 1..Len(c.stack) /\ 2 \in 1..Len(c.stack) /\ 2 \in 0..Len(c.stack)
  BY <1>2
<1>4. x \in Nodes /\ y \in Nodes /\ x # y /\ x \in In(c.stack) /\ y \in In(c.stack)
  BY <1>3, StackFacts
<1>5. /\ P \in Seq(Nodes) /\ Len(P) = Len(c.stack) - 2 /\ Injective(P)
      /\ \A i \in 1..(Len(c.stack) - 2) : P[i] = c.stack[i]
      /\ In(P) = In(c.stack) \ {x, y}
  <2>1. {Top(c.stack, k) : k \in 1..2} = {x, y}
    OBVIOUS
  <2> QED BY <1>1, <1>3, <2>1, PopContents
<1> HIDE DEF x, y, P
<1>6. /\ S \in Seq(Nodes) /\ Injective(S) /\ In(S) = In(P) \cup {x}
      /\ Len(S) = Len(P) + 1 /\ \A i \in 1..Len(P) : S[i] = P[i]
  BY <1>4, <1>5, PushContents
<1>7. B \in Seq(Nodes) /\ Injective(B) /\ In(B) = In(c.buffer) \cup {y}
  BY <1>1, <1>4, PushContents
<1> HIDE DEF S, B
<1>8. Len(S) >= 1 /\ S[1] = 0
  <2>1. 1 \in 1..(Len(c.stack) - 2) /\ 1 \in 1..Len(P)
    BY <1>2, <1>5
  <2> QED BY <1>2, <1>5, <1>6, <2>1, StackFacts
<1> DEFINE d == Moved(c, S, B)
<1>9. /\ d \in Configurations /\ d.stack = S /\ d.buffer = B
      /\ d.head = c.head /\ d.deprel = c.deprel /\ d.children = c.children
  BY <1>1, <1>6, <1>7, MovedFields
<1>10. Swap(c) = d
  BY DEF Swap, Moved, S, B, P, x, y
<1>11. ~Final(c)
  BY <1>2 DEF Final
<1> HIDE DEF d
<1>12. In(d.stack) \cup In(d.buffer) = In(c.stack) \cup In(c.buffer)
  BY <1>4, <1>5, <1>6, <1>7, <1>9
<1>13. In(d.stack) \cap In(d.buffer) = {}
  BY <1>1, <1>4, <1>5, <1>6, <1>7, <1>9
<1> QED BY <1>6, <1>7, <1>8, <1>9, <1>10, <1>11, <1>12, <1>13, MoveStep

(* Left arc 2 is what is left after three pops and two pushes.             *)
LEMMA PushTwo ==
  ASSUME NEW s \in Seq(Nodes), NEW x \in Nodes, NEW y \in Nodes
  PROVE  s \o <<y, x>> = Append(Append(s, y), x)
<1> DEFINE a == s \o <<y, x>>
           b == Append(Append(s, y), x)
<1>1. <<y, x>> \in Seq(Nodes) /\ Len(<<y, x>>) = 2 /\ <<y, x>>[1] = y /\ <<y, x>>[2] = x
  OBVIOUS
<1>2. Len(s) \in Nat
  BY SeqFacts
<1>3. /\ a \in Seq(Nodes) /\ Len(a) = Len(s) + Len(<<y, x>>)
      /\ \A i \in 1..(Len(s) + Len(<<y, x>>)) :
           a[i] = IF i <= Len(s) THEN s[i] ELSE <<y, x>>[i - Len(s)]
  BY <1>1, ConcatProperties
<1> HIDE DEF a
<1> DEFINE t == Append(s, y)
<1>4. /\ t \in Seq(Nodes) /\ Len(t) = Len(s) + 1
      /\ \A i \in 1..Len(s) : t[i] = s[i]
      /\ t[Len(s) + 1] = y
  BY SeqFacts
<1> HIDE DEF t
<1>5. b = Append(t, x)
  BY DEF t
<1> HIDE DEF b
<1>6. /\ b \in Seq(Nodes) /\ Len(b) = Len(t) + 1
      /\ \A i \in 1..Len(t) : b[i] = t[i]
      /\ b[Len(t) + 1] = x
  BY <1>4, <1>5, SeqFacts
<1>7. Len(a) = Len(b)
  BY <1>1, <1>2, <1>3, <1>4, <1>6
<1>8. ASSUME NEW i \in 1..Len(a) PROVE a[i] = b[i]
  <2>1. i \in 1..(Len(s) + Len(<<y, x>>)) /\ i \in 1..(Len(s) + 2)
    BY <1>1, <1>2, <1>3
  <2>2. CASE i <= Len(s)
    <3>1. a[i] = s[i]
      BY <1>3, <2>1, <2>2
    <3>2. i \in 1..Len(s) /\ i \in 1..Len(t)
      BY <1>2, <1>4, <2>1, <2>2
    <3> QED BY <1>4, <1>6, <3>1, <3>2
  <2>3. CASE i = Len(s) + 1
    <3>1. ~(i <= Len(s)) /\ i - Len(s) = 1 /\ i \in 1..Len(t)
      BY <1>2, <1>4, <2>3
    <3>2. a[i] = y
      BY <1>1, <1>3, <2>1, <3>1
    <3> QED BY <1>4, <1>6, <2>3, <3>1, <3>2
  <2>4. CASE i = Len(s) + 2
    <3>1. ~(i <= Len(s)) /\ i - Len(s) = 2 /\ i = Len(t) + 1
      BY <1>2, <1>4, <2>4
    <3>2. a[i] = x
      BY <1>1, <1>3, <2>1, <3>1
    <3> QED BY <1>6, <3>1, <3>2
  <2> QED BY <1>2, <2>1, <2>2, <2>3, <2>4
<1>9. a = b
  BY <1>3, <1>6, <1>7, <1>8, SeqEqual
<1> QED BY <1>9 DEF a, b

LEMMA LeftStep ==
  ASSUME NEW c, ConfOK(c), NEW l \in Labels, LeftApplicable(c, l)
  PROVE  /\ ConfOK(LeftArc(c, l)) /\ (ChildrenMatch(c) => ChildrenMatch(LeftArc(c, l)))
         /\ LeftArc(c, l).deprel = [c.deprel EXCEPT ![Top(c.stack, 2)] = l]
         /\ Top(c.stack, 2) \in Words
<1> DEFINE x == Top(c.stack, 1)
           y == Top(c.stack, 2)
           P == Pop(c.stack, 2)
           S == Append(P, x)
<1>1. /\ c \in Configurations /\ c.stack \in Seq(Nodes) /\ c.buffer \in Seq(Nodes)
      /\ Injective(c.stack) /\ Injective(c.buffer) /\ In(c.stack) \cap In(c.buffer) = {}
  BY DEF ConfOK, Configurations, EachNodeOnce
<1>2. Len(c.stack) \in Nat /\ Len(c.stack) >= 3
  BY StackFacts DEF LeftApplicable
<1>3. 1 \in 1..Len(c.stack) /\ 2 \in 1..Len(c.stack) /\ 2 \in 0..Len(c.stack)
  BY <1>2
<1>4. /\ x \in Nodes /\ y \in Words /\ x # y /\ x # 0
      /\ x \in In(c.stack) /\ y \in In(c.stack)
  BY <1>2, <1>3, StackFacts
<1>5. /\ P \in Seq(Nodes) /\ Len(P) = Len(c.stack) - 2 /\ Injective(P)
      /\ \A i \in 1..(Len(c.stack) - 2) : P[i] = c.stack[i]
      /\ In(P) = In(c.stack) \ {x, y}
  <2>1. {Top(c.stack, k) : k \in 1..2} = {x, y}
    OBVIOUS
  <2> QED BY <1>1, <1>3, <2>1, PopContents
<1> HIDE DEF x, y, P
<1>6. /\ S \in Seq(Nodes) /\ Injective(S) /\ In(S) = In(P) \cup {x}
      /\ Len(S) = Len(P) + 1 /\ \A i \in 1..Len(P) : S[i] = P[i]
  BY <1>4, <1>5, PushContents
<1> HIDE DEF S
<1>7. Len(S) >= 1 /\ S[1] = 0
  <2>1. 1 \in 1..(Len(c.stack) - 2) /\ 1 \in 1..Len(P)
    BY <1>2, <1>5
  <2> QED BY <1>2, <1>5, <1>6, <2>1, StackFacts
<1> DEFINE d == Moved(c, S, c.buffer)
<1>8. /\ d \in Configurations /\ d.stack = S /\ d.buffer = c.buffer
      /\ d.head = c.head /\ d.deprel = c.deprel /\ d.children = c.children
  <2> DEFINE B == c.buffer
  <2>1. B \in Seq(Nodes) /\ S \in Seq(Nodes) /\ c \in Configurations
    BY <1>1, <1>6
  <2>2. d = Moved(c, S, B)
    OBVIOUS
  <2> HIDE DEF B, d
  <2>3. /\ d \in Configurations /\ d.stack = S /\ d.buffer = B
        /\ d.head = c.head /\ d.deprel = c.deprel /\ d.children = c.children
    BY <2>1, <2>2, MovedFields
  <2> QED BY <2>3 DEF B
<1>9. LeftArc(c, l) = SetHead(d, y, x, l)
  BY <1>1, <1>6, MovedStack DEF LeftArc, S, P, x, y
<1>10. ~Final(c)
  BY <1>2 DEF Final
<1>11. SingleRoot => l # RootLabel
  BY DEF LeftApplicable
<1> HIDE DEF d
<1>12. In(d.stack) \cup In(d.buffer) = (In(c.stack) \cup In(c.buffer)) \ {y}
  BY <1>1, <1>4, <1>5, <1>6, <1>8
<1>13. In(d.stack) \cap In(d.buffer) = {} /\ x \in In(d.stack)
  BY <1>1, <1>4, <1>5, <1>6, <1>8
<1> QED BY <1>1, <1>4, <1>6, <1>7, <1>8, <1>9, <1>10, <1>11, <1>12, <1>13, ArcStep DEF y

LEMMA RightStep ==
  ASSUME NEW c, ConfOK(c), NEW l \in Labels, RightApplicable(c, l)
  PROVE  /\ ConfOK(RightArc(c, l)) /\ (ChildrenMatch(c) => ChildrenMatch(RightArc(c, l)))
         /\ RightArc(c, l).deprel = [c.deprel EXCEPT ![Top(c.stack, 1)] = l]
         /\ Top(c.stack, 1) \in Words
<1> DEFINE x == Top(c.stack, 1)
           y == Top(c.stack, 2)
           S == Pop(c.stack, 1)
<1>1. /\ c \in Configurations /\ c.stack \in Seq(Nodes) /\ c.buffer \in Seq(Nodes)
      /\ Injective(c.stack) /\ Injective(c.buffer) /\ In(c.stack) \cap In(c.buffer) = {}
  BY DEF ConfOK, Configurations, EachNodeOnce
<1>2. Len(c.stack) \in Nat /\ Len(c.stack) >= 2
  <2>1. Len(c.stack) \in Nat
    BY StackFacts
  <2>2. Len(c.stack) = 2 \/ Len(c.stack) > 2 \/ Len(c.stack) >= 2
    BY DEF RightApplicable
  <2>3. \A n \in Nat : n = 2 \/ n > 2 \/ n >= 2 => n >= 2
    OBVIOUS
  <2> QED BY <2>1, <2>2, <2>3
<1>3. 1 \in 1..Len(c.stack) /\ 2 \in 1..Len(c.stack) /\ 1 \in 0..Len(c.stack)
  BY <1>2
<1>4. x \in Words /\ y # x /\ x \in In(c.stack) /\ y \in In(c.stack)
  BY <1>2, <1>3, StackFacts
<1>5. /\ S \in Seq(Nodes) /\ Len(S) = Len(c.stack) - 1 /\ Injective(S)
      /\ \A i \in 1..(Len(c.stack) - 1) : S[i] = c.stack[i]
      /\ In(S) = In(c.stack) \ {x}
  <2>1. {Top(c.stack, k) : k \in 1..1} = {x}
    OBVIOUS
  <2> QED BY <1>1, <1>3, <2>1, PopContents
<1>6. SingleRoot => (l = RootLabel <=> y = 0)
  <2>1. ASSUME SingleRoot, l = RootLabel PROVE y = 0
    <3>1. Len(c.stack) = 2
      BY <2>1 DEF RightApplicable
    <3> QED BY <3>1, StackFacts
  <2>2. ASSUME SingleRoot, l # RootLabel PROVE y # 0
    <3>1. 2 < Len(c.stack)
      BY <2>2, <1>2 DEF RightApplicable
    <3> QED BY <1>3, <3>1, StackFacts
  <2> QED BY <2>1, <2>2
<1> HIDE DEF x, y, S
<1>7. Len(S) >= 1 /\ S[1] = 0
  <2>1. 1 \in 1..(Len(c.stack) - 1)
    BY <1>2
  <2> QED BY <1>2, <1>5, <2>1, StackFacts
<1>8. SingleRoot /\ l = RootLabel => c.buffer = <<>> /\ Len(S) <= 1
  <2>1. ASSUME SingleRoot, l = RootLabel PROVE Len(c.stack) = 2 /\ c.buffer = <<>>
    BY <2>1 DEF RightApplicable
  <2>2. Len(c.stack) = 2 => Len(S) <= 1
    BY <1>5
  <2> QED BY <2>1, <2>2
<1> DEFINE d == Moved(c, S, c.buffer)
<1>9. /\ d \in Configurations /\ d.stack = S /\ d.buffer = c.buffer
      /\ d.head = c.head /\ d.deprel = c.deprel /\ d.children = c.children
  <2> DEFINE B == c.buffer
  <2>1. B \in Seq(Nodes) /\ S \in Seq(Nodes) /\ c \in Configurations
    BY <1>1, <1>5
  <2>2. d = Moved(c, S, B)
    OBVIOUS
  <2> HIDE DEF B, d
  <2>3. /\ d \in Configurations /\ d.stack = S /\ d.buffer = B
        /\ d.head = c.head /\ d.deprel = c.deprel /\ d.children = c.children
    BY <2>1, <2>2, MovedFields
  <2> QED BY <2>3 DEF B
<1>10. RightArc(c, l) = SetHead(d, x, y, l)
  BY <1>1, <1>5, MovedStack DEF RightArc, S, x, y
<1>11. ~Final(c)
  BY <1>2 DEF Final
<1> HIDE DEF d
<1>12. In(d.stack) \cup In(d.buffer) = (In(c.stack) \cup In(c.buffer)) \ {x}
  BY <1>1, <1>4, <1>5, <1>9
<1>13. In(d.stack) \cap In(d.buffer) = {} /\ y \in In(d.stack)
  BY <1>1, <1>4, <1>5, <1>9
<1> QED BY <1>1, <1>4, <1>5, <1>6, <1>7, <1>8, <1>9, <1>10, <1>11, <1>12, <1>13, ArcStep DEF x

LEMMA Left2Step ==
  ASSUME NEW c, ConfOK(c), NEW l \in Labels, Left2Applicable(c, l)
  PROVE  /\ ConfOK(LeftArc2(c, l)) /\ (ChildrenMatch(c) => ChildrenMatch(LeftArc2(c, l)))
         /\ LeftArc2(c, l).deprel = [c.deprel EXCEPT ![Top(c.stack, 3)] = l]
         /\ Top(c.stack, 3) \in Words
<1> DEFINE x == Top(c.stack, 1)
           y == Top(c.stack, 2)
           z == Top(c.stack, 3)
           P == Pop(c.stack, 3)
           T == Append(P, y)
           S == Append(T, x)
<1>1. /\ c \in Configurations /\ c.stack \in Seq(Nodes) /\ c.buffer \in Seq(Nodes)
      /\ Injective(c.stack) /\ Injective(c.buffer) /\ In(c.stack) \cap In(c.buffer) = {}
  BY DEF ConfOK, Configurations, EachNodeOnce
<1>2. Len(c.stack) \in Nat /\ Len(c.stack) >= 4
  <2>1. Len(c.stack) \in Nat /\ Len(c.stack) >= 3 /\ Top(c.stack, 3) # 0
    BY StackFacts DEF Left2Applicable
  <2>2. Len(c.stack) # 3
    BY <2>1, StackFacts
  <2>3. \A n \in Nat : n >= 3 /\ n # 3 => n >= 4
    OBVIOUS
  <2> QED BY <2>1, <2>2, <2>3
<1>3. 1 \in 1..Len(c.stack) /\ 2 \in 1..Len(c.stack) /\ 3 \in 1..Len(c.stack) /\ 3 \in 0..Len(c.stack)
  BY <1>2
<1>4. /\ x \in Nodes /\ y \in Nodes /\ z \in Words /\ x # y /\ x # z /\ y # z /\ x # 0
      /\ x \in In(c.stack) /\ y \in In(c.stack) /\ z \in In(c.stack)
  BY <1>2, <1>3, StackFacts
<1>5. /\ P \in Seq(Nodes) /\ Len(P) = Len(c.stack) - 3 /\ Injective(P)
      /\ \A i \in 1..(Len(c.stack) - 3) : P[i] = c.stack[i]
      /\ In(P) = In(c.stack) \ {x, y, z}
  <2>1. {Top(c.stack, k) : k \in 1..3} = {x, y, z}
    OBVIOUS
  <2> QED BY <1>1, <1>3, <2>1, PopContents
<1> HIDE DEF x, y, z, P
<1>6. /\ T \in Seq(Nodes) /\ Injective(T) /\ In(T) = In(P) \cup {y}
      /\ Len(T) = Len(P) + 1 /\ \A i \in 1..Len(P) : T[i] = P[i]
  BY <1>4, <1>5, PushContents
<1> HIDE DEF T
<1>7. /\ S \in Seq(Nodes) /\ Injective(S) /\ In(S) = In(T) \cup {x}
      /\ Len(S) = Len(T) + 1 /\ \A i \in 1..Len(T) : S[i] = T[i]
  BY <1>4, <1>5, <1>6, PushContents
<1> HIDE DEF S
<1>8. Len(S) >= 1 /\ S[1] = 0
  <2>1. 1 \in 1..(Len(c.stack) - 3) /\ 1 \in 1..Len(P) /\ 1 \in 1..Len(T)
    BY <1>2, <1>5, <1>6
  <2>2. S[1] = c.stack[1] /\ c.stack[1] = 0
    BY <1>5, <1>6, <1>7, <2>1, StackFacts
  <2> QED BY <1>2, <1>5, <1>6, <1>7, <2>2
<1> DEFINE d == Moved(c, S, c.buffer)
<1>9. /\ d \in Configurations /\ d.stack = S /\ d.buffer = c.buffer
      /\ d.head = c.head /\ d.deprel = c.deprel /\ d.children = c.children
  <2> DEFINE B == c.buffer
  <2>1. B \in Seq(Nodes) /\ S \in Seq(Nodes) /\ c \in Configurations
    BY <1>1, <1>7
  <2>2. d = Moved(c, S, B)
    OBVIOUS
  <2> HIDE DEF B, d
  <2>3. /\ d \in Configurations /\ d.stack = S /\ d.buffer = B
        /\ d.head = c.head /\ d.deprel = c.deprel /\ d.children = c.children
    BY <2>1, <2>2, MovedFields
  <2> QED BY <2>3 DEF B
<1>10. LeftArc2(c, l) = SetHead(d, z, x, l)
  <2>1. P \o <<y, x>> = S
    BY <1>4, <1>5, PushTwo, SentenceAssumption DEF S, T
  <2>2. LeftArc2(c, l) = SetHead([c EXCEPT !.stack = P \o <<y, x>>], z, x, l)
    BY DEF LeftArc2, P, x, y, z
  <2> QED BY <1>1, <1>7, <2>1, <2>2, MovedStack
<1>11. ~Final(c)
  BY <1>2 DEF Final
<1>12. SingleRoot => l # RootLabel
  BY DEF Left2Applicable
<1> HIDE DEF d
<1>13. In(d.stack) \cup In(d.buffer) = (In(c.stack) \cup In(c.buffer)) \ {z}
  BY <1>1, <1>4, <1>5, <1>6, <1>7, <1>9
<1>14. In(d.stack) \cap In(d.buffer) = {} /\ x \in In(d.stack)
  BY <1>1, <1>4, <1>5, <1>6, <1>7, <1>9
<1> QED BY <1>1, <1>4, <1>7, <1>8, <1>9, <1>10, <1>11, <1>12, <1>13, <1>14, ArcStep DEF z

LEMMA Right2Step ==
  ASSUME NEW c, ConfOK(c), NEW l \in Labels, Right2Applicable(c, l)
  PROVE  /\ ConfOK(RightArc2(c, l)) /\ (ChildrenMatch(c) => ChildrenMatch(RightArc2(c, l)))
         /\ RightArc2(c, l).deprel = [c.deprel EXCEPT ![Top(c.stack, 1)] = l]
         /\ Top(c.stack, 1) \in Words
<1> DEFINE x == Top(c.stack, 1)
           y == Top(c.stack, 2)
           z == Top(c.stack, 3)
           S == Pop(c.stack, 2)
           B == Append(c.buffer, y)
<1>1. /\ c \in Configurations /\ c.stack \in Seq(Nodes) /\ c.buffer \in Seq(Nodes)
      /\ Injective(c.stack) /\ Injective(c.buffer) /\ In(c.stack) \cap In(c.buffer) = {}
  BY DEF ConfOK, Configurations, EachNodeOnce
<1>2. /\ Len(c.stack) \in Nat /\ Len(c.stack) >= 3 /\ (SingleRoot => Len(c.stack) >= 4)
  <2>1. Len(c.stack) \in Nat
    BY StackFacts
  <2> QED BY <2>1 DEF Right2Applicable
<1>3. 1 \in 1..Len(c.stack) /\ 2 \in 1..Len(c.stack) /\ 3 \in 1..Len(c.stack) /\ 2 \in 0..Len(c.stack)
  BY <1>2
<1>4. /\ x \in Words /\ y \in Nodes /\ x # y /\ x # z /\ y # z
      /\ x \in In(c.stack) /\ y \in In(c.stack) /\ z \in In(c.stack)
      /\ SingleRoot => z # 0
  BY <1>2, <1>3, StackFacts
<1>5. /\ S \in Seq(Nodes) /\ Len(S) = Len(c.stack) - 2 /\ Injective(S)
      /\ \A i \in 1..(Len(c.stack) - 2) : S[i] = c.stack[i]
      /\ In(S) = In(c.stack) \ {x, y}
  <2>1. {Top(c.stack, k) : k \in 1..2} = {x, y}
    OBVIOUS
  <2> QED BY <1>1, <1>3, <2>1, PopContents
<1> HIDE DEF x, y, z, S
<1>6. B \in Seq(Nodes) /\ Injective(B) /\ In(B) = In(c.buffer) \cup {y}
  BY <1>1, <1>4, PushContents
<1> HIDE DEF B
<1>7. Len(S) >= 1 /\ S[1] = 0
  <2>1. 1 \in 1..(Len(c.stack) - 2)
    BY <1>2
  <2> QED BY <1>2, <1>5, <2>1, StackFacts
<1> DEFINE d == Moved(c, S, B)
<1>8. /\ d \in Configurations /\ d.stack = S /\ d.buffer = B
      /\ d.head = c.head /\ d.deprel = c.deprel /\ d.children = c.children
  BY <1>1, <1>5, <1>6, MovedFields
<1>9. RightArc2(c, l) = SetHead(d, x, z, l)
  BY DEF RightArc2, Moved, S, B, x, y, z
<1>10. ~Final(c)
  BY <1>2 DEF Final
<1>11. SingleRoot => l # RootLabel
  BY DEF Right2Applicable
<1> HIDE DEF d
<1>12. In(d.stack) \cup In(d.buffer) = (In(c.stack) \cup In(c.buffer)) \ {x}
  BY <1>1, <1>4, <1>5, <1>6, <1>8
<1>13. In(d.stack) \cap In(d.buffer) = {} /\ z \in In(d.stack)
  BY <1>1, <1>4, <1>5, <1>6, <1>8
<1> QED BY <1>4, <1>5, <1>6, <1>7, <1>8, <1>9, <1>10, <1>11, <1>12, <1>13, ArcStep DEF x

-----------------------------------------------------------------------------
(* Every applicable transition keeps a configuration sound, and changes    *)
(* the deprel of the node it returns only.                                 *)
LEMMA PerformStep ==
  ASSUME NEW c, ConfOK(c), NEW s, NEW t \in Transition(s), Applicable(c, t)
  PROVE  /\ ConfOK(Perform(c, t))
         /\ ChildrenMatch(c) => ChildrenMatch(Perform(c, t))
         /\ LinkedBy(c, t) = -1 => Perform(c, t).deprel = c.deprel
         /\ LinkedBy(c, t) # -1 =>
              /\ LinkedBy(c, t) \in Words
              /\ Perform(c, t).deprel = [c.deprel EXCEPT ![LinkedBy(c, t)] = t.label]
<1>1. /\ t.kind \in {"shift", "swap", "left", "right", "left2", "right2"}
      /\ t.kind \in {"left", "right", "left2", "right2"} => t.label \in Labels
  BY DEF Transition, Unlabelled, Labelled
<1>2. \A w \in Words : w # -1
  BY SentenceAssumption DEF Words
<1>3. CASE t.kind = "shift"
  <2>1. c.buffer # <<>> /\ Perform(c, t) = Shift(c) /\ LinkedBy(c, t) = -1
    BY <1>3 DEF Applicable, Perform, LinkedBy
  <2> QED BY <2>1, ShiftStep
<1>4. CASE t.kind = "swap"
  <2>1. SwapApplicable(c) /\ Perform(c, t) = Swap(c) /\ LinkedBy(c, t) = -1
    BY <1>4 DEF Applicable, Perform, LinkedBy
  <2> QED BY <2>1, SwapStep
<1>5. CASE t.kind = "left"
  <2>1. /\ LeftApplicable(c, t.label) /\ Perform(c, t) = LeftArc(c, t.label)
        /\ LinkedBy(c, t) = Top(c.stack, 2)
    BY <1>5 DEF Applicable, Perform, LinkedBy
  <2>2. t.label \in Labels
    BY <1>1, <1>5
  <2> QED BY <1>2, <2>1, <2>2, LeftStep
<1>6. CASE t.kind = "right"
  <2>1. /\ RightApplicable(c, t.label) /\ Perform(c, t) = RightArc(c, t.label)
        /\ LinkedBy(c, t) = Top(c.stack, 1)
    BY <1>6 DEF Applicable, Perform, LinkedBy
  <2>2. t.label \in Labels
    BY <1>1, <1>6
  <2> QED BY <1>2, <2>1, <2>2, RightStep
<1>7. CASE t.kind = "left2"
  <2>1. /\ Left2Applicable(c, t.label) /\ Perform(c, t) = LeftArc2(c, t.label)
        /\ LinkedBy(c, t) = Top(c.stack, 3)
    BY <1>7 DEF Applicable, Perform, LinkedBy
  <2>2. t.label \in Labels
    BY <1>1, <1>7
  <2> QED BY <1>2, <2>1, <2>2, Left2Step
<1>8. CASE t.kind = "right2"
  <2>1. /\ Right2Applicable(c, t.label) /\ Perform(c, t) = RightArc2(c, t.label)
        /\ LinkedBy(c, t) = Top(c.stack, 1)
    BY <1>8 DEF Applicable, Perform, LinkedBy
  <2>2. t.label \in Labels
    BY <1>1, <1>8
  <2> QED BY <1>2, <2>1, <2>2, Right2Step
<1> QED BY <1>1, <1>3, <1>4, <1>5, <1>6, <1>7, <1>8

(* configuration::init starts from a sound configuration.                  *)
LEMMA InitialSound == ConfOK(InitialConf) /\ ChildrenMatch(InitialConf)
<1> DEFINE c == InitialConf
<1>1. /\ c.stack = <<0>> /\ c.buffer = [i \in 1..N |-> N + 1 - i]
      /\ c.head = [n \in Nodes |-> -1] /\ c.deprel = [n \in Nodes |-> NoLabel]
      /\ c.children = [n \in Nodes |-> <<>>]
  BY DEF InitialConf, Unlinked
<1>2. /\ N \in Nat /\ 0 \in Nodes
      /\ \A n \in Nodes : n \in Words \/ n = 0
      /\ \A n \in Words : n \in Nodes /\ n # 0
  BY SentenceAssumption DEF Nodes, Words
<1>3. /\ c.stack \in Seq(Nodes) /\ Len(c.stack) = 1 /\ c.stack[1] = 0 /\ In(c.stack) = {0}
      /\ Injective(c.stack)
  BY <1>1, <1>2 DEF In, Injective
<1>4. /\ c.buffer \in Seq(Nodes) /\ Len(c.buffer) = N
      /\ \A i \in 1..N : c.buffer[i] = N + 1 - i
  <2>1. \A i \in 1..N : N + 1 - i \in Nodes
    BY <1>2 DEF Nodes
  <2> QED BY <1>1, <1>2, <2>1
<1>5. In(c.buffer) = Words /\ Injective(c.buffer)
  <2>1. \A i \in 1..N : N + 1 - i \in Words
    BY <1>2 DEF Words
  <2>2. \A w \in Words : N + 1 - w \in 1..N /\ N + 1 - (N + 1 - w) = w
    BY <1>2 DEF Words
  <2>3. In(c.buffer) = Words
    <3>1. In(c.buffer) \subseteq Words
      BY <1>4, <2>1 DEF In
    <3>2. ASSUME NEW w \in Words PROVE w \in In(c.buffer)
      <4>1. c.buffer[N + 1 - w] = w /\ N + 1 - w \in 1..Len(c.buffer)
        BY <1>4, <2>2
      <4> QED BY <4>1 DEF In
    <3> QED BY <3>1, <3>2
  <2>4. Injective(c.buffer)
    BY <1>2, <1>4 DEF Injective
  <2> QED BY <2>3, <2>4
<1>6. c \in Configurations
  <2>1. <<>> \in Seq(Nodes)
    BY EmptySeq
  <2> QED BY <1>3, <1>4, <2>1 DEF InitialConf, Unlinked, Configurations
<1>7. Linked(c) = {}
  BY <1>1 DEF Linked
<1>8. ChildrenMatch(c)
  <2>1. Len(<<>>) = 0
    OBVIOUS
  <2>2. \A n \in Nodes : c.children[n] = <<>> /\ c.head[n] = -1
    BY <1>1
  <2>3. In(<<>>) = {}
    BY <2>1 DEF In
  <2>4. -1 \notin Nodes
    BY DEF Nodes
  <2> QED BY <1>2, <2>1, <2>2, <2>3, <2>4 DEF ChildrenMatch
<1>9. RootAtBottom(c) /\ EachNodeOnce(c)
  BY <1>2, <1>3, <1>5, <1>7 DEF RootAtBottom, EachNodeOnce
<1>10. Acyclic(c)
  BY <1>7 DEF Acyclic
<1>11. RootLast(c)
  <2>1. \A n \in Words : c.head[n] = -1 /\ c.deprel[n] = NoLabel
    BY <1>1, <1>2
  <2> QED BY <2>1, LabelsAssumption DEF RootLast
<1>12. LabelsMatchHeads(c)
  BY <1>1 DEF LabelsMatchHeads
<1> HIDE DEF c
<1>13. ConfOK(c)
  BY <1>6, <1>9, <1>10, <1>11, <1>12 DEF ConfOK
<1> QED BY <1>8, <1>13 DEF c

-----------------------------------------------------------------------------
(* In a sound configuration that is not final a shift is possible, or a    *)
(* right arc with a fitting label.                                         *)
LEMMA SomeApplicable ==
  ASSUME NEW c, ConfOK(c), ~Final(c), NEW s
  PROVE  \E t \in Transition(s) : Applicable(c, t)
<1>1. Len(c.stack) \in Nat /\ Len(c.stack) >= 1
  BY StackFacts
<1>2. CASE c.buffer # <<>>
  <2> DEFINE t == [kind |-> "shift", label |-> NoLabel]
  <2>1. t \in Transition(s)
    BY DEF Transition, Unlabelled
  <2>2. Applicable(c, t)
    BY <1>2 DEF Applicable
  <2> QED BY <2>1, <2>2
<1>3. CASE c.buffer = <<>>
  <2>1. Len(c.stack) >= 2
    BY <1>1, <1>3 DEF Final
  <2>2. PICK l \in Labels : RightApplicable(c, l)
    <3>1. CASE SingleRoot /\ Len(c.stack) = 2
      <4>1. RootLabel \in Labels
        BY <3>1, LabelsAssumption
      <4>2. RightApplicable(c, RootLabel)
        BY <1>3, <3>1 DEF RightApplicable
      <4> QED BY <4>1, <4>2
    <3>2. CASE SingleRoot /\ Len(c.stack) > 2
      <4>1. PICK l \in Labels : l # RootLabel
        BY <3>2, LabelsAssumption
      <4> QED BY <3>2, <4>1 DEF RightApplicable
    <3>3. CASE ~SingleRoot
      BY <2>1, <3>3, LabelsAssumption DEF RightApplicable
    <3>4. Len(c.stack) = 2 \/ Len(c.stack) > 2
      <4>1. \A n \in Nat : n >= 2 => n = 2 \/ n > 2
        OBVIOUS
      <4> QED BY <1>1, <2>1, <4>1
    <3> QED BY <3>1, <3>2, <3>3, <3>4
  <2> DEFINE t == [kind |-> "right", label |-> l]
  <2>3. t \in Transition(s)
    BY DEF Transition, Labelled
  <2>4. Applicable(c, t)
    BY <2>2 DEF Applicable
  <2> QED BY <2>3, <2>4
<1> QED BY <1>2, <1>3

(* In a sound final configuration all words are linked.                    *)
LEMMA FinalTree ==
  ASSUME NEW c, ConfOK(c), Final(c)
  PROVE  IsTree(c) /\ HasSingleRoot(c)
<1>1. /\ c.head \in [Nodes -> Nodes \cup {-1}] /\ c.deprel \in [Nodes -> Labels \cup {NoLabel}]
  BY DEF ConfOK, Configurations
<1>2. /\ 0 \in Nodes
      /\ \A n \in Words : n \in Nodes /\ n # 0
      /\ \A n \in Nodes : n = 0 \/ n \in Words
      /\ -1 \notin Nodes
  BY SentenceAssumption DEF Words, Nodes
<1>3. In(c.stack) = {0} /\ In(c.buffer) = {}
  <2>1. Len(c.stack) = 1 /\ c.stack[1] = 0
    <3>1. \A n \in Nat : n >= 1 /\ n <= 1 => n = 1
      OBVIOUS
    <3>2. Len(c.stack) \in Nat /\ Len(c.stack) >= 1 /\ c.stack[1] = 0
      BY StackFacts
    <3>3. Len(c.stack) <= 1
      BY DEF Final
    <3> QED BY <3>1, <3>2, <3>3
  <2>2. c.buffer = <<>>
    BY DEF Final
  <2>3. Len(c.buffer) = 0
    BY <2>2
  <2> QED BY <2>1, <2>3 DEF In
<1>4. Linked(c) = Words
  <2>1. Nodes \ Linked(c) = {0}
    BY <1>3 DEF ConfOK, EachNodeOnce
  <2>2. Linked(c) \subseteq Nodes
    BY DEF Linked
  <2> QED BY <1>2, <2>1, <2>2
<1>5. \A n \in Words : c.head[n] \in Nodes /\ c.deprel[n] \in Labels
  <2> TAKE n \in Words
  <2>1. c.head[n] # -1 /\ n \in Nodes
    BY <1>2, <1>4 DEF Linked
  <2>2. c.deprel[n] # NoLabel
    BY <2>1 DEF ConfOK, LabelsMatchHeads
  <2> QED BY <1>1, <2>1, <2>2
<1>6. c.head[0] = -1
  BY <1>2, <1>4 DEF Linked
<1>7. \A S \in SUBSET Words : S # {} => \E n \in S : c.head[n] \notin S
  BY <1>4 DEF ConfOK, Acyclic
<1>8. HasSingleRoot(c)
  <2> SUFFICES ASSUME SingleRoot, N > 0
               PROVE  \E r \in Words : \A n \in Words :
                        /\ c.head[n] = 0 <=> n = r
                        /\ c.deprel[n] = RootLabel <=> n = r
    BY DEF HasSingleRoot
  <2>1. Words # {}
    BY SentenceAssumption DEF Words
  <2>2. PICK r \in Words : c.head[r] \notin Words
    BY <1>7, <2>1
  <2>3. c.head[r] = 0
    BY <1>2, <1>5, <2>2
  <2>4. \A n \in Words : c.head[n] = 0 \/ c.deprel[n] = RootLabel =>
          /\ c.head[n] = 0 /\ c.deprel[n] = RootLabel
          /\ \A m \in Words : c.head[m] = 0 => m = n
    BY DEF ConfOK, RootLast
  <2> QED BY <2>3, <2>4
<1> QED BY <1>5, <1>6, <1>7, <1>8 DEF IsTree
=============================================================================
