--------------------------- MODULE GreedyParserProofs ---------------------------
(***************************************************************************)
(* Theorems about GreedyParser for every sentence length, every set of     *)
(* labels and the three transition systems.                                *)
(***************************************************************************)
EXTENDS GreedyParser, TransitionsProofs

-----------------------------------------------------------------------------
(* The inductive invariant.  Sound alone is one, because ConfOK was chosen *)
(* so; the children and the embeddings are relative to it.                 *)
Inv == TypeOK /\ Sound /\ ChildrenFollowHeads /\ EmbeddingsFresh

LEMMA InitInv == Init => Inv
<1> SUFFICES ASSUME Init PROVE Inv
  OBVIOUS
<1>1. ConfOK(conf) /\ ChildrenMatch(conf)
  BY InitialSound DEF Init
<1>2. TypeOK
  BY <1>1 DEF Init, TypeOK, ConfOK
<1>3. EmbeddingsFresh
  BY DEF Init, EmbeddingsFresh
<1> QED BY <1>1, <1>2, <1>3 DEF Inv, Sound, ChildrenFollowHeads

LEMMA NextInv == Inv /\ [Next]_vars => Inv'
<1> SUFFICES ASSUME Inv, [Next]_vars PROVE Inv'
  OBVIOUS
<1>1. TypeOK /\ ConfOK(conf) /\ ChildrenMatch(conf) /\ EmbeddingsFresh
  BY DEF Inv, Sound, ChildrenFollowHeads
<1>2. CASE Start
  <2>1. ConfOK(InitialConf) /\ ChildrenMatch(InitialConf) /\ conf' = InitialConf
    BY <1>2, InitialSound DEF Start
  <2>2. InitialConf.deprel \in [Nodes -> Labels \cup {NoLabel}] /\ embedded' = conf'.deprel
    BY <1>2, <2>1 DEF Start, ConfOK, Configurations
  <2>3. TypeOK'
    BY <1>1, <1>2, <2>1, <2>2 DEF Start, TypeOK, ConfOK
  <2> QED BY <2>1, <2>2, <2>3 DEF Inv, Sound, ChildrenFollowHeads, EmbeddingsFresh
<1>3. CASE Step
  <2>1. PICK t \in Transition(system) :
          /\ Applicable(conf, t)
          /\ conf' = Perform(conf, t)
          /\ embedded' = IF LinkedBy(conf, t) = -1 THEN embedded
                         ELSE [embedded EXCEPT ![LinkedBy(conf, t)] =
                                 conf'.deprel[LinkedBy(conf, t)]]
    BY <1>3 DEF Step
  <2>2. phase = "parsing" /\ phase' = "parsing" /\ system' = system
    BY <1>3 DEF Step
  <2>3. ConfOK(conf') /\ ChildrenMatch(conf')
    BY <1>1, <2>1, PerformStep
  <2>4. embedded = conf.deprel /\ embedded \in [Nodes -> Labels \cup {NoLabel}]
    BY <1>1, <2>2 DEF EmbeddingsFresh, TypeOK
  <2>5. embedded' = conf'.deprel
    <3> DEFINE k == LinkedBy(conf, t)
    <3>1. CASE k = -1
      BY <1>1, <2>1, <2>4, <3>1, PerformStep
    <3>2. CASE k # -1
      <4>1. k \in Nodes /\ conf'.deprel = [embedded EXCEPT ![k] = t.label]
        <5>1. k \in Words /\ conf'.deprel = [conf.deprel EXCEPT ![k] = t.label]
          BY <1>1, <2>1, <3>2, PerformStep
        <5> QED BY <2>4, <5>1, SentenceAssumption DEF Words, Nodes
      <4>2. embedded' = [embedded EXCEPT ![k] = conf'.deprel[k]]
        BY <2>1, <3>2
      <4>3. conf'.deprel[k] = t.label
        BY <2>4, <4>1
      <4> QED BY <4>1, <4>2, <4>3
    <3> QED BY <3>1, <3>2
  <2>6. TypeOK'
    BY <1>1, <2>2, <2>3, <2>5 DEF TypeOK, ConfOK, Configurations
  <2> QED BY <2>3, <2>5, <2>6 DEF Inv, Sound, ChildrenFollowHeads, EmbeddingsFresh
<1>4. CASE Return
  BY <1>1, <1>4 DEF Return, Inv, TypeOK, Sound, ChildrenFollowHeads, EmbeddingsFresh
<1>5. CASE UNCHANGED vars
  BY <1>1, <1>5 DEF vars, Inv, TypeOK, Sound, ChildrenFollowHeads, EmbeddingsFresh
<1> QED BY <1>2, <1>3, <1>4, <1>5 DEF Next

(* The parts of the inductive invariant hold in every round of             *)
(* parse_greedy.                                                           *)
THEOREM InvHolds == Spec => []Inv
BY InitInv, NextInv, PTL DEF Spec

(* Every variable of the greedy parser has its type: configuration.h,      *)
(* node.h and the embedding cache of workspace in parser_nn.h.             *)
THEOREM TypeHolds == Spec => []TypeOK
<1>1. Inv => TypeOK
  BY DEF Inv
<1> QED BY <1>1, InvHolds, PTL

(* After every transition the root is at the bottom of the stack, each     *)
(* node waits once or is linked, no cycle closes and the root label comes  *)
(* last (transition.cpp), for every sentence and every preference.         *)
THEOREM SoundHolds == Spec => []Sound
<1>1. Inv => Sound
  BY DEF Inv
<1> QED BY <1>1, InvHolds, PTL

(* tree::set_head keeps the lists of children equal to the heads.          *)
THEOREM ChildrenHold == Spec => []ChildrenFollowHeads
<1>1. Inv => ChildrenFollowHeads
  BY DEF Inv
<1> QED BY <1>1, InvHolds, PTL

(* parse_greedy computes the embeddings of a node again whenever its       *)
(* deprel changes.                                                         *)
THEOREM EmbeddingsHold == Spec => []EmbeddingsFresh
<1>1. Inv => EmbeddingsFresh
  BY DEF Inv
<1> QED BY <1>1, InvHolds, PTL

(* The loop over the network outputs in parse_greedy always finds a best   *)
(* transition, whatever the network prefers.                               *)
THEOREM NeverStuckHolds == Spec => []NeverStuck
<1>1. Inv => NeverStuck
  BY SomeApplicable DEF Inv, Sound, NeverStuck
<1> QED BY <1>1, InvHolds, PTL

(* What parse_greedy returns is a tree over all the words, and has a       *)
(* single root of label root if the model was trained so.                  *)
THEOREM ResultHolds == Spec => []ResultIsTree
<1>1. Inv => ResultIsTree
  BY FinalTree DEF Inv, Sound, ResultIsTree
<1> QED BY <1>1, InvHolds, PTL

-----------------------------------------------------------------------------
(* The projective system.  Its stack and its buffer keep the order of the  *)
(* sentence; the arcs cover no node that still waits, and do not cross.    *)
Ordered(c) ==
  /\ \A i, j \in 1..Len(c.stack) : i < j => c.stack[i] < c.stack[j]
  /\ \A i, j \in 1..Len(c.buffer) : i < j => c.buffer[j] < c.buffer[i]
  /\ \A i \in 1..Len(c.stack), j \in 1..Len(c.buffer) : c.stack[i] < c.buffer[j]

Lower(c, k) == IF c.head[k] < k THEN c.head[k] ELSE k
Upper(c, k) == IF c.head[k] < k THEN k ELSE c.head[k]

NothingCovered(c) ==
  \A m \in Linked(c), u \in Nodes \ Linked(c) : ~(Lower(c, m) < u /\ u < Upper(c, m))

NoCrossing(c) ==
  \A m, n \in Linked(c) :
    ~(Lower(c, m) < Lower(c, n) /\ Lower(c, n) < Upper(c, m) /\ Upper(c, m) < Upper(c, n))

InOneLine(c) == Ordered(c) /\ NothingCovered(c) /\ NoCrossing(c)

ProjectiveInv == system = "projective" => InOneLine(conf)

(* Between two neighbours on the stack nobody waits.                       *)
LEMMA NobodyBetween ==
  ASSUME NEW c, ConfOK(c), Ordered(c), Len(c.stack) >= 2, NEW u \in Nodes \ Linked(c)
  PROVE  ~(Top(c.stack, 2) < u /\ u < Top(c.stack, 1))
<1> DEFINE n == Len(c.stack)
<1>1. n \in Nat /\ n >= 2 /\ n - 2 + 1 = n - 1 /\ n - 1 + 1 = n /\ n - 1 \in 1..n /\ n \in 1..n
  BY StackFacts
<1>2. Top(c.stack, 2) = c.stack[n - 1] /\ Top(c.stack, 1) = c.stack[n]
  BY <1>1 DEF Top
<1>3. \A i \in 1..n : c.stack[i] \in Nat
  <2>1. \A i \in 1..n : c.stack[i] \in Nodes
    BY StackFacts, SeqFacts
  <2> QED BY <2>1, SentenceAssumption DEF Nodes
<1>4. u \in In(c.stack) \cup In(c.buffer) /\ u \in Nat
  BY SentenceAssumption DEF ConfOK, EachNodeOnce, Nodes
<1>5. CASE u \in In(c.stack)
  <2>1. PICK i \in 1..n : u = c.stack[i]
    BY <1>5 DEF In
  <2>2. i < n - 1 \/ i = n - 1 \/ i = n
    BY <1>1
  <2>3. i < n - 1 => c.stack[i] < c.stack[n - 1]
    BY <1>1 DEF Ordered
  <2> HIDE DEF n
  <2> QED BY <1>1, <1>2, <1>3, <2>1, <2>2, <2>3
<1>6. CASE u \in In(c.buffer)
  <2>1. PICK j \in 1..Len(c.buffer) : u = c.buffer[j]
    BY <1>6 DEF In
  <2>2. c.stack[n] < u
    BY <1>1, <2>1 DEF Ordered
  <2> QED BY <1>1, <1>2, <1>3, <1>4, <2>2
<1> QED BY <1>4, <1>5, <1>6

(* An arc between two nodes that waited as neighbours.                     *)
LEMMA ArcInLine ==
  ASSUME NEW c, c.head \in [Nodes -> Nodes \cup {-1}],
         NothingCovered(c), NoCrossing(c),
         NEW a \in Nodes, NEW b \in Nodes, c.head[a] = -1, c.head[b] = -1,
         NEW p \in Nodes, NEW q \in Nodes, p < q,
         (a = p /\ b = q) \/ (a = q /\ b = p),
         \A u \in Nodes \ Linked(c) : ~(p < u /\ u < q),
         NEW d, d.head = [c.head EXCEPT ![a] = b]
  PROVE  NothingCovered(d) /\ NoCrossing(d)
<1>1. \A x \in Nodes : x \in Int /\ x # -1
  BY SentenceAssumption DEF Nodes
<1>2. Linked(d) = Linked(c) \cup {a} /\ a \notin Linked(c) /\ b \notin Linked(c)
  BY <1>1 DEF Linked
<1>3. \A m \in Linked(c) : Lower(d, m) = Lower(c, m) /\ Upper(d, m) = Upper(c, m)
  <2> TAKE m \in Linked(c)
  <2>1. m \in Nodes /\ m # a
    BY <1>2 DEF Linked
  <2>2. d.head[m] = c.head[m]
    BY <2>1
  <2> QED BY <2>2 DEF Lower, Upper
<1>4. Lower(d, a) = p /\ Upper(d, a) = q
  <2>1. d.head[a] = b
    OBVIOUS
  <2> QED BY <1>1, <2>1 DEF Lower, Upper
<1>5. \A m \in Linked(c) : Lower(c, m) \in Int /\ Upper(c, m) \in Int
  <2> TAKE m \in Linked(c)
  <2>1. m \in Nodes /\ c.head[m] \in Nodes
    BY DEF Linked
  <2> QED BY <1>1, <2>1 DEF Lower, Upper
<1>6. p \in Nodes \ Linked(c) /\ q \in Nodes \ Linked(c)
  BY <1>2
<1>7. NothingCovered(d)
  <2> SUFFICES ASSUME NEW m \in Linked(d), NEW u \in Nodes \ Linked(d)
               PROVE  ~(Lower(d, m) < u /\ u < Upper(d, m))
    BY DEF NothingCovered
  <2>1. CASE m \in Linked(c)
    BY <1>2, <1>3, <2>1 DEF NothingCovered
  <2>2. CASE m = a
    BY <1>2, <1>4, <2>2
  <2> QED BY <1>2, <2>1, <2>2
<1>8. NoCrossing(d)
  <2> SUFFICES ASSUME NEW m \in Linked(d), NEW n \in Linked(d),
                      Lower(d, m) < Lower(d, n), Lower(d, n) < Upper(d, m),
                      Upper(d, m) < Upper(d, n)
               PROVE  FALSE
    BY DEF NoCrossing
  <2>1. CASE m \in Linked(c) /\ n \in Linked(c)
    BY <1>3, <2>1 DEF NoCrossing
  <2>2. CASE m = a /\ n \in Linked(c)
    BY <1>3, <1>4, <1>6, <2>2 DEF NothingCovered
  <2>3. CASE m \in Linked(c) /\ n = a
    BY <1>3, <1>4, <1>6, <2>3 DEF NothingCovered
  <2>4. CASE m = a /\ n = a
    BY <1>1, <1>4, <2>4
  <2> QED BY <1>2, <2>1, <2>2, <2>3, <2>4
<1> QED BY <1>7, <1>8

LEMMA ShiftInLine ==
  ASSUME NEW c, ConfOK(c), InOneLine(c), c.buffer # <<>>
  PROVE  InOneLine(Shift(c))
<1> DEFINE d == Shift(c)
           x == Top(c.buffer, 1)
           n == Len(c.stack)
           m == Len(c.buffer)
<1>1. c \in Configurations /\ c.stack \in Seq(Nodes) /\ c.buffer \in Seq(Nodes)
  BY DEF ConfOK, Configurations
<1>2. n \in Nat /\ m \in Nat /\ m # 0
  BY <1>1, SeqFacts, EmptySeq
<1>3. x = c.buffer[m] /\ x \in Nodes /\ m \in 1..m /\ 1 \in 0..m
  <2>1. m - 1 + 1 = m /\ m \in 1..m /\ 1 \in 0..m
    BY <1>2
  <2> QED BY <1>1, <2>1, SeqFacts DEF Top
<1>4. d.stack = Append(c.stack, x) /\ d.buffer = Pop(c.buffer, 1) /\ d.head = c.head
  BY <1>1 DEF Shift, Configurations
<1>5. /\ Len(d.stack) = n + 1 /\ d.stack[n + 1] = c.buffer[m]
      /\ \A i \in 1..n : d.stack[i] = c.stack[i]
  BY <1>1, <1>3, <1>4, SeqFacts
<1>6. Len(d.buffer) = m - 1 /\ \A i \in 1..(m - 1) : d.buffer[i] = c.buffer[i]
  BY <1>1, <1>3, <1>4, SeqFacts
<1> HIDE DEF d, x
<1>7. \A i \in 1..(m - 1) : i \in 1..m /\ i < m
  BY <1>2
<1>8. \A i \in 1..(n + 1) : i \in 1..n \/ i = n + 1
  BY <1>2
<1>9. \A i, j \in 1..(n + 1) : i < j => i \in 1..n /\ (j \in 1..n \/ j = n + 1)
  BY <1>2
<1> HIDE DEF n, m
<1>10. \A i, j \in 1..(n + 1) : i < j => d.stack[i] < d.stack[j]
  BY <1>3, <1>5, <1>9 DEF InOneLine, Ordered, n, m
<1>11. \A i, j \in 1..(m - 1) : i < j => d.buffer[j] < d.buffer[i]
  BY <1>6, <1>7 DEF InOneLine, Ordered, m
<1>12. \A i \in 1..(n + 1), j \in 1..(m - 1) : d.stack[i] < d.buffer[j]
  BY <1>3, <1>5, <1>6, <1>7, <1>8 DEF InOneLine, Ordered, n, m
<1>13. Ordered(d)
  BY <1>5, <1>6, <1>10, <1>11, <1>12 DEF Ordered
<1>14. NothingCovered(d) /\ NoCrossing(d)
  BY <1>4 DEF InOneLine, NothingCovered, NoCrossing, Linked, Lower, Upper
<1> QED BY <1>13, <1>14 DEF InOneLine, d

(* What a left and a right arc leave, place by place.                      *)
LEMMA LeftShape ==
  ASSUME NEW c, ConfOK(c), NEW l \in Labels, Len(c.stack) >= 2
  PROVE  /\ LeftArc(c, l).buffer = c.buffer
         /\ LeftArc(c, l).head = [c.head EXCEPT ![Top(c.stack, 2)] = Top(c.stack, 1)]
         /\ Len(LeftArc(c, l).stack) = Len(c.stack) - 1
         /\ \A i \in 1..(Len(c.stack) - 2) : LeftArc(c, l).stack[i] = c.stack[i]
         /\ LeftArc(c, l).stack[Len(c.stack) - 1] = c.stack[Len(c.stack)]
<1> DEFINE x == Top(c.stack, 1)
           y == Top(c.stack, 2)
           P == Pop(c.stack, 2)
           S == Append(P, x)
           d == Moved(c, S, c.buffer)
           n == Len(c.stack)
<1>1. c \in Configurations /\ c.stack \in Seq(Nodes) /\ c.buffer \in Seq(Nodes)
  BY DEF ConfOK, Configurations
<1>2. n \in Nat /\ n >= 2 /\ 1 \in 1..n /\ 2 \in 1..n /\ 2 \in 0..n /\ n - 1 + 1 = n
  BY StackFacts
<1>3. x \in Nodes /\ y \in Nodes /\ y \in In(c.stack) /\ x = c.stack[n]
  BY <1>2, StackFacts DEF Top
<1>4. c.head[y] = -1
  BY <1>3 DEF ConfOK, EachNodeOnce, Linked
<1>5. P \in Seq(Nodes) /\ Len(P) = n - 2 /\ \A i \in 1..(n - 2) : P[i] = c.stack[i]
  BY <1>1, <1>2, SeqFacts
<1> HIDE DEF x, y, P
<1>6. /\ S \in Seq(Nodes) /\ Len(S) = Len(P) + 1 /\ S[Len(P) + 1] = x
      /\ \A i \in 1..Len(P) : S[i] = P[i]
  BY <1>3, <1>5, SeqFacts
<1>7. Len(S) = n - 1 /\ S[n - 1] = x /\ \A i \in 1..(n - 2) : S[i] = c.stack[i]
  <2>1. n - 2 + 1 = n - 1
    BY <1>2
  <2> HIDE DEF S, n
  <2> QED BY <1>5, <1>6, <2>1
<1> HIDE DEF S
<1>8. d \in Configurations /\ d.stack = S /\ d.buffer = c.buffer /\ d.head = c.head
  BY <1>1, <1>6, MovedFields
<1>9. LeftArc(c, l) = SetHead(d, y, x, l)
  BY <1>1, <1>6, MovedStack DEF LeftArc, S, P, x, y
<1> HIDE DEF d
<1>10. /\ SetHead(d, y, x, l).stack = S /\ SetHead(d, y, x, l).buffer = c.buffer
       /\ SetHead(d, y, x, l).head = [c.head EXCEPT ![y] = x]
  <2>1. d.head[y] = -1
    BY <1>4, <1>8
  <2>2. d \in Configurations /\ y \in Nodes /\ x \in Nodes
    BY <1>3, <1>8
  <2>3. /\ SetHead(d, y, x, l) \in Configurations
        /\ SetHead(d, y, x, l).stack = d.stack /\ SetHead(d, y, x, l).buffer = d.buffer
        /\ SetHead(d, y, x, l).head = [d.head EXCEPT ![y] = x]
        /\ SetHead(d, y, x, l).deprel = [d.deprel EXCEPT ![y] = l]
        /\ SetHead(d, y, x, l).children = [d.children EXCEPT ![x] = InsertSorted(d.children[x], y)]
    BY <2>1, <2>2, SetHeadFields
  <2> QED BY <1>8, <2>3
<1> QED BY <1>3, <1>7, <1>9, <1>10 DEF x, y

LEMMA RightShape ==
  ASSUME NEW c, ConfOK(c), NEW l \in Labels, Len(c.stack) >= 2
  PROVE  /\ RightArc(c, l).buffer = c.buffer
         /\ RightArc(c, l).head = [c.head EXCEPT ![Top(c.stack, 1)] = Top(c.stack, 2)]
         /\ Len(RightArc(c, l).stack) = Len(c.stack) - 1
         /\ \A i \in 1..(Len(c.stack) - 1) : RightArc(c, l).stack[i] = c.stack[i]
<1> DEFINE x == Top(c.stack, 1)
           y == Top(c.stack, 2)
           S == Pop(c.stack, 1)
           d == Moved(c, S, c.buffer)
           n == Len(c.stack)
<1>1. c \in Configurations /\ c.stack \in Seq(Nodes) /\ c.buffer \in Seq(Nodes)
  BY DEF ConfOK, Configurations
<1>2. n \in Nat /\ n >= 2 /\ 1 \in 1..n /\ 2 \in 1..n /\ 1 \in 0..n
  BY StackFacts
<1>3. x \in Nodes /\ y \in Nodes /\ x \in In(c.stack)
  BY <1>2, StackFacts
<1>4. c.head[x] = -1
  BY <1>3 DEF ConfOK, EachNodeOnce, Linked
<1>5. S \in Seq(Nodes) /\ Len(S) = n - 1 /\ \A i \in 1..(n - 1) : S[i] = c.stack[i]
  BY <1>1, <1>2, SeqFacts
<1> HIDE DEF x, y, S
<1>6. d \in Configurations /\ d.stack = S /\ d.buffer = c.buffer /\ d.head = c.head
  BY <1>1, <1>5, MovedFields
<1>7. RightArc(c, l) = SetHead(d, x, y, l)
  BY <1>1, <1>5, MovedStack DEF RightArc, S, x, y
<1> HIDE DEF d
<1>8. /\ SetHead(d, x, y, l).stack = S /\ SetHead(d, x, y, l).buffer = c.buffer
      /\ SetHead(d, x, y, l).head = [c.head EXCEPT ![x] = y]
  <2>1. d.head[x] = -1
    BY <1>4, <1>6
  <2>2. d \in Configurations /\ x \in Nodes /\ y \in Nodes
    BY <1>3, <1>6
  <2>3. /\ SetHead(d, x, y, l) \in Configurations
        /\ SetHead(d, x, y, l).stack = d.stack /\ SetHead(d, x, y, l).buffer = d.buffer
        /\ SetHead(d, x, y, l).head = [d.head EXCEPT ![x] = y]
        /\ SetHead(d, x, y, l).deprel = [d.deprel EXCEPT ![x] = l]
        /\ SetHead(d, x, y, l).children = [d.children EXCEPT ![y] = InsertSorted(d.children[y], x)]
    BY <2>1, <2>2, SetHeadFields
  <2> QED BY <1>6, <2>3
<1> QED BY <1>5, <1>7, <1>8 DEF x, y

LEMMA ArcsInLine ==
  ASSUME NEW c, ConfOK(c), InOneLine(c), NEW l \in Labels, Len(c.stack) >= 2
  PROVE  InOneLine(LeftArc(c, l)) /\ InOneLine(RightArc(c, l))
<1> DEFINE n == Len(c.stack)
           x == Top(c.stack, 1)
           y == Top(c.stack, 2)
           e == LeftArc(c, l)
           r == RightArc(c, l)
<1>1. n \in Nat /\ n >= 2 /\ n - 2 + 1 = n - 1 /\ n - 1 + 1 = n /\ n - 1 \in 1..n /\ n \in 1..n
      /\ 1 \in 1..n /\ 2 \in 1..n
  BY StackFacts
<1>2. y = c.stack[n - 1] /\ x = c.stack[n] /\ y < x
  <2>1. y = c.stack[n - 1] /\ x = c.stack[n]
    BY <1>1 DEF Top
  <2> QED BY <1>1, <2>1 DEF InOneLine, Ordered
<1>3. x \in Nodes /\ y \in Nodes /\ x \in In(c.stack) /\ y \in In(c.stack)
  BY <1>1, StackFacts
<1>4. c.head[x] = -1 /\ c.head[y] = -1 /\ c.head \in [Nodes -> Nodes \cup {-1}]
  BY <1>3 DEF ConfOK, EachNodeOnce, Linked, Configurations
<1>5. \A u \in Nodes \ Linked(c) : ~(y < u /\ u < x)
  BY NobodyBetween DEF InOneLine
<1>6. /\ e.buffer = c.buffer /\ e.head = [c.head EXCEPT ![y] = x]
      /\ Len(e.stack) = n - 1 /\ e.stack[n - 1] = c.stack[n]
      /\ \A i \in 1..(n - 2) : e.stack[i] = c.stack[i]
  BY LeftShape
<1>7. /\ r.buffer = c.buffer /\ r.head = [c.head EXCEPT ![x] = y]
      /\ Len(r.stack) = n - 1
      /\ \A i \in 1..(n - 1) : r.stack[i] = c.stack[i]
  BY RightShape
<1> HIDE DEF e, r, x, y
<1>8. NothingCovered(e) /\ NoCrossing(e)
  BY <1>2, <1>3, <1>4, <1>5, <1>6, ArcInLine DEF InOneLine
<1>9. NothingCovered(r) /\ NoCrossing(r)
  BY <1>2, <1>3, <1>4, <1>5, <1>7, ArcInLine DEF InOneLine
<1>10. Ordered(e)
  <2>1. \A i \in 1..(n - 1) : i \in 1..(n - 2) \/ i = n - 1
    BY <1>1
  <2>2. \A i \in 1..(n - 2) : i \in 1..n /\ i < n
    BY <1>1
  <2>3. \A i, j \in 1..(n - 1) : i < j => i \in 1..(n - 2)
    BY <1>1
  <2> HIDE DEF n
  <2>4. \A i, j \in 1..(n - 1) : i < j => e.stack[i] < e.stack[j]
    <3> TAKE i, j \in 1..(n - 1)
    <3> HAVE i < j
    <3>1. i \in 1..(n - 2) /\ i \in 1..n /\ i < n /\ e.stack[i] = c.stack[i]
      BY <1>6, <2>2, <2>3
    <3>2. CASE j \in 1..(n - 2)
      <4>1. j \in 1..n /\ e.stack[j] = c.stack[j]
        BY <1>6, <2>2, <3>2
      <4> QED BY <3>1, <4>1 DEF InOneLine, Ordered, n
    <3>3. CASE j = n - 1
      <4>1. e.stack[j] = c.stack[n]
        BY <1>6, <3>3
      <4> QED BY <1>1, <3>1, <4>1 DEF InOneLine, Ordered, n
    <3> QED BY <2>1, <3>2, <3>3
  <2>5. \A i \in 1..(n - 1), j \in 1..Len(c.buffer) : e.stack[i] < c.buffer[j]
    BY <1>1, <1>6, <2>1, <2>2 DEF InOneLine, Ordered, n
  <2> QED BY <1>6, <2>4, <2>5 DEF InOneLine, Ordered
<1>11. Ordered(r)
  <2>1. \A i \in 1..(n - 1) : i \in 1..n
    BY <1>1
  <2> HIDE DEF n
  <2> QED BY <1>7, <2>1 DEF InOneLine, Ordered, n
<1> QED BY <1>8, <1>9, <1>10, <1>11 DEF InOneLine, e, r

LEMMA PerformInLine ==
  ASSUME NEW c, ConfOK(c), InOneLine(c), NEW t \in Transition("projective"), Applicable(c, t)
  PROVE  InOneLine(Perform(c, t))
<1>1. /\ t.kind \in {"shift", "left", "right"}
      /\ t.kind \in {"left", "right"} => t.label \in Labels
  BY DEF Transition, Unlabelled, Labelled
<1>2. CASE t.kind = "shift"
  <2>1. c.buffer # <<>> /\ Perform(c, t) = Shift(c)
    BY <1>2 DEF Applicable, Perform
  <2> QED BY <2>1, ShiftInLine
<1>3. CASE t.kind = "left"
  <2>1. LeftApplicable(c, t.label) /\ Perform(c, t) = LeftArc(c, t.label) /\ t.label \in Labels
    BY <1>1, <1>3 DEF Applicable, Perform
  <2> QED BY <2>1, ArcsInLine DEF LeftApplicable
<1>4. CASE t.kind = "right"
  <2>1. RightApplicable(c, t.label) /\ Perform(c, t) = RightArc(c, t.label) /\ t.label \in Labels
    BY <1>1, <1>4 DEF Applicable, Perform
  <2>2. Len(c.stack) \in Nat
    BY StackFacts
  <2>3. Len(c.stack) >= 2
    <3>1. Len(c.stack) = 2 \/ Len(c.stack) > 2 \/ Len(c.stack) >= 2
      BY <2>1 DEF RightApplicable
    <3>2. \A k \in Nat : k = 2 \/ k > 2 \/ k >= 2 => k >= 2
      OBVIOUS
    <3> QED BY <2>2, <3>1, <3>2
  <2> QED BY <2>1, <2>3, ArcsInLine
<1> QED BY <1>1, <1>2, <1>3, <1>4

LEMMA InitialInLine == InOneLine(InitialConf)
<1> DEFINE c == InitialConf
<1>1. /\ c.stack = <<0>> /\ c.buffer = [i \in 1..N |-> N + 1 - i]
      /\ c.head = [n \in Nodes |-> -1]
  BY DEF InitialConf, Unlinked
<1>2. Len(c.stack) = 1 /\ c.stack[1] = 0 /\ Len(c.buffer) = N /\ N \in Nat
  BY <1>1, SentenceAssumption
<1>3. Linked(c) = {}
  BY <1>1 DEF Linked
<1>4. \A i \in 1..N : c.buffer[i] = N + 1 - i
  BY <1>1
<1> HIDE DEF c
<1>5. Ordered(c)
  BY <1>2, <1>4 DEF Ordered
<1>6. NothingCovered(c) /\ NoCrossing(c)
  BY <1>3 DEF NothingCovered, NoCrossing
<1> QED BY <1>5, <1>6 DEF InOneLine, c

(* The transitions of the projective system build projective trees only,   *)
(* as transition_system_projective.h says of itself.                       *)
THEOREM ProjectiveHolds == Spec => []ResultIsProjective
<1>1. Init => ProjectiveInv
  BY InitialInLine DEF Init, ProjectiveInv
<1>2. Inv /\ ProjectiveInv /\ [Next]_vars => ProjectiveInv'
  <2> SUFFICES ASSUME Inv, ProjectiveInv, [Next]_vars, system' = "projective"
               PROVE  InOneLine(conf')
    BY DEF ProjectiveInv
  <2>1. ConfOK(conf)
    BY DEF Inv, Sound
  <2>2. CASE Start
    BY <2>2, InitialInLine DEF Start
  <2>3. CASE Step
    <3>1. system = "projective"
      BY <2>3 DEF Step
    <3>2. PICK t \in Transition(system) : Applicable(conf, t) /\ conf' = Perform(conf, t)
      BY <2>3 DEF Step
    <3> QED BY <2>1, <3>1, <3>2, PerformInLine DEF ProjectiveInv
  <2>4. CASE Return \/ UNCHANGED vars
    BY <2>4 DEF Return, vars, ProjectiveInv
  <2> QED BY <2>2, <2>3, <2>4 DEF Next
<1>3. Inv /\ ProjectiveInv => ResultIsProjective
  <2> SUFFICES ASSUME Inv, ProjectiveInv, system = "projective", Final(conf)
               PROVE  IsProjective(conf)
    BY DEF ResultIsProjective
  <2>1. IsTree(conf) /\ NoCrossing(conf)
    BY FinalTree DEF Inv, Sound, ProjectiveInv, InOneLine
  <2>2. \A m \in Words : m \in Linked(conf)
    BY <2>1, SentenceAssumption DEF IsTree, Linked, Nodes, Words
  <2>3. ASSUME NEW m \in Words, NEW n \in Words PROVE ~Crossing(conf, m, n)
    <3>1. m \in Linked(conf) /\ n \in Linked(conf)
      BY <2>2
    <3> QED BY <2>1, <3>1 DEF NoCrossing, Crossing, Lower, Upper
  <2> QED BY <2>3 DEF IsProjective
<1> QED BY <1>1, <1>2, <1>3, InvHolds, PTL DEF Spec
=============================================================================
