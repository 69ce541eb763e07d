--------------------------- MODULE ParserOracles ---------------------------
(***************************************************************************)
(* The oracles the parser is trained with (parsito/transition) and the     *)
(* loops of parser_nn_trainer.cpp that follow them.  The static oracles    *)
(* are followed themselves; with the dynamic one the network is followed,  *)
(* whose outcome may be any applicable transition; the structured          *)
(* prediction follows the best of the interesting transitions, any of      *)
(* which may turn out best.                                                *)
(***************************************************************************)
EXTENDS Transitions, FiniteSets, FiniteSetsExt

CONSTANTS
  Oracles       \* [system, oracle, loop]: loop is "oracle" or "structured"

VARIABLES
  oracle,
  gold,
  conf,
  stopped       \* the emergency break of the loop

vars == <<oracle, gold, conf, stopped>>

(* The trees the trainer accepts, with one label beside that of the root.  *)
TrainingTrees ==
  LET Heads == {h \in [Nodes -> Nodes \cup {-1}] :
                  /\ h[0] = -1
                  /\ \A w \in Words : h[w] # -1
                  /\ \A S \in SUBSET Words : S # {} => \E n \in S : h[n] \notin S
                  /\ SingleRoot => Cardinality({n \in Words : h[n] = 0}) = 1}
      Label(h, n) == CASE n = 0 -> NoLabel
                       [] n > 0 /\ h[n] = 0 /\ SingleRoot -> RootLabel
                       [] OTHER -> CHOOSE l \in Labels : l # RootLabel
  IN {[head |-> h, deprel |-> [n \in Nodes |-> Label(h, n)],
       children |-> [n \in Nodes |-> SelectSeq([i \in 1..N |-> i], LAMBDA m : h[m] = n)]] : h \in Heads}

Shifted == [kind |-> "shift", label |-> NoLabel]
Swapped == [kind |-> "swap", label |-> NoLabel]
Arc(kind, child) == [kind |-> kind, label |-> gold.deprel[child]]

(* The child and the parent of an arc, counted from the top of the stack.  *)
Child == [left |-> 2, right |-> 1, left2 |-> 3, right2 |-> 1]
Parent == [left |-> 1, right |-> 2, left2 |-> 1, right2 |-> 3]

Directions(system) ==
  IF system = "link2" THEN <<"left", "right", "left2", "right2">> ELSE <<"left", "right">>

Seen(c, d) == Len(c.stack) >= Child[d] /\ Len(c.stack) >= Parent[d]

IsGold(c, d) == gold.head[Top(c.stack, Child[d])] = Top(c.stack, Parent[d])

Complete(c, n) == Len(gold.children[n]) = Len(c.children[n])

-----------------------------------------------------------------------------
(* create_projective_order: the nodes as a walk through the tree meets     *)
(* them; only the order of the indices is used.                            *)
Walk ==
  LET walk[node \in Nodes] ==
        LET Of(children) == FlattenSeq([k \in DOMAIN children |-> walk[children[k]]])
        IN Of(SelectSeq(gold.children[node], LAMBDA n : n < node)) \o <<node>>
             \o Of(SelectSeq(gold.children[node], LAMBDA n : n > node))
  IN walk[0]

projective_order(node) == CHOOSE i \in 1..N + 1 : Walk[i] = node

(* The arc the oracles of swap and link2 predict: the first golden one     *)
(* whose child has all its children; otherwise no direction.               *)
FirstArc(c, system) ==
  SelectSeq(Directions(system),
            LAMBDA d : Seen(c, d) /\ IsGold(c, d) /\ Complete(c, Top(c.stack, Child[d])))

FirstOr(found, c, otherwise) ==
  IF found = <<>> THEN otherwise ELSE Arc(found[1], Top(c.stack, Child[found[1]]))

ArcOr(c, system, otherwise) == FirstOr(FirstArc(c, system), c, otherwise)

(* create_tree_oracle of static_lazy: the projective part of the tree is   *)
(* built without swaps, with a configuration that allows many roots, and   *)
(* the nodes of one connected part get the same component.                 *)
ProjectivePart ==
  LET Can(c, t) == CASE t.kind = "shift" -> c.buffer # <<>>
                     [] t.kind = "left" -> Top(c.stack, 2) # 0
                     [] t.kind = "right" -> TRUE
      step[k \in Nat] ==
        IF k = 0 THEN InitialConf
        ELSE LET c == step[k - 1]
                 t == ArcOr(c, "swap", Shifted)
             IN IF Final(c) \/ ~Can(c, t) THEN c ELSE Perform(c, t)
  IN step[2 * N + 1]

projective_component(part, node) ==
  LET up[k \in Nat] == IF k = 0 THEN node
                       ELSE LET n == up[k - 1] IN IF part.head[n] = -1 THEN n ELSE part.head[n]
  IN up[N]

ToSwap(c, lazy) ==
  /\ Len(c.stack) >= 2
  /\ projective_order(Top(c.stack, 1)) < projective_order(Top(c.stack, 2))
  /\ lazy /\ c.buffer # <<>> =>
       \E part \in {ProjectivePart} :
         projective_component(part, Top(c.stack, 1)) # projective_component(part, Top(c.buffer, 1))

SwapStatic(c, lazy) == ArcOr(c, "swap", IF ToSwap(c, lazy) THEN Swapped ELSE Shifted)

SlipRightAtOnce(c) ==
  CASE Seen(c, "left") /\ IsGold(c, "left") -> Arc("left", Top(c.stack, 2))
    [] Seen(c, "right") /\ IsGold(c, "right") -> Arc("right", Top(c.stack, 1))
    [] OTHER -> Shifted

(* The static oracle of the projective system: a right arc waits until the *)
(* child has no child in the buffer.                                       *)
ProjectiveStatic(c) ==
  CASE Seen(c, "left") /\ IsGold(c, "left") -> Arc("left", Top(c.stack, 2))
    [] /\ Seen(c, "right") /\ IsGold(c, "right")
       /\ LET children == gold.children[Top(c.stack, 1)]
          IN c.buffer # <<>> /\ children # <<>> => Last(children) < Top(c.buffer, 1) ->
         Arc("right", Top(c.stack, 1))
    [] OTHER -> Shifted

-----------------------------------------------------------------------------
SlipHeadsOnly(c) ==
  IF c.buffer = <<>> THEN <<>>
  ELSE SelectSeq(Reverse(c.buffer), LAMBDA n : gold.head[n] < Top(c.buffer, 1))

(* The dynamic oracle: the nodes of the buffer that have a golden arc to   *)
(* the left of it, or to a child that has.                                 *)
RightStack(c) ==
  LET first == Top(c.buffer, 1)
      Node(acc, n) ==
        IF \/ gold.head[n] < first
           \/ \E m \in In(gold.children[n]) : m < first \/ m \in In(acc)
        THEN Append(acc, n) ELSE acc
  IN IF c.buffer = <<>> THEN <<>> ELSE FoldLeft(Node, <<>>, Reverse(c.buffer))

Undecided == [kind |-> "none", label |-> NoLabel]

(* A cell takes a new entry if it is cheaper; also if it costs as much and *)
(* tie holds of the transition it begins with.                             *)
Take(cell, new, tie) == IF new.cost < cell.cost + (IF tie THEN 1 ELSE 0) THEN new ELSE cell

(* The table of the 2014 Goldberg paper by diagonals: the entry <<i, h>>   *)
(* of diagonal d spans the topmost i + 1 nodes of the stack and the first  *)
(* d - i of the right stack, with node h of those as their head.           *)
Diagonals(c) ==
  LET rs == RightStack(c)
      Node(i, h) == IF h <= i THEN c.stack[Len(c.stack) - i + h] ELSE rs[h - i]
      EdgeCost(parent, child) == IF gold.head[child] # parent THEN 1 ELSE 0
      WhichArc(parent, child) == Arc(IF child > parent THEN "right" ELSE "left", child)
      Begun(entry, transition) ==
        IF entry.transition = Undecided THEN transition ELSE entry.transition
      Span(d) == {ih \in (0..Len(c.stack) - 1) \X (0..d) : ih[1] <= d /\ d - ih[1] <= Len(rs)}
      Empty == [cost |-> N + 2, transition |-> Undecided]
      OnStack(entry, parent, child) ==
        [cost |-> entry.cost + EdgeCost(parent, child),
         transition |-> Begun(entry, WhichArc(parent, child))]
      OnRight(entry, parent, child) ==
        [cost |-> entry.cost + EdgeCost(parent, child), transition |-> Begun(entry, Shifted)]
      (* What entry <<i, h>> takes from <<i - 1, g>>, then from <<i, g>>.   *)
      FromStack(T, i, h, cell, g) ==
        LET e == T[<<i - 1, g>>]
            tie == e.transition # Shifted
        IN CASE h = g + 1 /\ Node(i, 0) # 0 -> Take(cell, OnStack(e, Node(i - 1, g), Node(i, 0)), tie)
             [] h = 0 -> Take(cell, OnStack(e, Node(i, 0), Node(i - 1, g)), tie)
             [] OTHER -> cell
      FromRight(T, i, h, d, cell, g) ==
        LET e == T[<<i, g>>]
            tie == e.transition.kind \in {"left", "right"}
        IN CASE h = g -> Take(cell, OnRight(e, Node(i, g), Node(i, d)), tie)
             [] h = d /\ Node(i, g) # 0 -> Take(cell, OnRight(e, Node(i, d), Node(i, g)), tie)
             [] OTHER -> cell
      Entry(T, d, i, h) ==
        LET heads == [k \in 1..d |-> k - 1]
            stack == IF <<i - 1, 0>> \in DOMAIN T
                     THEN FoldLeft(LAMBDA cell, g : FromStack(T, i, h, cell, g), Empty, heads)
                     ELSE Empty
        IN IF <<i, 0>> \in DOMAIN T
           THEN FoldLeft(LAMBDA cell, g : FromRight(T, i, h, d, cell, g), stack, heads)
           ELSE stack
      table[d \in Nat] ==
        IF d = 0 THEN [ih \in {<<0, 0>>} |-> [cost |-> 0, transition |-> Undecided]]
        ELSE LET T == table[d - 1] IN [ih \in Span(d) |-> Entry(T, d, ih[1], ih[2])]
  IN table[Len(c.stack) - 1 + Len(rs)][<<Len(c.stack) - 1, 0>>]

-----------------------------------------------------------------------------
(* tree_oracle::predict, best; the dynamic oracle after the first          *)
(* iteration.                                                              *)
predict(c) ==
  CASE oracle.oracle = "static" /\ oracle.system = "projective" -> ProjectiveStatic(c)
    [] oracle.oracle = "static" /\ oracle.system = "link2" -> ArcOr(c, "link2", Shifted)
    [] oracle.oracle = "static_eager" -> SwapStatic(c, FALSE)
    [] oracle.oracle = "static_lazy" -> SwapStatic(c, TRUE)
    [] oracle.oracle = "dynamic" -> Diagonals(c).transition

SlipRootAnytime(c, d, label) ==
  SingleRoot => \/ label = RootLabel /\ Len(c.stack) = 2 /\ d = "right"
                \/ label # RootLabel /\ Len(c.stack) > (IF d \in {"left", "right"} THEN 2 ELSE 3)

(* An arc with the golden label of the child that single_root allows.      *)
RootRule(c, d, label) ==
  SingleRoot =>
    \/ label = RootLabel /\ Len(c.stack) = 2 /\ c.buffer = <<>> /\ d = "right"
    \/ label # RootLabel /\ Len(c.stack) > (IF d \in {"left", "right"} THEN 2 ELSE 3)

InterestingArc(c, d) ==
  /\ Seen(c, d)
  /\ gold.deprel[Top(c.stack, Child[d])] # NoLabel
  /\ d \in {"left2", "right2"} => IsGold(c, d)
  /\ RootRule(c, d, gold.deprel[Top(c.stack, Child[d])])

interesting_transitions(c) ==
  (IF c.buffer # <<>> THEN {Shifted} ELSE {})
    \cup (IF oracle.system = "swap" /\ ToSwap(c, oracle.oracle = "static_lazy") THEN {Swapped} ELSE {})
    \cup {Arc(d, Top(c.stack, Child[d])) :
            d \in {d \in Range(Directions(oracle.system)) : InterestingArc(c, d)}}

(* What the loop follows.                                                  *)
ToFollow(c) ==
  CASE oracle.loop = "structured" -> interesting_transitions(c)
    [] oracle.loop = "oracle" /\ oracle.oracle = "dynamic" ->
         {t \in Transition(oracle.system) : Applicable(c, t)}
    [] OTHER -> {predict(c)}

Init ==
  /\ oracle \in Oracles
  /\ gold \in TrainingTrees
  /\ conf = InitialConf
  /\ stopped = FALSE

Follow ==
  /\ ~stopped /\ ~Final(conf)
  /\ \E t \in ToFollow(conf) :
       IF Applicable(conf, t) THEN conf' = Perform(conf, t) /\ stopped' = FALSE
                              ELSE stopped' = TRUE /\ UNCHANGED conf
  /\ UNCHANGED <<oracle, gold>>

Next == Follow

Spec == Init /\ [][Next]_vars

-----------------------------------------------------------------------------
(* The static oracles lead to the gold tree, if the system can build it at *)
(* all: the transition predicted is applicable in every configuration on   *)
(* the way and the tree at its end is the gold one.                        *)
OracleRebuilds ==
  oracle.loop = "oracle" /\ oracle.oracle # "dynamic"
    /\ (oracle.system = "swap" \/ IsProjective(gold)) =>
    /\ ~stopped
    /\ Final(conf) => conf.head = gold.head /\ conf.deprel = gold.deprel

(* The structured prediction performs interesting transitions without      *)
(* asking whether they are applicable, and the shift if there are none:    *)
(* wherever it gets, all of them are applicable and there is one.          *)
InterestingApplicable ==
  oracle.loop = "structured" /\ ~Final(conf) =>
    \E interesting \in {interesting_transitions(conf)} :
      interesting # {} /\ \A t \in interesting : Applicable(conf, t)

(* The fewest wrong heads a parse from here can end with.                  *)
Loss(c) ==
  LET Steps(cs) == UNION {IF Final(d) THEN {d}
                          ELSE {Perform(d, t) : t \in {t \in Transition(oracle.system) :
                                                         Applicable(d, t)}} : d \in cs}
      ends[k \in Nat] == IF k = 0 THEN {c} ELSE LET cs == ends[k - 1] IN Steps(cs)
  IN Min({Cardinality({n \in Words : d.head[n] # gold.head[n]}) : d \in ends[2 * N]})

(* The transition predicted costs no head that could still be got right.   *)
PredictsBest ==
  \E best \in {predict(conf)} :
    /\ best.kind # "none" /\ Applicable(conf, best)
    /\ Loss(Perform(conf, best)) = Loss(conf)

Dynamic == oracle.oracle = "dynamic" /\ oracle.loop = "oracle" /\ ~Final(conf) /\ IsProjective(gold)

(* The dynamic oracle predicts the best transition wherever the network    *)
(* has led the parser, as long as the arcs made so far are golden: arcs    *)
(* may be lost already because they were not made in time.                 *)
DynamicWhileRight ==
  Dynamic /\ (\A n \in Words : conf.head[n] \in {-1, gold.head[n]}) => PredictsBest

(* "Use dynamic programming to compute transition leading to best parse    *)
(* tree": the same, whatever arcs the network has made.                    *)
DynamicBest == Dynamic => PredictsBest
=============================================================================
