------------------------------- MODULE BeamParser -------------------------------
(***************************************************************************)
(* parser_nn::parse_beam_search.  The configurations of the beam share one *)
(* tree: each saves its heads and deprels and puts them back into the tree *)
(* (refresh_tree) before it is looked at or changed.                       *)
(*                                                                         *)
(* A round classifies every configuration of the beam, keeps the BeamSize  *)
(* best alternatives in a heap and builds the next beam from them.  The    *)
(* network may give any applicable transition any cost; a cost stands for  *)
(* the average logarithm, higher is better.                                *)
(***************************************************************************)
EXTENDS Transitions

CONSTANTS
  BeamSize,   \* the option beam_search, at least 2
  MaxCost     \* bound: costs are 1..MaxCost

ASSUME BeamAssumption ==
  /\ BeamSize \in Nat \ {0} /\ MaxCost \in Nat \ {0}
  /\ IsFiniteSet(Labels)

VARIABLES
  system,        \* the transition system of the model
  phase,         \* "idle", "expand", "classify", "build", "return"
  tree,          \* the tree all configurations point to
  embedded,      \* the deprel each node had when its embeddings were computed
  beam,          \* bs_confs[iteration & 1]
  alternatives,  \* bs_alternatives
  built,         \* bs_confs[(iteration + 1) & 1], up to its size
  at,            \* the position in beam or alternatives
  asked,         \* the transitions of beam[at] that were looked at
  dropped        \* history: the best cost refused or evicted in this round

vars == <<system, phase, tree, embedded, beam, alternatives, built, at, asked, dropped>>

Moves(s) == IF s = "swap" THEN <<"shift", "swap">> ELSE <<"shift">>

Arcs(s) ==
  IF s = "link2" THEN <<"left", "right", "left2", "right2">> ELSE <<"left", "right">>

(* The transitions of every system in the order of their numbers: the      *)
(* moves, then the arcs of each label.                                     *)
TransitionVector ==
  [s \in Systems |->
     [k \in 1..(Len(Moves(s)) + Cardinality(Labels) * Len(Arcs(s))) |->
        IF k <= Len(Moves(s)) THEN [kind |-> Moves(s)[k], label |-> NoLabel]
        ELSE LET j == k - Len(Moves(s)) - 1
             IN [kind |-> Arcs(s)[1 + (j % Len(Arcs(s)))],
                 label |-> SetToSeq(Labels)[1 + (j \div Len(Arcs(s)))]]]]

Stay == [kind |-> "stay", label |-> NoLabel]     \* the transition -1

(* The elements of a set of words in the order of the sentence.            *)
InOrder(S) ==
  [k \in 1..Cardinality(S) |-> CHOOSE m \in S : Cardinality({x \in S : x < m}) = k - 1]

(* refresh_tree and save_tree.                                             *)
TreeOf(e) ==
  [head |-> e.head, deprel |-> e.deprel,
   children |-> [n \in Nodes |-> InOrder({m \in Words : e.head[m] = n})]]

Conf(e, t) ==
  [stack |-> e.stack, buffer |-> e.buffer,
   head |-> t.head, deprel |-> t.deprel, children |-> t.children]

Saved(c, cost) ==
  [stack |-> c.stack, buffer |-> c.buffer, head |-> c.head, deprel |-> c.deprel, cost |-> cost]

(* The alternative at the front of the heap: the operator < of             *)
(* alternatives is reversed.                                               *)
SlipBest(alts) == CHOOSE i \in DOMAIN alts : \A j \in DOMAIN alts : alts[i].cost >= alts[j].cost

Worst(alts) == CHOOSE i \in DOMAIN alts : \A j \in DOMAIN alts : alts[i].cost <= alts[j].cost

Larger(a, b) == IF a >= b THEN a ELSE b

(* pop_heap and pop_back if full, push_heap.                               *)
SlipGrow(kept, a) ==
  IF Len(kept.alts) = BeamSize /\ a.cost <= kept.alts[Worst(kept.alts)].cost
  THEN [kept EXCEPT !.dropped = Larger(@, a.cost)]
  ELSE [kept EXCEPT !.alts = Append(@, a)]

Offer(kept, a) ==
  IF Len(kept.alts) < BeamSize THEN [kept EXCEPT !.alts = Append(@, a)]
  ELSE LET front == kept.alts[Worst(kept.alts)]
       IN IF a.cost <= front.cost THEN [kept EXCEPT !.dropped = Larger(@, a.cost)]
          ELSE [alts |-> Append(RemoveAt(kept.alts, Worst(kept.alts)), a),
                dropped |-> Larger(kept.dropped, front.cost)]

Kept == [alts |-> alternatives, dropped |-> dropped]

-----------------------------------------------------------------------------
Init ==
  /\ system \in Systems
  /\ phase = "idle"
  /\ tree = TreeOf(InitialConf)
  /\ embedded \in {[n \in Nodes |-> l] : l \in Labels \cup {NoLabel}}
  /\ beam = <<>> /\ alternatives = <<>> /\ built = <<>>
  /\ at = 1 /\ asked = 0 /\ dropped = 0

Start ==
  /\ phase = "idle"
  /\ phase' = "expand"
  /\ tree' = TreeOf(InitialConf)
  /\ embedded' = InitialConf.deprel
  /\ beam' = <<Saved(InitialConf, 0)>>
  /\ alternatives' = <<>> /\ built' = <<>> /\ at' = 1 /\ dropped' = 0
  /\ UNCHANGED <<system, asked>>

(* A final configuration competes as it is.                                *)
Carry ==
  /\ phase = "expand" /\ at <= Len(beam) /\ Final(beam[at])
  /\ LET kept == Offer(Kept, [from |-> at, transition |-> Stay, cost |-> beam[at].cost])
     IN alternatives' = kept.alts /\ dropped' = kept.dropped
  /\ at' = at + 1
  /\ UNCHANGED <<system, asked, phase, tree, embedded, beam, built>>

(* Embeddings are looked up for all the nodes whose deprel differs.        *)
SlipEmbedLinked ==
  /\ phase = "expand" /\ at <= Len(beam) /\ ~Final(beam[at])
  /\ tree' = TreeOf(beam[at])
  /\ embedded' = [n \in Nodes |-> IF tree'.head[n] = -1 THEN embedded[n] ELSE tree'.deprel[n]]
  /\ phase' = "classify"
  /\ UNCHANGED <<system, asked, beam, alternatives, built, at, dropped>>

Refresh ==
  /\ phase = "expand" /\ at <= Len(beam) /\ ~Final(beam[at])
  /\ tree' = TreeOf(beam[at])
  /\ embedded' = tree'.deprel
  /\ phase' = "classify"
  /\ UNCHANGED <<system, asked, beam, alternatives, built, at, dropped>>

(* The next transition: if applicable it is offered, with any cost.        *)
Classify ==
  /\ phase = "classify" /\ asked < Len(TransitionVector[system])
  /\ LET t == TransitionVector[system][asked + 1]
     IN \/ /\ Applicable(beam[at], t)
           /\ \E cost \in 1..MaxCost :
                LET kept == Offer(Kept, [from |-> at, transition |-> t, cost |-> cost])
                IN alternatives' = kept.alts /\ dropped' = kept.dropped
        \/ ~Applicable(beam[at], t) /\ UNCHANGED <<alternatives, dropped>>
  /\ asked' = asked + 1
  /\ UNCHANGED <<system, phase, tree, embedded, beam, built, at>>

Classified ==
  /\ phase = "classify" /\ asked = Len(TransitionVector[system])
  /\ phase' = "expand"
  /\ at' = at + 1 /\ asked' = 0
  /\ UNCHANGED <<system, tree, embedded, beam, alternatives, built, dropped>>

Expanded ==
  /\ phase = "expand" /\ at > Len(beam)
  /\ phase' = "build" /\ at' = 1
  /\ UNCHANGED <<system, asked, tree, embedded, beam, alternatives, built, dropped>>

(* A copy of the configuration; its tree is put back, changed and saved.   *)
Grown(a, t) ==
  LET c == Perform(Conf(beam[a.from], t), a.transition) IN
  /\ tree' = [head |-> c.head, deprel |-> c.deprel, children |-> c.children]
  /\ built' = Append(built, Saved(c, a.cost))

SlipNotRefreshed(a) == Grown(a, tree)

BuildFrom(a) == Grown(a, TreeOf(beam[a.from]))

Build ==
  /\ phase = "build" /\ at <= Len(alternatives)
  /\ LET a == alternatives[at] IN
     \/ /\ a.transition = Stay
        /\ built' = Append(built, [beam[a.from] EXCEPT !.cost = a.cost])
        /\ UNCHANGED tree
     \/ a.transition # Stay /\ BuildFrom(a)
  /\ at' = at + 1
  /\ UNCHANGED <<system, asked, phase, embedded, beam, alternatives, dropped>>

EndOf(done) ==
  /\ phase = "build" /\ at > Len(alternatives)
  /\ phase' = IF done THEN "return" ELSE "expand"
  /\ beam' = built
  /\ alternatives' = <<>> /\ built' = <<>> /\ at' = 1 /\ dropped' = 0
  /\ UNCHANGED <<system, asked, tree, embedded>>

SlipCarriedCounts == EndOf(beam = <<>>)

(* all_final speaks of the beam that was expanded.                         *)
EndRound == EndOf(\A i \in DOMAIN beam : Final(beam[i]))

BestOf(confs) ==
  CHOOSE i \in DOMAIN confs :
    \A j \in DOMAIN confs :
      confs[i].cost > confs[j].cost \/ (confs[i].cost = confs[j].cost /\ i <= j)

SlipTreeLeft ==
  /\ phase = "return"
  /\ phase' = "idle"
  /\ UNCHANGED <<system, asked, tree, embedded, beam, alternatives, built, at, dropped>>

Return ==
  /\ phase = "return"
  /\ tree' = TreeOf(beam[BestOf(beam)])
  /\ phase' = "idle"
  /\ UNCHANGED <<system, asked, embedded, beam, alternatives, built, at, dropped>>

Next == \/ Start \/ Carry \/ Refresh \/ Classify \/ Classified \/ Expanded \/ Build \/ EndRound \/ Return

Spec == Init /\ [][Next]_vars

(* The thread that parses runs.                                            *)
FairSpec ==
  Spec /\ WF_vars(Carry \/ Refresh \/ Classify \/ Classified \/ Expanded \/ Build \/ EndRound \/ Return)

-----------------------------------------------------------------------------
(* Every configuration of the beam, with the tree it saved, is one that    *)
(* the greedy parser could have: sharing the tree mixes nothing up.  When  *)
(* the network is asked, the tree and the embeddings are those of the      *)
(* configuration that is asked about.                                      *)
BeamSound ==
  /\ \A s \in {beam, built} : \A i \in DOMAIN s : ConfOK(Conf(s[i], TreeOf(s[i])))
  /\ phase = "classify" => tree = TreeOf(beam[at]) /\ embedded = beam[at].deprel

(* The next beam fits into the vector that was allocated for it, is never  *)
(* empty, so that there is a best one, and the heap keeps the best         *)
(* alternatives of the round.  What is handed back in the end is a tree,   *)
(* with a single root if asked for, and the one of the best configuration. *)
BeamKeepsBest ==
  /\ Len(beam) <= BeamSize /\ Len(alternatives) <= BeamSize
  /\ phase # "idle" => beam # <<>>
  /\ \A i \in DOMAIN alternatives : alternatives[i].cost >= dropped
  /\ phase = "idle" /\ beam # <<>> =>
       \E i \in DOMAIN beam :
         /\ tree = TreeOf(beam[i]) /\ IsTree(tree) /\ HasSingleRoot(tree)
         /\ \A j \in DOMAIN beam : beam[i].cost >= beam[j].cost

(* The search ends, whatever the network answers.                          *)
SearchEnds == (phase # "idle") ~> (phase = "idle")
=============================================================================
