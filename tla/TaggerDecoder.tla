---------------------------- MODULE TaggerDecoder ----------------------------
(***************************************************************************)
(* The decoder of the tagger: the Viterbi search of viterbi.h and the      *)
(* scores of feature_sequences.h with their cache.  One step is one round  *)
(* of the inner loop: one analysis of a form after one node of the form    *)
(* before.                                                                 *)
(*                                                                         *)
(* A feature sequence reads the features of the last dependant_range tags, *)
(* or a dynamic feature, which is carried along the path; the sequences    *)
(* are sorted by falling range when the features are parsed.  A key of     *)
(* which a value is unknown has score 0.                                   *)
(***************************************************************************)
EXTENDS Integers, FiniteSets, FiniteSetsExt, SequencesExt

CONSTANTS
  Taggers,       \* [decoding_order, window_size, sequences : <<[range, dynamic]>>]
  TagSentences,  \* the analyses of every form, each the feature of its tag
  Weights,       \* the scores a feature may have
  Unknown        \* elementary_feature_unknown

VARIABLES
  tagger,
  analyses,
  weights,       \* the scores looked up so far
  form,          \* the form and the analysis the loops are at
  tag,
  prev,          \* the node before, 0 for none
  nodes,         \* [tag, prev, score, dynamic]
  nodes_prev,    \* the last node of the form before the previous one
  nodes_now,     \* the last node of the previous form
  window,        \* the tags of the last round, 0 for none
  caches,        \* [key, score] of every sequence
  total,         \* c.score
  tags           \* the tags found, <<>> before

vars == <<tagger, analyses, weights, form, tag, prev, nodes, nodes_prev, nodes_now, window,
          caches, total, tags>>

Sequences == DOMAIN tagger.sequences

(* feature_sequences::parse: dependant_range of a sequence, and the order. *)
DependantRange(t, s) == IF t.sequences[s].dynamic THEN t.window_size + 1 ELSE t.sequences[s].range
Sorted(t) == \A s, u \in DOMAIN t.sequences : s < u => DependantRange(t, s) >= DependantRange(t, u)

NoWindow == [n \in 0..tagger.window_size - 1 |-> 0]

(* A form without analyses ends the search before it begins.               *)
Searched == \A i \in DOMAIN analyses : analyses[i] # <<>>

Init ==
  /\ tagger \in {t \in Taggers : Sorted(t)}
  /\ analyses \in TagSentences
  /\ weights = [k \in {} |-> 0]
  /\ form = 1 /\ tag = 1 /\ prev = 0
  /\ nodes = <<>> /\ nodes_prev = -1 /\ nodes_now = 0
  /\ window = NoWindow
  /\ caches = [s \in Sequences |-> [key |-> <<>>, score |-> 0]] /\ total = 0
  /\ tags = <<>>

(* The node n steps before node p, 0 if there is none.                     *)
Ancestor(p, n) ==
  LET up[k \in 0..n] == IF k = 0 THEN p ELSE LET q == up[k - 1]
                                             IN IF q = 0 THEN 0 ELSE nodes[q].prev
  IN up[n]

(* The window of this round; same_tags counts the tags it shares with that *)
(* of the last one, from the current back.                                 *)
Window ==
  [n \in DOMAIN window |->
     IF n = 0 THEN tag
     ELSE IF Ancestor(prev, n - 1) = 0 THEN window[n] ELSE nodes[Ancestor(prev, n - 1)].tag]

same_tags ==
  Max({k \in 0..tagger.window_size :
         \A n \in 0..k - 1 : (n = 0 \/ Ancestor(prev, n - 1) # 0) /\ window[n] = Window[n]})

(* compute_dynamic_features: like the tag of the last verb.                *)
Dynamic(value, p) == IF value = "verb" THEN "after" ELSE IF p = 0 THEN "empty" ELSE nodes[p].dynamic

(* The key of a sequence at form i, for the tags w before it.              *)
Key(s, i, w, dynamic) ==
  LET values == IF tagger.sequences[s].dynamic THEN <<dynamic>>
                ELSE [k \in 1..tagger.sequences[s].range |->
                        IF i - k + 1 < 1 THEN "empty" ELSE analyses[i - k + 1][w[k - 1]]]
  IN IF Unknown \in Range(values) THEN <<>> ELSE values

Score(s, key, w) == IF key = <<>> THEN 0 ELSE w[<<s, key>>]

SlipStopsEarly(same) == {s \in Sequences : \A u \in 1..s : same + 1 < DependantRange(tagger, u)}

(* The sequences the loop of score gets to before it breaks.               *)
Recomputed(same) == {s \in Sequences : \A u \in 1..s : same < DependantRange(tagger, u)}

(* The only node before and the only analysis: no score is needed.         *)
Single == nodes_prev + 1 = nodes_now /\ Len(analyses[form]) = 1

(* feature_sequences::score: the sequences not recomputed keep what they   *)
(* added to the total in the last round.                                   *)
score ==
  IF Single THEN UNCHANGED <<weights, caches, total>>
  ELSE LET again == Recomputed(same_tags)
           keys == [s \in again |-> Key(s, form, Window, Dynamic(analyses[form][tag], prev))]
           new == {<<s, keys[s]>> : s \in {s \in again : keys[s] # <<>>}} \ DOMAIN weights
       IN \E ws \in [new -> Weights] :
            /\ weights' = [k \in DOMAIN weights \cup new |->
                             IF k \in new THEN ws[k] ELSE weights[k]]
            /\ caches' = [s \in Sequences |->
                 IF s \notin again \/ keys[s] = caches[s].key THEN caches[s]
                 ELSE [key |-> keys[s], score |-> Score(s, keys[s], weights')]]
            /\ total' = total + MapThenSumSet(LAMBDA s : caches'[s].score - caches[s].score, again)

NewNode ==
  [tag |-> tag, prev |-> prev,
   score |-> (IF Single THEN 0 ELSE total') + (IF prev = 0 THEN 0 ELSE nodes[prev].score),
   dynamic |-> Dynamic(analyses[form][tag], prev)]

SlipLatestWins ==
  IF same_tags < tagger.decoding_order - 1 THEN Append(nodes, NewNode)
  ELSE [nodes EXCEPT ![Len(nodes)] = NewNode]

(* The node of this round replaces the last one if the tags that count are *)
(* the same, and only if it is better.                                     *)
Noded ==
  IF same_tags < tagger.decoding_order - 1 THEN Append(nodes, NewNode)
  ELSE IF NewNode.score <= nodes[Len(nodes)].score THEN nodes
  ELSE [nodes EXCEPT ![Len(nodes)] = NewNode]

(* The heads of the three loops.                                           *)
Advance ==
  CASE prev < nodes_now ->
         prev' = prev + 1 /\ window' = Window /\ UNCHANGED <<form, tag, nodes_prev, nodes_now>>
    [] prev = nodes_now /\ tag < Len(analyses[form]) ->
         /\ prev' = nodes_prev + 1 /\ tag' = tag + 1 /\ window' = Window
         /\ UNCHANGED <<form, nodes_prev, nodes_now>>
    [] OTHER ->
         /\ form' = form + 1 /\ tag' = 1 /\ window' = NoWindow
         /\ prev' = nodes_now + 1 /\ nodes_prev' = nodes_now /\ nodes_now' = Len(nodes')

Round ==
  /\ Searched
  /\ form <= Len(analyses)
  /\ score
  /\ nodes' = Noded
  /\ Advance
  /\ UNCHANGED <<tagger, analyses, tags>>

(* The best ending node, the first of them, and the way back.              *)
Found ==
  /\ Searched
  /\ form = Len(analyses) + 1 /\ tags = <<>>
  /\ LET ends == nodes_prev + 1..nodes_now
         best == CHOOSE n \in ends : \A m \in ends :
                   nodes[m].score < nodes[n].score \/ (nodes[m].score = nodes[n].score /\ n <= m)
     IN tags' = [i \in DOMAIN analyses |-> nodes[Ancestor(best, Len(analyses) - i)].tag]
  /\ UNCHANGED <<tagger, analyses, weights, form, tag, prev, nodes, nodes_prev, nodes_now, window,
                 caches, total>>

Next == Round \/ Found

Spec == Init /\ [][Next]_vars

-----------------------------------------------------------------------------
SlipDividedEarly(t, as) ==
  LET states[i \in 0..Len(as)] ==
        IF i = 0 THEN 1
        ELSE (IF i + 1 >= t.decoding_order /\ i > 1
              THEN states[i - 1] \div Len(as[i - 1]) ELSE states[i - 1]) * Len(as[i])
  IN MapThenSumSet(LAMBDA i : states[i], DOMAIN as)

(* The nodes the cache is enlarged to before the search.                   *)
NodesNeeded(t, as) ==
  LET states[i \in 0..Len(as)] ==
        IF i = 0 THEN 1
        ELSE (IF i >= t.decoding_order
              THEN states[i - 1] \div Len(as[i - t.decoding_order + 1]) ELSE states[i - 1]) * Len(as[i])
  IN MapThenSumSet(LAMBDA i : states[i], DOMAIN as)

-----------------------------------------------------------------------------
(* Forms whose score the decoder never asks for.                           *)
Skipped(i) == \A k \in {k \in 0..tagger.decoding_order - 1 : k < i} : Len(analyses[i - k]) = 1

PathWindow(path, i) == [n \in 0..tagger.window_size - 1 |-> IF i - n < 1 THEN 0 ELSE path[i - n]]

PathScore(path) ==
  MapThenSumSet(LAMBDA i : IF Skipped(i) THEN 0
                           ELSE MapThenSumSet(LAMBDA s : Score(s, Key(s, i, PathWindow(path, i), "empty"),
                                                               weights), Sequences),
                DOMAIN analyses)

Paths == {p \in [DOMAIN analyses -> 1..Max({Len(analyses[i]) : i \in DOMAIN analyses})] :
            \A i \in DOMAIN analyses : p[i] <= Len(analyses[i])}

(* If no feature sees more tags than the decoder tells apart, the tags it  *)
(* finds score best of all, although nodes are merged as soon as their     *)
(* last tags agree and scores are carried over from round to round.        *)
DecodesBest ==
  tags # <<>> /\ (\A s \in Sequences : DependantRange(tagger, s) <= tagger.decoding_order) =>
    \A p \in Paths : PathScore(p) <= PathScore(tags)

(* The node that the last round began from.                                *)
LastPrev == IF prev > nodes_prev + 1 THEN prev - 1 ELSE nodes_now

(* What the cache says is what the sequences score when all are recomputed *)
(* for the tags of the last node and for what the path carried to it: a    *)
(* sequence is left alone only if nothing it depends on has changed since  *)
(* the round it was scored in.                                             *)
CacheTrue ==
  /\ total = MapThenSumSet(LAMBDA s : caches[s].score, Sequences)
  /\ \A s \in Sequences : caches[s].score = Score(s, caches[s].key, weights)
  /\ window # NoWindow =>
       LET dynamic == Dynamic(analyses[form][window[0]], LastPrev)
       IN \A s \in Sequences : caches[s].key = Key(s, form, window, dynamic)

(* The nodes fit into the vector that was allocated for them.              *)
NodesFit == Searched => Len(nodes) <= NodesNeeded(tagger, analyses)
=============================================================================
