---------------------------- MODULE TaggerTraining ----------------------------
(***************************************************************************)
(* The training of the tagger (perceptron_tagger_trainer.h): perceptron    *)
(* weights averaged over all sentences of all iterations, the choice of    *)
(* the best iteration, and the optimizer that renumbers what the weights   *)
(* are found by (feature_sequences_optimizer.h).  A key is a sequence of   *)
(* the numbers of elementary features, <<>> where the sequence of features *)
(* does not apply.                                                         *)
(***************************************************************************)
EXTENDS Integers, FiniteSets, SequencesExt

CONSTANTS
  Corpora,      \* the training data: per sentence the keys of the gold tags
  Keys,         \* the keys the decoder may find
  Iterations,
  MaxCorrect    \* bound: words of the heldout data

VARIABLES
  train,
  trainer,      \* the options: early_stopping, prune_features
  known,        \* the keys that scores has
  scores,       \* alpha, gamma and last_gamma_update of the keys
  iteration, sentence, word,
  best,         \* best_correct, best_iteration and best_features
  average,      \* history: the sum of alpha over all sentences so far
  rounds,       \* history: correct words and scores at the end of iterations
  result        \* {} until the training ends, then the features

vars == <<train, trainer, known, scores, iteration, sentence, word, best, average, rounds, result>>

NoInfo == [alpha |-> 0, gamma |-> 0, last_gamma_update |-> 0]

Init ==
  /\ train \in Corpora
  /\ trainer \in [early_stopping : BOOLEAN, prune_features : BOOLEAN]
  /\ known = IF trainer.prune_features THEN ToSet(FlattenSeq(train)) \ {<<>>} ELSE Keys
  /\ scores = [k \in Keys |-> NoInfo]
  /\ iteration = 0 /\ sentence = 0 /\ word = 1
  /\ best = [correct |-> 0, iteration |-> -1, features |-> scores]
  /\ average = [k \in Keys |-> 0]
  /\ rounds = <<>> /\ result = {}

SlipNotMarked(info, upto) ==
  [info EXCEPT !.gamma = @ + info.alpha * (upto - info.last_gamma_update)]

(* What alpha was since the last update is added as often as it was so.    *)
GammaUpdated(info, upto) ==
  [info EXCEPT !.gamma = @ + info.alpha * (upto - info.last_gamma_update),
               !.last_gamma_update = upto]

Moved(w, key, by) ==
  LET info == GammaUpdated(w[key], sentence)
  IN IF key \in known THEN [w EXCEPT ![key] = [info EXCEPT !.alpha = @ + by]] ELSE w

(* One word: the key that was decoded against that of the gold tags.       *)
Word ==
  /\ result = {} /\ sentence < Len(train) /\ word <= Len(train[sentence + 1])
  /\ \E decoded \in Keys \cup {<<>>} :
       LET gold == train[sentence + 1][word]
       IN scores' = IF decoded = gold THEN scores
                    ELSE Moved(Moved(scores, decoded, -1), gold, 1)
  /\ word' = word + 1
  /\ UNCHANGED <<train, trainer, known, iteration, sentence, best, average, rounds, result>>

SentenceEnd ==
  /\ result = {} /\ sentence < Len(train) /\ word > Len(train[sentence + 1])
  /\ sentence' = sentence + 1 /\ word' = 1
  /\ average' = [k \in Keys |-> average[k] + scores[k].alpha]
  /\ UNCHANGED <<train, trainer, known, scores, iteration, best, rounds, result>>

Finalized(info) == [GammaUpdated(info, Len(train)) EXCEPT !.last_gamma_update = 0]

SlipEqualToo(correct) == trainer.early_stopping /\ correct >= best.correct

Better(correct) == trainer.early_stopping /\ correct > best.correct

IterationEnd ==
  /\ result = {} /\ sentence = Len(train) /\ iteration < Iterations
  /\ scores' = [k \in Keys |-> Finalized(scores[k])]
  /\ \E correct \in 0..MaxCorrect :
       /\ best' = IF Better(correct)
                  THEN [correct |-> correct, iteration |-> iteration, features |-> scores']
                  ELSE best
       /\ rounds' = Append(rounds, [correct |-> correct, features |-> scores'])
  /\ iteration' = iteration + 1
  /\ IF iteration + 1 < Iterations THEN sentence' = 0 ELSE UNCHANGED sentence
  /\ UNCHANGED <<train, trainer, known, word, average, result>>

TrainingEnd ==
  /\ result = {} /\ iteration = Iterations
  /\ result' = {IF trainer.early_stopping /\ best.iteration >= 0 THEN best.features ELSE scores}
  /\ UNCHANGED <<train, trainer, known, scores, iteration, sentence, word, best, average, rounds>>

Next == Word \/ SentenceEnd \/ IterationEnd \/ TrainingEnd

Spec == Init /\ [][Next]_vars

-----------------------------------------------------------------------------
(* The optimizer.  Number 0 is an unknown elementary feature, 1 is empty.  *)

Unknown == 0
EmptyValue == 1
Used(features) == {k \in Keys : features[k].gamma # 0}
Values == UNION {ToSet(k) : k \in Keys} \cup {EmptyValue}

Count(features, v) ==
  IF v = EmptyValue THEN 1
  ELSE FoldLeft(LAMBDA n, k : n + Len(SelectSeq(k, LAMBDA e : e = v)), 0, SetToSeq(Used(features)))

(* The values in the orders that sort may leave: by falling counts.        *)
Orders(features) ==
  {order \in SetToSeqs(Values \ {EmptyValue}) :
     \A a, b \in DOMAIN order : a < b => Count(features, order[a]) >= Count(features, order[b])}

SlipFromEmpty(features, order, v) ==
  IF Count(features, v) = 0 THEN Unknown
  ELSE IF v = EmptyValue THEN v
  ELSE CHOOSE j \in DOMAIN order : order[j] = v

(* elementary_ids_map: the new number of a value, unknown if not counted.  *)
NewValue(features, order, v) ==
  IF Count(features, v) = 0 THEN Unknown
  ELSE IF v = EmptyValue THEN v
  ELSE 1 + CHOOSE j \in DOMAIN order : order[j] = v

NewKey(features, order, key) == [j \in DOMAIN key |-> NewValue(features, order, key[j])]

Optimized(features, order) ==
  {<<NewKey(features, order, key), features[key].gamma>> : key \in Used(features)}

(* The score of a key once its elements are looked up in the new maps.     *)
NewScore(features, order, key) ==
  LET new == NewKey(features, order, key)
      found == {e \in Optimized(features, order) : e[1] = new}
  IN IF Unknown \in ToSet(new) \/ found = {} THEN {0} ELSE {e[2] : e \in found}

-----------------------------------------------------------------------------
(* The weights that are stored are the sums of alpha over all sentences,   *)
(* although a gamma is updated only when its alpha changes.                *)
Averaged ==
  /\ result # {} => \A k \in Keys : scores[k].gamma = average[k]
  /\ sentence < Len(train) /\ word = 1 =>
       \A k \in Keys :
         scores[k].gamma + scores[k].alpha * (sentence - scores[k].last_gamma_update) = average[k]

(* With early stopping the result is the first of the best iterations, or  *)
(* the last iteration where no word was right in any.                      *)
BestChosen ==
  \A r \in result :
    LET top == {n \in DOMAIN rounds : /\ rounds[n].correct > 0
                                      /\ \A m \in DOMAIN rounds : rounds[m].correct <= rounds[n].correct
                                      /\ \A m \in 1..n - 1 : rounds[m].correct < rounds[n].correct}
    IN IF trainer.early_stopping /\ top # {}
       THEN \A n \in top : r = rounds[n].features
       ELSE r = rounds[Iterations].features

(* Optimizing changes no score: no two keys become one and no weight is    *)
(* lost.                                                                   *)
ScoresKept ==
  \A r \in result : \A order \in Orders(r) : \A k \in Keys : NewScore(r, order, k) = {r[k].gamma}
=============================================================================
