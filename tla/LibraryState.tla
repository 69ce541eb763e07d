----------------------------- MODULE LibraryState -----------------------------
(***************************************************************************)
(* The data and the variables of all components of Library.  Those of the  *)
(* caches of a model come from the module it extends.  "which" is the one  *)
(* that works; the others stay idle.  What the theorems about Library say  *)
(* of the caches, the service, its JSON and the training is here, too.     *)
(***************************************************************************)
EXTENDS ModelCaches

CONSTANTS
  JointInputs, max_sentence_len, ParseCosts, sentence_logprob, change_boundary_logprob,
  InputTexts, InputFormats,
  Rules, MaxRules, SplitTokens, MaxSplit, Lowercase, Uppercase,
  Taggers, TagSentences, Weights, UnknownTag,
  N, RootLabel, NoLabel, StaticLabels, DynamicLabels, StaticKinds, DynamicKinds,
  SpaceValues, CommentValues, FirstMiscs, FirstComments,
  Texts, MaxBytes,
  Evaluations,
  Requests,
  Descriptions, DefaultNames,
  Corpora, Keys, Iterations, MaxCorrect,
  TrainingData, Alphabet, MaxLearned,
  Letters, MapKeys, MapValue, Buckets,
  RawTexts, TokenLists, CodeOf, Categorized,
  Analyses, Category,
  GuesserData, suffix_len, rules_per_suffix, max_prefixes, min_prefix_count

(* A document has sentences; a tokenizer takes any text, so only a reader  *)
(* refuses one (0).  A model has at least one id.                          *)
ASSUME RequestsAssumption ==
  \A r \in Requests :
    /\ r.data \in Seq(Nat)
    /\ r.handler = "weblicht tokenize" => \A k \in DOMAIN r.data : r.data[k] > 0
    /\ {r.tagger, r.parser} \subseteq {"none", "good", "bad"}
ASSUME DescriptionsAssumption ==
  \A d \in Descriptions :
    Len(d) \in Nat /\ DOMAIN d = 1..Len(d) /\ \A m \in DOMAIN d : 1 \in DOMAIN d[m]

(* A control character without an escape of its own is not written as one. *)
ASSUME TextsAssumption ==
  \A t \in Texts : t \in Seq({t[i] : i \in DOMAIN t}) /\ \A i \in DOMAIN t : t[i] # "ctl"

(* Without an iteration there is nothing to choose from.                   *)
ASSUME TrainingAssumption ==
  Iterations \in Nat \ {0} /\ MaxCorrect \in Nat /\ \A t \in Corpora : Len(t) \in Nat

VARIABLES
  which,
  text, input, paragraph, phase, from, best, cost, end, lengths, result, new_document,
  format, blocks, reader, sentences, document, again,
  rules, full_rules, suffix_rules, tokens, words, mwts,
  tagger, analyses, weights, form, tag, prev, nodes, nodes_prev, nodes_now, window,
  caches, total, tags,
  oracle, gold, conf, stopped,
  misc, comments, said,
  out, gone, closing, mode, need_indent, awaiting, strings, finished,
  evaluated, system, gold_data, stage, si, gi, ss, gs, multiword_range_end, matched,
  request, serving, source, infclen, output, ended,
  descriptions, default_model, added, models_map, status,
  train, trainer, known, scores, iteration, sentence, word, best_iteration, average, rounds, trained,
  corpus,
  entries, fnv, hashes, encoding, filled,
  raw, toks, space_after, tok,
  analyzed, lemmas, pairs

-----------------------------------------------------------------------------
Processes == INSTANCE Processing WITH phase <- serving, reader <- source, finished <- ended
Naming == INSTANCE ModelNames
Training == INSTANCE TaggerTraining WITH best <- best_iteration, result <- trained
Json == INSTANCE JsonBuilder WITH stack <- closing, said <- strings

(* A cache of a model is always in one place, no two threads work in one,  *)
(* and there are no more than threads but for those that failed calls of   *)
(* parse lose.                                                             *)
CachesOwned == which = "caches" => OneOwner /\ CachesFew

(* A response of the service is an error or the whole document, read from  *)
(* memory that lives, although its generator does not look at errors; and  *)
(* a name of a model means the first model that has it.                    *)
ServiceRight ==
  /\ which = "processing" => Processes!ResponsesWhole /\ Processes!TextAlive
  /\ which = "names" => Naming!NamesMean

(* What json_builder wrote is the beginning of a JSON document with the    *)
(* strings it was given, whatever part of it was sent meanwhile, and the   *)
(* whole of one after finish.                                              *)
JsonRight ==
  which = "json" => Json!ValidSoFar /\ Json!FinishedIsDocument /\ Json!SaysWhatWasSaid

(* The weights of the tagger are averages over all of the training, and    *)
(* those of the first of the best iterations are kept.                     *)
TrainingRight == which = "training" => Training!Averaged /\ Training!BestChosen
===============================================================================
