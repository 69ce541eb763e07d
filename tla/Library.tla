------------------------------- MODULE Library -------------------------------
(***************************************************************************)
(* The components of the library that work alone, on data they are given:  *)
(* a behaviour is one of one component, "which", and the variables of the  *)
(* others stay idle.  Only the caches of a model, whose module this one    *)
(* extends, are used by several threads at once.                           *)
(***************************************************************************)
EXTENDS LibraryState

-----------------------------------------------------------------------------
Joint == INSTANCE JointTokenizer
Formats == INSTANCE TextFormats
Splitter == INSTANCE MultiwordSplitter
Decoder == INSTANCE TaggerDecoder WITH Unknown <- UnknownTag
Fields == INSTANCE SentenceFields
Map == INSTANCE PersistentMap WITH step <- encoding, done <- filled
Detokenizing == INSTANCE Detokenizer WITH Code <- CodeOf
Analyzing == INSTANCE Morphology
Evaluation == INSTANCE Evaluator WITH gold <- gold_data

(* The static oracles are for one root and the dynamic one for any.        *)
SystemsOf(kinds) == {kind.system : kind \in kinds}
StaticOracles == INSTANCE ParserOracles WITH
  Systems <- SystemsOf(StaticKinds), SingleRoot <- TRUE, Labels <- StaticLabels, Oracles <- StaticKinds
DynamicOracle == INSTANCE ParserOracles WITH
  Systems <- SystemsOf(DynamicKinds), SingleRoot <- FALSE, Labels <- DynamicLabels,
  Oracles <- DynamicKinds

(* The trainers use the splitter and the guesser, with the rules learned.  *)
Learning == INSTANCE SplitterTraining WITH
  Rules <- {}, MaxRules <- MaxLearned, SplitTokens <- {}, MaxSplit <- 1, data <- corpus
Guessing == INSTANCE GuesserTraining WITH Analyses <- {}

-----------------------------------------------------------------------------
Components == {"caches", "joint", "formats", "splitter", "decoder", "static oracles",
               "dynamic oracle", "token fields", "comments", "json", "evaluation",
               "processing", "names", "training", "splitter training", "map", "detokenizer",
               "morphology", "guesser training"}
Morphological == {"morphology", "guesser training"}
Splitting == {"splitter", "splitter training"}
Oracular == {"static oracles", "dynamic oracle"}
Fieldlike == {"token fields", "comments"}

cachesVars == vars
jointVars == <<text, input, paragraph, phase, from, best, cost, end, lengths, result, new_document>>
formatsVars == <<format, blocks, reader, sentences, document, again>>
splitterVars == <<rules, full_rules, suffix_rules, tokens, words, mwts>>
decoderVars == <<tagger, analyses, weights, form, tag, prev, nodes, nodes_prev, nodes_now, window,
                caches, total, tags>>
oraclesVars == <<oracle, gold, conf, stopped>>
fieldsVars == <<misc, comments, said>>
jsonVars == <<out, gone, closing, mode, need_indent, awaiting, strings, finished>>
evaluationVars == <<evaluated, system, gold_data, stage, si, gi, ss, gs, multiword_range_end, matched>>
processingVars == <<request, serving, source, infclen, output, ended>>
namesVars == <<descriptions, default_model, added, models_map, status>>
trainingVars == <<train, trainer, known, scores, iteration, sentence, word, best_iteration, average,
                  rounds, trained>>
mapVars == <<entries, fnv, hashes, encoding, filled>>
detokenizerVars == <<raw, toks, space_after, tok>>
morphologyVars == <<analyzed, lemmas>>
libraryVars == <<which, cachesVars, jointVars, formatsVars, splitterVars, decoderVars,
                 oraclesVars, fieldsVars, jsonVars, evaluationVars, processingVars, namesVars,
                 trainingVars, corpus, mapVars, detokenizerVars, morphologyVars, pairs>>

Idle == {"idle"}

IdleCaches == /\ lock \in Idle /\ stack \in Idle /\ at \in Idle /\ mine \in Idle
              /\ content \in Idle /\ lost \in Idle
IdleJoint == /\ text \in Idle /\ input \in Idle /\ paragraph \in Idle /\ phase \in Idle
             /\ from \in Idle /\ best \in Idle /\ cost \in Idle /\ end \in Idle
             /\ lengths \in Idle /\ result \in Idle /\ new_document \in Idle
IdleFormats == /\ format \in Idle /\ blocks \in Idle /\ reader \in Idle
               /\ sentences \in Idle /\ document \in Idle /\ again \in Idle
IdleSplitter == /\ rules \in Idle /\ full_rules \in Idle /\ suffix_rules \in Idle
                /\ tokens \in Idle /\ words \in Idle /\ mwts \in Idle
IdleDecoder == /\ tagger \in Idle /\ analyses \in Idle /\ weights \in Idle /\ form \in Idle
               /\ tag \in Idle /\ prev \in Idle /\ nodes \in Idle /\ nodes_prev \in Idle
               /\ nodes_now \in Idle /\ window \in Idle /\ caches \in Idle /\ total \in Idle
               /\ tags \in Idle
IdleOracles == oracle \in Idle /\ gold \in Idle /\ conf \in Idle /\ stopped \in Idle
IdleFields == misc \in Idle /\ comments \in Idle /\ said \in Idle
IdleJson == /\ out \in Idle /\ gone \in Idle /\ closing \in Idle /\ mode \in Idle
            /\ need_indent \in Idle /\ awaiting \in Idle /\ strings \in Idle /\ finished \in Idle
IdleEvaluation == /\ evaluated \in Idle /\ system \in Idle /\ gold_data \in Idle /\ stage \in Idle
                  /\ si \in Idle /\ gi \in Idle /\ ss \in Idle /\ gs \in Idle
                  /\ multiword_range_end \in Idle /\ matched \in Idle
IdleProcessing == /\ request \in Idle /\ serving \in Idle /\ source \in Idle
                  /\ infclen \in Idle /\ output \in Idle /\ ended \in Idle
IdleNames == /\ descriptions \in Idle /\ default_model \in Idle /\ added \in Idle
             /\ models_map \in Idle /\ status \in Idle
IdleTraining == /\ train \in Idle /\ trainer \in Idle /\ known \in Idle /\ scores \in Idle
                /\ iteration \in Idle /\ sentence \in Idle /\ word \in Idle
                /\ best_iteration \in Idle /\ average \in Idle /\ rounds \in Idle
                /\ trained \in Idle
IdleMap == /\ entries \in Idle /\ fnv \in Idle /\ hashes \in Idle /\ encoding \in Idle
           /\ filled \in Idle
IdleDetokenizer == raw \in Idle /\ toks \in Idle /\ space_after \in Idle /\ tok \in Idle
IdleMorphology == analyzed \in Idle /\ lemmas \in Idle

LibraryInit ==
  /\ which \in Components
  /\ IF which = "caches" THEN Init ELSE IdleCaches
  /\ IF which = "joint" THEN Joint!Init ELSE IdleJoint
  /\ IF which = "formats" THEN Formats!Init ELSE IdleFormats
  /\ IF which = "splitter" THEN Splitter!Init /\ corpus \in Idle
     ELSE IF which = "splitter training" THEN Learning!InitTraining ELSE IdleSplitter /\ corpus \in Idle
  /\ IF which = "decoder" THEN Decoder!Init ELSE IdleDecoder
  /\ IF which = "static oracles" THEN StaticOracles!Init
     ELSE IF which = "dynamic oracle" THEN DynamicOracle!Init ELSE IdleOracles
  /\ IF which \in Fieldlike THEN Fields!Init ELSE IdleFields
  /\ IF which = "json" THEN Json!Init ELSE IdleJson
  /\ IF which = "evaluation" THEN Evaluation!Init ELSE IdleEvaluation
  /\ IF which = "processing" THEN Processes!Init ELSE IdleProcessing
  /\ IF which = "names" THEN Naming!Init ELSE IdleNames
  /\ IF which = "training" THEN Training!Init ELSE IdleTraining
  /\ IF which = "map" THEN Map!Init ELSE IdleMap
  /\ IF which = "detokenizer" THEN Detokenizing!Init ELSE IdleDetokenizer
  /\ IF which = "morphology" THEN Analyzing!Init /\ pairs \in Idle
     ELSE IF which = "guesser training" THEN Guessing!InitTraining ELSE IdleMorphology /\ pairs \in Idle

(* A step of one of the components is none of the others.                  *)
Alone(names) ==
  /\ which \in names
  /\ UNCHANGED which
  /\ "caches" \notin names => UNCHANGED cachesVars
  /\ "joint" \notin names => UNCHANGED jointVars
  /\ "formats" \notin names => UNCHANGED formatsVars
  /\ names \cap Splitting = {} => UNCHANGED splitterVars
  /\ "splitter training" \notin names => UNCHANGED corpus
  /\ "decoder" \notin names => UNCHANGED decoderVars
  /\ names \cap Oracular = {} => UNCHANGED oraclesVars
  /\ names \cap Fieldlike = {} => UNCHANGED fieldsVars
  /\ "json" \notin names => UNCHANGED jsonVars
  /\ "evaluation" \notin names => UNCHANGED evaluationVars
  /\ "processing" \notin names => UNCHANGED processingVars
  /\ "names" \notin names => UNCHANGED namesVars
  /\ "training" \notin names => UNCHANGED trainingVars
  /\ "map" \notin names => UNCHANGED mapVars
  /\ "detokenizer" \notin names => UNCHANGED detokenizerVars
  /\ names \cap Morphological = {} => UNCHANGED morphologyVars
  /\ "guesser training" \notin names => UNCHANGED pairs

LibraryNext ==
  \/ Alone({"caches"}) /\ Next
  \/ Alone({"joint"}) /\ Joint!Next
  \/ Alone({"formats"}) /\ Formats!Next
  \/ Alone({"splitter"}) /\ Splitter!Next
  \/ Alone({"decoder"}) /\ Decoder!Next
  \/ Alone({"static oracles"}) /\ StaticOracles!Next
  \/ Alone({"dynamic oracle"}) /\ DynamicOracle!Next
  \/ Alone({"token fields"}) /\ Fields!SetToken
  \/ Alone({"comments"}) /\ Fields!SetSentence
  \/ Alone({"json"}) /\ Json!Next
  \/ Alone({"evaluation"}) /\ Evaluation!Next
  \/ Alone({"processing"}) /\ Processes!Next
  \/ Alone({"names"}) /\ Naming!Next
  \/ Alone({"training"}) /\ Training!Next
  \/ Alone({"splitter training"}) /\ Learning!NextTraining
  \/ Alone({"map"}) /\ Map!Next
  \/ Alone({"detokenizer"}) /\ Detokenizing!Next
  \/ Alone({"morphology"}) /\ Analyzing!Next
  \/ Alone({"guesser training"}) /\ Guessing!NextTraining

LibrarySpec == LibraryInit /\ [][LibraryNext]_libraryVars

-----------------------------------------------------------------------------
(* parse_paragraph cuts the paragraph where the sum of all costs is best,  *)
(* and gives every token and every multi-word token to its sentence once.  *)
JointBest == which = "joint" => Joint!BestSegmentation /\ Joint!DealtRight

(* The readers of plain formats find the words, documents and paragraphs   *)
(* that the lines of the whole text say, although they get it by blocks,   *)
(* find them again after reset_document, and read what the writers wrote;  *)
(* the sentences of one presegmented line are joined to one.               *)
FormatsRight ==
  which = "formats" => Formats!BlocksRight /\ Formats!WrittenReadBack /\ Formats!LinesKept

(* append_token uses the rule of the whole token, or that of its longest   *)
(* suffix that has one, in whatever order the rules were loaded; with the  *)
(* rules of the trainer it splits the data as most of the data does.       *)
SplitRight ==
  /\ which = "splitter" => Splitter!SplitRight
  /\ which = "splitter training" => Learning!TrainedRight

(* The trellis finds the best sequence of tags, fits in the nodes that     *)
(* were allocated, and its cached scores are those the weights give; the   *)
(* weights are averages over all of the training, of the best iteration,   *)
(* and stay the same when the keys are renumbered.  The map of dictionary, *)
(* guesser and weights finds what was put in, and the tags that the        *)
(* decoder chooses from are those of the best rule, among them what the    *)
(* training data says of its own words.                                    *)
TaggingBest ==
  /\ which = "decoder" => Decoder!DecodesBest /\ Decoder!CacheTrue /\ Decoder!NodesFit
  /\ TrainingRight
  /\ which = "training" => Training!ScoresKept
  /\ which = "map" => Map!FindsAll
  /\ which = "morphology" => Analyzing!AnalyzedRight
  /\ which = "guesser training" => Guessing!TrainedGuess

(* The oracles lead to the gold tree, only over applicable transitions,    *)
(* and the dynamic oracle keeps to it while no arc was wrong.              *)
OraclesRight ==
  /\ which = "static oracles" => StaticOracles!OracleRebuilds /\ StaticOracles!InterestingApplicable
  /\ which = "dynamic oracle" => DynamicOracle!DynamicWhileRight

(* Every field of MISC and every comment says what it was last set to,     *)
(* after any sequence of the other setters, and the rest stays as it was;  *)
(* the detokenizer sets SpaceAfter as the raw text has the tokens.         *)
FieldsRight ==
  /\ which = "token fields" => Fields!MiscRight
  /\ which = "comments" => Fields!CommentsRight
  /\ which = "detokenizer" => Detokenizing!SpacesAsInText

(* The evaluator aligns as many words as can be aligned, counts a head as  *)
(* right when the heads of both words are aligned, and tokens, multi-word  *)
(* tokens and sentences when both data have them, never stands still, and  *)
(* refuses only data of other characters.                                  *)
EvaluationRight ==
  which = "evaluation" =>
    /\ Evaluation!BestAligned /\ Evaluation!RangeAdvances /\ Evaluation!HeadsRight
    /\ Evaluation!CountsRight /\ Evaluation!RefusedRight
==============================================================================
