------------------------------ MODULE Evaluator ------------------------------
(***************************************************************************)
(* The evaluator (evaluator.cpp): what a model found in a text is compared *)
(* with the gold data.  A sentence is a sequence of tokens, each with its  *)
(* form, a sequence of characters, and the words it stands for, one word   *)
(* unless it is a multi-word token; the head of a word is the number of a  *)
(* word in its sentence, or 0.                                             *)
(***************************************************************************)
EXTENDS Integers, FiniteSets, FiniteSetsExt, Sequences, SequencesExt

CONSTANTS
  Evaluations,  \* what is evaluated: records of the gold and of the system sentences
  Lowercase     \* the lowercase variant of every character

VARIABLES
  evaluated,    \* the record of Evaluations at hand
  system, gold, \* the evaluation_data of both
  stage,        \* where evaluate is: "start", "align", "range", "reindex", "done", "refused"
  si, gi,       \* the next word of the system and of the gold data
  ss, gs,       \* the first words of the range of multi-word tokens
  multiword_range_end,
  matched       \* the pairs of words aligned: their numbers, the heads of both

vars == <<evaluated, system, gold, stage, si, gi, ss, gs, multiword_range_end, matched>>

-----------------------------------------------------------------------------
(* The data collected from sentences.                                      *)

Lower(form) == [i \in DOMAIN form |-> Lowercase[form[i]]]
IsMultiword(token) == Len(token.words) > 1
SlipSpacesCount(form) == form

NoSpaces(form) == SelectSeq(form, LAMBDA c : c # " ")

SlipRelativeHead(word, number, id) == word.head

(* Heads become numbers of words of the whole data, as the ids are.        *)
AbsoluteHead(word, number, id) == IF word.head = 0 THEN 0 ELSE id + (word.head - number)

NoData == [chars |-> <<>>, sentences |-> <<>>, tokens |-> <<>>, multiwords |-> <<>>, words |-> <<>>]

(* One token; before is the number of words of its sentence before it.     *)
AddToken(data, token, before) ==
  LET start == Len(data.chars)
      chars == data.chars \o NoSpaces(token.form)
      id(k) == Len(data.words) + k
      lowered == [k \in DOMAIN token.words |-> Lower(token.words[k].form)]
      Word(k) == [start |-> start, end |-> Len(chars), is_multiword |-> IsMultiword(token),
                  form |-> lowered[k],
                  head |-> AbsoluteHead(token.words[k], before + k, id(k))]
      spelled == FoldLeft(LAMBDA text, form : text \o <<" ">> \o form, token.form, lowered)
  IN [data EXCEPT
        !.chars = chars,
        !.tokens = Append(@, <<start, Len(chars)>>),
        !.multiwords = IF IsMultiword(token) THEN Append(@, <<start, spelled>>) ELSE @,
        !.words = @ \o [k \in DOMAIN token.words |-> Word(k)]]

WordsBefore(sentence, k) ==
  FoldLeft(LAMBDA n, token : n + Len(token.words), 0, SubSeq(sentence, 1, k - 1))

add_sentence(data, sentence) ==
  LET added == FoldLeft(LAMBDA d, k : AddToken(d, sentence[k], WordsBefore(sentence, k)), data,
                        [k \in DOMAIN sentence |-> k])
  IN [added EXCEPT !.sentences = Append(@, <<Len(data.chars), Len(added.chars)>>)]

Data(sentences) == FoldLeft(add_sentence, NoData, sentences)

-----------------------------------------------------------------------------
(* How many pairs of a start and a value both lists have, found in one     *)
(* pass over both.                                                         *)
Both(systems, golds) ==
  LET both[i \in 1..Len(systems) + 1, j \in 1..Len(golds) + 1] ==
        IF i > Len(systems) \/ j > Len(golds) THEN 0
        ELSE IF systems[i][1] < golds[j][1] THEN both[i + 1, j]
        ELSE IF golds[j][1] < systems[i][1] THEN both[i, j + 1]
        ELSE both[i + 1, j + 1] + (IF systems[i][2] = golds[j][2] THEN 1 ELSE 0)
  IN both[1, 1]

Pair(s, g) == [system |-> s, gold |-> g, head |-> system.words[s].head]

-----------------------------------------------------------------------------
Init ==
  /\ evaluated \in Evaluations
  /\ system = Data(evaluated.system)
  /\ gold = Data(evaluated.gold)
  /\ stage = "start"
  /\ si = 1 /\ gi = 1 /\ ss = 1 /\ gs = 1
  /\ multiword_range_end = 0
  /\ matched = <<>>

(* With a tokenizer the characters must be those of the gold data.         *)
Compare ==
  /\ stage = "start"
  /\ evaluated.tokenizer
  /\ stage' = IF system.chars = gold.chars THEN "align" ELSE "refused"
  /\ UNCHANGED <<evaluated, system, gold, si, gi, ss, gs, multiword_range_end, matched>>

(* Without one the words are the gold ones, and are aligned one by one.    *)
perfect_alignment ==
  /\ stage = "start"
  /\ ~evaluated.tokenizer
  /\ LET same == /\ Len(system.words) = Len(gold.words)
                 /\ \A k \in DOMAIN gold.words : system.words[k].form = gold.words[k].form
     IN IF same THEN /\ stage' = "done"
                     /\ matched' = [k \in DOMAIN gold.words |-> Pair(k, k)]
        ELSE stage' = "refused" /\ UNCHANGED matched
  /\ UNCHANGED <<evaluated, system, gold, si, gi, ss, gs, multiword_range_end>>

S == system.words[si]
G == gold.words[gi]
Aligning == stage = "align" /\ si <= Len(system.words) /\ gi <= Len(gold.words)
NoMultiword ==
  /\ S.start > G.start \/ ~S.is_multiword
  /\ G.start > S.start \/ ~G.is_multiword

(* Words out of multi-word tokens are aligned by their positions.          *)
AlignPlain ==
  /\ Aligning
  /\ NoMultiword
  /\ \/ /\ S.start = G.start /\ S.end = G.end
        /\ matched' = Append(matched, Pair(si, gi))
        /\ si' = si + 1 /\ gi' = gi + 1
     \/ /\ ~(S.start = G.start /\ S.end = G.end)
        /\ IF S.start <= G.start THEN si' = si + 1 /\ UNCHANGED gi ELSE gi' = gi + 1 /\ UNCHANGED si
        /\ UNCHANGED matched
  /\ UNCHANGED <<evaluated, system, gold, stage, ss, gs, multiword_range_end>>

EnterRange ==
  /\ Aligning
  /\ ~NoMultiword
  /\ stage' = "range"
  /\ ss' = si /\ gs' = gi
  /\ multiword_range_end' = IF S.is_multiword THEN S.end ELSE G.end
  /\ UNCHANGED <<evaluated, system, gold, si, gi, matched>>

Within(word) ==
  IF word.is_multiword THEN word.start < multiword_range_end ELSE word.end <= multiword_range_end
MoreInRange ==
  \/ si <= Len(system.words) /\ Within(S)
  \/ gi <= Len(gold.words) /\ Within(G)

SlipEndStays(word) == multiword_range_end

Extended(word) ==
  IF word.is_multiword /\ word.end > multiword_range_end THEN word.end ELSE multiword_range_end

(* The word that starts first joins the range, and may extend it.          *)
ExtendRange ==
  /\ stage = "range"
  /\ MoreInRange
  /\ IF si <= Len(system.words) /\ (gi > Len(gold.words) \/ S.start <= G.start)
     THEN multiword_range_end' = Extended(S) /\ si' = si + 1 /\ UNCHANGED gi
     ELSE multiword_range_end' = Extended(G) /\ gi' = gi + 1 /\ UNCHANGED si
  /\ UNCHANGED <<evaluated, system, gold, stage, ss, gs, matched>>

SameForm(s, g) == system.words[s].form = gold.words[g].form

(* The longest common subsequence of the words of the range from s and g.  *)
lcs(s, g) ==
  LET length[i \in ss..si, j \in gs..gi] ==
        IF i = si \/ j = gi THEN 0
        ELSE Max({length[i + 1, j], length[i, j + 1]}
                   \cup (IF SameForm(i, j) THEN {1 + length[i + 1, j + 1]} ELSE {}))
  IN length[s, g]

CommonWords ==
  LET walk[s \in ss..si, g \in gs..gi] ==
        IF s = si \/ g = gi THEN <<>>
        ELSE IF SameForm(s, g) THEN <<Pair(s, g)>> \o walk[s + 1, g + 1]
        ELSE IF lcs(s, g) = lcs(s + 1, g) THEN walk[s + 1, g]
        ELSE walk[s, g + 1]
  IN walk[ss, gs]

AlignRange ==
  /\ stage = "range"
  /\ ~MoreInRange
  /\ stage' = "align"
  /\ matched' = matched \o CommonWords
  /\ UNCHANGED <<evaluated, system, gold, si, gi, ss, gs, multiword_range_end>>

SlipPartner(head) == head

(* The number of the gold word that a word of the system is aligned with.  *)
gold_aligned(head) ==
  IF \E k \in DOMAIN matched : matched[k].system = head
  THEN matched[CHOOSE k \in DOMAIN matched : matched[k].system = head].gold
  ELSE -1

Reindex ==
  /\ stage = "align"
  /\ ~Aligning
  /\ stage' = "done"
  /\ matched' = [k \in DOMAIN matched |->
                   IF matched[k].head > 0 THEN [matched[k] EXCEPT !.head = gold_aligned(@)]
                   ELSE matched[k]]
  /\ UNCHANGED <<evaluated, system, gold, si, gi, ss, gs, multiword_range_end>>

Next == Compare \/ perfect_alignment \/ AlignPlain \/ EnterRange \/ ExtendRange \/ AlignRange \/ Reindex

Spec == Init /\ [][Next]_vars

-----------------------------------------------------------------------------
(* The reference: a region is a chain of multi-word tokens, of any of the  *)
(* data, in which each overlaps the next.                                  *)

Spans(data) == {<<w.start, w.end>> : w \in {v \in ToSet(data.words) : v.is_multiword}}
Overlap(a, b) == a[1] < b[2] /\ b[1] < a[2]
Regions ==
  LET spans == Spans(system) \cup Spans(gold)
      Grown(R) == R \cup {b \in spans : \E a \in R : Overlap(a, b)}
      region[k \in 0..Cardinality(spans), a \in spans] ==
        IF k = 0 THEN {a} ELSE Grown(region[k - 1, a])
      Hull(R) == <<Min({a[1] : a \in R}), Max({a[2] : a \in R})>>
  IN {Hull(region[Cardinality(spans), a]) : a \in spans}

Inside(word, region) == region[1] <= word.start /\ word.end <= region[2]

(* Words that may be aligned: by their position out of all regions, and by *)
(* their forms within one.                                                 *)
Alignable(regions, s, g) ==
  LET v == system.words[s]
      w == gold.words[g]
  IN IF \E r \in regions : Inside(v, r)
     THEN v.form = w.form /\ \E r \in regions : Inside(v, r) /\ Inside(w, r)
     ELSE <<v.start, v.end>> = <<w.start, w.end>>

BestAlignment ==
  LET regions == Regions
      alignable == {p \in (DOMAIN system.words) \X (DOMAIN gold.words) : Alignable(regions, p[1], p[2])}
      best[i \in 1..Len(system.words) + 1, j \in 1..Len(gold.words) + 1] ==
        IF i > Len(system.words) \/ j > Len(gold.words) THEN 0
        ELSE IF <<i, j>> \in alignable THEN 1 + best[i + 1, j + 1]
        ELSE Max({best[i + 1, j], best[i, j + 1]})
  IN best[1, 1]

(* A word of the system that covers the start of a multi-word token of the *)
(* gold data and is followed by one.                                       *)
Straddles ==
  \E k \in 1..Len(system.words) - 1, g \in DOMAIN gold.words :
    /\ system.words[k + 1].is_multiword /\ ~system.words[k].is_multiword
    /\ gold.words[g].is_multiword
    /\ system.words[k].start < gold.words[g].start /\ gold.words[g].end <= system.words[k].end

(* The alignment goes forward in both data, and has as many words as words *)
(* can be aligned, or more where a range of the gold data and a range of   *)
(* the system that is apart from it were taken as one.                     *)
BestAligned ==
  stage = "done" /\ evaluated.tokenizer =>
    /\ \A k \in 1..Len(matched) - 1 :
         matched[k].system < matched[k + 1].system /\ matched[k].gold < matched[k + 1].gold
    /\ \A k \in DOMAIN matched :
         LET v == system.words[matched[k].system]
             w == gold.words[matched[k].gold]
         IN v.form = w.form \/ <<v.start, v.end>> = <<w.start, w.end>>
    /\ IF Straddles THEN Len(matched) >= BestAlignment ELSE Len(matched) = BestAlignment

(* A range that is closed has taken a word, so that the loop goes on.      *)
RangeAdvances == stage = "range" /\ ~MoreInRange => si > ss \/ gi > gs

(* The words of sentences, in order: sentence, number in it, and head.     *)
Flat(sentences) ==
  FlattenSeq([n \in DOMAIN sentences |->
    LET words == FlattenSeq([k \in DOMAIN sentences[n] |-> sentences[n][k].words])
    IN [i \in DOMAIN words |-> <<n, i, words[i].head>>]])

Parents(sentences) ==
  LET flat == Flat(sentences)
  IN [i \in DOMAIN flat |->
        {j \in DOMAIN flat : flat[j][1] = flat[i][1] /\ flat[j][2] = flat[i][3]}]

(* A head counts as right exactly when both words are roots, or the heads  *)
(* of both are aligned with each other.                                    *)
HeadsRight ==
  stage = "done" =>
    LET pairs == {<<matched[k].system, matched[k].gold>> : k \in DOMAIN matched}
        systems == Parents(evaluated.system)
        golds == Parents(evaluated.gold)
    IN \A k \in DOMAIN matched :
         LET s == systems[matched[k].system]
             g == golds[matched[k].gold]
         IN (matched[k].head = gold.words[matched[k].gold].head)
              <=> (s = {} /\ g = {}) \/ (\E p \in pairs : p[1] \in s /\ p[2] \in g)

(* The tokens, multi-word tokens and sentences that are counted as found   *)
(* are those that are in both data.                                        *)
CountsRight ==
  stage = "done" /\ evaluated.tokenizer =>
    \A part \in {"tokens", "multiwords", "sentences"} :
      Both(system[part], gold[part]) = Cardinality(ToSet(system[part]) \cap ToSet(gold[part]))

Visible(sentences) ==
  LET tokens == FlattenSeq(sentences)
  IN SelectSeq(FlattenSeq([k \in DOMAIN tokens |-> tokens[k].form]), LAMBDA c : c # " ")

(* Data is refused only where the visible characters differ, however they  *)
(* are divided by tokens and by spaces within them, and with the gold      *)
(* tokenization never.                                                     *)
RefusedRight ==
  stage = "refused" =>
    evaluated.tokenizer /\ Visible(evaluated.system) # Visible(evaluated.gold)
=============================================================================
