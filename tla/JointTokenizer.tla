--------------------------- MODULE JointTokenizer ---------------------------
(***************************************************************************)
(* The tokenizer that segments jointly with parsing                        *)
(* (model_morphodita_parsito.cpp, joint_with_parsing_tokenizer): the       *)
(* sentences of the wrapped tokenizer are joined to paragraphs, a dynamic  *)
(* program over the ends of sentences picks the segmentation the parser    *)
(* likes best, and the words and the multi-word tokens are dealt out to    *)
(* the new sentences.                                                      *)
(*                                                                         *)
(* A sentence of the wrapped tokenizer is the widths of its tokens in      *)
(* words and whether a paragraph begins there.  Positions count from 0:    *)
(* position p is the boundary behind the first p words of the paragraph.   *)
(***************************************************************************)
EXTENDS Integers, FiniteSets, FiniteSetsExt, SequencesExt

CONSTANTS
  JointInputs,           \* the texts, each the sentences the tokenizer finds
  max_sentence_len,      \* joint_max_sentence_len
  ParseCosts,            \* the log-probabilities a parse may have
  sentence_logprob,
  change_boundary_logprob

VARIABLES
  text,                  \* the sentences of the text being segmented
  input,                 \* the sentences still in the wrapped tokenizer
  paragraph,             \* those taken from it for this paragraph
  phase,                 \* "read", "search", "back", "deal", "over"
  from,                  \* the position the search starts sentences from
  best,                  \* [logprob, length] of every position; None
  cost,                  \* what the parser said of every span so far
  end,                   \* where the way back is
  lengths,               \* the lengths found on it, last first
  result,                \* the sentences of the paragraphs segmented so far
  new_document

vars == <<text, input, paragraph, phase, from, best, cost, end, lengths, result, new_document>>

None == [logprob |-> 0, length |-> 0]   \* minus infinity, not reached

Tokens(sentences) == FlattenSeq([i \in DOMAIN sentences |-> sentences[i].tokens])
Total(widths) == FoldLeft(+, 0, widths)
PrefixSums(widths) == {Total(SubSeq(widths, 1, k)) : k \in 0..Len(widths)}

(* all_words, sentence_boundary and token_boundary of the paragraph.       *)
Words == Total(Tokens(paragraph))
token_boundary == PrefixSums(Tokens(paragraph))
sentence_boundary == PrefixSums([i \in DOMAIN paragraph |-> Total(paragraph[i].tokens)])

SlipNoOffset(sentences) ==
  LET Start(t, k) == Total(SubSeq(t, 1, k - 1))
      Of(t) == SelectSeq([k \in DOMAIN t |-> [id_first |-> Start(t, k) + 1,
                                             id_last |-> Start(t, k) + t[k]]],
                         LAMBDA m : m.id_first < m.id_last)
  IN FlattenSeq([i \in DOMAIN sentences |-> Of(sentences[i].tokens)])

(* all_words.multiword_tokens: the ids count through the paragraph.        *)
multiword_tokens(sentences) ==
  LET t == Tokens(sentences)
      Start(k) == Total(SubSeq(t, 1, k - 1))
  IN SelectSeq([k \in DOMAIN t |-> [id_first |-> Start(k) + 1, id_last |-> Start(k) + t[k]]],
               LAMBDA m : m.id_first < m.id_last)

Init ==
  /\ text \in JointInputs /\ input = text
  /\ paragraph = <<>> /\ phase = "read"
  /\ from = 0 /\ best = <<>> /\ cost = <<>>
  /\ end = 0 /\ lengths = <<>>
  /\ result = <<>> /\ new_document = TRUE

(* next_sentence: a sentence that begins a paragraph has the one before    *)
(* it parsed first.                                                        *)
Read ==
  /\ phase = "read" /\ input # <<>>
  /\ ~(Head(input).par /\ paragraph # <<>>)
  /\ paragraph' = Append(paragraph, Head(input)) /\ input' = Tail(input)
  /\ UNCHANGED <<text, phase, from, best, cost, end, lengths, result, new_document>>

parse_paragraph ==
  /\ phase = "read" /\ paragraph # <<>>
  /\ input # <<>> => Head(input).par
  /\ phase' = "search" /\ from' = 0
  /\ best' = [p \in 0..Words |-> None]
  /\ cost' = [span \in {} |-> 0]
  /\ UNCHANGED <<text, input, paragraph, end, lengths, result, new_document>>

Over ==
  /\ phase = "read" /\ paragraph = <<>> /\ input = <<>>
  /\ phase' = "over"
  /\ UNCHANGED <<text, input, paragraph, from, best, cost, end, lengths, result, new_document>>

Reached(b, p) == p = 0 \/ b[p].length > 0

(* The ends of sentences from position p that are tried.                   *)
Ends(p) == {e \in token_boundary : p < e /\ e - p <= max_sentence_len}

(* The boundaries of the tokenizer the sentence from p to e does not use.  *)
Changes(p, e) == Cardinality({p, e} \ sentence_boundary)

SpanLogprob(c, p, e) == c + sentence_logprob + change_boundary_logprob * Changes(p, e)

SlipLastWins(b, p, e, c) ==
  IF Reached(b, p)
  THEN [b EXCEPT ![e] = [logprob |-> b[p].logprob + SpanLogprob(c, p, e), length |-> e - p]]
  ELSE b

(* best_logprob and best_length change if the way over p is better.        *)
Improve(b, p, e, c) ==
  LET logprob == b[p].logprob + SpanLogprob(c, p, e)
  IN IF Reached(b, p) /\ (Reached(b, e) => logprob > b[e].logprob)
     THEN [b EXCEPT ![e] = [logprob |-> logprob, length |-> e - p]]
     ELSE b

(* One round of the loop over start: the parser is asked about every       *)
(* sentence from there.                                                    *)
SearchFrom ==
  /\ phase = "search" /\ from < Words
  /\ from' = from + 1
  /\ IF from \notin token_boundary
     THEN UNCHANGED <<best, cost>>
     ELSE \E c \in [Ends(from) -> ParseCosts] :
            /\ best' = [e \in DOMAIN best |-> IF e \in Ends(from)
                                             THEN Improve(best, from, e, c[e])[e]
                                             ELSE best[e]]
            /\ cost' = [span \in DOMAIN cost \cup ({from} \X Ends(from)) |->
                          IF span \in DOMAIN cost THEN cost[span] ELSE c[span[2]]]
  /\ UNCHANGED <<text, input, paragraph, phase, end, lengths, result, new_document>>

SearchOver ==
  /\ phase = "search" /\ from = Words
  /\ phase' = "back" /\ end' = Words /\ lengths' = <<>>
  /\ UNCHANGED <<text, input, paragraph, from, best, cost, result, new_document>>

(* One round of the way back; where no sentence ends the length is 0 and   *)
(* the loop goes on for ever, which is not followed here.                  *)
Back ==
  /\ phase = "back" /\ end > 0 /\ best[end].length > 0
  /\ lengths' = Append(lengths, best[end].length)
  /\ end' = end - best[end].length
  /\ UNCHANGED <<text, input, paragraph, phase, from, best, cost, result, new_document>>

(* The sentence of the words first + 1 to last; its ids begin at 1.        *)
Dealt(mwts, first, last) ==
  [words |-> [i \in 1..last - first |-> first + i],
   mwts |-> [k \in DOMAIN mwts |-> [id_first |-> mwts[k].id_first - first,
                                    id_last |-> mwts[k].id_last - first]]]

(* The words and multi-word tokens dealt out, and the marks of the first   *)
(* sentence.                                                               *)
Deal ==
  /\ phase = "back" /\ end = 0
  /\ LET ls == Reverse(lengths)
         Until(i) == Total(SubSeq(ls, 1, i))
         In(i) == SelectSeq(multiword_tokens(paragraph),
                            LAMBDA m : Until(i - 1) < m.id_first /\ m.id_first <= Until(i))
     IN result' = result \o
          [i \in DOMAIN ls |->
             [sentence |-> Dealt(In(i), Until(i - 1), Until(i)),
              par |-> i = 1, doc |-> i = 1 /\ new_document]]
  /\ new_document' = FALSE
  /\ paragraph' = <<>> /\ phase' = "read"
  /\ UNCHANGED <<text, input, from, best, cost, end, lengths>>

Next == Read \/ parse_paragraph \/ SearchFrom \/ SearchOver \/ Back \/ Deal \/ Over

Spec == Init /\ [][Next]_vars

-----------------------------------------------------------------------------
(* The segmentations allowed, as sets of boundaries, and their logprob.    *)
Behind(B, p) == Min({e \in B : e > p})

Segmentations ==
  {B \in SUBSET token_boundary :
     {0, Words} \subseteq B /\ \A p \in B \ {Words} : Behind(B, p) - p <= max_sentence_len}

Logprob(B) ==
  MapThenSumSet(LAMBDA p : SpanLogprob(cost[<<p, Behind(B, p)>>], p, Behind(B, p)), B \ {Words})

(* manual_user.t2t of joint_with_parsing: if the tokens of a paragraph can *)
(* be segmented into sentences of at most max_sentence_len words at all,   *)
(* the way back over best_length ends, and in a segmentation whose         *)
(* logprob no other exceeds.                                               *)
BestSegmentation ==
  phase = "back" /\ Segmentations # {} =>
    /\ end > 0 => best[end].length > 0
    /\ end = 0 => LET ls == PrefixSums(Reverse(lengths))
                  IN ls \in Segmentations /\ \A B \in Segmentations : Logprob(B) <= Logprob(ls)

(* The widths of the tokens of a sentence, read from its multi-word tokens *)
(* (one of width 0 stands for a token that leaves the sentence).           *)
Widths(s) ==
  LET n == Len(s.words)
      Inside(i) == \E m \in Range(s.mwts) : m.id_first < i /\ i <= m.id_last
      Width(i) == LET ms == {m \in Range(s.mwts) : m.id_first = i}
                  IN IF ms = {} THEN 1
                     ELSE LET m == CHOOSE m \in ms : TRUE
                          IN IF m.id_last <= n THEN m.id_last - i + 1 ELSE 0
      starts == SelectSeq([i \in 1..n |-> i], LAMBDA i : ~Inside(i))
  IN [k \in DOMAIN starts |-> Width(starts[k])]

(* Whatever segmentation is found, the new sentences have the tokens of    *)
(* the text in order, the multi-word tokens with ids of their own          *)
(* sentence; paragraphs begin where they did and only the first sentence   *)
(* begins the document.                                                    *)
DealtRight ==
  phase = "over" =>
    LET tokens == [i \in DOMAIN result |-> Widths(result[i].sentence)]
        mwts == [i \in DOMAIN result |-> result[i].sentence.mwts]
        Starts(ts, pars) == {Len(FlattenSeq(SubSeq(ts, 1, i - 1))) :
                              i \in {i \in DOMAIN ts : i = 1 \/ pars[i].par}}
    IN /\ FlattenSeq(tokens) = Tokens(text)
       /\ Len(FlattenSeq(mwts)) = Len(SelectSeq(Tokens(text), LAMBDA w : w > 1))
       /\ Starts(tokens, result) = Starts([i \in DOMAIN text |-> text[i].tokens], text)
       /\ \A i \in DOMAIN result : result[i].doc <=> i = 1
=============================================================================
