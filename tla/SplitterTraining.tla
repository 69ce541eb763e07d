--------------------------- MODULE SplitterTraining ---------------------------
(***************************************************************************)
(* The training of the multi-word splitter                                 *)
(* (multiword_splitter_trainer.cpp), followed by the splitter that loads   *)
(* the rules.  The data is a sequence of tokens: a multi-word token has    *)
(* several words, a plain word is its only one.  A letter is one byte.     *)
(***************************************************************************)
EXTENDS MultiwordSplitter

CONSTANTS
  TrainingData,  \* the data: sequences of [form, words]
  Alphabet       \* the lower case letters in the order of their codes

VARIABLE data

trainingVars == <<data, rules, full_rules, suffix_rules, tokens, words, mwts>>

IsMultiword(token) == Len(token.words) > 1
LowerWords(token) == [i \in DOMAIN token.words |-> Lower(token.words[i])]

NoRules == [k \in {} |-> [words |-> <<>>, count |-> 0]]

(* One more token or rule for a key: counted if it has the words that the  *)
(* first one had.                                                          *)
Counted(table, key, split) ==
  [k \in DOMAIN table \cup {key} |->
    IF k # key THEN table[k]
    ELSE IF k \notin DOMAIN table THEN [words |-> split, count |-> 1]
    ELSE [table[k] EXCEPT !.count = @ + IF split = table[k].words THEN 1 ELSE 0]]

(* One less; the rule is erased where the count is no more than that.      *)
Fewer(table, key, by) ==
  [k \in {k \in DOMAIN table : k # key \/ table[k].count > by} |->
    IF k = key THEN [table[k] EXCEPT !.count = @ - by] ELSE table[k]]

MultiwordCounts(corpus) ==
  FoldLeft(LAMBDA table, t : IF IsMultiword(t) THEN Counted(table, Lower(t.form), LowerWords(t)) ELSE table,
           NoRules, corpus)

SlipAllTokens(corpus) ==
  FoldLeft(LAMBDA table, t : Fewer(table, Lower(t.form), 1), MultiwordCounts(corpus), corpus)

FullRules(corpus) ==
  FoldLeft(LAMBDA table, t : IF IsMultiword(t) THEN table ELSE Fewer(table, Lower(t.form), 1),
           MultiwordCounts(corpus), corpus)

(* The order of std::map.                                                  *)
Rank(c) == CHOOSE n \in DOMAIN Alphabet : Alphabet[n] = c
Less(a, b) ==
  \E n \in DOMAIN b :
    /\ \A m \in 1..n - 1 : m \in DOMAIN a /\ a[m] = b[m]
    /\ n \in DOMAIN a => Rank(a[n]) < Rank(b[n])
Ordered(keys) == SetToSortSeq(keys, Less)

(* The suffixes of a full rule: as many letters as the token and its first *)
(* word both have, and fewer, are taken from both, equal or not.           *)
SuffixesOf(table, key, split) ==
  LET prefix_match == IF Len(key) < Len(split[1]) THEN Len(key) ELSE Len(split[1])
      Cut(s, n) == SubSeq(s, n + 1, Len(s))
  IN FoldLeft(LAMBDA t, n : Counted(t, Cut(key, n), [split EXCEPT ![1] = Cut(@, n)]),
              table, [i \in 1..prefix_match |-> prefix_match + 1 - i])

SuffixCounts(full) ==
  FoldLeft(LAMBDA t, key : SuffixesOf(t, key, full[key].words), NoRules, Ordered(DOMAIN full))

SlipLastLetter(form) == [n \in 1..Len(form) - 2 |-> SubSeq(form, n + 1, Len(form))]

(* What is left of a plain word when letters are erased from its front.    *)
ProperSuffixes(form) == [n \in 1..Len(form) - 1 |-> SubSeq(form, n + 1, Len(form))]

SuffixRules(corpus) ==
  FoldLeft(LAMBDA table, t :
             IF IsMultiword(t) THEN table
             ELSE FoldLeft(LAMBDA u, s : Fewer(u, s, 10), table, ProperSuffixes(Lower(t.form))),
           SuffixCounts(FullRules(corpus)), corpus)

(* The rules in the order they are in the file.                            *)
Encoded(corpus) ==
  LET Listed(table, full) ==
        [i \in DOMAIN Ordered(DOMAIN table) |->
          [full |-> full, key |-> Ordered(DOMAIN table)[i], words |-> table[Ordered(DOMAIN table)[i]].words]]
  IN Listed(FullRules(corpus), TRUE) \o Listed(SuffixRules(corpus), FALSE)

InitTraining == data \in TrainingData /\ Init

LoadTrained ==
  /\ \E file \in {Encoded(data)} :
       Cardinality(rules) < Len(file) /\ load(file[Cardinality(rules) + 1])
  /\ UNCHANGED data

(* The trained splitter is given a token of the data it was trained on.    *)
SplitAgain ==
  /\ Cardinality(rules) = Len(Encoded(data))
  /\ \E i \in DOMAIN data : append_token(data[i].form)
  /\ UNCHANGED data

NextTraining == LoadTrained \/ SplitAgain

-----------------------------------------------------------------------------
(* On the data it was trained on the splitter does what most of the data   *)
(* does: a token which is one word at least as often as it is split the    *)
(* way it was split first is not split, also not by a suffix of another    *)
(* token, and any other is split that way.  (A suffix that more than ten   *)
(* tokens have may outweigh a word; the data here is smaller.)             *)
TrainedRight ==
  tokens # <<>> =>
    LET form == Lower(tokens[1])
        Same(t) == Lower(t.form) = form
        splits == SelectSeq(data, LAMBDA t : Same(t) /\ IsMultiword(t))
        plain == SelectSeq(data, LAMBDA t : Same(t) /\ ~IsMultiword(t))
        first == LowerWords(splits[1])
    IN IF \/ splits = <<>>
          \/ Len(plain) >= Len(SelectSeq(splits, LAMBDA t : LowerWords(t) = first))
       THEN words = <<tokens[1]>>
       ELSE [i \in DOMAIN words |-> Lower(words[i])] = first
=============================================================================
