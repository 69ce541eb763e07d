---------------------------- MODULE GuesserTraining ----------------------------
(***************************************************************************)
(* The training of the guesser (morpho_statistical_guesser_trainer.cpp),   *)
(* whose rules the analyzer then uses.  The data are forms of letters with *)
(* a lemma and a tag; a letter is one byte.                                *)
(***************************************************************************)
EXTENDS Morphology

CONSTANTS
  GuesserData,          \* sequences of [form, lemma, tag]
  suffix_len, rules_per_suffix, max_prefixes, min_prefix_count

VARIABLE pairs          \* the training data

get_casing(word) ==
  LET rest == {IsUpper(word[i]) : i \in 2..Len(word)}
  IN CASE IsUpper(word[1]) /\ TRUE \notin rest /\ rest # {} -> "UCLC"
       [] IsUpper(word[1]) /\ FALSE \notin rest -> "UC"
       [] ~IsUpper(word[1]) /\ TRUE \notin rest -> "LC"
       [] OTHER -> "OTHER"

(* A form that only stands in a larger case than its lemma takes its case. *)
NormalForm(d) ==
  LET form == get_casing(d.form)
      lemma == get_casing(d.lemma)
  IN CASE lemma = "LC" /\ form \in {"UCLC", "UC"} -> Lower(d.form)
       [] lemma = "UCLC" /\ form = "UC" -> <<d.form[1]>> \o Lower(Tail(d.form))
       [] OTHER -> d.form

(* The longest part that form and lemma have in common, without that of    *)
(* only the last letter of the form and the first of the lemma; of equal   *)
(* ones that which the loops over offsets and positions come to first.     *)
Common(form, lemma) ==
  LET parts == {[at |-> f, in |-> l, length |-> n] :
                  f \in 0..Len(form), l \in 0..Len(lemma), n \in 0..Len(form)}
      fitting == {p \in parts :
                    /\ p.at + p.length <= Len(form) /\ p.in + p.length <= Len(lemma)
                    /\ SubSeq(form, p.at + 1, p.at + p.length) = SubSeq(lemma, p.in + 1, p.in + p.length)
                    /\ p.length > 0 => p.at - p.in < Len(form) - 1
                    /\ p.length = 0 => p.at = 0 /\ p.in = 0}
      Rank(p) == (p.at - p.in) * 100 + p.at
  IN CHOOSE p \in fitting : \A q \in fitting :
       q.length < p.length \/ (q.length = p.length /\ Rank(p) <= Rank(q))

SlipFromStart(s, start, length) == SubSeq(s, length + 1, Len(s))

Behind(s, start, length) == SubSeq(s, start + length + 1, Len(s))

lemma_rule(form, lemma) ==
  LET c == Common(form, lemma)
  IN [pref_del |-> SubSeq(form, 1, c.at), pref_add |-> SubSeq(lemma, 1, c.in),
      suff_del |-> Behind(form, c.at, c.length), suff_add |-> Behind(lemma, c.in, c.length)]

instance(d) ==
  LET form == NormalForm(d)
      rule == lemma_rule(form, d.lemma)
  IN [form |-> form, form_prefix |-> IF rule.pref_add = <<>> THEN rule.pref_del ELSE <<>>,
      rule |-> rule @@ [tags |-> <<d.tag>>]]

Instances(data) == {instance(d) : d \in ToSet(data)}

-----------------------------------------------------------------------------
(* The prefixes that enough forms have, at most max_prefixes of them, and  *)
(* the empty one.  Equal counts may be cut anywhere.                       *)
PrefixChoices(insts) ==
  LET FormsWith(p) == Cardinality({x.form : x \in {y \in insts : y.form_prefix = p}})
      frequent == {p \in {x.form_prefix : x \in insts} : p # <<>> /\ FormsWith(p) >= min_prefix_count}
  IN {{<<>>} \cup top : top \in
       {t \in SUBSET frequent :
          /\ Cardinality(t) <= max_prefixes
          /\ t = frequent \/ Cardinality(t) = max_prefixes
          /\ \A p \in t, q \in frequent \ t : FormsWith(p) >= FormsWith(q)}}

PrefixOf(prefixes, form) ==
  CHOOSE p \in prefixes : IsPrefix(p, form) /\ \A q \in prefixes : IsPrefix(q, form) => Len(q) <= Len(p)

Ending(form, n) == SubSeq(form, Len(form) - n + 1, Len(form))
SuffixesSeen(insts) ==
  UNION {{Ending(x.form, n) : n \in 1..(IF Len(x.form) < suffix_len THEN Len(x.form) ELSE suffix_len)}
         : x \in insts}

(* rules: the forms that have a rule with a prefix and a suffix.           *)
FormsOf(insts, prefixes, prefix, suffix, rule) ==
  {x.form : x \in {y \in insts :
                     y.rule = rule /\ PrefixOf(prefixes, y.form) = prefix /\ IsSuffix(suffix, y.form)}}

Limited(rules) == SubSeq(rules, 1, IF Len(rules) < rules_per_suffix THEN Len(rules) ELSE rules_per_suffix)

(* The rules for a prefix and a suffix, the most frequent first, that      *)
(* gathered does not have yet; as many as there is place for.              *)
Gather(insts, prefixes, gathered, prefix, suffix) ==
  LET Count(r) == Cardinality(FormsOf(insts, prefixes, prefix, suffix, r))
      new == {r \in {x.rule : x \in insts} : Count(r) > 0} \ ToSet(gathered)
      all == gathered \o SetToSortSeq(new, LAMBDA r, q : Count(r) > Count(q))
  IN Limited(all)

(* The rules of a label: with the prefix and ever shorter suffixes, and if *)
(* there are any, then without the prefix.                                 *)
RulesFor(insts, prefixes, prefix, suffix) ==
  LET Shorter(gathered, p) ==
        FoldLeft(LAMBDA g, n : Gather(insts, prefixes, g, p, Ending(suffix, n)), gathered,
                 [i \in 1..Len(suffix) |-> Len(suffix) + 1 - i])
      Rest(rules) == IF rules = <<>> \/ prefix = <<>> THEN rules ELSE Shorter(rules, <<>>)
  IN Rest(Shorter(<<>>, prefix))

train(insts, prefixes) ==
  LET Named(p, s) == Reverse(s) \o <<" ">> \o p
      labelled == {[label |-> Named(c[1], c[2]), rules |-> RulesFor(insts, prefixes, c[1], c[2])]
                   : c \in prefixes \X SuffixesSeen(insts)}
      ruled == {r \in labelled : r.rules # <<>>}
  IN [l \in {r.label : r \in ruled} |-> (CHOOSE r \in ruled : r.label = l).rules]

(* A form of the training data is given to the analyzer that has the rules.*)
InitTraining ==
  /\ pairs \in GuesserData
  /\ \E insts \in {Instances(pairs)} :
       \E prefixes \in PrefixChoices(insts) : \E rules \in {train(insts, prefixes)}, x \in insts :
         analyzed = [form |-> x.form, guesser |-> TRUE, rules |-> rules, known |-> {},
                     prefix |-> PrefixOf(prefixes, x.form), prefixes |-> prefixes]
  /\ lemmas = <<>>

NextTraining == analyze /\ UNCHANGED pairs

-----------------------------------------------------------------------------
(* The guesser gives a word it was trained on the lemma and the tag of the *)
(* training data, unless as many rules as a label may have are no rarer    *)
(* with the same prefix and suffix.  Where the longest suffix and the      *)
(* prefix of the form overlap, another label may be found, and the word    *)
(* may be guessed otherwise.                                               *)
TrainedGuess ==
  lemmas # <<>> =>
    \A i \in DOMAIN pairs :
      LET x == instance(pairs[i])
          length == IF Len(x.form) < suffix_len THEN Len(x.form) ELSE suffix_len
          Frequency(r) == Cardinality(FormsOf(Instances(pairs), analyzed.prefixes, analyzed.prefix,
                                              Ending(x.form, length), r))
          others == {y.rule : y \in Instances(pairs)} \ {x.rule}
      IN /\ x.form = analyzed.form
         /\ Len(analyzed.prefix) + length <= Len(x.form)
         /\ Cardinality({r \in others : Frequency(r) >= Frequency(x.rule)}) < rules_per_suffix
         => [lemma |-> pairs[i].lemma, tag |-> pairs[i].tag] \in ToSet(lemmas)
=============================================================================
