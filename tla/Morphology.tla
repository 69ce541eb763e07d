------------------------------ MODULE Morphology ------------------------------
(***************************************************************************)
(* The morphological analyzer of the models (generic_morpho.cpp, with      *)
(* casing_variants.h and morpho_statistical_guesser.cpp): the dictionary,  *)
(* then numbers, punctuation and symbols, then the guesser.  Forms are     *)
(* sequences of characters.  The guesser has its rules under labels of a   *)
(* reversed suffix, a space and a prefix, and all beginnings of labels.    *)
(***************************************************************************)
EXTENDS Integers, FiniteSets, SequencesExt

CONSTANTS
  Analyses,      \* what to analyze: [form, guesser, rules, known], where rules
                 \* is a function from labels to sequences of rules
  Lowercase,     \* character -> character
  Category       \* character -> "N", "P", "S" or "L"

VARIABLES analyzed, lemmas

vars == <<analyzed, lemmas>>

Lower(s) == [i \in DOMAIN s |-> Lowercase[s[i]]]
IsUpper(c) == Lowercase[c] # c

(* The form, and those of its casing variants that differ from it.         *)
casing_variants(form) ==
  LET first == IsUpper(form[1])
      rest == \E i \in 2..Len(form) : IsUpper(form[i])
  IN <<form>> \o (IF first /\ rest THEN <<<<form[1]>> \o Lower(Tail(form))>> ELSE <<>>)
              \o (IF first \/ rest THEN <<Lower(form)>> ELSE <<>>)

SlipNoFinalDot(form, i) == i > Len(form)

(* Nothing is left, or a dot.                                              *)
Ends(form, i) == i > Len(form) \/ (i = Len(form) /\ form[i] = ".")

(* The automaton for numbers.  A position is that of codepoint, behind the *)
(* form when decode has returned 0.                                        *)
is_number(form) ==
  LET At(i, chars) == i <= Len(form) /\ form[i] \in chars
      digits[i \in 1..Len(form) + 1] == IF At(i, {"1"}) THEN digits[i + 1] ELSE i
      sign == IF At(1, {"+", "-"}) THEN 2 ELSE 1
      whole == digits[sign]
      point == IF At(whole, {","}) \/ (At(whole, {"."}) /\ whole < Len(form)) THEN whole + 1 ELSE whole
      fraction == digits[point]
      any_digit == whole > sign \/ fraction > point
      exponent == IF At(fraction + 1, {"+", "-"}) THEN fraction + 2 ELSE fraction + 1
  IN IF any_digit /\ At(fraction, {"e", "E"})
     THEN exponent <= Len(form) /\ digits[exponent] > exponent /\ Ends(form, digits[exponent])
     ELSE any_digit /\ Ends(form, fraction)

analyze_special(form) ==
  LET All(category) == \A i \in DOMAIN form : Category[form[i]] = category
  IN IF is_number(form) THEN <<[lemma |-> form, tag |-> "number"]>>
     ELSE IF All("P") THEN <<[lemma |-> form, tag |-> "punctuation"]>>
     ELSE IF All("S") THEN <<[lemma |-> form, tag |-> "symbol"]>>
     ELSE <<>>

-----------------------------------------------------------------------------
(* The guesser.                                                            *)

Label(form, suffix_len, prefix_len) ==
  Reverse(SubSeq(form, Len(form) - suffix_len + 1, Len(form))) \o <<" ">> \o SubSeq(form, 1, prefix_len)

(* The labels that rules.at finds: add_prefixes when the map is made.      *)
Labels(rules) == UNION {{SubSeq(l, 1, n) : n \in 1..Len(l)} : l \in DOMAIN rules}

(* How many characters of the end the loop adds as long as it finds them.  *)
LongestSuffix(rules, form) ==
  LET last == Reverse(form)
      found[n \in 0..Len(form)] ==
        IF n < Len(form) /\ SubSeq(last, 1, n + 1) \in Labels(rules) THEN found[n + 1] ELSE n
  IN found[0]

SlipFirstPrefix(rules, form, suffix_len) ==
  {n \in 0..Len(form) - suffix_len : Label(form, suffix_len, n) \in DOMAIN rules /\ n = 0}

(* The prefix lengths with a rule that the inner loop comes to.            *)
PrefixesFound(rules, form, suffix_len) ==
  {n \in 0..Len(form) - suffix_len :
     /\ \A m \in 0..n : Label(form, suffix_len, m) \in Labels(rules)
     /\ Label(form, suffix_len, n) \in DOMAIN rules}

(* The label of the rule for a form, <<>> if there is none.                *)
RuleFound(rules, form) ==
  LET down[n \in 0..Len(form)] ==
        LET found == PrefixesFound(rules, form, n)
        IN IF found # {} THEN Label(form, n, CHOOSE p \in found : \A q \in found : q <= p)
           ELSE IF n = 0 THEN <<>> ELSE down[n - 1]
  IN down[LongestSuffix(rules, form)]

(* The lemmas that the rules of a label make; a rule that does not fit the *)
(* form or leaves nothing of it is skipped.                                *)
Made(rule, form) ==
  LET dels == Len(rule.pref_del) + Len(rule.suff_del)
      lemma == rule.pref_add \o SubSeq(form, Len(rule.pref_del) + 1, Len(form) - Len(rule.suff_del))
                 \o rule.suff_add
  IN IF dels > Len(form) \/ ~IsPrefix(rule.pref_del, form) \/ ~IsSuffix(rule.suff_del, form)
          \/ lemma = <<>>
     THEN <<>>
     ELSE [t \in DOMAIN rule.tags |-> [lemma |-> lemma, tag |-> rule.tags[t]]]

Applied(rules, label, form) ==
  FoldLeft(LAMBDA s, rule : s \o Made(rule, form), <<>>, rules[label])

(* One call: found is what the calls before it found, used their rules,    *)
(* where <<>> is the default tag.                                          *)
Guess(rules, state, form) ==
  LET label == RuleFound(rules, form)
      new == Len(label) > 1 /\ label \notin state.used
      guessed == IF new THEN Applied(rules, label, form) ELSE <<>>
      used == state.used \cup IF new THEN {label} ELSE {}
  IN IF guessed # <<>> THEN [found |-> state.found \o guessed, used |-> used]
     ELSE IF <<>> \in used THEN [state EXCEPT !.used = used]
     ELSE [found |-> Append(state.found, [lemma |-> form, tag |-> "default"]), used |-> used \cup {<<>>}]

Guessed(rules, forms) ==
  FoldLeft(LAMBDA state, form : Guess(rules, state, form), [found |-> <<>>, used |-> {}], forms).found

-----------------------------------------------------------------------------
Init == analyzed \in Analyses /\ lemmas = <<>>

(* What the first of several searches finds that finds anything.           *)
FirstOf(searches) == SelectSeq(searches, LAMBDA s : s # <<>>)[1]

analyze ==
  LET variants == casing_variants(analyzed.form)
      known == SelectSeq(variants, LAMBDA v : v \in analyzed.known)
  IN /\ lemmas = <<>>
     /\ lemmas' = FirstOf(
          <<[v \in DOMAIN known |-> [lemma |-> known[v], tag |-> "known"]],
            analyze_special(analyzed.form),
            IF analyzed.guesser THEN Guessed(analyzed.rules, variants) ELSE <<>>,
            <<[lemma |-> analyzed.form, tag |-> "unknown"]>>>>)
     /\ UNCHANGED analyzed

Next == analyze

-----------------------------------------------------------------------------
(* A sign, digits, a point or comma with digits, an exponent with a digit, *)
(* all optional but for one digit before the exponent, and a final dot.    *)
Number(s) ==
  LET Digits(t) == \A i \in DOMAIN t : t[i] = "1"
      Signed(t) == IF t # <<>> /\ t[1] \in {"+", "-"} THEN Tail(t) ELSE t
      Exponent(t) == t # <<>> /\ t[1] \in {"e", "E"} /\ Signed(Tail(t)) # <<>> /\ Digits(Signed(Tail(t)))
      Fraction(t) == t # <<>> /\ t[1] \in {".", ","} /\ Digits(Tail(t))
      Plain(t) ==
        \E a \in 0..Len(t) : \E b \in a..Len(t) :
          LET i == SubSeq(t, 1, a)
              f == SubSeq(t, a + 1, b)
              e == SubSeq(t, b + 1, Len(t))
          IN /\ Digits(i) /\ (f = <<>> \/ Fraction(f)) /\ (e = <<>> \/ Exponent(e))
             /\ "1" \in ToSet(i \o f)
  IN Plain(Signed(s)) \/ (Last(s) = "." /\ Plain(Signed(Front(s))))

(* The best of the labels for a form by definition: the longest suffix,    *)
(* then the longest prefix that does not overlap it.                       *)
BestLabel(rules, form) ==
  LET fitting == {c \in (0..Len(form)) \X (0..Len(form)) :
                    c[1] + c[2] <= Len(form) /\ Label(form, c[1], c[2]) \in DOMAIN rules}
      best == CHOOSE c \in fitting : \A d \in fitting : d[1] < c[1] \/ (d[1] = c[1] /\ d[2] <= c[2])
  IN IF fitting = {} THEN <<>> ELSE Label(form, best[1], best[2])

(* A form always gets an analysis, with a lemma; one that the dictionary   *)
(* has in no casing gets that of a number if it looks like one, and only   *)
(* then; the guesser takes the rules with the longest suffix and prefix,   *)
(* although it searches step by step, for each casing that has others.     *)
AnalyzedRight ==
  lemmas # <<>> =>
    LET form == analyzed.form
        variants == casing_variants(form)
        rules == analyzed.rules
        new == {v \in DOMAIN variants : \A u \in 1..v - 1 :
                  BestLabel(rules, variants[u]) # BestLabel(rules, variants[v])}
    IN /\ \A l \in ToSet(lemmas) : l.lemma # <<>>
       /\ ToSet(variants) \cap analyzed.known = {} => (lemmas[1].tag = "number" <=> Number(form))
       /\ (\E l \in ToSet(lemmas) : l.tag \notin {"known", "number", "punctuation", "symbol", "unknown"}) =>
            ToSet(lemmas) \ {[lemma |-> v, tag |-> "default"] : v \in ToSet(variants)} =
              UNION {IF Len(BestLabel(rules, variants[v])) <= 1 THEN {}
                     ELSE ToSet(Applied(rules, BestLabel(rules, variants[v]), variants[v])) : v \in new}
=============================================================================
