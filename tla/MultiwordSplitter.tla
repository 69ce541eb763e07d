-------------------------- MODULE MultiwordSplitter --------------------------
(***************************************************************************)
(* The multi-word splitter (multiword_splitter.cpp): the tables built by   *)
(* load, and append_token.  Strings are sequences of letters; both tables  *)
(* are indexed by the reversed string, as in the code.                     *)
(***************************************************************************)
EXTENDS Integers, FiniteSets, SequencesExt

CONSTANTS
  Rules,         \* the rules a model may have: [full, key, words], lower case
  MaxRules,      \* bound on the rules of a model
  SplitTokens,   \* the tokens
  MaxSplit,      \* bound on the tokens of the sentence
  Lowercase,     \* letter -> letter
  Uppercase

VARIABLES
  rules,         \* the rules in the file read so far
  full_rules,
  suffix_rules,  \* also has the beginnings of its reversed keys, without words
  tokens,        \* the tokens appended so far
  words,         \* the forms of the words of the sentence
  mwts           \* its multi-word tokens

vars == <<rules, full_rules, suffix_rules, tokens, words, mwts>>

Init ==
  /\ rules = {} /\ tokens = <<>>
  /\ full_rules = [k \in {} |-> <<>>] /\ suffix_rules = [k \in {} |-> <<>>]
  /\ words = <<>> /\ mwts = <<>>

Lower(s) == [i \in DOMAIN s |-> Lowercase[s[i]]]
Upper(s) == [i \in DOMAIN s |-> Uppercase[s[i]]]
IsUpper(c) == Lowercase[c] # c

(* operator[] of a map: an entry without words where there was none.       *)
Touch(table, keys) ==
  [k \in DOMAIN table \cup keys |-> IF k \in DOMAIN table THEN table[k] ELSE <<>>]

SlipRuleOnly(table, r) == [Touch(table, {Reverse(r.key)}) EXCEPT ![Reverse(r.key)] = r.words]

(* The rule itself, whose key may be empty, and every beginning of its     *)
(* reversed key.                                                           *)
AddSuffixRule(table, r) ==
  LET key == Reverse(r.key)
  IN [Touch(table, {key} \cup {SubSeq(key, 1, n) : n \in 1..Len(key)}) EXCEPT ![key] = r.words]

(* One rule of the file, which has no two for the same string.             *)
load(r) ==
  /\ tokens = <<>> /\ r \notin rules /\ Cardinality(rules) < MaxRules
  /\ \A q \in rules : q.key # r.key \/ q.full # r.full
  /\ rules' = rules \cup {r}
  /\ IF r.full
     THEN full_rules' = [Touch(full_rules, {Reverse(r.key)}) EXCEPT ![Reverse(r.key)] = r.words]
          /\ UNCHANGED suffix_rules
     ELSE suffix_rules' = AddSuffixRule(suffix_rules, r) /\ UNCHANGED full_rules
  /\ UNCHANGED <<tokens, words, mwts>>

(* The loop that prolongs the suffix of buffer as long as the table knows  *)
(* it: the length of the last one with words, 0 if there is none.          *)
SuffixFound(buffer) ==
  LET known == {n \in 1..Len(buffer) - 1 :
                  \A m \in 1..n : SubSeq(buffer, 1, m) \in DOMAIN suffix_rules}
      ruled == {n \in known : suffix_rules[SubSeq(buffer, 1, n)] # <<>>}
  IN IF ruled = {} THEN 0 ELSE CHOOSE n \in ruled : \A m \in ruled : m <= n

Casing(token) ==
  IF ~IsUpper(token[1]) THEN "other"
  ELSE IF \A i \in DOMAIN token : IsUpper(token[i]) THEN "all" ELSE "first"

(* The first word: what is left of the token, and the first of the rule.   *)
FirstWord(casing, form, prefix) ==
  prefix \o (CASE casing = "all" -> Upper(form)
               [] casing = "first" /\ prefix = <<>> -> Upper(SubSeq(form, 1, 1)) \o Tail(form)
               [] OTHER -> form)

append_token(token) ==
  LET buffer == Reverse(Lower(token))
      suffix == SuffixFound(buffer)
      full == buffer \in DOMAIN full_rules
      split == IF full THEN full_rules[buffer] ELSE suffix_rules[SubSeq(buffer, 1, suffix)]
      prefix == IF full THEN <<>> ELSE SubSeq(token, 1, Len(token) - suffix)
      casing == Casing(token)
  IN /\ Len(tokens) < MaxSplit
     /\ tokens' = Append(tokens, token)
     /\ IF ~full /\ suffix = 0
        THEN words' = Append(words, token) /\ UNCHANGED mwts
        ELSE /\ words' = words \o <<FirstWord(casing, split[1], prefix)>>
                           \o [i \in 1..Len(split) - 1 |->
                                 IF casing = "all" THEN Upper(split[i + 1]) ELSE split[i + 1]]
             /\ mwts' = Append(mwts, [id_first |-> Len(words) + 1,
                                      id_last |-> Len(words) + Len(split), form |-> token])
     /\ UNCHANGED <<rules, full_rules, suffix_rules>>

Next == (\E r \in Rules : load(r)) \/ (\E t \in SplitTokens : append_token(t))

Spec == Init /\ [][Next]_vars

-----------------------------------------------------------------------------
(* The rule for a token by definition: that for the whole token, else the  *)
(* longest of a proper suffix.                                             *)
Fitting(token) ==
  {r \in rules : IF r.full THEN r.key = Lower(token)
                           ELSE Len(r.key) < Len(token) /\ IsSuffix(r.key, Lower(token))}
Preferred(token) ==
  CHOOSE r \in Fitting(token) :
    \A q \in Fitting(token) : r.full \/ (~q.full /\ Len(q.key) <= Len(r.key))

Words(token) == IF Fitting(token) = {} THEN 1 ELSE Len(Preferred(token).words)

(* Whichever order the rules have in the file, and although the search     *)
(* stops at the first suffix the table does not know, every token is split *)
(* by the rule it should be: the multi-word tokens cover exactly the words *)
(* of theirs, which spell the rule after what the suffix leaves of the     *)
(* token, and a capital first letter stays the first letter of the words.  *)
SplitRight ==
  \A k \in DOMAIN tokens :
    LET t == tokens[k]
        start == FoldLeft(LAMBDA n, i : n + Words(tokens[i]), 0, [i \in 1..k - 1 |-> i])
        mine == {m \in Range(mwts) : m.id_first \in start + 1..start + Words(t)}
        here == SubSeq(words, start + 1, start + Words(t))
    IN IF Fitting(t) = {} THEN mine = {} /\ here = <<t>>
       ELSE LET r == Preferred(t)
            IN /\ mine = {[id_first |-> start + 1, id_last |-> start + Len(r.words), form |-> t]}
               /\ Lower(FlattenSeq(here)) =
                    (IF r.full THEN <<>> ELSE SubSeq(Lower(t), 1, Len(t) - Len(r.key)))
                      \o FlattenSeq(r.words)
               /\ {i \in DOMAIN FlattenSeq(here) : IsUpper(FlattenSeq(here)[i])} =
                    CASE Casing(t) = "all" -> DOMAIN FlattenSeq(here)
                      [] Casing(t) # "all" /\ r.full -> IF IsUpper(t[1]) THEN {1} ELSE {}
                      [] OTHER -> {i \in 1..Len(t) - Len(r.key) : IsUpper(t[i])}
=============================================================================
