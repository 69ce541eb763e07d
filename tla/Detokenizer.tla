------------------------------ MODULE Detokenizer ------------------------------
(***************************************************************************)
(* The detokenizer (detokenizer.cpp, detokenizer.h): whether there is a    *)
(* space between two tokens is decided by how often a raw text has them    *)
(* together and apart, counted with a suffix array.  Characters are those  *)
(* that Code numbers; their number is their order.                         *)
(***************************************************************************)
EXTENDS Integers, FiniteSets, SequencesExt

CONSTANTS
  RawTexts,
  TokenLists,    \* the tokens of a sentence
  Code,          \* character -> number, in the order of the bytes
  Lowercase,     \* character -> character
  Categorized    \* character -> the letter of its category, " " of a space

VARIABLES
  raw,
  toks,          \* the forms of the tokens
  space_after,
  tok            \* the next token of the loop

vars == <<raw, toks, space_after, tok>>

Mapped(f, s) == [i \in DOMAIN s |-> f[s[i]]]
From(s, a) == SubSeq(s, a, Len(s))
Least(a, b) == IF a < b THEN a ELSE b

(* std::string::compare: whether a is less than b.                         *)
Below(a, b) ==
  \E n \in DOMAIN b :
    /\ \A m \in 1..n - 1 : m \in DOMAIN a /\ a[m] = b[m]
    /\ n \in DOMAIN a => Code[a[n]] < Code[b[n]]

suffix_array(str) == SetToSortSeq(DOMAIN str, LAMBDA a, b : Below(From(str, a), From(str, b)))

(* As much of a suffix as the pattern is long.                             *)
Cut(str, a, pattern) == SubSeq(str, a, Least(Len(str), a + Len(pattern) - 1))

(* std::lower_bound and upper_bound halve the array until nothing is left: *)
(* how many elements are before the place, given for each whether it is.   *)
Bound(before) ==
  LET halve[first \in 0..Len(before), rest \in 0..Len(before)] ==
        IF rest = 0 THEN first
        ELSE LET half == rest \div 2
             IN IF before[first + half + 1] THEN halve[first + half + 1, rest - half - 1]
                                            ELSE halve[first, half]
  IN halve[0, Len(before)]

SlipWholeSuffix(str, pattern) ==
  LET sa == suffix_array(str)
  IN Bound([i \in DOMAIN sa |-> ~Below(pattern, From(str, sa[i]))])
       - Bound([i \in DOMAIN sa |-> Below(From(str, sa[i]), pattern)])

count(str, pattern) ==
  LET sa == suffix_array(str)
  IN Bound([i \in DOMAIN sa |-> ~Below(pattern, Cut(str, sa[i], pattern))])
       - Bound([i \in DOMAIN sa |-> Below(Cut(str, sa[i], pattern), pattern)])

difference(left, right, separate, f) ==
  LET Around(s) == IF separate THEN <<" ">> \o s \o <<" ">> ELSE s
      text == Mapped(f, raw)
  IN count(text, Around(Mapped(f, left) \o Mapped(f, right)))
       - count(text, Around(Mapped(f, left) \o <<" ">> \o Mapped(f, right)))

has_letters(word) == \E i \in DOMAIN word : Categorized[word[i]] = "L"
only_digits(word) == \A i \in DOMAIN word : Categorized[word[i]] = "N"

(* The first of these that is not zero.                                    *)
Score(left, right) ==
  LET First(a, b) == IF a # 0 THEN a ELSE b
      apart == IF \/ has_letters(left) /\ has_letters(right)
                  \/ only_digits(left) /\ only_digits(right) THEN -1 ELSE 0
  IN First(difference(left, right, TRUE, Lowercase), First(apart,
       First(difference(left, right, FALSE, Lowercase), First(difference(left, right, FALSE, Categorized),
         difference(left, right, TRUE, Categorized)))))

Init ==
  /\ raw \in RawTexts /\ toks \in TokenLists
  /\ space_after \in [DOMAIN toks -> BOOLEAN]
  /\ tok = 1

SlipTested(score) == score >= 0

Glued(score) == score > 0

(* One round: the previous token, then this one is cleared.                *)
detokenize ==
  /\ tok <= Len(toks)
  /\ space_after' = [t \in DOMAIN toks |->
       IF t = tok THEN TRUE
       ELSE space_after[t] /\ ~(t = tok - 1 /\ Glued(Score(toks[t], toks[tok])))]
  /\ tok' = tok + 1
  /\ UNCHANGED <<raw, toks>>

Next == detokenize

-----------------------------------------------------------------------------
Occurrences(text, s) == Cardinality({i \in 1..Len(text) + 1 - Len(s) : SubSeq(text, i, i + Len(s) - 1) = s})

(* After the loop two tokens are glued only if the text has them, or their *)
(* categories, glued more often than apart, with whatever there was before *)
(* forgotten: two words or two numbers only if they are so on their own;   *)
(* the last token has a space.                                             *)
SpacesAsInText ==
  tok > Len(toks) =>
    /\ toks # <<>> => space_after[Len(toks)]
    /\ \A t \in 1..Len(toks) - 1 :
         LET More(f, edge) ==
               LET l == Mapped(f, toks[t])
                   r == Mapped(f, toks[t + 1])
               IN Occurrences(Mapped(f, raw), edge \o l \o r \o edge)
                    - Occurrences(Mapped(f, raw), edge \o l \o <<" ">> \o r \o edge)
             alike == \/ has_letters(toks[t]) /\ has_letters(toks[t + 1])
                      \/ only_digits(toks[t]) /\ only_digits(toks[t + 1])
             alone == More(Lowercase, <<" ">>)
             inside == <<More(Lowercase, <<>>), More(Categorized, <<>>), More(Categorized, <<" ">>)>>
         IN space_after[t] <=>
              ~ \/ alone > 0
                \/ alone = 0 /\ ~alike
                     /\ \E k \in 1..3 : inside[k] > 0 /\ \A j \in 1..k - 1 : inside[j] = 0
=============================================================================
