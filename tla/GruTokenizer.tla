----------------------------- MODULE GruTokenizer -----------------------------
(***************************************************************************)
(* gru_tokenizer over unicode_tokenizer: the text is classified by windows *)
(* of at most Segment characters, runs of spaces counting as one; a full   *)
(* window is cut back to a break, and the rest is classified again.  The   *)
(* network is any choice of outcomes, URLs are whatever Url recognises.    *)
(* Positions count characters from 0, as in the code.                      *)
(***************************************************************************)
EXTENDS Integers, Sequences, SequencesExt

CONSTANTS
  Segment,             \* the size of a window
  CutFrom, CutBack,    \* 10 and 5: a window of CutFrom loses at least CutBack
  AllowSpaces,         \* tokens may contain spaces
  ManyTokens, ManyWithP, ManyWithPo
      \* 500, 450, 400: a sentence of that many tokens is ended, the shorter
      \* ones only by a token that begins with punctuation P or Po

VARIABLES
  chars,      \* the text, without the sentinel
  current,    \* the position reached
  window,     \* the outcomes not used yet: where each is, what is next
  tokens,     \* the sentence so far
  step,       \* idle; loop or token inside next_sentence; return
  start       \* token_start

gruVars == <<chars, current, window, tokens, step, start>>

Outcomes == {"no_split", "end_of_token", "end_of_sentence"}

Size == Len(chars)
CharAt(p) == chars[p + 1]
IsSpaceChar(c) == c \in {" ", "\n", "\r", "\t"}
is_space(p) == IsSpaceChar(CharAt(p))

-----------------------------------------------------------------------------
SlipStaysAtSpaces(p) == IF is_space(p) THEN p ELSE p + 1

(* The position behind the character, or behind the run of spaces, at p.   *)
Behind(p) ==
  CHOOSE q \in p + 1..Size :
    /\ q = p + 1 \/ \A r \in p..q - 1 : is_space(r)
    /\ ~is_space(p) => q = p + 1
    /\ is_space(p) => q = Size \/ ~is_space(q)

(* The window: where its characters are, and where the next one is.        *)
network_offsets ==
  LET Extend(off, k) == IF Last(off) = Size THEN off ELSE Append(off, Behind(Last(off)))
  IN FoldLeft(Extend, <<current>>, [k \in 1..Segment |-> k])

(* Two ends of line next to each other among the spaces from a to b.       *)
BlankLine(a, b) ==
  \/ \E j \in a..b - 2 : CharAt(j) = "\n" /\ CharAt(j + 1) = "\n"
  \/ \E j \in a..b - 4 : SubSeq(chars, j + 1, j + 4) = <<"\r", "\n", "\r", "\n">>

(* Breaks before spaces: of a sentence, if the space or a blank line says  *)
(* so or the text ends; of a token, unless spaces may be inside one.       *)
Spaced(o, off) ==
  LET Ends(i) == \/ o[i + 1] = "end_of_sentence" \/ i + 1 = Len(o)
                 \/ BlankLine(off[i + 1], off[i + 2])
      Break(i) == o[i] = "no_split" /\ (~AllowSpaces \/ o[i + 1] = "end_of_token")
  IN [i \in DOMAIN o |->
        IF i = Len(o) \/ ~is_space(off[i + 1]) THEN o[i]
        ELSE IF Ends(i) THEN "end_of_sentence"
        ELSE IF Break(i) THEN "end_of_token" ELSE o[i]]

(* The number of outcomes kept: up to the last break in the second half.   *)
Cut(o) ==
  LET half == Segment \div 2
      breaks == {k \in half..Segment - CutBack - 1 : o[k + 1] # "no_split"}
  IN IF Len(o) < Segment \/ Len(o) < CutFrom THEN Len(o)
     ELSE IF breaks = {} THEN IF Segment - CutBack > half THEN half ELSE Segment - CutBack
     ELSE CHOOSE k \in breaks : \A l \in breaks : l <= k

(* The first half of next_outcome: a new window is classified.             *)
Classify ==
  /\ step \in {"loop", "token"} /\ current < Size /\ window = <<>>
  /\ \E off \in {network_offsets} : \E raw \in [1..Len(off) - 1 -> Outcomes] :
       \E o \in {Spaced(raw, off)} :
         window' = [k \in 1..Cut(o) |-> [at |-> off[k], next |-> off[k + 1], outcome |-> o[k]]]
  /\ UNCHANGED <<chars, current, tokens, step, start>>

-----------------------------------------------------------------------------
(* Punctuation is the dot, of category Po, and the hyphen, of category P.  *)
emergency_sentence_split(ts) ==
  \/ Len(ts) >= ManyTokens
  \/ Len(ts) >= ManyWithP /\ CharAt(Last(ts).start) \in {".", "-"}
  \/ Len(ts) >= ManyWithPo /\ CharAt(Last(ts).start) = "."

(* A token ends at position q and, if eos, the sentence with it.           *)
EndToken(from, q, eos) ==
  /\ tokens' = Append(tokens, [start |-> from, length |-> q - from])
  /\ current' = q
  /\ step' = IF eos \/ emergency_sentence_split(tokens') THEN "return" ELSE "loop"

(* The end of a sentence on leading spaces only leaves the inner loop,     *)
(* which is over then anyway: the run of spaces has been passed.           *)
SkipSpaces ==
  /\ step = "loop" /\ current < Size /\ is_space(current) /\ window # <<>>
  /\ current' = Head(window).next
  /\ window' = Tail(window)
  /\ UNCHANGED <<chars, tokens, step, start>>

(* ragel_url_email: a run of characters u is recognised.                   *)
UrlEnds(q) ==
  /\ \A p \in current..q - 1 : CharAt(p) = "u"
  /\ q < Size => CharAt(q) # "u"

(* Outcomes for the characters of the URL are passed over.                 *)
Passed(q) == SelectSeq(window, LAMBDA e : e.at >= q)

Url ==
  /\ step = "loop" /\ current < Size /\ CharAt(current) = "u"
  /\ \E q \in current + 1..Size :
       /\ UrlEnds(q)
       /\ EndToken(current, q, \E e \in Range(window) :
                                 e.at < q /\ e.outcome = "end_of_sentence")
       /\ window' = Passed(q)
  /\ UNCHANGED <<chars, start>>

Slurp ==
  /\ window # <<>>
  /\ \/ step = "token"
     \/ step = "loop" /\ current < Size /\ ~is_space(current) /\ CharAt(current) # "u"
  /\ LET from == IF step = "token" THEN start ELSE current
         e == Head(window)
     IN IF e.outcome = "no_split" /\ e.next < Size
        THEN /\ step' = "token" /\ start' = from /\ current' = e.next
             /\ UNCHANGED tokens
        ELSE /\ EndToken(from, e.next, e.outcome = "end_of_sentence")
             /\ start' = 0
  /\ window' = Tail(window)
  /\ UNCHANGED chars

TextOver ==
  /\ step = "loop" /\ current = Size
  /\ step' = "return"
  /\ UNCHANGED <<chars, current, window, tokens, start>>

InSentence == Classify \/ SkipSpaces \/ Url \/ Slurp \/ TextOver

(* next_sentence is called; at the end of the text it fails at once.       *)
CallTokenizer ==
  /\ step' = IF current = Size THEN "return" ELSE "loop"
  /\ tokens' = <<>>
  /\ window' = IF current = 0 THEN <<>> ELSE window
  /\ UNCHANGED <<chars, current, start>>

TokenizerText(text) ==
  /\ chars' = text
  /\ current' = 0
  /\ UNCHANGED <<window, tokens, start>>
=============================================================================
