--------------------------- MODULE TokenizerWrapper ---------------------------
(***************************************************************************)
(* morphodita_tokenizer_wrapper: tokens become words with the spaces of    *)
(* the original text in their MISC fields, over sentences and over blocks; *)
(* and the plaintext writer, which puts the text together again.           *)
(***************************************************************************)
EXTENDS GruTokenizer, TokenFields

CONSTANTS
  Documents,   \* the texts, each a sequence of blocks; ResetDocument is no
               \* block but says that reset_document is called
  TwoWords     \* the forms that the splitter makes two words of

VARIABLES
  normalized_spaces,   \* the option: only SpaceAfter is stored
  blocks,      \* what the caller will still read
  textAt,      \* where text, the rest of chars not given away, begins
  saved_spaces, preceeding_newlines, new_document, sentence_id,
  unicode_offset, text_unicode_length,
  misc,        \* of tok, which lives as long as the tokenizer
  given,       \* all of the text so far
  written,     \* what the plaintext writer wrote, and whether as a form
  last         \* the last sentence, {} before the first

wrapperVars == <<textAt, saved_spaces, preceeding_newlines, new_document, sentence_id,
                 unicode_offset, text_unicode_length, misc>>
vars == <<gruVars, wrapperVars, normalized_spaces, blocks, given, written, last>>

Init ==
  /\ blocks \in Documents
  /\ normalized_spaces \in BOOLEAN
  /\ chars = <<>> /\ current = 0 /\ window = <<>> /\ tokens = <<>> /\ start = 0
  /\ step = "idle"
  /\ textAt = 0 /\ saved_spaces = <<>> /\ misc = <<>>
  /\ preceeding_newlines = 2 /\ new_document = TRUE /\ sentence_id = 1
  /\ unicode_offset = 0 /\ text_unicode_length = 0
  /\ given = <<>> /\ written = <<>> /\ last = {}

ResetDocument == <<"reset_document">>

-----------------------------------------------------------------------------
Newlines(s) == Len(SelectSeq(s, LAMBDA c : c = "\n"))

(* The number of spaces that s begins with.                                *)
Leading(s) ==
  CHOOSE n \in 0..Len(s) :
    (\A i \in 1..n : IsSpaceChar(s[i])) /\ (n < Len(s) => ~IsSpaceChar(s[n + 1]))

(* Characters from position p up to q, without the latter.                 *)
Piece(p, q) == SubSeq(chars, p + 1, q)

SlipOffsetOfThis(lead, length) == unicode_offset + lead + length

(* The positions of a text follow those of the one before it.              *)
NewOffset(lead, length) == unicode_offset + lead + text_unicode_length

set_text ==
  /\ step = "idle" /\ blocks # <<>> /\ Head(blocks) # ResetDocument
  /\ LET block == Head(blocks)
         lead == Leading(block)
         text == SubSeq(block, lead + 1, Len(block))
     IN /\ saved_spaces' = saved_spaces \o SubSeq(block, 1, lead)
        /\ unicode_offset' = NewOffset(lead, Len(text))
        /\ text_unicode_length' = Len(text)
        /\ TokenizerText(text)
        /\ given' = given \o block
  /\ textAt' = 0
  /\ blocks' = Tail(blocks)
  /\ step' = "call"
  /\ UNCHANGED <<preceeding_newlines, new_document, sentence_id, misc, written, last, normalized_spaces>>

(* Another document, maybe before the last one was read to its end.  tok   *)
(* keeps its MISC.                                                         *)
reset_document ==
  /\ step \in {"idle", "call"} /\ blocks # <<>> /\ Head(blocks) = ResetDocument
  /\ new_document' = TRUE /\ preceeding_newlines' = 2 /\ sentence_id' = 1
  /\ TokenizerText(<<>>) /\ textAt' = 0
  /\ unicode_offset' = 0 /\ text_unicode_length' = 0 /\ saved_spaces' = <<>>
  /\ given' = <<>> /\ written' = <<>> /\ last' = {}
  /\ blocks' = Tail(blocks)
  /\ step' = "idle"
  /\ UNCHANGED <<misc, normalized_spaces>>

-----------------------------------------------------------------------------
(* A form without the spaces at its ends: where it begins and ends.        *)
Trimmed(token) ==
  LET inside == {p \in token.start..token.start + token.length - 1 : ~is_space(p)}
  IN [from |-> CHOOSE p \in inside : \A q \in inside : p <= q,
      to |-> 1 + CHOOSE p \in inside : \A q \in inside : q <= p]

(* Spaces in a form become one space.                                      *)
Collapsed(s) ==
  LET Char(out, c) == IF ~IsSpaceChar(c) THEN Append(out, c)
                      ELSE IF out # <<>> /\ Last(out) = Space THEN out
                      ELSE Append(out, Space)
  IN FoldLeft(Char, <<>>, s)

SlipStaleSpaces(m, before, form, raw, after) ==
  LET m1 == IF before = <<>> THEN m ELSE set_spaces(m, "SpacesBefore", before)
      m2 == set_spaces(m1, "SpacesInToken", IF Len(form) # Len(raw) THEN raw ELSE <<>>)
  IN IF normalized_spaces THEN set_space_after(m, after # <<>>) ELSE set_spaces_after(m2, after)

(* The MISC of tok, which still has the fields of the token before it.     *)
SpacesStored(m, before, form, raw, after) ==
  LET m1 == set_spaces(m, "SpacesBefore", before)
      m2 == set_spaces(m1, "SpacesInToken", IF Len(form) # Len(raw) THEN raw ELSE <<>>)
  IN IF normalized_spaces THEN set_space_after(m, after # <<>>) ELSE set_spaces_after(m2, after)

SlipNewlinesForgotten(after) == 0

(* Newlines after a sentence count for the paragraph of the next one.      *)
following_newlines(after) == Newlines(after)

(* splitter->append_token: a word, or a multi-word token with its words.   *)
AppendToken(s, form, m) ==
  LET id == Len(s.words) + 1
  IN IF form \in TwoWords
     THEN [words |-> s.words \o <<[form |-> <<Head(form)>>, misc |-> <<>>],
                                  [form |-> Tail(form), misc |-> <<>>]>>,
           mwts |-> Append(s.mwts, [first |-> id, last |-> id + 1, form |-> form, misc |-> m])]
     ELSE [s EXCEPT !.words = Append(@, [form |-> form, misc |-> m])]

(* What the loops over words and multi-word tokens go through: a word, or  *)
(* the token that begins there in place of all its words.                  *)
SurfaceTokens(s) ==
  LET Step(acc, i) ==
        IF i <= acc.past THEN acc
        ELSE IF acc.j <= Len(s.mwts) /\ s.mwts[acc.j].first = i
        THEN [out |-> Append(acc.out, [form |-> s.mwts[acc.j].form, misc |-> s.mwts[acc.j].misc]),
              past |-> s.mwts[acc.j].last, j |-> acc.j + 1]
        ELSE [acc EXCEPT !.out = Append(@, s.words[i])]
  IN FoldLeft(Step, [out |-> <<>>, past |-> 0, j |-> 1],
              [i \in 1..Len(s.words) |-> i]).out

(* The comment "# text": forms, and a space where one follows.             *)
TextComment(s) ==
  LET ts == SurfaceTokens(s)
  IN FlattenSeq([i \in DOMAIN ts |->
       ts[i].form \o (IF i < Len(ts) /\ get_space_after(ts[i].misc) THEN <<Space>> ELSE <<>>)])

(* output_format_plaintext, not normalized.                                *)
PlainText(s) ==
  LET Tag(t, inside) == [i \in DOMAIN t |-> <<t[i], inside>>]
      Original(t) == IF get_spaces(t.misc, "SpacesInToken") # <<>>
                     THEN get_spaces(t.misc, "SpacesInToken") ELSE t.form
      ts == SurfaceTokens(s)
  IN FlattenSeq([i \in DOMAIN ts |->
       Tag(get_spaces(ts[i].misc, "SpacesBefore"), FALSE) \o Tag(Original(ts[i]), TRUE)
         \o Tag(get_spaces_after(ts[i].misc), FALSE)])

-----------------------------------------------------------------------------
Call ==
  /\ step = "call"
  /\ CallTokenizer
  /\ UNCHANGED <<wrapperVars, blocks, given, written, last, normalized_spaces>>

Tokenize ==
  /\ InSentence
  /\ UNCHANGED <<wrapperVars, blocks, given, written, last, normalized_spaces>>

(* next_sentence of the wrapper, once the tokenizer has found tokens.      *)
Sentence ==
  /\ step = "return" /\ tokens # <<>>
  /\ LET forms == [i \in DOMAIN tokens |-> Trimmed(tokens[i])]
         n == Len(forms)
         before == saved_spaces \o Piece(textAt, forms[1].from)
         after == Piece(forms[n].to, forms[n].to + Leading(Piece(forms[n].to, Size)))
         After(i) == IF i = n THEN after ELSE Piece(forms[i].to, forms[i + 1].from)
         Token(acc, i) ==
           LET raw == Piece(forms[i].from, forms[i].to)
               m == set_token_range(
                      SpacesStored(acc.misc, IF i = 1 THEN before ELSE <<>>,
                                   Collapsed(raw), raw, After(i)),
                      unicode_offset + tokens[i].start,
                      unicode_offset + tokens[i].start + tokens[i].length)
           IN [misc |-> m, s |-> AppendToken(acc.s, Collapsed(raw), m)]
         end == FoldLeft(Token, [misc |-> misc, s |-> [words |-> <<>>, mwts |-> <<>>]],
                         [i \in 1..n |-> i])
     IN /\ misc' = end.misc
        /\ last' = {[surface |-> SurfaceTokens(end.s),
                     forms |-> [i \in 1..n |-> [from |-> Len(given) - Size + forms[i].from,
                                                to |-> Len(given) - Size + forms[i].to]],
                     text |-> TextComment(end.s),
                     new_doc |-> new_document,
                     new_par |-> preceeding_newlines + Newlines(before) >= 2,
                     sent_id |-> sentence_id,
                     since |-> IF last = {} THEN 0
                               ELSE LET f == (CHOOSE s \in last : TRUE).forms IN f[Len(f)].to]}
        /\ written' = written \o PlainText(end.s)
        /\ textAt' = forms[n].to + Len(after)
        /\ preceeding_newlines' = following_newlines(after)
  /\ saved_spaces' = <<>>
  /\ new_document' = FALSE
  /\ sentence_id' = sentence_id + 1
  /\ step' = "call"
  /\ UNCHANGED <<chars, current, window, tokens, start, blocks, given,
                 unicode_offset, text_unicode_length, normalized_spaces>>

(* What no sentence took goes before the first token of the next text.     *)
RestSaved == saved_spaces \o Piece(textAt, Size)

NoSentence ==
  /\ step = "return" /\ tokens = <<>>
  /\ saved_spaces' = RestSaved
  /\ textAt' = Size
  /\ step' = IF blocks = <<>> THEN "done" ELSE "idle"
  /\ UNCHANGED <<chars, current, window, tokens, start, blocks, given, written, last, misc,
                 preceeding_newlines, new_document, sentence_id,
                 unicode_offset, text_unicode_length, normalized_spaces>>

Over == step = "done" /\ UNCHANGED vars

Next == set_text \/ reset_document \/ Call \/ Tokenize \/ Sentence \/ NoSentence \/ Over

Spec == Init /\ [][Next]_vars

-----------------------------------------------------------------------------
(* What was written, what is saved for the next token and what is still to *)
(* be read are the text as it was given, in every state: every character,  *)
(* spaces included, comes out once, in its place, over all sentences and   *)
(* blocks and although tok keeps its MISC.  Only a single space inside a   *)
(* token may change its kind, as SpacesInToken is stored only when the     *)
(* lengths differ.                                                         *)
TextKept ==
  LET rest == saved_spaces \o Piece(textAt, Size)
      now == written \o [i \in DOMAIN rest |-> <<rest[i], FALSE>>]
      Same(c, inside, was) == c = was \/ (inside /\ c = Space /\ IsSpaceChar(was))
  IN ~normalized_spaces =>
       /\ Len(now) = Len(given)
       /\ \A i \in DOMAIN now : Same(now[i][1], now[i][2], given[i])

(* TokenRange is where the token is in the whole document; it goes beyond  *)
(* the form only by spaces that were trimmed, which needs AllowSpaces.     *)
(* A paragraph begins where two newlines are between the sentences, however *)
(* blocks divide them; documents begin once; "# text" is the sentence with *)
(* its spaces normalized.                                                  *)
MarksRight ==
  \A s \in last :
    LET from == s.forms[1].from  to == s.forms[Len(s.forms)].to
    IN /\ \A i \in DOMAIN s.forms :
            \E end \in s.forms[i].to..Len(given) :
              /\ get_misc_field(s.surface[i].misc, "TokenRange")
                   = <<ToString(s.forms[i].from), ":", ToString(end)>>
              /\ \A p \in s.forms[i].to + 1..end : IsSpaceChar(given[p])
              /\ ~AllowSpaces => end = s.forms[i].to
       /\ s.new_doc <=> s.sent_id = 1
       /\ s.new_par <=> (s.new_doc \/ Newlines(SubSeq(given, s.since + 1, from)) >= 2)
       /\ s.text = Collapsed(SubSeq(given, from + 1, to))

(* The loops inside each other all come closer to the end: the text of the *)
(* later blocks, the characters not passed, and how far the calls are.     *)
Measure ==
  LET todo == FoldLeft(LAMBDA n, b : n + Len(b) + 1, 0, blocks)
      place == CASE step = "return" /\ tokens # <<>> -> 4
                 [] step = "call" -> 3
                 [] step = "return" /\ tokens = <<>> -> 2
                 [] step \in {"loop", "token"} ->
                      IF current = Size THEN 5 ELSE IF window = <<>> THEN 2 ELSE 1
                 [] OTHER -> 0
  IN (todo + Size - current) * 6 + place

(* Every call of set_text and next_sentence ends, and so does the text.    *)
TokenizingProceeds == [][Measure' < Measure]_vars
=============================================================================
