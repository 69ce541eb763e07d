----------------------------- MODULE TextFormats -----------------------------
(***************************************************************************)
(* The horizontal, vertical and presegmented input formats                 *)
(* (input_format.cpp) and the horizontal and vertical output formats       *)
(* (output_format.cpp).  A text is a sequence of characters; "N" is the    *)
(* no-break space.  A reader keeps its rest of the text over the calls of  *)
(* next_sentence, and the newlines seen before the next sentence also over *)
(* the calls of set_text.                                                  *)
(***************************************************************************)
EXTENDS Integers, FiniteSets, SequencesExt

CONSTANTS
  InputTexts,   \* the documents
  InputFormats  \* the formats they are read in

VARIABLES
  format,
  blocks,       \* the blocks read_block has still to give
  reader,       \* the input_format: text, preceeding_newlines, ...
  sentences,    \* what next_sentence gave so far
  document,     \* the text as a whole
  again         \* it is read for the second time

vars == <<format, blocks, reader, sentences, document, again>>

NL == "\n"
CR == "\r"
Tab == "\t"
Blank == {" ", Tab}
EndOfLine == {NL, CR}

Leading(t, S) ==
  LET k == CHOOSE k \in 0..Len(t) : /\ \A i \in 1..k : t[i] \in S
                                    /\ k < Len(t) => t[k + 1] \notin S
  IN SubSeq(t, 1, k)
Until(t, S) ==
  LET k == CHOOSE k \in 0..Len(t) : /\ \A i \in 1..k : t[i] \notin S
                                    /\ k < Len(t) => t[k + 1] \in S
  IN SubSeq(t, 1, k)
Behind(t, part) == SubSeq(t, Len(part) + 1, Len(t))
Newlines(t) == Len(SelectSeq(t, LAMBDA c : c = NL))
Mapped(form, c, d) == [i \in DOMAIN form |-> IF form[i] = c THEN d ELSE form[i]]

(* getline and getpara: up to a newline, or to an empty line; the newline  *)
(* getline takes is put back, also where the text ended without one.       *)
Lines(t) ==
  LET ends == SelectSeq([i \in DOMAIN t |-> i], LAMBDA i : t[i] = NL \/ i = Len(t))
      Line(k) == SubSeq(t, IF k = 1 THEN 1 ELSE ends[k - 1] + 1, ends[k])
  IN [k \in DOMAIN ends |-> IF Last(Line(k)) = NL THEN Line(k) ELSE Append(Line(k), NL)]

getpara(t) ==
  LET Line(acc, line) ==
        IF acc # <<>> /\ acc[Len(acc)].open
        THEN [acc EXCEPT ![Len(acc)] = [para |-> @.para \o line, open |-> line # <<NL>>]]
        ELSE Append(acc, [para |-> line, open |-> line # <<NL>>])
      paras == FoldLeft(Line, <<>>, Lines(t))
  IN [k \in DOMAIN paras |-> paras[k].para]

read_block(f, t) == IF f = "vertical" THEN getpara(t) ELSE Lines(t)

-----------------------------------------------------------------------------
New == [text |-> <<>>, preceeding_newlines |-> 2, new_document |-> TRUE, sentence_id |-> 1]

(* The words of a line between blanks.                                     *)
Split(line) ==
  LET starts == SelectSeq([i \in DOMAIN line |-> i],
                          LAMBDA i : line[i] \notin Blank /\ (i > 1 => line[i - 1] \in Blank))
  IN [k \in DOMAIN starts |->
        Mapped(Until(SubSeq(line, starts[k], Len(line)), Blank), "N", " ")]

(* What a reader finds: words, the newlines before them, the newlines that *)
(* count for the next sentence, and the rest of the text; of a tokenizer   *)
(* also multi-word tokens, the text comment, and whether it failed.        *)
Horizontal(r) ==
  LET skipped == Leading(r.text, Blank \cup EndOfLine)
      line == Until(Behind(r.text, skipped), EndOfLine)
  IN [words |-> Split(line), mwts |-> <<>>, text |-> <<>>, failed |-> FALSE,
      preceeding |-> r.preceeding_newlines + Newlines(skipped), following |-> 0,
      rest |-> Behind(r.text, skipped \o line)]

(* The newline that a text begins with, and what follows it.               *)
Newline(t) ==
  CASE IsPrefix(<<CR, NL>>, t) -> <<CR, NL>>
    [] IsPrefix(<<NL>>, t) -> <<NL>>
    [] OTHER -> <<>>
Without(t, S) == Behind(t, Leading(t, S))
NextLine(t) == Without(Behind(t, Newline(t)), {Tab})

(* One word of a vertical text: the line up to a tab, the rest of the line *)
(* and its newline, and the tabs that begin the next one.                  *)
VerticalLine(a) ==
  IF a.rest = <<>> \/ a.rest[1] \in EndOfLine THEN a
  ELSE [words |-> Append(a.words, Until(a.rest, EndOfLine \cup {Tab})),
        rest |-> NextLine(Behind(a.rest, Until(a.rest, EndOfLine)))]

Vertical(r) ==
  LET skipped == Leading(r.text, {Tab} \cup EndOfLine)
      all == FoldLeft(LAMBDA a, i : VerticalLine(a),
                      [words |-> <<>>, rest |-> Behind(r.text, skipped)],
                      [i \in 1..Len(r.text) |-> i])
  IN [words |-> all.words, mwts |-> <<>>, text |-> <<>>, failed |-> FALSE,
      preceeding |-> r.preceeding_newlines + Newlines(skipped), following |-> 0,
      rest |-> all.rest]

(* The sentences the wrapped tokenizer finds in a line: a sentence ends at *)
(* a tab, every other visible character is a token, and "M" a multi-word   *)
(* token of two words.  Another input format than those of the library may *)
(* also fail, at "E".                                                      *)
MultiwordOf == [M |-> <<<<"m">>, <<"w">>>>]
Fails(line) == "E" \in Range(line)

Add(partial, c, space_after) ==
  LET n == Len(partial.words)
      token == [form |-> <<c>>, space_after |-> space_after]
  IN IF c = "M"
     THEN [words |-> partial.words \o
             [k \in 1..2 |-> [form |-> MultiwordOf.M[k], space_after |-> TRUE]],
           mwts |-> Append(partial.mwts, [id_first |-> n + 1, id_last |-> n + 2, token |-> token])]
     ELSE [partial EXCEPT !.words = Append(@, token)]

NoWords == [words |-> <<>>, mwts |-> <<>>]

Partials(line) ==
  LET Token(acc, i) ==
        CASE line[i] = Tab -> Append(acc, NoWords)
          [] line[i] \in EndOfLine \cup {" "} -> acc
          [] OTHER -> [acc EXCEPT ![Len(acc)] =
                         Add(@, line[i], i = Len(line) \/ line[i + 1] \in Blank)]
  IN FoldLeft(Token, <<NoWords>>, [i \in DOMAIN line |-> i])

SlipNotRenumbered(s, partial) ==
  [words |-> s.words \o partial.words, mwts |-> s.mwts \o partial.mwts]

(* The partial sentences of a line are joined: the ids of multi-word       *)
(* tokens count on.  A tokenizer gives no heads and no empty nodes.        *)
Joined(s, partial) ==
  LET n == Len(s.words)
  IN [words |-> s.words \o partial.words,
      mwts |-> s.mwts \o [k \in DOMAIN partial.mwts |->
        [partial.mwts[k] EXCEPT !.id_first = @ + n, !.id_last = @ + n]]]

SlipNotAdded(s, preceeding, after) == preceeding

(* Newlines behind a line without tokens count as newlines before the next.*)
Preceeding(s, preceeding, after) ==
  IF s.words = <<>> THEN preceeding + Newlines(after) ELSE preceeding

(* One line of a presegmented text, with the newlines around it.           *)
PresegmentedLine(a) ==
  LET before == Leading(a.rest, EndOfLine)
      line == Until(Behind(a.rest, before), EndOfLine)
      after == Leading(Behind(a.rest, before \o line), EndOfLine)
      s == FoldLeft(Joined, NoWords, Partials(line))
      preceeding == a.preceeding + Newlines(before)
      rest == Behind(a.rest, before \o line \o after)
  IN IF a.sentence.words # <<>> \/ a.failed \/ a.rest = <<>> THEN a
     ELSE IF Fails(line) THEN [a EXCEPT !.failed = TRUE, !.rest = rest, !.preceeding = preceeding]
     ELSE [sentence |-> s, preceeding |-> Preceeding(s, preceeding, after),
           following |-> IF s.words = <<>> THEN 0 ELSE Newlines(after),
           rest |-> rest, failed |-> FALSE]

(* The text comment: the tokens, those of multi-word tokens for their      *)
(* words, with a space where one follows.                                  *)
TextComment(s) ==
  LET Covering(i) == SelectSeq(s.mwts, LAMBDA m : m.id_first = i)
      from[i \in 1..Len(s.words) + 1] ==
        IF i > Len(s.words) THEN <<>>
        ELSE LET mwt == Covering(i)
                 token == IF mwt = <<>> THEN s.words[i] ELSE mwt[1].token
                 last == IF mwt = <<>> THEN i ELSE mwt[1].id_last
                 space == IF last < Len(s.words) /\ token.space_after THEN <<" ">> ELSE <<>>
             IN token.form \o space \o from[last + 1]
  IN from[1]

Presegmented(r) ==
  LET a == FoldLeft(LAMBDA acc, i : PresegmentedLine(acc),
                    [sentence |-> NoWords, preceeding |-> r.preceeding_newlines,
                     following |-> 0, rest |-> r.text, failed |-> FALSE],
                    [i \in 1..Len(r.text) |-> i])
      s == a.sentence
  IN [words |-> [i \in DOMAIN s.words |-> s.words[i].form], mwts |-> s.mwts,
      text |-> TextComment(s), preceeding |-> a.preceeding, following |-> a.following,
      rest |-> a.rest, failed |-> a.failed]

Found(f, r) ==
  CASE f = "horizontal" -> Horizontal(r)
    [] f = "vertical" -> Vertical(r)
    [] f = "presegmented" -> Presegmented(r)

-----------------------------------------------------------------------------
set_text(r, text) == [r EXCEPT !.text = text]

(* The reader it leaves, the sentence, and whether there is an error.      *)
Given(r, found) ==
  IF found.words = <<>>
  THEN [reader |-> [r EXCEPT !.text = found.rest, !.preceeding_newlines = found.preceeding],
        sentence |-> [words |-> <<>>], failed |-> found.failed]
  ELSE [reader |-> [text |-> found.rest, preceeding_newlines |-> found.following,
                    new_document |-> FALSE, sentence_id |-> r.sentence_id + 1],
        sentence |-> [words |-> found.words, mwts |-> found.mwts, text |-> found.text,
                      newdoc |-> r.new_document, newpar |-> found.preceeding >= 2,
                      sent_id |-> r.sentence_id],
        failed |-> FALSE]

next_sentence(f, r) == Given(r, Found(f, r))

Init ==
  /\ document \in InputTexts
  /\ format \in InputFormats
  /\ blocks = read_block(format, document)
  /\ reader = New
  /\ sentences = <<>>
  /\ again = FALSE

Sentence ==
  /\ \E n \in {next_sentence(format, reader)} :
       /\ n.sentence.words # <<>>
       /\ reader' = n.reader
       /\ sentences' = Append(sentences, n.sentence)
  /\ UNCHANGED <<format, blocks, document, again>>

(* next_sentence finds no more: the caller goes on with the next block,    *)
(* unless there is an error.                                               *)
Block ==
  /\ blocks # <<>>
  /\ \E n \in {next_sentence(format, reader)} :
       n.sentence.words = <<>> /\ ~n.failed /\ reader' = set_text(n.reader, Head(blocks))
  /\ blocks' = Tail(blocks)
  /\ UNCHANGED <<format, sentences, document, again>>

SlipIdsGoOn(r) == [New EXCEPT !.sentence_id = r.sentence_id]

reset_document(r) == New

(* The REST service reads its input to the end, to see whether it can be   *)
(* read, and then again as one text.                                       *)
ReadAgain ==
  /\ blocks = <<>> /\ ~again
  /\ \E n \in {next_sentence(format, reader)} :
       n.sentence.words = <<>> /\ ~n.failed /\ reader' = set_text(reset_document(n.reader), document)
  /\ sentences' = <<>>
  /\ again' = TRUE
  /\ UNCHANGED <<format, blocks, document>>

Next == Sentence \/ Block \/ ReadAgain

Spec == Init /\ [][Next]_vars

-----------------------------------------------------------------------------
(* Everything read from a text at once.                                    *)
AndThen(a, n) ==
  IF n.sentence.words = <<>> THEN a ELSE [reader |-> n.reader, read |-> Append(a.read, n.sentence)]

ReadAll(f, text) ==
  FoldLeft(LAMBDA a, i : AndThen(a, next_sentence(f, a.reader)),
           [reader |-> set_text(New, text), read |-> <<>>],
           [i \in 1..Len(text) |-> i]).read

SlipNoEmptyLine(f, s) ==
  IF f = "horizontal"
  THEN FlattenSeq([k \in DOMAIN s.words |->
         Mapped(s.words[k], " ", "N") \o (IF k < Len(s.words) THEN <<" ">> ELSE <<NL>>)])
  ELSE FlattenSeq([k \in DOMAIN s.words |-> Append(s.words[k], NL)])

(* The words of a sentence in a horizontal or vertical output.             *)
WordsWritten(f, s) ==
  IF f = "horizontal"
  THEN FlattenSeq([k \in DOMAIN s.words |->
         Mapped(s.words[k], " ", "N") \o (IF k < Len(s.words) THEN <<" ">> ELSE <<NL>>)])
  ELSE Append(FlattenSeq([k \in DOMAIN s.words |-> Append(s.words[k], NL)]), NL)

(* write_sentence over a document, with the option paragraphs.             *)
write_sentences(f, ss) ==
  FlattenSeq([k \in DOMAIN ss |->
    (IF k > 1 /\ (ss[k].newdoc \/ ss[k].newpar) THEN <<NL>> ELSE <<>>) \o WordsWritten(f, ss[k])])

(* The caller has all it gets from the document.                           *)
AllRead ==
  LET n == next_sentence(format, reader)
  IN n.sentence.words = <<>> /\ (blocks = <<>> \/ n.failed)

(* A document read block by block gives the sentences, ids and paragraphs  *)
(* that it gives as one text: newlines counted before a set_text still     *)
(* count behind it; and it gives the same when it is read again, as far as *)
(* the first error.                                                        *)
BlocksRight == AllRead => sentences = ReadAll(format, document)

(* What a format wrote with paragraphs it reads back as the same words,    *)
(* sentences and paragraphs.                                               *)
WrittenReadBack ==
  AllRead /\ format # "presegmented" =>
    ReadAll(format, write_sentences(format, sentences)) = sentences

(* The lines of the document with visible characters, up to the first that *)
(* cannot be read, each run of blanks as a space between two of them.      *)
VisibleLines ==
  LET Visible(i) == document[i] \notin EndOfLine \cup Blank
      at == SelectSeq([i \in DOMAIN document |-> i], Visible)
      NewLine(k) == \E i \in at[k]..at[k + 1] : document[i] \in EndOfLine
      Step(acc, k) ==
        LET char == document[at[k]]
        IN IF k = 1 THEN <<<<char>>>>
           ELSE IF NewLine(k - 1) THEN Append(acc, <<char>>)
           ELSE [acc EXCEPT ![Len(acc)] =
                   @ \o (IF at[k] = at[k - 1] + 1 THEN <<char>> ELSE <<" ", char>>)]
      lines == FoldLeft(Step, <<>>, [k \in DOMAIN at |-> k])
  IN Until(lines, {l \in Range(lines) : Fails(l)})

(* Every line of a presegmented text is one sentence, however many the     *)
(* wrapped tokenizer makes of it: its text comment is the line, and its    *)
(* multi-word tokens, in their order, are where their words are.           *)
LinesKept ==
  AllRead /\ format = "presegmented" =>
    /\ [k \in DOMAIN sentences |-> sentences[k].text] = VisibleLines
    /\ \A k \in DOMAIN sentences :
         LET s == sentences[k]
             multiword == SelectSeq([i \in DOMAIN s.words |-> i],
                                    LAMBDA i : s.words[i] = MultiwordOf.M[1])
         IN [j \in DOMAIN s.mwts |-> s.mwts[j].id_first] = multiword
=============================================================================
