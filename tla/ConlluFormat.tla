------------------------------ MODULE ConlluFormat ------------------------------
(***************************************************************************)
(* The CoNLL-U reader and writer (input_format.cpp, output_format.cpp).    *)
(* The same text is read by two readers: one is given the whole text, as   *)
(* the REST service does, the other gets it by blocks that end with an     *)
(* empty line (read_block and getpara), as the command line tools do.      *)
(*                                                                         *)
(* A line is what its columns say; of the columns that do not identify a   *)
(* node the head is kept.  A "bad" line has a wrong number of columns, an  *)
(* empty column or one that is not allowed in a line of its kind.          *)
(***************************************************************************)
EXTENDS Integers, SequencesExt

CONSTANTS
  MaxWords,   \* bound: the numbers that appear in the text
  MaxLines,   \* bound: lines of the text
  Endings     \* the ends of lines: "lf", "crlf", or "cr" followed by no LF

ASSUME BoundsAssumption == MaxWords \in Nat /\ MaxLines \in Nat

VARIABLES
  version,    \* 1 or 2
  left,       \* lines the text may still have
  at_cr,      \* the text begins with a CR that no LF follows
  whole,      \* the sentence the reader of the whole text works on
  block,      \* the sentence the reader of blocks works on
  out,        \* history: what the last line made either reader return
  detached,   \* history: an empty line came after something but before a word
  phase       \* "reading", "stopped"

vars == <<version, left, at_cr, whole, block, out, detached, phase>>

Numbers == 1..MaxWords

Blank == [kind |-> "blank"]

Line ==
  {Blank, [kind |-> "comment"], [kind |-> "bad"]}
  \cup [kind : {"word"}, id : Numbers, head : -1..MaxWords]
  \cup [kind : {"multiword"}, from : Numbers, to : Numbers]
  \cup [kind : {"empty node"}, id : 0..MaxWords, index : Numbers]

(* A sentence after clear(); words holds the heads, without the root.      *)
Clear == [words |-> <<>>, multiword_tokens |-> <<>>, empty_nodes |-> <<>>,
          comments |-> 0, last_multiword_token |-> 0]

-----------------------------------------------------------------------------
SlipOverlap(s, l) == l.from = Len(s.words) + 1 /\ l.to >= l.from

MultiwordFits(s, l) ==
  /\ l.from = Len(s.words) + 1
  /\ l.to >= l.from
  /\ l.from > s.last_multiword_token

EmptyNodeFits(s, l) ==
  /\ version >= 2
  /\ l.id = Len(s.words)
  /\ IF s.empty_nodes # <<>> /\ Last(s.empty_nodes).id = l.id
     THEN l.index = Last(s.empty_nodes).index + 1
     ELSE l.index = 1

WordFits(s, l) == l.id = Len(s.words) + 1

Fits(s, l) ==
  CASE l.kind = "comment"    -> TRUE
    [] l.kind = "bad"        -> FALSE
    [] l.kind = "multiword"  -> MultiwordFits(s, l)
    [] l.kind = "empty node" -> EmptyNodeFits(s, l)
    [] l.kind = "word"       -> WordFits(s, l)

(* The sentence with the line added; a comment after a word is ignored.    *)
Taken(s, l) ==
  CASE l.kind = "comment" ->
         IF s.words = <<>> THEN [s EXCEPT !.comments = @ + 1] ELSE s
    [] l.kind = "multiword" ->
         [s EXCEPT !.multiword_tokens = Append(@, [from |-> l.from, to |-> l.to]),
                   !.last_multiword_token = l.to]
    [] l.kind = "empty node" ->
         [s EXCEPT !.empty_nodes = Append(@, [id |-> l.id, index |-> l.index])]
    [] l.kind = "word" -> [s EXCEPT !.words = Append(@, l.head)]

(* The loop from the back of set_head that keeps the list sorted.          *)
Inserted(list, id) ==
  LET i == CHOOSE j \in 0..Len(list) :
             /\ j = 0 \/ list[j] <= id
             /\ \A k \in j + 1 .. Len(list) : list[k] > id
  IN IF i = 0 \/ list[i] < id
     THEN SubSeq(list, 1, i) \o <<id>> \o SubSeq(list, i + 1, Len(list))
     ELSE list

(* sentence::set_head for a word that is in no list of children yet.       *)
set_head(children, id, head) ==
  IF head < 0 THEN children
  ELSE [children EXCEPT ![head] = Inserted(@, id)]

(* The heads are set word by word.                                         *)
Children(s) ==
  LET after[k \in 0..Len(s.words)] ==
        IF k = 0 THEN [n \in 0..Len(s.words) |-> <<>>]
        ELSE set_head(after[k - 1], k, s.words[k])
  IN after[Len(s.words)]

(* The checks after the last line of a sentence.                           *)
CompleteWords(s) ==
  /\ s.last_multiword_token <= Len(s.words)
  /\ \A i \in DOMAIN s.words : s.words[i] <= Len(s.words)

(* What next_sentence returns when its loop ended: a sentence, an error or *)
(* that there is none, which sends the caller for more text.               *)
More == [is |-> "more"]
Error == [is |-> "error"]

Returned(s) ==
  IF ~CompleteWords(s) THEN Error
  ELSE IF s.words = <<>> THEN More
  ELSE [is |-> "sentence", sentence |-> [s EXCEPT !.last_multiword_token = 0],
        children |-> Children(s)]

(* One line, and whether the text given to the reader ended with it: the   *)
(* sentence to go on with, and what was returned.                          *)
Read(s, l, ends) ==
  LET stay(t) == IF ends THEN [next |-> Clear, out |-> Returned(t)]
                 ELSE [next |-> t, out |-> More]
  IN IF l = Blank
     THEN IF s.words = <<>> THEN stay(s) ELSE [next |-> Clear, out |-> Returned(s)]
     ELSE IF Fits(s, l) THEN stay(Taken(s, l)) ELSE [next |-> Clear, out |-> Error]

(* The newline characters that are skipped after a line.                   *)
SlipLfOnly(ending) == ending = "lf"

Skipped(ending) == ending \in {"lf", "crlf"}

SlipEveryLine(l, ending) == ending = "lf"

(* getpara ends a block after a line in which getline finds nothing.       *)
EndsBlock(l, ending) == l = Blank /\ ending = "lf"

-----------------------------------------------------------------------------
Init ==
  /\ version \in {1, 2}
  /\ left = MaxLines
  /\ at_cr = FALSE
  /\ whole = Clear /\ block = Clear
  /\ out = [whole |-> More, block |-> More]
  /\ detached = FALSE
  /\ phase = "reading"

(* Both readers take a line.  They stop at an error, and at the end.       *)
Both(l, ends, ends_block) ==
  LET w == Read(whole, l, ends)
      b == Read(block, l, ends_block)
  IN /\ whole' = w.next /\ block' = b.next
     /\ out' = [whole |-> w.out, block |-> b.out]
     /\ detached' = (detached \/ (l = Blank /\ whole # Clear /\ whole.words = <<>>))
     /\ phase' = IF ends \/ Error \in {w.out, b.out} THEN "stopped" ELSE phase

(* A line, new or, at a CR that was not skipped, the empty one before it.  *)
ReadLine ==
  /\ phase = "reading"
  /\ \E l \in Line, ending \in Endings :
       /\ IF at_cr THEN l = Blank /\ ~Skipped(ending) ELSE left > 0
       /\ Both(l, FALSE, EndsBlock(l, ending))
       /\ at_cr' = ~Skipped(ending)
  /\ left' = IF at_cr THEN left ELSE left - 1
  /\ UNCHANGED version

(* The last line, with nothing after it.                                   *)
ReadLast ==
  /\ phase = "reading" /\ ~at_cr
  /\ \E l \in Line : Both(l, TRUE, TRUE)
  /\ UNCHANGED <<version, left, at_cr>>

Next == ReadLine \/ ReadLast

Spec == Init /\ [][Next]_vars

(* The thread that reads runs.                                             *)
FairSpec == Spec /\ WF_vars(Next)

-----------------------------------------------------------------------------
(* The loop of write_sentence: lines written, tokens and empty nodes done. *)
NextToken(w, s, i) ==
  IF w.tokens < Len(s.multiword_tokens) /\ s.multiword_tokens[w.tokens + 1].from = i
  THEN <<s.multiword_tokens[w.tokens + 1]>> ELSE <<>>

(* The empty nodes that come next and belong to word i.                    *)
NextNodes(w, s, i) ==
  LET upto == CHOOSE k \in w.nodes .. Len(s.empty_nodes) :
                /\ \A j \in w.nodes + 1 .. k : s.empty_nodes[j].id = i
                /\ k < Len(s.empty_nodes) => s.empty_nodes[k + 1].id # i
  IN IF version >= 2 THEN SubSeq(s.empty_nodes, w.nodes + 1, upto) ELSE <<>>

TokenLine(t) == [kind |-> "multiword", from |-> t.from, to |-> t.to]
WordLine(s, i) == [kind |-> "word", id |-> i, head |-> s.words[i]]
NodeLine(n) == [kind |-> "empty node", id |-> n.id, index |-> n.index]

SlipNodesFirst(w, s, i) ==
  LET tokens == NextToken(w, s, i)
      nodes == NextNodes(w, s, i)
      word == IF i > 0 THEN <<WordLine(s, i)>> ELSE <<>>
  IN [lines |-> w.lines \o [j \in DOMAIN tokens |-> TokenLine(tokens[j])]
                \o [j \in DOMAIN nodes |-> NodeLine(nodes[j])] \o word,
      tokens |-> w.tokens + Len(tokens), nodes |-> w.nodes + Len(nodes)]

WriteNode(w, s, i) ==
  LET tokens == NextToken(w, s, i)
      nodes == NextNodes(w, s, i)
      word == IF i > 0 THEN <<WordLine(s, i)>> ELSE <<>>
  IN [lines |-> w.lines \o [j \in DOMAIN tokens |-> TokenLine(tokens[j])] \o word
                \o [j \in DOMAIN nodes |-> NodeLine(nodes[j])],
      tokens |-> w.tokens + Len(tokens), nodes |-> w.nodes + Len(nodes)]

write_sentence(s) ==
  LET comments == [i \in 1..s.comments |-> [kind |-> "comment"]]
      written[k \in 0..Len(s.words) + 1] ==
        IF k = 0 THEN [lines |-> comments, tokens |-> 0, nodes |-> 0]
        ELSE WriteNode(written[k - 1], s, k - 1)
  IN Append(written[Len(s.words) + 1].lines, Blank)

(* A reader that is given lines must not return before the last of them.   *)
ReadOne(r, l) ==
  IF r.out = More THEN Read(r.next, l, FALSE) ELSE [r EXCEPT !.out = Error]

ReadLines(lines) ==
  LET read[k \in 0..Len(lines)] ==
        IF k = 0 THEN [next |-> Clear, out |-> More] ELSE ReadOne(read[k - 1], lines[k])
  IN read[Len(lines)]

ReadBack(lines) == ReadLines(lines).out

Delivered == {o \in {out.whole, out.block} : o.is = "sentence"}

-----------------------------------------------------------------------------
(* A sentence that next_sentence returns is well formed: multi-word tokens *)
(* do not overlap and have all their words, empty nodes are numbered from  *)
(* 1 after each word, heads are words of the sentence and the children of  *)
(* a word are those it is the head of, in order.                           *)
WellFormed(o) ==
  LET s == o.sentence
      n == Len(s.words)
      tokens == s.multiword_tokens
      nodes == s.empty_nodes
  IN /\ \A i \in DOMAIN tokens :
          /\ 1 <= tokens[i].from /\ tokens[i].from <= tokens[i].to /\ tokens[i].to <= n
          /\ i > 1 => tokens[i - 1].to < tokens[i].from
     /\ \A i \in DOMAIN nodes :
          /\ nodes[i].id \in 0..n
          /\ \/ nodes[i].index = 1 /\ (i > 1 => nodes[i - 1].id < nodes[i].id)
             \/ i > 1 /\ nodes[i - 1] = [id |-> nodes[i].id, index |-> nodes[i].index - 1]
     /\ \A i \in 1..n : s.words[i] \in -1..n
     /\ \A h \in 0..n :
          /\ Range(o.children[h]) = {i \in 1..n : s.words[i] = h}
          /\ \A i, j \in DOMAIN o.children[h] : i < j => o.children[h][i] < o.children[h][j]

ReturnsWellFormed == \A o \in Delivered : WellFormed(o)

(* What write_sentence writes is read as the same sentence.                *)
RoundTrip == \A o \in Delivered : ReadBack(write_sentence(o.sentence)) = o

(* Reading by blocks and reading the whole text give the same, unless an   *)
(* empty line comes between the first lines of a sentence and its words.   *)
SameByBlocks == ~detached => out.whole = out.block

(* The reader comes to the end of the text or to an error.                 *)
ReadingEnds == <>(phase = "stopped")
=============================================================================
