------------------------------ MODULE MCLibrary ------------------------------
(* An instance of Library for TLC: small inputs of every component.        *)
EXTENDS Library

(* Two letters with their variants, and the other characters of the texts. *)
Letter == [a |-> <<"a", "A">>, A |-> <<"a", "A">>, b |-> <<"b", "B">>, B |-> <<"b", "B">>]
Characters == {"a", "b", "A", "B", " ", "1", "+", ".", ",", "e", "$"}
MCLowercase == [c \in Characters |-> IF c \in DOMAIN Letter THEN Letter[c][1] ELSE c]
MCUppercase == [c \in Characters |-> IF c \in DOMAIN Letter THEN Letter[c][2] ELSE c]

(* Three threads and a cache more than they need.                          *)
MCCallers == {"t1", "t2", "t3"}

(* Paragraphs of one or two sentences of four words, where sentences may   *)
(* have two; a token is the number of its words.                           *)
WordsOf(s) == FoldLeft(LAMBDA n, t : n + FoldLeft(+, 0, t.tokens), 0, s)
Found == [tokens : {<<1>>, <<2>>, <<1, 1>>, <<1, 2>>, <<2, 1>>, <<1, 1, 1>>, <<3>>}, par : BOOLEAN]
MCJointInputs == {s \in UNION {[1..n -> Found] : n \in 1..2} : s[1].par /\ WordsOf(s) <= 4}
MCParseCosts == {-3, -1}
MCLogprob == -1

(* All texts of four characters, "N" a no-break space, and longer ones; of *)
(* "M" a tokenizer makes two words, and at "E" it fails.                   *)
MCInputTexts ==
  UNION {[1..n -> {"a", "M", "E", " ", "\t", "\n"}] : n \in 1..4} \cup
  UNION {[1..n -> {"a", " ", "\n", "\r", "\t", "N"}] : n \in 1..4} \cup [1..6 -> {"a", " ", "\n"}]

(* Rules whose keys end each other, and a sentence of two tokens.          *)
MCRules ==
  [full : BOOLEAN, key : {<<"a">>, <<"b", "a">>, <<"a", "b", "a">>},
   words : {<<<<"a">>, <<"b">>>>}]
    \cup {[full |-> FALSE, key |-> <<"a">>, words |-> <<<<"a">>, <<"a">>, <<"a">>>>]}
MCSplitTokens == {<<"A">>, <<"b", "A">>, <<"B", "a">>, <<"b", "b">>, <<"A", "B", "A">>,
                  <<"b", "b", "a">>, <<"B", "a", "b", "a">>}

(* Trellises of orders two and three, with windows of the same size or     *)
(* larger, and a dynamic feature.                                          *)
Static(r) == [range |-> r, dynamic |-> FALSE]
Dynamic == [range |-> 1, dynamic |-> TRUE]
MCTaggers == {[decoding_order |-> 2, window_size |-> 2, sequences |-> <<Static(2), Static(1)>>],
              [decoding_order |-> 2, window_size |-> 3, sequences |-> <<Dynamic, Static(3), Static(1)>>],
              [decoding_order |-> 3, window_size |-> 3, sequences |-> <<Static(3)>>]}
MCTagSentences == {<<<<"noun", "verb">>, <<"noun", "verb">>, <<"noun", "verb">>>>,
                   <<<<"noun">>, <<"noun", "verb">>, <<"verb", "unknown">>>>,
                   <<<<"noun", "verb">>, <<"noun">>, <<"noun">>, <<"noun", "verb">>>>,
                   <<<<"noun">>, <<>>, <<"noun", "verb">>>>}

(* All trees over four words; every static oracle in both training loops,  *)
(* and the dynamic oracle after any transitions of the parser.             *)
Oracle(arcs, name, loop) == [system |-> arcs, oracle |-> name, loop |-> loop]
MCStaticKinds ==
  UNION {{Oracle("projective", "static", loop), Oracle("link2", "static", loop),
          Oracle("swap", "static_eager", loop), Oracle("swap", "static_lazy", loop)}
         : loop \in {"oracle", "structured"}}
MCDynamicKinds == {Oracle("projective", "dynamic", "oracle")}

(* Fields that begin or end with each other, and texts that need escapes.  *)
MCSpaceValues == {<<>>, <<" ">>, <<"\n", "|">>, <<"\\", "n">>}
MCCommentValues == {<<>>, <<"x">>, <<"\n">>, <<"\r", "x", " ">>}
MCFirstMiscs == {<<>>, <<"Other", "=", "x", "|", "SpacesBefore", "=", "\\", "s">>,
                 <<"SpaceAfter", "=", "No", "|", "Other", "=", "x", "|", "SpacesAfter", "=">>}
MCFirstComments == {<<>>, <<[name |-> <<"text", "_en">>, value |-> <<"x">>],
                            [name |-> <<"newdoc", "id">>, value |-> <<"x">>],
                            [name |-> <<"newdoc">>, value |-> <<>>]>>}

(* Documents of a few calls, with the characters that need an escape.      *)
MCTexts == {<<>>, <<"quote", "nl">>}

(* Two texts cut into tokens in all ways, where a token may also be a      *)
(* multi-word token of two words: one as a sentence, the other cut into    *)
(* one or two; then tokens with a space in one data, in both or in none.   *)
(* Every word hangs on its neighbour.  With gold tokenization the words of *)
(* the gold data are tokens of the system.                                 *)
Cuts(string, splits) ==
  LET cut[i \in 1..Len(string) + 1] ==
        IF i > Len(string) THEN {<<>>}
        ELSE UNION {{<<[form |-> SubSeq(string, i, j), words |-> w]>> \o rest :
                      w \in {<<SubSeq(string, i, j)>>} \cup splits, rest \in cut[j + 1]}
                    : j \in i..Len(string)}
  IN cut[1]
Headed(s, right) ==
  LET Count(k) == FoldLeft(LAMBDA n, t : n + Len(t.words), 0, SubSeq(s, 1, k))
      head(n) == IF ~right THEN n - 1 ELSE IF n = Count(Len(s)) THEN 0 ELSE n + 1
  IN [k \in DOMAIN s |-> [form |-> s[k].form, words |->
        [n \in DOMAIN s[k].words |-> [form |-> s[k].words[n], head |-> head(Count(k - 1) + n)]]]]
OneSentence(s, right) == <<Headed(s, right)>>
OneOrTwo(s) ==
  {OneSentence(s, FALSE)} \cup
  {<<Headed(SubSeq(s, 1, k), FALSE), Headed(SubSeq(s, k + 1, Len(s)), FALSE)>> : k \in 1..Len(s) - 1}
WordsAsTokens(s) ==
  FlattenSeq([k \in DOMAIN s |->
    [n \in DOMAIN s[k].words |-> [form |-> s[k].words[n], words |-> <<s[k].words[n]>>]]])
ab == <<<<"a">>, <<"b">>>>
ba == <<<<"b">>, <<"a">>>>
Single(f) == [form |-> f, words |-> <<f>>]
Spaced ==
  {t \o rest : t \in {<<Single(<<"a", " ", "b">>)>>, <<Single(<<"a", "b">>)>>, <<Single(<<"a">>), Single(<<"b">>)>>,
                      <<[form |-> <<"a", " ", "b">>, words |-> ab]>>, <<[form |-> <<"a", "b">>, words |-> ab]>>},
               rest \in {<<>>, <<Single(<<"a">>)>>, <<Single(<<"b", " ", "a">>)>>}}
MCEvaluations ==
    [tokenizer : {TRUE},
     system : {OneSentence(s, FALSE) : s \in Cuts(<<"a", "B", "a", "b">>, {ab})},
     gold : {OneSentence(s, TRUE) : s \in Cuts(<<"a", "B", "a", "b">>, {ab})}]
    \cup [tokenizer : {TRUE},
          system : UNION {OneOrTwo(s) : s \in Cuts(<<"a", "b", "A">>, {ab})},
          gold : UNION {OneOrTwo(s) : s \in Cuts(<<"a", "b", "A">>, {ab, ba})}]
    \cup [tokenizer : {TRUE}, system : UNION {OneOrTwo(s) : s \in Spaced},
          gold : UNION {OneOrTwo(s) : s \in Spaced}]
    \cup {[tokenizer |-> FALSE, system |-> OneSentence(WordsAsTokens(s), TRUE),
           gold |-> OneSentence(s, FALSE)] : s \in Cuts(<<"a", "b", "A">>, {ab, ba})}

(* Documents of a few sentences, some refused, and all kinds of requests.  *)
Options == {"none", "good", "bad"}
Asked ==
  [handler : {"pipeline", "process", "weblicht tokenize", "weblicht tag or parse"},
   data : {<<>>, <<2>>, <<1, 2>>, <<1, 0, 2>>, <<0>>}, has_data : BOOLEAN, loads : BOOLEAN,
   tokenizer : Options, tagger : Options, parser : Options,
   known_input : BOOLEAN, known_output : BOOLEAN, checked : BOOLEAN,
   model : {{}, {"tokenizer"}, {"tokenizer", "tagger"}, {"tokenizer", "tagger", "parser"}}]
MCRequests ==
  {r \in Asked :
    /\ (r.tokenizer # "none" \/ r.handler = "weblicht tokenize") => 0 \notin ToSet(r.data)
    /\ ~r.known_input => r.known_output
    /\ r.handler # "process" => r.has_data
    /\ r.handler = "weblicht tag or parse" => (r.tagger = "none" <=> r.parser # "none")
    /\ r.handler = "pipeline" => r.checked /\ r.loads}

(* Two or three models with one or two ids that begin each other; the last *)
(* id begins with a hyphen.                                                *)
Ids == {<<"a">>, <<"a", "b">>, <<"a", "b", "c">>, <<"b">>, <<"", "a">>}
IdLists == UNION {[1..n -> Ids] : n \in 1..2}
MCDescriptions == [1..2 -> IdLists] \cup [1..3 -> [1..1 -> Ids]]
MCDefaultNames == {<<"a">>, <<"a", "b">>, <<"">>}

(* Corpora of two words, whose keys have values in common, twice.          *)
k1 == <<2, 3>>
k2 == <<3, 4>>
k3 == <<1, 4>>
MCCorpora == {<<<<k1>>, <<k2>>>>, <<<<<<>>>>, <<k3>>>>, <<<<k1, k3>>>>}
MCKeys == {k1, k2, k3}

(* Data of three tokens, of which one may be split in two ways.            *)
Plain(f) == [form |-> f, words |-> <<f>>]
Multi(f, first, second) == [form |-> f, words |-> <<first, second>>]
Corpus == {Plain(<<"b">>), Plain(<<"A", "b">>), Plain(<<"b", "b">>),
           Multi(<<"a", "b">>, <<"a">>, <<"b">>), Multi(<<"A", "b">>, <<"a", "a">>, <<"b">>),
           Multi(<<"b", "b">>, <<"b">>, <<"a">>), Multi(<<"b", "a", "b">>, <<"b", "b">>, <<"a">>)}
MCTrainingData == [1..3 -> Corpus]
MCAlphabet == <<"a", "b">>

(* Keys of all lengths up to three, with values of up to two bytes.        *)
MCMapKeys == <<<<>>, <<1>>, <<1, 1, 2>>, <<1, 2>>, <<2>>, <<2, 1>>, <<2, 1, 1>>, <<2, 2, 1>>>>
MCMapValue ==
  [k \in ToSet(MCMapKeys) |->
     CASE Len(k) = 3 /\ k[1] = 1 -> <<2, 1>> [] k = <<2, 1>> -> <<>> [] OTHER -> <<Len(k)>>]

(* Texts of five characters and a sentence of two or three tokens.         *)
Signs == <<" ", ".", "1", "A", "a">>
MCRawTexts == [1..4 -> ToSet(Signs)] \cup [1..5 -> {" ", ".", "a"}]
MCTokenLists == {<<<<"A">>, <<".">>>>, <<<<".">>, <<"a">>, <<".">>>>, <<<<"1">>, <<"a">>>>,
                 <<<<"1">>, <<"1">>>>}
MCCode ==
  [c \in ToSet(Signs) \cup {"L", "N", "o"} |->
     CHOOSE n \in 1..8 : (Signs \o <<"L", "N", "o">>)[n] = c]
MCCategorized ==
  [c \in ToSet(Signs) |->
     CASE c = " " -> " " [] c = "." -> "o" [] c = "1" -> "N" [] OTHER -> "L"]

(* Numbers and the like of up to five characters, and words that rules for *)
(* some suffixes and prefixes are tried on.                                *)
Replaced(pref_del, pref_add, suff_del, suff_add) ==
  [pref_del |-> pref_del, pref_add |-> pref_add, suff_del |-> suff_del, suff_add |-> suff_add,
   tags |-> <<"t1", "t2">>]
RuleOf == [l \in {<<" ">>, <<"b", " ">>, <<"b", " ", "a">>, <<"b", "a", " ">>, <<" ", "A", "b">>} |->
             CASE Len(l) = 1 -> <<Replaced(<<>>, <<>>, <<>>, <<>>)>>
               [] l = <<"b", " ">> -> <<Replaced(<<>>, <<>>, <<"b">>, <<>>)>>
               [] l = <<"b", " ", "a">> -> <<Replaced(<<"a">>, <<>>, <<>>, <<"a">>)>>
               [] l = <<"b", "a", " ">> -> <<Replaced(<<"b">>, <<>>, <<>>, <<>>),
                                             Replaced(<<>>, <<"b">>, <<"b">>, <<>>)>>
               [] OTHER -> <<Replaced(<<"A">>, <<"a">>, <<>>, <<>>)>>]
Signlike == {"1", "+", ".", ",", "e", "$"}
MCAnalyses ==
  [form : UNION {[1..n -> Signlike] : n \in 1..5}, guesser : {FALSE}, rules : {RuleOf}, known : {{}}]
  \cup [form : UNION {[1..n -> {"a", "b", "A", "B"}] : n \in 1..3}, guesser : {TRUE},
        rules : {[l \in ls |-> RuleOf[l]] : ls \in SUBSET DOMAIN RuleOf}, known : {{}, {<<"a", "b">>}}]
MCCategory ==
  [c \in Signlike \cup {"a", "b", "A", "B"} |->
     CASE c = "1" -> "N" [] c \in {"+", "$"} -> "S" [] c \in {".", ","} -> "P" [] OTHER -> "L"]

(* Three words, some with a prefix that their lemma lacks.                 *)
Pair(f, lemma, t) == [form |-> f, lemma |-> lemma, tag |-> t]
Words == {Pair(<<"a", "b">>, <<"b">>, "t1"), Pair(<<"a", "b", "b">>, <<"b", "b">>, "t2"),
          Pair(<<"A", "b">>, <<"a", "b">>, "t1"), Pair(<<"A", "B", "b">>, <<"B", "b">>, "t2"),
          Pair(<<"b", "a", "b">>, <<"b", "a">>, "t1"), Pair(<<"b", "a", "b">>, <<"a", "b">>, "t2"),
          Pair(<<"b", "B", "b">>, <<"a">>, "t1"), Pair(<<"b", "b", "a", "b">>, <<"b", "a", "b">>, "t1")}
MCGuesserData == [1..3 -> Words]
==============================================================================
