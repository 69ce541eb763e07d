---------------------------- MODULE MCTokenizer ----------------------------
(* Instances of TokenizerWrapper for TLC: one block as long as three       *)
(* windows may take, URLs over the place where a full window is cut, two   *)
(* short blocks, and two documents.                                        *)
EXTENDS TokenizerWrapper

Texts(alphabet, n) == UNION {[1..k -> alphabet] : k \in 1..n}

MCDocuments ==
  {<<t>> : t \in {t \in [1..6 -> {"a", " ", "\n"}] : t[1] = "a"}}
    \cup {<<t>> : t \in Texts({"a", "u", "."}, 4)}
    \cup {<<t>> : t \in {t \in [1..6 -> {"a", "u"}] : t[1] = "a" /\ t[6] = "a" /\ t[3] = "u"}}
    \cup {<<t, u>> : t \in [1..2 -> {"a", "u"}], u \in [1..2 -> {"a", "u"}]}
    \cup {<<t, u>> : t \in Texts({"a", " ", "\n"}, 3), u \in Texts({"a", "\n"}, 2)}
    \cup {<<t, ResetDocument, <<"\n", "a">>>> : t \in Texts({"a", " ", "\n"}, 3)}
    \cup {<<<<"a">> \o t \o <<"a">>>> : t \in {<<"\r", "\n", "\r", "\n">>, <<"\t">>}}

MCTwoWords == {<<"a", "a">>, <<"a", " ", "a">>}
=============================================================================
