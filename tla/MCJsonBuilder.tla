----------------------------- MODULE MCJsonBuilder -----------------------------
(* An instance of JsonBuilder for TLC.                                     *)
EXTENDS JsonBuilder

(* Strings with a control character.                                      *)
ControlTexts == {<<>>, <<"a">>, <<Control>>}
=============================================================================
