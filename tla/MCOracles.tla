------------------------------ MODULE MCOracles ------------------------------
(* An instance of ParserOracles for TLC: the dynamic oracle alone.         *)
EXTENDS ParserOracles

DynamicOracle == {[system |-> "projective", oracle |-> "dynamic", loop |-> "oracle"]}
=============================================================================
