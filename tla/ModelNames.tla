------------------------------ MODULE ModelNames ------------------------------
(***************************************************************************)
(* The names of models (udpipe_service::init): a model is given with its   *)
(* ids, and is found by every id and every prefix of one that ends at a    *)
(* hyphen.  A name is the sequence of its parts between hyphens.           *)
(***************************************************************************)
EXTENDS Integers, FiniteSets, SequencesExt

CONSTANTS
  Descriptions,   \* sequences of models, each the sequence of its ids
  DefaultNames    \* the names the default model may be given by

VARIABLES
  descriptions, default_model,
  added,          \* the models in models
  models_map,     \* a function from names to numbers of models
  status          \* "adding", "ready", "failed"

vars == <<descriptions, default_model, added, models_map, status>>

Empty == <<"">>
Names == DOMAIN models_map
HyphenPrefixes(id) == {SubSeq(id, 1, k) : k \in 1..Len(id) - 1}

Init ==
  /\ descriptions \in Descriptions
  /\ default_model \in DefaultNames
  /\ added = 0
  /\ models_map = [n \in {} |-> 0]
  /\ status = "adding"

SlipOverwrite(map, names, model) ==
  [n \in DOMAIN map \cup names |-> IF n \in names THEN model ELSE map[n]]

(* emplace does not overwrite.                                             *)
Emplace(map, names, model) ==
  [n \in DOMAIN map \cup names |-> IF n \in DOMAIN map THEN map[n] ELSE model]

(* The first id of a model must be new.                                    *)
InUse(id) == id \in Names

AddModel ==
  /\ status = "adding" /\ added < Len(descriptions)
  /\ added' = added + 1
  /\ LET ids == descriptions[added + 1]
     IN IF InUse(ids[1])
        THEN status' = "failed" /\ UNCHANGED models_map
        ELSE /\ models_map' = Emplace(models_map, ToSet(ids) \cup UNION {HyphenPrefixes(id) : id \in ToSet(ids)},
                                      added + 1)
             /\ UNCHANGED status
  /\ UNCHANGED <<descriptions, default_model>>

(* The empty name always means the default model, also if it was a prefix. *)
ResolveDefault ==
  /\ status = "adding" /\ added = Len(descriptions)
  /\ IF default_model \in Names
     THEN /\ models_map' = [n \in Names \cup {Empty} |->
                              models_map[IF n = Empty THEN default_model ELSE n]]
          /\ status' = "ready"
     ELSE status' = "failed" /\ UNCHANGED models_map
  /\ UNCHANGED <<descriptions, default_model, added>>

Next == AddModel \/ ResolveDefault

Spec == Init /\ [][Next]_vars

-----------------------------------------------------------------------------
NamesOf(m) ==
  UNION {{id} \cup HyphenPrefixes(id) : id \in ToSet(descriptions[m])}

(* Once the service is ready every model is found by its first id, a name  *)
(* means the first model on the command line that has it as an id or as a  *)
(* prefix of one, and no name means the model the default name means.      *)
NamesMean ==
  status = "ready" =>
    /\ \A m \in DOMAIN descriptions : descriptions[m][1] # Empty => models_map[descriptions[m][1]] = m
    /\ \A n \in Names \ {Empty} :
         n \in NamesOf(models_map[n]) /\ \A m \in 1..models_map[n] - 1 : n \notin NamesOf(m)
    /\ \A m \in DOMAIN descriptions : NamesOf(m) \subseteq Names
    /\ \E m \in DOMAIN descriptions : default_model \in NamesOf(m) /\ models_map[Empty] = m
                                        /\ \A k \in 1..m - 1 : default_model \notin NamesOf(k)
=============================================================================
