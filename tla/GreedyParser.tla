------------------------------ MODULE GreedyParser ------------------------------
(***************************************************************************)
(* parser_nn::parse_greedy: from configuration::init on, the applicable    *)
(* transition that the network likes best is performed until the           *)
(* configuration is final.  The network may prefer any of them.            *)
(*                                                                         *)
(* The embeddings of a node depend on its deprel; they are computed before *)
(* the first transition and again for the node a transition links.  The    *)
(* workspace comes from an earlier sentence, or is new.                    *)
(***************************************************************************)
EXTENDS Transitions

VARIABLES
  system,     \* the transition system of the model
  phase,      \* "idle", "parsing"
  conf,       \* workspace::conf with the tree
  embedded    \* the deprel each node had when its embeddings were computed

vars == <<system, phase, conf, embedded>>

Init ==
  /\ system \in Systems
  /\ phase = "idle"
  /\ conf = InitialConf
  /\ embedded \in {[n \in Nodes |-> l] : l \in Labels \cup {NoLabel}}

SlipStaleWorkspace ==
  /\ phase = "idle"
  /\ phase' = "parsing"
  /\ conf' = InitialConf
  /\ UNCHANGED <<system, embedded>>

Start ==
  /\ phase = "idle"
  /\ phase' = "parsing"
  /\ conf' = InitialConf
  /\ embedded' = InitialConf.deprel
  /\ UNCHANGED system

(* One round of the loop.                                                  *)
Step ==
  /\ phase = "parsing" /\ ~Final(conf)
  /\ \E t \in Transition(system) :
       /\ Applicable(conf, t)
       /\ conf' = Perform(conf, t)
       /\ embedded' = IF LinkedBy(conf, t) = -1 THEN embedded
                      ELSE [embedded EXCEPT ![LinkedBy(conf, t)] =
                              conf'.deprel[LinkedBy(conf, t)]]
  /\ UNCHANGED <<system, phase>>

Return ==
  /\ phase = "parsing" /\ Final(conf)
  /\ phase' = "idle"
  /\ UNCHANGED <<system, conf, embedded>>

Next == Start \/ Step \/ Return

Spec == Init /\ [][Next]_vars

(* The thread that parses runs.                                            *)
FairSpec == Spec /\ WF_vars(Step \/ Return)

-----------------------------------------------------------------------------
(* Every variable has its type.                                            *)
TypeOK ==
  /\ system \in Systems
  /\ phase \in {"idle", "parsing"}
  /\ conf \in Configurations
  /\ embedded \in [Nodes -> Labels \cup {NoLabel}]

(* The configuration is sound after every transition (see ConfOK).         *)
Sound == ConfOK(conf)

(* Whatever the network prefers, some transition is applicable: best never *)
(* stays -1.                                                               *)
NeverStuck == ~Final(conf) => \E t \in Transition(system) : Applicable(conf, t)

(* A final configuration is a tree over all words with a single root, if   *)
(* single_root asks for one.                                               *)
ResultIsTree == Final(conf) /\ phase = "parsing" => IsTree(conf) /\ HasSingleRoot(conf)

(* The projective system builds projective trees only.                     *)
ResultIsProjective == system = "projective" /\ Final(conf) => IsProjective(conf)

(* The lists of children that the node extractor follows repeat the heads. *)
ChildrenFollowHeads == ChildrenMatch(conf)

(* The network never sees the embeddings of an older deprel.               *)
EmbeddingsFresh == phase = "parsing" => embedded = conf.deprel

(* Parsing ends, whatever the network prefers; the swaps too.              *)
ParsingEnds == (phase = "parsing") ~> (phase = "idle")
=============================================================================
