------------------------------ MODULE Transitions ------------------------------
(***************************************************************************)
(* The transition systems of parsito as functions on configurations        *)
(* (parsito/transition, parsito/configuration, parsito/tree).  A sentence  *)
(* has the words 1..N; node 0 is the root of the tree.                     *)
(*                                                                         *)
(* A configuration is a stack and a buffer, both with their top at the end *)
(* as in the C++ vectors, and the tree under construction: head (-1 for    *)
(* none), deprel and the sorted list of children of every node.            *)
(***************************************************************************)
EXTENDS Integers, SequencesExt

CONSTANTS
  N,            \* the words of the sentence
  Systems,      \* the transition systems, among "projective", "swap", "link2"
  SingleRoot,   \* the flag single_root of the model
  Labels,       \* the dependency relations of the model
  RootLabel,    \* the string "root"
  NoLabel       \* the empty deprel of an unlinked node

(* parser_nn_trainer.cpp refuses to train a model with other labels.       *)
ASSUME SentenceAssumption == N \in Nat
ASSUME SystemsAssumption == Systems \subseteq {"projective", "swap", "link2"}
ASSUME SingleRootAssumption == SingleRoot \in BOOLEAN
ASSUME LabelsAssumption ==
  /\ NoLabel \notin Labels
  /\ Labels # {}
  /\ SingleRoot => RootLabel \in Labels /\ Labels \ {RootLabel} # {}

Words == 1..N
Nodes == 0..N

Configurations ==
  [stack : Seq(Nodes), buffer : Seq(Nodes),
   head : [Nodes -> Nodes \cup {-1}],
   deprel : [Nodes -> Labels \cup {NoLabel}],
   children : [Nodes -> Seq(Nodes)]]

(* The i-th entry from the top, from 1.                                    *)
Top(s, i) == s[Len(s) - i + 1]

Pop(s, n) == SubSeq(s, 1, Len(s) - n)

(* The tree after unlink_all_nodes, and all words in the buffer.           *)
Unlinked(buffer) ==
  [stack |-> <<0>>,
   buffer |-> buffer,
   head |-> [n \in Nodes |-> -1],
   deprel |-> [n \in Nodes |-> NoLabel],
   children |-> [n \in Nodes |-> <<>>]]

(* configuration::init.                                                    *)
InitialConf == Unlinked([i \in 1..N |-> N + 1 - i])

Final(c) == c.buffer = <<>> /\ Len(c.stack) <= 1

-----------------------------------------------------------------------------
SlipAppended(list, id) == Append(list, id)

(* The loop from the back of set_head that keeps the list sorted.          *)
InsertSorted(list, id) ==
  LET i == CHOOSE j \in 0..Len(list) :
             /\ j = 0 \/ list[j] <= id
             /\ \A k \in j + 1 .. Len(list) : list[k] > id
  IN IF i = 0 \/ list[i] < id
     THEN SubSeq(list, 1, i) \o <<id>> \o SubSeq(list, i + 1, Len(list))
     ELSE list

(* tree::set_head, head >= 0: the former parent loses the child first.     *)
SetHead(c, id, head, label) ==
  LET left == IF c.head[id] >= 0
              THEN [c.children EXCEPT ![c.head[id]] = SelectSeq(@, LAMBDA n : n # id)]
              ELSE c.children
  IN [c EXCEPT !.head[id] = head,
               !.deprel[id] = label,
               !.children = [left EXCEPT ![head] = InsertSorted(@, id)]]

-----------------------------------------------------------------------------
(* A transition is its class and its label.                                *)
SlipSwapEverywhere(system) == {"shift", "swap"}

Unlabelled(system) == IF system = "swap" THEN {"shift", "swap"} ELSE {"shift"}

Labelled(system) ==
  {"left", "right"} \cup (IF system = "link2" THEN {"left2", "right2"} ELSE {})

Transition(system) ==
  [kind : Unlabelled(system), label : {NoLabel}] \cup [kind : Labelled(system), label : Labels]

LeftApplicable(c, label) ==
  /\ ~(SingleRoot /\ label = RootLabel)
  /\ Len(c.stack) >= 2 /\ Top(c.stack, 2) # 0

SlipRootTooEarly(c, label) ==
  IF SingleRoot /\ label = RootLabel THEN Len(c.stack) = 2
  ELSE IF SingleRoot THEN Len(c.stack) > 2
  ELSE Len(c.stack) >= 2

SlipNeverRoot(c, label) == Len(c.stack) >= (IF SingleRoot THEN 3 ELSE 2)

RightApplicable(c, label) ==
  IF SingleRoot /\ label = RootLabel THEN Len(c.stack) = 2 /\ c.buffer = <<>>
  ELSE IF SingleRoot THEN Len(c.stack) > 2
  ELSE Len(c.stack) >= 2

SlipSwapAgain(c) == Len(c.stack) >= 2 /\ Top(c.stack, 2) # 0

SwapApplicable(c) ==
  /\ Len(c.stack) >= 2
  /\ Top(c.stack, 2) # 0
  /\ Top(c.stack, 2) < Top(c.stack, 1)

Left2Applicable(c, label) ==
  /\ ~(SingleRoot /\ label = RootLabel)
  /\ Len(c.stack) >= 3 /\ Top(c.stack, 3) # 0

Right2Applicable(c, label) ==
  /\ ~(SingleRoot /\ label = RootLabel)
  /\ Len(c.stack) >= (IF SingleRoot THEN 4 ELSE 3)

Applicable(c, t) ==
  CASE t.kind = "shift"  -> c.buffer # <<>>
    [] t.kind = "swap"   -> SwapApplicable(c)
    [] t.kind = "left"   -> LeftApplicable(c, t.label)
    [] t.kind = "right"  -> RightApplicable(c, t.label)
    [] t.kind = "left2"  -> Left2Applicable(c, t.label)
    [] t.kind = "right2" -> Right2Applicable(c, t.label)

Shift(c) ==
  [c EXCEPT !.stack = Append(@, Top(c.buffer, 1)), !.buffer = Pop(@, 1)]

Swap(c) ==
  [c EXCEPT !.stack = Append(Pop(@, 2), Top(c.stack, 1)),
            !.buffer = Append(@, Top(c.stack, 2))]

(* The stacks that the arcs leave, and who becomes whose child.            *)
LeftArc(c, label) ==
  SetHead([c EXCEPT !.stack = Append(Pop(@, 2), Top(c.stack, 1))],
          Top(c.stack, 2), Top(c.stack, 1), label)

RightArc(c, label) ==
  SetHead([c EXCEPT !.stack = Pop(@, 1)],
          Top(c.stack, 1), Top(c.stack, 2), label)

LeftArc2(c, label) ==
  SetHead([c EXCEPT !.stack = Pop(@, 3) \o <<Top(c.stack, 2), Top(c.stack, 1)>>],
          Top(c.stack, 3), Top(c.stack, 1), label)

SlipIgnoredDropped(c, label) ==
  SetHead([c EXCEPT !.stack = Pop(@, 2)], Top(c.stack, 1), Top(c.stack, 3), label)

RightArc2(c, label) ==
  SetHead([c EXCEPT !.stack = Pop(@, 2), !.buffer = Append(@, Top(c.stack, 2))],
          Top(c.stack, 1), Top(c.stack, 3), label)

Perform(c, t) ==
  CASE t.kind = "shift"  -> Shift(c)
    [] t.kind = "swap"   -> Swap(c)
    [] t.kind = "left"   -> LeftArc(c, t.label)
    [] t.kind = "right"  -> RightArc(c, t.label)
    [] t.kind = "left2"  -> LeftArc2(c, t.label)
    [] t.kind = "right2" -> RightArc2(c, t.label)

(* The value perform() returns: the node it linked, or -1.                 *)
LinkedBy(c, t) ==
  CASE t.kind \in {"shift", "swap"}    -> -1
    [] t.kind \in {"right", "right2"}  -> Top(c.stack, 1)
    [] t.kind = "left"                 -> Top(c.stack, 2)
    [] t.kind = "left2"                -> Top(c.stack, 3)

-----------------------------------------------------------------------------
(* What is true of every configuration a parser can reach.                 *)

In(s) == {s[i] : i \in 1..Len(s)}

Injective(s) == \A i, j \in 1..Len(s) : s[i] = s[j] => i = j

Linked(c) == {n \in Nodes : c.head[n] # -1}

(* The root lies at the bottom of the stack and nowhere else.              *)
RootAtBottom(c) ==
  /\ Len(c.stack) >= 1 /\ c.stack[1] = 0
  /\ 0 \notin In(c.buffer)

(* Every node is on the stack, in the buffer or linked, only once.         *)
EachNodeOnce(c) ==
  /\ Injective(c.stack) /\ Injective(c.buffer)
  /\ In(c.stack) \cap In(c.buffer) = {}
  /\ Nodes \ Linked(c) = In(c.stack) \cup In(c.buffer)

(* No cycle: in any set of linked nodes somebody's head is outside it.     *)
Acyclic(c) ==
  \A S \in SUBSET Linked(c) : S # {} => \E n \in S : c.head[n] \notin S

(* With single_root, the root label and the head 0 go together and appear  *)
(* with the last transition only.                                          *)
RootLast(c) ==
  SingleRoot =>
    \A n \in Words : c.head[n] = 0 \/ c.deprel[n] = RootLabel =>
      /\ c.head[n] = 0 /\ c.deprel[n] = RootLabel
      /\ Final(c)
      /\ \A m \in Words : c.head[m] = 0 => m = n

LabelsMatchHeads(c) == \A n \in Nodes : c.head[n] = -1 <=> c.deprel[n] = NoLabel

ConfOK(c) ==
  /\ c \in Configurations
  /\ RootAtBottom(c)
  /\ EachNodeOnce(c)
  /\ Acyclic(c)
  /\ RootLast(c)
  /\ LabelsMatchHeads(c)

(* The children lists repeat the heads, in the order of the sentence.      *)
ChildrenMatch(c) ==
  \A n \in Nodes :
    /\ In(c.children[n]) = {m \in Words : c.head[m] = n}
    /\ \A i, j \in 1..Len(c.children[n]) :
         i < j => c.children[n][i] < c.children[n][j]

-----------------------------------------------------------------------------
(* What a parse has to return: a tree over all words, with a single root   *)
(* of that label if the model asks for it.                                 *)
IsTree(c) ==
  /\ \A n \in Words : c.head[n] \in Nodes /\ c.deprel[n] \in Labels
  /\ c.head[0] = -1
  /\ \A S \in SUBSET Words : S # {} => \E n \in S : c.head[n] \notin S

HasSingleRoot(c) ==
  SingleRoot /\ N > 0 =>
    \E r \in Words : \A n \in Words :
      /\ c.head[n] = 0 <=> n = r
      /\ c.deprel[n] = RootLabel <=> n = r

(* No two arcs cross.                                                      *)
Crossing(c, m, n) ==
  LET lo(k) == IF c.head[k] < k THEN c.head[k] ELSE k
      hi(k) == IF c.head[k] < k THEN k ELSE c.head[k]
  IN lo(m) < lo(n) /\ lo(n) < hi(m) /\ hi(m) < hi(n)

IsProjective(c) == \A m, n \in Words : ~Crossing(c, m, n)
=============================================================================
