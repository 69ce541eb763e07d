---------------------------- MODULE LibraryProofs ----------------------------
(***************************************************************************)
(* Theorems about Library for any data: the caches of a model, for any     *)
(* number of threads and of caches, the handlers of the service, the names *)
(* of its models, the JSON it writes and the training of the tagger.  What *)
(* is known of a component comes first, what is known of the library it is *)
(* part of at the end.                                                     *)
(***************************************************************************)
EXTENDS LibraryState, FiniteSetTheorems, SequenceTheorems, WellFoundedInduction, TLAPS

-----------------------------------------------------------------------------
(* The inductive invariant.  A thread is inside while it has the lock; it  *)
(* has a cache in hand from release to emplace_back.                       *)
Places == {"idle", "popping", "released", "popped", "got", "filled", "pushing", "pushed"}
Inside == {"popping", "released", "popped", "pushing", "pushed"}

TypeOK ==
  /\ lock \in BOOLEAN
  /\ stack \in Seq(Nat \cup {Null})
  /\ at \in [Callers -> Places]
  /\ mine \in [Callers -> Nat \cup {Null}]
  /\ content \in Seq(Callers)
  /\ lost \in SUBSET Nat

Exclusive ==
  /\ \A t \in Callers : at[t] \in Inside => lock
  /\ \A t, u \in Callers : at[t] \in Inside /\ at[u] \in Inside => t = u

InHand ==
  \A t \in Callers :
    /\ at[t] \in {"released", "filled", "pushing"} => mine[t] # Null
    /\ at[t] \in {"idle", "popping", "pushed"} => mine[t] = Null

(* A slot is empty only between release and pop_back, and it is the last.  *)
Slotted ==
  /\ \A t \in Callers : at[t] = "released" => Len(stack) > 0 /\ stack[Len(stack)] = Null
  /\ \A i \in 1..Len(stack) :
       stack[i] = Null => i = Len(stack) /\ \E t \in Callers : at[t] = "released"

Control == TypeOK /\ Exclusive /\ InHand /\ Slotted

Known ==
  /\ \A t \in Callers : mine[t] \in 1..Len(content) \cup {Null}
  /\ \A i \in 1..Len(stack) : stack[i] \in 1..Len(content) \cup {Null}
  /\ lost \in SUBSET (1..Len(content))

(* A cache is in one place at most, and in one at least.                   *)
Apart ==
  /\ \A t, u \in Callers : mine[t] = mine[u] /\ mine[t] # Null => t = u
  /\ \A i, j \in 1..Len(stack) : stack[i] = stack[j] /\ stack[i] # Null => i = j
  /\ \A t \in Callers, i \in 1..Len(stack) : mine[t] # Null => mine[t] # stack[i]
  /\ \A t \in Callers : mine[t] \notin lost \/ mine[t] = Null
  /\ \A i \in 1..Len(stack) : stack[i] \notin lost \/ stack[i] = Null

Somewhere(c) ==
  c \in lost \/ (\E t \in Callers : mine[t] = c) \/ \E i \in 1..Len(stack) : stack[i] = c

Placed ==
  /\ Known /\ Apart
  /\ \A c \in 1..Len(content) : Somewhere(c)
  /\ \A t \in Callers : at[t] = "filled" => content[mine[t]] = t

(* Whoever found the stack empty counts as if it had a cache: no thread    *)
(* has two, and the stack has no more than the others gave back.           *)
Busy == {t \in Callers : at[t] \in {"released", "popped", "got", "filled", "pushing"}}
Having == {t \in Callers : mine[t] # Null}
Kept == Len(stack) - (IF \E t \in Callers : at[t] = "released" THEN 1 ELSE 0)

Counted ==
  /\ Kept + Cardinality(Busy) <= Cardinality(Callers)
  /\ Len(content) <= Kept + Cardinality(Having) + Cardinality(lost)

CachesInv == Control /\ Placed /\ Counted

-----------------------------------------------------------------------------
(* What the operations do with the stack.                                  *)
LEMMA StackFacts ==
  ASSUME TypeOK
  PROVE  /\ Len(stack) \in Nat /\ DOMAIN stack = 1..Len(stack)
         /\ Len(content) \in Nat /\ DOMAIN content = 1..Len(content)
         /\ (stack = <<>> <=> Len(stack) = 0)
         /\ \A i \in 1..Len(stack) : stack[i] \in Nat \cup {Null}
BY LenProperties, ElementOfSeq, EmptySeq DEF TypeOK

LEMMA ReleaseFacts ==
  ASSUME TypeOK, NEW t \in Callers, Release(t)
  PROVE  /\ Len(stack) \in 1..Len(stack)
         /\ stack' \in Seq(Nat \cup {Null}) /\ Len(stack') = Len(stack)
         /\ \A i \in 1..Len(stack) : stack'[i] = IF i = Len(stack) THEN Null ELSE stack[i]
         /\ mine' = [mine EXCEPT ![t] = stack[Len(stack)]]
<1>1. Len(stack) \in 1..Len(stack)
  BY StackFacts DEF Release
<1>2. stack' = [stack EXCEPT ![Len(stack)] = Null] /\ mine' = [mine EXCEPT ![t] = stack[Len(stack)]]
  BY DEF Release, Last
<1>3. stack \in Seq(Nat \cup {Null}) /\ Null \in Nat \cup {Null}
  BY DEF TypeOK
<1> QED BY <1>1, <1>2, <1>3, ExceptSeq

LEMMA PopFacts ==
  ASSUME TypeOK, NEW t \in Callers, PopBack(t), Len(stack) > 0
  PROVE  /\ stack' \in Seq(Nat \cup {Null}) /\ Len(stack') = Len(stack) - 1
         /\ \A i \in 1..Len(stack') : i \in 1..Len(stack) /\ i < Len(stack) /\ stack'[i] = stack[i]
         /\ \A i \in 1..Len(stack) : i \in 1..Len(stack') \/ i = Len(stack)
<1> DEFINE n == Len(stack)
<1>1. n \in Nat /\ n > 0 /\ \A i \in 1..n : stack[i] \in Nat \cup {Null}
  BY StackFacts
<1>2. stack' = SubSeq(stack, 1, n - 1)
  BY DEF PopBack, Front
<1>3. \A i \in 1..(n - 1) : i \in 1..n
  BY <1>1
<1> HIDE DEF n
<1>4. /\ stack' \in Seq(Nat \cup {Null})
      /\ Len(stack') = IF 1 <= n - 1 THEN n - 1 - 1 + 1 ELSE 0
      /\ \A i \in 1..(n - 1 - 1 + 1) : stack'[i] = stack[1 + i - 1]
  <2>1. \A i \in 1..(n - 1) : stack[i] \in Nat \cup {Null}
    BY <1>1, <1>3
  <2>2. 1 \in Int /\ n - 1 \in Int
    BY <1>1
  <2> QED BY <1>2, <2>1, <2>2, SubSeqProperties
<1>5. Len(stack') = n - 1
  BY <1>1, <1>4
<1>6. \A i \in 1..(n - 1) : stack'[i] = stack[i]
  <2> TAKE i \in 1..(n - 1)
  <2>1. i \in 1..(n - 1 - 1 + 1) /\ 1 + i - 1 = i
    BY <1>1
  <2> QED BY <1>4, <2>1
<1> QED BY <1>1, <1>3, <1>4, <1>5, <1>6 DEF n

LEMMA PushFacts ==
  ASSUME TypeOK, NEW t \in Callers, EmplaceBack(t)
  PROVE  /\ stack' \in Seq(Nat \cup {Null}) /\ Len(stack') = Len(stack) + 1
         /\ \A i \in 1..Len(stack) : stack'[i] = stack[i]
         /\ stack'[Len(stack) + 1] = mine[t]
         /\ \A i \in 1..Len(stack') : i \in 1..Len(stack) \/ i = Len(stack) + 1
<1>1. stack \in Seq(Nat \cup {Null}) /\ mine[t] \in Nat \cup {Null}
  BY DEF TypeOK
<1>2. stack' = Append(stack, mine[t])
  BY DEF EmplaceBack
<1>3. /\ stack' \in Seq(Nat \cup {Null}) /\ Len(stack') = Len(stack) + 1
      /\ \A i \in 1..Len(stack) : stack'[i] = stack[i]
      /\ stack'[Len(stack) + 1] = mine[t]
  BY <1>1, <1>2, AppendProperties
<1> QED BY <1>3, StackFacts

(* A cache that is made has the next number.                               *)
Makes(t) == mine[t] = Null /\ content' = Append(content, t)

LEMMA MakeFacts ==
  ASSUME TypeOK, NEW t \in Callers, Makes(t)
  PROVE  /\ content' \in Seq(Callers) /\ Len(content') = Len(content) + 1
         /\ \A i \in 1..Len(content) : content'[i] = content[i]
         /\ content'[Len(content) + 1] = t
BY AppendProperties DEF TypeOK, Makes

LEMMA FillFacts ==
  ASSUME TypeOK, NEW t \in Callers, Fill(t), mine[t] \in 1..Len(content) \cup {Null}
  PROVE  \/ /\ Makes(t) /\ mine' = [mine EXCEPT ![t] = Len(content) + 1]
         \/ /\ mine[t] \in 1..Len(content) /\ mine' = mine
            /\ content' \in Seq(Callers) /\ Len(content') = Len(content)
            /\ \A i \in 1..Len(content) : content'[i] = IF i = mine[t] THEN t ELSE content[i]
<1>1. CASE mine[t] = Null
  BY <1>1 DEF Fill, Makes
<1>2. CASE mine[t] # Null
  <2>1. content \in Seq(Callers) /\ mine[t] \in 1..Len(content)
    BY <1>2 DEF TypeOK
  <2>2. content' = [content EXCEPT ![mine[t]] = t] /\ mine' = mine
    BY <1>2 DEF Fill
  <2> QED BY <2>1, <2>2, ExceptSeq
<1> QED BY <1>1, <1>2

LEMMA GotoFacts ==
  ASSUME TypeOK, NEW t \in Callers, NEW here \in Places, NEW to \in Places, Goto(t, here, to)
  PROVE  /\ at' \in [Callers -> Places] /\ at[t] = here /\ at'[t] = to
         /\ \A u \in Callers : u # t => at'[u] = at[u]
BY DEF TypeOK, Goto

(* What Next may do, thread by thread.                                     *)
Step(t) ==
  \/ Acquire(t, "idle", "popping") \/ Acquire(t, "filled", "pushing")
  \/ Clear(t, "popped", "got") \/ Clear(t, "pushed", "idle")
  \/ FoundEmpty(t) \/ Release(t) \/ PopBack(t)
  \/ Fill(t) \/ FailOptions(t) \/ EmplaceBack(t)

LEMMA NextIsStep == Next <=> \E t \in Callers : Step(t)
BY DEF Next, Step

LEMMA TypeKept ==
  ASSUME Control, Known, NEW t \in Callers, Step(t)
  PROVE  TypeOK'
<1>1. TypeOK
  BY DEF Control
<1>2. /\ lock \in BOOLEAN /\ stack \in Seq(Nat \cup {Null}) /\ at \in [Callers -> Places]
      /\ mine \in [Callers -> Nat \cup {Null}] /\ content \in Seq(Callers) /\ lost \in SUBSET Nat
  BY <1>1 DEF TypeOK
<1>3. CASE Acquire(t, "idle", "popping") \/ Acquire(t, "filled", "pushing")
  BY <1>2, <1>3 DEF Acquire, Goto, TypeOK, Places
<1>4. CASE Clear(t, "popped", "got") \/ Clear(t, "pushed", "idle")
  BY <1>2, <1>4 DEF Clear, Goto, TypeOK, Places
<1>5. CASE FoundEmpty(t)
  BY <1>2, <1>5 DEF FoundEmpty, Goto, TypeOK, Places
<1>6. CASE Release(t)
  <2>1. stack' \in Seq(Nat \cup {Null}) /\ stack[Len(stack)] \in Nat \cup {Null}
    BY <1>1, <1>6, ReleaseFacts, StackFacts
  <2>2. mine' \in [Callers -> Nat \cup {Null}]
    BY <1>1, <1>2, <1>6, <2>1, ReleaseFacts
  <2> QED BY <1>2, <1>6, <2>1, <2>2 DEF Release, Goto, TypeOK, Places
<1>7. CASE PopBack(t)
  <2>1. Len(stack) > 0
    BY <1>7 DEF PopBack, Goto, Control, Slotted
  <2> QED BY <1>1, <1>2, <1>7, <2>1, PopFacts DEF PopBack, Goto, TypeOK, Places
<1>8. CASE Fill(t)
  <2>1. mine[t] \in 1..Len(content) \cup {Null} /\ Len(content) + 1 \in Nat
    BY <1>1, StackFacts DEF Known
  <2>2. content' \in Seq(Callers) /\ mine' \in [Callers -> Nat \cup {Null}]
    BY <1>1, <1>2, <1>8, <2>1, FillFacts, MakeFacts
  <2> QED BY <1>2, <1>8, <2>2 DEF Fill, Goto, TypeOK, Places
<1>9. CASE FailOptions(t)
  <2>1. Len(content) + 1 \in Nat
    BY <1>1, StackFacts
  <2>2. mine' \in [Callers -> Nat \cup {Null}]
    BY <1>2, <1>9 DEF FailOptions
  <2>3. content' \in Seq(Callers) /\ lost' \in SUBSET Nat
    <3>1. CASE mine[t] # Null
      <4>1. mine[t] \in Nat
        BY <1>2, <3>1
      <4> QED BY <1>2, <1>9, <3>1, <4>1 DEF FailOptions
    <3>2. CASE mine[t] = Null
      <4>1. Makes(t)
        BY <1>9, <3>2 DEF FailOptions, Makes
      <4>2. content' \in Seq(Callers)
        BY <1>1, <4>1, MakeFacts
      <4>3. lost' = lost \cup {Len(content) + 1}
        BY <1>9, <3>2 DEF FailOptions
      <4> QED BY <1>2, <2>1, <4>2, <4>3
    <3> QED BY <3>1, <3>2
  <2> QED BY <1>2, <1>9, <2>2, <2>3 DEF FailOptions, Goto, TypeOK, Places
<1>10. CASE EmplaceBack(t)
  <2>1. stack' \in Seq(Nat \cup {Null}) /\ mine' \in [Callers -> Nat \cup {Null}]
    BY <1>1, <1>2, <1>10, PushFacts DEF EmplaceBack
  <2> QED BY <1>2, <1>10, <2>1 DEF EmplaceBack, Goto, TypeOK, Places
<1> QED BY <1>3, <1>4, <1>5, <1>6, <1>7, <1>8, <1>9, <1>10 DEF Step

(* The lock is free only while nobody is inside.                           *)
LEMMA ExclusiveKept ==
  ASSUME Control, NEW t \in Callers, Step(t)
  PROVE  Exclusive'
<1>1. at \in [Callers -> Places] /\ lock \in BOOLEAN
  BY DEF Control, TypeOK
<1>2. CASE Acquire(t, "idle", "popping") \/ Acquire(t, "filled", "pushing")
  <2>1. ~lock /\ lock' /\ \A u \in Callers : u # t => at'[u] = at[u]
    BY <1>1, <1>2 DEF Acquire, Goto
  <2>2. \A u \in Callers : u # t => at'[u] \notin Inside
    BY <2>1 DEF Control, Exclusive
  <2> QED BY <2>1, <2>2 DEF Exclusive
<1>3. CASE Clear(t, "popped", "got") \/ Clear(t, "pushed", "idle")
  <2>1. at[t] \in Inside /\ at'[t] \notin Inside /\ \A u \in Callers : u # t => at'[u] = at[u]
    BY <1>1, <1>3 DEF Clear, Goto, Inside
  <2>2. \A u \in Callers : at'[u] \notin Inside
    BY <2>1 DEF Control, Exclusive
  <2> QED BY <2>2 DEF Exclusive
<1>4. CASE FoundEmpty(t) \/ Release(t) \/ PopBack(t) \/ EmplaceBack(t)
  <2>1. at[t] \in Inside /\ at'[t] \in Inside /\ lock' = lock
    BY <1>1, <1>4 DEF FoundEmpty, Release, PopBack, EmplaceBack, Goto, Inside
  <2>2. \A u \in Callers : u # t => at'[u] = at[u]
    BY <1>1, <1>4 DEF FoundEmpty, Release, PopBack, EmplaceBack, Goto
  <2>3. \A u \in Callers : u # t => at[u] \notin Inside
    BY <2>1 DEF Control, Exclusive
  <2>4. \A u \in Callers : at'[u] \in Inside => u = t
    BY <2>2, <2>3
  <2> QED BY <2>1, <2>4 DEF Exclusive, Control
<1>5. CASE Fill(t) \/ FailOptions(t)
  <2>1. at'[t] \notin Inside /\ lock' = lock
    BY <1>1, <1>5 DEF Fill, FailOptions, Goto, Inside
  <2>2. \A u \in Callers : u # t => at'[u] = at[u]
    BY <1>1, <1>5 DEF Fill, FailOptions, Goto
  <2> QED BY <2>1, <2>2 DEF Exclusive, Control
<1> QED BY <1>2, <1>3, <1>4, <1>5 DEF Step

LEMMA InHandKept ==
  ASSUME Null \notin Nat \ {0}, Control, Known, NEW t \in Callers, Step(t)
  PROVE  InHand'
<1>1. TypeOK /\ at \in [Callers -> Places] /\ mine \in [Callers -> Nat \cup {Null}] /\ InHand
  BY DEF Control, TypeOK
<1>2. \A u \in Callers : u # t => at'[u] = at[u]
  BY <1>1 DEF Step, Acquire, Clear, FoundEmpty, Release, PopBack, Fill, FailOptions, EmplaceBack, Goto
<1>3. \A u \in Callers : u # t => mine'[u] = mine[u]
  <2>1. CASE Fill(t)
    BY <1>1, <2>1 DEF Fill
  <2>2. CASE ~Fill(t)
    BY <1>1, <2>2 DEF Step, Acquire, Clear, FoundEmpty, Release, PopBack, FailOptions, EmplaceBack
  <2> QED BY <2>1, <2>2
<1>4. /\ at'[t] \in {"released", "filled", "pushing"} => mine'[t] # Null
      /\ at'[t] \in {"idle", "popping", "pushed"} => mine'[t] = Null
  <2>1. CASE Acquire(t, "idle", "popping") \/ Acquire(t, "filled", "pushing")
    BY <1>1, <2>1 DEF Acquire, Goto, InHand
  <2>2. CASE Clear(t, "popped", "got") \/ Clear(t, "pushed", "idle")
    BY <1>1, <2>2 DEF Clear, Goto, InHand
  <2>3. CASE FoundEmpty(t) \/ PopBack(t)
    BY <1>1, <2>3 DEF FoundEmpty, PopBack, Goto
  <2>4. CASE Release(t)
    <3>1. at[t] = "popping" /\ at'[t] = "released" /\ mine'[t] = stack[Len(stack)]
      BY <1>1, <2>4, ReleaseFacts DEF Release, Goto
    <3>2. stack[Len(stack)] # Null
      <4>1. SUFFICES ASSUME stack[Len(stack)] = Null PROVE FALSE
        OBVIOUS
      <4>2. PICK u \in Callers : at[u] = "released"
        BY <1>1, <2>4, <4>1, ReleaseFacts DEF Control, Slotted
      <4>3. u = t
        BY <3>1, <4>2 DEF Control, Exclusive, Inside
      <4> QED BY <3>1, <4>2, <4>3
    <3> QED BY <3>1, <3>2
  <2>5. CASE Fill(t)
    <3>1. at'[t] = "filled"
      BY <1>1, <2>5 DEF Fill, Goto
    <3>2. mine'[t] # Null
      <4>1. CASE mine[t] = Null
        <5>1. mine'[t] = Len(content) + 1
          BY <1>1, <2>5, <4>1 DEF Fill
        <5>2. Len(content) + 1 \in Nat \ {0}
          BY <1>1, StackFacts
        <5> QED BY <5>1, <5>2
      <4>2. CASE mine[t] # Null
        BY <2>5, <4>2 DEF Fill
      <4> QED BY <4>1, <4>2
    <3> QED BY <3>1, <3>2
  <2>6. CASE FailOptions(t) \/ EmplaceBack(t)
    BY <1>1, <2>6 DEF FailOptions, EmplaceBack, Goto
  <2> QED BY <2>1, <2>2, <2>3, <2>4, <2>5, <2>6 DEF Step
<1> QED BY <1>1, <1>2, <1>3, <1>4 DEF InHand

LEMMA SlottedKept ==
  ASSUME Control, InHand', NEW t \in Callers, Step(t)
  PROVE  Slotted'
<1>1. TypeOK /\ at \in [Callers -> Places] /\ Exclusive /\ InHand /\ Slotted
  BY DEF Control, TypeOK
<1>2. \A u \in Callers : u # t => at'[u] = at[u]
  BY <1>1 DEF Step, Acquire, Clear, FoundEmpty, Release, PopBack, Fill, FailOptions, EmplaceBack, Goto
<1>3. ASSUME stack' = stack, at[t] # "released", at'[t] # "released" PROVE Slotted'
  BY <1>1, <1>2, <1>3 DEF Slotted
<1>4. CASE \/ Acquire(t, "idle", "popping") \/ Acquire(t, "filled", "pushing")
           \/ Clear(t, "popped", "got") \/ Clear(t, "pushed", "idle")
           \/ FoundEmpty(t) \/ Fill(t) \/ FailOptions(t)
  BY <1>1, <1>3, <1>4 DEF Acquire, Clear, FoundEmpty, Fill, FailOptions, Goto
<1>5. CASE Release(t)
  <2>1. at[t] = "popping" /\ at'[t] = "released"
    BY <1>1, <1>5 DEF Release, Goto
  <2>2. \A u \in Callers : at'[u] = "released" => u = t
    BY <1>1, <1>2, <2>1 DEF Exclusive, Inside
  <2>3. /\ Len(stack) \in 1..Len(stack) /\ Len(stack') = Len(stack)
        /\ \A i \in 1..Len(stack) : stack'[i] = IF i = Len(stack) THEN Null ELSE stack[i]
    BY <1>1, <1>5, ReleaseFacts
  <2>4. \A u \in Callers : at[u] # "released"
    BY <1>1, <2>1 DEF Exclusive, Inside
  <2>5. \A i \in 1..Len(stack) : stack[i] # Null
    BY <1>1, <2>4 DEF Slotted
  <2>6. Len(stack') > 0 /\ stack'[Len(stack')] = Null
    BY <2>3
  <2> QED BY <2>1, <2>3, <2>5, <2>6 DEF Slotted
<1>6. CASE PopBack(t)
  <2>1. at[t] = "released" /\ at'[t] = "popped"
    BY <1>1, <1>6 DEF PopBack, Goto
  <2>2. \A u \in Callers : at'[u] # "released"
    BY <1>1, <1>2, <2>1 DEF Exclusive, Inside
  <2>3. Len(stack) > 0
    BY <1>1, <2>1 DEF Slotted
  <2>4. \A i \in 1..Len(stack') : stack'[i] # Null
    <3> TAKE i \in 1..Len(stack')
    <3>1. i \in 1..Len(stack) /\ i < Len(stack) /\ stack'[i] = stack[i]
      BY <1>1, <1>6, <2>3, PopFacts
    <3>2. i # Len(stack)
      <4>1. Len(stack) \in Nat
        BY <1>1, StackFacts
      <4> QED BY <3>1, <4>1
    <3> QED BY <1>1, <3>1, <3>2 DEF Slotted
  <2> QED BY <2>2, <2>4 DEF Slotted
<1>7. CASE EmplaceBack(t)
  <2>1. at[t] = "pushing" /\ at'[t] = "pushed"
    BY <1>1, <1>7 DEF EmplaceBack, Goto
  <2>2. \A u \in Callers : at[u] # "released" /\ at'[u] # "released"
    BY <1>1, <1>2, <2>1 DEF Exclusive, Inside
  <2>3. \A i \in 1..Len(stack) : stack[i] # Null
    BY <1>1, <2>2 DEF Slotted
  <2>4. mine[t] # Null
    BY <1>1, <2>1 DEF InHand
  <2>5. \A i \in 1..Len(stack') : stack'[i] # Null
    BY <1>1, <1>7, <2>3, <2>4, PushFacts
  <2> QED BY <2>2, <2>5 DEF Slotted
<1> QED BY <1>4, <1>5, <1>6, <1>7 DEF Step

LEMMA ControlKept ==
  ASSUME Null \notin Nat \ {0}, Control, Known, NEW t \in Callers, Step(t)
  PROVE  Control'
BY TypeKept, ExclusiveKept, InHandKept, SlottedKept DEF Control

-----------------------------------------------------------------------------
(* Every step takes a cache from one place to one other, or makes it.      *)
Quiet == UNCHANGED <<stack, mine, content, lost>>

LEMMA QuietKeeps ==
  ASSUME Placed, NEW t \in Callers, Quiet, at'[t] # "filled",
         \A u \in Callers : u # t => at'[u] = at[u]
  PROVE  Placed'
<1>1. Known' /\ Apart' /\ \A c \in 1..Len(content') : Somewhere(c)'
  BY DEF Placed, Quiet, Known, Apart, Somewhere
<1>2. \A u \in Callers : at'[u] = "filled" => content'[mine'[u]] = u
  BY DEF Placed, Quiet
<1> QED BY <1>1, <1>2 DEF Placed

LEMMA PlacedKept ==
  ASSUME Null \notin Nat \ {0}, Control, Placed, NEW t \in Callers, Step(t)
  PROVE  Placed'
<1>1. TypeOK /\ at \in [Callers -> Places] /\ mine \in [Callers -> Nat \cup {Null}]
  BY DEF Control, TypeOK
<1>2. \A u \in Callers : u # t => at'[u] = at[u]
  BY <1>1 DEF Step, Acquire, Clear, FoundEmpty, Release, PopBack, Fill, FailOptions, EmplaceBack, Goto
<1>3. CASE \/ Acquire(t, "idle", "popping") \/ Acquire(t, "filled", "pushing")
           \/ Clear(t, "popped", "got") \/ Clear(t, "pushed", "idle") \/ FoundEmpty(t)
  <2>1. Quiet /\ at'[t] # "filled"
    BY <1>1, <1>3 DEF Acquire, Clear, FoundEmpty, Goto, Quiet
  <2> QED BY <1>2, <2>1, QuietKeeps
<1>4. CASE Release(t)
  <2> DEFINE n == Len(stack)
             c == stack[n]
  <2>1. /\ n \in 1..n /\ Len(stack') = n
        /\ \A i \in 1..n : stack'[i] = IF i = n THEN Null ELSE stack[i]
        /\ mine'[t] = c /\ \A u \in Callers : u # t => mine'[u] = mine[u]
    BY <1>1, <1>4, ReleaseFacts
  <2>2. content' = content /\ lost' = lost /\ at[t] = "popping" /\ at'[t] # "filled"
    BY <1>1, <1>4 DEF Release, Goto
  <2>3. mine[t] = Null
    BY <2>2 DEF Control, InHand
  <2> HIDE DEF n
  <2>4. Known'
    BY <2>1, <2>2 DEF Placed, Known, n
  <2>5. Apart'
    <3>1. \A i, j \in 1..n : stack[i] = stack[j] /\ stack[i] # Null => i = j
      BY DEF Placed, Apart, n
    <3>2. \A u \in Callers, i \in 1..n : mine[u] # Null => mine[u] # stack[i]
      BY DEF Placed, Apart, n
    <3>3. \A u, v \in Callers : mine'[u] = mine'[v] /\ mine'[u] # Null => u = v
      BY <2>1, <3>2 DEF Placed, Apart
    <3>4. \A i, j \in 1..n : stack'[i] = stack'[j] /\ stack'[i] # Null => i = j
      BY <2>1, <3>1
    <3>5. \A u \in Callers, i \in 1..n : mine'[u] # Null => mine'[u] # stack'[i]
      BY <2>1, <3>1, <3>2
    <3>6. \A u \in Callers : mine'[u] \notin lost \/ mine'[u] = Null
      BY <2>1 DEF Placed, Apart, n
    <3>7. \A i \in 1..n : stack'[i] \notin lost \/ stack'[i] = Null
      BY <2>1 DEF Placed, Apart, n
    <3> QED BY <2>1, <2>2, <3>3, <3>4, <3>5, <3>6, <3>7 DEF Apart
  <2>6. ASSUME NEW d \in 1..Len(content) PROVE Somewhere(d)'
    <3>1. Somewhere(d)
      BY DEF Placed
    <3>2. CASE d \in lost
      BY <2>2, <3>2 DEF Somewhere
    <3>3. CASE \E u \in Callers : mine[u] = d
      <4>1. PICK u \in Callers : mine[u] = d
        BY <3>3
      <4>2. CASE u = t
        <5>1. d = Null
          BY <2>3, <4>1, <4>2
        <5>2. Len(content) \in Nat
          BY <1>1, StackFacts
        <5> QED BY <5>1, <5>2
      <4>3. CASE u # t
        BY <2>1, <4>1, <4>3 DEF Somewhere
      <4> QED BY <4>2, <4>3
    <3>4. CASE \E i \in 1..n : stack[i] = d
      BY <2>1, <3>4 DEF Somewhere
    <3> QED BY <3>1, <3>2, <3>3, <3>4 DEF Somewhere, n
  <2>7. \A u \in Callers : at'[u] = "filled" => content'[mine'[u]] = u
    BY <1>2, <2>1, <2>2 DEF Placed
  <2> QED BY <2>2, <2>4, <2>5, <2>6, <2>7 DEF Placed
<1>5. CASE PopBack(t)
  <2>1. at[t] = "released" /\ at'[t] # "filled"
    BY <1>1, <1>5 DEF PopBack, Goto
  <2>2. Len(stack) > 0 /\ stack[Len(stack)] = Null
    BY <2>1 DEF Control, Slotted
  <2>3. /\ \A i \in 1..Len(stack') : i \in 1..Len(stack) /\ stack'[i] = stack[i]
        /\ \A i \in 1..Len(stack) : i \in 1..Len(stack') \/ i = Len(stack)
    BY <1>1, <1>5, <2>2, PopFacts
  <2>4. mine' = mine /\ content' = content /\ lost' = lost
    BY <1>5 DEF PopBack
  <2>5. Known' /\ Apart'
    BY <2>3, <2>4 DEF Placed, Known, Apart
  <2>6. ASSUME NEW d \in 1..Len(content) PROVE Somewhere(d)'
    <3>1. Somewhere(d)
      BY DEF Placed
    <3>2. CASE \E i \in 1..Len(stack) : stack[i] = d
      <4>1. PICK i \in 1..Len(stack) : stack[i] = d
        BY <3>2
      <4>2. d # Null
        <5>1. Len(content) \in Nat
          BY <1>1, StackFacts
        <5> QED BY <5>1
      <4>3. i \in 1..Len(stack')
        BY <2>2, <2>3, <4>1, <4>2
      <4> QED BY <2>3, <4>1, <4>3 DEF Somewhere
    <3>3. CASE d \in lost \/ \E u \in Callers : mine[u] = d
      BY <2>4, <3>3 DEF Somewhere
    <3> QED BY <3>1, <3>2, <3>3 DEF Somewhere
  <2>7. \A u \in Callers : at'[u] = "filled" => content'[mine'[u]] = u
    BY <1>2, <2>1, <2>4 DEF Placed
  <2> QED BY <2>4, <2>5, <2>6, <2>7 DEF Placed
<1>6. CASE EmplaceBack(t)
  <2> DEFINE n == Len(stack)
  <2>1. /\ Len(stack') = n + 1 /\ \A i \in 1..n : stack'[i] = stack[i]
        /\ stack'[n + 1] = mine[t] /\ \A i \in 1..Len(stack') : i \in 1..n \/ i = n + 1
    BY <1>1, <1>6, PushFacts
  <2>2. n \in Nat /\ \A i \in 1..n : i \in 1..Len(stack')
    BY <1>1, <2>1, StackFacts
  <2>3. n + 1 \in 1..Len(stack')
    BY <2>1, <2>2
  <2> HIDE DEF n
  <2>4. content' = content /\ lost' = lost /\ at'[t] # "filled"
    BY <1>1, <1>6 DEF EmplaceBack, Goto
  <2>5. mine'[t] = Null /\ \A u \in Callers : u # t => mine'[u] = mine[u]
    BY <1>1, <1>6 DEF EmplaceBack
  <2>6. Known'
    <3>1. \A u \in Callers : mine'[u] \in 1..Len(content) \cup {Null}
      BY <2>5 DEF Placed, Known
    <3>2. \A i \in 1..Len(stack') : stack'[i] \in 1..Len(content) \cup {Null}
      BY <2>1 DEF Placed, Known, n
    <3> QED BY <2>4, <3>1, <3>2 DEF Placed, Known
  <2>7. Apart'
    <3>1. \A i, j \in 1..n : stack[i] = stack[j] /\ stack[i] # Null => i = j
      BY DEF Placed, Apart, n
    <3>2. \A u \in Callers, i \in 1..n : mine[u] # Null => mine[u] # stack[i]
      BY DEF Placed, Apart, n
    <3>3. \A u, v \in Callers : mine'[u] = mine'[v] /\ mine'[u] # Null => u = v
      BY <2>5 DEF Placed, Apart
    <3>4. \A i, j \in 1..Len(stack') : stack'[i] = stack'[j] /\ stack'[i] # Null => i = j
      BY <2>1, <3>1, <3>2
    <3>5. \A u \in Callers, i \in 1..Len(stack') : mine'[u] # Null => mine'[u] # stack'[i]
      BY <2>1, <2>5, <3>2 DEF Placed, Apart
    <3>6. \A u \in Callers : mine'[u] \notin lost \/ mine'[u] = Null
      BY <2>5 DEF Placed, Apart
    <3>7. \A i \in 1..Len(stack') : stack'[i] \notin lost \/ stack'[i] = Null
      BY <2>1 DEF Placed, Apart, n
    <3> QED BY <2>4, <3>3, <3>4, <3>5, <3>6, <3>7 DEF Apart
  <2>8. ASSUME NEW d \in 1..Len(content) PROVE Somewhere(d)'
    <3>1. Somewhere(d)
      BY DEF Placed
    <3>2. CASE d \in lost
      BY <2>4, <3>2 DEF Somewhere
    <3>3. CASE \E u \in Callers : mine[u] = d
      <4>1. PICK u \in Callers : mine[u] = d
        BY <3>3
      <4>2. CASE u = t
        BY <2>1, <2>3, <4>1, <4>2 DEF Somewhere
      <4>3. CASE u # t
        BY <2>5, <4>1, <4>3 DEF Somewhere
      <4> QED BY <4>2, <4>3
    <3>4. CASE \E i \in 1..n : stack[i] = d
      BY <2>1, <2>2, <3>4 DEF Somewhere
    <3> QED BY <3>1, <3>2, <3>3, <3>4 DEF Somewhere, n
  <2>9. \A u \in Callers : at'[u] = "filled" => content'[mine'[u]] = u
    BY <1>2, <2>4, <2>5 DEF Placed
  <2> QED BY <2>4, <2>6, <2>7, <2>8, <2>9 DEF Placed
<1>7. CASE Fill(t) \/ FailOptions(t)
  <2> DEFINE n == Len(content)
  <2>1. n \in Nat
    BY <1>1, StackFacts
  <2>2. /\ stack' = stack /\ (Fill(t) => lost' = lost /\ at'[t] = "filled")
        /\ (FailOptions(t) => at'[t] = "idle")
    BY <1>1, <1>7 DEF Fill, FailOptions, Goto
  <2>3. n + 1 \in Nat \ {0} /\ n + 1 \notin 1..n /\ n + 1 # Null
    BY <2>1
  <2>4. /\ \A u \in Callers : mine[u] # n + 1
        /\ \A i \in 1..Len(stack) : stack[i] # n + 1
        /\ n + 1 \notin lost
    BY <2>3 DEF Placed, Known
  <2>5. CASE Fill(t) /\ Makes(t)
    <3>1. mine[t] = Null /\ mine' = [mine EXCEPT ![t] = n + 1]
      BY <2>5 DEF Fill, Makes
    <3>2. /\ Len(content') = n + 1 /\ content'[n + 1] = t
          /\ \A i \in 1..n : content'[i] = content[i]
      BY <1>1, <2>5, MakeFacts
    <3>3. mine'[t] = n + 1 /\ \A u \in Callers : u # t => mine'[u] = mine[u]
      BY <1>1, <3>1
    <3>4. n + 1 \in 1..Len(content') /\ \A i \in 1..n : i \in 1..Len(content')
      BY <2>1, <3>2
    <3>5. \A d \in 1..Len(content') : d \in 1..n \/ d = n + 1
      BY <2>1, <3>2
    <3> HIDE DEF n
    <3>6. Known'
      <4>1. \A u \in Callers : mine'[u] \in 1..Len(content') \cup {Null}
        BY <3>3, <3>4 DEF Placed, Known, n
      <4>2. \A i \in 1..Len(stack) : stack[i] \in 1..Len(content') \cup {Null}
        BY <3>4 DEF Placed, Known, n
      <4>3. lost \in SUBSET (1..Len(content'))
        BY <3>4 DEF Placed, Known, n
      <4> QED BY <2>2, <2>5, <4>1, <4>2, <4>3 DEF Known
    <3>7. Apart'
      <4>1. \A u, v \in Callers : mine'[u] = mine'[v] /\ mine'[u] # Null => u = v
        BY <2>4, <3>3 DEF Placed, Apart
      <4>2. \A u \in Callers, i \in 1..Len(stack) : mine'[u] # Null => mine'[u] # stack[i]
        BY <2>4, <3>3 DEF Placed, Apart
      <4>3. \A u \in Callers : mine'[u] \notin lost \/ mine'[u] = Null
        BY <2>4, <3>3 DEF Placed, Apart
      <4> QED BY <2>2, <2>5, <4>1, <4>2, <4>3 DEF Placed, Apart
    <3>8. ASSUME NEW d \in 1..Len(content') PROVE Somewhere(d)'
      <4>1. CASE d = n + 1
        BY <3>3, <4>1 DEF Somewhere
      <4>2. CASE d \in 1..n
        <5>1. Somewhere(d)
          BY <4>2 DEF Placed, n
        <5>2. d # Null
          BY <2>1, <4>2
        <5> QED BY <2>2, <2>5, <3>1, <3>3, <5>1, <5>2 DEF Somewhere
      <4> QED BY <3>5, <4>1, <4>2
    <3>9. ASSUME NEW u \in Callers, at'[u] = "filled" PROVE content'[mine'[u]] = u
      <4>1. CASE u = t
        BY <3>2, <3>3, <4>1
      <4>2. CASE u # t
        <5>1. at[u] = "filled" /\ content[mine[u]] = u /\ mine[u] # Null
          BY <1>2, <3>9, <4>2 DEF Placed, Control, InHand
        <5>2. mine[u] \in 1..n
          BY <5>1 DEF Placed, Known, n
        <5> QED BY <3>2, <3>3, <4>2, <5>1, <5>2
      <4> QED BY <4>1, <4>2
    <3> QED BY <3>6, <3>7, <3>8, <3>9 DEF Placed
  <2>6. CASE Fill(t) /\ ~Makes(t)
    <3>1. mine[t] \in 1..n \cup {Null}
      BY DEF Placed, Known
    <3>2. /\ mine[t] \in 1..n /\ mine' = mine /\ Len(content') = n
          /\ \A i \in 1..n : content'[i] = IF i = mine[t] THEN t ELSE content[i]
      BY <1>1, <2>6, <3>1, FillFacts
    <3>3. mine[t] # Null
      BY <2>1, <3>2
    <3>4. Known' /\ Apart' /\ \A d \in 1..Len(content') : Somewhere(d)'
      <4>1. stack' = stack /\ lost' = lost /\ mine' = mine /\ Len(content') = Len(content)
        BY <2>2, <2>6, <3>2
      <4>2. Known'
        BY <4>1 DEF Placed, Known
      <4>3. Apart'
        BY <4>1 DEF Placed, Apart
      <4>4. \A d \in 1..Len(content') : Somewhere(d)'
        BY <4>1 DEF Placed, Somewhere
      <4> QED BY <4>2, <4>3, <4>4
    <3>5. ASSUME NEW u \in Callers, at'[u] = "filled" PROVE content'[mine'[u]] = u
      <4>1. CASE u = t
        BY <3>2, <4>1
      <4>2. CASE u # t
        <5>1. at[u] = "filled" /\ content[mine[u]] = u /\ mine[u] # Null
          BY <1>2, <3>5, <4>2 DEF Placed, Control, InHand
        <5>2. mine[u] \in 1..n /\ mine[u] # mine[t]
          BY <4>2, <5>1, <3>3 DEF Placed, Known, Apart
        <5> QED BY <3>2, <5>1, <5>2
      <4> QED BY <4>1, <4>2
    <3> QED BY <3>4, <3>5 DEF Placed
  <2>7. CASE FailOptions(t) /\ mine[t] # Null
    <3>1. /\ lost' = lost \cup {mine[t]} /\ content' = content
          /\ mine'[t] = Null /\ \A u \in Callers : u # t => mine'[u] = mine[u]
      BY <1>1, <2>7 DEF FailOptions
    <3>2. Known'
      <4>1. mine[t] \in 1..n
        BY <2>7 DEF Placed, Known
      <4>2. lost' \in SUBSET (1..n)
        BY <3>1, <4>1 DEF Placed, Known
      <4>3. \A u \in Callers : mine'[u] \in 1..n \cup {Null}
        BY <3>1 DEF Placed, Known
      <4> QED BY <2>2, <3>1, <4>2, <4>3 DEF Placed, Known
    <3>3. Apart'
      <4>1. \A u, v \in Callers : mine'[u] = mine'[v] /\ mine'[u] # Null => u = v
        BY <3>1 DEF Placed, Apart
      <4>2. \A u \in Callers, i \in 1..Len(stack) : mine'[u] # Null => mine'[u] # stack[i]
        BY <3>1 DEF Placed, Apart
      <4>3. \A u \in Callers : mine'[u] \notin lost' \/ mine'[u] = Null
        BY <2>7, <3>1 DEF Placed, Apart
      <4>4. \A i \in 1..Len(stack) : stack[i] \notin lost' \/ stack[i] = Null
        BY <2>7, <3>1 DEF Placed, Apart
      <4>5. \A i, j \in 1..Len(stack) : stack[i] = stack[j] /\ stack[i] # Null => i = j
        BY DEF Placed, Apart
      <4> QED BY <2>2, <4>1, <4>2, <4>3, <4>4, <4>5 DEF Apart
    <3>4. ASSUME NEW d \in 1..n PROVE Somewhere(d)'
      <4>1. Somewhere(d)
        BY DEF Placed
      <4> QED BY <2>2, <3>1, <4>1 DEF Somewhere
    <3>5. \A u \in Callers : at'[u] = "filled" => content'[mine'[u]] = u
      BY <1>2, <2>2, <2>7, <3>1 DEF Placed
    <3> QED BY <3>1, <3>2, <3>3, <3>4, <3>5 DEF Placed
  <2>8. CASE FailOptions(t) /\ mine[t] = Null
    <3>1. Makes(t) /\ lost' = lost \cup {n + 1}
      BY <2>8 DEF FailOptions, Makes
    <3>2. mine' = mine
      BY <1>1, <2>8 DEF FailOptions
    <3>3. Len(content') = n + 1 /\ \A i \in 1..n : content'[i] = content[i]
      BY <1>1, <3>1, MakeFacts
    <3>4. n + 1 \in 1..Len(content') /\ \A i \in 1..n : i \in 1..Len(content')
      BY <2>1, <3>3
    <3>5. \A d \in 1..Len(content') : d \in 1..n \/ d = n + 1
      BY <2>1, <3>3
    <3> HIDE DEF n
    <3>6. Known'
      <4>1. \A u \in Callers : mine[u] \in 1..Len(content') \cup {Null}
        BY <3>4 DEF Placed, Known, n
      <4>2. \A i \in 1..Len(stack) : stack[i] \in 1..Len(content') \cup {Null}
        BY <3>4 DEF Placed, Known, n
      <4>3. lost' \in SUBSET (1..Len(content'))
        BY <3>1, <3>4 DEF Placed, Known, n
      <4> QED BY <2>2, <3>2, <4>1, <4>2, <4>3 DEF Known
    <3>7. Apart'
      BY <2>2, <2>4, <3>1, <3>2 DEF Placed, Apart
    <3>8. ASSUME NEW d \in 1..Len(content') PROVE Somewhere(d)'
      <4>1. CASE d = n + 1
        BY <3>1, <4>1 DEF Somewhere
      <4>2. CASE d \in 1..n
        <5>1. Somewhere(d)
          BY <4>2 DEF Placed, n
        <5> QED BY <2>2, <3>1, <3>2, <5>1 DEF Somewhere
      <4> QED BY <3>5, <4>1, <4>2
    <3>9. ASSUME NEW u \in Callers, at'[u] = "filled" PROVE content'[mine'[u]] = u
      <4>1. at[u] = "filled" /\ content[mine[u]] = u /\ mine[u] # Null
        BY <1>2, <2>2, <2>8, <3>9 DEF Placed, Control, InHand
      <4>2. mine[u] \in 1..n
        BY <4>1 DEF Placed, Known, n
      <4> QED BY <3>2, <3>3, <4>1, <4>2
    <3> QED BY <3>6, <3>7, <3>8, <3>9 DEF Placed
  <2> QED BY <1>7, <2>5, <2>6, <2>7, <2>8
<1> QED BY <1>3, <1>4, <1>5, <1>6, <1>7 DEF Step

-----------------------------------------------------------------------------
(* What is counted.                                                        *)
LEMMA CountFacts ==
  ASSUME IsFiniteSet(Callers), TypeOK, Known
  PROVE  /\ IsFiniteSet(Busy) /\ Cardinality(Busy) \in Nat
         /\ Cardinality(Busy) <= Cardinality(Callers) /\ Cardinality(Callers) \in Nat
         /\ IsFiniteSet(Having) /\ Cardinality(Having) \in Nat
         /\ IsFiniteSet(lost) /\ Cardinality(lost) \in Nat
         /\ Len(content) \in Nat /\ Len(stack) \in Nat /\ Kept \in Int
<1>1. Busy \in SUBSET Callers /\ Having \in SUBSET Callers
  BY DEF Busy, Having
<1>2. Len(content) \in Nat /\ Len(stack) \in Nat
  BY StackFacts
<1>3. IsFiniteSet(1..Len(content)) /\ lost \in SUBSET (1..Len(content))
  BY <1>2, FS_Interval DEF Known
<1>4. IsFiniteSet(Busy) /\ IsFiniteSet(Having) /\ IsFiniteSet(lost)
  BY <1>1, <1>3, FS_Subset
<1> QED BY <1>1, <1>2, <1>4, FS_Subset, FS_CardinalityType DEF Kept

LEMMA CountedKept ==
  ASSUME IsFiniteSet(Callers), Null \notin Nat \ {0}, Control, Control', Placed, Placed', Counted,
         NEW t \in Callers, Step(t)
  PROVE  Counted'
<1>1. TypeOK /\ at \in [Callers -> Places] /\ mine \in [Callers -> Nat \cup {Null}]
  BY DEF Control, TypeOK
<1>2. \A u \in Callers : u # t => at'[u] = at[u]
  BY <1>1 DEF Step, Acquire, Clear, FoundEmpty, Release, PopBack, Fill, FailOptions, EmplaceBack, Goto
<1>3. \A u \in Callers : u # t => mine'[u] = mine[u]
  <2>1. CASE Fill(t)
    BY <1>1, <2>1 DEF Fill
  <2>2. CASE ~Fill(t)
    BY <1>1, <2>2 DEF Step, Acquire, Clear, FoundEmpty, Release, PopBack, FailOptions, EmplaceBack
  <2> QED BY <2>1, <2>2
<1>4. /\ IsFiniteSet(Busy) /\ Cardinality(Busy) \in Nat
      /\ Cardinality(Callers) \in Nat
      /\ IsFiniteSet(Having) /\ Cardinality(Having) \in Nat
      /\ IsFiniteSet(lost) /\ Cardinality(lost) \in Nat
      /\ Len(content) \in Nat /\ Len(stack) \in Nat /\ Kept \in Int
  BY <1>1, CountFacts DEF Placed
<1>5. /\ Kept + Cardinality(Busy) <= Cardinality(Callers)
      /\ Len(content) <= Kept + Cardinality(Having) + Cardinality(lost)
  BY DEF Counted
<1> DEFINE busy == {"released", "popped", "got", "filled", "pushing"}
<1>6. /\ (at'[t] \in busy /\ at[t] \in busy) \/ (at'[t] \notin busy /\ at[t] \notin busy) => Busy' = Busy
      /\ at'[t] \in busy /\ at[t] \notin busy => Busy' = Busy \cup {t} /\ t \notin Busy
      /\ at'[t] \notin busy /\ at[t] \in busy => Busy' = Busy \ {t} /\ t \in Busy
  BY <1>2 DEF Busy
<1>7. /\ (mine'[t] # Null /\ mine[t] # Null) \/ (mine'[t] = Null /\ mine[t] = Null) => Having' = Having
      /\ mine'[t] # Null /\ mine[t] = Null => Having' = Having \cup {t} /\ t \notin Having
      /\ mine'[t] = Null /\ mine[t] # Null => Having' = Having \ {t} /\ t \in Having
  BY <1>3 DEF Having
<1> DEFINE released == \E u \in Callers : at[u] = "released"
           released_now == \E u \in Callers : at'[u] = "released"
<1>8. /\ Kept = Len(stack) - (IF released THEN 1 ELSE 0)
      /\ Kept' = Len(stack') - (IF released_now THEN 1 ELSE 0)
  BY DEF Kept
<1>9. ASSUME at[t] # "released", at'[t] # "released" PROVE released <=> released_now
  BY <1>2, <1>9
<1>10. ASSUME at[t] \in Inside, at[t] # "released" PROVE ~released
  BY <1>10 DEF Control, Exclusive, Inside
<1>11. ASSUME at'[t] \in Inside, at'[t] # "released" PROVE ~released_now
  BY <1>11 DEF Control, Exclusive, Inside
<1>12. CASE Acquire(t, "idle", "popping") \/ Acquire(t, "filled", "pushing")
  <2>1. /\ stack' = stack /\ mine' = mine /\ content' = content /\ lost' = lost
        /\ \/ at[t] = "idle" /\ at'[t] = "popping"
           \/ at[t] = "filled" /\ at'[t] = "pushing"
    BY <1>1, <1>12 DEF Acquire, Goto
  <2>2. Busy' = Busy /\ Having' = Having
    BY <1>6, <1>7, <2>1
  <2>3. Kept' = Kept
    BY <1>8, <1>9, <2>1
  <2> QED BY <2>1, <2>2, <2>3 DEF Counted
<1>13. CASE Clear(t, "popped", "got") \/ Clear(t, "pushed", "idle")
  <2>1. /\ stack' = stack /\ mine' = mine /\ content' = content /\ lost' = lost
        /\ \/ at[t] = "popped" /\ at'[t] = "got"
           \/ at[t] = "pushed" /\ at'[t] = "idle"
    BY <1>1, <1>13 DEF Clear, Goto
  <2>2. Busy' = Busy /\ Having' = Having
    BY <1>6, <1>7, <2>1
  <2>3. Kept' = Kept
    BY <1>8, <1>9, <2>1
  <2> QED BY <2>1, <2>2, <2>3 DEF Counted
<1>14. CASE FoundEmpty(t)
  <2>1. /\ stack' = stack /\ mine' = mine /\ content' = content /\ lost' = lost
        /\ at[t] = "popping" /\ at'[t] = "popped" /\ stack = <<>>
    BY <1>1, <1>14 DEF FoundEmpty, Goto
  <2>2. Having' = Having
    BY <1>7, <2>1
  <2>3. Kept' = Kept /\ Kept' = 0
    <3>1. ~released_now
      BY <1>11, <2>1 DEF Inside
    <3>2. Len(stack) = 0
      BY <1>1, <2>1, StackFacts
    <3>3. released <=> released_now
      BY <1>9, <2>1
    <3> QED BY <1>8, <2>1, <3>1, <3>2, <3>3
  <2>4. Cardinality(Busy') \in Nat /\ Cardinality(Busy') <= Cardinality(Callers)
    <3>1. Busy' \in SUBSET Callers
      BY DEF Busy
    <3> QED BY <3>1, FS_Subset, FS_CardinalityType
  <2>5. Kept' + Cardinality(Busy') <= Cardinality(Callers)
    BY <1>4, <2>3, <2>4
  <2>6. Len(content') <= Kept' + Cardinality(Having') + Cardinality(lost')
    BY <1>5, <2>1, <2>2, <2>3
  <2> QED BY <2>5, <2>6 DEF Counted
<1>15. CASE Release(t)
  <2>1. content' = content /\ lost' = lost /\ at[t] = "popping" /\ at'[t] = "released"
    BY <1>1, <1>15 DEF Release, Goto
  <2>2. Len(stack') = Len(stack)
    BY <1>1, <1>15, ReleaseFacts
  <2>3. mine[t] = Null /\ mine'[t] # Null
    BY <2>1 DEF Control, InHand
  <2>4. Cardinality(Busy') = Cardinality(Busy) + 1 /\ Cardinality(Having') = Cardinality(Having) + 1
    <3>1. Busy' = Busy \cup {t} /\ t \notin Busy
      BY <1>6, <2>1
    <3>2. Having' = Having \cup {t} /\ t \notin Having
      BY <1>7, <2>3
    <3> QED BY <1>4, <3>1, <3>2, FS_AddElement
  <2>5. Kept' = Kept - 1
    <3>1. ~released
      BY <1>10, <2>1 DEF Inside
    <3>2. released_now
      BY <2>1
    <3> QED BY <1>4, <1>8, <2>2, <3>1, <3>2
  <2>6. /\ Kept' + Cardinality(Busy') <= Cardinality(Callers)
        /\ Len(content) <= Kept' + Cardinality(Having') + Cardinality(lost)
    BY <1>4, <1>5, <2>4, <2>5
  <2> QED BY <2>1, <2>6 DEF Counted
<1>16. CASE PopBack(t)
  <2>1. /\ mine' = mine /\ content' = content /\ lost' = lost
        /\ at[t] = "released" /\ at'[t] = "popped"
    BY <1>1, <1>16 DEF PopBack, Goto
  <2>2. Len(stack) > 0
    BY <2>1 DEF Control, Slotted
  <2>3. Len(stack') = Len(stack) - 1
    BY <1>1, <1>16, <2>2, PopFacts
  <2>4. Busy' = Busy /\ Having' = Having
    BY <1>6, <1>7, <2>1
  <2>5. Kept' = Kept
    <3>1. released
      BY <2>1
    <3>2. ~released_now
      BY <1>11, <2>1 DEF Inside
    <3> QED BY <1>4, <1>8, <2>3, <3>1, <3>2
  <2> QED BY <2>1, <2>4, <2>5 DEF Counted
<1>17. CASE EmplaceBack(t)
  <2>1. /\ content' = content /\ lost' = lost /\ at[t] = "pushing" /\ at'[t] = "pushed"
        /\ mine'[t] = Null
    BY <1>1, <1>17 DEF EmplaceBack, Goto
  <2>2. Len(stack') = Len(stack) + 1
    BY <1>1, <1>17, PushFacts
  <2>3. mine[t] # Null
    BY <2>1 DEF Control, InHand
  <2>4. Cardinality(Busy') = Cardinality(Busy) - 1 /\ Cardinality(Having') = Cardinality(Having) - 1
    BY <1>4, <1>6, <1>7, <2>1, <2>3, FS_RemoveElement
  <2>5. Kept' = Kept + 1
    <3>1. ~released
      BY <1>10, <2>1 DEF Inside
    <3>2. released <=> released_now
      BY <1>9, <2>1
    <3> QED BY <1>4, <1>8, <2>2, <3>1, <3>2
  <2>6. /\ Kept' + Cardinality(Busy') <= Cardinality(Callers)
        /\ Len(content) <= Kept' + Cardinality(Having') + Cardinality(lost)
    BY <1>4, <1>5, <2>4, <2>5
  <2> QED BY <2>1, <2>6 DEF Counted
<1>18. CASE Fill(t)
  <2>1. stack' = stack /\ lost' = lost /\ at[t] = "got" /\ at'[t] = "filled"
    BY <1>1, <1>18 DEF Fill, Goto
  <2>2. Busy' = Busy
    BY <1>6, <2>1
  <2>3. Kept' = Kept
    BY <1>8, <1>9, <2>1
  <2>4. mine'[t] # Null
    BY <2>1 DEF Control, InHand
  <2>5. CASE mine[t] = Null
    <3>1. Len(content') = Len(content) + 1
      BY <1>1, <1>18, <2>5, MakeFacts DEF Fill, Makes
    <3>2. Cardinality(Having') = Cardinality(Having) + 1
      BY <1>4, <1>7, <2>4, <2>5, FS_AddElement
    <3>3. Len(content') <= Kept' + Cardinality(Having') + Cardinality(lost)
      BY <1>4, <1>5, <2>3, <3>1, <3>2
    <3> QED BY <1>5, <2>1, <2>2, <2>3, <3>3 DEF Counted
  <2>6. CASE mine[t] # Null
    <3>1. Len(content') = Len(content)
      <4>1. mine[t] \in 1..Len(content) /\ content \in Seq(Callers)
        BY <1>1, <2>6 DEF Placed, Known, TypeOK
      <4>2. content' = [content EXCEPT ![mine[t]] = t]
        BY <1>18, <2>6 DEF Fill
      <4> QED BY <4>1, <4>2, ExceptSeq
    <3>2. Having' = Having
      BY <1>7, <2>4, <2>6
    <3> QED BY <1>5, <2>1, <2>2, <2>3, <3>1, <3>2 DEF Counted
  <2> QED BY <2>5, <2>6
<1>19. CASE FailOptions(t)
  <2>1. stack' = stack /\ at[t] = "got" /\ at'[t] = "idle" /\ mine'[t] = Null
    BY <1>1, <1>19 DEF FailOptions, Goto
  <2>2. Cardinality(Busy') = Cardinality(Busy) - 1
    BY <1>4, <1>6, <2>1, FS_RemoveElement
  <2>3. Kept' = Kept
    BY <1>8, <1>9, <2>1
  <2>4. Kept' + Cardinality(Busy') <= Cardinality(Callers)
    BY <1>4, <1>5, <2>2, <2>3
  <2>5. CASE mine[t] = Null
    <3>1. Makes(t) /\ lost' = lost \cup {Len(content) + 1}
      BY <1>19, <2>5 DEF FailOptions, Makes
    <3>2. Len(content') = Len(content) + 1
      BY <1>1, <3>1, MakeFacts
    <3>3. Len(content) + 1 \notin lost
      <4>1. Len(content) + 1 \notin 1..Len(content)
        BY <1>4
      <4> QED BY <4>1 DEF Placed, Known
    <3>4. Cardinality(lost') = Cardinality(lost) + 1
      BY <1>4, <3>1, <3>3, FS_AddElement
    <3>5. Having' = Having
      BY <1>7, <2>1, <2>5
    <3>6. Len(content') <= Kept' + Cardinality(Having') + Cardinality(lost')
      BY <1>4, <1>5, <2>3, <3>2, <3>4, <3>5
    <3> QED BY <2>4, <3>6 DEF Counted
  <2>6. CASE mine[t] # Null
    <3>1. content' = content /\ lost' = lost \cup {mine[t]}
      BY <1>19, <2>6 DEF FailOptions
    <3>2. mine[t] \notin lost
      BY <2>6 DEF Placed, Apart
    <3>3. Cardinality(lost') = Cardinality(lost) + 1
      BY <1>4, <3>1, <3>2, FS_AddElement
    <3>4. Cardinality(Having') = Cardinality(Having) - 1
      BY <1>4, <1>7, <2>1, <2>6, FS_RemoveElement
    <3>5. Len(content') <= Kept' + Cardinality(Having') + Cardinality(lost')
      BY <1>4, <1>5, <2>3, <3>1, <3>3, <3>4
    <3> QED BY <2>4, <3>5 DEF Counted
  <2> QED BY <2>5, <2>6
<1> QED BY <1>12, <1>13, <1>14, <1>15, <1>16, <1>17, <1>18, <1>19 DEF Step

-----------------------------------------------------------------------------
(* The theorems.                                                           *)

LEMMA OneOwnerFollows ==
  ASSUME IsFiniteSet(Callers), Null \notin Nat \ {0}, CachesInv
  PROVE  OneOwner
<1>1. TypeOK /\ Known /\ Apart /\ Exclusive /\ Slotted
  BY DEF CachesInv, Control, Placed
<1>2. DOMAIN stack = 1..Len(stack) /\ DOMAIN content = 1..Len(content) /\ Len(content) \in Nat
  BY <1>1, StackFacts
<1>3. ASSUME NEW c \in Caches
      PROVE  Cardinality(Holders(c)) + Cardinality(Slots(c)) + (IF c \in lost THEN 1 ELSE 0) = 1
  <2>1. c # Null /\ c \in 1..Len(content)
    BY <1>2 DEF Caches
  <2>2. Somewhere(c)
    BY <2>1 DEF CachesInv, Placed
  <2>3. CASE c \in lost
    <3>1. Holders(c) = {} /\ Slots(c) = {}
      BY <1>1, <1>2, <2>1, <2>3 DEF Apart, Holders, Slots
    <3> QED BY <2>3, <3>1, FS_EmptySet
  <2>4. CASE \E t \in Callers : mine[t] = c
    <3>1. PICK t \in Callers : mine[t] = c
      BY <2>4
    <3>2. Holders(c) = {t} /\ Slots(c) = {} /\ c \notin lost
      BY <1>1, <1>2, <2>1, <3>1 DEF Apart, Holders, Slots
    <3>3. Cardinality(Holders(c)) = 1 /\ Cardinality(Slots(c)) = 0
      BY <3>2, FS_EmptySet, FS_Singleton
    <3> QED BY <3>2, <3>3
  <2>5. CASE \E i \in 1..Len(stack) : stack[i] = c
    <3>1. PICK i \in 1..Len(stack) : stack[i] = c
      BY <2>5
    <3>2. Holders(c) = {} /\ Slots(c) = {i} /\ c \notin lost
      BY <1>1, <1>2, <2>1, <3>1 DEF Apart, Holders, Slots
    <3>3. Cardinality(Holders(c)) = 0 /\ Cardinality(Slots(c)) = 1
      BY <3>2, FS_EmptySet, FS_Singleton
    <3> QED BY <3>2, <3>3
  <2> QED BY <2>2, <2>3, <2>4, <2>5 DEF Somewhere
<1>4. \A t \in Callers : at[t] = "filled" => content[mine[t]] = t
  BY DEF CachesInv, Placed
<1>5. ~lock => Null \notin Range(stack)
  <2>1. Range(stack) = {stack[i] : i \in 1..Len(stack)}
    BY <1>2 DEF Range
  <2> QED BY <1>1, <2>1 DEF Exclusive, Slotted, Inside
<1> QED BY <1>3, <1>4, <1>5 DEF OneOwner

LEMMA CachesFewFollows ==
  ASSUME IsFiniteSet(Callers), Null \notin Nat \ {0}, CachesInv
  PROVE  CachesFew
<1>1. TypeOK /\ Known
  BY DEF CachesInv, Control, Placed
<1>2. Having \in SUBSET Busy
  BY <1>1 DEF CachesInv, Control, TypeOK, InHand, Having, Busy, Places
<1>3. /\ IsFiniteSet(Busy) /\ Cardinality(Busy) \in Nat /\ Cardinality(Callers) \in Nat
      /\ Cardinality(Having) \in Nat /\ Cardinality(lost) \in Nat
      /\ Len(content) \in Nat /\ Kept \in Int
  BY <1>1, CountFacts
<1>4. Cardinality(Having) <= Cardinality(Busy)
  BY <1>2, <1>3, FS_Subset
<1>5. /\ Kept + Cardinality(Busy) <= Cardinality(Callers)
      /\ Len(content) <= Kept + Cardinality(Having) + Cardinality(lost)
  BY DEF CachesInv, Counted
<1> QED BY <1>3, <1>4, <1>5 DEF CachesFew

LEMMA CachesStart ==
  ASSUME IsFiniteSet(Callers), Null \notin Nat \ {0}, Init
  PROVE  CachesInv
<1>1. /\ <<>> \in Seq(Nat \cup {Null}) /\ <<>> \in Seq(Callers) /\ Len(<<>>) = 0 /\ 1..0 = {}
  BY EmptySeq
<1>2. Control
  BY <1>1 DEF Init, Control, TypeOK, Exclusive, InHand, Slotted, Places, Inside
<1>3. Placed
  BY <1>1 DEF Init, Placed, Known, Apart, Somewhere
<1>4. Kept = 0
  BY <1>1 DEF Init, Kept
<1>5. Busy = {} /\ Having = {} /\ lost = {}
  BY DEF Init, Busy, Having
<1>6. Cardinality(Callers) \in Nat /\ Cardinality({}) = 0
  BY FS_CardinalityType, FS_EmptySet
<1>7. Len(content) = 0
  BY <1>1 DEF Init
<1>8. Counted
  BY <1>4, <1>5, <1>6, <1>7 DEF Counted
<1> QED BY <1>2, <1>3, <1>8 DEF CachesInv

LEMMA CachesKept ==
  ASSUME IsFiniteSet(Callers), Null \notin Nat \ {0}, CachesInv, [Next]_vars
  PROVE  CachesInv'
<1>1. CASE Next
  <2>1. PICK t \in Callers : Step(t)
    BY <1>1, NextIsStep
  <2>2. Control'
    BY <2>1, ControlKept DEF CachesInv, Placed
  <2>3. Placed'
    BY <2>1, PlacedKept DEF CachesInv
  <2>4. Counted'
    BY <2>1, <2>2, <2>3, CountedKept DEF CachesInv
  <2> QED BY <2>2, <2>3, <2>4 DEF CachesInv
<1>2. CASE UNCHANGED vars
  BY <1>2 DEF vars, CachesInv, Control, TypeOK, Exclusive, InHand, Slotted, Placed, Known, Apart,
              Somewhere, Counted, Kept, Busy, Having
<1> QED BY <1>1, <1>2

(* tag and parse, with pop and push of threadsafe_stack in any order, keep *)
(* the invariant: no slot that was released is seen without the lock, no   *)
(* cache is in two places, and the stack never has more than was returned. *)
THEOREM CachesInvariance == Spec => []CachesInv
<1>1. Init => CachesInv
  BY CachesAssumption, CachesStart
<1>2. CachesInv /\ [Next]_vars => CachesInv'
  BY CachesAssumption, CachesKept
<1> QED BY <1>1, <1>2, PTL DEF Spec

(* A cache of a model is with one thread, in one slot or lost: two calls   *)
(* never get the same one, and a thread finds its own sentence in it.      *)
THEOREM OneOwnerHolds == Spec => []OneOwner
<1>1. CachesInv => OneOwner
  BY CachesAssumption, OneOwnerFollows
<1> QED BY <1>1, CachesInvariance, PTL

(* The model makes no more caches than there are threads, but for those    *)
(* that calls of parse with wrong options lose.                            *)
THEOREM CachesFewHolds == Spec => []CachesFew
<1>1. CachesInv => CachesFew
  BY CachesAssumption, CachesFewFollows
<1> QED BY <1>1, CachesInvariance, PTL

-----------------------------------------------------------------------------
(* Numbers.                                                                *)
LEMMA LeastNat ==
  ASSUME NEW T \in SUBSET Nat, T # {}
  PROVE  \E x \in T : \A y \in T : x <= y
<1>1. PICK x \in T : \A y \in T : ~ (<<y, x>> \in OpToRel(<, Nat))
  BY NatLessThanWellFounded, WFMin
<1>2. \A y \in T : ~ (y < x)
  BY <1>1 DEF OpToRel
<1> QED BY <1>2

-----------------------------------------------------------------------------
(* The service.                                                            *)
Sum(data, f, k) == IF k = 0 THEN 0 ELSE f[k - 1] + data[k]

LEMMA SumExists ==
  ASSUME NEW data, NEW m \in Nat
  PROVE  \E f : f = [k \in 0..m |-> Sum(data, f, k)]
<1> DEFINE bad == {k \in Nat : ~\E f : f = [j \in 0..k |-> Sum(data, f, j)]}
<1>1. bad = {}
  <2> SUFFICES ASSUME bad # {} PROVE FALSE
    OBVIOUS
  <2>1. PICK k \in bad : \A y \in bad : k <= y
    BY LeastNat
  <2>2. CASE k = 0
    <3> DEFINE f == [j \in 0..0 |-> 0]
    <3>1. \A j \in 0..0 : Sum(data, f, j) = 0
      BY DEF Sum
    <3>2. f = [j \in 0..0 |-> Sum(data, f, j)]
      BY <3>1
    <3> HIDE DEF f
    <3>3. \E h : h = [j \in 0..0 |-> Sum(data, h, j)]
      BY <3>2
    <3> QED BY <2>1, <2>2, <3>3
  <2>3. CASE k # 0
    <3>1. k - 1 \in Nat /\ k - 1 \notin bad
      BY <2>1, <2>3
    <3>2. PICK g : g = [j \in 0..(k - 1) |-> Sum(data, g, j)]
      BY <3>1
    <3> DEFINE f == [j \in 0..k |-> IF j < k THEN g[j] ELSE Sum(data, g, k)]
    <3>3. ASSUME NEW j \in 0..k PROVE f[j] = Sum(data, f, j)
      <4>1. j # 0 => f[j - 1] = g[j - 1]
        BY <2>1
      <4>2. Sum(data, f, j) = Sum(data, g, j)
        BY <4>1 DEF Sum
      <4>3. CASE j < k
        <5>1. j \in 0..(k - 1)
          BY <2>1, <4>3
        <5>2. g[j] = Sum(data, g, j)
          BY <3>2, <5>1
        <5> QED BY <4>2, <4>3, <5>2
      <4>4. CASE ~(j < k)
        <5>1. j = k
          BY <2>1, <4>4
        <5> QED BY <4>2, <5>1
      <4> QED BY <4>3, <4>4
    <3>4. f = [j \in 0..k |-> f[j]]
      OBVIOUS
    <3> HIDE DEF f
    <3>5. f = [j \in 0..k |-> Sum(data, f, j)]
      BY <3>3, <3>4
    <3>6. \E h : h = [j \in 0..k |-> Sum(data, h, j)]
      BY <3>5
    <3> QED BY <2>1, <3>6
  <2> QED BY <2>2, <2>3
<1> QED BY <1>1

(* The number of characters grows sentence by sentence.                    *)
LEMMA CharactersAdd ==
  ASSUME Len(request.data) \in Nat
  PROVE  /\ Processes!Characters[0] = 0
         /\ \A k \in 1..Len(request.data) :
              Processes!Characters[k] = Processes!Characters[k - 1] + request.data[k]
<1> DEFINE data == request.data
           C == CHOOSE f : f = [k \in 0..Len(data) |-> Sum(data, f, k)]
<1>1. \E f : f = [k \in 0..Len(data) |-> Sum(data, f, k)]
  BY SumExists
<1>2. C = [k \in 0..Len(data) |-> Sum(data, C, k)]
  BY <1>1
<1>3. Processes!Characters = C
  BY DEF Processes!Characters, Sum
<1> HIDE DEF C
<1>4. \A k \in 0..Len(data) : C[k] = Sum(data, C, k)
  BY <1>2
<1> QED BY <1>3, <1>4 DEF Sum

(* What was asked for is done where the service promises it.               *)
Promised ==
  \/ request.handler = "pipeline"
  \/ /\ request.handler = "process" /\ request.checked
     /\ request.parser # "bad"

Sentences == [number : Nat, tagged : BOOLEAN, parsed : BOOLEAN]

Wrote ==
  /\ Len(output) = source.at - 1
  /\ \A k \in 1..Len(output) : output[k].number = k /\ (Promised => Processes!AsAsked(output[k]))

Announced(n) == request.handler = "process" => infclen = Processes!Characters[n]
Readable == \A k \in 1..Len(request.data) : request.data[k] > 0
AtEnd == ended /\ source.at = Len(request.data) + 1

(* The inductive invariant, phase by phase.                                *)
Handling == request.handler # "pipeline" /\ output = <<>> /\ ~ended /\ source.at = 1 /\ infclen = 0
Trying ==
  /\ request.handler \notin {"pipeline", "weblicht tokenize"}
  /\ Processes!Accepted /\ output = <<>> /\ ~ended
  /\ \A k \in 1..source.at - 1 : request.data[k] > 0
  /\ Announced(source.at - 1)
Generating ==
  /\ request.handler # "pipeline" /\ Processes!Accepted
  /\ Readable /\ Announced(Len(request.data)) /\ Wrote
Running == request.handler = "pipeline" /\ Wrote

ServedType ==
  /\ request \in Requests
  /\ source \in [at : 1..Len(request.data) + 1, text : {"none", "block", "local", "copy", "body"}]
  /\ infclen \in Nat
  /\ output \in Seq(Sentences)
  /\ serving \in {"handle", "trial", "generate", "process", "sent", "done", "error"}

Served ==
  /\ ServedType
  /\ serving = "handle" => Handling
  /\ serving = "trial" => Trying
  /\ serving = "generate" => Generating /\ ~ended /\ source.text # "local"
  /\ serving = "sent" => Generating /\ AtEnd
  /\ serving = "process" => Running /\ ~ended
  /\ serving = "done" => Running /\ AtEnd
  /\ serving = "error" => ~ended /\ (request.handler # "pipeline" => output = <<>>)

LEMMA RequestFacts ==
  ASSUME request \in Requests
  PROVE  /\ request.data \in Seq(Nat) /\ Len(request.data) \in Nat
         /\ DOMAIN request.data = 1..Len(request.data)
         /\ \A k \in 1..Len(request.data) : request.data[k] \in Nat
         /\ request.handler = "weblicht tokenize" => Readable
         /\ request.parser \in {"none", "good", "bad"}
<1>1. /\ request.data \in Seq(Nat)
      /\ request.handler = "weblicht tokenize" => \A k \in DOMAIN request.data : request.data[k] > 0
      /\ {request.tagger, request.parser} \subseteq {"none", "good", "bad"}
  BY RequestsAssumption
<1>2. Len(request.data) \in Nat /\ DOMAIN request.data = 1..Len(request.data)
  BY <1>1, LenProperties
<1> QED BY <1>1, <1>2, ElementOfSeq DEF Readable

LEMMA ServedStart ==
  ASSUME Processes!Init
  PROVE  Served
<1>1. request \in Requests
  BY DEF Processes!Init
<1>2. Len(request.data) \in Nat
  BY <1>1, RequestFacts
<1>3. <<>> \in Seq(Sentences) /\ Len(<<>>) = 0
  BY EmptySeq
<1>4. /\ source = [at |-> 1, text |-> IF request.handler = "pipeline" THEN "block" ELSE "none"]
      /\ infclen = 0 /\ output = <<>> /\ ~ended
      /\ serving = IF request.handler = "pipeline" THEN "process" ELSE "handle"
  BY DEF Processes!Init
<1>5. ServedType
  BY <1>1, <1>2, <1>3, <1>4 DEF ServedType
<1>6. Wrote
  BY <1>3, <1>4 DEF Wrote
<1> QED BY <1>4, <1>5, <1>6 DEF Served, Handling, Running

(* A sentence was written, and the reader went on.                         *)
LEMMA WroteOne ==
  ASSUME ServedType, Wrote, source.at <= Len(request.data),
         NEW e \in Sentences, e.number = source.at, Promised => Processes!AsAsked(e),
         output' = Append(output, e), source' = [source EXCEPT !.at = @ + 1],
         UNCHANGED <<request, infclen>>
  PROVE  /\ Wrote' /\ source'.text = source.text
         /\ source' \in [at : 1..Len(request.data) + 1, text : {"none", "block", "local", "copy", "body"}]
         /\ output' \in Seq(Sentences)
<1>1. PICK n \in Nat : n = Len(request.data)
  BY RequestFacts DEF ServedType
<1>2. PICK a \in 1..n + 1 : a = source.at /\ a <= n
  BY <1>1 DEF ServedType
<1>3. source'.at = a + 1 /\ source'.text = source.text
  BY <1>2 DEF ServedType
<1>4. source' \in [at : 1..Len(request.data) + 1, text : {"none", "block", "local", "copy", "body"}]
  <2>1. a + 1 \in 1..n + 1
    BY <1>2
  <2> QED BY <1>1, <1>2, <2>1 DEF ServedType
<1>5. PICK l \in Nat : l = Len(output)
  BY LenProperties DEF ServedType
<1>6. /\ output' \in Seq(Sentences) /\ Len(output') = l + 1 /\ output'[l + 1] = e
      /\ \A k \in 1..l : output'[k] = output[k]
  BY <1>5, AppendProperties DEF ServedType
<1>7. l = a - 1
  BY <1>2, <1>5 DEF Wrote
<1>8. Promised' <=> Promised
  BY DEF Promised
<1>9. ASSUME NEW k \in 1..l + 1
      PROVE  output'[k].number = k /\ (Promised' => Processes!AsAsked(output[k])')
  <2>1. CASE k \in 1..l
    <3>1. output'[k] = output[k]
      BY <1>6, <2>1
    <3>2. output[k].number = k /\ (Promised => Processes!AsAsked(output[k]))
      BY <1>5, <2>1 DEF Wrote
    <3> QED BY <1>8, <3>1, <3>2 DEF Processes!AsAsked
  <2>2. CASE k = l + 1
    <3>1. output'[k] = e
      BY <1>6, <2>2
    <3>2. e.number = k
      BY <1>2, <1>7, <2>2
    <3> QED BY <1>8, <3>1, <3>2 DEF Processes!AsAsked
  <2> QED BY <1>5, <2>1, <2>2
<1>10. Wrote'
  BY <1>3, <1>5, <1>6, <1>7, <1>9 DEF Wrote, Processes!AsAsked
<1> QED BY <1>3, <1>4, <1>6, <1>10

(* Every step of the handlers and of the pipeline keeps the invariant.     *)
LEMMA HandleKept ==
  ASSUME Served, Processes!Handle
  PROVE  Served'
<1>1. ServedType /\ Handling /\ Len(request.data) \in Nat
  BY RequestFacts DEF Served, ServedType, Processes!Handle
<1>2. UNCHANGED <<request, infclen, output, ended>>
  BY DEF Processes!Handle
<1>3. CASE ~Processes!Accepted
  <2>1. serving' = "error" /\ source' = source
    BY <1>3 DEF Processes!Handle
  <2> QED BY <1>1, <1>2, <2>1 DEF Served, ServedType, Handling
<1>4. CASE Processes!Accepted
  <2>1. /\ source' = [at |-> 1, text |-> Processes!Memory]
        /\ serving' = IF request.handler = "weblicht tokenize" THEN "generate" ELSE "trial"
    BY <1>4 DEF Processes!Handle, Processes!set_text
  <2>2. /\ Processes!Memory \in {"local", "body"}
        /\ request.handler = "weblicht tokenize" => Processes!Memory = "body"
    BY DEF Processes!Memory
  <2>3. ServedType'
    <3>1. PICK n \in Nat : n = Len(request.data)
      BY <1>1
    <3>2. 1 \in 1..n + 1
      BY <3>1
    <3>3. source' \in [at : 1..Len(request.data) + 1, text : {"none", "block", "local", "copy", "body"}]
      BY <2>1, <2>2, <3>1, <3>2
    <3> QED BY <1>1, <1>2, <2>1, <3>3 DEF ServedType
  <2>4. Processes!Accepted'
    BY <1>2, <1>4 DEF Processes!Accepted, Processes!get_input_format, Processes!get_tagger,
       Processes!get_parser, Processes!capabilities, Processes!new_tokenizer, Processes!Parts
  <2>5. source'.at = 1 /\ source'.text = Processes!Memory
    BY <2>1
  <2>6. CASE request.handler = "weblicht tokenize"
    <3>1. Readable'
      BY <1>1, <1>2, <2>6, RequestFacts DEF ServedType, Readable
    <3>2. Announced(Len(request.data))'
      BY <1>2, <2>6 DEF Announced
    <3>3. Wrote'
      <4>1. Len(output') = 0
        BY <1>1, <1>2, EmptySeq DEF Handling
      <4> QED BY <2>5, <4>1 DEF Wrote
    <3>4. Generating'
      BY <1>1, <1>2, <2>4, <3>1, <3>2, <3>3 DEF Generating, Handling
    <3> QED BY <1>1, <1>2, <2>1, <2>2, <2>3, <2>5, <2>6, <3>4 DEF Served, Handling
  <2>7. CASE request.handler # "weblicht tokenize"
    <3>1. Announced(source.at - 1)'
      <4>1. infclen' = 0 /\ Processes!Characters'[0] = 0
        BY <1>1, <1>2, CharactersAdd DEF Handling, Processes!Characters
      <4> QED BY <2>5, <4>1 DEF Announced
    <3>2. \A k \in 1..source'.at - 1 : request'.data[k] > 0
      BY <2>5
    <3>3. Trying'
      BY <1>1, <1>2, <2>4, <2>7, <3>1, <3>2 DEF Trying, Handling
    <3> QED BY <2>1, <2>3, <2>7, <3>3 DEF Served
  <2> QED BY <2>6, <2>7
<1> QED BY <1>3, <1>4

LEMMA AcceptedStays ==
  ASSUME request' = request
  PROVE  Processes!Accepted' <=> Processes!Accepted
BY DEF Processes!Accepted, Processes!get_input_format, Processes!get_tagger, Processes!get_parser,
       Processes!capabilities, Processes!new_tokenizer, Processes!Parts

LEMMA TrialKept ==
  ASSUME Served, Processes!TrySentence
  PROVE  Served'
<1>1. ServedType /\ Trying
  BY DEF Served, Processes!TrySentence
<1>2. UNCHANGED <<request, serving, output, ended>> /\ serving = "trial"
  BY DEF Processes!TrySentence
<1>3. PICK n \in Nat : n = Len(request.data)
  BY <1>1, RequestFacts DEF ServedType
<1>4. PICK a \in 1..n + 1 : a = source.at
  BY <1>1, <1>3 DEF ServedType
<1>5. a <= n /\ request.data[a] > 0 /\ request.data[a] \in Nat
  <2>1. a <= n /\ request.data[a] > 0
    BY <1>3, <1>4 DEF Processes!TrySentence, Processes!next_sentence
  <2>2. a \in 1..Len(request.data)
    BY <1>3, <1>4, <2>1
  <2> QED BY <1>1, <2>1, <2>2, RequestFacts DEF ServedType
<1>6. source' = [source EXCEPT !.at = a + 1] /\ source'.at = a + 1
  BY <1>1, <1>4 DEF ServedType, Processes!TrySentence
<1>7. infclen' = IF request.handler = "process" THEN infclen + request.data[a] ELSE 0
  BY <1>4 DEF Processes!TrySentence
<1>8. infclen' \in Nat
  BY <1>1, <1>5, <1>7 DEF ServedType
<1>9. ServedType'
  <2>1. a + 1 \in 1..n + 1
    BY <1>4, <1>5
  <2> QED BY <1>1, <1>2, <1>3, <1>6, <1>8, <2>1 DEF ServedType
<1>10. ASSUME NEW k \in 1..a PROVE request.data[k] > 0
  <2>1. CASE k = a
    BY <1>5, <2>1
  <2>2. CASE k # a
    <3>1. k \in 1..a - 1
      BY <1>4, <2>2
    <3> QED BY <1>1, <1>4, <3>1 DEF Trying
  <2> QED BY <2>1, <2>2
<1>11. Announced(source.at - 1)'
  <2>1. CASE request.handler = "process"
    <3>1. Processes!Characters[a] = Processes!Characters[a - 1] + request.data[a]
      BY <1>3, <1>4, <1>5, CharactersAdd
    <3>2. infclen = Processes!Characters[a - 1]
      BY <1>1, <1>4, <2>1 DEF Trying, Announced
    <3>3. infclen' = Processes!Characters[a]
      BY <1>7, <2>1, <3>1, <3>2
    <3>4. Processes!Characters' = Processes!Characters
      BY <1>2 DEF Processes!Characters
    <3>5. source'.at - 1 = a
      BY <1>4, <1>6
    <3> QED BY <3>3, <3>4, <3>5 DEF Announced
  <2>2. CASE request.handler # "process"
    BY <1>2, <2>2 DEF Announced
  <2> QED BY <2>1, <2>2
<1>12. \A k \in 1..source'.at - 1 : request'.data[k] > 0
  <2>1. source'.at - 1 = a
    BY <1>4, <1>6
  <2> QED BY <1>2, <1>10, <2>1
<1>13. Trying'
  BY <1>1, <1>2, <1>11, <1>12, AcceptedStays DEF Trying
<1> QED BY <1>2, <1>9, <1>13 DEF Served

LEMMA RespondKept ==
  ASSUME Served, Processes!Respond
  PROVE  Served'
<1>1. ServedType /\ Trying
  BY DEF Served, Processes!Respond
<1>2. UNCHANGED <<request, infclen, output, ended>> /\ serving = "trial" /\ ~Processes!next_sentence
  BY DEF Processes!Respond
<1>3. PICK n \in Nat : n = Len(request.data)
  BY <1>1, RequestFacts DEF ServedType
<1>4. PICK a \in 1..n + 1 : a = source.at
  BY <1>1, <1>3 DEF ServedType
<1>5. CASE Processes!ReadError
  <2>1. serving' = "error" /\ source' = source
    BY <1>5 DEF Processes!Respond
  <2> QED BY <1>1, <1>2, <2>1 DEF Served, ServedType, Trying
<1>6. CASE ~Processes!ReadError
  <2>1. a = n + 1
    BY <1>3, <1>4, <1>6 DEF Processes!ReadError
  <2>2. serving' = "generate" /\ source' = [at |-> 1, text |-> Processes!Kept]
    BY <1>6 DEF Processes!Respond, Processes!set_text
  <2>3. Processes!Kept \in {"copy", "body"}
    BY DEF Processes!Kept
  <2>4. source'.at = 1 /\ source'.text \in {"copy", "body"}
    BY <2>2, <2>3
  <2>5. ServedType'
    BY <1>1, <1>2, <1>3, <2>2, <2>3 DEF ServedType
  <2>6. Readable'
    <3>1. a - 1 = n
      BY <1>4, <2>1
    <3> QED BY <1>1, <1>2, <1>3, <1>4, <3>1 DEF Trying, Readable
  <2>7. Announced(Len(request.data))'
    <3>1. source.at - 1 = Len(request.data)
      BY <1>3, <1>4, <2>1
    <3>2. Processes!Characters' = Processes!Characters
      BY <1>2 DEF Processes!Characters
    <3> QED BY <1>1, <1>2, <3>1, <3>2 DEF Trying, Announced
  <2>8. Wrote'
    <3>1. Len(output') = 0
      BY <1>1, <1>2, EmptySeq DEF Trying
    <3> QED BY <2>4, <3>1 DEF Wrote
  <2>9. Generating'
    BY <1>1, <1>2, <2>6, <2>7, <2>8, AcceptedStays DEF Generating, Trying
  <2> QED BY <1>1, <1>2, <2>2, <2>4, <2>5, <2>9 DEF Served, Trying
<1> QED BY <1>5, <1>6

(* A part of the model that was checked for does what it is asked.         *)
LEMMA PromiseKept ==
  ASSUME request \in Requests, Processes!Accepted, request.handler # "pipeline", Promised
  PROVE  /\ request.tagger # "none" => Processes!tag
         /\ request.parser # "none" => Processes!parse
<1>1. /\ request.handler = "process" /\ request.checked
      /\ request.parser \in {"none", "good"}
  BY RequestFacts DEF Promised
<1>2. Processes!get_tagger /\ Processes!get_parser
  BY <1>1 DEF Processes!Accepted
<1> QED BY <1>1, <1>2 DEF Processes!get_tagger, Processes!get_parser, Processes!capabilities,
                          Processes!tag, Processes!parse

LEMMA ReaderStops ==
  ASSUME ServedType, ~Processes!next_sentence, Readable \/ ~Processes!ReadError
  PROVE  source.at = Len(request.data) + 1
<1>1. PICK n \in Nat : n = Len(request.data)
  BY RequestFacts DEF ServedType
<1>2. PICK a \in 1..n + 1 : a = source.at
  BY <1>1 DEF ServedType
<1>3. ~(a <= n)
  BY <1>1, <1>2 DEF Processes!next_sentence, Readable, Processes!ReadError
<1> QED BY <1>1, <1>2, <1>3

LEMMA GenerateKept ==
  ASSUME Served, Processes!Generate
  PROVE  Served'
<1>1. ServedType /\ Generating /\ ~ended /\ source.text # "local" /\ serving = "generate"
  BY DEF Served, Processes!Generate
<1>2. UNCHANGED <<request, infclen>>
  BY DEF Processes!Generate
<1>3. Processes!Characters' = Processes!Characters
  BY <1>2 DEF Processes!Characters
<1>4. CASE Processes!next_sentence
  <2> DEFINE e == Processes!Written(request.tagger # "none" /\ Processes!tag,
                                    request.parser # "none" /\ Processes!parse)
  <2>1. /\ output' = Append(output, e) /\ source' = [source EXCEPT !.at = @ + 1]
        /\ UNCHANGED <<serving, ended>>
    BY <1>4 DEF Processes!Generate
  <2>2. e.number = source.at /\ e \in Sentences
    <3>1. PICK n \in Nat : n = Len(request.data)
      BY <1>1, RequestFacts DEF ServedType
    <3>2. PICK a \in 1..n + 1 : a = source.at
      BY <1>1, <3>1 DEF ServedType
    <3>3. source.at \in Nat
      BY <3>1, <3>2
    <3> QED BY <3>3 DEF Processes!Written, Sentences
  <2>3. Promised => Processes!AsAsked(e)
    BY <1>1, PromiseKept DEF ServedType, Generating, Processes!AsAsked, Processes!Written
  <2>4. source.at <= Len(request.data)
    BY <1>4 DEF Processes!next_sentence
  <2> HIDE DEF e
  <2>5. /\ Wrote' /\ source'.text = source.text
        /\ source' \in [at : 1..Len(request.data) + 1, text : {"none", "block", "local", "copy", "body"}]
        /\ output' \in Seq(Sentences)
    BY <1>1, <1>2, <2>1, <2>2, <2>3, <2>4, WroteOne DEF Generating
  <2>6. ServedType'
    BY <1>1, <1>2, <2>1, <2>5 DEF ServedType
  <2>7. Generating'
    BY <1>1, <1>2, <1>3, <2>5, AcceptedStays DEF Generating, Readable, Announced
  <2> QED BY <1>1, <2>1, <2>5, <2>6, <2>7 DEF Served
<1>5. CASE ~Processes!next_sentence
  <2>1. serving' = "sent" /\ ended' = TRUE /\ UNCHANGED <<source, output>>
    BY <1>5 DEF Processes!Generate
  <2>2. source.at = Len(request.data) + 1
    BY <1>1, <1>5, ReaderStops DEF Generating
  <2>3. ServedType'
    BY <1>1, <1>2, <2>1 DEF ServedType
  <2>4. Generating'
    BY <1>1, <1>2, <1>3, <2>1, AcceptedStays
    DEF Generating, Readable, Announced, Wrote, Promised, Processes!AsAsked
  <2> QED BY <1>2, <2>1, <2>2, <2>3, <2>4 DEF Served, AtEnd
<1> QED BY <1>4, <1>5

LEMMA ProcessKept ==
  ASSUME Served, Processes!process
  PROVE  Served'
<1>1. ServedType /\ Running /\ ~ended /\ serving = "process"
  BY DEF Served, Processes!process
<1>2. UNCHANGED <<request, infclen>>
  BY DEF Processes!process
<1>3. CASE serving' = "error" /\ UNCHANGED <<source, output, ended>>
  BY <1>1, <1>2, <1>3 DEF Served, ServedType, Running
<1>4. CASE /\ Processes!next_sentence
           /\ output' = Append(output, Processes!Written(request.tagger # "none", request.parser # "none"))
           /\ source' = [source EXCEPT !.at = @ + 1]
           /\ UNCHANGED <<serving, ended>>
  <2> DEFINE e == Processes!Written(request.tagger # "none", request.parser # "none")
  <2>1. e.number = source.at /\ e \in Sentences
    <3>1. PICK n \in Nat : n = Len(request.data)
      BY <1>1, RequestFacts DEF ServedType
    <3>2. PICK a \in 1..n + 1 : a = source.at
      BY <1>1, <3>1 DEF ServedType
    <3>3. source.at \in Nat
      BY <3>1, <3>2
    <3> QED BY <3>3 DEF Processes!Written, Sentences
  <2>2. Processes!AsAsked(e)
    BY DEF Processes!AsAsked, Processes!Written
  <2>3. source.at <= Len(request.data)
    BY <1>4 DEF Processes!next_sentence
  <2>4. output' = Append(output, e)
    BY <1>4
  <2> HIDE DEF e
  <2>5. /\ Wrote' /\ source'.text = source.text
        /\ source' \in [at : 1..Len(request.data) + 1, text : {"none", "block", "local", "copy", "body"}]
        /\ output' \in Seq(Sentences)
    BY <1>1, <1>2, <1>4, <2>1, <2>2, <2>3, <2>4, WroteOne DEF Running
  <2>6. ServedType'
    BY <1>1, <1>2, <1>4, <2>5 DEF ServedType
  <2> QED BY <1>1, <1>2, <1>4, <2>5, <2>6 DEF Served, Running
<1>5. CASE /\ ~Processes!next_sentence /\ ~Processes!ReadError
           /\ ended' = TRUE /\ serving' = "done" /\ UNCHANGED <<source, output>>
  <2>1. source.at = Len(request.data) + 1
    BY <1>1, <1>5, ReaderStops
  <2>2. ServedType'
    BY <1>1, <1>2, <1>5 DEF ServedType
  <2>3. Running'
    BY <1>1, <1>2, <1>5 DEF Running, Wrote, Promised, Processes!AsAsked
  <2> QED BY <1>2, <1>5, <2>1, <2>2, <2>3 DEF Served, AtEnd
<1> QED BY <1>3, <1>4, <1>5 DEF Processes!process

LEMMA ServedKept ==
  ASSUME Served, [Processes!Next]_Processes!vars
  PROVE  Served'
<1>1. CASE UNCHANGED Processes!vars
  <2>1. UNCHANGED <<request, serving, source, infclen, output, ended>>
    BY <1>1 DEF Processes!vars
  <2>2. Processes!Characters' = Processes!Characters
    BY <2>1 DEF Processes!Characters
  <2> QED BY <2>1, <2>2, AcceptedStays
          DEF Served, ServedType, Handling, Trying, Generating, Running, Readable, Announced,
              Wrote, AtEnd, Promised, Processes!AsAsked
<1> QED BY <1>1, HandleKept, TrialKept, RespondKept, GenerateKept, ProcessKept DEF Processes!Next

LEMMA ServedRight ==
  ASSUME Served
  PROVE  Processes!ResponsesWhole /\ Processes!TextAlive
<1>1. /\ request.data \in Seq(Nat) /\ Len(request.data) \in Nat
      /\ DOMAIN request.data = 1..Len(request.data)
  BY RequestFacts DEF Served, ServedType
<1>2. ASSUME Wrote, AtEnd
      PROVE  Processes!Complete /\ (Promised => Processes!AllProcessed)
  <2>1. PICK n \in Nat : n = Len(request.data)
    BY <1>1
  <2>2. source.at - 1 = n
    BY <1>2, <2>1 DEF AtEnd
  <2>3. Len(output) = n
    BY <1>2, <2>2 DEF Wrote
  <2>4. ended /\ \A k \in 1..n : output[k].number = k /\ (Promised => Processes!AsAsked(output[k]))
    BY <1>2, <2>3 DEF Wrote, AtEnd
  <2> QED BY <1>1, <2>1, <2>3, <2>4 DEF Processes!Complete, Processes!AllProcessed
<1>3. serving = "sent" => Generating /\ Wrote /\ AtEnd /\ (Announced(Len(request.data)))
  BY DEF Served, Generating
<1>4. serving = "done" => Running /\ Wrote /\ AtEnd
  BY DEF Served, Running
<1>5. Processes!TextAlive
  BY DEF Served, Processes!TextAlive
<1>6. serving = "error" => ~ended /\ (request.handler # "pipeline" => output = <<>>)
  BY DEF Served
<1>7. serving = "sent" =>
        /\ Processes!Complete
        /\ request.handler = "process" => infclen = Processes!Characters[Len(request.data)]
        /\ (request.checked /\ request.parser # "bad"
              /\ request.handler = "process") => Processes!AllProcessed
  BY <1>2, <1>3 DEF Announced, Promised
<1>8. serving = "done" => Processes!Complete /\ Processes!AllProcessed
  BY <1>2, <1>4 DEF Running, Promised
<1> QED BY <1>5, <1>6, <1>7, <1>8 DEF Processes!ResponsesWhole

-----------------------------------------------------------------------------
(* The names of models.                                                    *)
(* A name of the first models means the first of them that has it.         *)
Mapped ==
  /\ DOMAIN models_map = UNION {Naming!NamesOf(m) : m \in 1..added}
  /\ \A n \in DOMAIN models_map :
       /\ models_map[n] \in 1..added /\ n \in Naming!NamesOf(models_map[n])
       /\ \A m \in 1..models_map[n] - 1 : n \notin Naming!NamesOf(m)
  /\ \A m \in 1..added : models_map[descriptions[m][1]] = m

Named ==
  /\ descriptions \in Descriptions
  /\ added \in 0..Len(descriptions)
  /\ status = "adding" => Mapped
  /\ Naming!NamesMean

LEMMA DescriptionFacts ==
  ASSUME descriptions \in Descriptions
  PROVE  /\ Len(descriptions) \in Nat /\ DOMAIN descriptions = 1..Len(descriptions)
         /\ \A m \in 1..Len(descriptions) :
              /\ 1 \in DOMAIN descriptions[m]
              /\ descriptions[m][1] \in Naming!ToSet(descriptions[m])
              /\ descriptions[m][1] \in Naming!NamesOf(m)
              /\ Naming!NamesOf(m) = Naming!ToSet(descriptions[m])
                   \cup UNION {Naming!HyphenPrefixes(id) : id \in Naming!ToSet(descriptions[m])}
<1>1. /\ Len(descriptions) \in Nat /\ DOMAIN descriptions = 1..Len(descriptions)
      /\ \A m \in DOMAIN descriptions : 1 \in DOMAIN descriptions[m]
  BY DescriptionsAssumption
<1>2. ASSUME NEW m \in 1..Len(descriptions)
      PROVE  /\ descriptions[m][1] \in Naming!ToSet(descriptions[m])
             /\ descriptions[m][1] \in Naming!NamesOf(m)
             /\ Naming!NamesOf(m) = Naming!ToSet(descriptions[m])
                   \cup UNION {Naming!HyphenPrefixes(id) : id \in Naming!ToSet(descriptions[m])}
  <2>1. descriptions[m][1] \in Naming!ToSet(descriptions[m])
    BY <1>1 DEF Naming!ToSet
  <2>2. Naming!NamesOf(m) = Naming!ToSet(descriptions[m])
          \cup UNION {Naming!HyphenPrefixes(id) : id \in Naming!ToSet(descriptions[m])}
    <3> DEFINE S == Naming!ToSet(descriptions[m])
    <3>1. Naming!NamesOf(m) = UNION {{id} \cup Naming!HyphenPrefixes(id) : id \in S}
      BY DEF Naming!NamesOf
    <3> HIDE DEF S
    <3>2. UNION {{id} \cup Naming!HyphenPrefixes(id) : id \in S}
            = S \cup UNION {Naming!HyphenPrefixes(id) : id \in S}
      OBVIOUS
    <3> QED BY <3>1, <3>2 DEF S
  <2> QED BY <2>1, <2>2
<1> QED BY <1>1, <1>2

LEMMA NamedStart ==
  ASSUME Naming!Init
  PROVE  Named
<1>1. descriptions \in Descriptions /\ added = 0 /\ status = "adding" /\ models_map = [n \in {} |-> 0]
  BY DEF Naming!Init
<1>2. Len(descriptions) \in Nat
  BY <1>1, DescriptionFacts
<1>3. Mapped
  <2>1. DOMAIN models_map = {} /\ 1..added = {}
    BY <1>1
  <2> QED BY <2>1 DEF Mapped
<1> QED BY <1>1, <1>2, <1>3 DEF Named, Naming!NamesMean

(* Adding a model, none of the names of an earlier one changes.            *)
LEMMA AddKept ==
  ASSUME Named, Naming!AddModel
  PROVE  Named'
<1>1. descriptions \in Descriptions /\ Mapped /\ status = "adding"
  BY DEF Named, Naming!AddModel
<1>2. PICK n \in Nat : n = Len(descriptions)
  BY <1>1, DescriptionFacts
<1>3. PICK a \in 0..n : a = added /\ a < n
  BY <1>2 DEF Named, Naming!AddModel
<1>4. added' = a + 1 /\ UNCHANGED <<descriptions, default_model>>
  BY <1>3 DEF Naming!AddModel
<1>5. \A m : Naming!NamesOf(m)' = Naming!NamesOf(m)
  BY <1>4 DEF Naming!NamesOf
<1>6. descriptions' \in Descriptions /\ added' \in 0..Len(descriptions')
  BY <1>1, <1>2, <1>3, <1>4
<1> DEFINE ids == descriptions[a + 1]
<1>7. CASE ids[1] \in DOMAIN models_map
  <2>1. status' = "failed"
    BY <1>3, <1>7 DEF Naming!AddModel, Naming!InUse, Naming!Names
  <2> QED BY <1>6, <2>1 DEF Named, Naming!NamesMean
<1>8. CASE ids[1] \notin DOMAIN models_map
  <2> DEFINE new == Naming!NamesOf(a + 1)
             old == DOMAIN models_map
  <2>0. a + 1 \in 1..n
    BY <1>3
  <2>1. /\ ids[1] \in new
        /\ new = Naming!ToSet(ids) \cup UNION {Naming!HyphenPrefixes(id) : id \in Naming!ToSet(ids)}
    BY <1>1, <1>2, <2>0, DescriptionFacts
  <2>2. status' = status /\ models_map' = [x \in old \cup new |-> IF x \in old THEN models_map[x] ELSE a + 1]
    BY <1>3, <1>8, <2>1 DEF Naming!AddModel, Naming!InUse, Naming!Names, Naming!Emplace
  <2>3. /\ DOMAIN models_map' = old \cup new
        /\ \A x \in old : models_map'[x] = models_map[x]
        /\ \A x \in new \ old : models_map'[x] = a + 1
    BY <2>2
  <2>4. /\ old = UNION {Naming!NamesOf(m) : m \in 1..a}
        /\ \A x \in old :
             /\ models_map[x] \in 1..a /\ x \in Naming!NamesOf(models_map[x])
             /\ \A m \in 1..models_map[x] - 1 : x \notin Naming!NamesOf(m)
        /\ \A m \in 1..a : models_map[descriptions[m][1]] = m
    BY <1>1, <1>3 DEF Mapped
  <2> HIDE DEF new, old, ids
  <2>5. DOMAIN models_map' = UNION {Naming!NamesOf(m) : m \in 1..a + 1}
    <3>1. 1..a + 1 = (1..a) \cup {a + 1}
      BY <1>3
    <3>2. UNION {Naming!NamesOf(m) : m \in (1..a) \cup {a + 1}}
            = (UNION {Naming!NamesOf(m) : m \in 1..a}) \cup Naming!NamesOf(a + 1)
      OBVIOUS
    <3>3. DOMAIN models_map' = old \cup Naming!NamesOf(a + 1)
      BY <2>3 DEF new
    <3> QED BY <2>4, <3>1, <3>2, <3>3
  <2>6. ASSUME NEW x \in DOMAIN models_map'
        PROVE  /\ models_map'[x] \in 1..a + 1 /\ x \in Naming!NamesOf(models_map'[x])
               /\ \A m \in 1..models_map'[x] - 1 : x \notin Naming!NamesOf(m)
    <3>1. CASE x \in old
      <4>1. models_map'[x] = models_map[x] /\ models_map[x] \in 1..a
        BY <2>3, <2>4, <3>1
      <4>2. models_map[x] \in 1..a + 1
        BY <1>3, <4>1
      <4> QED BY <2>4, <3>1, <4>1, <4>2
    <3>2. CASE x \notin old
      <4>1. x \in new /\ models_map'[x] = a + 1
        BY <2>3, <3>2
      <4>2. \A m \in 1..a : x \notin Naming!NamesOf(m)
        BY <2>4, <3>2
      <4>3. a + 1 \in 1..a + 1 /\ 1..(a + 1) - 1 = 1..a
        BY <1>3
      <4> QED BY <4>1, <4>2, <4>3 DEF new
    <3> QED BY <3>1, <3>2
  <2>7. ASSUME NEW m \in 1..a + 1
        PROVE  models_map'[descriptions[m][1]] = m
    <3>1. CASE m = a + 1
      <4>1. descriptions[m][1] \in new \ old
        BY <1>8, <2>1, <3>1 DEF ids, old
      <4> QED BY <2>3, <3>1, <4>1
    <3>2. CASE m # a + 1
      <4>1. m \in 1..a /\ m \in 1..n
        BY <1>3, <3>2
      <4>2. descriptions[m][1] \in Naming!NamesOf(m)
        BY <1>1, <1>2, <4>1, DescriptionFacts
      <4>3. descriptions[m][1] \in old
        BY <2>4, <4>1, <4>2
      <4> QED BY <2>3, <2>4, <4>1, <4>3
    <3> QED BY <3>1, <3>2
  <2>8. Mapped'
    <3>1. Mapped' <=>
            /\ DOMAIN models_map' = UNION {Naming!NamesOf(m)' : m \in 1..added'}
            /\ \A x \in DOMAIN models_map' :
                 /\ models_map'[x] \in 1..added' /\ x \in Naming!NamesOf(models_map[x])'
                 /\ \A m \in 1..models_map'[x] - 1 : x \notin Naming!NamesOf(m)'
            /\ \A m \in 1..added' : models_map'[descriptions'[m][1]] = m
      BY DEF Mapped, Naming!NamesOf
    <3>2. \A x : Naming!NamesOf(models_map[x])' = Naming!NamesOf(models_map'[x])
      BY <1>4 DEF Naming!NamesOf
    <3> QED BY <1>4, <1>5, <2>5, <2>6, <2>7, <3>1, <3>2
  <2> QED BY <1>1, <1>6, <2>2, <2>8 DEF Named, Naming!NamesMean
<1> QED BY <1>7, <1>8

(* The empty name is for the default model, and the other names stay.      *)
LEMMA ResolveKept ==
  ASSUME Named, Naming!ResolveDefault
  PROVE  Named'
<1>1. descriptions \in Descriptions /\ Mapped /\ status = "adding" /\ added = Len(descriptions)
  BY DEF Named, Naming!ResolveDefault
<1>2. UNCHANGED <<descriptions, default_model, added>>
  BY DEF Naming!ResolveDefault
<1>3. PICK n \in Nat : n = Len(descriptions) /\ n = added /\ DOMAIN descriptions = 1..n
  BY <1>1, DescriptionFacts
<1>4. descriptions' \in Descriptions /\ added' \in 0..Len(descriptions')
  BY <1>1, <1>2, <1>3
<1>5. \A m : Naming!NamesOf(m)' = Naming!NamesOf(m)
  BY <1>2 DEF Naming!NamesOf
<1>6. CASE default_model \notin DOMAIN models_map
  <2>1. status' = "failed"
    BY <1>6 DEF Naming!ResolveDefault, Naming!Names
  <2> QED BY <1>4, <2>1 DEF Named, Naming!NamesMean
<1>7. CASE default_model \in DOMAIN models_map
  <2> DEFINE old == DOMAIN models_map
             e == Naming!Empty
  <2>1. /\ status' = "ready"
        /\ models_map' = [x \in old \cup {e} |-> models_map[IF x = e THEN default_model ELSE x]]
    BY <1>7 DEF Naming!ResolveDefault, Naming!Names
  <2>2. /\ DOMAIN models_map' = old \cup {e}
        /\ \A x \in old \ {e} : models_map'[x] = models_map[x]
        /\ models_map'[e] = models_map[default_model]
    BY <2>1
  <2>3. /\ old = UNION {Naming!NamesOf(m) : m \in 1..n}
        /\ \A x \in old :
             /\ models_map[x] \in 1..n /\ x \in Naming!NamesOf(models_map[x])
             /\ \A m \in 1..models_map[x] - 1 : x \notin Naming!NamesOf(m)
        /\ \A m \in 1..n : models_map[descriptions[m][1]] = m
    BY <1>1, <1>3 DEF Mapped
  <2> HIDE DEF e, old
  <2>4. ASSUME NEW m \in 1..n, descriptions[m][1] # e
        PROVE  models_map'[descriptions[m][1]] = m
    <3>1. descriptions[m][1] \in Naming!NamesOf(m)
      BY <1>1, <1>3, DescriptionFacts
    <3>2. descriptions[m][1] \in old \ {e}
      BY <2>3, <2>4, <3>1
    <3> QED BY <2>2, <2>3, <3>2
  <2>5. ASSUME NEW x \in (DOMAIN models_map') \ {e}
        PROVE  /\ x \in Naming!NamesOf(models_map'[x])
               /\ \A m \in 1..models_map'[x] - 1 : x \notin Naming!NamesOf(m)
    <3>1. x \in old \ {e}
      BY <2>2
    <3>2. models_map'[x] = models_map[x]
      BY <2>2, <3>1
    <3> QED BY <2>3, <3>1, <3>2
  <2>6. \A m \in 1..n : Naming!NamesOf(m) \subseteq DOMAIN models_map'
    BY <2>2, <2>3
  <2>7. \E m \in 1..n : default_model \in Naming!NamesOf(m) /\ models_map'[e] = m
                          /\ \A k \in 1..m - 1 : default_model \notin Naming!NamesOf(k)
    <3>1. default_model \in old
      BY <1>7 DEF old
    <3>2. /\ models_map[default_model] \in 1..n
          /\ default_model \in Naming!NamesOf(models_map[default_model])
          /\ \A k \in 1..models_map[default_model] - 1 : default_model \notin Naming!NamesOf(k)
      BY <2>3, <3>1
    <3> QED BY <2>2, <3>2
  <2>8. Naming!NamesMean'
    <3>1. e = <<"">>
      BY DEF e, Naming!Empty
    <3>2. \A x : Naming!NamesOf(models_map[x])' = Naming!NamesOf(models_map'[x])
      BY <1>2 DEF Naming!NamesOf
    <3>3. Naming!NamesMean' <=>
            (status' = "ready" =>
              /\ \A m \in DOMAIN descriptions' :
                   descriptions'[m][1] # e => models_map'[descriptions'[m][1]] = m
              /\ \A x \in (DOMAIN models_map') \ {e} :
                   /\ x \in Naming!NamesOf(models_map[x])'
                   /\ \A m \in 1..models_map'[x] - 1 : x \notin Naming!NamesOf(m)'
              /\ \A m \in DOMAIN descriptions' : Naming!NamesOf(m)' \subseteq DOMAIN models_map'
              /\ \E m \in DOMAIN descriptions' :
                   /\ default_model' \in Naming!NamesOf(m)' /\ models_map'[e] = m
                   /\ \A k \in 1..m - 1 : default_model' \notin Naming!NamesOf(k)')
      BY <3>1 DEF Naming!NamesMean, Naming!Names, Naming!NamesOf, Naming!Empty
    <3> QED BY <1>2, <1>3, <1>5, <2>4, <2>5, <2>6, <2>7, <3>2, <3>3
  <2> QED BY <1>4, <2>1, <2>8 DEF Named
<1> QED BY <1>6, <1>7

LEMMA NamedKept ==
  ASSUME Named, [Naming!Next]_Naming!vars
  PROVE  Named'
<1>1. CASE UNCHANGED Naming!vars
  <2>1. /\ descriptions' = descriptions /\ default_model' = default_model /\ added' = added
        /\ models_map' = models_map /\ status' = status
    BY <1>1 DEF Naming!vars
  <2>2. Mapped' <=> Mapped
    BY <2>1 DEF Mapped, Naming!NamesOf
  <2>3. Naming!NamesMean' <=> Naming!NamesMean
    BY <2>1, Zenon DEF Naming!NamesMean, Naming!Names, Naming!NamesOf, Naming!Empty
  <2> QED BY <2>1, <2>2, <2>3 DEF Named
<1> QED BY <1>1, AddKept, ResolveKept DEF Naming!Next

-----------------------------------------------------------------------------
(* The training of the tagger.  What gamma would be if it were updated now *)
(* is the sum that the history keeps.                                      *)
Info == [alpha : Int, gamma : Int, last_gamma_update : Int]
Due(info, upto) == info.gamma + info.alpha * (upto - info.last_gamma_update)

TrainingType ==
  /\ train \in Corpora /\ sentence \in 0..Len(train) /\ iteration \in 0..Iterations
  /\ scores \in [Keys -> Info] /\ average \in [Keys -> Int]
  /\ trained # {} => iteration = Iterations

Summed ==
  /\ iteration < Iterations => \A k \in Keys : Due(scores[k], sentence) = average[k]
  /\ iteration = Iterations => /\ sentence = Len(train)
                               /\ \A k \in Keys : scores[k].gamma = average[k]

(* Round n is the first of the best of those so far.                       *)
FirstBest(n) ==
  /\ n \in 1..Len(rounds)
  /\ best_iteration.correct > 0
  /\ rounds[n].correct = best_iteration.correct /\ rounds[n].features = best_iteration.features
  /\ \A m \in 1..n - 1 : rounds[m].correct < best_iteration.correct

Rounds == [correct : Nat, features : [Keys -> Info]]

BestSoFar ==
  /\ rounds \in Seq(Rounds) /\ Len(rounds) = iteration
  /\ best_iteration.correct \in Nat /\ best_iteration.iteration \in Int
  /\ trainer.early_stopping \in BOOLEAN
  /\ trainer.early_stopping => \A m \in 1..Len(rounds) : rounds[m].correct <= best_iteration.correct
  /\ best_iteration.iteration < 0 => best_iteration.correct = 0
  /\ best_iteration.iteration >= 0 => FirstBest(best_iteration.iteration + 1)
  /\ iteration = Iterations => scores = rounds[Iterations].features
  /\ \A r \in trained : r = IF trainer.early_stopping /\ best_iteration.iteration >= 0
                            THEN best_iteration.features ELSE scores

TrainingInv == TrainingType /\ Summed /\ BestSoFar

LEMMA TrainingFacts ==
  ASSUME TrainingType
  PROVE  /\ Len(train) \in Nat /\ sentence \in Nat /\ Iterations \in Nat /\ Iterations > 0
         /\ \A k \in Keys : /\ scores[k] \in Info /\ scores[k].alpha \in Int
                            /\ scores[k].gamma \in Int /\ scores[k].last_gamma_update \in Int
BY TrainingAssumption DEF TrainingType, Info

(* A product with the difference of two numbers.                           *)
LEMMA Products ==
  ASSUME NEW a \in Int, NEW s \in Int, NEW u \in Int
  PROVE  /\ a * (s - u) \in Int /\ a * (s - s) = 0 /\ a * (s - 0) = a * s
         /\ a * ((s + 1) - u) = a * (s - u) + a
<1>1. a * (s - u) \in Int /\ a * (s - s) = 0 /\ a * (s - 0) = a * s
  OBVIOUS
<1>2. \A x \in Int : a * (x + 1) = a * x + a
  OBVIOUS
<1>3. s - u \in Int /\ (s + 1) - u = (s - u) + 1
  OBVIOUS
<1> QED BY <1>1, <1>2, <1>3

(* Updating changes nothing of what is due.                                *)
LEMMA Updated ==
  ASSUME NEW info \in Info, NEW s \in Int
  PROVE  /\ Training!GammaUpdated(info, s) = [alpha |-> info.alpha, gamma |-> Due(info, s), last_gamma_update |-> s]
         /\ Due(info, s) \in Int
<1>1. info.alpha \in Int /\ info.gamma \in Int /\ info.last_gamma_update \in Int
  BY DEF Info
<1>2. info.alpha * (s - info.last_gamma_update) \in Int
  BY <1>1, Products
<1>3. Due(info, s) \in Int
  BY <1>1, <1>2 DEF Due
<1>4. PICK a \in Int, g \in Int, u \in Int : info = [alpha |-> a, gamma |-> g, last_gamma_update |-> u]
  BY DEF Info
<1>5. Training!GammaUpdated(info, s) = [alpha |-> a, gamma |-> g + a * (s - u), last_gamma_update |-> s]
  <2>1. PICK p : p = g + a * (s - u)
    OBVIOUS
  <2>2. info.gamma + info.alpha * (s - info.last_gamma_update) = p
    BY <1>4, <2>1
  <2>3. Training!GammaUpdated(info, s) = [info EXCEPT !.gamma = p, !.last_gamma_update = s]
    BY <2>2, Zenon DEF Training!GammaUpdated
  <2> QED BY <1>4, <2>1, <2>3
<1>6. info.alpha = a /\ Due(info, s) = g + a * (s - u)
  BY <1>4 DEF Due
<1> QED BY <1>3, <1>5, <1>6

(* A key that is moved stays due what it was: only its alpha changes.      *)
LEMMA MovedFacts ==
  ASSUME NEW w \in [Keys -> Info], NEW key, NEW by \in Int, sentence \in Int
  PROVE  /\ Training!Moved(w, key, by) \in [Keys -> Info]
         /\ \A k \in Keys : Due(Training!Moved(w, key, by)[k], sentence) = Due(w[k], sentence)
<1>1. CASE key \notin known \/ key \notin Keys
  <2>1. Training!Moved(w, key, by) = w
    BY <1>1 DEF Training!Moved
  <2> QED BY <2>1
<1>2. CASE key \in known /\ key \in Keys
  <2> DEFINE new == [alpha |-> w[key].alpha + by, gamma |-> Due(w[key], sentence), last_gamma_update |-> sentence]
  <2>1. w[key] \in Info /\ w[key].alpha \in Int
    BY <1>2 DEF Info
  <2>2. Training!GammaUpdated(w[key], sentence)
          = [alpha |-> w[key].alpha, gamma |-> Due(w[key], sentence), last_gamma_update |-> sentence]
    BY <2>1, Updated
  <2>3. Due(w[key], sentence) \in Int
    BY <2>1, Updated
  <2>4. Training!Moved(w, key, by) = [w EXCEPT ![key] = new]
    <3>1. PICK info : info = Training!GammaUpdated(w[key], sentence)
      OBVIOUS
    <3>2. [info EXCEPT !.alpha = @ + by] = new
      BY <2>2, <3>1
    <3>3. Training!Moved(w, key, by) = [w EXCEPT ![key] = [info EXCEPT !.alpha = @ + by]]
      BY <1>2, <3>1 DEF Training!Moved
    <3> QED BY <3>2, <3>3
  <2>5. new \in Info /\ new.alpha \in Int /\ new.gamma = Due(w[key], sentence) /\ new.last_gamma_update = sentence
    BY <2>1, <2>3 DEF Info
  <2> HIDE DEF new
  <2>6. Due(new, sentence) = Due(w[key], sentence)
    <3>1. new.alpha * (sentence - sentence) = 0
      BY <2>5, Products
    <3> QED BY <2>3, <2>5, <3>1 DEF Due
  <2> QED BY <1>2, <2>4, <2>5, <2>6
<1> QED BY <1>1, <1>2

LEMMA TrainingStart ==
  ASSUME Training!Init
  PROVE  TrainingInv
<1>1. /\ train \in Corpora /\ scores = [k \in Keys |-> Training!NoInfo] /\ iteration = 0 /\ sentence = 0
      /\ best_iteration = [correct |-> 0, iteration |-> -1, features |-> scores]
      /\ average = [k \in Keys |-> 0] /\ rounds = <<>> /\ trained = {}
      /\ trainer.early_stopping \in BOOLEAN
  BY DEF Training!Init
<1>2. Training!NoInfo \in Info /\ Due(Training!NoInfo, 0) = 0
  BY DEF Training!NoInfo, Info, Due
<1>3. Len(train) \in Nat /\ Iterations \in Nat /\ Iterations > 0
  BY <1>1, TrainingAssumption
<1>4. TrainingType
  BY <1>1, <1>2, <1>3 DEF TrainingType
<1>5. Summed
  BY <1>1, <1>2, <1>3 DEF Summed
<1>6. BestSoFar
  <2>1. rounds \in Seq(Rounds) /\ Len(rounds) = 0
    BY <1>1, EmptySeq
  <2>2. /\ best_iteration.correct = 0 /\ best_iteration.iteration = -1
    BY <1>1
  <2> QED BY <1>1, <1>3, <2>1, <2>2 DEF BestSoFar
<1> QED BY <1>4, <1>5, <1>6 DEF TrainingInv

LEMMA WordKept ==
  ASSUME TrainingInv, Training!Word
  PROVE  TrainingInv'
<1>1. PICK decoded \in Keys \cup {<<>>} :
        LET key == train[sentence + 1][word]
        IN scores' = IF decoded = key THEN scores
                     ELSE Training!Moved(Training!Moved(scores, decoded, -1), key, 1)
  BY DEF Training!Word
<1>2. /\ sentence < Len(train) /\ trained = {}
      /\ UNCHANGED <<train, trainer, known, iteration, sentence, best_iteration, average, rounds, trained>>
  BY DEF Training!Word
<1>3. /\ Len(train) \in Nat /\ sentence \in Int /\ scores \in [Keys -> Info]
  BY TrainingFacts DEF TrainingInv, TrainingType
<1>4. scores' \in [Keys -> Info] /\ \A k \in Keys : Due(scores'[k], sentence) = Due(scores[k], sentence)
  <2> DEFINE w == Training!Moved(scores, decoded, -1)
  <2>1. w \in [Keys -> Info] /\ \A k \in Keys : Due(w[k], sentence) = Due(scores[k], sentence)
    BY <1>3, MovedFacts
  <2>2. CASE scores' = scores
    BY <1>3, <2>2
  <2>3. CASE scores' = Training!Moved(w, train[sentence + 1][word], 1)
    <3> HIDE DEF w
    <3>1. \A key : /\ Training!Moved(w, key, 1) \in [Keys -> Info]
                   /\ \A k \in Keys : Due(Training!Moved(w, key, 1)[k], sentence) = Due(w[k], sentence)
      BY <1>3, <2>1, MovedFacts
    <3> QED BY <2>1, <2>3, <3>1
  <2> QED BY <1>1, <2>2, <2>3
<1>5. iteration < Iterations /\ iteration \in Nat
  BY <1>2, <1>3, TrainingFacts DEF TrainingInv, TrainingType, Summed
<1>6. TrainingType'
  BY <1>2, <1>4 DEF TrainingInv, TrainingType
<1>7. Summed'
  <2>1. \A k \in Keys : Due(scores'[k], sentence') = average'[k]
    BY <1>2, <1>4, <1>5 DEF TrainingInv, Summed
  <2>2. (\A k \in Keys : Due(scores[k], sentence) = average[k])'
    BY <2>1 DEF Due
  <2>3. iteration' < Iterations /\ iteration' # Iterations
    BY <1>2, <1>5, TrainingFacts DEF TrainingInv
  <2> QED BY <2>2, <2>3 DEF Summed
<1>8. BestSoFar'
  <2>1. iteration' # Iterations
    BY <1>2, <1>5, TrainingFacts DEF TrainingInv
  <2> QED BY <1>2, <2>1 DEF TrainingInv, BestSoFar, FirstBest
<1> QED BY <1>6, <1>7, <1>8 DEF TrainingInv

LEMMA SentenceKept ==
  ASSUME TrainingInv, Training!SentenceEnd
  PROVE  TrainingInv'
<1>1. /\ sentence < Len(train) /\ trained = {} /\ sentence' = sentence + 1
      /\ average' = [k \in Keys |-> average[k] + scores[k].alpha]
      /\ UNCHANGED <<train, trainer, known, scores, iteration, best_iteration, rounds, trained>>
  BY DEF Training!SentenceEnd
<1>2. /\ Len(train) \in Nat /\ sentence \in Int /\ Iterations \in Nat /\ iteration \in 0..Iterations
      /\ average \in [Keys -> Int]
      /\ \A k \in Keys : /\ scores[k].alpha \in Int /\ scores[k].gamma \in Int
                         /\ scores[k].last_gamma_update \in Int
  BY TrainingFacts DEF TrainingInv, TrainingType
<1>3. iteration < Iterations
  BY <1>1, <1>2 DEF TrainingInv, Summed
<1>4. TrainingType'
  BY <1>1, <1>2 DEF TrainingInv, TrainingType
<1>5. Summed'
  <2>1. ASSUME NEW k \in Keys PROVE Due(scores[k], sentence + 1) = average[k] + scores[k].alpha
    <3>1. PICK a, g, u : a = scores[k].alpha /\ g = scores[k].gamma /\ u = scores[k].last_gamma_update
      OBVIOUS
    <3>2. a \in Int /\ g \in Int /\ u \in Int
      BY <1>2, <3>1
    <3>3. a * ((sentence + 1) - u) = a * (sentence - u) + a /\ a * (sentence - u) \in Int
      BY <1>2, <3>2, Products
    <3>4. g + a * (sentence - u) = average[k]
      BY <1>3, <3>1 DEF TrainingInv, Summed, Due
    <3>5. Due(scores[k], sentence + 1) = g + a * ((sentence + 1) - u)
      BY <3>1 DEF Due
    <3> QED BY <3>1, <3>2, <3>3, <3>4, <3>5
  <2>2. \A k \in Keys : Due(scores'[k], sentence') = average'[k]
    BY <1>1, <2>1
  <2>3. (\A k \in Keys : Due(scores[k], sentence) = average[k])'
    BY <2>2 DEF Due
  <2>4. iteration' # Iterations
    BY <1>1, <1>2, <1>3
  <2> QED BY <2>3, <2>4 DEF Summed
<1>6. BestSoFar'
  BY <1>1 DEF TrainingInv, BestSoFar, FirstBest
<1> QED BY <1>4, <1>5, <1>6 DEF TrainingInv

LEMMA IterationKept ==
  ASSUME TrainingInv, Training!IterationEnd
  PROVE  TrainingInv'
<1>1. /\ trained = {} /\ sentence = Len(train) /\ iteration < Iterations /\ iteration' = iteration + 1
      /\ scores' = [k \in Keys |-> Training!Finalized(scores[k])]
      /\ IF iteration + 1 < Iterations THEN sentence' = 0 ELSE sentence' = sentence
      /\ UNCHANGED <<train, trainer, known, average, trained>>
  BY DEF Training!IterationEnd
<1>2. PICK correct \in 0..MaxCorrect :
        /\ best_iteration' = IF Training!Better(correct)
                   THEN [correct |-> correct, iteration |-> iteration, features |-> scores']
                   ELSE best_iteration
        /\ rounds' = Append(rounds, [correct |-> correct, features |-> scores'])
  BY DEF Training!IterationEnd
<1>3. /\ Len(train) \in Nat /\ sentence \in Int /\ Iterations \in Nat /\ iteration \in 0..Iterations
      /\ scores \in [Keys -> Info] /\ iteration \in Nat /\ correct \in Nat
  BY TrainingAssumption, TrainingFacts DEF TrainingInv, TrainingType
<1>4. ASSUME NEW k \in Keys
      PROVE  scores'[k] = [alpha |-> scores[k].alpha, gamma |-> average[k], last_gamma_update |-> 0]
  <2>1. scores[k] \in Info
    BY <1>3
  <2>2. Training!GammaUpdated(scores[k], Len(train))
          = [alpha |-> scores[k].alpha, gamma |-> Due(scores[k], Len(train)), last_gamma_update |-> Len(train)]
    BY <1>3, <2>1, Updated
  <2>3. Due(scores[k], Len(train)) = average[k]
    BY <1>1 DEF TrainingInv, Summed
  <2>4. scores'[k] = Training!Finalized(scores[k])
    BY <1>1
  <2> QED BY <2>2, <2>3, <2>4 DEF Training!Finalized
<1>5. scores' \in [Keys -> Info]
  <2>1. average \in [Keys -> Int] /\ \A k \in Keys : scores[k].alpha \in Int
    BY TrainingFacts DEF TrainingInv, TrainingType
  <2>2. \A k \in Keys : [alpha |-> scores[k].alpha, gamma |-> average[k], last_gamma_update |-> 0] \in Info
    BY <2>1 DEF Info
  <2> QED BY <1>1, <1>4, <2>2
<1>6. TrainingType'
  BY <1>1, <1>3, <1>5 DEF TrainingInv, TrainingType
<1>7. Summed'
  <2>1. ASSUME NEW k \in Keys PROVE scores'[k].gamma = average'[k]
    <3>1. scores'[k] = [alpha |-> scores[k].alpha, gamma |-> average[k], last_gamma_update |-> 0]
      BY <1>4
    <3> QED BY <1>1, <3>1
  <2>2. ASSUME iteration' < Iterations, NEW k \in Keys PROVE Due(scores'[k], sentence') = average'[k]
    <3>1. sentence' = 0
      BY <1>1, <2>2
    <3>2. scores[k].alpha * (0 - 0) = 0 /\ average[k] \in Int
      BY TrainingFacts, Products DEF TrainingInv, TrainingType
    <3>3. PICK info : info = [alpha |-> scores[k].alpha, gamma |-> average[k], last_gamma_update |-> 0]
      OBVIOUS
    <3>4. Due(info, 0) = average[k]
      BY <3>2, <3>3 DEF Due
    <3>5. info = scores'[k]
      BY <1>4, <3>3
    <3> QED BY <1>1, <3>1, <3>4, <3>5
  <2>3. iteration' < Iterations => (\A k \in Keys : Due(scores[k], sentence) = average[k])'
    BY <2>2 DEF Due
  <2>4. iteration' = Iterations => sentence' = Len(train')
    BY <1>1, <1>3
  <2> QED BY <2>1, <2>3, <2>4 DEF Summed
<1>8. BestSoFar'
  <2> DEFINE n == iteration + 1
             round == [correct |-> correct, features |-> scores']
  <2>1. /\ rounds \in Seq(Rounds) /\ Len(rounds) = iteration
        /\ best_iteration.correct \in Nat /\ best_iteration.iteration \in Int
        /\ trainer.early_stopping \in BOOLEAN
        /\ trainer.early_stopping => \A m \in 1..Len(rounds) : rounds[m].correct <= best_iteration.correct
        /\ best_iteration.iteration < 0 => best_iteration.correct = 0
        /\ best_iteration.iteration >= 0 => FirstBest(best_iteration.iteration + 1)
    BY DEF TrainingInv, BestSoFar
  <2>2. round \in Rounds /\ round.correct = correct /\ round.features = scores'
    BY <1>3, <1>5 DEF Rounds
  <2>3. /\ rounds' \in Seq(Rounds) /\ Len(rounds') = n /\ rounds'[n] = round
        /\ \A m \in 1..iteration : rounds'[m] = rounds[m]
    <3> HIDE DEF round
    <3>1. rounds' = Append(rounds, round)
      BY <1>2 DEF round
    <3> QED BY <1>3, <2>1, <2>2, <3>1, AppendProperties
  <2>4. \A m \in 1..n : m \in 1..iteration \/ m = n
    BY <1>3
  <2>5. \A m \in 1..iteration : rounds[m].correct \in Nat
    <3>1. \A m \in 1..iteration : rounds[m] \in Rounds
      BY <2>1
    <3> QED BY <3>1 DEF Rounds
  <2> HIDE DEF round
  <2>6. CASE Training!Better(correct)
    <3>1. /\ trainer.early_stopping /\ correct > best_iteration.correct
          /\ best_iteration' = [correct |-> correct, iteration |-> iteration, features |-> scores']
      BY <1>2, <2>6 DEF Training!Better
    <3>2. /\ best_iteration'.correct = correct /\ best_iteration'.iteration = iteration
          /\ best_iteration'.features = scores'
      BY <3>1
    <3>3. \A m \in 1..iteration : rounds'[m].correct < correct
      BY <1>3, <2>1, <2>3, <2>5, <3>1
    <3>4. \A m \in 1..n : rounds'[m].correct <= correct
      BY <1>3, <2>2, <2>3, <2>4, <2>5, <3>1, <3>3
    <3>5. n - 1 = iteration /\ n \in 1..n /\ correct > 0
      BY <1>3, <2>1, <3>1
    <3>7. iteration' = Iterations => scores' = rounds'[Iterations].features
      BY <1>1, <2>2, <2>3
    <3>8. FirstBest(best_iteration.iteration + 1)'
      <4>1. PICK b : b = best_iteration'.iteration + 1 /\ b = n
        BY <3>2
      <4>2. /\ b \in 1..Len(rounds') /\ b - 1 = iteration /\ best_iteration'.correct > 0
            /\ rounds'[b].correct = best_iteration'.correct
            /\ rounds'[b].features = best_iteration'.features
        BY <2>2, <2>3, <3>2, <3>5, <4>1
      <4>3. \A m \in 1..b - 1 : rounds'[m].correct < best_iteration'.correct
        BY <3>2, <3>3, <4>2
      <4> QED BY <4>1, <4>2, <4>3 DEF FirstBest
    <3> QED BY <1>1, <1>3, <2>1, <2>3, <3>2, <3>4, <3>7, <3>8 DEF BestSoFar
  <2>7. CASE ~Training!Better(correct)
    <3>1. /\ trainer.early_stopping => correct <= best_iteration.correct
          /\ best_iteration' = best_iteration
      BY <1>2, <1>3, <2>1, <2>7 DEF Training!Better
    <3>2. trainer.early_stopping => \A m \in 1..n : rounds'[m].correct <= best_iteration.correct
      BY <2>1, <2>2, <2>3, <2>4, <3>1
    <3>3. best_iteration.iteration >= 0 => FirstBest(best_iteration.iteration + 1)'
      <4> SUFFICES ASSUME best_iteration.iteration >= 0 PROVE FirstBest(best_iteration.iteration + 1)'
        OBVIOUS
      <4>1. PICK b : b = best_iteration.iteration + 1
        OBVIOUS
      <4>2. /\ b \in 1..iteration /\ best_iteration.correct > 0
            /\ rounds[b].correct = best_iteration.correct /\ rounds[b].features = best_iteration.features
            /\ \A m \in 1..b - 1 : rounds[m].correct < best_iteration.correct
        BY <2>1, <4>1 DEF FirstBest
      <4>3. b \in 1..n /\ \A m \in 1..b - 1 : m \in 1..iteration
        BY <1>3, <4>2
      <4> QED BY <2>3, <3>1, <4>1, <4>2, <4>3 DEF FirstBest
    <3>4. iteration' = Iterations => scores' = rounds'[Iterations].features
      BY <1>1, <2>2, <2>3
    <3> QED BY <1>1, <2>1, <2>3, <3>1, <3>2, <3>3, <3>4 DEF BestSoFar
  <2> QED BY <2>6, <2>7
<1> QED BY <1>6, <1>7, <1>8 DEF TrainingInv

LEMMA EndKept ==
  ASSUME TrainingInv, Training!TrainingEnd
  PROVE  TrainingInv'
<1>1. /\ iteration = Iterations
      /\ trained' = {IF trainer.early_stopping /\ best_iteration.iteration >= 0
                     THEN best_iteration.features ELSE scores}
      /\ UNCHANGED <<train, trainer, known, scores, iteration, sentence, word, best_iteration, average, rounds>>
  BY DEF Training!TrainingEnd
<1>2. TrainingType'
  BY <1>1 DEF TrainingInv, TrainingType
<1>3. Summed'
  BY <1>1 DEF TrainingInv, Summed, Due
<1>4. BestSoFar'
  BY <1>1 DEF TrainingInv, BestSoFar, FirstBest
<1> QED BY <1>2, <1>3, <1>4 DEF TrainingInv

LEMMA TrainingKept ==
  ASSUME TrainingInv, [Training!Next]_Training!vars
  PROVE  TrainingInv'
<1>1. CASE UNCHANGED Training!vars
  <2>1. /\ UNCHANGED <<train, trainer, known, scores, iteration, sentence, word, best_iteration, average, rounds, trained>>
    BY <1>1 DEF Training!vars
  <2>2. TrainingType' /\ Summed'
    BY <2>1 DEF TrainingInv, TrainingType, Summed, Due
  <2>3. BestSoFar'
    BY <2>1 DEF TrainingInv, BestSoFar, FirstBest
  <2> QED BY <2>2, <2>3 DEF TrainingInv
<1> QED BY <1>1, WordKept, SentenceKept, IterationKept, EndKept DEF Training!Next

LEMMA TrainingFollows ==
  ASSUME TrainingInv
  PROVE  Training!Averaged /\ Training!BestChosen
<1>1. Len(train) \in Nat /\ sentence \in Nat /\ Iterations \in Nat /\ Iterations > 0 /\ iteration \in 0..Iterations
  BY TrainingFacts DEF TrainingInv, TrainingType
<1>2. Training!Averaged
  <2>1. trained # {} => \A k \in Keys : scores[k].gamma = average[k]
    BY DEF TrainingInv, TrainingType, Summed
  <2>2. sentence < Len(train) => iteration < Iterations
    BY <1>1 DEF TrainingInv, Summed
  <2> QED BY <2>1, <2>2 DEF TrainingInv, Summed, Due, Training!Averaged
<1>3. Training!BestChosen
  <2> DEFINE top == {n \in DOMAIN rounds : /\ rounds[n].correct > 0
                                           /\ \A m \in DOMAIN rounds : rounds[m].correct <= rounds[n].correct
                                           /\ \A m \in 1..n - 1 : rounds[m].correct < rounds[n].correct}
  <2>1. ASSUME NEW r \in trained
        PROVE  IF trainer.early_stopping /\ top # {} THEN \A n \in top : r = rounds[n].features
               ELSE r = rounds[Iterations].features
    <3>1. /\ rounds \in Seq(Rounds) /\ Len(rounds) = iteration /\ iteration = Iterations
          /\ best_iteration.correct \in Nat /\ best_iteration.iteration \in Int
          /\ trainer.early_stopping => \A m \in 1..Len(rounds) : rounds[m].correct <= best_iteration.correct
          /\ best_iteration.iteration < 0 => best_iteration.correct = 0
          /\ best_iteration.iteration >= 0 => FirstBest(best_iteration.iteration + 1)
          /\ scores = rounds[Iterations].features
          /\ r = IF trainer.early_stopping /\ best_iteration.iteration >= 0
                 THEN best_iteration.features ELSE scores
      BY <2>1 DEF TrainingInv, TrainingType, BestSoFar
    <3>2. DOMAIN rounds = 1..Iterations /\ \A m \in 1..Iterations : rounds[m].correct \in Nat
      <4>1. DOMAIN rounds = 1..Iterations /\ \A m \in 1..Iterations : rounds[m] \in Rounds
        BY <3>1
      <4> QED BY <4>1 DEF Rounds
    <3>3. CASE ~trainer.early_stopping
      BY <3>1, <3>3
    <3>4. CASE trainer.early_stopping /\ best_iteration.iteration < 0
      <4>1. \A m \in 1..Iterations : ~(rounds[m].correct > 0)
        BY <1>1, <3>1, <3>2, <3>4
      <4>2. top = {}
        BY <3>2, <4>1
      <4>3. ~(best_iteration.iteration >= 0)
        BY <3>1, <3>4
      <4> QED BY <3>1, <4>2, <4>3
    <3>5. CASE trainer.early_stopping /\ best_iteration.iteration >= 0
      <4>1. PICK b : b = best_iteration.iteration + 1
        OBVIOUS
      <4>2. /\ b \in 1..Iterations /\ best_iteration.correct > 0
            /\ rounds[b].correct = best_iteration.correct /\ rounds[b].features = best_iteration.features
            /\ \A m \in 1..b - 1 : rounds[m].correct < best_iteration.correct
        BY <3>1, <3>5, <4>1 DEF FirstBest
      <4>3. b \in top
        BY <3>1, <3>2, <3>5, <4>2
      <4>4. \A n \in top : n = b
        <5> SUFFICES ASSUME NEW n \in top PROVE n = b
          OBVIOUS
        <5>1. /\ n \in 1..Iterations /\ n \in Int /\ b \in Int
              /\ rounds[b].correct <= rounds[n].correct
              /\ \A m \in 1..n - 1 : rounds[m].correct < rounds[n].correct
          BY <1>1, <3>2, <4>2
        <5>2. /\ rounds[n].correct <= rounds[b].correct /\ rounds[n].correct \in Nat
              /\ rounds[b].correct \in Nat
          BY <3>1, <3>2, <3>5, <4>2, <5>1
        <5>3. ~(n < b)
          BY <4>2, <5>1, <5>2
        <5>4. ~(b < n)
          BY <4>2, <5>1, <5>2
        <5> QED BY <5>1, <5>3, <5>4
      <4>5. r = best_iteration.features /\ top # {}
        BY <3>1, <3>5, <4>3
      <4> HIDE DEF top
      <4> QED BY <3>5, <4>2, <4>4, <4>5
    <3> QED BY <3>1, <3>3, <3>4, <3>5
  <2> QED BY <2>1 DEF Training!BestChosen
<1> QED BY <1>2, <1>3
-----------------------------------------------------------------------------
(* The builder of JSON.  Its recursive functions exist: the value at n is  *)
(* found from that at n - 1, whatever the step is.                         *)
Stepped(kind, d, i, f, n) ==
  CASE kind = "read" -> IF n = 0 THEN Json!Start ELSE Json!Read(f[n - 1], d[n])
    [] kind = "encode" -> IF n = 0 THEN <<>> ELSE f[n - 1] \o Json!Encode(d[n])
    [] OTHER -> IF n = 0 THEN d
                ELSE Json!Closed(IF i THEN Json!Indented(f[n - 1]) ELSE f[n - 1])

LEMMA SteppedExists ==
  ASSUME NEW kind, NEW d, NEW i, NEW m \in Nat
  PROVE  \E f : f = [k \in 0..m |-> Stepped(kind, d, i, f, k)]
<1> DEFINE bad == {k \in Nat : ~\E f : f = [j \in 0..k |-> Stepped(kind, d, i, f, j)]}
<1>0. \A f, g, j : j = 0 \/ f[j - 1] = g[j - 1] => Stepped(kind, d, i, f, j) = Stepped(kind, d, i, g, j)
  BY DEF Stepped
<1>1. bad = {}
  <2> SUFFICES ASSUME bad # {} PROVE FALSE
    OBVIOUS
  <2>1. PICK k \in bad : \A y \in bad : k <= y
    BY LeastNat
  <2>2. CASE k = 0
    <3> DEFINE f == [j \in 0..0 |-> Stepped(kind, d, i, <<>>, j)]
    <3>1. \A j \in 0..0 : Stepped(kind, d, i, f, j) = Stepped(kind, d, i, <<>>, j)
      BY <1>0
    <3>2. f = [j \in 0..0 |-> Stepped(kind, d, i, f, j)]
      BY <3>1, Zenon
    <3> HIDE DEF f
    <3>3. \E h : h = [j \in 0..0 |-> Stepped(kind, d, i, h, j)]
      BY <3>2
    <3> QED BY <2>1, <2>2, <3>3
  <2>3. CASE k # 0
    <3>1. k - 1 \in Nat /\ k - 1 \notin bad
      BY <2>1, <2>3
    <3>2. PICK g : g = [j \in 0..(k - 1) |-> Stepped(kind, d, i, g, j)]
      BY <3>1
    <3> DEFINE f == [j \in 0..k |-> IF j < k THEN g[j] ELSE Stepped(kind, d, i, g, k)]
    <3>3. ASSUME NEW j \in 0..k PROVE f[j] = Stepped(kind, d, i, f, j)
      <4>1. j # 0 => f[j - 1] = g[j - 1]
        BY <2>1
      <4>2. Stepped(kind, d, i, f, j) = Stepped(kind, d, i, g, j)
        BY <1>0, <4>1
      <4>3. CASE j < k
        <5>1. j \in 0..(k - 1)
          BY <2>1, <4>3
        <5>2. g[j] = Stepped(kind, d, i, g, j)
          BY <3>2, <5>1
        <5> QED BY <4>2, <4>3, <5>2
      <4>4. CASE ~(j < k)
        <5>1. j = k
          BY <2>1, <4>4
        <5> QED BY <4>2, <5>1
      <4> QED BY <4>3, <4>4
    <3>4. f = [j \in 0..k |-> f[j]]
      OBVIOUS
    <3> HIDE DEF f
    <3>5. f = [j \in 0..k |-> Stepped(kind, d, i, f, j)]
      BY <3>3, <3>4
    <3>6. \E h : h = [j \in 0..k |-> Stepped(kind, d, i, h, j)]
      BY <3>5
    <3> QED BY <2>1, <3>6
  <2> QED BY <2>2, <2>3
<1> QED BY <1>1

(* What a document is written in.                                          *)
Byte == {"space", "nl", "quote", "backslash", "n", "1", "name_separator", "value_separator",
         "begin_object", "end_object", "begin_array", "end_array"}
          \cup UNION {{t[i] : i \in DOMAIN t} : t \in Texts}

LEMMA ByteFacts ==
  /\ "space" \in Byte /\ "nl" \in Byte /\ "quote" \in Byte /\ "backslash" \in Byte
  /\ "n" \in Byte /\ "1" \in Byte /\ "name_separator" \in Byte /\ "value_separator" \in Byte
  /\ "begin_object" \in Byte /\ "end_object" \in Byte
  /\ "begin_array" \in Byte /\ "end_array" \in Byte
  /\ \A t \in Texts : t \in Seq(Byte) /\ \A i \in 1..Len(t) : t[i] # "ctl"
<1>1. ASSUME NEW t \in Texts PROVE t \in Seq(Byte) /\ \A i \in 1..Len(t) : t[i] # "ctl"
  <2>1. t \in Seq({t[i] : i \in DOMAIN t}) /\ \A i \in DOMAIN t : t[i] # "ctl"
    BY TextsAssumption
  <2>2. \A i \in DOMAIN t : t[i] \in Byte
    BY DEF Byte
  <2> HIDE DEF Byte
  <2> QED BY <2>1, <2>2
<1> QED BY <1>1 DEF Byte

After(d) == CHOOSE f : f = [k \in 0..Len(d) |-> Stepped("read", d, 0, f, k)]
Bytes(d) == CHOOSE f : f = [k \in 0..Len(d) |-> Stepped("encode", d, 0, f, k)]

LEMMA AfterFacts ==
  ASSUME NEW s \in Seq(Byte)
  PROVE  /\ Json!ReadAll(s) = After(s)[Len(s)]
         /\ After(s)[0] = Json!Start
         /\ \A k \in 1..Len(s) : After(s)[k] = Json!Read(After(s)[k - 1], s[k])
<1> DEFINE f == After(s)
<1>1. Json!ReadAll(s) = f[Len(s)]
  BY DEF Json!ReadAll, After, Stepped
<1>2. f = [k \in 0..Len(s) |-> Stepped("read", s, 0, f, k)]
  BY SteppedExists DEF After
<1> HIDE DEF f
<1>3. \A k \in 0..Len(s) : f[k] = Stepped("read", s, 0, f, k)
  BY <1>2
<1>4. f[0] = Json!Start /\ \A k \in 1..Len(s) : f[k] = Json!Read(f[k - 1], s[k])
  <2>1. PICK n \in Nat : n = Len(s)
    OBVIOUS
  <2>2. 0 \in 0..n /\ \A k \in 1..n : k \in 0..n /\ k # 0
    BY <2>1
  <2>3. f[0] = Json!Start
    BY <1>3, <2>1, <2>2 DEF Stepped
  <2>4. \A k \in 1..n : f[k] = Json!Read(f[k - 1], s[k])
    BY <1>3, <2>1, <2>2 DEF Stepped
  <2> QED BY <2>1, <2>3, <2>4
<1> QED BY <1>1, <1>4 DEF f

(* Reading goes byte by byte.                                              *)
LEMMA ReadNone == Json!ReadAll(<<>>) = Json!Start
<1>1. <<>> \in Seq(Byte) /\ Len(<<>>) = 0
  OBVIOUS
<1> QED BY <1>1, AfterFacts

LEMMA ReadOne ==
  ASSUME NEW s \in Seq(Byte), NEW byte \in Byte
  PROVE  Json!ReadAll(Append(s, byte)) = Json!Read(Json!ReadAll(s), byte)
<1> DEFINE t == Append(s, byte)
           f == After(s)
           g == After(t)
<1>1. PICK m \in Nat : m = Len(s)
  OBVIOUS
<1>2. /\ t \in Seq(Byte) /\ Len(t) = m + 1 /\ t[m + 1] = byte
      /\ \A i \in 1..m : t[i] = s[i]
  BY <1>1
<1>3. /\ Json!ReadAll(s) = f[m] /\ f[0] = Json!Start
      /\ \A k \in 1..m : f[k] = Json!Read(f[k - 1], s[k])
  BY <1>1, AfterFacts
<1>4. /\ Json!ReadAll(t) = g[m + 1] /\ g[0] = Json!Start
      /\ \A k \in 1..m + 1 : g[k] = Json!Read(g[k - 1], t[k])
  <2> HIDE DEF t
  <2> QED BY <1>2, AfterFacts
<1> HIDE DEF t, f, g
<1>5. \A k \in 0..m : g[k] = f[k]
  <2> DEFINE bad == {k \in Nat : k \in 0..m /\ g[k] # f[k]}
  <2> SUFFICES ASSUME bad # {} PROVE FALSE
    OBVIOUS
  <2>1. PICK k \in bad : \A y \in bad : k <= y
    BY LeastNat
  <2>2. k # 0
    BY <1>3, <1>4, <2>1
  <2>3. k \in 1..m /\ k \in 1..m + 1 /\ k - 1 \in 0..m /\ k - 1 \in Nat /\ ~(k <= k - 1)
    BY <1>1, <2>1, <2>2
  <2>4. g[k - 1] = f[k - 1]
    BY <2>1, <2>3
  <2>5. g[k] = f[k]
    BY <1>2, <1>3, <1>4, <2>3, <2>4
  <2> QED BY <2>1, <2>5
<1>6. PICK n \in 1..m + 1 : n = m + 1 /\ n - 1 = m /\ m \in 0..m
  BY <1>1
<1>7. g[n] = Json!Read(g[m], byte)
  <2>1. g[n] = Json!Read(g[n - 1], t[n])
    BY <1>4
  <2> QED BY <1>2, <1>6, <2>1
<1> QED BY <1>3, <1>4, <1>5, <1>6, <1>7 DEF t

(* What is read of the bytes that the builder writes.                      *)
Wanted == {"value", "value_or_close", "key", "key_or_close", "colon", "char", "escaped",
           "comma_or_close", "end", "nothing"}
Readers == [wants : Wanted, open : Seq({"end_object", "end_array"}), strings : Seq(Seq(Byte)), key : BOOLEAN]

Blank(r) == r.wants \notin {"char", "escaped"}

LEMMA ReadBlanks ==
  ASSUME NEW s \in Seq(Byte), NEW t \in Seq({"space", "nl"}), Blank(Json!ReadAll(s))
  PROVE  s \o t \in Seq(Byte) /\ Json!ReadAll(s \o t) = Json!ReadAll(s)
<1> DEFINE r == Json!ReadAll(s)
           Until(k) == SubSeq(t, 1, k)
           bad == {k \in Nat : k \in 0..Len(t) /\ ~(s \o Until(k) \in Seq(Byte) /\ Json!ReadAll(s \o Until(k)) = r)}
<1>1. \A byte \in {"space", "nl"} : Json!Read(r, byte) = r
  BY DEF Json!Read, Json!InString, Json!AfterBackslash, Json!BetweenStrings,
     Json!OpenString, Json!Complete, Json!Bad, Json!CanStart, 
     Json!Quote, Json!Backslash, Json!Space, Json!NewLine, Json!Control, Json!BeginObject,
     Json!EndObject, Json!BeginArray, Json!EndArray, Json!NameSeparator, Json!ValueSeparator, Blank
<1>2. bad = {}
  <2> SUFFICES ASSUME bad # {} PROVE FALSE
    OBVIOUS
  <2>1. PICK k \in bad : \A y \in bad : k <= y
    BY LeastNat
  <2>2. PICK n \in Nat : n = Len(t)
    OBVIOUS
  <2>3. Until(0) = <<>> /\ s \o <<>> = s
    OBVIOUS
  <2>4. k # 0
    BY <2>1, <2>3
  <2>5. k \in 1..n /\ k - 1 \in 0..n /\ k - 1 \in Nat /\ ~(k <= k - 1)
    BY <2>1, <2>2, <2>4
  <2>6. s \o Until(k - 1) \in Seq(Byte) /\ Json!ReadAll(s \o Until(k - 1)) = r
    BY <2>1, <2>2, <2>5
  <2>7. s \o Until(k) = Append(s \o Until(k - 1), t[k]) /\ t[k] \in {"space", "nl"}
    BY <2>2, <2>5
  <2>8. s \o Until(k) \in Seq(Byte) /\ Json!ReadAll(s \o Until(k)) = r
    <3> DEFINE u == s \o Until(k - 1)
    <3>1. u \in Seq(Byte) /\ t[k] \in Byte /\ s \o Until(k) = Append(u, t[k])
      BY <2>6, <2>7, ByteFacts
    <3>2. Json!ReadAll(u) = r
      BY <2>6
    <3>3. Json!ReadAll(Append(u, t[k])) = Json!Read(Json!ReadAll(u), t[k])
      <4> HIDE DEF u
      <4> QED BY <3>1, ReadOne
    <3>4. Append(u, t[k]) \in Seq(Byte)
      <4> HIDE DEF u
      <4> QED BY <3>1
    <3> HIDE DEF u, r, Until
    <3> QED BY <1>1, <2>7, <3>1, <3>2, <3>3, <3>4
  <2> QED BY <2>1, <2>8
<1>3. PICK n \in Nat : n = Len(t) /\ Until(n) = t
  OBVIOUS
<1>4. n \notin bad /\ n \in 0..Len(t)
  BY <1>2, <1>3
<1> HIDE DEF Until
<1> QED BY <1>3, <1>4

Grown(r, w) ==
  [wants |-> "char", open |-> r.open, key |-> r.key,
   strings |-> [r.strings EXCEPT ![Len(r.strings)] = @ \o w]]

Saying(r) == r \in Readers /\ r.wants = "char" /\ r.strings # <<>>

LEMMA Joined ==
  ASSUME NEW a \in Seq(Byte), NEW w \in Seq(Byte), NEW c \in Byte
  PROVE  a \o Append(w, c) = (a \o w) \o <<c>> /\ a \o <<c>> = Append(a, c) /\ a \o <<>> = a
  OBVIOUS

LEMMA GrownFacts ==
  ASSUME NEW r, Saying(r)
  PROVE  /\ Grown(r, <<>>) = r
         /\ \A w \in Seq(Byte) :
              /\ Saying(Grown(r, w))
              /\ \A c \in Byte : Grown(Grown(r, w), <<c>>) = Grown(r, Append(w, c))
<1> DEFINE parts == r.strings
<1>1. PICK n \in Nat \ {0} : n = Len(parts) /\ parts[n] \in Seq(Byte)
  BY DEF Saying, Readers
<1>2. r = [wants |-> "char", open |-> r.open, key |-> r.key, strings |-> parts] /\ parts \in Seq(Seq(Byte))
  BY DEF Saying, Readers
<1>3. \A v \in Seq(Byte) : /\ [parts EXCEPT ![n] = v] \in Seq(Seq(Byte))
                             /\ Len([parts EXCEPT ![n] = v]) = n
                             /\ [parts EXCEPT ![n] = v][n] = v
                             /\ [parts EXCEPT ![n] = v] # <<>>
  BY <1>1, <1>2
<1>4. [parts EXCEPT ![n] = parts[n]] = parts
  BY <1>2
<1>5. Grown(r, <<>>) = r
  BY <1>1, <1>2, <1>4 DEF Grown
<1>6. ASSUME NEW w \in Seq(Byte)
      PROVE  /\ Saying(Grown(r, w))
             /\ \A c \in Byte : Grown(Grown(r, w), <<c>>) = Grown(r, Append(w, c))
  <2> DEFINE v == parts[n] \o w
             g == Grown(r, w)
  <2>1. v \in Seq(Byte)
    BY <1>1
  <2>2. g = [wants |-> "char", open |-> r.open, key |-> r.key, strings |-> [parts EXCEPT ![n] = v]]
    BY <1>1 DEF Grown
  <2>3. Saying(g)
    <3>1. r.open \in Seq({"end_object", "end_array"}) /\ r.key \in BOOLEAN
      BY DEF Saying, Readers
    <3> HIDE DEF v, parts
    <3> QED BY <1>3, <2>1, <2>2, <3>1 DEF Saying, Readers, Wanted
  <2>4. ASSUME NEW c \in Byte PROVE Grown(g, <<c>>) = Grown(r, Append(w, c))
    <3>1. parts[n] \o Append(w, c) = v \o <<c>>
      BY <1>1, Joined
    <3>2. g.strings = [parts EXCEPT ![n] = v] /\ Len(g.strings) = n /\ g.strings[n] = v
      <4> HIDE DEF v, parts
      <4> QED BY <1>3, <2>1, <2>2
    <3>3. Grown(g, <<c>>) = [wants |-> "char", open |-> r.open, key |-> r.key,
                             strings |-> [[parts EXCEPT ![n] = v] EXCEPT ![n] = v \o <<c>>]]
      <4> HIDE DEF v, parts
      <4> QED BY <2>2, <3>2 DEF Grown
    <3>4. Grown(r, Append(w, c)) = [wants |-> "char", open |-> r.open, key |-> r.key,
                                    strings |-> [parts EXCEPT ![n] = v \o <<c>>]]
      BY <1>1, <3>1 DEF Grown
    <3>5. [[parts EXCEPT ![n] = v] EXCEPT ![n] = v \o <<c>>] = [parts EXCEPT ![n] = v \o <<c>>]
      <4> HIDE DEF v
      <4> QED BY <1>2
    <3> QED BY <3>3, <3>4, <3>5
  <2> QED BY <2>3, <2>4
<1> QED BY <1>5, <1>6

(* The encoded character is read back as it was.                           *)
LEMMA EncodeFacts ==
  ASSUME NEW r, Saying(r), NEW c \in Byte, c # "ctl"
  PROVE  \/ \E e \in Byte : /\ Json!Encode(c) = <<"backslash", e>>
                              /\ Json!Read(Json!Read(r, "backslash"), e) = Grown(r, <<c>>)
         \/ Json!Encode(c) = <<c>> /\ Json!Read(r, c) = Grown(r, <<c>>)
<1>1. PICK n \in Nat \ {0} : n = Len(r.strings) /\ r.strings[n] \in Seq(Byte)
  BY DEF Saying, Readers
<1>2. r.strings[n] \o <<c>> = Append(r.strings[n], c)
  BY <1>1, Joined
<1>3. r = [wants |-> "char", open |-> r.open, key |-> r.key, strings |-> r.strings]
  BY DEF Saying, Readers
<1> DEFINE parts == [r.strings EXCEPT ![n] = Append(@, c)]
<1>4. Grown(r, <<c>>) = [wants |-> "char", open |-> r.open, key |-> r.key, strings |-> parts]
  BY <1>1, <1>2 DEF Grown
<1>5. /\ Json!AddChar(r, c) = Grown(r, <<c>>)
      /\ Json!AddChar([r EXCEPT !.wants = "escaped"], c) = Grown(r, <<c>>)
  <2>1. ASSUME NEW w
        PROVE  Json!AddChar([r EXCEPT !.wants = w], c)
                 = [wants |-> "char", open |-> r.open, key |-> r.key, strings |-> parts]
    <3>1. [r EXCEPT !.wants = w] = [wants |-> w, open |-> r.open, key |-> r.key, strings |-> r.strings]
      BY <1>3
    <3> DEFINE R == [wants |-> w, open |-> r.open, key |-> r.key, strings |-> r.strings]
    <3>2. Len(R.strings) = n /\ R.strings[n] = r.strings[n]
      BY <1>1
    <3>3. Json!AddChar(R, c)
            = [R EXCEPT !.wants = "char", !.strings = [R.strings EXCEPT ![n] = Append(@, c)]]
      BY <3>2 DEF Json!AddChar
    <3> QED BY <3>1, <3>3
  <2>2. r = [r EXCEPT !.wants = "char"]
    BY <1>3
  <2> QED BY <1>4, <2>1, <2>2
<1>6. Json!Read(r, "backslash") = [r EXCEPT !.wants = "escaped"]
  BY DEF Json!Read, Json!InString, Json!AfterBackslash, Json!BetweenStrings,
     Json!OpenString, Json!Complete, Json!Bad, Json!CanStart, 
     Json!Quote, Json!Backslash, Json!Space, Json!NewLine, Json!Control, Json!BeginObject,
     Json!EndObject, Json!BeginArray, Json!EndArray, Json!NameSeparator, Json!ValueSeparator, Saying
<1>7. [r EXCEPT !.wants = "escaped"].wants = "escaped"
  BY <1>3
<1>8. CASE c \in {"quote", "backslash"}
  <2>1. Json!Encode(c) = <<"backslash", c>>
    BY <1>8 DEF Json!Encode, 
     Json!Quote, Json!Backslash, Json!Space, Json!NewLine, Json!Control, Json!BeginObject,
     Json!EndObject, Json!BeginArray, Json!EndArray, Json!NameSeparator, Json!ValueSeparator
  <2>2. Json!Read([r EXCEPT !.wants = "escaped"], c) = Grown(r, <<c>>)
    BY <1>5, <1>7, <1>8 DEF Json!Read, Json!InString, Json!AfterBackslash, Json!BetweenStrings,
     Json!OpenString, Json!Complete, Json!Bad, Json!CanStart, 
     Json!Quote, Json!Backslash, Json!Space, Json!NewLine, Json!Control, Json!BeginObject,
     Json!EndObject, Json!BeginArray, Json!EndArray, Json!NameSeparator, Json!ValueSeparator, Saying
  <2> QED BY <1>6, <2>1, <2>2
<1>9. CASE c = "nl"
  <2>1. Json!Encode(c) = <<"backslash", "n">>
    BY <1>9 DEF Json!Encode, 
     Json!Quote, Json!Backslash, Json!Space, Json!NewLine, Json!Control, Json!BeginObject,
     Json!EndObject, Json!BeginArray, Json!EndArray, Json!NameSeparator, Json!ValueSeparator
  <2>2. Json!Read([r EXCEPT !.wants = "escaped"], "n") = Grown(r, <<c>>)
    BY <1>5, <1>7, <1>9 DEF Json!Read, Json!InString, Json!AfterBackslash, Json!BetweenStrings,
     Json!OpenString, Json!Complete, Json!Bad, Json!CanStart, 
     Json!Quote, Json!Backslash, Json!Space, Json!NewLine, Json!Control, Json!BeginObject,
     Json!EndObject, Json!BeginArray, Json!EndArray, Json!NameSeparator, Json!ValueSeparator, Saying
  <2> QED BY <1>6, <2>1, <2>2, ByteFacts
<1>10. CASE c \notin {"quote", "backslash", "nl"}
  <2>1. Json!Encode(c) = <<c>>
    BY <1>10 DEF Json!Encode, 
     Json!Quote, Json!Backslash, Json!Space, Json!NewLine, Json!Control, Json!BeginObject,
     Json!EndObject, Json!BeginArray, Json!EndArray, Json!NameSeparator, Json!ValueSeparator
  <2>2. Json!Read(r, c) = Grown(r, <<c>>)
    BY <1>5, <1>10 DEF Json!Read, Json!InString, Json!AfterBackslash, Json!BetweenStrings,
     Json!OpenString, Json!Complete, Json!Bad, Json!CanStart, 
     Json!Quote, Json!Backslash, Json!Space, Json!NewLine, Json!Control, Json!BeginObject,
     Json!EndObject, Json!BeginArray, Json!EndArray, Json!NameSeparator, Json!ValueSeparator, Saying
  <2> QED BY <2>1, <2>2
<1> QED BY <1>8, <1>9, <1>10

LEMMA BytesFacts ==
  ASSUME NEW t \in Seq(Byte)
  PROVE  /\ Json!Encoded(t) = Bytes(t)[Len(t)]
         /\ Bytes(t)[0] = <<>>
         /\ \A k \in 1..Len(t) : Bytes(t)[k] = Bytes(t)[k - 1] \o Json!Encode(t[k])
<1> DEFINE f == Bytes(t)
<1>1. Json!Encoded(t) = f[Len(t)]
  BY DEF Json!Encoded, Bytes, Stepped
<1>2. f = [k \in 0..Len(t) |-> Stepped("encode", t, 0, f, k)]
  BY SteppedExists DEF Bytes
<1> HIDE DEF f
<1>3. \A k \in 0..Len(t) : f[k] = Stepped("encode", t, 0, f, k)
  BY <1>2
<1>4. f[0] = <<>> /\ \A k \in 1..Len(t) : f[k] = f[k - 1] \o Json!Encode(t[k])
  <2>1. PICK n \in Nat : n = Len(t)
    OBVIOUS
  <2>2. 0 \in 0..n /\ \A k \in 1..n : k \in 0..n /\ k # 0
    BY <2>1
  <2>3. f[0] = <<>>
    BY <1>3, <2>1, <2>2 DEF Stepped
  <2>4. \A k \in 1..n : f[k] = f[k - 1] \o Json!Encode(t[k])
    BY <1>3, <2>1, <2>2 DEF Stepped
  <2> QED BY <2>1, <2>3, <2>4
<1> QED BY <1>1, <1>4 DEF f

(* Reading of one more character.                                          *)
LEMMA ReadEncode ==
  ASSUME NEW s \in Seq(Byte), NEW g \in Seq(Byte), NEW c \in Byte, c # "ctl",
         Saying(Json!ReadAll(s \o g))
  PROVE  /\ g \o Json!Encode(c) \in Seq(Byte)
         /\ Json!ReadAll(s \o (g \o Json!Encode(c))) = Grown(Json!ReadAll(s \o g), <<c>>)
<1> DEFINE u == s \o g
<1>1. u \in Seq(Byte)
  OBVIOUS
<1>2. Saying(Json!ReadAll(u))
  OBVIOUS
<1>3. CASE \E e \in Byte : /\ Json!Encode(c) = <<"backslash", e>>
                           /\ Json!Read(Json!Read(Json!ReadAll(u), "backslash"), e) = Grown(Json!ReadAll(u), <<c>>)
  <2>1. PICK e \in Byte : /\ Json!Encode(c) = <<"backslash", e>>
                          /\ Json!Read(Json!Read(Json!ReadAll(u), "backslash"), e) = Grown(Json!ReadAll(u), <<c>>)
    BY <1>3
  <2>2. PICK b \in Byte : b = "backslash"
    BY ByteFacts
  <2>3. g \o <<b, e>> \in Seq(Byte) /\ s \o (g \o <<b, e>>) = Append(Append(u, b), e)
    OBVIOUS
  <2>4. Append(u, b) \in Seq(Byte)
    BY <1>1
  <2> HIDE DEF u
  <2>5. Json!ReadAll(Append(Append(u, b), e)) = Json!Read(Json!Read(Json!ReadAll(u), b), e)
    BY <1>1, <2>4, ReadOne
  <2> QED BY <2>1, <2>2, <2>3, <2>5 DEF u
<1>4. CASE Json!Encode(c) = <<c>> /\ Json!Read(Json!ReadAll(u), c) = Grown(Json!ReadAll(u), <<c>>)
  <2>1. g \o <<c>> \in Seq(Byte) /\ s \o (g \o <<c>>) = Append(u, c)
    OBVIOUS
  <2> HIDE DEF u
  <2>2. Json!ReadAll(Append(u, c)) = Json!Read(Json!ReadAll(u), c)
    BY <1>1, ReadOne
  <2> QED BY <1>4, <2>1, <2>2 DEF u
<1> HIDE DEF u
<1>5. QED
  BY <1>2, <1>3, <1>4, EncodeFacts

(* And so of the whole text.                                               *)
LEMMA ReadEncoded ==
  ASSUME NEW s \in Seq(Byte), Saying(Json!ReadAll(s)),
         NEW t \in Seq(Byte), \A i \in 1..Len(t) : t[i] # "ctl"
  PROVE  /\ Json!Encoded(t) \in Seq(Byte)
         /\ Json!ReadAll(s \o Json!Encoded(t)) = Grown(Json!ReadAll(s), t)
<1> DEFINE r == Json!ReadAll(s)
           f == Bytes(t)
           Until(k) == SubSeq(t, 1, k)
           Right(k) == f[k] \in Seq(Byte) /\ Json!ReadAll(s \o f[k]) = Grown(r, Until(k))
           bad == {k \in Nat : k \in 0..Len(t) /\ ~Right(k)}
<1>1. PICK n \in Nat : n = Len(t) /\ Until(n) = t /\ Until(0) = <<>>
  OBVIOUS
<1>2. /\ Json!Encoded(t) = f[n] /\ f[0] = <<>>
      /\ \A k \in 1..n : f[k] = f[k - 1] \o Json!Encode(t[k])
  BY <1>1, BytesFacts
<1>3. /\ Grown(r, <<>>) = r
      /\ \A w \in Seq(Byte) : /\ Saying(Grown(r, w))
                              /\ \A c \in Byte : Grown(Grown(r, w), <<c>>) = Grown(r, Append(w, c))
  BY GrownFacts
<1>4. \A k \in 1..n : /\ Until(k - 1) \in Seq(Byte) /\ t[k] \in Byte
                      /\ Until(k) = Append(Until(k - 1), t[k])
  BY <1>1
<1> HIDE DEF f, r, Until
<1>5. Right(0)
  <2>1. s \o <<>> = s /\ <<>> \in Seq(Byte)
    OBVIOUS
  <2> QED BY <1>1, <1>2, <1>3, <2>1 DEF r
<1>6. ASSUME NEW k \in 1..n, Right(k - 1) PROVE Right(k)
  <2> DEFINE g == f[k - 1]
             c == t[k]
             w == Until(k - 1)
  <2>1. g \in Seq(Byte) /\ Json!ReadAll(s \o g) = Grown(r, w) /\ w \in Seq(Byte) /\ c \in Byte /\ c # "ctl"
    BY <1>1, <1>4, <1>6
  <2>2. f[k] = g \o Json!Encode(c) /\ Until(k) = Append(w, c)
    BY <1>2, <1>4
  <2> HIDE DEF g, c, w
  <2>3. Saying(Json!ReadAll(s \o g))
    BY <1>3, <2>1
  <2>4. g \o Json!Encode(c) \in Seq(Byte) /\ Json!ReadAll(s \o (g \o Json!Encode(c))) = Grown(Grown(r, w), <<c>>)
    BY <2>1, <2>3, ReadEncode
  <2> QED BY <1>3, <2>1, <2>2, <2>4
<1> HIDE DEF Right
<1>7. bad = {}
  <2> SUFFICES ASSUME bad # {} PROVE FALSE
    OBVIOUS
  <2>1. PICK k \in bad : \A y \in bad : k <= y
    BY LeastNat
  <2>2. k # 0
    BY <1>5, <2>1
  <2>3. k \in 1..n /\ k - 1 \in 0..n /\ k - 1 \in Nat /\ ~(k <= k - 1)
    BY <1>1, <2>1, <2>2
  <2>4. Right(k - 1)
    BY <1>1, <2>1, <2>3
  <2> QED BY <1>6, <2>1, <2>3, <2>4
<1>8. Right(n)
  BY <1>1, <1>7
<1> QED BY <1>1, <1>2, <1>8 DEF Right, r

(* The builder, as normalize_mode leaves it.                               *)
Brackets == {"end_object", "end_array"}
Builders == [out : Seq(Byte), stack : Seq(Brackets),
             mode : {"NORMAL", "IN_VALUE", "AFTER_VALUE"}, need_indent : BOOLEAN]

LEMMA BuilderFacts ==
  ASSUME NEW b \in Builders
  PROVE  /\ b.out \in Seq(Byte) /\ b.stack \in Seq(Brackets) /\ b.need_indent \in BOOLEAN
         /\ b.mode \in {"NORMAL", "IN_VALUE", "AFTER_VALUE"}
         /\ b = [out |-> b.out, stack |-> b.stack, mode |-> b.mode, need_indent |-> b.need_indent]
  BY DEF Builders

LEMMA PushFactsJson ==
  ASSUME NEW b \in Builders, NEW t \in Seq(Byte)
  PROVE  /\ Json!Push(b, t) \in Builders
         /\ Json!Push(b, t).out = b.out \o t
         /\ Json!Push(b, t).stack = b.stack
         /\ Json!Push(b, t).mode = b.mode
         /\ Json!Push(b, t).need_indent = b.need_indent
<1>0. b.out \in Seq(Byte)
  BY BuilderFacts
<1>1. b.out \o t \in Seq(Byte)
  BY <1>0
<1> DEFINE w == b.out \o t
<1>2. Json!Push(b, t) = [b EXCEPT !.out = w]
  BY DEF Json!Push
<1> HIDE DEF w
<1>3. [b EXCEPT !.out = w] = [out |-> w, stack |-> b.stack, mode |-> b.mode, need_indent |-> b.need_indent]
  BY DEF Builders
<1>4. Json!Push(b, t) \in Builders
  BY <1>1, <1>2, <1>3, BuilderFacts DEF Builders, w
<1> QED BY <1>2, <1>3, <1>4 DEF w

LEMMA PushOne ==
  ASSUME NEW b \in Builders, NEW byte \in Byte
  PROVE  /\ Json!Push(b, <<byte>>) \in Builders
         /\ Json!Push(b, <<byte>>).stack = b.stack
         /\ Json!Push(b, <<byte>>).mode = b.mode
         /\ Json!Push(b, <<byte>>).need_indent = b.need_indent
         /\ Json!ReadAll(Json!Push(b, <<byte>>).out) = Json!Read(Json!ReadAll(b.out), byte)
<1>1. <<byte>> \in Seq(Byte) /\ b.out \in Seq(Byte)
  BY BuilderFacts
<1>2. b.out \o <<byte>> = Append(b.out, byte)
  BY <1>1
<1>3. Json!ReadAll(Append(b.out, byte)) = Json!Read(Json!ReadAll(b.out), byte)
  BY <1>1, ReadOne
<1> QED BY <1>1, <1>2, <1>3, PushFactsJson

(* What one of the signs of the builder is read as.                        *)
LEMMA ReadSigns ==
  ASSUME NEW r \in Readers
  PROVE  /\ r.wants = "char" /\ ~r.key => Json!Read(r, "quote") = Json!Complete(r)
         /\ r.wants = "char" /\ r.key => Json!Read(r, "quote") = [r EXCEPT !.wants = "colon"]
         /\ r.wants = "colon" => Json!Read(r, "name_separator") = [r EXCEPT !.wants = "value"]
         /\ r.wants = "comma_or_close" =>
              Json!Read(r, "value_separator") =
                [r EXCEPT !.wants = IF r.open[Len(r.open)] = "end_object" THEN "key" ELSE "value"]
         /\ r.wants \in {"key", "key_or_close"} =>
              Json!Read(r, "quote") =
                [r EXCEPT !.wants = "char", !.key = TRUE, !.strings = Append(r.strings, <<>>)]
         /\ r.wants \in {"value", "value_or_close"} =>
              /\ Json!Read(r, "quote") =
                   [r EXCEPT !.wants = "char", !.key = FALSE, !.strings = Append(r.strings, <<>>)]
              /\ Json!Read(r, "1") = Json!Complete(r)
              /\ Json!Read(r, "begin_object") =
                   [r EXCEPT !.wants = "key_or_close", !.open = Append(r.open, "end_object")]
              /\ Json!Read(r, "begin_array") =
                   [r EXCEPT !.wants = "value_or_close", !.open = Append(r.open, "end_array")]
<1>1. r.wants = "char" => Json!Read(r, "quote") = IF r.key THEN [r EXCEPT !.wants = "colon"] ELSE Json!Complete(r)
  BY DEF Json!Read, Json!InString, Json!AfterBackslash, Json!BetweenStrings,
     Json!OpenString, Json!Complete, Json!Bad, Json!CanStart,
     Json!Quote, Json!Backslash, Json!Space, Json!NewLine, Json!Control, Json!BeginObject,
     Json!EndObject, Json!BeginArray, Json!EndArray, Json!NameSeparator, Json!ValueSeparator
<1>2. r.wants = "colon" => Json!Read(r, "name_separator") = [r EXCEPT !.wants = "value"]
  BY DEF Json!Read, Json!InString, Json!AfterBackslash, Json!BetweenStrings,
     Json!OpenString, Json!Complete, Json!Bad, Json!CanStart,
     Json!Quote, Json!Backslash, Json!Space, Json!NewLine, Json!Control, Json!BeginObject,
     Json!EndObject, Json!BeginArray, Json!EndArray, Json!NameSeparator, Json!ValueSeparator
<1>3. r.wants = "comma_or_close" =>
        Json!Read(r, "value_separator") =
          [r EXCEPT !.wants = IF r.open[Len(r.open)] = "end_object" THEN "key" ELSE "value"]
  BY DEF Json!Read, Json!InString, Json!AfterBackslash, Json!BetweenStrings,
     Json!OpenString, Json!Complete, Json!Bad, Json!CanStart,
     Json!Quote, Json!Backslash, Json!Space, Json!NewLine, Json!Control, Json!BeginObject,
     Json!EndObject, Json!BeginArray, Json!EndArray, Json!NameSeparator, Json!ValueSeparator, Json!Last
<1>4. r.wants \in {"key", "key_or_close"} =>
        Json!Read(r, "quote") =
          [r EXCEPT !.wants = "char", !.key = TRUE, !.strings = Append(r.strings, <<>>)]
  BY DEF Json!Read, Json!InString, Json!AfterBackslash, Json!BetweenStrings,
     Json!OpenString, Json!Complete, Json!Bad, Json!CanStart,
     Json!Quote, Json!Backslash, Json!Space, Json!NewLine, Json!Control, Json!BeginObject,
     Json!EndObject, Json!BeginArray, Json!EndArray, Json!NameSeparator, Json!ValueSeparator
<1>5. ASSUME r.wants \in {"value", "value_or_close"}
      PROVE  Json!Read(r, "quote") =
               [r EXCEPT !.wants = "char", !.key = FALSE, !.strings = Append(r.strings, <<>>)]
  BY <1>5 DEF Json!Read, Json!InString, Json!AfterBackslash, Json!BetweenStrings,
     Json!OpenString, Json!Complete, Json!Bad, Json!CanStart,
     Json!Quote, Json!Backslash, Json!Space, Json!NewLine, Json!Control, Json!BeginObject,
     Json!EndObject, Json!BeginArray, Json!EndArray, Json!NameSeparator, Json!ValueSeparator
<1>6. ASSUME r.wants \in {"value", "value_or_close"} PROVE Json!Read(r, "1") = Json!Complete(r)
  BY <1>6 DEF Json!Read, Json!InString, Json!AfterBackslash, Json!BetweenStrings,
     Json!OpenString, Json!Complete, Json!Bad, Json!CanStart,
     Json!Quote, Json!Backslash, Json!Space, Json!NewLine, Json!Control, Json!BeginObject,
     Json!EndObject, Json!BeginArray, Json!EndArray, Json!NameSeparator, Json!ValueSeparator
<1>7. ASSUME r.wants \in {"value", "value_or_close"}
      PROVE  /\ Json!Read(r, "begin_object") =
                  [r EXCEPT !.wants = "key_or_close", !.open = Append(r.open, "end_object")]
             /\ Json!Read(r, "begin_array") =
                   [r EXCEPT !.wants = "value_or_close", !.open = Append(r.open, "end_array")]
  BY <1>7 DEF Json!Read, Json!InString, Json!AfterBackslash, Json!BetweenStrings,
     Json!OpenString, Json!Complete, Json!Bad, Json!CanStart,
     Json!Quote, Json!Backslash, Json!Space, Json!NewLine, Json!Control, Json!BeginObject,
     Json!EndObject, Json!BeginArray, Json!EndArray, Json!NameSeparator, Json!ValueSeparator
<1> QED BY <1>1, <1>2, <1>3, <1>4, <1>5, <1>6, <1>7, Zenon

(* The closing bracket is that on the stack.                               *)
LEMMA ReadClosing ==
  ASSUME NEW r \in Readers, r.open # <<>>,
         r.wants \in {"comma_or_close", "key_or_close", "value_or_close"}
  PROVE  /\ r.open[Len(r.open)] \in Brackets
         /\ SubSeq(r.open, 1, Len(r.open) - 1) \in Seq(Brackets)
         /\ Json!Read(r, r.open[Len(r.open)]) =
              Json!Complete([r EXCEPT !.open = SubSeq(r.open, 1, Len(r.open) - 1)])
<1>1. r.open \in Seq(Brackets) /\ Len(r.open) \in Nat /\ Len(r.open) # 0
  BY DEF Readers, Brackets
<1>2. r.open[Len(r.open)] \in Brackets /\ SubSeq(r.open, 1, Len(r.open) - 1) \in Seq(Brackets)
  BY <1>1
<1>3. PICK c : c = r.open[Len(r.open)]
  OBVIOUS
<1>4. Json!Read(r, c) = Json!Complete([r EXCEPT !.open = SubSeq(r.open, 1, Len(r.open) - 1)])
  BY <1>2, <1>3 DEF Json!Read, Json!InString, Json!AfterBackslash, Json!BetweenStrings,
     Json!OpenString, Json!Complete, Json!Bad, Json!CanStart,
     Json!Quote, Json!Backslash, Json!Space, Json!NewLine, Json!Control, Json!BeginObject,
     Json!EndObject, Json!BeginArray, Json!EndArray, Json!NameSeparator, Json!ValueSeparator, Json!Last, Json!Front, Brackets
<1> QED BY <1>2, <1>3, <1>4

LEMMA CompleteFacts ==
  ASSUME NEW r \in Readers
  PROVE  /\ Json!Complete(r) \in Readers /\ Blank(Json!Complete(r))
         /\ Json!Complete(r).open = r.open /\ Json!Complete(r).strings = r.strings
         /\ Json!Complete(r).wants = IF r.open = <<>> THEN "end" ELSE "comma_or_close"
<1>1. r = [wants |-> r.wants, open |-> r.open, strings |-> r.strings, key |-> r.key]
  BY DEF Readers
<1>2. Json!Complete(r) = [wants |-> IF r.open = <<>> THEN "end" ELSE "comma_or_close",
                          open |-> r.open, strings |-> r.strings, key |-> r.key]
  BY <1>1 DEF Json!Complete
<1> QED BY <1>2 DEF Readers, Wanted, Blank

ReadClosed(b, r) == IF b.mode = "IN_VALUE" THEN Json!Complete(r) ELSE r

(* The open string is closed, a comma separates values, and blanks do not  *)
(* matter.                                                                 *)
LEMMA Normalized ==
  ASSUME NEW b \in Builders, NEW r \in Readers, r = Json!ReadAll(b.out),
         IF b.mode = "IN_VALUE" THEN r.wants = "char" /\ ~r.key ELSE Blank(r),
         NEW sv \in BOOLEAN,
         sv /\ b.mode # "NORMAL" => ReadClosed(b, r).wants = "comma_or_close"
  PROVE  \E n \in Builders :
           /\ n = Json!normalize_mode(b, sv)
           /\ n.stack = b.stack
           /\ n.mode = IF sv THEN "NORMAL" ELSE IF b.mode = "IN_VALUE" THEN "AFTER_VALUE" ELSE b.mode
           /\ Json!ReadAll(n.out) = IF sv /\ b.mode # "NORMAL"
                                    THEN Json!Read(ReadClosed(b, r), "value_separator")
                                    ELSE ReadClosed(b, r)
           /\ ~sv /\ ~b.need_indent /\ b.mode # "IN_VALUE" => n = b
<1> DEFINE closed == IF b.mode = "IN_VALUE"
                     THEN [Json!Push(b, <<"quote">>) EXCEPT !.mode = "AFTER_VALUE"] ELSE b
           separated == IF sv /\ closed.mode = "AFTER_VALUE"
                        THEN [Json!Push(closed, <<"value_separator">>) EXCEPT !.mode = "NORMAL"] ELSE closed
           blanks == IF Json!EndsWith(separated, "name_separator") THEN <<"space">>
                     ELSE <<"nl">> \o [i \in DOMAIN b.stack |-> "space"]
           n == IF b.need_indent THEN [Json!Push(separated, blanks) EXCEPT !.need_indent = FALSE] ELSE separated
           rc == ReadClosed(b, r)
           rs == IF sv /\ b.mode # "NORMAL" THEN Json!Read(rc, "value_separator") ELSE rc
<1>1. n = Json!normalize_mode(b, sv)
  BY DEF Json!normalize_mode, Json!Quote, Json!ValueSeparator, Json!NameSeparator, Json!Space, Json!NewLine
<1>2. /\ closed \in Builders /\ closed.stack = b.stack /\ closed.need_indent = b.need_indent
      /\ closed.mode = IF b.mode = "IN_VALUE" THEN "AFTER_VALUE" ELSE b.mode
      /\ Json!ReadAll(closed.out) = rc
      /\ b.mode # "IN_VALUE" => closed = b
  <2>1. CASE b.mode = "IN_VALUE"
    <3>1. PICK p \in Builders : /\ p = Json!Push(b, <<"quote">>)
                                /\ p.stack = b.stack /\ p.need_indent = b.need_indent
                                /\ Json!ReadAll(p.out) = Json!Read(r, "quote")
      BY PushOne, ByteFacts, ZenonT(10)
    <3>2. Json!Read(r, "quote") = Json!Complete(r)
      BY <2>1, ReadSigns, Zenon
    <3>3. closed = [out |-> p.out, stack |-> p.stack, mode |-> "AFTER_VALUE", need_indent |-> p.need_indent]
      BY <2>1, <3>1, BuilderFacts
    <3> HIDE DEF closed
    <3> QED BY <2>1, <3>1, <3>2, <3>3, BuilderFacts DEF Builders, ReadClosed
  <2>2. CASE b.mode # "IN_VALUE"
    BY <2>2 DEF ReadClosed
  <2> QED BY <2>1, <2>2
<1>3. rc \in Readers /\ Blank(rc)
  BY CompleteFacts DEF ReadClosed
<1> HIDE DEF closed, rc
<1>4. /\ separated \in Builders /\ separated.stack = b.stack /\ separated.need_indent = b.need_indent
      /\ separated.mode = IF sv THEN "NORMAL" ELSE IF b.mode = "IN_VALUE" THEN "AFTER_VALUE" ELSE b.mode
      /\ Json!ReadAll(separated.out) = rs
      /\ ~sv /\ b.mode # "IN_VALUE" => separated = b
      /\ Blank(rs)
  <2>1. CASE sv /\ b.mode # "NORMAL"
    <3>1. PICK p \in Builders : /\ p = Json!Push(closed, <<"value_separator">>)
                                /\ p.stack = b.stack /\ p.need_indent = b.need_indent
                                /\ Json!ReadAll(p.out) = Json!Read(rc, "value_separator")
      BY <1>2, PushOne, ByteFacts
    <3>2. closed.mode = "AFTER_VALUE"
      BY <1>2, <2>1, BuilderFacts
    <3>3. separated = [out |-> p.out, stack |-> p.stack, mode |-> "NORMAL", need_indent |-> p.need_indent]
      BY <2>1, <3>1, <3>2, BuilderFacts
    <3>4. Blank(Json!Read(rc, "value_separator"))
      <4>1. rc.wants = "comma_or_close"
        BY <2>1, ZenonT(10) DEF rc
      <4>2. Json!Read(rc, "value_separator") =
              [rc EXCEPT !.wants = IF rc.open[Len(rc.open)] = "end_object" THEN "key" ELSE "value"]
        BY <1>3, <4>1, ReadSigns, Zenon
      <4>3. rc = [wants |-> rc.wants, open |-> rc.open, strings |-> rc.strings, key |-> rc.key]
        BY <1>3 DEF Readers
      <4> QED BY <4>2, <4>3 DEF Blank
    <3> HIDE DEF separated
    <3> QED BY <2>1, <3>1, <3>3, <3>4, BuilderFacts DEF Builders
  <2>2. CASE ~(sv /\ b.mode # "NORMAL")
    <3>1. ~(sv /\ closed.mode = "AFTER_VALUE")
      BY <1>2, <2>2
    <3>2. separated = closed
      BY <3>1
    <3> HIDE DEF separated
    <3> QED BY <1>2, <1>3, <2>2, <3>2
  <2> QED BY <2>1, <2>2
<1>5. blanks \in Seq({"space", "nl"})
  <2>1. PICK m \in Nat : m = Len(b.stack) /\ DOMAIN b.stack = 1..m
    BY BuilderFacts
  <2>2. [i \in 1..m |-> "space"] \in Seq({"space", "nl"})
    OBVIOUS
  <2>3. <<"nl">> \in Seq({"space", "nl"}) /\ <<"space">> \in Seq({"space", "nl"})
    OBVIOUS
  <2>4. <<"nl">> \o [i \in DOMAIN b.stack |-> "space"] \in Seq({"space", "nl"})
    BY <2>1, <2>2, <2>3
  <2> QED BY <2>3, <2>4
<1> HIDE DEF separated, blanks, rs
<1>6. /\ n \in Builders /\ n.stack = b.stack /\ n.mode = separated.mode /\ Json!ReadAll(n.out) = rs
      /\ ~b.need_indent => n = separated
  <2>1. CASE b.need_indent
    <3>1. PICK s \in Seq(Byte) : s = separated.out
      BY <1>4, BuilderFacts
    <3>2. s \o blanks \in Seq(Byte) /\ Json!ReadAll(s \o blanks) = rs
      BY <1>4, <1>5, <3>1, ReadBlanks
    <3>3. n = [out |-> s \o blanks, stack |-> separated.stack, mode |-> separated.mode, need_indent |-> FALSE]
      <4>1. separated = [out |-> separated.out, stack |-> separated.stack, mode |-> separated.mode,
                         need_indent |-> separated.need_indent]
        BY <1>4, BuilderFacts
      <4> QED BY <2>1, <3>1, <4>1 DEF Json!Push
    <3> HIDE DEF n
    <3> QED BY <1>4, <2>1, <3>2, <3>3, BuilderFacts DEF Builders
  <2>2. CASE ~b.need_indent
    BY <1>4, <2>2
  <2> QED BY <2>1, <2>2
<1> HIDE DEF n
<1>7. QED
  BY <1>1, <1>4, <1>6, Zenon DEF rs, rc

ForValue(b) == Json!normalize_mode(b, TRUE)
ForOther(b) == Json!normalize_mode(b, FALSE)

LEMMA NormalizedValue ==
  ASSUME NEW b \in Builders, NEW r \in Readers, r = Json!ReadAll(b.out),
         IF b.mode = "IN_VALUE" THEN r.wants = "char" /\ ~r.key ELSE Blank(r),
         b.mode # "NORMAL" => ReadClosed(b, r).wants = "comma_or_close"
  PROVE  \E n \in Builders :
           /\ n = ForValue(b)
           /\ n.stack = b.stack /\ n.mode = "NORMAL"
           /\ Json!ReadAll(n.out) = IF b.mode # "NORMAL"
                                    THEN Json!Read(ReadClosed(b, r), "value_separator") ELSE r
<1>1. PICK sv \in BOOLEAN : sv = TRUE
  OBVIOUS
<1>2. PICK n \in Builders :
           /\ n = Json!normalize_mode(b, sv)
           /\ n.stack = b.stack
           /\ n.mode = "NORMAL"
           /\ Json!ReadAll(n.out) = IF b.mode # "NORMAL"
                                    THEN Json!Read(ReadClosed(b, r), "value_separator")
                                    ELSE ReadClosed(b, r)
  BY <1>1, Normalized
<1>3. n = ForValue(b)
  BY <1>1, <1>2, Zenon DEF ForValue
<1>4. b.mode = "NORMAL" => ReadClosed(b, r) = r
  BY DEF ReadClosed
<1> QED BY <1>2, <1>3, <1>4, Zenon

LEMMA NormalizedOther ==
  ASSUME NEW b \in Builders, NEW r \in Readers, r = Json!ReadAll(b.out),
         IF b.mode = "IN_VALUE" THEN r.wants = "char" /\ ~r.key ELSE Blank(r)
  PROVE  \E n \in Builders :
           /\ n = ForOther(b)
           /\ n.stack = b.stack
           /\ n.mode = IF b.mode = "IN_VALUE" THEN "AFTER_VALUE" ELSE b.mode
           /\ Json!ReadAll(n.out) = ReadClosed(b, r)
           /\ ~b.need_indent /\ b.mode # "IN_VALUE" => n = b
<1>1. PICK sv \in BOOLEAN : sv = FALSE
  OBVIOUS
<1>2. PICK n \in Builders :
           /\ n = Json!normalize_mode(b, sv)
           /\ n.stack = b.stack
           /\ n.mode = IF b.mode = "IN_VALUE" THEN "AFTER_VALUE" ELSE b.mode
           /\ Json!ReadAll(n.out) = ReadClosed(b, r)
           /\ ~b.need_indent /\ b.mode # "IN_VALUE" => n = b
  BY <1>1, Normalized
<1>3. n = ForOther(b)
  BY <1>1, <1>2, Zenon DEF ForOther
<1> QED BY <1>2, <1>3, Zenon

(* What has to come next is known from the mode, the stack and whether a   *)
(* key waits for its value.                                                *)
Wants(b, aw) ==
  CASE b.mode = "IN_VALUE" -> "char"
    [] b.mode = "AFTER_VALUE" -> IF b.stack = <<>> THEN "end" ELSE "comma_or_close"
    [] OTHER -> IF aw \/ b.stack = <<>> THEN "value"
                ELSE IF b.stack[Len(b.stack)] = "end_object" THEN "key_or_close" ELSE "value_or_close"

Built(b, aw, sd) ==
  /\ b \in Builders /\ aw \in BOOLEAN /\ sd \in Seq(Seq(Byte))
  /\ \E r \in Readers :
       /\ r = Json!ReadAll(b.out)
       /\ r.open = b.stack /\ r.strings = sd /\ r.wants = Wants(b, aw)
       /\ b.mode = "IN_VALUE" => ~r.key /\ sd # <<>> /\ b.stack # <<>>
  /\ aw => b.mode = "NORMAL" /\ b.stack # <<>>
  /\ b.stack = <<>> /\ b.mode = "NORMAL" => b.out = <<>>

LEMMA BuiltReads ==
  ASSUME NEW b, NEW aw, NEW sd, Built(b, aw, sd)
  PROVE  \E r \in Readers :
           /\ r = Json!ReadAll(b.out)
           /\ r.open = b.stack /\ r.strings = sd /\ r.wants = Wants(b, aw)
           /\ IF b.mode = "IN_VALUE" THEN r.wants = "char" /\ ~r.key ELSE Blank(r)
           /\ b.mode # "NORMAL" /\ b.stack # <<>> => ReadClosed(b, r).wants = "comma_or_close"
           /\ ReadClosed(b, r) \in Readers /\ Blank(ReadClosed(b, r))
           /\ ReadClosed(b, r).open = b.stack /\ ReadClosed(b, r).strings = sd
           /\ b.mode = "NORMAL" => ReadClosed(b, r) = r
           /\ b.mode # "NORMAL" => ReadClosed(b, r).wants = IF b.stack = <<>> THEN "end" ELSE "comma_or_close"
<1>1. b \in Builders
  BY DEF Built
<1>2. PICK r \in Readers :
       /\ r = Json!ReadAll(b.out)
       /\ r.open = b.stack /\ r.strings = sd /\ r.wants = Wants(b, aw)
       /\ b.mode = "IN_VALUE" => ~r.key /\ sd # <<>> /\ b.stack # <<>>
  BY DEF Built
<1>3. PICK m \in {"NORMAL", "IN_VALUE", "AFTER_VALUE"} : m = b.mode
  BY <1>1, BuilderFacts
<1>4. CASE m = "IN_VALUE"
  <2>1. r.wants = "char" /\ ~r.key
    BY <1>2, <1>3, <1>4 DEF Wants
  <2>2. ReadClosed(b, r) = Json!Complete(r)
    BY <1>3, <1>4 DEF ReadClosed
  <2> QED BY <1>2, <1>3, <1>4, <2>1, <2>2, CompleteFacts
<1>5. CASE m # "IN_VALUE"
  <2>1. ReadClosed(b, r) = r
    BY <1>3, <1>5 DEF ReadClosed
  <2>2. m = "AFTER_VALUE" => r.wants = IF b.stack = <<>> THEN "end" ELSE "comma_or_close"
    BY <1>2, <1>3, <1>5 DEF Wants
  <2>3. r.wants \in {"end", "comma_or_close", "value", "key_or_close", "value_or_close"}
    BY <1>2, <1>3, <1>5 DEF Wants
  <2>4. Blank(r)
    BY <2>3 DEF Blank
  <2> QED BY <1>2, <1>3, <1>5, <2>1, <2>2, <2>4
<1> QED BY <1>4, <1>5

(* At a place for a value a value can start.                               *)
PlaceFor(b, aw) == IF b.stack = <<>> THEN b.out = <<>> ELSE b.stack[Len(b.stack)] = "end_array" \/ aw

LEMMA PlaceStarts ==
  ASSUME NEW b, NEW aw, NEW sd, Built(b, aw, sd), PlaceFor(b, aw)
  PROVE  \E n \in Builders : \E q \in Readers :
           /\ n = ForValue(b) /\ n.stack = b.stack /\ n.mode = "NORMAL"
           /\ q = Json!ReadAll(n.out) /\ q.open = b.stack /\ q.strings = sd
           /\ q.wants \in {"value", "value_or_close"}
<1>1. b \in Builders /\ (aw => b.mode = "NORMAL")
  BY DEF Built
<1>2. PICK r \in Readers :
           /\ r = Json!ReadAll(b.out)
           /\ r.open = b.stack /\ r.strings = sd /\ r.wants = Wants(b, aw)
           /\ IF b.mode = "IN_VALUE" THEN r.wants = "char" /\ ~r.key ELSE Blank(r)
           /\ b.mode # "NORMAL" /\ b.stack # <<>> => ReadClosed(b, r).wants = "comma_or_close"
           /\ ReadClosed(b, r) \in Readers /\ Blank(ReadClosed(b, r))
           /\ ReadClosed(b, r).open = b.stack /\ ReadClosed(b, r).strings = sd
  BY BuiltReads
<1>3. b.stack = <<>> => b.mode = "NORMAL"
  <2>1. ASSUME b.stack = <<>>, b.mode # "NORMAL" PROVE FALSE
    <3>1. r.wants = "value"
      BY <1>2, <2>1, ReadNone DEF Json!Start, PlaceFor
    <3>2. Wants(b, aw) \in {"char", "end", "comma_or_close"}
      BY <1>1, <2>1, BuilderFacts DEF Wants
    <3> QED BY <1>2, <3>1, <3>2
  <2> QED BY <2>1
<1>4. b.mode # "NORMAL" => ReadClosed(b, r).wants = "comma_or_close"
  BY <1>2, <1>3
<1>5. PICK n \in Builders :
           /\ n = ForValue(b)
           /\ n.stack = b.stack /\ n.mode = "NORMAL"
           /\ Json!ReadAll(n.out) = IF b.mode # "NORMAL"
                                    THEN Json!Read(ReadClosed(b, r), "value_separator") ELSE r
  BY <1>1, <1>2, <1>4, NormalizedValue
<1>6. \E q \in Readers : /\ q = Json!ReadAll(n.out) /\ q.open = b.stack /\ q.strings = sd
                         /\ q.wants \in {"value", "value_or_close"}
  <2>1. CASE b.mode # "NORMAL"
    <3>1. PICK c \in Readers : c = ReadClosed(b, r)
      BY <1>2
    <3>2. c.wants = "comma_or_close" /\ c.open = b.stack /\ c.strings = sd
      BY <1>2, <1>4, <2>1, <3>1
    <3>3. c.open[Len(c.open)] = "end_array"
      BY <1>1, <1>3, <2>1, <3>2, ZenonT(10) DEF PlaceFor
    <3>4. Json!Read(c, "value_separator") =
            [c EXCEPT !.wants = IF c.open[Len(c.open)] = "end_object" THEN "key" ELSE "value"]
      BY <3>2, ReadSigns, Zenon
    <3>5. c = [wants |-> c.wants, open |-> c.open, strings |-> c.strings, key |-> c.key]
      BY DEF Readers
    <3>6. Json!Read(c, "value_separator") = [wants |-> "value", open |-> c.open, strings |-> c.strings, key |-> c.key]
      BY <3>3, <3>4, <3>5
    <3>7. [wants |-> "value", open |-> c.open, strings |-> c.strings, key |-> c.key] \in Readers
      BY DEF Readers, Wanted
    <3>8. Json!ReadAll(n.out) = Json!Read(c, "value_separator")
      BY <1>5, <2>1, <3>1
    <3> QED BY <3>2, <3>6, <3>7, <3>8
  <2>2. CASE b.mode = "NORMAL"
    <3>1. Wants(b, aw) \in {"value", "value_or_close"}
      BY <2>2 DEF Wants, PlaceFor
    <3> QED BY <1>2, <1>5, <2>2, <3>1
  <2> QED BY <2>1, <2>2
<1> QED BY <1>5, <1>6, Zenon

LEMMA BuilderMade ==
  ASSUME NEW p \in Builders, NEW k \in Seq(Brackets), NEW i \in BOOLEAN,
         NEW m \in {"NORMAL", "IN_VALUE", "AFTER_VALUE"}
  PROVE  \E e \in Builders :
           /\ e = [out |-> p.out, stack |-> k, mode |-> m, need_indent |-> i]
           /\ e.out = p.out /\ e.stack = k /\ e.mode = m /\ e.need_indent = i
<1> DEFINE e == [out |-> p.out, stack |-> k, mode |-> m, need_indent |-> i]
<1>1. e \in Builders
  BY BuilderFacts DEF Builders
<1>2. e.out = p.out /\ e.stack = k /\ e.mode = m /\ e.need_indent = i
  OBVIOUS
<1> HIDE DEF e
<1>3. \E f \in Builders : f = e
  BY <1>1
<1> QED BY <1>2, <1>3 DEF e

LEMMA ReaderMade ==
  ASSUME NEW w \in Wanted, NEW o \in Seq(Brackets), NEW parts \in Seq(Seq(Byte)), NEW k \in BOOLEAN
  PROVE  \E r \in Readers :
           /\ r = [wants |-> w, open |-> o, strings |-> parts, key |-> k]
           /\ r.wants = w /\ r.open = o /\ r.strings = parts /\ r.key = k
<1> DEFINE r == [wants |-> w, open |-> o, strings |-> parts, key |-> k]
<1>1. r \in Readers
  BY DEF Readers, Brackets
<1>2. r.wants = w /\ r.open = o /\ r.strings = parts /\ r.key = k
  OBVIOUS
<1> HIDE DEF r
<1>3. \E f \in Readers : f = r
  BY <1>1
<1> QED BY <1>2, <1>3 DEF r

LEMMA ReaderFacts ==
  ASSUME NEW r \in Readers
  PROVE  /\ r.wants \in Wanted /\ r.open \in Seq(Brackets) /\ r.strings \in Seq(Seq(Byte)) /\ r.key \in BOOLEAN
         /\ r = [wants |-> r.wants, open |-> r.open, strings |-> r.strings, key |-> r.key]
  BY DEF Readers, Brackets

LEMMA BuilderChanged ==
  ASSUME NEW p \in Builders, NEW v
  PROVE  /\ [p EXCEPT !.stack = v] = [out |-> p.out, stack |-> v, mode |-> p.mode, need_indent |-> p.need_indent]
         /\ [p EXCEPT !.mode = v] = [out |-> p.out, stack |-> p.stack, mode |-> v, need_indent |-> p.need_indent]
         /\ [p EXCEPT !.need_indent = v] = [out |-> p.out, stack |-> p.stack, mode |-> p.mode, need_indent |-> v]
  BY DEF Builders

LEMMA ReaderChanged ==
  ASSUME NEW r \in Readers, NEW w \in Wanted, NEW v \in Seq(Brackets)
  PROVE  /\ [r EXCEPT !.wants = w] = [wants |-> w, open |-> r.open, strings |-> r.strings, key |-> r.key]
         /\ [r EXCEPT !.open = v] = [wants |-> r.wants, open |-> v, strings |-> r.strings, key |-> r.key]
<1>1. [r EXCEPT !.wants = w] = [wants |-> w, open |-> r.open, strings |-> r.strings, key |-> r.key]
  BY DEF Readers
<1>2. [r EXCEPT !.open = v] = [wants |-> r.wants, open |-> v, strings |-> r.strings, key |-> r.key]
  BY DEF Readers
<1> QED BY <1>1, <1>2

Reader(w, o, parts, k) == [wants |-> w, open |-> o, strings |-> parts, key |-> k]

LEMMA ReaderIn ==
  ASSUME NEW w \in Wanted, NEW o \in Seq(Brackets), NEW parts \in Seq(Seq(Byte)), NEW k \in BOOLEAN
  PROVE  /\ Reader(w, o, parts, k) \in Readers
         /\ Reader(w, o, parts, k).wants = w /\ Reader(w, o, parts, k).open = o
         /\ Reader(w, o, parts, k).strings = parts /\ Reader(w, o, parts, k).key = k
<1>1. Reader(w, o, parts, k) \in Readers
  BY DEF Reader, Readers, Brackets
<1>2. /\ Reader(w, o, parts, k).wants = w /\ Reader(w, o, parts, k).open = o
      /\ Reader(w, o, parts, k).strings = parts /\ Reader(w, o, parts, k).key = k
  BY DEF Reader
<1> QED BY <1>1, <1>2

LEMMA ReaderWith ==
  ASSUME NEW w, NEW o, NEW parts, NEW k, NEW v
  PROVE  [Reader(w, o, parts, k) EXCEPT !.wants = v] = Reader(v, o, parts, k)
  BY DEF Reader

LEMMA ReaderWithKey ==
  ASSUME NEW w, NEW o, NEW parts, NEW k, NEW v
  PROVE  [Reader(w, o, parts, k) EXCEPT !.key = v] = Reader(w, o, parts, v)
  BY DEF Reader

LEMMA ReaderWithStrings ==
  ASSUME NEW w, NEW o, NEW parts, NEW k, NEW v
  PROVE  [Reader(w, o, parts, k) EXCEPT !.strings = v] = Reader(w, o, v, k)
  BY DEF Reader

LEMMA ReaderOpened ==
  ASSUME NEW r \in Readers, NEW w \in Wanted, NEW v \in Seq(Brackets)
  PROVE  [r EXCEPT !.wants = w, !.open = v] = [wants |-> w, open |-> v, strings |-> r.strings, key |-> r.key]
<1>0. [r EXCEPT !.wants = w] = [wants |-> w, open |-> r.open, strings |-> r.strings, key |-> r.key]
  BY ReaderChanged
<1>1. PICK q \in Readers : /\ q = [wants |-> w, open |-> r.open, strings |-> r.strings, key |-> r.key]
                           /\ q.wants = w /\ q.strings = r.strings /\ q.key = r.key
  BY ReaderFacts, ReaderMade
<1>2. [q EXCEPT !.open = v] = [wants |-> q.wants, open |-> v, strings |-> q.strings, key |-> q.key]
  BY ReaderChanged
<1>3. [r EXCEPT !.wants = w, !.open = v] = [[r EXCEPT !.wants = w] EXCEPT !.open = v]
  OBVIOUS
<1> QED BY <1>0, <1>1, <1>2, <1>3

LEMMA PushedOne ==
  ASSUME NEW b \in Builders, NEW byte \in Byte
  PROVE  \E p \in Builders :
           /\ p = Json!Push(b, <<byte>>)
           /\ p.stack = b.stack /\ p.mode = b.mode /\ p.need_indent = b.need_indent
           /\ Json!ReadAll(p.out) = Json!Read(Json!ReadAll(b.out), byte)
<1> DEFINE p == Json!Push(b, <<byte>>)
<1>1. /\ p \in Builders
      /\ p.stack = b.stack /\ p.mode = b.mode /\ p.need_indent = b.need_indent
      /\ Json!ReadAll(p.out) = Json!Read(Json!ReadAll(b.out), byte)
  BY PushOne
<1> HIDE DEF p
<1>2. \E f \in Builders : f = p
  BY <1>1
<1> QED BY <1>1, <1>2 DEF p

LEMMA Stacked ==
  ASSUME NEW s \in Seq(Brackets), NEW c \in Brackets
  PROVE  /\ Append(s, c) \in Seq(Brackets) /\ Append(s, c) # <<>>
         /\ Append(s, c)[Len(Append(s, c))] = c
  OBVIOUS

(* A builder at which something else than a string is expected.            *)
LEMMA BuiltMade ==
  ASSUME NEW e \in Builders, NEW aw \in BOOLEAN, NEW r \in Readers, r = Json!ReadAll(e.out),
         r.open = e.stack, r.wants = Wants(e, aw),
         e.mode = "IN_VALUE" => ~r.key /\ r.strings # <<>> /\ e.stack # <<>>,
         aw => e.mode = "NORMAL" /\ e.stack # <<>>,
         e.mode = "NORMAL" => e.stack # <<>> \/ e.out = <<>>
  PROVE  Built(e, aw, r.strings)
  BY ReaderFacts DEF Built

LEMMA ObjectBuilt ==
  ASSUME NEW b, NEW aw, NEW sd, Built(b, aw, sd), NEW no, no = FALSE,
         PlaceFor(b, aw),
         NEW o, NEW c, (o = "begin_object" /\ c = "end_object") \/ (o = "begin_array" /\ c = "end_array")
  PROVE  Built(Json!Opened(b, o, c), no, sd)
<1>0. PICK n \in Builders : \E q \in Readers :
           /\ n = ForValue(b) /\ n.stack = b.stack /\ n.mode = "NORMAL"
           /\ q = Json!ReadAll(n.out) /\ q.open = b.stack /\ q.strings = sd
           /\ q.wants \in {"value", "value_or_close"}
  BY PlaceStarts
<1>1. PICK q \in Readers :
           /\ n = ForValue(b) /\ n.stack = b.stack /\ n.mode = "NORMAL"
           /\ q = Json!ReadAll(n.out) /\ q.open = b.stack /\ q.strings = sd
           /\ q.wants \in {"value", "value_or_close"}
  BY <1>0
<1>2. o \in Byte
  BY ByteFacts
<1>3. PICK p \in Builders :
           /\ p = Json!Push(n, <<o>>) /\ p.stack = b.stack /\ p.mode = "NORMAL"
           /\ Json!ReadAll(p.out) = Json!Read(q, o)
  BY <1>1, <1>2, PushedOne
<1>4. b.stack \in Seq(Brackets) /\ c \in Brackets
  BY <1>1, BuilderFacts DEF Brackets
<1>5. PICK k \in Seq(Brackets) : k = Append(b.stack, c) /\ k # <<>> /\ k[Len(k)] = c
  BY <1>4, Stacked, Zenon
<1>6. PICK e \in Builders :
           /\ e = [out |-> p.out, stack |-> k, mode |-> "NORMAL", need_indent |-> p.need_indent]
           /\ e.out = p.out /\ e.stack = k /\ e.mode = "NORMAL"
  BY BuilderMade, BuilderFacts
<1>7. Json!Opened(b, o, c) = e
  <2>1. Json!Opened(b, o, c) = [p EXCEPT !.stack = Append(p.stack, c)]
    BY <1>1, <1>3, Zenon DEF Json!Opened, ForValue
  <2>2. Json!Opened(b, o, c) = [p EXCEPT !.stack = k]
    BY <1>3, <1>5, <2>1
  <2>3. [p EXCEPT !.stack = k] = [out |-> p.out, stack |-> k, mode |-> p.mode, need_indent |-> p.need_indent]
    BY BuilderChanged
  <2> QED BY <1>3, <1>6, <2>2, <2>3
<1>8. PICK w \in Wanted : w = IF c = "end_object" THEN "key_or_close" ELSE "value_or_close"
  BY DEF Wanted
<1>9. PICK r \in Readers :
           /\ r = [wants |-> w, open |-> k, strings |-> q.strings, key |-> q.key]
           /\ r.wants = w /\ r.open = k /\ r.strings = q.strings
  BY ReaderMade, ReaderFacts
<1>10. Json!Read(q, o) = r
  <2>1. CASE c = "end_object"
    <3>1. Json!Read(q, o) = [q EXCEPT !.wants = "key_or_close", !.open = Append(q.open, "end_object")]
      BY <1>1, <2>1, ReadSigns, ZenonT(40)
    <3>2. w = "key_or_close" /\ k = Append(q.open, "end_object")
      BY <1>1, <1>5, <1>8, <2>1
    <3>3. Json!Read(q, o) = [q EXCEPT !.wants = w, !.open = k]
      BY <3>1, <3>2
    <3>4. [q EXCEPT !.wants = w, !.open = k] = r
      BY <1>9, ReaderOpened
    <3> QED BY <3>3, <3>4, ZenonT(10)
  <2>2. CASE c = "end_array"
    <3>1. Json!Read(q, o) = [q EXCEPT !.wants = "value_or_close", !.open = Append(q.open, "end_array")]
      BY <1>1, <2>2, ReadSigns, ZenonT(40)
    <3>2. w = "value_or_close" /\ k = Append(q.open, "end_array")
      BY <1>1, <1>5, <1>8, <2>2
    <3>3. Json!Read(q, o) = [q EXCEPT !.wants = w, !.open = k]
      BY <3>1, <3>2
    <3>4. [q EXCEPT !.wants = w, !.open = k] = r
      BY <1>9, ReaderOpened
    <3> QED BY <3>3, <3>4
  <2> QED BY <2>1, <2>2
<1>11. Wants(e, no) = w
  BY <1>5, <1>6, <1>8 DEF Wants
<1>12. Built(e, no, r.strings)
  BY <1>3, <1>5, <1>6, <1>9, <1>10, <1>11, BuiltMade
<1> QED BY <1>1, <1>7, <1>9, <1>12

LEMMA ScalarBuilt ==
  ASSUME NEW b, NEW aw, NEW sd, Built(b, aw, sd), NEW no, no = FALSE,
         PlaceFor(b, aw)
  PROVE  Built(Json!Scalar(b), no, sd)
<1>0. PICK n \in Builders : \E q \in Readers :
           /\ n = ForValue(b) /\ n.stack = b.stack /\ n.mode = "NORMAL"
           /\ q = Json!ReadAll(n.out) /\ q.open = b.stack /\ q.strings = sd
           /\ q.wants \in {"value", "value_or_close"}
  BY PlaceStarts
<1>1. PICK q \in Readers :
           /\ n = ForValue(b) /\ n.stack = b.stack /\ n.mode = "NORMAL"
           /\ q = Json!ReadAll(n.out) /\ q.open = b.stack /\ q.strings = sd
           /\ q.wants \in {"value", "value_or_close"}
  BY <1>0
<1>9. "1" \in Byte
  BY ByteFacts
<1>2. PICK p \in Builders :
           /\ p = Json!Push(n, <<"1">>) /\ p.stack = b.stack
           /\ Json!ReadAll(p.out) = Json!Read(q, "1")
  BY <1>1, <1>9, PushedOne
<1>3. PICK e \in Builders :
           /\ e = [out |-> p.out, stack |-> p.stack, mode |-> "AFTER_VALUE", need_indent |-> p.need_indent]
           /\ e.out = p.out /\ e.stack = p.stack /\ e.mode = "AFTER_VALUE"
  BY BuilderMade, BuilderFacts
<1>4. Json!Scalar(b) = e
  <2>1. Json!Scalar(b) = [p EXCEPT !.mode = "AFTER_VALUE"]
    BY <1>1, <1>2, Zenon DEF Json!Scalar, ForValue
  <2>2. [p EXCEPT !.mode = "AFTER_VALUE"]
          = [out |-> p.out, stack |-> p.stack, mode |-> "AFTER_VALUE", need_indent |-> p.need_indent]
    BY BuilderChanged, Zenon
  <2> QED BY <1>3, <2>1, <2>2
<1>5. Json!Read(q, "1") = Json!Complete(q)
  BY <1>1, ReadSigns, Zenon
<1>6. PICK r \in Readers : /\ r = Json!Complete(q) /\ r.open = q.open /\ r.strings = q.strings
                           /\ r.wants = IF q.open = <<>> THEN "end" ELSE "comma_or_close"
  BY CompleteFacts
<1>7. Wants(e, no) = r.wants
  BY <1>1, <1>2, <1>3, <1>6 DEF Wants
<1>8. Built(e, no, r.strings)
  BY <1>1, <1>2, <1>3, <1>5, <1>6, <1>7, BuiltMade
<1> QED BY <1>1, <1>4, <1>6, <1>8

LEMMA IndentBuilt ==
  ASSUME NEW b, NEW aw, NEW sd, Built(b, aw, sd)
  PROVE  /\ Built(Json!Indented(b), aw, sd)
         /\ Json!Indented(b).stack = b.stack
         /\ b.mode = "AFTER_VALUE" => Json!Indented(b).mode = "AFTER_VALUE"
<1>1. /\ b \in Builders /\ aw \in BOOLEAN /\ (aw => b.mode = "NORMAL" /\ b.stack # <<>>)
      /\ (b.stack = <<>> /\ b.mode = "NORMAL" => b.out = <<>>)
  BY DEF Built
<1>2. PICK r \in Readers :
           /\ r = Json!ReadAll(b.out)
           /\ r.open = b.stack /\ r.strings = sd /\ r.wants = Wants(b, aw)
           /\ IF b.mode = "IN_VALUE" THEN r.wants = "char" /\ ~r.key ELSE Blank(r)
           /\ ReadClosed(b, r) \in Readers /\ Blank(ReadClosed(b, r))
           /\ ReadClosed(b, r).open = b.stack /\ ReadClosed(b, r).strings = sd
           /\ b.mode = "NORMAL" => ReadClosed(b, r) = r
           /\ b.mode # "NORMAL" => ReadClosed(b, r).wants = IF b.stack = <<>> THEN "end" ELSE "comma_or_close"
  BY BuiltReads
<1>3. CASE b.need_indent
  BY <1>3 DEF Json!Indented
<1>4. CASE ~b.need_indent
  <2>1. PICK n \in Builders :
           /\ n = ForOther(b)
           /\ n.stack = b.stack
           /\ n.mode = IF b.mode = "IN_VALUE" THEN "AFTER_VALUE" ELSE b.mode
           /\ Json!ReadAll(n.out) = ReadClosed(b, r)
           /\ b.mode # "IN_VALUE" => n = b
    BY <1>1, <1>2, <1>4, NormalizedOther
  <2>2. PICK yes \in BOOLEAN : yes = TRUE
    OBVIOUS
  <2>3. PICK e \in Builders :
           /\ e = [out |-> n.out, stack |-> n.stack, mode |-> n.mode, need_indent |-> yes]
           /\ e.out = n.out /\ e.stack = n.stack /\ e.mode = n.mode
    BY BuilderMade, BuilderFacts
  <2>4. Json!Indented(b) = e
    <3>1. Json!Indented(b) = [n EXCEPT !.need_indent = yes]
      BY <1>4, <2>1, <2>2, Zenon DEF Json!Indented, ForOther
    <3>2. [n EXCEPT !.need_indent = yes]
            = [out |-> n.out, stack |-> n.stack, mode |-> n.mode, need_indent |-> yes]
      BY BuilderChanged
    <3> QED BY <2>3, <3>1, <3>2
  <2>5. PICK c \in Readers : /\ c = ReadClosed(b, r) /\ c.open = b.stack /\ c.strings = sd
                             /\ b.mode = "NORMAL" => c = r
                             /\ b.mode # "NORMAL" => c.wants = IF b.stack = <<>> THEN "end" ELSE "comma_or_close"
    BY <1>2
  <2>6. PICK m \in {"NORMAL", "IN_VALUE", "AFTER_VALUE"} : m = b.mode
    BY <1>1, BuilderFacts
  <2>7. Wants(e, aw) = c.wants
    <3>1. CASE m = "NORMAL"
      <4>1. e.mode = "NORMAL" /\ e.stack = b.stack /\ c.wants = Wants(b, aw)
        BY <1>2, <2>1, <2>3, <2>5, <2>6, <3>1
      <4> QED BY <2>6, <3>1, <4>1 DEF Wants
    <3>2. CASE m # "NORMAL"
      <4>1. e.mode = "AFTER_VALUE" /\ e.stack = b.stack
        BY <2>1, <2>3, <2>6, <3>2
      <4> QED BY <2>5, <2>6, <3>2, <4>1 DEF Wants
    <3> QED BY <3>1, <3>2
  <2>8. e.mode = "NORMAL" => e.out = b.out /\ b.mode = "NORMAL"
    BY <2>1, <2>3, <2>6
  <2>9. e.mode # "IN_VALUE" /\ (aw => e.mode = "NORMAL" /\ e.stack # <<>>)
    BY <1>1, <2>1, <2>3, <2>6
  <2>10. Built(e, aw, c.strings)
    BY <1>1, <2>1, <2>3, <2>5, <2>7, <2>8, <2>9, BuiltMade
  <2> QED BY <2>1, <2>3, <2>4, <2>5, <2>10
<1> QED BY <1>1, <1>3, <1>4, BuilderFacts

(* In an object with no key waiting, a key can start.                      *)
LEMMA KeyStarts ==
  ASSUME NEW b, NEW aw, NEW sd, Built(b, aw, sd), ~aw, b.stack # <<>>,
         b.stack[Len(b.stack)] = "end_object"
  PROVE  \E n \in Builders : \E q \in Readers :
           /\ n = ForValue(b) /\ n.stack = b.stack /\ n.mode = "NORMAL"
           /\ q = Json!ReadAll(n.out) /\ q.open = b.stack /\ q.strings = sd
           /\ q.wants \in {"key", "key_or_close"}
<1>1. b \in Builders
  BY DEF Built
<1>2. PICK r \in Readers :
           /\ r = Json!ReadAll(b.out)
           /\ r.open = b.stack /\ r.strings = sd /\ r.wants = Wants(b, aw)
           /\ IF b.mode = "IN_VALUE" THEN r.wants = "char" /\ ~r.key ELSE Blank(r)
           /\ b.mode # "NORMAL" /\ b.stack # <<>> => ReadClosed(b, r).wants = "comma_or_close"
           /\ ReadClosed(b, r) \in Readers /\ Blank(ReadClosed(b, r))
           /\ ReadClosed(b, r).open = b.stack /\ ReadClosed(b, r).strings = sd
  BY BuiltReads
<1>4. b.mode # "NORMAL" => ReadClosed(b, r).wants = "comma_or_close"
  BY <1>2
<1>5. PICK n \in Builders :
           /\ n = ForValue(b)
           /\ n.stack = b.stack /\ n.mode = "NORMAL"
           /\ Json!ReadAll(n.out) = IF b.mode # "NORMAL"
                                    THEN Json!Read(ReadClosed(b, r), "value_separator") ELSE r
  BY <1>1, <1>2, <1>4, NormalizedValue
<1>6. \E q \in Readers : /\ q = Json!ReadAll(n.out) /\ q.open = b.stack /\ q.strings = sd
                         /\ q.wants \in {"key", "key_or_close"}
  <2>1. CASE b.mode # "NORMAL"
    <3>1. PICK c \in Readers : c = ReadClosed(b, r)
      BY <1>2
    <3>2. c.wants = "comma_or_close" /\ c.open = b.stack /\ c.strings = sd
      BY <1>2, <1>4, <2>1, <3>1
    <3>3. c.open[Len(c.open)] = "end_object"
      BY <3>2, ZenonT(10)
    <3>4. Json!Read(c, "value_separator") =
            [c EXCEPT !.wants = IF c.open[Len(c.open)] = "end_object" THEN "key" ELSE "value"]
      BY <3>2, ReadSigns, Zenon
    <3>5. c = [wants |-> c.wants, open |-> c.open, strings |-> c.strings, key |-> c.key]
      BY DEF Readers
    <3>6. Json!Read(c, "value_separator") = [wants |-> "key", open |-> c.open, strings |-> c.strings, key |-> c.key]
      BY <3>3, <3>4, <3>5
    <3>7. [wants |-> "key", open |-> c.open, strings |-> c.strings, key |-> c.key] \in Readers
      BY DEF Readers, Wanted
    <3>8. Json!ReadAll(n.out) = Json!Read(c, "value_separator")
      BY <1>5, <2>1, <3>1
    <3> QED BY <3>2, <3>6, <3>7, <3>8
  <2>2. CASE b.mode = "NORMAL"
    <3>1. Wants(b, aw) = "key_or_close"
      BY <2>2 DEF Wants
    <3> QED BY <1>2, <1>5, <2>2, <3>1
  <2> QED BY <2>1, <2>2
<1> QED BY <1>5, <1>6, Zenon

(* A string that was begun.                                                *)
LEMMA StringBegun ==
  ASSUME NEW r \in Readers, NEW k \in BOOLEAN
  PROVE  \E s \in Readers :
           /\ s = [r EXCEPT !.wants = "char", !.key = k, !.strings = Append(r.strings, <<>>)]
           /\ s.wants = "char" /\ s.key = k /\ s.open = r.open /\ s.strings = Append(r.strings, <<>>)
           /\ Saying(s)
<1>1. <<>> \in Seq(Byte)
  OBVIOUS
<1>2. PICK parts \in Seq(Seq(Byte)) : parts = Append(r.strings, <<>>) /\ parts # <<>>
  <2>1. \A S : \A a \in Seq(S) : \A x \in S : Append(a, x) \in Seq(S) /\ Append(a, x) # <<>>
    OBVIOUS
  <2>2. Append(r.strings, <<>>) \in Seq(Seq(Byte)) /\ Append(r.strings, <<>>) # <<>>
    BY <1>1, <2>1, ReaderFacts, Zenon
  <2> QED BY <2>2
<1>3. "char" \in Wanted
  BY DEF Wanted
<1>4. r.open \in Seq(Brackets) /\ r = Reader(r.wants, r.open, r.strings, r.key)
  BY ReaderFacts DEF Reader
<1> DEFINE s == Reader("char", r.open, parts, k)
<1>5. s \in Readers /\ s.wants = "char" /\ s.open = r.open /\ s.strings = parts /\ s.key = k
  BY <1>3, <1>4, ReaderIn
<1>6. s = [r EXCEPT !.wants = "char", !.key = k, !.strings = parts]
  <2>1. PICK w, o, tt, kk : r = Reader(w, o, tt, kk) /\ s = Reader("char", o, parts, k)
    BY <1>4
  <2>2. [[[Reader(w, o, tt, kk) EXCEPT !.wants = "char"] EXCEPT !.key = k] EXCEPT !.strings = parts]
          = Reader("char", o, parts, k)
    <3>1. PICK c : c = "char"
      OBVIOUS
    <3>2. [Reader(w, o, tt, kk) EXCEPT !.wants = c] = Reader(c, o, tt, kk)
      BY ReaderWith
    <3>3. [Reader(c, o, tt, kk) EXCEPT !.key = k] = Reader(c, o, tt, k)
      BY ReaderWithKey
    <3>4. [Reader(c, o, tt, k) EXCEPT !.strings = parts] = Reader(c, o, parts, k)
      BY ReaderWithStrings
    <3> QED BY <3>1, <3>2, <3>3, <3>4
  <2>3. [r EXCEPT !.wants = "char", !.key = k, !.strings = parts]
          = [[[r EXCEPT !.wants = "char"] EXCEPT !.key = k] EXCEPT !.strings = parts]
    OBVIOUS
  <2> HIDE DEF s
  <2> QED BY <2>1, <2>2, <2>3, Zenon
<1> HIDE DEF s
<1>7. Saying(s)
  BY <1>2, <1>5 DEF Saying
<1> QED BY <1>2, <1>5, <1>6, <1>7, Zenon

LEMMA FirstPart ==
  ASSUME NEW parts \in Seq(Seq(Byte)), NEW t \in Seq(Byte)
  PROVE  LET a == Append(parts, <<>>) IN [a EXCEPT ![Len(a)] = @ \o t] = Append(parts, t)
<1> DEFINE a == Append(parts, <<>>)
<1>1. PICK n \in Nat : n = Len(parts)
  OBVIOUS
<1>2. Len(a) = n + 1 /\ a[n + 1] = <<>>
  BY <1>1
<1>3. <<>> \o t = t
  OBVIOUS
<1>4. [a EXCEPT ![n + 1] = t] = Append(parts, t)
  <2> DEFINE S == Seq(Byte)
             x == [a EXCEPT ![n + 1] = t]
             y == Append(parts, t)
  <2>1. <<>> \in S
    OBVIOUS
  <2> HIDE DEF S
  <2>2. parts \in Seq(S) /\ t \in S
    BY DEF S
  <2>3. a \in Seq(S) /\ Len(a) = n + 1 /\ \A i \in 1..n : a[i] = parts[i]
    BY <1>1, <2>1, <2>2
  <2>4. y \in Seq(S) /\ Len(y) = n + 1 /\ y[n + 1] = t /\ \A i \in 1..n : y[i] = parts[i]
    BY <1>1, <2>2
  <2>5. x \in Seq(S) /\ Len(x) = n + 1 /\ \A i \in 1..(n + 1) : x[i] = IF i = n + 1 THEN t ELSE a[i]
    <3> HIDE DEF a
    <3> QED BY <1>1, <2>2, <2>3
  <2>6. \A i \in 1..(n + 1) : x[i] = y[i]
    <3> HIDE DEF a, x, y
    <3> TAKE i \in 1..(n + 1)
    <3>1. i = n + 1 \/ i \in 1..n
      BY <1>1
    <3> QED BY <2>3, <2>4, <2>5, <3>1
  <2> HIDE DEF x, y
  <2>7. x = y
    BY <2>4, <2>5, <2>6, SeqEqual
  <2> QED BY <2>7 DEF x, y
<1> QED BY <1>2, <1>3, <1>4

(* A text was written into an open string.                                 *)
LEMMA Written ==
  ASSUME NEW b \in Builders, NEW r, r = Json!ReadAll(b.out), Saying(r), NEW t \in Texts
  PROVE  \E p \in Builders :
           /\ p = Json!Push(b, Json!Encoded(t))
           /\ p.out = b.out \o Json!Encoded(t)
           /\ p.stack = b.stack /\ p.mode = b.mode /\ p.need_indent = b.need_indent
           /\ Json!ReadAll(p.out) = Grown(r, t)
           /\ Json!Encoded(t) \in Seq(Byte)
<1>1. t \in Seq(Byte) /\ \A i \in 1..Len(t) : t[i] # "ctl"
  BY ByteFacts
<1>2. b.out \in Seq(Byte)
  BY BuilderFacts
<1>3. /\ Json!Encoded(t) \in Seq(Byte)
      /\ Json!ReadAll(b.out \o Json!Encoded(t)) = Grown(r, t)
  BY <1>1, <1>2, ReadEncoded
<1> DEFINE p == Json!Push(b, Json!Encoded(t))
<1>4. /\ p \in Builders /\ p.out = b.out \o Json!Encoded(t)
      /\ p.stack = b.stack /\ p.mode = b.mode /\ p.need_indent = b.need_indent
  BY <1>3, PushFactsJson
<1> HIDE DEF p
<1>5. \E f \in Builders : f = p
  BY <1>4
<1>6. Json!ReadAll(p.out) = Grown(r, t)
  BY <1>3, <1>4
<1> QED BY <1>3, <1>4, <1>5, <1>6 DEF p

LEMMA GrownReader ==
  ASSUME NEW r \in Readers, Saying(r), NEW t \in Seq(Byte)
  PROVE  \E g \in Readers : /\ g = Grown(r, t) /\ Saying(g) /\ g.wants = "char" /\ g.open = r.open /\ g.key = r.key
                            /\ g.strings = [r.strings EXCEPT ![Len(r.strings)] = @ \o t]
<1> DEFINE g == Grown(r, t)
<1>1. Saying(g)
  BY GrownFacts
<1>2. /\ g.wants = "char" /\ g.open = r.open /\ g.key = r.key
      /\ g.strings = [r.strings EXCEPT ![Len(r.strings)] = @ \o t]
  BY DEF Grown
<1> HIDE DEF g
<1>3. \E f \in Readers : f = g
  BY <1>1 DEF Saying
<1> QED BY <1>1, <1>2, <1>3 DEF g

(* A new string value.                                                     *)
LEMMA ValueBuilt ==
  ASSUME NEW b, NEW aw, NEW sd, Built(b, aw, sd), NEW no, no = FALSE,
         PlaceFor(b, aw), b.stack # <<>>, NEW t \in Texts, NEW append \in BOOLEAN,
         append => b.mode # "IN_VALUE"
  PROVE  Built(Json!Valued(b, t, append), no, Append(sd, t))
<1>0. PICK n \in Builders : \E q \in Readers :
           /\ n = ForValue(b) /\ n.stack = b.stack /\ n.mode = "NORMAL"
           /\ q = Json!ReadAll(n.out) /\ q.open = b.stack /\ q.strings = sd
           /\ q.wants \in {"value", "value_or_close"}
  BY PlaceStarts
<1>1. PICK q \in Readers :
           /\ n = ForValue(b) /\ n.stack = b.stack /\ n.mode = "NORMAL"
           /\ q = Json!ReadAll(n.out) /\ q.open = b.stack /\ q.strings = sd
           /\ q.wants \in {"value", "value_or_close"}
  BY <1>0
<1>2. "quote" \in Byte
  BY ByteFacts
<1>3. PICK p \in Builders :
           /\ p = Json!Push(n, <<"quote">>) /\ p.stack = b.stack
           /\ Json!ReadAll(p.out) = Json!Read(q, "quote")
  BY <1>1, <1>2, PushedOne
<1>4. PICK s \in Readers :
           /\ s = [q EXCEPT !.wants = "char", !.key = no, !.strings = Append(q.strings, <<>>)]
           /\ s.wants = "char" /\ s.key = no /\ s.open = q.open /\ s.strings = Append(q.strings, <<>>)
           /\ Saying(s)
  BY StringBegun
<1>5. Json!Read(q, "quote") = s
  <2>1. Json!Read(q, "quote") =
           [q EXCEPT !.wants = "char", !.key = FALSE, !.strings = Append(q.strings, <<>>)]
    BY <1>1, ReadSigns, Zenon
  <2> QED BY <1>4, <2>1, Zenon
<1>6. PICK w \in Builders :
           /\ w = Json!Push(p, Json!Encoded(t)) /\ w.stack = b.stack
           /\ Json!ReadAll(w.out) = Grown(s, t)
  BY <1>3, <1>4, <1>5, Written
<1>7. t \in Seq(Byte)
  BY ByteFacts
<1>8. PICK g \in Readers : /\ g = Grown(s, t) /\ Saying(g) /\ g.wants = "char" /\ g.open = s.open /\ g.key = s.key
                            /\ g.strings = [s.strings EXCEPT ![Len(s.strings)] = @ \o t]
  BY <1>4, <1>7, GrownReader
<1>9. g.strings = Append(sd, t)
  <2>1. q.strings \in Seq(Seq(Byte))
    BY ReaderFacts
  <2>2. LET a == Append(q.strings, <<>>) IN [a EXCEPT ![Len(a)] = @ \o t] = Append(q.strings, t)
    BY <1>7, <2>1, FirstPart
  <2>3. g.strings = LET a == Append(q.strings, <<>>) IN [a EXCEPT ![Len(a)] = @ \o t]
    BY <1>4, <1>8
  <2> QED BY <1>1, <2>2, <2>3
<1>10. PICK e \in Builders :
           /\ e = [out |-> w.out, stack |-> w.stack, mode |-> "IN_VALUE", need_indent |-> w.need_indent]
           /\ e.out = w.out /\ e.stack = w.stack /\ e.mode = "IN_VALUE"
  BY BuilderMade, BuilderFacts
<1>11. Json!Valued(b, t, append) = e
  <2>1. (IF append /\ b.mode = "IN_VALUE" THEN b ELSE Json!Push(Json!normalize_mode(b, TRUE), <<"quote">>)) = p
    <3>1. Json!Push(Json!normalize_mode(b, TRUE), <<"quote">>) = p
      BY <1>1, <1>3, Zenon DEF ForValue
    <3> QED BY <3>1, Zenon
  <2>2. Json!Valued(b, t, append) = [w EXCEPT !.mode = "IN_VALUE"]
    BY <1>6, <2>1, Zenon DEF Json!Valued, Json!Quote
  <2>3. [w EXCEPT !.mode = "IN_VALUE"]
          = [out |-> w.out, stack |-> w.stack, mode |-> "IN_VALUE", need_indent |-> w.need_indent]
    BY BuilderChanged
  <2> QED BY <1>10, <2>2, <2>3
<1>12. Wants(e, no) = "char"
  BY <1>10 DEF Wants
<1>13. g.strings # <<>>
  BY <1>8 DEF Saying
<1>14. Built(e, no, g.strings)
  <2>1. /\ g = Json!ReadAll(e.out) /\ g.open = e.stack /\ g.wants = Wants(e, no)
        /\ ~g.key /\ e.stack # <<>> /\ e.mode = "IN_VALUE"
    BY <1>1, <1>4, <1>6, <1>8, <1>10, <1>12
  <2> QED BY <1>13, <2>1, BuiltMade
<1> QED BY <1>9, <1>11, <1>14

(* More of an open string.                                                 *)
LEMMA MoreBuilt ==
  ASSUME NEW b, NEW aw, NEW sd, Built(b, aw, sd), b.mode = "IN_VALUE", NEW t \in Texts
  PROVE  Built(Json!Valued(b, t, TRUE), aw, [sd EXCEPT ![Len(sd)] = @ \o t])
<1>1. b \in Builders /\ aw \in BOOLEAN /\ ~aw
  BY DEF Built
<1>2. PICK r \in Readers :
       /\ r = Json!ReadAll(b.out)
       /\ r.open = b.stack /\ r.strings = sd /\ r.wants = Wants(b, aw)
       /\ ~r.key /\ sd # <<>> /\ b.stack # <<>>
  BY DEF Built
<1>3. r.wants = "char" /\ Saying(r)
  BY <1>2 DEF Wants, Saying
<1>6. PICK w \in Builders :
           /\ w = Json!Push(b, Json!Encoded(t)) /\ w.stack = b.stack
           /\ w.mode = b.mode /\ w.need_indent = b.need_indent
           /\ Json!ReadAll(w.out) = Grown(r, t)
  BY <1>1, <1>2, <1>3, Written
<1>7. t \in Seq(Byte)
  BY ByteFacts
<1>8. PICK g \in Readers : /\ g = Grown(r, t) /\ Saying(g) /\ g.wants = "char" /\ g.open = r.open /\ g.key = r.key
                            /\ g.strings = [r.strings EXCEPT ![Len(r.strings)] = @ \o t]
  BY <1>3, <1>7, GrownReader
<1>11. Json!Valued(b, t, TRUE) = w
  <2>1. (IF TRUE /\ b.mode = "IN_VALUE" THEN b ELSE Json!Push(Json!normalize_mode(b, TRUE), <<"quote">>)) = b
    BY Zenon
  <2>2. Json!Valued(b, t, TRUE) = [w EXCEPT !.mode = "IN_VALUE"]
    BY <1>6, <2>1, Zenon DEF Json!Valued, Json!Quote
  <2>3. [w EXCEPT !.mode = "IN_VALUE"]
          = [out |-> w.out, stack |-> w.stack, mode |-> "IN_VALUE", need_indent |-> w.need_indent]
    BY BuilderChanged
  <2>4. [w EXCEPT !.mode = "IN_VALUE"] = w
    BY <1>6, <2>3, BuilderFacts
  <2> QED BY <2>2, <2>4, Zenon
<1>12. Wants(w, aw) = "char"
  BY <1>6 DEF Wants
<1>13. g.strings # <<>>
  BY <1>8 DEF Saying
<1>14. Built(w, aw, g.strings)
  BY <1>1, <1>2, <1>6, <1>8, <1>12, <1>13, BuiltMade
<1> QED BY <1>2, <1>8, <1>11, <1>14, Zenon

(* A key, with the colon.                                                  *)
LEMMA KeyBuilt ==
  ASSUME NEW b, NEW aw, NEW sd, Built(b, aw, sd), ~aw, b.stack # <<>>,
         b.stack[Len(b.stack)] = "end_object", NEW t \in Texts, NEW yes, yes = TRUE
  PROVE  Built(Json!Keyed(b, t), yes, Append(sd, t))
<1>0. PICK n \in Builders : \E q \in Readers :
           /\ n = ForValue(b) /\ n.stack = b.stack /\ n.mode = "NORMAL"
           /\ q = Json!ReadAll(n.out) /\ q.open = b.stack /\ q.strings = sd
           /\ q.wants \in {"key", "key_or_close"}
  BY KeyStarts
<1>1. PICK q \in Readers :
           /\ n = ForValue(b) /\ n.stack = b.stack /\ n.mode = "NORMAL"
           /\ q = Json!ReadAll(n.out) /\ q.open = b.stack /\ q.strings = sd
           /\ q.wants \in {"key", "key_or_close"}
  BY <1>0
<1>2. "quote" \in Byte /\ "name_separator" \in Byte
  BY ByteFacts
<1>3. PICK p \in Builders :
           /\ p = Json!Push(n, <<"quote">>) /\ p.stack = b.stack /\ p.mode = "NORMAL"
           /\ Json!ReadAll(p.out) = Json!Read(q, "quote")
  BY <1>1, <1>2, PushedOne
<1>4. PICK s \in Readers :
           /\ s = [q EXCEPT !.wants = "char", !.key = yes, !.strings = Append(q.strings, <<>>)]
           /\ s.wants = "char" /\ s.key = yes /\ s.open = q.open /\ s.strings = Append(q.strings, <<>>)
           /\ Saying(s)
  BY StringBegun
<1>5. Json!Read(q, "quote") = s
  <2>1. Json!Read(q, "quote") =
           [q EXCEPT !.wants = "char", !.key = TRUE, !.strings = Append(q.strings, <<>>)]
    BY <1>1, ReadSigns, Zenon
  <2> QED BY <1>4, <2>1, Zenon
<1>6. PICK w \in Builders :
           /\ w = Json!Push(p, Json!Encoded(t)) /\ w.stack = b.stack /\ w.mode = "NORMAL"
           /\ Json!ReadAll(w.out) = Grown(s, t)
           /\ Json!Encoded(t) \in Seq(Byte)
  BY <1>3, <1>4, <1>5, Written
<1>7. t \in Seq(Byte)
  BY ByteFacts
<1>8. PICK g \in Readers : /\ g = Grown(s, t) /\ Saying(g) /\ g.wants = "char" /\ g.open = s.open /\ g.key = s.key
                            /\ g.strings = [s.strings EXCEPT ![Len(s.strings)] = @ \o t]
  BY <1>4, <1>7, GrownReader
<1>9. g.strings = Append(sd, t)
  <2>1. q.strings \in Seq(Seq(Byte))
    BY ReaderFacts
  <2>2. LET a == Append(q.strings, <<>>) IN [a EXCEPT ![Len(a)] = @ \o t] = Append(q.strings, t)
    BY <1>7, <2>1, FirstPart
  <2>3. g.strings = LET a == Append(q.strings, <<>>) IN [a EXCEPT ![Len(a)] = @ \o t]
    BY <1>4, <1>8
  <2> QED BY <1>1, <2>2, <2>3
<1>10. PICK x \in Builders :
           /\ x = Json!Push(w, <<"quote">>) /\ x.stack = b.stack /\ x.mode = "NORMAL"
           /\ Json!ReadAll(x.out) = Json!Read(g, "quote")
  BY <1>2, <1>6, <1>8, PushedOne
<1>11. PICK e \in Builders :
           /\ e = Json!Push(x, <<"name_separator">>) /\ e.stack = b.stack /\ e.mode = "NORMAL"
           /\ Json!ReadAll(e.out) = Json!Read(Json!Read(g, "quote"), "name_separator")
  BY <1>2, <1>10, PushedOne
<1>12. /\ "colon" \in Wanted /\ "value" \in Wanted
       /\ g.open \in Seq(Brackets) /\ g.strings \in Seq(Seq(Byte)) /\ g.key \in BOOLEAN
  BY ReaderFacts DEF Wanted
<1> DEFINE c == Reader("colon", g.open, g.strings, g.key)
           v == Reader("value", g.open, g.strings, g.key)
<1>13. c \in Readers /\ c.wants = "colon" /\ c.open = g.open /\ c.strings = g.strings /\ c.key = g.key
  BY <1>12, ReaderIn
<1>14. v \in Readers /\ v.wants = "value" /\ v.open = g.open /\ v.strings = g.strings /\ v.key = g.key
  BY <1>12, ReaderIn
<1>20. g = Reader(g.wants, g.open, g.strings, g.key)
  BY ReaderFacts DEF Reader
<1>15. Json!Read(g, "quote") = c
  <2>1. g.wants = "char" /\ g.key
    BY <1>4, <1>8, Zenon
  <2>2. Json!Read(g, "quote") = [g EXCEPT !.wants = "colon"]
    BY <2>1, ReadSigns, Zenon
  <2>3. [Reader(g.wants, g.open, g.strings, g.key) EXCEPT !.wants = "colon"] = c
    BY ReaderWith
  <2> HIDE DEF c
  <2> QED BY <1>20, <2>2, <2>3, Zenon
<1>16. Json!Read(c, "name_separator") = v
  <2>1. Json!Read(c, "name_separator") = [c EXCEPT !.wants = "value"]
    <3> HIDE DEF c
    <3> QED BY <1>13, ReadSigns, Zenon
  <2>2. [c EXCEPT !.wants = "value"] = v
    BY ReaderWith
  <2> QED BY <2>1, <2>2, ZenonT(40)
<1> HIDE DEF c, v
<1>17. Json!Keyed(b, t) = e
  <2> DEFINE E == Json!Encoded(t)
  <2>1. Json!Keyed(b, t) = Json!Push(n, <<"quote">> \o E \o <<"quote", "name_separator">>)
    BY <1>1, Zenon DEF Json!Keyed, Json!Quote, Json!NameSeparator, ForValue
  <2> HIDE DEF E
  <2>2. E \in Seq(Byte) /\ <<"quote">> \in Seq(Byte) /\ <<"name_separator">> \in Seq(Byte)
        /\ <<"quote">> \o E \o <<"quote", "name_separator">> \in Seq(Byte)
    <3>1. E \in Seq(Byte)
      BY <1>6 DEF E
    <3> HIDE DEF E
    <3> QED BY <1>2, <3>1
  <2>3. /\ p.out = n.out \o <<"quote">> /\ w.out = p.out \o E /\ x.out = w.out \o <<"quote">>
        /\ e.out = x.out \o <<"name_separator">>
        /\ e.need_indent = n.need_indent
    <3>1. p.out = n.out \o <<"quote">> /\ p.need_indent = n.need_indent
      BY <1>3, <2>2, PushFactsJson
    <3>2. w.out = p.out \o E /\ w.need_indent = p.need_indent
      BY <1>6, <2>2, PushFactsJson DEF E
    <3>3. x.out = w.out \o <<"quote">> /\ x.need_indent = w.need_indent
      BY <1>10, <2>2, PushFactsJson
    <3>4. e.out = x.out \o <<"name_separator">> /\ e.need_indent = x.need_indent
      BY <1>11, <2>2, PushFactsJson
    <3> QED BY <3>1, <3>2, <3>3, <3>4
  <2>4. PICK o \in Seq(Byte) : o = n.out
    BY BuilderFacts
  <2>5. e.out = o \o (<<"quote">> \o E \o <<"quote", "name_separator">>)
    <3>1. e.out = (((o \o <<"quote">>) \o E) \o <<"quote">>) \o <<"name_separator">>
      BY <2>3, <2>4
    <3>2. (((o \o <<"quote">>) \o E) \o <<"quote">>) \o <<"name_separator">>
            = o \o (<<"quote">> \o E \o <<"quote", "name_separator">>)
      BY <1>2, <2>2, SMTT(30)
    <3> QED BY <3>1, <3>2
  <2>6. PICK f \in Builders : f = Json!Push(n, <<"quote">> \o E \o <<"quote", "name_separator">>)
    BY <2>2, PushFactsJson
  <2>7. f.out = e.out /\ f.stack = e.stack /\ f.mode = e.mode /\ f.need_indent = e.need_indent
    BY <1>1, <1>11, <2>2, <2>3, <2>4, <2>5, <2>6, PushFactsJson, ZenonT(40)
  <2>8. f = e
    BY <2>7, BuilderFacts
  <2> QED BY <2>1, <2>6, <2>8
<1>18. Wants(e, yes) = "value"
  BY <1>11 DEF Wants
<1>19. Built(e, yes, v.strings)
  <2>1. /\ v = Json!ReadAll(e.out) /\ v.open = e.stack /\ v.wants = Wants(e, yes)
        /\ e.stack # <<>> /\ e.mode = "NORMAL"
    <3>1. Json!ReadAll(e.out) = v
      BY <1>11, <1>15, <1>16, Zenon
    <3>2. v.open = b.stack
      BY <1>1, <1>4, <1>8, <1>14
    <3> QED BY <1>11, <1>14, <1>18, <3>1, <3>2
  <2>2. v \in Readers /\ yes \in BOOLEAN
    BY <1>14
  <2>3. /\ e.mode = "IN_VALUE" => ~v.key /\ v.strings # <<>> /\ e.stack # <<>>
        /\ yes => e.mode = "NORMAL" /\ e.stack # <<>>
        /\ e.mode = "NORMAL" => e.stack # <<>> \/ e.out = <<>>
    BY <2>1
  <2> QED BY <2>1, <2>2, <2>3, BuiltMade
<1> QED BY <1>9, <1>14, <1>17, <1>19

(* The innermost bracket is closed.                                        *)
LEMMA CloseBuilt ==
  ASSUME NEW b, NEW aw, NEW sd, Built(b, aw, sd), aw = FALSE, b.stack # <<>>
  PROVE  /\ Built(Json!Closed(b), aw, sd)
         /\ Json!Closed(b).stack = SubSeq(b.stack, 1, Len(b.stack) - 1)
         /\ Json!Closed(b).mode = "AFTER_VALUE"
<1>1. b \in Builders /\ aw \in BOOLEAN
  BY DEF Built
<1>2. PICK r \in Readers :
           /\ r = Json!ReadAll(b.out)
           /\ r.open = b.stack /\ r.strings = sd /\ r.wants = Wants(b, aw)
           /\ IF b.mode = "IN_VALUE" THEN r.wants = "char" /\ ~r.key ELSE Blank(r)
           /\ b.mode # "NORMAL" /\ b.stack # <<>> => ReadClosed(b, r).wants = "comma_or_close"
           /\ ReadClosed(b, r) \in Readers /\ Blank(ReadClosed(b, r))
           /\ ReadClosed(b, r).open = b.stack /\ ReadClosed(b, r).strings = sd
           /\ b.mode = "NORMAL" => ReadClosed(b, r) = r
  BY BuiltReads
<1>3. PICK c \in Readers : c = ReadClosed(b, r)
  BY <1>2
<1>4. c.wants \in {"comma_or_close", "key_or_close", "value_or_close"} /\ c.open = b.stack /\ c.strings = sd
  <2>1. CASE b.mode = "NORMAL"
    <3>1. Wants(b, aw) \in {"key_or_close", "value_or_close"}
      BY <2>1 DEF Wants
    <3> QED BY <1>2, <1>3, <2>1, <3>1
  <2>2. CASE b.mode # "NORMAL"
    BY <1>2, <1>3, <2>2
  <2> QED BY <2>1, <2>2
<1>5. /\ b.stack \in Seq(Brackets)
      /\ b.stack[Len(b.stack)] \in Brackets
      /\ SubSeq(b.stack, 1, Len(b.stack) - 1) \in Seq(Brackets)
      /\ Json!Read(c, b.stack[Len(b.stack)]) =
              Json!Complete([c EXCEPT !.open = SubSeq(b.stack, 1, Len(b.stack) - 1)])
  <2>1. c.open # <<>>
    BY <1>4
  <2> QED BY <1>1, <1>4, <2>1, ReadClosing, BuilderFacts
<1>6. PICK f \in Seq(Brackets) : f = SubSeq(b.stack, 1, Len(b.stack) - 1)
  BY <1>5
<1>7. PICK x \in Brackets : x = b.stack[Len(b.stack)]
  BY <1>5
<1>8. PICK a \in Builders :
           /\ a = [out |-> b.out, stack |-> f, mode |-> b.mode, need_indent |-> b.need_indent]
           /\ a.out = b.out /\ a.stack = f /\ a.mode = b.mode /\ a.need_indent = b.need_indent
  BY <1>1, BuilderMade, BuilderFacts, SMTT(30)
<1>9. a = [b EXCEPT !.stack = Json!Front(b.stack)]
  <2>1. Json!Front(b.stack) = f
    BY <1>6 DEF Json!Front
  <2>2. [b EXCEPT !.stack = f] = a
    BY <1>1, <1>8, BuilderChanged
  <2> QED BY <2>1, <2>2
<1>10. PICK n \in Builders :
           /\ n = ForOther(a) /\ n.stack = f
           /\ Json!ReadAll(n.out) = c
  <2>1. r = Json!ReadAll(a.out) /\ IF a.mode = "IN_VALUE" THEN r.wants = "char" /\ ~r.key ELSE Blank(r)
    BY <1>2, <1>8
  <2>2. PICK n \in Builders :
           /\ n = ForOther(a) /\ n.stack = a.stack
           /\ Json!ReadAll(n.out) = ReadClosed(a, r)
    BY <2>1, NormalizedOther
  <2>3. ReadClosed(a, r) = c
    BY <1>3, <1>8 DEF ReadClosed
  <2> QED BY <1>8, <2>2, <2>3
<1>11. x \in Byte
  BY ByteFacts DEF Brackets
<1>12. PICK p \in Builders :
           /\ p = Json!Push(n, <<x>>) /\ p.stack = f
           /\ Json!ReadAll(p.out) = Json!Read(c, x)
  BY <1>10, <1>11, PushedOne
<1>13. PICK e \in Builders :
           /\ e = [out |-> p.out, stack |-> p.stack, mode |-> "AFTER_VALUE", need_indent |-> p.need_indent]
           /\ e.out = p.out /\ e.stack = p.stack /\ e.mode = "AFTER_VALUE"
  BY BuilderMade, BuilderFacts
<1>14. Json!Closed(b) = e
  <2>1. Json!Closed(b) = [Json!Push(Json!normalize_mode([b EXCEPT !.stack = Json!Front(b.stack)], FALSE),
                                     <<Json!Last(b.stack)>>) EXCEPT !.mode = "AFTER_VALUE"]
    BY Zenon DEF Json!Closed
  <2>2. Json!Last(b.stack) = x
    BY <1>7 DEF Json!Last
  <2>3. Json!normalize_mode([b EXCEPT !.stack = Json!Front(b.stack)], FALSE) = n
    BY <1>9, <1>10, Zenon DEF ForOther
  <2>4. Json!Closed(b) = [p EXCEPT !.mode = "AFTER_VALUE"]
    BY <1>12, <2>1, <2>2, <2>3, Zenon
  <2>5. [p EXCEPT !.mode = "AFTER_VALUE"]
          = [out |-> p.out, stack |-> p.stack, mode |-> "AFTER_VALUE", need_indent |-> p.need_indent]
    BY BuilderChanged
  <2> QED BY <1>13, <2>4, <2>5
<1>15. PICK d \in Readers : d = [c EXCEPT !.open = f] /\ d.open = f /\ d.strings = sd
  <2>1. [c EXCEPT !.open = f] = [wants |-> c.wants, open |-> f, strings |-> c.strings, key |-> c.key]
    BY ReaderChanged, "end" \in Wanted DEF Wanted
  <2>2. Reader(c.wants, f, c.strings, c.key) \in Readers
    BY ReaderFacts, ReaderIn
  <2>3. Reader(c.wants, f, c.strings, c.key) = [c EXCEPT !.open = f]
    BY <2>1 DEF Reader
  <2>4. Reader(c.wants, f, c.strings, c.key).open = f /\ Reader(c.wants, f, c.strings, c.key).strings = c.strings
    BY DEF Reader
  <2> QED BY <1>4, <2>2, <2>3, <2>4, Zenon
<1>16. PICK q \in Readers : /\ q = Json!Complete(d) /\ q.open = f /\ q.strings = sd
                            /\ q.wants = IF f = <<>> THEN "end" ELSE "comma_or_close"
  BY <1>15, CompleteFacts
<1>17. Json!ReadAll(e.out) = q
  BY <1>5, <1>6, <1>7, <1>12, <1>13, <1>15, <1>16
<1>18. Wants(e, aw) = q.wants
  BY <1>12, <1>13, <1>16 DEF Wants
<1>19. Built(e, aw, q.strings)
  BY <1>1, <1>12, <1>13, <1>16, <1>17, <1>18, BuiltMade
<1> QED BY <1>6, <1>12, <1>13, <1>14, <1>16, <1>19

(* Closing until the stack is empty.                                       *)
Closing(b, i) == CHOOSE f : f = [k \in 0..Len(b.stack) |-> Stepped("close", b, i, f, k)]

LEMMA ClosingFacts ==
  ASSUME NEW b \in Builders, NEW i
  PROVE  /\ Closing(b, i)[0] = b
         /\ \A k \in 1..Len(b.stack) :
              Closing(b, i)[k] = Json!Closed(IF i THEN Json!Indented(Closing(b, i)[k - 1]) ELSE Closing(b, i)[k - 1])
<1> DEFINE f == Closing(b, i)
<1>1. PICK n \in Nat : n = Len(b.stack)
  BY BuilderFacts
<1>2. f = [k \in 0..Len(b.stack) |-> Stepped("close", b, i, f, k)]
  <2>1. Len(b.stack) \in Nat
    BY <1>1
  <2> QED BY <2>1, SteppedExists DEF Closing
<1> HIDE DEF f
<1>3. \A k \in 0..n : f[k] = Stepped("close", b, i, f, k)
  BY <1>1, <1>2
<1>4. 0 \in 0..n /\ \A k \in 1..n : k \in 0..n /\ k # 0
  BY <1>1
<1>5. f[0] = b
  BY <1>3, <1>4 DEF Stepped
<1>6. \A k \in 1..n : f[k] = Json!Closed(IF i THEN Json!Indented(f[k - 1]) ELSE f[k - 1])
  BY <1>3, <1>4 DEF Stepped
<1> QED BY <1>1, <1>5, <1>6 DEF f

LEMMA AllClosed ==
  ASSUME NEW b, NEW aw, NEW sd, Built(b, aw, sd), aw = FALSE, NEW i \in BOOLEAN,
         b.stack = <<>> => b.mode = "AFTER_VALUE"
  PROVE  LET all == Closing(b, i)[Len(b.stack)]
         IN Built(all, aw, sd) /\ all.stack = <<>> /\ all.mode = "AFTER_VALUE"
<1>1. b \in Builders
  BY DEF Built
<1>2. PICK n \in Nat : n = Len(b.stack) /\ (n = 0 => b.stack = <<>>)
  BY <1>1, BuilderFacts
<1> DEFINE f == Closing(b, i)
           Right(k) == /\ Built(f[k], aw, sd) /\ Len(f[k].stack) = n - k
                       /\ k = n => f[k].mode = "AFTER_VALUE"
           bad == {k \in Nat : k \in 0..n /\ ~Right(k)}
<1>3. f[0] = b /\ \A k \in 1..n : f[k] = Json!Closed(IF i THEN Json!Indented(f[k - 1]) ELSE f[k - 1])
  BY <1>1, <1>2, ClosingFacts
<1> HIDE DEF f
<1>4. bad = {}
  <2> SUFFICES ASSUME bad # {} PROVE FALSE
    OBVIOUS
  <2>1. PICK k \in bad : \A y \in bad : k <= y
    BY LeastNat
  <2>2. k # 0
    BY <1>2, <1>3, <2>1
  <2>3. k \in 1..n /\ k - 1 \in 0..n /\ k - 1 \in Nat /\ ~(k <= k - 1) /\ k - 1 # n
    BY <1>2, <2>1, <2>2
  <2>4. Right(k - 1)
    BY <2>1, <2>3
  <2> DEFINE p == f[k - 1]
             g == IF i THEN Json!Indented(p) ELSE p
  <2>5. Built(p, aw, sd) /\ Len(p.stack) = n - (k - 1)
    BY <2>4
  <2> HIDE DEF p
  <2>6. Built(g, aw, sd) /\ g.stack = p.stack
    <3>1. CASE i
      BY <2>5, <3>1, IndentBuilt
    <3>2. CASE ~i
      BY <2>5, <3>2
    <3> QED BY <3>1, <3>2
  <2>7. f[k] = Json!Closed(g)
    BY <1>3, <2>3 DEF p
  <2> HIDE DEF g
  <2>8. PICK m \in Nat \ {0} : m = Len(g.stack) /\ m - 1 = n - k /\ g.stack # <<>>
    <3>0. \A x, y \in Nat : y \in 1..x => x - (y - 1) \in Nat \ {0} /\ (x - (y - 1)) - 1 = x - y
      OBVIOUS
    <3>1. PICK m \in Nat \ {0} : m = n - (k - 1) /\ m - 1 = n - k
      BY <2>1, <2>3, <3>0, Zenon
    <3>2. g.stack \in Seq(Brackets)
      <4>1. g \in Builders
        BY <2>6 DEF Built
      <4> QED BY <4>1, BuilderFacts
    <3>3. Len(g.stack) = m
      BY <2>5, <2>6, <3>1
    <3> QED BY <3>1, <3>2, <3>3
  <2>9. /\ Built(Json!Closed(g), aw, sd)
        /\ Json!Closed(g).stack = SubSeq(g.stack, 1, Len(g.stack) - 1)
        /\ Json!Closed(g).mode = "AFTER_VALUE"
    BY <2>6, <2>8, CloseBuilt
  <2>10. Len(Json!Closed(g).stack) = n - k
    <3>1. g.stack \in Seq(Brackets)
      <4>1. g \in Builders
        BY <2>6 DEF Built
      <4> QED BY <4>1, BuilderFacts
    <3>2. Len(SubSeq(g.stack, 1, m - 1)) = m - 1
      BY <2>8, <3>1
    <3> QED BY <2>8, <2>9, <3>2
  <2>11. Right(k)
    BY <2>7, <2>9, <2>10
  <2> QED BY <2>1, <2>11
<1>5. n \in Nat /\ n \in 0..n /\ n - n = 0
  BY <1>2
<1>6. Built(f[n], aw, sd) /\ Len(f[n].stack) = 0 /\ f[n].mode = "AFTER_VALUE"
  BY <1>4, <1>5
<1>7. f[n].stack = <<>>
  <2>1. f[n] \in Builders
    BY <1>6 DEF Built
  <2>2. f[n].stack \in Seq(Brackets)
    BY <2>1, BuilderFacts
  <2> QED BY <1>6, <2>2
<1> QED BY <1>2, <1>6, <1>7 DEF f

LEMMA FinishBuilt ==
  ASSUME NEW b, NEW aw, NEW sd, Built(b, aw, sd), aw = FALSE, NEW i \in BOOLEAN,
         b.stack = <<>> => b.mode = "AFTER_VALUE"
  PROVE  /\ Built(Json!Finished(b, i), aw, sd)
         /\ Json!Finished(b, i).stack = <<>> /\ Json!Finished(b, i).mode = "AFTER_VALUE"
<1> DEFINE all == Closing(b, i)[Len(b.stack)]
<1>1. Built(all, aw, sd) /\ all.stack = <<>> /\ all.mode = "AFTER_VALUE"
  BY AllClosed
<1>2. Json!Finished(b, i) = IF Len(all.out) > gone /\ ~Json!EndsWith(all, "nl") THEN Json!Push(all, <<"nl">>) ELSE all
  BY DEF Json!Finished, Closing, Stepped, Json!NewLine
<1> HIDE DEF all
<1>3. all \in Builders /\ aw \in BOOLEAN
  BY <1>1 DEF Built
<1>4. PICK r \in Readers :
           /\ r = Json!ReadAll(all.out)
           /\ r.open = all.stack /\ r.strings = sd /\ r.wants = Wants(all, aw)
           /\ IF all.mode = "IN_VALUE" THEN r.wants = "char" /\ ~r.key ELSE Blank(r)
  BY <1>1, BuiltReads
<1>5. CASE Json!Finished(b, i) = Json!Push(all, <<"nl">>)
  <2>1. PICK e \in Builders : /\ e = Json!Push(all, <<"nl">>) /\ e.out = all.out \o <<"nl">>
                              /\ e.stack = <<>> /\ e.mode = "AFTER_VALUE"
    <3>1. <<"nl">> \in Seq(Byte)
      BY ByteFacts
    <3> DEFINE e == Json!Push(all, <<"nl">>)
    <3>2. e \in Builders /\ e.out = all.out \o <<"nl">> /\ e.stack = <<>> /\ e.mode = "AFTER_VALUE"
      BY <1>1, <1>3, <3>1, PushFactsJson
    <3> HIDE DEF e
    <3>3. \E f \in Builders : f = e
      BY <3>2
    <3> QED BY <3>2, <3>3 DEF e
  <2>2. Json!ReadAll(e.out) = r
    <3>1. <<"nl">> \in Seq({"space", "nl"})
      OBVIOUS
    <3>2. all.out \in Seq(Byte) /\ Blank(Json!ReadAll(all.out))
      BY <1>1, <1>3, <1>4, BuilderFacts
    <3> QED BY <1>4, <2>1, <3>1, <3>2, ReadBlanks
  <2>3. Wants(e, aw) = r.wants
    BY <1>1, <1>4, <2>1 DEF Wants
  <2>4. Built(e, aw, r.strings)
    BY <1>1, <1>3, <1>4, <2>1, <2>2, <2>3, BuiltMade
  <2> QED BY <1>4, <1>5, <2>1, <2>4
<1>6. CASE Json!Finished(b, i) = all
  BY <1>1, <1>6
<1> QED BY <1>2, <1>5, <1>6, Zenon

(* The builder is always one of these, and after finish it is at the end.  *)
JsonInv ==
  /\ Built(Json!Builder, awaiting, strings)
  /\ finished => closing = <<>> /\ mode = "AFTER_VALUE"

LEMMA BuilderNow ==
  /\ Json!Builder.out = out /\ Json!Builder.stack = closing
  /\ Json!Builder.mode = mode /\ Json!Builder.need_indent = need_indent
  BY DEF Json!Builder

LEMMA Became ==
  ASSUME NEW b \in Builders, Json!Become(b)
  PROVE  Json!Builder' = b /\ closing' = b.stack /\ mode' = b.mode
<1>1. out' = b.out /\ closing' = b.stack /\ mode' = b.mode /\ need_indent' = b.need_indent
  BY DEF Json!Become
<1>2. Json!Builder' = [out |-> b.out, stack |-> b.stack, mode |-> b.mode, need_indent |-> b.need_indent]
  BY <1>1 DEF Json!Builder
<1> QED BY <1>1, <1>2, BuilderFacts

LEMMA BuiltNext ==
  ASSUME NEW b, Json!Become(b), Built(b, awaiting', strings'), finished' = FALSE
  PROVE  JsonInv'
<1>1. b \in Builders
  BY DEF Built
<1>2. Json!Builder' = b
  BY <1>1, Became
<1>3. Built(Json!Builder', awaiting', strings')
  BY <1>2, Zenon
<1> QED BY <1>3 DEF JsonInv

LEMMA JsonStart ==
  ASSUME Json!Init
  PROVE  JsonInv
<1>1. /\ out = <<>> /\ closing = <<>> /\ mode = "NORMAL" /\ need_indent = FALSE
      /\ awaiting = FALSE /\ strings = <<>> /\ finished = FALSE
  BY DEF Json!Init
<1> DEFINE b == Json!Builder
<1>2. <<>> \in Seq(Byte) /\ <<>> \in Seq(Brackets) /\ <<>> \in Seq(Seq(Byte))
  <2>1. \A S : <<>> \in Seq(S)
    OBVIOUS
  <2> QED BY <2>1, Zenon
<1>3. b \in Builders
  <2>1. need_indent \in BOOLEAN /\ mode \in {"NORMAL", "IN_VALUE", "AFTER_VALUE"}
        /\ out \in Seq(Byte) /\ closing \in Seq(Brackets)
    BY <1>1, <1>2
  <2> QED BY <2>1 DEF Json!Builder, Builders
<1>4. "value" \in Wanted
  BY DEF Wanted
<1>5. PICK no \in BOOLEAN : no = FALSE /\ awaiting = no
  BY <1>1
<1>6. Json!Start = Reader("value", <<>>, <<>>, no)
  BY <1>5 DEF Json!Start, Reader
<1>7. PICK r \in Readers : /\ r = Json!Start /\ r.wants = "value" /\ r.open = <<>> /\ r.strings = <<>>
  BY <1>2, <1>4, <1>6, ReaderIn, ZenonT(40)
<1>8. b.out = <<>> /\ b.stack = <<>> /\ b.mode = "NORMAL"
  BY <1>1, BuilderNow
<1> HIDE DEF b
<1>9. r = Json!ReadAll(b.out)
  BY <1>7, <1>8, ReadNone
<1>10. Wants(b, no) = "value"
  BY <1>8 DEF Wants
<1>11. Built(b, no, r.strings)
  BY <1>3, <1>5, <1>7, <1>8, <1>9, <1>10, BuiltMade
<1>12. Built(b, awaiting, strings)
  BY <1>1, <1>5, <1>7, <1>11, Zenon
<1> QED BY <1>1, <1>12 DEF JsonInv, b

LEMMA PlaceNow ==
  ASSUME Json!PlaceForValue
  PROVE  PlaceFor(Json!Builder, awaiting) /\ ~finished
<1>1. ~finished /\ IF closing = <<>> THEN out = <<>> ELSE closing[Len(closing)] = "end_array" \/ awaiting
  BY DEF Json!PlaceForValue, Json!Last, Json!EndArray
<1> QED BY <1>1, BuilderNow DEF PlaceFor

LEMMA JsonKept ==
  ASSUME JsonInv, [Json!Next]_Json!vars
  PROVE  JsonInv'
<1> DEFINE b == Json!Builder
<1>0. Built(b, awaiting, strings) /\ b \in Builders /\ awaiting \in BOOLEAN
  BY DEF JsonInv, Built
<1>1. CASE Json!Object
  <2>1. PlaceFor(b, awaiting) /\ finished' = FALSE /\ awaiting' = FALSE /\ strings' = strings
    BY <1>1, PlaceNow DEF Json!Object
  <2>2. Json!Become(Json!Opened(b, "begin_object", "end_object"))
    BY <1>1 DEF Json!Object, Json!BeginObject, Json!EndObject
  <2> HIDE DEF b
  <2>3. Built(Json!Opened(b, "begin_object", "end_object"), awaiting', strings)
    BY <1>0, <2>1, ObjectBuilt
  <2> QED BY <2>1, <2>2, <2>3, BuiltNext
<1>2. CASE Json!Array
  <2>1. PlaceFor(b, awaiting) /\ finished' = FALSE /\ awaiting' = FALSE /\ strings' = strings
    BY <1>2, PlaceNow DEF Json!Array
  <2>2. Json!Become(Json!Opened(b, "begin_array", "end_array"))
    BY <1>2 DEF Json!Array, Json!BeginArray, Json!EndArray
  <2> HIDE DEF b
  <2>3. Built(Json!Opened(b, "begin_array", "end_array"), awaiting', strings)
    BY <1>0, <2>1, ObjectBuilt
  <2> QED BY <2>1, <2>2, <2>3, BuiltNext
<1>3. CASE Json!Key
  <2>1. PICK t \in Texts : Json!Become(Json!Keyed(b, t)) /\ strings' = Append(strings, t)
    BY <1>3, Zenon DEF Json!Key
  <2>2. ~finished /\ closing # <<>> /\ closing[Len(closing)] = "end_object" /\ ~awaiting /\ awaiting' = TRUE
        /\ finished' = finished
    BY <1>3 DEF Json!Key, Json!Last, Json!EndObject
  <2>3. b.stack # <<>> /\ b.stack[Len(b.stack)] = "end_object"
    BY <2>2, BuilderNow
  <2> HIDE DEF b
  <2>4. Built(Json!Keyed(b, t), awaiting', Append(strings, t))
    BY <1>0, <2>2, <2>3, KeyBuilt
  <2>5. finished' = FALSE
    BY <2>2, <1>3 DEF Json!Key
  <2> QED BY <2>1, <2>4, <2>5, BuiltNext
<1>4. CASE Json!Value
  <2>1. PICK t \in Texts, append \in BOOLEAN :
          /\ append => mode # "IN_VALUE"
          /\ Json!Become(Json!Valued(b, t, append)) /\ strings' = Append(strings, t)
    BY <1>4, Zenon DEF Json!Value
  <2>2. PlaceFor(b, awaiting) /\ finished' = FALSE /\ awaiting' = FALSE /\ b.stack # <<>>
    BY <1>4, PlaceNow, BuilderNow DEF Json!Value
  <2>3. append => b.mode # "IN_VALUE"
    BY <2>1, BuilderNow
  <2> HIDE DEF b
  <2>4. Built(Json!Valued(b, t, append), awaiting', Append(strings, t))
    BY <1>0, <2>2, <2>3, ValueBuilt
  <2> QED BY <2>1, <2>2, <2>4, BuiltNext
<1>5. CASE Json!MoreValue
  <2>1. PICK t \in Texts : /\ Json!Become(Json!Valued(b, t, TRUE))
                           /\ strings' = [strings EXCEPT ![Len(strings)] = @ \o t]
    BY <1>5, Zenon DEF Json!MoreValue
  <2>2. b.mode = "IN_VALUE" /\ awaiting' = awaiting /\ finished' = FALSE
    BY <1>5, BuilderNow DEF Json!MoreValue
  <2> HIDE DEF b
  <2>3. Built(Json!Valued(b, t, TRUE), awaiting, [strings EXCEPT ![Len(strings)] = @ \o t])
    BY <1>0, <2>2, MoreBuilt, Zenon
  <2>4. Built(Json!Valued(b, t, TRUE), awaiting', strings')
    BY <2>1, <2>2, <2>3, Zenon
  <2> QED BY <2>1, <2>2, <2>4, BuiltNext, Zenon
<1>6. CASE Json!Number
  <2>1. PlaceFor(b, awaiting) /\ finished' = FALSE /\ awaiting' = FALSE /\ strings' = strings
    BY <1>6, PlaceNow DEF Json!Number
  <2>2. Json!Become(Json!Scalar(b))
    BY <1>6 DEF Json!Number
  <2> HIDE DEF b
  <2>3. Built(Json!Scalar(b), awaiting', strings)
    BY <1>0, <2>1, ScalarBuilt
  <2> QED BY <2>1, <2>2, <2>3, BuiltNext
<1>7. CASE Json!Indent
  <2>1. Json!Become(Json!Indented(b)) /\ finished' = FALSE /\ awaiting' = awaiting /\ strings' = strings
    BY <1>7 DEF Json!Indent
  <2> HIDE DEF b
  <2>2. Built(Json!Indented(b), awaiting, strings)
    BY <1>0, IndentBuilt
  <2> QED BY <2>1, <2>2, BuiltNext
<1>8. CASE Json!Close
  <2>1. /\ Json!Become(Json!Closed(b)) /\ finished' = FALSE /\ awaiting' = awaiting /\ strings' = strings
        /\ awaiting = FALSE /\ b.stack # <<>>
    BY <1>0, <1>8, BuilderNow DEF Json!Close
  <2> HIDE DEF b
  <2>2. Built(Json!Closed(b), awaiting, strings)
    BY <1>0, <2>1, CloseBuilt
  <2> QED BY <2>1, <2>2, BuiltNext
<1>9. CASE Json!Finish
  <2>1. PICK i \in BOOLEAN : Json!Become(Json!Finished(b, i))
    BY <1>9 DEF Json!Finish
  <2>2. awaiting' = awaiting /\ strings' = strings /\ awaiting = FALSE /\ b.out # <<>>
    BY <1>0, <1>9, BuilderNow DEF Json!Finish
  <2> HIDE DEF b
  <2>3. b.stack = <<>> => b.mode = "AFTER_VALUE"
    <3>1. b.mode \in {"NORMAL", "IN_VALUE", "AFTER_VALUE"}
      BY <1>0, BuilderFacts
    <3>2. b.mode = "IN_VALUE" => b.stack # <<>>
      BY <1>0 DEF Built
    <3>3. b.stack = <<>> /\ b.mode = "NORMAL" => b.out = <<>>
      BY <1>0 DEF Built
    <3> QED BY <2>2, <3>1, <3>2, <3>3
  <2>4. /\ Built(Json!Finished(b, i), awaiting, strings)
        /\ Json!Finished(b, i).stack = <<>> /\ Json!Finished(b, i).mode = "AFTER_VALUE"
    BY <1>0, <2>2, <2>3, FinishBuilt
  <2>5. Json!Finished(b, i) \in Builders
    BY <2>4 DEF Built
  <2>6. Json!Builder' = Json!Finished(b, i) /\ closing' = <<>> /\ mode' = "AFTER_VALUE"
    BY <2>1, <2>4, <2>5, Became
  <2>7. Built(Json!Builder', awaiting', strings')
    BY <2>2, <2>4, <2>6, Zenon
  <2> QED BY <2>6, <2>7 DEF JsonInv
<1>10. CASE Json!Discard \/ UNCHANGED Json!vars
  <2>1. /\ out' = out /\ closing' = closing /\ mode' = mode /\ need_indent' = need_indent
        /\ awaiting' = awaiting /\ strings' = strings /\ finished' = finished
    BY <1>10 DEF Json!Discard, Json!vars
  <2>2. Json!Builder' = Json!Builder
    BY <2>1 DEF Json!Builder
  <2>3. Built(Json!Builder', awaiting', strings')
    BY <1>0, <2>1, <2>2, Zenon
  <2> QED BY <2>1, <2>3 DEF JsonInv
<1> QED
  BY <1>1, <1>2, <1>3, <1>4, <1>5, <1>6, <1>7, <1>8, <1>9, <1>10, Zenon DEF Json!Next

LEMMA JsonFollows ==
  ASSUME JsonInv
  PROVE  Json!ValidSoFar /\ Json!FinishedIsDocument /\ Json!SaysWhatWasSaid
<1>1. PICK r \in Readers :
           /\ r = Json!ReadAll(Json!Builder.out)
           /\ r.open = Json!Builder.stack /\ r.strings = strings /\ r.wants = Wants(Json!Builder, awaiting)
  BY DEF JsonInv, Built
<1>2. r = Json!Reading /\ r.open = closing
  BY <1>1, BuilderNow DEF Json!Reading
<1>3. r.wants # "nothing"
  BY <1>1 DEF Wants
<1>4. finished => r.wants = "end"
  BY <1>1, BuilderNow DEF JsonInv, Wants
<1> QED BY <1>1, <1>2, <1>3, <1>4 DEF Json!ValidSoFar, Json!FinishedIsDocument, Json!SaysWhatWasSaid

-----------------------------------------------------------------------------
(* The library, where only one component works at a time.                  *)
Lib == INSTANCE Library

(* The caches of the library are those above.                              *)
LEMMA CachesOfLibrary ==
  /\ Lib!Init <=> Init
  /\ Lib!Next <=> Next
  /\ Lib!vars = vars
<1>1. Lib!Init <=> Init
  BY DEF Lib!Init, Init
<1>2. Lib!Next <=> Next
  BY DEF Lib!Next, Next, Lib!Acquire, Acquire, Lib!Goto, Goto, Lib!FoundEmpty, FoundEmpty,
         Lib!Release, Release, Lib!PopBack, PopBack, Lib!Clear, Clear, Lib!Fill, Fill,
         Lib!FailOptions, FailOptions, Lib!EmplaceBack, EmplaceBack, Last, Lib!Last, Front, Lib!Front
<1>3. Lib!vars = vars
  BY DEF Lib!vars, vars
<1> QED BY <1>1, <1>2, <1>3

(* So are the service and the names of models.                             *)
LEMMA ServiceOfLibrary ==
  /\ Lib!Processes!Init <=> Processes!Init
  /\ Lib!Processes!Next <=> Processes!Next
<1>1. Lib!Processes!Init <=> Processes!Init
  BY DEF Lib!Processes!Init, Processes!Init
<1>2. /\ Lib!Processes!Accepted <=> Processes!Accepted
      /\ Lib!Processes!next_sentence <=> Processes!next_sentence
      /\ Lib!Processes!ReadError <=> Processes!ReadError
      /\ Lib!Processes!tag <=> Processes!tag
      /\ Lib!Processes!parse <=> Processes!parse
      /\ Lib!Processes!Constructed <=> Processes!Constructed
      /\ Lib!Processes!Fails <=> Processes!Fails
  BY DEF Lib!Processes!Accepted, Processes!Accepted, Lib!Processes!next_sentence,
         Processes!next_sentence, Lib!Processes!ReadError, Processes!ReadError,
         Lib!Processes!tag, Processes!tag, Lib!Processes!parse, Processes!parse,
         Lib!Processes!Constructed, Processes!Constructed, Lib!Processes!Fails, Processes!Fails,
         Lib!Processes!Parts, Processes!Parts, Lib!Processes!capabilities,
         Processes!capabilities, Lib!Processes!new_tokenizer, Processes!new_tokenizer,
         Lib!Processes!get_input_format, Processes!get_input_format, Lib!Processes!get_tagger,
         Processes!get_tagger, Lib!Processes!get_parser, Processes!get_parser
<1>3. Lib!Processes!Handle <=> Processes!Handle
  <2>1. Lib!Processes!Memory = Processes!Memory
    BY DEF Lib!Processes!Memory, Processes!Memory
  <2>2. \A m : Lib!Processes!set_text(m) <=> Processes!set_text(m)
    BY DEF Lib!Processes!set_text, Processes!set_text
  <2> QED BY <1>2, <2>1, <2>2 DEF Lib!Processes!Handle, Processes!Handle
<1>4. Lib!Processes!TrySentence <=> Processes!TrySentence
  BY <1>2 DEF Lib!Processes!TrySentence, Processes!TrySentence
<1>5. Lib!Processes!Respond <=> Processes!Respond
  BY <1>2 DEF Lib!Processes!Respond, Processes!Respond, Lib!Processes!Kept, Processes!Kept,
         Lib!Processes!set_text, Processes!set_text
<1>6. Lib!Processes!Generate <=> Processes!Generate
  BY DEF Lib!Processes!Generate, Processes!Generate, Lib!Processes!Written, Processes!Written,
         Lib!Processes!tag, Processes!tag, Lib!Processes!parse, Processes!parse,
         Lib!Processes!next_sentence, Processes!next_sentence
<1>7. Lib!Processes!process <=> Processes!process
  BY <1>2 DEF Lib!Processes!process, Processes!process, Lib!Processes!Written, Processes!Written
<1>8. Lib!Processes!Next <=> Processes!Next
  BY <1>3, <1>4, <1>5, <1>6, <1>7 DEF Lib!Processes!Next, Processes!Next
<1> QED BY <1>1, <1>8

LEMMA NamesOfLibrary ==
  /\ Lib!Naming!Init <=> Naming!Init
  /\ Lib!Naming!Next <=> Naming!Next
<1>1. Lib!Naming!Init <=> Naming!Init
  BY DEF Lib!Naming!Init, Naming!Init
<1>2. Lib!Naming!Next <=> Naming!Next
  BY DEF Lib!Naming!Next, Naming!Next, Lib!Naming!AddModel, Naming!AddModel,
         Lib!Naming!ResolveDefault, Naming!ResolveDefault, Lib!Naming!InUse, Naming!InUse,
         Lib!Naming!Names, Naming!Names, Lib!Naming!Emplace, Naming!Emplace,
         Lib!Naming!HyphenPrefixes, Naming!HyphenPrefixes, Lib!Naming!ToSet, Naming!ToSet,
         Lib!Naming!Empty, Naming!Empty
<1> QED BY <1>1, <1>2

(* And so is the builder of JSON.                                          *)
LEMMA JsonOfLibrary ==
  /\ Lib!Json!Init <=> Json!Init
  /\ Lib!Json!Next <=> Json!Next
<1>1. Lib!Json!Init <=> Json!Init
  BY DEF Lib!Json!Init, Json!Init
<1>2. \A b, t : Lib!Json!Push(b, t) = Json!Push(b, t)
  BY Zenon DEF Lib!Json!Push, Json!Push
<1>3. \A b, sv : Lib!Json!normalize_mode(b, sv) = Json!normalize_mode(b, sv)
  BY Zenon DEF Lib!Json!normalize_mode, Json!normalize_mode, Lib!Json!Push, Json!Push, Lib!Json!EndsWith, Json!EndsWith, Lib!Json!Last, Json!Last, Lib!Json!Quote, Json!Quote, Lib!Json!Space, Json!Space, Lib!Json!NewLine, Json!NewLine, Lib!Json!NameSeparator, Json!NameSeparator, Lib!Json!ValueSeparator, Json!ValueSeparator
<1>4. \A t : Lib!Json!Encoded(t) = Json!Encoded(t)
  BY Zenon DEF Lib!Json!Encoded, Json!Encoded, Lib!Json!Encode, Json!Encode, Lib!Json!Quote, Json!Quote, Lib!Json!Backslash, Json!Backslash, Lib!Json!NewLine, Json!NewLine, Lib!Json!Control, Json!Control
<1>5. \A b, t : Lib!Json!Keyed(b, t) = Json!Keyed(b, t)
    BY Zenon DEF Lib!Json!normalize_mode, Json!normalize_mode, Lib!Json!Push, Json!Push,
         Lib!Json!EndsWith, Json!EndsWith, Lib!Json!Last, Json!Last, Lib!Json!Quote, Json!Quote,
         Lib!Json!Space, Json!Space, Lib!Json!NewLine, Json!NewLine, Lib!Json!NameSeparator,
         Json!NameSeparator, Lib!Json!ValueSeparator, Json!ValueSeparator, Lib!Json!Keyed,
         Json!Keyed, Lib!Json!Encoded, Json!Encoded, Lib!Json!Encode, Json!Encode,
         Lib!Json!Backslash, Json!Backslash, Lib!Json!Control, Json!Control
<1>6. ASSUME NEW b, NEW t, NEW append PROVE Lib!Json!Valued(b, t, append) = Json!Valued(b, t, append)
  BY <1>2, <1>3, <1>4, Zenon DEF Lib!Json!Valued, Json!Valued, Lib!Json!Quote, Json!Quote
<1>7. ASSUME NEW b, NEW o, NEW c PROVE Lib!Json!Opened(b, o, c) = Json!Opened(b, o, c)
  BY <1>2, <1>3, Zenon DEF Lib!Json!Opened, Json!Opened
<1>8. \A b : Lib!Json!Scalar(b) = Json!Scalar(b)
    BY Zenon DEF Lib!Json!normalize_mode, Json!normalize_mode, Lib!Json!Push, Json!Push,
         Lib!Json!EndsWith, Json!EndsWith, Lib!Json!Last, Json!Last, Lib!Json!Quote, Json!Quote,
         Lib!Json!Space, Json!Space, Lib!Json!NewLine, Json!NewLine, Lib!Json!NameSeparator,
         Json!NameSeparator, Lib!Json!ValueSeparator, Json!ValueSeparator, Lib!Json!Scalar,
         Json!Scalar
<1>9. \A b : Lib!Json!Indented(b) = Json!Indented(b)
    BY Zenon DEF Lib!Json!normalize_mode, Json!normalize_mode, Lib!Json!Push, Json!Push,
         Lib!Json!EndsWith, Json!EndsWith, Lib!Json!Last, Json!Last, Lib!Json!Quote, Json!Quote,
         Lib!Json!Space, Json!Space, Lib!Json!NewLine, Json!NewLine, Lib!Json!NameSeparator,
         Json!NameSeparator, Lib!Json!ValueSeparator, Json!ValueSeparator, Lib!Json!Indented,
         Json!Indented
<1>10. \A b : Lib!Json!Closed(b) = Json!Closed(b)
    BY Zenon DEF Lib!Json!normalize_mode, Json!normalize_mode, Lib!Json!Push, Json!Push,
         Lib!Json!EndsWith, Json!EndsWith, Lib!Json!Last, Json!Last, Lib!Json!Quote, Json!Quote,
         Lib!Json!Space, Json!Space, Lib!Json!NewLine, Json!NewLine, Lib!Json!NameSeparator,
         Json!NameSeparator, Lib!Json!ValueSeparator, Json!ValueSeparator, Lib!Json!Closed,
         Json!Closed, Lib!Json!Front, Json!Front
<1>11. ASSUME NEW b, NEW i PROVE Lib!Json!Finished(b, i) = Json!Finished(b, i)
  <2> DEFINE own(f) == [n \in 0..Len(b.stack) |->
                          IF n = 0 THEN b
                          ELSE Json!Closed(IF i THEN Json!Indented(f[n - 1]) ELSE f[n - 1])]
             its(f) == [n \in 0..Len(b.stack) |->
                          IF n = 0 THEN b
                          ELSE Lib!Json!Closed(IF i THEN Lib!Json!Indented(f[n - 1]) ELSE f[n - 1])]
             OwnAll == (CHOOSE f : f = own(f))[Len(b.stack)]
             ItsAll == (CHOOSE f : f = its(f))[Len(b.stack)]
  <2>1. ASSUME NEW f PROVE own(f) = its(f)
    BY <1>9, <1>10
  <2>2. Json!Finished(b, i) = IF Len(OwnAll.out) > gone /\ ~Json!EndsWith(OwnAll, Json!NewLine)
                              THEN Json!Push(OwnAll, <<Json!NewLine>>) ELSE OwnAll
    BY DEF Json!Finished
  <2>3. Lib!Json!Finished(b, i) = IF Len(ItsAll.out) > gone /\ ~Lib!Json!EndsWith(ItsAll, Lib!Json!NewLine)
                                  THEN Lib!Json!Push(ItsAll, <<Lib!Json!NewLine>>) ELSE ItsAll
    BY DEF Lib!Json!Finished
  <2> HIDE DEF own, its
  <2>4. OwnAll = ItsAll
    <3>1. (CHOOSE f : f = own(f)) = (CHOOSE f : f = its(f))
      BY <2>1, Zenon
    <3> QED BY <3>1, Zenon
  <2> HIDE DEF OwnAll, ItsAll
  <2>5. \A x : Lib!Json!EndsWith(x, Lib!Json!NewLine) <=> Json!EndsWith(x, Json!NewLine)
    BY Zenon DEF Lib!Json!EndsWith, Json!EndsWith, Lib!Json!Last, Json!Last, Lib!Json!NewLine, Json!NewLine
  <2>6. Lib!Json!Push(OwnAll, <<Lib!Json!NewLine>>) = Json!Push(OwnAll, <<Json!NewLine>>)
    BY <1>2, Zenon DEF Lib!Json!NewLine, Json!NewLine
  <2> QED BY <2>2, <2>3, <2>4, <2>5, <2>6, Zenon
<1>12. (\A b : Lib!Json!Become(b) <=> Json!Become(b)) /\ Lib!Json!Builder = Json!Builder
  BY Zenon DEF Lib!Json!Become, Json!Become, Lib!Json!Builder, Json!Builder
<1>13. Lib!Json!PlaceForValue <=> Json!PlaceForValue
    BY Zenon DEF Lib!Json!PlaceForValue, Json!PlaceForValue, Lib!Json!Last, Json!Last,
         Lib!Json!EndArray, Json!EndArray
<1>14. Lib!Json!Object <=> Json!Object
    BY <1>7, <1>12, <1>13, Zenon DEF Lib!Json!Object, Json!Object, Lib!Json!BeginObject,
         Json!BeginObject, Lib!Json!EndObject, Json!EndObject
<1>15. Lib!Json!Array <=> Json!Array
    BY <1>7, <1>12, <1>13, Zenon DEF Lib!Json!Array, Json!Array, Lib!Json!BeginArray,
         Json!BeginArray, Lib!Json!EndArray, Json!EndArray
<1>16. Lib!Json!Key <=> Json!Key
    BY <1>5, <1>12, Zenon DEF Lib!Json!Key, Json!Key, Lib!Json!Last, Json!Last,
         Lib!Json!EndObject, Json!EndObject
<1>17. Lib!Json!Value <=> Json!Value
  BY <1>6, <1>12, <1>13, Zenon DEF Lib!Json!Value, Json!Value
<1>18. Lib!Json!MoreValue <=> Json!MoreValue
  BY <1>6, <1>12, Zenon DEF Lib!Json!MoreValue, Json!MoreValue
<1>19. Lib!Json!Number <=> Json!Number
  BY <1>8, <1>12, <1>13, Zenon DEF Lib!Json!Number, Json!Number
<1>20. Lib!Json!Indent <=> Json!Indent
  BY <1>9, <1>12, Zenon DEF Lib!Json!Indent, Json!Indent
<1>21. Lib!Json!Close <=> Json!Close
  BY <1>10, <1>12, Zenon DEF Lib!Json!Close, Json!Close
<1>22. Lib!Json!Finish <=> Json!Finish
  BY <1>11, <1>12, Zenon DEF Lib!Json!Finish, Json!Finish
<1>23. Lib!Json!Discard <=> Json!Discard
  BY Zenon DEF Lib!Json!Discard, Json!Discard, Lib!Json!json, Json!json
<1>24. Lib!Json!Next <=> Json!Next
  BY <1>14, <1>15, <1>16, <1>17, <1>18, <1>19, <1>20, <1>21, <1>22, <1>23, Zenon
     DEF Lib!Json!Next, Json!Next
<1> QED BY <1>1, <1>24

LEMMA TrainingOfLibrary ==
  /\ Lib!Training!Init <=> Training!Init
  /\ Lib!Training!Next <=> Training!Next
<1>1. Lib!Training!Init <=> Training!Init
  BY DEF Lib!Training!Init, Training!Init, Lib!Training!NoInfo, Training!NoInfo,
         Lib!Training!ToSet, Training!ToSet, Lib!Training!FlattenSeq, Training!FlattenSeq
<1>2. \A info, upto : Lib!Training!GammaUpdated(info, upto) = Training!GammaUpdated(info, upto)
  BY Zenon DEF Lib!Training!GammaUpdated, Training!GammaUpdated
<1>3. \A w, key, by : Lib!Training!Moved(w, key, by) = Training!Moved(w, key, by)
  BY <1>2, Zenon DEF Lib!Training!Moved, Training!Moved
<1>4. Lib!Training!Word <=> Training!Word
  BY <1>3, Zenon DEF Lib!Training!Word, Training!Word
<1>5. Lib!Training!SentenceEnd <=> Training!SentenceEnd
  BY DEF Lib!Training!SentenceEnd, Training!SentenceEnd
<1>6. Lib!Training!IterationEnd <=> Training!IterationEnd
  <2>1. \A info : Lib!Training!Finalized(info) = Training!Finalized(info)
    BY <1>2, Zenon DEF Lib!Training!Finalized, Training!Finalized
  <2>2. \A correct : Lib!Training!Better(correct) <=> Training!Better(correct)
    BY DEF Lib!Training!Better, Training!Better
  <2> QED BY <2>1, <2>2, Zenon DEF Lib!Training!IterationEnd, Training!IterationEnd
<1>7. Lib!Training!TrainingEnd <=> Training!TrainingEnd
  BY DEF Lib!Training!TrainingEnd, Training!TrainingEnd
<1> QED BY <1>1, <1>4, <1>5, <1>6, <1>7 DEF Lib!Training!Next, Training!Next

(* A step of the library is one of the component that works.               *)
LEMMA Working ==
  ASSUME Lib!LibraryNext
  PROVE  /\ which' = which
         /\ which = "caches" => Lib!Next
         /\ which = "processing" => Lib!Processes!Next
         /\ which = "names" => Lib!Naming!Next
         /\ which = "json" => Lib!Json!Next
         /\ which = "training" => Lib!Training!Next
<1>1. \A names : Lib!Alone(names) => which \in names /\ which' = which
  BY DEF Lib!Alone
<1>2. \A names : Lib!Alone(names) => which' = which
  BY <1>1
<1>3. which' = which
  BY <1>2, Zenon DEF Lib!LibraryNext
<1>4. \A name : Lib!Alone({name}) => which = name
  BY <1>1
<1>5. which = "caches" => Lib!Next
  BY <1>4, ZenonT(60) DEF Lib!LibraryNext
<1>6. which = "processing" => Lib!Processes!Next
  BY <1>4, ZenonT(60) DEF Lib!LibraryNext
<1>7. which = "names" => Lib!Naming!Next
  BY <1>4, ZenonT(60) DEF Lib!LibraryNext
<1>8. which = "json" => Lib!Json!Next
  BY <1>4, ZenonT(60) DEF Lib!LibraryNext
<1>9. which = "training" => Lib!Training!Next
  BY <1>4, ZenonT(60) DEF Lib!LibraryNext
<1> QED BY <1>3, <1>5, <1>6, <1>7, <1>8, <1>9

Owned == which = "caches" => CachesInv

LEMMA OwnedStart ==
  ASSUME Lib!LibraryInit
  PROVE  Owned
<1>1. which = "caches" => Init
  BY CachesOfLibrary DEF Lib!LibraryInit
<1> QED BY <1>1, CachesAssumption, CachesStart DEF Owned

LEMMA OwnedKept ==
  ASSUME Owned, [Lib!LibraryNext]_Lib!libraryVars
  PROVE  Owned'
<1> SUFFICES ASSUME which' = "caches" PROVE CachesInv'
  BY DEF Owned
<1>1. which = "caches" /\ [Next]_vars
  <2>1. CASE UNCHANGED Lib!libraryVars
    BY <2>1 DEF Lib!libraryVars, Lib!cachesVars, Lib!vars, vars
  <2>2. CASE Lib!LibraryNext
    BY <2>2, CachesOfLibrary, Working
  <2> QED BY <2>1, <2>2
<1> QED BY <1>1, CachesAssumption, CachesKept DEF Owned

(* So the caches of a model have one owner each in the library, too.       *)
THEOREM CachesOwnedHolds == Lib!LibrarySpec => []CachesOwned
<1>1. Owned => CachesOwned
  BY CachesAssumption, OneOwnerFollows, CachesFewFollows DEF Owned, CachesOwned
<1> QED BY <1>1, OwnedStart, OwnedKept, PTL DEF Lib!LibrarySpec

ServiceOwned ==
  /\ which = "processing" => Served
  /\ which = "names" => Named

LEMMA ServiceStart ==
  ASSUME Lib!LibraryInit
  PROVE  ServiceOwned
<1>1. which = "processing" => Processes!Init
  BY ServiceOfLibrary DEF Lib!LibraryInit
<1>2. which = "names" => Naming!Init
  BY NamesOfLibrary DEF Lib!LibraryInit
<1> QED BY <1>1, <1>2, ServedStart, NamedStart DEF ServiceOwned

LEMMA ServiceKept ==
  ASSUME ServiceOwned, [Lib!LibraryNext]_Lib!libraryVars
  PROVE  ServiceOwned'
<1>1. which' = "processing" => which = "processing" /\ [Processes!Next]_Processes!vars
  <2>1. CASE UNCHANGED Lib!libraryVars
    BY <2>1 DEF Lib!libraryVars, Lib!processingVars, Processes!vars
  <2>2. CASE Lib!LibraryNext
    BY <2>2, Working, ServiceOfLibrary
  <2> QED BY <2>1, <2>2
<1>2. which' = "names" => which = "names" /\ [Naming!Next]_Naming!vars
  <2>1. CASE UNCHANGED Lib!libraryVars
    BY <2>1 DEF Lib!libraryVars, Lib!namesVars, Naming!vars
  <2>2. CASE Lib!LibraryNext
    BY <2>2, Working, NamesOfLibrary
  <2> QED BY <2>1, <2>2
<1> QED BY <1>1, <1>2, ServedKept, NamedKept DEF ServiceOwned

(* A response is whole or an error, and a name of a model means the first  *)
(* model that has it, for all requests and all lists of models.            *)
THEOREM ServiceRightHolds == Lib!LibrarySpec => []ServiceRight
<1>1. ServiceOwned => ServiceRight
  BY ServedRight DEF ServiceOwned, Named, ServiceRight
<1> QED BY <1>1, ServiceStart, ServiceKept, PTL DEF Lib!LibrarySpec

JsonOwned == which = "json" => JsonInv

LEMMA JsonOwnedStart ==
  ASSUME Lib!LibraryInit
  PROVE  JsonOwned
<1>1. which = "json" => Json!Init
  BY JsonOfLibrary DEF Lib!LibraryInit
<1> QED BY <1>1, JsonStart DEF JsonOwned

LEMMA JsonOwnedKept ==
  ASSUME JsonOwned, [Lib!LibraryNext]_Lib!libraryVars
  PROVE  JsonOwned'
<1>1. which' = "json" => which = "json" /\ [Json!Next]_Json!vars
  <2>1. CASE UNCHANGED Lib!libraryVars
    BY <2>1 DEF Lib!libraryVars, Lib!jsonVars, Json!vars
  <2>2. CASE Lib!LibraryNext
    BY <2>2, Working, JsonOfLibrary
  <2> QED BY <2>1, <2>2
<1> QED BY <1>1, JsonKept DEF JsonOwned

(* json_builder writes a JSON document with the strings it was given, for  *)
(* all texts without control characters and in whatever parts it is sent.  *)
THEOREM JsonRightHolds == Lib!LibrarySpec => []JsonRight
<1>1. JsonOwned => JsonRight
  BY JsonFollows DEF JsonOwned, JsonRight
<1> QED BY <1>1, JsonOwnedStart, JsonOwnedKept, PTL DEF Lib!LibrarySpec

TrainingOwned == which = "training" => TrainingInv

LEMMA TrainingOwnedStart ==
  ASSUME Lib!LibraryInit
  PROVE  TrainingOwned
<1>1. which = "training" => Training!Init
  BY TrainingOfLibrary DEF Lib!LibraryInit
<1> QED BY <1>1, TrainingStart DEF TrainingOwned

LEMMA TrainingOwnedKept ==
  ASSUME TrainingOwned, [Lib!LibraryNext]_Lib!libraryVars
  PROVE  TrainingOwned'
<1>1. which' = "training" => which = "training" /\ [Training!Next]_Training!vars
  <2>1. CASE UNCHANGED Lib!libraryVars
    BY <2>1 DEF Lib!libraryVars, Lib!trainingVars, Training!vars
  <2>2. CASE Lib!LibraryNext
    BY <2>2, Working, TrainingOfLibrary
  <2> QED BY <2>1, <2>2
<1> QED BY <1>1, TrainingKept DEF TrainingOwned

(* The weights that the trainer of the tagger stores are the sums of all   *)
(* it had, although they are summed up only when they change, and those of *)
(* the first of the best iterations, for any training data.                *)
THEOREM TrainingHolds == Lib!LibrarySpec => []TrainingRight
<1>1. TrainingOwned => TrainingRight
  BY TrainingFollows DEF TrainingOwned, TrainingRight
<1> QED BY <1>1, TrainingOwnedStart, TrainingOwnedKept, PTL DEF Lib!LibrarySpec
==============================================================================
