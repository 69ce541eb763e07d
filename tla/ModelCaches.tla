----------------------------- MODULE ModelCaches -----------------------------
(***************************************************************************)
(* The caches of a model (model_morphodita_parsito.cpp, tag and parse),    *)
(* kept in a threadsafe_stack: a vector of unique_ptr under a spin lock.   *)
(* tag and parse differ only in that parse may still fail after it took    *)
(* its cache, when its options are wrong.                                  *)
(***************************************************************************)
EXTENDS Integers, FiniteSets, SequencesExt

CONSTANTS
  Callers,    \* the threads that call the model
  MaxCaches,  \* a bound on the caches ever made
  Null        \* nullptr

(* Caches are numbered from 1, so that 0 may stand for nullptr.            *)
ASSUME CachesAssumption == IsFiniteSet(Callers) /\ Null \notin Nat \ {0}

VARIABLES
  lock,       \* the atomic_flag
  stack,      \* the caches on the stack; Null in a slot that was released
  at,         \* where every thread is
  mine,       \* the cache of every thread
  content,    \* whose sentence every cache made so far holds
  lost        \* the caches no pointer leads to any more

vars == <<lock, stack, at, mine, content, lost>>

Init ==
  /\ lock = FALSE
  /\ stack = <<>>
  /\ at = [t \in Callers |-> "idle"]
  /\ mine = [t \in Callers |-> Null]
  /\ content = <<>>
  /\ lost = {}

Goto(t, from, to) == at[t] = from /\ at' = [at EXCEPT ![t] = to]

SlipNoTest(t, from, to) ==
  Goto(t, from, to) /\ lock' = TRUE /\ UNCHANGED <<stack, mine, content, lost>>

(* The loop on test_and_set ends when it finds the flag clear: a call is   *)
(* on its way to pop, unless the model lacks the part asked for or the     *)
(* sentence is empty, or it has done its work and is on its way to push.   *)
Acquire(t, from, to) ==
  ~lock /\ Goto(t, from, to) /\ lock' = TRUE /\ UNCHANGED <<stack, mine, content, lost>>

Clear(t, from, to) ==
  Goto(t, from, to) /\ lock' = FALSE /\ UNCHANGED <<stack, mine, content, lost>>

FoundEmpty(t) ==
  /\ stack = <<>>
  /\ Goto(t, "popping", "popped")
  /\ UNCHANGED <<lock, stack, mine, content, lost>>

Release(t) ==
  /\ stack # <<>>
  /\ Goto(t, "popping", "released")
  /\ mine' = [mine EXCEPT ![t] = Last(stack)]
  /\ stack' = [stack EXCEPT ![Len(stack)] = Null]
  /\ UNCHANGED <<lock, content, lost>>

PopBack(t) ==
  /\ Goto(t, "released", "popped")
  /\ stack' = Front(stack)
  /\ UNCHANGED <<lock, mine, content, lost>>

(* A new cache if the stack had none; then the sentence is copied into it. *)
Fill(t) ==
  /\ Goto(t, "got", "filled")
  /\ IF mine[t] # Null
     THEN content' = [content EXCEPT ![mine[t]] = t] /\ UNCHANGED mine
     ELSE /\ Len(content) < MaxCaches
          /\ content' = Append(content, t)
          /\ mine' = [mine EXCEPT ![t] = Len(content) + 1]
  /\ UNCHANGED <<lock, stack, lost>>

(* parse returns with an error: nothing gives the cache back.              *)
FailOptions(t) ==
  /\ Goto(t, "got", "idle")
  /\ IF mine[t] # Null
     THEN lost' = lost \cup {mine[t]} /\ UNCHANGED content
     ELSE /\ Len(content) < MaxCaches
          /\ content' = Append(content, t)
          /\ lost' = lost \cup {Len(content) + 1}
  /\ mine' = [mine EXCEPT ![t] = Null]
  /\ UNCHANGED <<lock, stack>>

SlipNotPushed(t) ==
  /\ Goto(t, "pushing", "pushed")
  /\ mine' = [mine EXCEPT ![t] = Null]
  /\ UNCHANGED <<lock, stack, content, lost>>

EmplaceBack(t) ==
  /\ Goto(t, "pushing", "pushed")
  /\ stack' = Append(stack, mine[t])
  /\ mine' = [mine EXCEPT ![t] = Null]
  /\ UNCHANGED <<lock, content, lost>>

Next ==
  \E t \in Callers :
    \/ Acquire(t, "idle", "popping")
    \/ FoundEmpty(t)
    \/ Release(t)
    \/ PopBack(t)
    \/ Clear(t, "popped", "got")
    \/ Fill(t)
    \/ FailOptions(t)
    \/ Acquire(t, "filled", "pushing")
    \/ EmplaceBack(t)
    \/ Clear(t, "pushed", "idle")

Spec == Init /\ [][Next]_vars

-----------------------------------------------------------------------------
Caches == DOMAIN content

Holders(c) == {t \in Callers : mine[t] = c}
Slots(c) == {i \in DOMAIN stack : stack[i] = c}

(* A cache is in one place: with one thread, in one slot of the stack, or  *)
(* lost; a thread works on the sentence it put there itself, whatever the  *)
(* other threads pop and push meanwhile; and a released slot is gone when  *)
(* the lock is.                                                            *)
OneOwner ==
  /\ \A c \in Caches : Cardinality(Holders(c)) + Cardinality(Slots(c))
                         + (IF c \in lost THEN 1 ELSE 0) = 1
  /\ \A t \in Callers : at[t] = "filled" => content[mine[t]] = t
  /\ ~lock => Null \notin Range(stack)

(* The model makes at most as many caches as there are threads, plus those *)
(* lost by the calls of parse that failed: a thread finds the stack empty  *)
(* only while the others have all there are.                               *)
CachesFew == Len(content) <= Cardinality(Callers) + Cardinality(lost)
=============================================================================
