--------------------------- MODULE ResourceLoader ---------------------------
(***************************************************************************)
(* threadsafe_resource_loader<T> (utils/threadsafe_resource_loader.h): at  *)
(* most concurrent_limit resources are kept loaded, clients share them by  *)
(* reference counting, and a least recently used one makes room for the    *)
(* next.  One mutex guards every field, one condition variable serves all  *)
(* the waits.                                                              *)
(*                                                                         *)
(* A critical section of the mutex is one step.  A client is one call of   *)
(* load() and the later release() of what it returned; what it does with   *)
(* the resource in between is not modelled.  add() is only called before   *)
(* the first load(): Resources is the set it built.  Entries of the model  *)
(* that the C++ keeps as T::load / T::release are the variable memory.     *)
(***************************************************************************)
EXTENDS Integers, FiniteSets, SequencesExt

CONSTANTS Clients, Resources, ConcurrentLimit, None

ASSUME LimitAssumption == ConcurrentLimit \in Nat
ASSUME NoneAssumption == None \notin Resources
ASSUME FiniteAssumption == IsFiniteSet(Clients) /\ IsFiniteSet(Resources)

VARIABLES
  usedCount,        \* resources[r].used_count
  state,            \* resources[r].state
  loadedResources,  \* the vector loaded_resources, least recently used first
  usedResources,    \* the counter used_resources
  queuedResources,  \* the queue queued_resources
  pc,               \* where each client stands in load() or release()
  target,           \* the resource whose used_count the client keeps raised
  asleep,           \* the clients blocked in resource_cv.wait
  memory            \* what the objects themselves hold (T::load, T::release)

shared == <<usedCount, state, loadedResources, usedResources, queuedResources>>
vars == <<shared, pc, target, asleep, memory>>

(***************************************************************************)
(* idle      outside the loader, nothing held                              *)
(* turn      first caller, in the wait for the head of the queue and for   *)
(*           a free place                                                  *)
(* loading   first caller, in resource->load() with the mutex unlocked     *)
(* loaded    first caller, back from a successful load(), before lock()    *)
(* failed    first caller, back from a failed load(), before lock()        *)
(* notifying first caller, its result recorded, before notify_all()        *)
(* sharing   later caller, in the wait for the state to leave LOADING      *)
(* using     load() returned the resource                                  *)
(* released  in release(), mutex unlocked, before notify_all()             *)
(***************************************************************************)
Locations == {"idle", "turn", "loading", "loaded", "failed", "notifying",
              "sharing", "using", "released"}

Init ==
  /\ usedCount = [r \in Resources |-> 0]
  /\ state = [r \in Resources |-> "NOT_LOADED"]
  /\ loadedResources = <<>>
  /\ usedResources = 0
  /\ queuedResources = <<>>
  /\ pc = [c \in Clients |-> "idle"]
  /\ target = [c \in Clients |-> None]
  /\ asleep = {}
  /\ memory = [r \in Resources |-> "absent"]

-----------------------------------------------------------------------------
(* A definition named Slip... is a likely mistake in the definition that   *)
(* follows it; the mutation runs put it in its place, nothing else uses it.*)
(* erase(remove(v.begin(), v.end(), r), v.end()): the entries are distinct. *)
Without(seq, r) ==
  IF \E i \in 1..Len(seq) : seq[i] = r
  THEN RemoveAt(seq, CHOOSE i \in 1..Len(seq) : seq[i] = r)
  ELSE seq

(* Moves r to the most recently used end.                                  *)
Touch(seq, r) == Append(Without(seq, r), r)

Goto(c, location) == pc' = [pc EXCEPT ![c] = location]

SlipOneTooMany(r, queue) == usedResources <= ConcurrentLimit /\ Head(queue) = r

(* What the first caller checks before it leaves the queue.                *)
MyTurn(r, queue) == usedResources < ConcurrentLimit /\ Head(queue) = r

SlipDropsUsed(r) == {i \in 1..Len(loadedResources) : loadedResources[i] # r}

(* The place of the first resource nobody uses, taken when none is free;   *)
(* the code goes on without dropping anything if it finds none.  The count *)
(* of the resource that comes in is raised already.                        *)
UnusedPlaces(r) ==
  {i \in 1..Len(loadedResources) :
     usedCount[loadedResources[i]] = 0 /\ loadedResources[i] # r}

SlipOverfull(r) ==
  {i \in UnusedPlaces(r) : /\ Len(loadedResources) > ConcurrentLimit
                           /\ \A j \in UnusedPlaces(r) : i <= j}

Victims(r) ==
  {i \in UnusedPlaces(r) : /\ Len(loadedResources) = ConcurrentLimit
                           /\ \A j \in UnusedPlaces(r) : i <= j}

(* From the pop of the queue to the unlock that precedes resource->load(). *)
StartLoad(c, r, queue) ==
  LET dropped == {loadedResources[i] : i \in Victims(r)}
      kept == IF Victims(r) = {} THEN loadedResources
              ELSE RemoveAt(loadedResources, CHOOSE i \in Victims(r) : TRUE)
  IN /\ queuedResources' = Tail(queue)
     /\ loadedResources' = Append(kept, r)
     /\ usedResources' = usedResources + 1
     /\ state' = [q \in Resources |-> IF q \in dropped THEN "NOT_LOADED"
                                      ELSE IF q = r THEN "LOADING" ELSE state[q]]
     /\ memory' = [q \in Resources |-> IF q \in dropped THEN "absent"
                                       ELSE IF q = r THEN "coming" ELSE memory[q]]
     /\ Goto(c, "loading")

(* From the push to the queue to the first wait.                           *)
WaitTurn(c, r, queue) ==
  /\ state' = [state EXCEPT ![r] = "LOADING"]
  /\ queuedResources' = queue
  /\ asleep' = asleep \cup {c}
  /\ Goto(c, "turn")
  /\ UNCHANGED <<loadedResources, usedResources, memory>>

(* load(r): the first user of a loaded resource.                           *)
LoadHit(c, r) ==
  /\ pc[c] = "idle"
  /\ usedCount[r] = 0 /\ state[r] = "LOADED"
  /\ usedCount' = [usedCount EXCEPT ![r] = @ + 1]
  /\ loadedResources' = Touch(loadedResources, r)
  /\ usedResources' = usedResources + 1
  /\ target' = [target EXCEPT ![c] = r]
  /\ Goto(c, "using")
  /\ UNCHANGED <<state, queuedResources, asleep, memory>>

(* load(r): the first user of a resource that is not loaded queues up, and *)
(* starts in the same critical section or goes to sleep.                   *)
LoadMiss(c, r) ==
  LET queue == Append(queuedResources, r)
  IN /\ pc[c] = "idle"
     /\ usedCount[r] = 0 /\ state[r] # "LOADED"
     /\ usedCount' = [usedCount EXCEPT ![r] = @ + 1]
     /\ target' = [target EXCEPT ![c] = r]
     /\ \/ /\ MyTurn(r, queue)
           /\ StartLoad(c, r, queue)
           /\ UNCHANGED asleep
        \/ /\ ~MyTurn(r, queue)
           /\ WaitTurn(c, r, queue)

(* The first caller, woken, checks its condition again.                    *)
TakeTurn(c) ==
  /\ pc[c] = "turn" /\ c \notin asleep
  /\ \/ /\ MyTurn(target[c], queuedResources)
        /\ StartLoad(c, target[c], queuedResources)
        /\ UNCHANGED asleep
     \/ /\ ~MyTurn(target[c], queuedResources)
        /\ asleep' = asleep \cup {c}
        /\ UNCHANGED <<state, loadedResources, usedResources, queuedResources,
                       pc, memory>>
  /\ UNCHANGED <<usedCount, target>>

(* resource->load() returns, with the mutex unlocked.                      *)
LoadReturns(c) ==
  /\ pc[c] = "loading"
  /\ \/ /\ memory' = [memory EXCEPT ![target[c]] = "present"]
        /\ Goto(c, "loaded")
     \/ /\ memory' = [memory EXCEPT ![target[c]] = "absent"]
        /\ Goto(c, "failed")
  /\ UNCHANGED <<shared, target, asleep>>

SlipFailureForgotten(c) ==
  /\ pc[c] \in {"loaded", "failed"}
  /\ state' = [state EXCEPT ![target[c]] = "LOADED"]
  /\ Goto(c, "notifying")
  /\ UNCHANGED <<usedCount, loadedResources, usedResources, queuedResources,
                 target, asleep, memory>>

(* The critical section after resource->load().                            *)
FinishLoad(c) ==
  LET r == target[c]
  IN \/ /\ pc[c] = "loaded"
        /\ state' = [state EXCEPT ![r] = "LOADED"]
        /\ Goto(c, "notifying")
        /\ UNCHANGED <<usedCount, loadedResources, usedResources,
                       queuedResources, target, asleep, memory>>
     \/ /\ pc[c] = "failed"
        /\ state' = [state EXCEPT ![r] = "NOT_LOADED"]
        /\ usedCount' = [usedCount EXCEPT ![r] = @ - 1]
        /\ usedResources' = usedResources - 1
        /\ loadedResources' = Without(loadedResources, r)
        /\ target' = [target EXCEPT ![c] = None]
        /\ Goto(c, "notifying")
        /\ UNCHANGED <<queuedResources, asleep, memory>>

SlipNotifyOne(c) ==
  /\ pc[c] = "notifying"
  /\ \E d \in asleep \cup {c} : asleep' = asleep \ {d}
  /\ Goto(c, IF target[c] = None THEN "idle" ELSE "using")
  /\ UNCHANGED <<shared, target, memory>>

(* notify_all() and return, after the unlock.                              *)
NotifyLoaded(c) ==
  /\ pc[c] = "notifying"
  /\ asleep' = {}
  /\ Goto(c, IF target[c] = None THEN "idle" ELSE "using")
  /\ UNCHANGED <<shared, target, memory>>

(* load(r): a later user joins those who wait for the load to end, takes   *)
(* the loaded resource, or, while the waiters of a load that failed have   *)
(* not left yet, is refused at once (used_count goes up and down again).   *)
LoadShared(c, r) ==
  /\ pc[c] = "idle"
  /\ usedCount[r] > 0
  /\ \/ /\ state[r] = "LOADING"
        /\ usedCount' = [usedCount EXCEPT ![r] = @ + 1]
        /\ target' = [target EXCEPT ![c] = r]
        /\ asleep' = asleep \cup {c}
        /\ Goto(c, "sharing")
        /\ UNCHANGED loadedResources
     \/ /\ state[r] = "LOADED"
        /\ usedCount' = [usedCount EXCEPT ![r] = @ + 1]
        /\ target' = [target EXCEPT ![c] = r]
        /\ loadedResources' = Touch(loadedResources, r)
        /\ Goto(c, "using")
        /\ UNCHANGED asleep
     \/ /\ state[r] = "NOT_LOADED"
        /\ UNCHANGED <<usedCount, target, asleep, pc, loadedResources>>
  /\ UNCHANGED <<state, usedResources, queuedResources, memory>>

(* A later user, woken, finds the load still running, done, or failed.     *)
ShareAwake(c) ==
  LET r == target[c]
  IN /\ pc[c] = "sharing" /\ c \notin asleep
     /\ \/ /\ state[r] = "LOADING"
           /\ asleep' = asleep \cup {c}
           /\ UNCHANGED <<usedCount, target, pc, loadedResources>>
        \/ /\ state[r] = "LOADED"
           /\ loadedResources' = Touch(loadedResources, r)
           /\ Goto(c, "using")
           /\ UNCHANGED <<usedCount, target, asleep>>
        \/ /\ state[r] = "NOT_LOADED"
           /\ usedCount' = [usedCount EXCEPT ![r] = @ - 1]
           /\ target' = [target EXCEPT ![c] = None]
           /\ Goto(c, "idle")
           /\ UNCHANGED <<asleep, loadedResources>>
     /\ UNCHANGED <<state, usedResources, queuedResources, memory>>

(* The test !--used_count, on the count before the release.                *)
LastUser(r) == usedCount[r] = 1

SlipPreDecrement == usedResources - 1 = ConcurrentLimit

(* The test used_resources-- == concurrent_limit.                          *)
WasFull == usedResources = ConcurrentLimit

(* release(r): the last user gives the place up; the waiters are notified  *)
(* after the unlock, and only if every place was in use.                   *)
Release(c) ==
  LET r == target[c]
  IN /\ pc[c] = "using"
     /\ usedCount' = [usedCount EXCEPT ![r] = @ - 1]
     /\ usedResources' = IF LastUser(r) THEN usedResources - 1 ELSE usedResources
     /\ target' = [target EXCEPT ![c] = None]
     /\ Goto(c, IF LastUser(r) /\ WasFull THEN "released" ELSE "idle")
     /\ UNCHANGED <<state, loadedResources, queuedResources, asleep, memory>>

NotifyReleased(c) ==
  /\ pc[c] = "released"
  /\ asleep' = {}
  /\ Goto(c, "idle")
  /\ UNCHANGED <<shared, target, memory>>

(* The C++ wait may return without a notification.                         *)
SpuriousWake(c) ==
  /\ c \in asleep
  /\ asleep' = asleep \ {c}
  /\ UNCHANGED <<shared, pc, target, memory>>

-----------------------------------------------------------------------------
Call(c) == \E r \in Resources : LoadHit(c, r) \/ LoadMiss(c, r) \/ LoadShared(c, r)

Continue(c) ==
  \/ TakeTurn(c) \/ LoadReturns(c) \/ FinishLoad(c) \/ NotifyLoaded(c)
  \/ ShareAwake(c) \/ Release(c) \/ NotifyReleased(c)

Next == \E c \in Clients : Call(c) \/ Continue(c) \/ SpuriousWake(c)

Spec == Init /\ [][Next]_vars

(* Threads are scheduled, loads end, and what is loaded is released.       *)
(* Nothing is assumed of new calls or of spurious wake-ups.                *)
FairSpec == Spec /\ \A c \in Clients : WF_vars(Continue(c))

-----------------------------------------------------------------------------
(* Every variable has its type.                                            *)
TypeOK ==
  /\ usedCount \in [Resources -> Nat]
  /\ state \in [Resources -> {"NOT_LOADED", "LOADING", "LOADED"}]
  /\ loadedResources \in Seq(Resources)
  /\ usedResources \in Nat
  /\ queuedResources \in Seq(Resources)
  /\ pc \in [Clients -> Locations]
  /\ target \in [Clients -> Resources \cup {None}]
  /\ asleep \subseteq Clients
  /\ memory \in [Resources -> {"absent", "coming", "present"}]

(* A client that load() answered has its resource in memory until it       *)
(* releases it: no eviction, failure or late notification takes it away.   *)
Holding(c) == target[c] # None /\ pc[c] \in {"notifying", "using"}

InUseInMemory ==
  \A c \in Clients : Holding(c) => /\ memory[target[c]] = "present"
                                   /\ state[target[c]] = "LOADED"

(* Whoever set a resource to LOADING is alone until it finishes: no object *)
(* is loaded by two threads, nor loaded while another one uses it.         *)
FirstCaller(c) == pc[c] \in {"turn", "loading", "loaded", "failed"}

OneLoader ==
  \A r \in Resources :
    (state[r] = "LOADING") <=> \E c \in Clients :
        /\ FirstCaller(c) /\ target[c] = r
        /\ \A d \in Clients \ {c} : target[d] = r => pc[d] = "sharing"

(* used_count and used_resources, raised and lowered in different critical *)
(* sections, agree with who is inside and with the resources in use.       *)
Elements(s) == {s[i] : i \in 1..Len(s)}
Distinct(s) == \A i, j \in 1..Len(s) : s[i] = s[j] => i = j

Placed == Elements(loadedResources)
Used == {r \in Placed : usedCount[r] > 0}

Accounting ==
  /\ \A r \in Resources : usedCount[r] = Cardinality({c \in Clients : target[c] = r})
  /\ usedResources = Cardinality(Used)

(* The promise of the option --concurrent_models: never more models in     *)
(* memory than the limit, those being loaded included.                     *)
MemoryBound == Cardinality({r \in Resources : memory[r] # "absent"}) <= ConcurrentLimit

(* A sleeper whose condition became true is not forgotten: some client     *)
(* stands before a notify_all(), or inside the load that precedes one.     *)
WillNotify(d) == pc[d] \in {"loading", "loaded", "failed", "notifying", "released"}

NoLostWakeup ==
  \A c \in asleep :
    /\ pc[c] = "turn" /\ MyTurn(target[c], queuedResources)
         => \E d \in Clients : WillNotify(d)
    /\ pc[c] = "sharing" /\ state[target[c]] # "LOADING"
         => \E d \in Clients : pc[d] = "notifying"

(* Every first caller that waits, and nobody else, is in the queue once.   *)
QueueMatchesWaiters ==
  /\ \A r \in Resources :
       r \in Elements(queuedResources)
         <=> \E c \in Clients : pc[c] = "turn" /\ target[c] = r
  /\ Distinct(queuedResources)

-----------------------------------------------------------------------------
(* The strengthening the proofs need, part by part.                        *)

(* A client keeps a count raised exactly from its call to its last step.   *)
InsideHasTarget ==
  \A c \in Clients :
    /\ pc[c] \in {"idle", "released"} => target[c] = None
    /\ pc[c] \notin {"idle", "released", "notifying"} => target[c] # None

SleepersWait == \A c \in asleep : pc[c] \in {"turn", "sharing"}

OneFirstCaller ==
  \A c, d \in Clients :
    FirstCaller(c) /\ FirstCaller(d) /\ target[c] = target[d] => c = d

LoadingHasOwner ==
  \A r \in Resources :
    state[r] = "LOADING" <=> \E c \in Clients : FirstCaller(c) /\ target[c] = r

Owner(c) == pc[c] \in {"loading", "loaded", "failed"}

(* The places hold what is loaded and what is being loaded.                *)
PlacesMatchStates ==
  \A r \in Resources :
    r \in Placed <=> \/ state[r] = "LOADED"
                     \/ \E c \in Clients : Owner(c) /\ target[c] = r

WellFormed(s) ==
  /\ s \in Seq(Resources)
  /\ Distinct(s)
  /\ IsFiniteSet(Elements(s))
  /\ Cardinality(Elements(s)) = Len(s)

PlacesBounded == WellFormed(loadedResources) /\ Len(loadedResources) <= ConcurrentLimit

HoldersLoaded == \A c \in Clients : Holding(c) => state[target[c]] = "LOADED"

MemoryFollows ==
  /\ \A r \in Resources : /\ state[r] = "LOADED" => memory[r] = "present"
                          /\ memory[r] # "absent" => r \in Placed
  /\ \A c \in Clients : /\ pc[c] = "loaded" => memory[target[c]] = "present"
                        /\ pc[c] = "failed" => memory[target[c]] = "absent"

Inv ==
  /\ TypeOK
  /\ InsideHasTarget
  /\ SleepersWait
  /\ OneFirstCaller
  /\ LoadingHasOwner
  /\ PlacesMatchStates
  /\ PlacesBounded
  /\ HoldersLoaded
  /\ MemoryFollows
  /\ Accounting
  /\ QueueMatchesWaiters /\ WellFormed(queuedResources)

-----------------------------------------------------------------------------
(* With a place at all, a call of load() ends, provided that from some     *)
(* time on nobody takes a loaded resource straight away: hits overtake     *)
(* the queue and may starve it.                                            *)
NobodyOvertakes ==
  <>[][\A c \in Clients : ~(pc[c] = "idle" /\ pc'[c] = "using")]_vars

LoadAnswered ==
  NobodyOvertakes =>
    \A c \in Clients : (target[c] # None) ~> (target[c] = None \/ pc[c] = "using")

-----------------------------------------------------------------------------
(* The loader implements the pool: what is loaded is ready, a client wants *)
(* its resource from the call on and holds it once the load is recorded.   *)
Ready == {r \in Resources : state[r] = "LOADED"}
Wants == [c \in Clients |-> IF Holding(c) THEN None ELSE target[c]]
Holds == [c \in Clients |-> IF Holding(c) THEN target[c] ELSE None]

Pool == INSTANCE ResourcePool WITH
  Limit <- ConcurrentLimit, placed <- Placed, ready <- Ready,
  wants <- Wants, holds <- Holds

(* Every step of the code is a step of the pool or does not show there.    *)
ImplementsPool == Pool!Spec
=============================================================================
