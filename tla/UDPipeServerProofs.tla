-------------------------- MODULE UDPipeServerProofs --------------------------
(***************************************************************************)
(* Theorems about UDPipeServer for every number of connections, models and *)
(* places.                                                                 *)
(*                                                                         *)
(* While init() tries the models, and while the preloaded default waits    *)
(* for its place, objects are in memory that the loader knows nothing of.  *)
(* Seen is the memory of the models that have a place in the loader; with  *)
(* it for the loader's own memory, all the server does to the loader until *)
(* the destructors run are steps of ResourceLoader, whose proved lemmas    *)
(* then hold of the server.                                                *)
(***************************************************************************)
EXTENDS UDPipeServer, FiniteSetTheorems, SequenceTheorems, TLAPS

Seen == [m \in Models |-> IF m \in Loader!Placed THEN memory[m] ELSE "absent"]

View == INSTANCE ResourceLoaderProofs WITH
  Clients <- Callers, Resources <- Models, memory <- Seen

-----------------------------------------------------------------------------
Phases == {"checking", "preloading", "serving", "quiesced", "stopped", "exited",
           "failed"}

Stages == {"closed", "reading", "loading", "preparing", "sending", "refusing",
           "replying", "completing"}

ServerTypeOK ==
  /\ phase \in Phases
  /\ stage \in [Connections -> Stages]
  /\ memory \in [Models -> {"absent", "coming", "present"}]

(* What each stage of a connection says of its call in the loader.         *)
StageTellsPc ==
  \A c \in Connections :
    /\ stage[c] \in {"closed", "reading", "replying"} => pc[c] = "idle"
    /\ stage[c] = "loading" =>
         pc[c] \in {"turn", "loading", "loaded", "failed", "notifying", "sharing"}
    /\ stage[c] \in {"preparing", "sending"} => pc[c] = "using"
    /\ stage[c] \in {"refusing", "completing"} => pc[c] = "released"
    /\ pc[c] = "idle" => target[c] = None

(* Connections are only open while the daemon runs, and no model has a     *)
(* place before the trials are over.                                       *)
PhaseTellsRest ==
  /\ phase \notin {"serving", "quiesced"} => \A c \in Connections : stage[c] = "closed"
  /\ phase = "checking" => loadedResources = <<>>

ServerInv ==
  /\ ServerTypeOK
  /\ StageTellsPc
  /\ PhaseTellsRest
  /\ phase # "exited" => View!Inv

-----------------------------------------------------------------------------
(* What the loader does without a look at the memory.                      *)
(* The assumptions of ResourceLoader hold of its instance here.            *)
LEMMA ViewAssumptions ==
  /\ ConcurrentLimit \in Nat
  /\ None \notin Models
  /\ View!IsFiniteSet(Callers) /\ View!IsFiniteSet(Models)
<1>1. IsFiniteSet(Callers)
  BY SizesAssumption, FS_AddElement DEF Callers
<1>2. \A S : IsFiniteSet(S) <=> View!IsFiniteSet(S)
  BY DEF IsFiniteSet, View!IsFiniteSet
<1> QED BY <1>1, <1>2, SizesAssumption

LEMMA SameOperators ==
  /\ Loader!Placed = View!Placed /\ Loader!Placed' = View!Placed'
  /\ \A s, r : Loader!Without(s, r) = View!Without(s, r)
  /\ \A s, r : Loader!Touch(s, r) = View!Touch(s, r)
  /\ \A r : Loader!Victims(r) = View!Victims(r)
  /\ \A r, q : Loader!MyTurn(r, q) <=> View!MyTurn(r, q)
  /\ \A c, l : Loader!Goto(c, l) <=> View!Goto(c, l)
<1>1. Loader!Placed = View!Placed /\ Loader!Placed' = View!Placed'
  BY DEF Loader!Placed, Loader!Elements, View!Placed, View!Elements
<1>2. \A s, i : Loader!RemoveAt(s, i) = View!RemoveAt(s, i)
  BY DEF Loader!RemoveAt, View!RemoveAt
<1>3. \A s, r : Loader!Without(s, r) = View!Without(s, r)
  BY <1>2 DEF Loader!Without, View!Without
<1>4. \A s, r : Loader!Touch(s, r) = View!Touch(s, r)
  BY <1>3 DEF Loader!Touch, View!Touch
<1>5. \A r : Loader!Victims(r) = View!Victims(r)
  BY DEF Loader!Victims, Loader!UnusedPlaces, View!Victims, View!UnusedPlaces
<1>6. \A r, q : Loader!MyTurn(r, q) <=> View!MyTurn(r, q)
  BY DEF Loader!MyTurn, View!MyTurn
<1>7. \A c, l : Loader!Goto(c, l) <=> View!Goto(c, l)
  BY DEF Loader!Goto, View!Goto
<1> QED BY <1>1, <1>3, <1>4, <1>5, <1>6, <1>7

(* A step that moves no place and touches no object leaves Seen alone.     *)
LEMMA SeenStays ==
  ASSUME memory' = memory, View!Placed' = View!Placed
  PROVE  Seen' = Seen
BY SameOperators DEF Seen

(* Each operation of the loader, as the server calls it, is the same       *)
(* operation on Seen.                                                      *)
LEMMA HitSeen ==
  ASSUME View!Inv, NEW c \in Callers, NEW m \in Models, Loader!LoadHit(c, m)
  PROVE  View!LoadHit(c, m)
<1>1. m \in View!Placed /\ loadedResources' = View!Touch(loadedResources, m)
  BY SameOperators DEF Loader!LoadHit, View!Inv, View!PlacesMatchStates
<1>2. View!Placed' = View!Placed
  BY <1>1, View!TouchFrame, ViewAssumptions
<1>3. Seen' = Seen
  BY <1>2, SeenStays DEF Loader!LoadHit
<1> QED BY <1>3, SameOperators DEF Loader!LoadHit, View!LoadHit

(* The places that StartLoad frees and takes are those whose memory it     *)
(* changes.                                                                *)
LEMMA StartSeen ==
  ASSUME View!Inv, NEW c \in Callers, NEW m \in Models, NEW queue,
         m \notin View!Placed, usedResources < ConcurrentLimit,
         Loader!StartLoad(c, m, queue)
  PROVE  View!StartLoad(c, m, queue)
<1> DEFINE dropped == {loadedResources[i] : i \in View!Victims(m)}
           kept == IF View!Victims(m) = {} THEN loadedResources
                   ELSE View!RemoveAt(loadedResources, CHOOSE i \in View!Victims(m) : TRUE)
<1>1. /\ View!WellFormed(kept) /\ View!Elements(kept) = View!Placed \ dropped
      /\ \A q \in dropped : q \in View!Placed /\ usedCount[q] = 0
  BY View!EvictionFacts, ViewAssumptions
<1>2. /\ loadedResources' = Append(kept, m)
      /\ queuedResources' = Tail(queue)
      /\ usedResources' = usedResources + 1
      /\ state' = [q \in Models |-> IF q \in dropped THEN "NOT_LOADED"
                                    ELSE IF q = m THEN "LOADING" ELSE state[q]]
      /\ memory' = [q \in Models |-> IF q \in dropped THEN "absent"
                                     ELSE IF q = m THEN "coming" ELSE memory[q]]
  BY DEF Loader!StartLoad, Loader!Victims, Loader!UnusedPlaces, Loader!RemoveAt,
         View!Victims, View!UnusedPlaces, View!RemoveAt
<1>3. View!Goto(c, "loading")
  BY SameOperators DEF Loader!StartLoad
<1> HIDE DEF dropped, kept
<1>4. m \notin View!Elements(kept) /\ m \notin dropped
  BY <1>1
<1>5. View!Elements(loadedResources') = View!Elements(kept) \cup {m}
  BY <1>1, <1>2, <1>4, View!AppendFacts, ViewAssumptions
<1>6. View!Placed' = (View!Placed \ dropped) \cup {m}
  BY <1>1, <1>5 DEF View!Placed, View!Elements
<1>7. Seen' = [q \in Models |-> IF q \in dropped THEN "absent"
                                ELSE IF q = m THEN "coming" ELSE Seen[q]]
  BY <1>2, <1>4, <1>6, SameOperators DEF Seen
<1> QED BY <1>2, <1>3, <1>7 DEF View!StartLoad, dropped, kept

(* load(r), the first user of a model that is not loaded.                  *)
LEMMA MissSeen ==
  ASSUME View!Inv, NEW c \in Callers, NEW m \in Models, Loader!LoadMiss(c, m)
  PROVE  View!LoadMiss(c, m)
<1>1. /\ pc[c] = "idle" /\ usedCount[m] = 0 /\ state[m] # "LOADED"
      /\ usedCount' = [usedCount EXCEPT ![m] = @ + 1]
      /\ target' = [target EXCEPT ![c] = m]
  BY DEF Loader!LoadMiss
<1>2. CASE View!MyTurn(m, Append(queuedResources, m))
  <2>1. /\ Loader!StartLoad(c, m, Append(queuedResources, m)) /\ asleep' = asleep
        /\ usedResources < ConcurrentLimit
    BY <1>2, SameOperators DEF Loader!LoadMiss, View!MyTurn
  <2>2. m \notin View!Placed
    BY <1>1, View!NobodyInside, ViewAssumptions
  <2>3. View!StartLoad(c, m, Append(queuedResources, m))
    BY <2>1, <2>2, StartSeen
  <2> QED BY <1>1, <1>2, <2>1, <2>3 DEF View!LoadMiss
<1>3. CASE ~View!MyTurn(m, Append(queuedResources, m))
  <2>1. Loader!WaitTurn(c, m, Append(queuedResources, m))
    BY <1>3, SameOperators DEF Loader!LoadMiss
  <2>2. View!Placed' = View!Placed /\ memory' = memory
    BY <2>1 DEF Loader!WaitTurn, View!Placed, View!Elements
  <2>3. View!WaitTurn(c, m, Append(queuedResources, m))
    BY <2>1, <2>2, SeenStays, SameOperators DEF Loader!WaitTurn, View!WaitTurn
  <2> QED BY <1>1, <1>3, <2>3 DEF View!LoadMiss
<1> QED BY <1>2, <1>3

(* load(r), a later user.                                                  *)
LEMMA SharedSeen ==
  ASSUME View!Inv, NEW c \in Callers, NEW m \in Models, Loader!LoadShared(c, m)
  PROVE  View!LoadShared(c, m)
<1>1. state[m] = "LOADED" => m \in View!Placed
  BY DEF View!Inv, View!PlacesMatchStates
<1>2. loadedResources' \in {loadedResources, View!Touch(loadedResources, m)}
  BY SameOperators DEF Loader!LoadShared
<1>3. state[m] # "LOADED" => loadedResources' = loadedResources
  BY DEF Loader!LoadShared
<1>4. View!Placed' = View!Placed
  <2>1. CASE loadedResources' = loadedResources
    BY <2>1 DEF View!Placed, View!Elements
  <2>2. CASE loadedResources' # loadedResources
    BY <1>1, <1>2, <1>3, <2>2, View!TouchFrame, ViewAssumptions
  <2> QED BY <2>1, <2>2
<1>5. Seen' = Seen
  BY <1>4, SeenStays DEF Loader!LoadShared
<1> QED BY <1>5, SameOperators DEF Loader!LoadShared, View!LoadShared

(* The head of the queue, woken.                                           *)
LEMMA TurnSeen ==
  ASSUME View!Inv, NEW c \in Callers, Loader!TakeTurn(c)
  PROVE  View!TakeTurn(c)
<1>1. /\ pc[c] = "turn" /\ c \notin asleep
      /\ usedCount' = usedCount /\ target' = target
  BY DEF Loader!TakeTurn
<1>2. CASE View!MyTurn(target[c], queuedResources)
  <2>1. /\ Loader!StartLoad(c, target[c], queuedResources) /\ asleep' = asleep
        /\ usedResources < ConcurrentLimit
    BY <1>2, SameOperators DEF Loader!TakeTurn, View!MyTurn
  <2>2. target[c] \notin View!Placed /\ target[c] \in Models
    BY <1>1, View!WaitingNotPlaced, View!InsideTarget, ViewAssumptions
  <2>3. View!StartLoad(c, target[c], queuedResources)
    BY <2>1, <2>2, StartSeen
  <2> QED BY <1>1, <1>2, <2>1, <2>3 DEF View!TakeTurn
<1>3. CASE ~View!MyTurn(target[c], queuedResources)
  <2>1. /\ asleep' = asleep \cup {c}
        /\ UNCHANGED <<state, loadedResources, usedResources, queuedResources, pc, memory>>
    BY <1>3, SameOperators DEF Loader!TakeTurn
  <2>2. Seen' = Seen
    BY <2>1, SeenStays DEF View!Placed, View!Elements
  <2> QED BY <1>1, <1>3, <2>1, <2>2 DEF View!TakeTurn
<1> QED BY <1>2, <1>3

(* The load ends; the model has its place by then.                         *)
LEMMA ReturnsSeen ==
  ASSUME View!Inv, memory \in [Models -> {"absent", "coming", "present"}],
         NEW c \in Callers, Loader!LoadReturns(c)
  PROVE  View!LoadReturns(c)
<1>1. /\ pc[c] = "loading"
      /\ UNCHANGED <<usedCount, state, loadedResources, usedResources, queuedResources,
                     target, asleep>>
  BY DEF Loader!LoadReturns, Loader!shared
<1>2. target[c] \in Models
  BY <1>1, View!InsideTarget, ViewAssumptions
<1>3. target[c] \in View!Placed
  BY <1>1, <1>2 DEF View!Inv, View!PlacesMatchStates, View!Owner
<1>4. View!Placed' = View!Placed
  BY <1>1 DEF View!Placed, View!Elements
<1>5. ASSUME NEW x, memory' = [memory EXCEPT ![target[c]] = x]
      PROVE  Seen' = [Seen EXCEPT ![target[c]] = x]
  BY <1>2, <1>3, <1>4, <1>5, SameOperators DEF Seen
<1> QED BY <1>1, <1>5, SameOperators DEF Loader!LoadReturns, View!LoadReturns, View!shared

(* The outcome is recorded; a model that could not be loaded holds nothing *)
(* when it loses its place.                                                *)
LEMMA FinishSeen ==
  ASSUME View!Inv, NEW c \in Callers, Loader!FinishLoad(c)
  PROVE  View!FinishLoad(c)
<1>1. CASE pc[c] = "loaded"
  <2>1. loadedResources' = loadedResources /\ memory' = memory
    BY <1>1 DEF Loader!FinishLoad
  <2>2. Seen' = Seen
    BY <2>1, SeenStays DEF View!Placed, View!Elements
  <2> QED BY <1>1, <2>2, SameOperators DEF Loader!FinishLoad, View!FinishLoad
<1>2. CASE pc[c] = "failed"
  <2>1. loadedResources' = View!Without(loadedResources, target[c]) /\ memory' = memory
    BY <1>2, SameOperators DEF Loader!FinishLoad
  <2>2. View!Placed' = View!Placed \ {target[c]}
    <3>1. View!Elements(loadedResources') = View!Elements(loadedResources) \ {target[c]}
      BY <2>1, View!WithoutFacts, ViewAssumptions DEF View!Inv, View!PlacesBounded
    <3> QED BY <3>1 DEF View!Placed, View!Elements
  <2>3. target[c] \in Models /\ Seen[target[c]] = "absent"
    BY <1>2, View!InsideTarget, ViewAssumptions DEF View!Inv, View!MemoryFollows
  <2>4. Seen' = Seen
    BY <2>1, <2>2, <2>3, SameOperators DEF Seen
  <2> QED BY <1>2, <2>4, SameOperators DEF Loader!FinishLoad, View!FinishLoad
<1> QED BY <1>1, <1>2 DEF Loader!FinishLoad

(* The notifications and the wake-ups.                                     *)
LEMMA NotifySeen ==
  ASSUME NEW c \in Callers
  PROVE  /\ Loader!NotifyLoaded(c) => View!NotifyLoaded(c)
         /\ Loader!NotifyReleased(c) => View!NotifyReleased(c)
         /\ Loader!SpuriousWake(c) => View!SpuriousWake(c)
<1>1. ASSUME loadedResources' = loadedResources, memory' = memory PROVE Seen' = Seen
  BY <1>1, SeenStays DEF View!Placed, View!Elements
<1>2. Loader!NotifyLoaded(c) => View!NotifyLoaded(c)
  BY <1>1, SameOperators
     DEF Loader!NotifyLoaded, View!NotifyLoaded, Loader!shared, View!shared
<1>3. Loader!NotifyReleased(c) => View!NotifyReleased(c)
  BY <1>1, SameOperators
     DEF Loader!NotifyReleased, View!NotifyReleased, Loader!shared, View!shared
<1>4. Loader!SpuriousWake(c) => View!SpuriousWake(c)
  BY <1>1 DEF Loader!SpuriousWake, View!SpuriousWake, Loader!shared, View!shared
<1> QED BY <1>2, <1>3, <1>4

(* A later user, woken.                                                    *)
LEMMA AwakeSeen ==
  ASSUME View!Inv, NEW c \in Callers, Loader!ShareAwake(c)
  PROVE  View!ShareAwake(c)
<1>1. pc[c] = "sharing" /\ memory' = memory
  BY DEF Loader!ShareAwake
<1>2. target[c] \in Models
  BY <1>1, View!InsideTarget, ViewAssumptions
<1>3. View!Placed' = View!Placed
  <2>1. CASE state[target[c]] = "LOADED"
    <3>1. target[c] \in View!Placed
      BY <1>2, <2>1 DEF View!Inv, View!PlacesMatchStates
    <3>2. loadedResources' = View!Touch(loadedResources, target[c])
      BY <2>1, SameOperators DEF Loader!ShareAwake
    <3> QED BY <1>2, <3>1, <3>2, View!TouchFrame, ViewAssumptions
  <2>2. CASE state[target[c]] # "LOADED"
    <3>1. loadedResources' = loadedResources
      BY <2>2 DEF Loader!ShareAwake
    <3> QED BY <3>1 DEF View!Placed, View!Elements
  <2> QED BY <2>1, <2>2
<1>4. Seen' = Seen
  BY <1>1, <1>3, SeenStays
<1> QED BY <1>4, SameOperators DEF Loader!ShareAwake, View!ShareAwake

(* release(r).                                                             *)
LEMMA ReleaseSeen ==
  ASSUME NEW c \in Callers, Loader!Release(c)
  PROVE  View!Release(c)
<1>1. loadedResources' = loadedResources /\ memory' = memory
  BY DEF Loader!Release
<1>2. Seen' = Seen
  BY <1>1, SeenStays DEF View!Placed, View!Elements
<1>3. /\ \A m : Loader!LastUser(m) <=> View!LastUser(m)
      /\ Loader!WasFull <=> View!WasFull
  BY DEF Loader!LastUser, Loader!WasFull, View!LastUser, View!WasFull
<1> QED BY <1>2, <1>3, SameOperators DEF Loader!Release, View!Release

-----------------------------------------------------------------------------
(* One step of a caller in the loader.                                     *)
LoaderStep(c) ==
  \/ \E m \in Models : Loader!LoadHit(c, m) \/ Loader!LoadMiss(c, m) \/ Loader!LoadShared(c, m)
  \/ Loader!TakeTurn(c) \/ Loader!LoadReturns(c) \/ Loader!FinishLoad(c)
  \/ Loader!NotifyLoaded(c) \/ Loader!ShareAwake(c) \/ Loader!Release(c)
  \/ Loader!NotifyReleased(c) \/ Loader!SpuriousWake(c)

(* The step is one of ResourceLoader, whose invariant it keeps.            *)
LEMMA LoaderStepSeen ==
  ASSUME View!Inv, memory \in [Models -> {"absent", "coming", "present"}],
         NEW c \in Callers, LoaderStep(c)
  PROVE  View!Next /\ View!Inv'
<1>1. ASSUME NEW m \in Models,
             Loader!LoadHit(c, m) \/ Loader!LoadMiss(c, m) \/ Loader!LoadShared(c, m)
      PROVE  View!Call(c)
  BY <1>1, HitSeen, MissSeen, SharedSeen DEF View!Call
<1>2. ASSUME \/ Loader!TakeTurn(c) \/ Loader!LoadReturns(c) \/ Loader!FinishLoad(c)
             \/ Loader!NotifyLoaded(c) \/ Loader!ShareAwake(c) \/ Loader!Release(c)
             \/ Loader!NotifyReleased(c)
      PROVE  View!Continue(c)
  BY <1>2, TurnSeen, ReturnsSeen, FinishSeen, NotifySeen, AwakeSeen, ReleaseSeen
     DEF View!Continue
<1>3. View!Next
  BY <1>1, <1>2, NotifySeen DEF LoaderStep, View!Next
<1> QED BY <1>3, View!NextInv, ViewAssumptions

(* No caller moves another one.                                            *)
LEMMA OthersStand ==
  ASSUME View!Inv, NEW c \in Callers, LoaderStep(c)
  PROVE  \A d \in Callers \ {c} : pc'[d] = pc[d] /\ target'[d] = target[d]
<1>1. pc \in [Callers -> View!Locations] /\ target \in [Callers -> Models \cup {None}]
  BY DEF View!Inv, View!TypeOK
<1>2. ASSUME NEW m \in Models,
             Loader!LoadHit(c, m) \/ Loader!LoadMiss(c, m) \/ Loader!LoadShared(c, m)
      PROVE  \A d \in Callers \ {c} : pc'[d] = pc[d] /\ target'[d] = target[d]
  BY <1>1, <1>2 DEF Loader!LoadHit, Loader!LoadMiss, Loader!LoadShared, Loader!StartLoad,
                    Loader!WaitTurn, Loader!Goto
<1>3. CASE Loader!TakeTurn(c) \/ Loader!LoadReturns(c) \/ Loader!FinishLoad(c)
  BY <1>1, <1>3 DEF Loader!TakeTurn, Loader!LoadReturns, Loader!FinishLoad,
                    Loader!StartLoad, Loader!Goto
<1>4. CASE \/ Loader!NotifyLoaded(c) \/ Loader!ShareAwake(c) \/ Loader!Release(c)
           \/ Loader!NotifyReleased(c) \/ Loader!SpuriousWake(c)
  BY <1>1, <1>4 DEF Loader!NotifyLoaded, Loader!ShareAwake, Loader!Release,
                    Loader!NotifyReleased, Loader!SpuriousWake, Loader!Goto, Loader!shared
<1> QED BY <1>2, <1>3, <1>4 DEF LoaderStep

(* The objects stay absent, coming or present.                             *)
LEMMA MemoryTyped ==
  ASSUME memory \in [Models -> {"absent", "coming", "present"}],
         NEW c \in Callers, LoaderStep(c)
  PROVE  memory' \in [Models -> {"absent", "coming", "present"}]
<1>1. ASSUME NEW m, NEW queue, Loader!StartLoad(c, m, queue)
      PROVE  memory' \in [Models -> {"absent", "coming", "present"}]
  <2>1. \A q \in Models : memory'[q] \in {"absent", "coming", memory[q]}
    BY <1>1 DEF Loader!StartLoad
  <2>2. memory' = [q \in Models |-> memory'[q]]
    BY <1>1 DEF Loader!StartLoad
  <2>3. \A q \in Models : memory'[q] \in {"absent", "coming", "present"}
    BY <2>1
  <2> QED BY <2>2, <2>3
<1>2. ASSUME NEW m \in Models,
             Loader!LoadHit(c, m) \/ Loader!LoadMiss(c, m) \/ Loader!LoadShared(c, m)
      PROVE  memory' \in [Models -> {"absent", "coming", "present"}]
  BY <1>1, <1>2 DEF Loader!LoadHit, Loader!LoadMiss, Loader!LoadShared, Loader!WaitTurn
<1>3. CASE Loader!TakeTurn(c) \/ Loader!LoadReturns(c) \/ Loader!FinishLoad(c)
  BY <1>1, <1>3 DEF Loader!TakeTurn, Loader!LoadReturns, Loader!FinishLoad
<1>4. CASE \/ Loader!NotifyLoaded(c) \/ Loader!ShareAwake(c) \/ Loader!Release(c)
           \/ Loader!NotifyReleased(c) \/ Loader!SpuriousWake(c)
  BY <1>4 DEF Loader!NotifyLoaded, Loader!ShareAwake, Loader!Release,
              Loader!NotifyReleased, Loader!SpuriousWake
<1> QED BY <1>2, <1>3, <1>4 DEF LoaderStep

(* Where the caller itself stands after its step.                          *)
Loading == {"turn", "loading", "loaded", "failed", "notifying", "sharing"}

LEMMA CallerMoves ==
  ASSUME View!Inv, NEW c \in Callers
  PROVE  /\ \A m \in Models :
              Loader!LoadHit(c, m) \/ Loader!LoadMiss(c, m) \/ Loader!LoadShared(c, m)
                => pc'[c] \in Loading \cup {"using", "idle"}
         /\ (\/ Loader!TakeTurn(c) \/ Loader!LoadReturns(c) \/ Loader!FinishLoad(c)
             \/ Loader!NotifyLoaded(c) \/ Loader!ShareAwake(c))
              => pc'[c] \in Loading \cup {"using", "idle"}
         /\ Loader!Release(c) => pc'[c] \in {"idle", "released"}
         /\ Loader!NotifyReleased(c) => pc'[c] = "idle"
         /\ Loader!SpuriousWake(c) => pc' = pc
<1>1. pc \in [Callers -> View!Locations]
  BY DEF View!Inv, View!TypeOK
<1>2. ASSUME NEW m \in Models,
             Loader!LoadHit(c, m) \/ Loader!LoadMiss(c, m) \/ Loader!LoadShared(c, m)
      PROVE  pc'[c] \in Loading \cup {"using", "idle"}
  BY <1>1, <1>2 DEF Loader!LoadHit, Loader!LoadMiss, Loader!LoadShared, Loader!StartLoad,
                    Loader!WaitTurn, Loader!Goto, Loading
<1>3. ASSUME \/ Loader!TakeTurn(c) \/ Loader!LoadReturns(c) \/ Loader!FinishLoad(c)
             \/ Loader!NotifyLoaded(c) \/ Loader!ShareAwake(c)
      PROVE  pc'[c] \in Loading \cup {"using", "idle"}
  BY <1>1, <1>3 DEF Loader!TakeTurn, Loader!LoadReturns, Loader!FinishLoad,
                    Loader!NotifyLoaded, Loader!ShareAwake, Loader!StartLoad,
                    Loader!Goto, Loading
<1>4. /\ Loader!Release(c) => pc'[c] \in {"idle", "released"}
      /\ Loader!NotifyReleased(c) => pc'[c] = "idle"
      /\ Loader!SpuriousWake(c) => pc' = pc
  BY <1>1 DEF Loader!Release, Loader!NotifyReleased, Loader!SpuriousWake, Loader!Goto
<1> QED BY <1>2, <1>3, <1>4

(* A step of one connection keeps the invariant if the stage it reaches    *)
(* fits what its call in the loader has become.                            *)
Fits(s, p) ==
  /\ s \in {"closed", "reading", "replying"} => p = "idle"
  /\ s = "loading" => p \in Loading
  /\ s \in {"preparing", "sending"} => p = "using"
  /\ s \in {"refusing", "completing"} => p = "released"

LEMMA ConnectionStep ==
  ASSUME ServerInv, phase \in {"serving", "quiesced"}, phase' = phase,
         NEW c \in Connections, NEW s \in Stages, At(c, s), Fits(s, pc'[c]),
         LoaderStep(c) \/ UNCHANGED loaderVars
  PROVE  ServerInv'
<1>1. View!Inv /\ memory \in [Models -> {"absent", "coming", "present"}] /\ c \in Callers
  BY DEF ServerInv, ServerTypeOK, Callers
<1>2. View!Inv' /\ memory' \in [Models -> {"absent", "coming", "present"}]
  <2>1. CASE LoaderStep(c)
    BY <1>1, <2>1, LoaderStepSeen, MemoryTyped
  <2>2. CASE UNCHANGED loaderVars
    <3>1. Seen' = Seen
      BY <2>2, SeenStays DEF loaderVars, View!Placed, View!Elements
    <3>2. UNCHANGED View!vars
      BY <2>2, <3>1 DEF loaderVars, View!vars, View!shared
    <3>3. View!Inv'
      BY <1>1, <3>2, View!NextInv, ViewAssumptions
    <3> QED BY <1>1, <2>2, <3>3 DEF loaderVars
  <2> QED BY <2>1, <2>2
<1>3. \A d \in Connections \ {c} : pc'[d] = pc[d] /\ stage'[d] = stage[d]
  <2>1. \A d \in Connections \ {c} : d \in Callers \ {c}
    BY DEF Callers
  <2>2. \A d \in Connections \ {c} : pc'[d] = pc[d]
    BY <1>1, <2>1, OthersStand DEF loaderVars
  <2> QED BY <2>2 DEF At, ServerInv, ServerTypeOK
<1>4. stage' \in [Connections -> Stages] /\ stage'[c] = s
  BY DEF At, ServerInv, ServerTypeOK
<1>5. \A d \in Connections : pc'[d] = "idle" => target'[d] = None
  BY <1>2 DEF View!Inv, View!InsideHasTarget, Callers
<1>6. StageTellsPc'
  <2> SUFFICES ASSUME NEW d \in Connections PROVE Fits(stage'[d], pc'[d])
    BY <1>5 DEF StageTellsPc, Fits, Loading
  <2>1. CASE d = c
    BY <1>4, <2>1
  <2>2. CASE d # c
    BY <1>3, <2>2 DEF ServerInv, StageTellsPc, Fits, Loading
  <2> QED BY <2>1, <2>2
<1> QED BY <1>2, <1>4, <1>6 DEF ServerInv, ServerTypeOK, PhaseTellsRest

(* What does not touch the loader keeps its invariant.                     *)
LEMMA SameLoader ==
  ASSUME ServerInv, phase # "exited", UNCHANGED loaderVars
  PROVE  View!Inv' /\ memory' = memory
<1>1. Seen' = Seen
  BY SeenStays DEF loaderVars, View!Placed, View!Elements
<1>2. UNCHANGED View!vars
  BY <1>1 DEF loaderVars, View!vars, View!shared
<1> QED BY <1>2, View!NextInv, ViewAssumptions DEF ServerInv, loaderVars

(* A connection that is doing something does so while the daemon runs.     *)
LEMMA OpenMeansRunning ==
  ASSUME ServerInv, NEW c \in Connections, stage[c] # "closed"
  PROVE  phase \in {"serving", "quiesced"}
BY DEF ServerInv, PhaseTellsRest

-----------------------------------------------------------------------------
(* The actions, one by one.                                                *)
LEMMA AcceptInv ==
  ASSUME ServerInv, NEW c \in Connections, Accept(c)
  PROVE  ServerInv'
<1>1. /\ phase = "serving" /\ phase' = phase /\ UNCHANGED loaderVars
      /\ stage[c] = "closed" /\ At(c, "reading")
  BY DEF Accept, Listening
<1>2. Fits("reading", pc'[c]) /\ "reading" \in Stages
  BY <1>1 DEF ServerInv, StageTellsPc, Fits, Stages, loaderVars
<1> QED BY <1>1, <1>2, ConnectionStep

(* handle_request with the whole request.                                  *)
LEMMA RequestInv ==
  ASSUME ServerInv, NEW c \in Connections, Request(c)
  PROVE  ServerInv'
<1>1. /\ stage[c] = "reading" /\ phase' = phase /\ phase \in {"serving", "quiesced"}
      /\ pc[c] = "idle" /\ c \in Callers /\ View!Inv
  BY OpenMeansRunning DEF Request, ServerInv, StageTellsPc, Callers
<1>2. CASE At(c, "replying") /\ UNCHANGED loaderVars
  <2>1. Fits("replying", pc'[c]) /\ "replying" \in Stages
    BY <1>1, <1>2 DEF Fits, Stages, loaderVars
  <2> QED BY <1>1, <1>2, <2>1, ConnectionStep
<1>3. ASSUME NEW m \in Models,
             Loader!LoadHit(c, m) \/ Loader!LoadMiss(c, m) \/ Loader!LoadShared(c, m),
             AfterLoad(c)
      PROVE  ServerInv'
  <2> DEFINE s == IF pc'[c] = "using" THEN "preparing"
                  ELSE IF pc'[c] = "idle" THEN "replying" ELSE "loading"
  <2>1. At(c, s) /\ LoaderStep(c)
    BY <1>3 DEF AfterLoad, LoaderStep
  <2>2. pc'[c] \in Loading \cup {"using", "idle"}
    BY <1>1, <1>3, CallerMoves
  <2>3. Fits(s, pc'[c]) /\ s \in Stages
    BY <2>2 DEF Fits, Stages, Loading
  <2> HIDE DEF s
  <2> QED BY <1>1, <2>1, <2>3, ConnectionStep
<1> QED BY <1>2, <1>3 DEF Request

(* The further steps of load_model().                                      *)
LEMMA InLoadInv ==
  ASSUME ServerInv, NEW c \in Connections, InLoad(c)
  PROVE  ServerInv'
<1> DEFINE s == IF pc'[c] = "using" THEN "preparing"
                ELSE IF pc'[c] = "idle" THEN "replying" ELSE "loading"
<1>1. /\ phase' = phase /\ phase \in {"serving", "quiesced"} /\ c \in Callers /\ View!Inv
  BY OpenMeansRunning DEF InLoad, ServerInv, Callers
<1>2. At(c, s) /\ LoaderStep(c)
  BY DEF InLoad, AfterLoad, LoaderStep
<1>3. pc'[c] \in Loading \cup {"using", "idle"}
  BY <1>1, CallerMoves DEF InLoad
<1>4. Fits(s, pc'[c]) /\ s \in Stages
  BY <1>3 DEF Fits, Stages, Loading
<1> HIDE DEF s
<1> QED BY <1>1, <1>2, <1>4, ConnectionStep

(* The model is given back on the way to a stage that has none.            *)
LEMMA ReleaseModelInv ==
  ASSUME ServerInv, NEW c \in Connections, stage[c] # "closed", phase' = phase,
         NEW after \in {"replying", "closed"}, ReleaseModel(c, after)
  PROVE  ServerInv'
<1> DEFINE s == IF pc'[c] # "released" THEN after
                ELSE IF after = "closed" THEN "completing" ELSE "refusing"
<1>1. phase \in {"serving", "quiesced"} /\ c \in Callers /\ View!Inv
  BY OpenMeansRunning DEF ServerInv, Callers
<1>2. At(c, s) /\ LoaderStep(c) /\ Loader!Release(c)
  BY DEF ReleaseModel, LoaderStep
<1>3. pc'[c] \in {"idle", "released"}
  BY <1>1, <1>2, CallerMoves
<1>4. Fits(s, pc'[c]) /\ s \in Stages
  BY <1>3 DEF Fits, Stages
<1> HIDE DEF s
<1> QED BY <1>1, <1>2, <1>4, ConnectionStep

(* The rest of the handler.                                                *)
LEMMA PrepareInv ==
  ASSUME ServerInv, NEW c \in Connections, Prepare(c)
  PROVE  ServerInv'
<1>1. stage[c] = "preparing" /\ phase' = phase /\ phase \in {"serving", "quiesced"}
  BY OpenMeansRunning DEF Prepare
<1>2. CASE ReleaseModel(c, "replying")
  BY <1>1, <1>2, ReleaseModelInv
<1>3. CASE At(c, "sending") /\ UNCHANGED loaderVars
  <2>1. Fits("sending", pc'[c]) /\ "sending" \in Stages
    BY <1>1, <1>3 DEF ServerInv, StageTellsPc, Fits, Stages, loaderVars
  <2> QED BY <1>1, <1>3, <2>1, ConnectionStep
<1> QED BY <1>2, <1>3 DEF Prepare

(* request_completed, from whatever stage.                                 *)
LEMMA CompleteInv ==
  ASSUME ServerInv, NEW c \in Connections, Complete(c)
  PROVE  ServerInv'
<1>1. /\ stage[c] \in {"reading", "replying", "sending"} /\ phase' = phase
      /\ phase \in {"serving", "quiesced"}
  BY OpenMeansRunning DEF Complete
<1>2. CASE stage[c] = "sending"
  BY <1>1, <1>2, ReleaseModelInv DEF Complete
<1>3. CASE stage[c] # "sending"
  <2>1. At(c, "closed") /\ UNCHANGED loaderVars
    BY <1>3 DEF Complete
  <2>2. Fits("closed", pc'[c]) /\ "closed" \in Stages
    BY <1>1, <1>3, <2>1 DEF ServerInv, StageTellsPc, Fits, Stages, loaderVars
  <2> QED BY <1>1, <2>1, <2>2, ConnectionStep
<1> QED BY <1>2, <1>3

(* The notification that ends a release.                                   *)
LEMMA LeaveInv ==
  ASSUME ServerInv, NEW c \in Connections, Leave(c)
  PROVE  ServerInv'
<1> DEFINE s == IF stage[c] = "refusing" THEN "replying" ELSE "closed"
<1>1. /\ phase' = phase /\ phase \in {"serving", "quiesced"} /\ c \in Callers /\ View!Inv
  BY OpenMeansRunning DEF Leave, ServerInv, Callers
<1>2. At(c, s) /\ LoaderStep(c) /\ Loader!NotifyReleased(c)
  BY DEF Leave, LoaderStep
<1>3. pc'[c] = "idle"
  BY <1>1, <1>2, CallerMoves
<1>4. Fits(s, pc'[c]) /\ s \in Stages
  BY <1>3 DEF Fits, Stages
<1> HIDE DEF s
<1> QED BY <1>1, <1>2, <1>4, ConnectionStep

(* A step of main or of the condition variable, which concerns no stage:   *)
(* each connection stays where its call stands.                            *)
LEMMA MainKeeps ==
  ASSUME ServerInv, UNCHANGED stage, phase' \in Phases,
         memory' \in [Models -> {"absent", "coming", "present"}],
         \A c \in Connections : pc'[c] = pc[c] /\ target'[c] = target[c],
         phase' # "exited" => View!Inv',
         phase' = "checking" => loadedResources' = <<>>,
         phase' \notin {"serving", "quiesced"} =>
            \A c \in Connections : stage[c] = "closed"
  PROVE  ServerInv'
<1>1. ServerTypeOK' /\ PhaseTellsRest'
  BY DEF ServerInv, ServerTypeOK, PhaseTellsRest
<1>2. StageTellsPc'
  BY DEF ServerInv, StageTellsPc
<1> QED BY <1>1, <1>2 DEF ServerInv

(* The trials of init() go past the loader.                                *)
LEMMA TrialInv ==
  ASSUME ServerInv, NEW m \in Models, TryModel(m) \/ DoneTrying(m)
  PROVE  ServerInv'
<1>1. /\ phase = "checking" /\ phase' \in {"checking", "failed"}
      /\ UNCHANGED <<usedCount, state, loadedResources, usedResources,
                     queuedResources, pc, target, asleep, stage>>
      /\ \/ memory' = memory
         \/ \E x \in {"absent", "present"} : memory' = [memory EXCEPT ![m] = x]
  BY DEF TryModel, DoneTrying
<1>2. memory' \in [Models -> {"absent", "coming", "present"}]
  BY <1>1 DEF ServerInv, ServerTypeOK
<1>3. View!Placed = {} /\ View!Placed' = {}
  <2>1. loadedResources = <<>> /\ loadedResources' = <<>>
    BY <1>1 DEF ServerInv, PhaseTellsRest
  <2> QED BY <2>1 DEF View!Placed, View!Elements
<1>4. Seen' = Seen
  BY <1>3, SameOperators DEF Seen
<1>5. View!Inv'
  <2>1. UNCHANGED View!vars
    BY <1>1, <1>4 DEF View!vars, View!shared
  <2> QED BY <1>1, <2>1, View!NextInv, ViewAssumptions DEF ServerInv
<1>6. loadedResources' = <<>> /\ \A c \in Connections : stage[c] = "closed"
  BY <1>1 DEF ServerInv, PhaseTellsRest
<1> QED BY <1>1, <1>2, <1>5, <1>6, MainKeeps DEF Phases

(* A step of main in the loader moves no connection.                       *)
LEMMA MainLoads ==
  ASSUME ServerInv, phase # "exited", NEW c \in Callers, LoaderStep(c),
         c \in Connections => pc' = pc /\ target' = target
  PROVE  /\ View!Inv' /\ memory' \in [Models -> {"absent", "coming", "present"}]
         /\ \A d \in Connections : pc'[d] = pc[d] /\ target'[d] = target[d]
<1>1. View!Inv /\ memory \in [Models -> {"absent", "coming", "present"}]
  BY DEF ServerInv, ServerTypeOK
<1>2. \A d \in Callers \ {c} : pc'[d] = pc[d] /\ target'[d] = target[d]
  BY <1>1, OthersStand
<1>3. \A d \in Connections : pc'[d] = pc[d] /\ target'[d] = target[d]
  BY <1>2 DEF Callers
<1> QED BY <1>1, <1>3, LoaderStepSeen, MemoryTyped

(* init() preloads the default or is done.                                 *)
LEMMA EndTrialsInv ==
  ASSUME ServerInv, EndTrials
  PROVE  ServerInv'
<1>1. /\ phase = "checking" /\ UNCHANGED stage
      /\ \A c \in Connections : stage[c] = "closed"
  BY DEF EndTrials, TrialsOver, ServerInv, PhaseTellsRest
<1>2. CASE PreloadDefault
  <2>1. /\ Loader!LoadMiss(Main, Default) /\ phase' = "preloading"
        /\ LoaderStep(Main) /\ Main \in Callers /\ Main \notin Connections
    BY <1>2, DefaultAssumption, MainAssumption DEF EndTrials, LoaderStep, Callers
  <2>2. /\ View!Inv' /\ memory' \in [Models -> {"absent", "coming", "present"}]
        /\ \A d \in Connections : pc'[d] = pc[d] /\ target'[d] = target[d]
    BY <1>1, <2>1, MainLoads
  <2> QED BY <1>1, <2>1, <2>2, MainKeeps DEF Phases
<1>3. CASE ~PreloadDefault
  <2>1. phase' = "serving" /\ UNCHANGED loaderVars
    BY <1>3 DEF EndTrials
  <2>2. View!Inv' /\ memory' \in [Models -> {"absent", "coming", "present"}]
    BY <1>1, <2>1, SameLoader DEF ServerInv, ServerTypeOK
  <2> QED BY <1>1, <2>1, <2>2, MainKeeps DEF Phases, loaderVars
<1> QED BY <1>2, <1>3

(* init() inside loader->load(default_model).                              *)
LEMMA PreloadInv ==
  ASSUME ServerInv, Preload
  PROVE  ServerInv'
<1>1. /\ phase = "preloading" /\ phase' \in {"preloading", "serving"} /\ UNCHANGED stage
      /\ LoaderStep(Main) /\ Main \in Callers /\ Main \notin Connections
  BY MainAssumption DEF Preload, LoaderStep, Callers
<1>2. /\ View!Inv' /\ memory' \in [Models -> {"absent", "coming", "present"}]
      /\ \A d \in Connections : pc'[d] = pc[d] /\ target'[d] = target[d]
  BY <1>1, MainLoads
<1>3. \A c \in Connections : stage[c] = "closed"
  BY <1>1 DEF ServerInv, PhaseTellsRest
<1> QED BY <1>1, <1>2, <1>3, MainKeeps DEF Phases

(* The condition variable wakes somebody for nothing.                      *)
LEMMA SpuriousInv ==
  ASSUME ServerInv, Spurious
  PROVE  ServerInv'
<1>1. PICK c \in Callers : Loader!SpuriousWake(c)
  BY DEF Spurious
<1>2. /\ UNCHANGED <<phase, stage, pc, target, memory, loadedResources>>
  BY <1>1 DEF Spurious, Loader!SpuriousWake, Loader!shared
<1>3. phase # "exited" => View!Inv'
  BY <1>1, <1>2, MainLoads DEF LoaderStep
<1>4. memory' \in [Models -> {"absent", "coming", "present"}] /\ phase' \in Phases
  BY <1>2 DEF ServerInv, ServerTypeOK
<1> QED BY <1>2, <1>3, <1>4, MainKeeps DEF ServerInv, PhaseTellsRest

(* The signal, the end of the daemon, and what follows the exit.           *)
LEMMA StopInv ==
  ASSUME ServerInv, Signal \/ StopDaemon \/ Over
  PROVE  ServerInv'
<1>1. /\ UNCHANGED loaderVars /\ UNCHANGED stage
      /\ phase' \in Phases
      /\ phase' # "checking"
      /\ phase' = "exited" <=> phase = "exited"
  BY DEF Signal, StopDaemon, Over, vars, Phases, Drained
<1>2. phase' \notin {"serving", "quiesced"} =>
         \A c \in Connections : stage[c] = "closed"
  BY DEF Signal, StopDaemon, Over, Drained, Open, vars, ServerInv, PhaseTellsRest
<1>3. phase' # "exited" => View!Inv'
  BY <1>1, SameLoader
<1>4. memory' \in [Models -> {"absent", "coming", "present"}]
  BY <1>1 DEF ServerInv, ServerTypeOK, loaderVars
<1> QED BY <1>1, <1>2, <1>3, <1>4, MainKeeps DEF loaderVars

(* The static destructors free what they find; the invariant of the loader *)
(* ends here, and nobody is left who would need it.                        *)
LEMMA ExitInv ==
  ASSUME ServerInv, Exit
  PROVE  ServerInv'
<1>1. /\ phase' = "exited" /\ UNCHANGED <<stage, pc, target>>
      /\ memory' = [m \in Models |-> "absent"]
      /\ \A c \in Connections : stage[c] = "closed"
  BY DEF Exit, ServerInv, PhaseTellsRest
<1>2. memory' \in [Models -> {"absent", "coming", "present"}]
  BY <1>1
<1> QED BY <1>1, <1>2, MainKeeps DEF Phases

(* The server starts in its invariant...                                   *)
LEMMA ServerInitInv ==
  ASSUME Init
  PROVE  ServerInv
<1>1. /\ Loader!Init /\ phase = "checking" /\ stage = [c \in Connections |-> "closed"]
  BY DEF Init
<1>2. /\ memory = [m \in Models |-> "absent"] /\ loadedResources = <<>>
      /\ pc = [c \in Callers |-> "idle"] /\ target = [c \in Callers |-> None]
  BY <1>1 DEF Loader!Init
<1>3. Seen = [m \in Models |-> "absent"]
  BY <1>2 DEF Seen
<1>4. View!Init
  BY <1>1, <1>3 DEF Loader!Init, View!Init
<1>5. View!Inv
  BY <1>4, View!InitInv, ViewAssumptions
<1>6. ServerTypeOK /\ PhaseTellsRest
  BY <1>1, <1>2 DEF ServerTypeOK, PhaseTellsRest, Phases, Stages
<1>7. StageTellsPc
  BY <1>1, <1>2 DEF StageTellsPc, Callers
<1> QED BY <1>5, <1>6, <1>7 DEF ServerInv

(* ... and every step keeps it.                                            *)
LEMMA ServerNextInv ==
  ASSUME ServerInv, [Next]_vars
  PROVE  ServerInv'
<1>1. CASE UNCHANGED vars
  <2>1. /\ UNCHANGED loaderVars /\ UNCHANGED <<stage, phase>>
    BY <1>1 DEF vars
  <2>2. phase' # "exited" => View!Inv'
    BY <2>1, SameLoader
  <2>3. memory' \in [Models -> {"absent", "coming", "present"}] /\ phase' \in Phases
    BY <2>1 DEF ServerInv, ServerTypeOK, loaderVars
  <2> QED BY <2>1, <2>2, <2>3, MainKeeps DEF loaderVars, ServerInv, PhaseTellsRest
<1>2. ASSUME NEW c \in Connections, Accept(c) \/ Request(c) \/ Complete(c) \/ Callback(c)
      PROVE  ServerInv'
  BY <1>2, AcceptInv, RequestInv, CompleteInv, InLoadInv, PrepareInv, LeaveInv DEF Callback
<1>3. CASE MainStep
  BY <1>3, TrialInv, EndTrialsInv, PreloadInv, StopInv, ExitInv DEF MainStep
<1> QED BY <1>1, <1>2, <1>3, StopInv, SpuriousInv DEF Next

-----------------------------------------------------------------------------
(* The inductive invariant of the server.                                  *)
THEOREM ServerInvariance == Spec => []ServerInv
BY ServerInitInv, ServerNextInv, PTL DEF Spec

(* Whatever handlers, completions and init() do to the loader until the    *)
(* destructors run is a step of ResourceLoader: all that is proved of the  *)
(* loader holds inside the server.                                         *)
THEOREM LoaderUsedAsMeant == Spec => [](phase # "exited" => View!Inv)
<1>1. ServerInv => (phase # "exited" => View!Inv)
  BY DEF ServerInv
<1> QED BY <1>1, ServerInvariance, PTL

(* A handler or a generator has its model in memory, over every callback   *)
(* of the response and whatever the other requests load and evict.         *)
THEOREM WorksWithLoadedModelHolds == Spec => []WorksWithLoadedModel
<1>1. ASSUME ServerInv PROVE WorksWithLoadedModel
  <2> SUFFICES ASSUME NEW c \in Connections, stage[c] \in {"preparing", "sending"}
               PROVE  pc[c] = "using" /\ memory[target[c]] = "present"
    BY DEF WorksWithLoadedModel
  <2>1. pc[c] = "using" /\ View!Inv /\ c \in Callers
    BY <1>1, OpenMeansRunning DEF ServerInv, StageTellsPc, Callers
  <2>2. target[c] \in Models
    BY <2>1, View!InsideTarget, ViewAssumptions
  <2>3. state[target[c]] = "LOADED"
    BY <2>1, <2>2, ViewAssumptions DEF View!Inv, View!HoldersLoaded, View!Holding
  <2>4. Seen[target[c]] = "present"
    BY <2>1, <2>2, <2>3 DEF View!Inv, View!MemoryFollows
  <2>5. memory[target[c]] = "present"
    BY <2>2, <2>4 DEF Seen
  <2> QED BY <2>1, <2>5
<1> QED BY <1>1, ServerInvariance, PTL

(* Exactly the requests between load_model() and the end of their          *)
(* loaded_model count as users of a model, whichever way they end.         *)
THEOREM NoLeakedModelHolds == Spec => []NoLeakedModel
<1>1. ServerInv => NoLeakedModel
  BY DEF ServerInv, StageTellsPc, NoLeakedModel
<1> QED BY <1>1, ServerInvariance, PTL

(* The static destructors run when nobody is inside the loader.            *)
THEOREM QuietExitHolds == Spec => []QuietExit
<1>1. ServerInv => QuietExit
  BY DEF ServerInv, StageTellsPc, PhaseTellsRest, QuietExit
<1> QED BY <1>1, ServerInvariance, PTL
=============================================================================
