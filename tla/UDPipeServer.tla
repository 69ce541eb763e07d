----------------------------- MODULE UDPipeServer -----------------------------
(***************************************************************************)
(* The REST server from its start to its exit: udpipe_service::init, the   *)
(* handlers that borrow a model from the loader for as long as a response  *)
(* is generated, rest_server::start and stop, and the static destructors.  *)
(* Every thread that enters the loader is a client of ResourceLoader.      *)
(*                                                                         *)
(* libmicrohttpd calls handle_request and request_completed from a worker: *)
(* one thread per connection, or, with the option --threads, one of a few  *)
(* select loops, each of which serves the connections it accepted and      *)
(* serves none of them while one of its callbacks blocks.                  *)
(***************************************************************************)
EXTENDS Integers, FiniteSets

CONSTANTS
  Connections,          \* places for concurrent HTTP connections
  Models,               \* the models of the command line
  Default,              \* the one named default_model
  Threads,              \* the select loops of --threads, {} for a thread each
  MaxConnections,       \* --max_connections
  ConcurrentLimit,      \* --concurrent_models
  CheckModelsLoadable, PreloadDefault,
  Main,                 \* the main thread
  None

ASSUME DefaultAssumption == Default \in Models
ASSUME MainAssumption == Main \notin Connections
ASSUME SizesAssumption ==
  /\ ConcurrentLimit \in Nat
  /\ None \notin Models
  /\ IsFiniteSet(Connections) /\ IsFiniteSet(Models)

VARIABLES
  usedCount, state, loadedResources, usedResources, queuedResources,
  pc, target, asleep, memory,   \* of the loader
  phase,      \* how far main() is
  checked,    \* the models whose turn in the loop of init() is over
  stage,      \* what each connection is at
  worker      \* the thread that serves it

loaderVars == <<usedCount, state, loadedResources, usedResources,
                queuedResources, pc, target, asleep, memory>>
vars == <<loaderVars, phase, checked, stage, worker>>

Callers == Connections \cup {Main}

Loader == INSTANCE ResourceLoader WITH Clients <- Callers, Resources <- Models

(***************************************************************************)
(* The phases of main:                                                     *)
(* checking    in the loop of init() over the models                       *)
(* preloading  in init(), inside loader->load(default_model)               *)
(* serving     between start() and the signal                              *)
(* quiesced    in stop(), the port closed, connections counted to zero     *)
(* stopped     out of stop(), before the static destructors                *)
(* exited      the process is gone; failed: init() returned false          *)
(*                                                                         *)
(* The stages of a connection:                                             *)
(* closed      no connection                                               *)
(* reading     connected, the request still arrives                        *)
(* loading     handle_request inside load_model                            *)
(* preparing   handle_request has the model, checks arguments and input    *)
(* sending     the response is generated, its generator holds the model    *)
(* refusing    handle_request returns an error, the model being released   *)
(* replying    a fixed response is sent, no model held                     *)
(* completing  request_completed destroys the generator                    *)
(***************************************************************************)
Init ==
  /\ Loader!Init
  /\ phase = "checking"
  /\ checked = {}
  /\ stage = [c \in Connections |-> "closed"]
  /\ worker = [c \in Connections |-> None]

-----------------------------------------------------------------------------
(* init(): the models are tried outside the loader, one after another.     *)
MustTry(m) == CheckModelsLoadable \/ (PreloadDefault /\ m = Default)

Stays(m) == m = Default /\ PreloadDefault

UnderTrial == {m \in Models \ checked : memory[m] = "present"}

(* models[i].load() of the next model, in the order of the command line.   *)
TryModel(m) ==
  /\ phase = "checking" /\ UnderTrial = {}
  /\ m \notin checked /\ MustTry(m)
  /\ \/ /\ memory' = [memory EXCEPT ![m] = "present"]
        /\ UNCHANGED phase
     \/ /\ phase' = "failed"
        /\ UNCHANGED memory
  /\ UNCHANGED <<usedCount, state, loadedResources, usedResources,
                 queuedResources, pc, target, asleep, checked, stage, worker>>

(* fill_capabilities() and release(), but for the default to be preloaded. *)
DoneTrying(m) ==
  /\ phase = "checking" /\ m \in UnderTrial
  /\ checked' = checked \cup {m}
  /\ memory' = IF Stays(m) THEN memory ELSE [memory EXCEPT ![m] = "absent"]
  /\ UNCHANGED <<usedCount, state, loadedResources, usedResources,
                 queuedResources, pc, target, asleep, phase, stage, worker>>

TrialsOver == phase = "checking" /\ {m \in Models : MustTry(m)} \subseteq checked

(* loader->load(default_model->loader_id), or straight to start().         *)
EndTrials ==
  /\ TrialsOver
  /\ IF PreloadDefault
     THEN /\ Loader!LoadMiss(Main, Default)
          /\ phase' = "preloading"
     ELSE /\ phase' = "serving"
          /\ UNCHANGED loaderVars
  /\ UNCHANGED <<checked, stage, worker>>

(* The object is loaded already: its load() does nothing and succeeds.     *)
Preload ==
  /\ phase = "preloading"
  /\ \/ Loader!TakeTurn(Main)
     \/ Loader!LoadReturns(Main) /\ memory'[Default] = "present"
     \/ Loader!FinishLoad(Main)
     \/ Loader!NotifyLoaded(Main)
  /\ phase' = IF pc'[Main] = "using" THEN "serving" ELSE "preloading"
  /\ UNCHANGED <<checked, stage, worker>>

-----------------------------------------------------------------------------
Open == {c \in Connections : stage[c] # "closed"}

(* The stages that are one call of a callback of the server.               *)
InCallback(c) == stage[c] \in {"loading", "preparing", "refusing", "completing"}

Busy(w) == \E c \in Connections : worker[c] = w /\ InCallback(c)

At(c, s) == stage' = [stage EXCEPT ![c] = s]

Serving == phase \in {"serving", "quiesced"}

SlipAcceptWhileStopping == phase \in {"serving", "quiesced"}

(* stop() has not taken the listening socket away.                         *)
Listening == phase = "serving"

Accept(c) ==
  /\ Listening
  /\ stage[c] = "closed" /\ Cardinality(Open) < MaxConnections
  /\ \E w \in IF Threads = {} THEN {c} ELSE Threads :
       /\ ~Busy(w)
       /\ worker' = [worker EXCEPT ![c] = w]
  /\ At(c, "reading")
  /\ UNCHANGED <<loaderVars, phase, checked>>

(* What follows in the handler when load_model() has gone as far as pc'.   *)
AfterLoad(c) ==
  At(c, IF pc'[c] = "using" THEN "preparing"
        ELSE IF pc'[c] = "idle" THEN "replying" ELSE "loading")

(* handle_request with the whole request: refused without a model (method, *)
(* size, encoding, URL, unknown model id), answered by handle_models, or   *)
(* on its way into load_model().                                           *)
Request(c) ==
  /\ stage[c] = "reading" /\ ~Busy(worker[c])
  /\ \/ At(c, "replying") /\ UNCHANGED loaderVars
     \/ /\ \E m \in Models :
             Loader!LoadHit(c, m) \/ Loader!LoadMiss(c, m) \/ Loader!LoadShared(c, m)
        /\ AfterLoad(c)
  /\ UNCHANGED <<phase, checked, worker>>

InLoad(c) ==
  /\ stage[c] = "loading"
  /\ \/ Loader!TakeTurn(c) \/ Loader!LoadReturns(c) \/ Loader!FinishLoad(c)
     \/ Loader!NotifyLoaded(c) \/ Loader!ShareAwake(c)
  /\ AfterLoad(c)
  /\ UNCHANGED <<phase, checked, worker>>

SlipLeakedModel(c, after) == At(c, after) /\ UNCHANGED loaderVars

(* ~loaded_model, with the notification as a step of its own.              *)
ReleaseModel(c, after) ==
  /\ Loader!Release(c)
  /\ At(c, IF pc'[c] # "released" THEN after
           ELSE IF after = "closed" THEN "completing" ELSE "refusing")

SlipModelNotPassedOn(c) ==
  /\ stage[c] = "preparing"
  /\ ReleaseModel(c, "replying") \/ ReleaseModel(c, "sending")
  /\ UNCHANGED <<phase, checked, worker>>

(* The rest of the handler: an argument or the input is refused, or the    *)
(* generator takes the model over and the response is queued.              *)
Prepare(c) ==
  /\ stage[c] = "preparing"
  /\ \/ ReleaseModel(c, "replying")
     \/ At(c, "sending") /\ UNCHANGED loaderVars
  /\ UNCHANGED <<phase, checked, worker>>

(* End of the stream, a connection lost or timed out, or a response that   *)
(* could not be queued: request_completed deletes request and generator.   *)
Complete(c) ==
  /\ stage[c] \in {"reading", "replying", "sending"} /\ ~Busy(worker[c])
  /\ IF stage[c] = "sending" THEN ReleaseModel(c, "closed")
     ELSE At(c, "closed") /\ UNCHANGED loaderVars
  /\ UNCHANGED <<phase, checked, worker>>

Leave(c) ==
  /\ stage[c] \in {"refusing", "completing"}
  /\ Loader!NotifyReleased(c)
  /\ At(c, IF stage[c] = "refusing" THEN "replying" ELSE "closed")
  /\ UNCHANGED <<phase, checked, worker>>

-----------------------------------------------------------------------------
(* SIGINT or SIGUSR1 ends wait_until_signalled; stop() quiesces.           *)
Signal ==
  /\ phase = "serving"
  /\ phase' = "quiesced"
  /\ UNCHANGED <<loaderVars, checked, stage, worker>>

SlipNoWaiting == phase = "quiesced"

Drained == phase = "quiesced" /\ Open = {}

(* The loop over MHD_DAEMON_INFO_CURRENT_CONNECTIONS sees none.            *)
StopDaemon ==
  /\ Drained
  /\ phase' = "stopped"
  /\ UNCHANGED <<loaderVars, checked, stage, worker>>

(* The static service: its loader goes first and releases the unused       *)
(* models, then the vector of models frees what is left.                   *)
Exit ==
  /\ phase = "stopped"
  /\ phase' = "exited"
  /\ state' = [m \in Models |->
                 IF usedCount[m] = 0 /\ state[m] = "LOADED" THEN "NOT_LOADED"
                 ELSE state[m]]
  /\ memory' = [m \in Models |-> "absent"]
  /\ UNCHANGED <<usedCount, loadedResources, usedResources, queuedResources, pc,
                 target, asleep, checked, stage, worker>>

Spurious ==
  /\ \E c \in Callers : Loader!SpuriousWake(c)
  /\ UNCHANGED <<phase, checked, stage, worker>>

Over == phase \in {"exited", "failed"} /\ UNCHANGED vars

Callback(c) == InLoad(c) \/ Prepare(c) \/ Leave(c)

MainStep ==
  \/ \E m \in Models : TryModel(m) \/ DoneTrying(m)
  \/ EndTrials \/ Preload \/ StopDaemon \/ Exit

Next ==
  \/ \E c \in Connections : Accept(c) \/ Request(c) \/ Complete(c) \/ Callback(c)
  \/ MainStep \/ Signal \/ Spurious \/ Over

Spec == Init /\ [][Next]_vars

(* Threads run; a select loop serves each of its connections in turn; the  *)
(* connection timeout ends what the client does not.  No signal need come. *)
FairSpec ==
  /\ Spec
  /\ WF_vars(MainStep)
  /\ \A c \in Connections :
       WF_vars(Callback(c)) /\ SF_vars(Request(c) \/ Complete(c))

-----------------------------------------------------------------------------
(* A model that a handler or a generator works with stays in memory, over  *)
(* every callback of the response and whatever other requests load.        *)
WorksWithLoadedModel ==
  \A c \in Connections :
    stage[c] \in {"preparing", "sending"} =>
      /\ pc[c] = "using"
      /\ memory[target[c]] = "present"

(* Exactly the requests between load_model() and the destruction of their  *)
(* loaded_model count as users of a model: none of the early returns, lost *)
(* connections or completed responses leaks a place of the loader.         *)
NoLeakedModel ==
  \A c \in Connections :
    /\ stage[c] \in {"closed", "reading", "replying"} => pc[c] = "idle"
    /\ stage[c] \in {"refusing", "completing"} => pc[c] = "released"
    /\ pc[c] = "idle" => target[c] = None

(* When the static destructors run, no request is inside the loader, waits *)
(* on its condition variable or holds a model that is about to be freed.   *)
QuietExit ==
  phase \in {"stopped", "exited"} =>
    \A c \in Connections : stage[c] = "closed" /\ pc[c] = "idle"

-----------------------------------------------------------------------------
(* stop() ends: once the port is closed, every current request is handled, *)
(* whatever model it waits for, and the process exits.                     *)
StopFinishes == (phase = "quiesced") ~> (phase = "exited")

(* Hits overtake the loader's queue and could starve it for ever.          *)
NobodyOvertakes ==
  <>[][\A c \in Connections : ~(pc[c] = "idle" /\ pc'[c] = "using")]_vars

(* Unless overtaken for ever, every connection is served to its end.       *)
ConnectionsEnd ==
  NobodyOvertakes =>
    \A c \in Connections : (stage[c] = "reading") ~> (stage[c] = "closed")
=============================================================================
