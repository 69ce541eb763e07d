---------------------------- MODULE ResourcePool ----------------------------
(***************************************************************************)
(* What threadsafe_resource_loader promises its clients, without queue,    *)
(* locks, counters or notifications: a pool of Limit places.  A resource   *)
(* enters a place only for a client that wants it; it is pushed out only   *)
(* when no client holds it or waits for it; a client that asks ends with   *)
(* the resource, or is refused while the resource is not ready.            *)
(***************************************************************************)
EXTENDS Integers, FiniteSets

CONSTANTS Clients, Resources, Limit, None

VARIABLES
  placed,   \* the resources that occupy a place
  ready,    \* those of them that are usable
  wants,    \* the resource each client waits for, or None
  holds     \* the resource each client has, or None

vars == <<placed, ready, wants, holds>>

Init ==
  /\ placed = {} /\ ready = {}
  /\ wants = [c \in Clients |-> None]
  /\ holds = [c \in Clients |-> None]

Free(c) == wants[c] = None /\ holds[c] = None

Untouched(r) == \A c \in Clients : wants[c] # r /\ holds[c] # r

(* r takes a free place, or that of one resource nobody holds or wants.    *)
Enter(r) ==
  /\ r \notin placed
  /\ \E out \in SUBSET {q \in placed : Untouched(q)} :
       /\ Cardinality(out) <= 1
       /\ placed' = (placed \ out) \cup {r}
       /\ ready' = ready \ out
       /\ Cardinality(placed') <= Limit

Take(c, r) ==
  /\ Free(c) /\ r \in ready
  /\ holds' = [holds EXCEPT ![c] = r]
  /\ UNCHANGED <<placed, ready, wants>>

Ask(c, r) ==
  /\ Free(c) /\ r \notin ready
  /\ wants' = [wants EXCEPT ![c] = r]
  /\ UNCHANGED holds
  /\ Enter(r) \/ UNCHANGED <<placed, ready>>

Bring(r) ==
  /\ \E c \in Clients : wants[c] = r
  /\ Enter(r)
  /\ UNCHANGED <<wants, holds>>

(* The load ends: the client that made it is answered at once.             *)
Arrive(c) ==
  /\ wants[c] \in placed \ ready
  /\ ready' = ready \cup {wants[c]}
  /\ holds' = [holds EXCEPT ![c] = wants[c]]
  /\ wants' = [wants EXCEPT ![c] = None]
  /\ UNCHANGED placed

Fail(c) ==
  /\ wants[c] \in placed \ ready
  /\ placed' = placed \ {wants[c]}
  /\ wants' = [wants EXCEPT ![c] = None]
  /\ UNCHANGED <<ready, holds>>

(* The others that waited for the same resource.                           *)
Grant(c) ==
  /\ wants[c] \in ready
  /\ holds' = [holds EXCEPT ![c] = wants[c]]
  /\ wants' = [wants EXCEPT ![c] = None]
  /\ UNCHANGED <<placed, ready>>

Refuse(c) ==
  /\ wants[c] \notin placed \cup {None}
  /\ wants' = [wants EXCEPT ![c] = None]
  /\ UNCHANGED <<placed, ready, holds>>

GiveBack(c) ==
  /\ holds[c] # None
  /\ holds' = [holds EXCEPT ![c] = None]
  /\ UNCHANGED <<placed, ready, wants>>

Next ==
  \/ \E c \in Clients :
       \/ \E r \in Resources : Take(c, r) \/ Ask(c, r)
       \/ Arrive(c) \/ Fail(c) \/ Grant(c) \/ Refuse(c) \/ GiveBack(c)
  \/ \E r \in Resources : Bring(r)

Spec == Init /\ [][Next]_vars
=============================================================================
