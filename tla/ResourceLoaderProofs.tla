------------------------ MODULE ResourceLoaderProofs ------------------------
(***************************************************************************)
(* Theorems about ResourceLoader for every number of clients, resources    *)
(* and places.                                                             *)
(***************************************************************************)
EXTENDS ResourceLoader, FiniteSetTheorems, SequenceTheorems,
        WellFoundedInduction, TLAPS

-----------------------------------------------------------------------------
(* Taking one entry out of a list keeps the others, in order.              *)
LEMMA RemoveAtEntries ==
  ASSUME NEW s \in Seq(Resources), NEW i \in 1..Len(s)
  PROVE  /\ RemoveAt(s, i) \in Seq(Resources)
         /\ Len(RemoveAt(s, i)) = Len(s) - 1
         /\ \A j \in 1..(Len(s) - 1) :
              RemoveAt(s, i)[j] = IF j < i THEN s[j] ELSE s[j + 1]
<1> DEFINE front == SubSeq(s, 1, i - 1)
           back  == SubSeq(s, i + 1, Len(s))
<1>1. Len(s) \in Nat /\ \A j \in 1..Len(s) : s[j] \in Resources
  BY LenProperties
<1>2. /\ front \in Seq(Resources) /\ Len(front) = i - 1
      /\ \A j \in 1..(i - 1) : front[j] = s[j]
  <2>1. \A j \in 1..(i - 1) : s[j] \in Resources
    BY <1>1
  <2>2. /\ front \in Seq(Resources)
        /\ Len(front) = IF 1 <= i - 1 THEN (i - 1) - 1 + 1 ELSE 0
        /\ \A j \in 1..((i - 1) - 1 + 1) : front[j] = s[1 + j - 1]
    BY <1>1, <2>1, SubSeqProperties
  <2> QED BY <1>1, <2>2
<1>3. /\ back \in Seq(Resources) /\ Len(back) = Len(s) - i
      /\ \A j \in 1..(Len(s) - i) : back[j] = s[i + j]
  <2>1. \A j \in (i + 1)..Len(s) : s[j] \in Resources
    BY <1>1
  <2>2. /\ back \in Seq(Resources)
        /\ Len(back) = IF i + 1 <= Len(s) THEN Len(s) - (i + 1) + 1 ELSE 0
        /\ \A j \in 1..(Len(s) - (i + 1) + 1) : back[j] = s[(i + 1) + j - 1]
    BY <1>1, <2>1, SubSeqProperties
  <2> QED BY <1>1, <2>2
<1>4. RemoveAt(s, i) = front \o back
  BY DEF RemoveAt
<1> HIDE DEF front, back
<1>5. /\ front \o back \in Seq(Resources)
      /\ Len(front \o back) = Len(front) + Len(back)
      /\ \A j \in 1..(Len(front) + Len(back)) :
           (front \o back)[j] = IF j <= Len(front) THEN front[j] ELSE back[j - Len(front)]
  BY <1>2, <1>3, ConcatProperties
<1>6. \A j \in 1..(Len(s) - 1) :
        RemoveAt(s, i)[j] = IF j < i THEN s[j] ELSE s[j + 1]
  <2> TAKE j \in 1..(Len(s) - 1)
  <2>1. CASE j < i
    BY <1>1, <1>2, <1>3, <1>4, <1>5, <2>1
  <2>2. CASE ~(j < i)
    <3>1. back[j - (i - 1)] = s[i + (j - (i - 1))]
      BY <1>1, <1>3, <2>2
    <3> QED BY <1>1, <1>2, <1>3, <1>4, <1>5, <2>2, <3>1
  <2> QED BY <2>1, <2>2
<1> QED BY <1>1, <1>2, <1>3, <1>4, <1>5, <1>6

(* erase() at an index: the list loses exactly the element that was there. *)
LEMMA RemoveAtFacts ==
  ASSUME NEW s, WellFormed(s), NEW i \in 1..Len(s)
  PROVE  /\ WellFormed(RemoveAt(s, i))
         /\ Elements(RemoveAt(s, i)) = Elements(s) \ {s[i]}
         /\ Len(RemoveAt(s, i)) = Len(s) - 1
<1> DEFINE t == RemoveAt(s, i)
<1>1. /\ t \in Seq(Resources) /\ Len(t) = Len(s) - 1 /\ Len(s) \in Nat
      /\ \A j \in 1..(Len(s) - 1) : t[j] = IF j < i THEN s[j] ELSE s[j + 1]
  BY RemoveAtEntries, LenProperties DEF WellFormed
<1> HIDE DEF t
<1>2. \A j, k \in 1..Len(s) : s[j] = s[k] => j = k
  BY DEF WellFormed, Distinct
<1>3. Distinct(t)
  <2> SUFFICES ASSUME NEW j \in 1..(Len(s) - 1), NEW k \in 1..(Len(s) - 1), t[j] = t[k]
               PROVE  j = k
    BY <1>1 DEF Distinct
  <2>1. CASE j < i /\ k < i
    BY <1>1, <1>2, <2>1
  <2>2. CASE j < i /\ ~(k < i)
    <3>1. s[j] = s[k + 1] /\ k + 1 \in 1..Len(s) /\ j \in 1..Len(s)
      BY <1>1, <2>2
    <3> QED BY <1>1, <1>2, <2>2, <3>1
  <2>3. CASE ~(j < i) /\ k < i
    <3>1. s[j + 1] = s[k] /\ j + 1 \in 1..Len(s) /\ k \in 1..Len(s)
      BY <1>1, <2>3
    <3> QED BY <1>1, <1>2, <2>3, <3>1
  <2>4. CASE ~(j < i) /\ ~(k < i)
    <3>1. s[j + 1] = s[k + 1] /\ j + 1 \in 1..Len(s) /\ k + 1 \in 1..Len(s)
      BY <1>1, <2>4
    <3> QED BY <1>1, <1>2, <3>1
  <2> QED BY <2>1, <2>2, <2>3, <2>4
<1>4. Elements(t) = Elements(s) \ {s[i]}
  <2>1. ASSUME NEW x \in Elements(t) PROVE x \in Elements(s) \ {s[i]}
    <3>1. PICK j \in 1..(Len(s) - 1) : x = t[j]
      BY <1>1, <2>1 DEF Elements
    <3>2. CASE j < i
      BY <1>1, <1>2, <3>1, <3>2 DEF Elements
    <3>3. CASE ~(j < i)
      <4>1. j + 1 \in 1..Len(s) /\ x = s[j + 1] /\ j + 1 # i
        BY <1>1, <3>1, <3>3
      <4> QED BY <1>1, <1>2, <4>1 DEF Elements
    <3> QED BY <3>2, <3>3
  <2>2. ASSUME NEW x \in Elements(s) \ {s[i]} PROVE x \in Elements(t)
    <3>1. PICK k \in 1..Len(s) : x = s[k] /\ k # i
      BY <2>2 DEF Elements
    <3>2. CASE k < i
      <4>1. k \in 1..(Len(s) - 1) /\ t[k] = x
        BY <1>1, <3>1, <3>2
      <4> QED BY <1>1, <4>1 DEF Elements
    <3>3. CASE k > i
      <4>1. k - 1 \in 1..(Len(s) - 1) /\ t[k - 1] = x
        <5>1. k - 1 \in 1..(Len(s) - 1) /\ ~(k - 1 < i) /\ (k - 1) + 1 = k
          BY <1>1, <3>3
        <5> QED BY <1>1, <3>1, <5>1
      <4> QED BY <1>1, <4>1 DEF Elements
    <3> QED BY <1>1, <3>1, <3>2, <3>3
  <2> QED BY <2>1, <2>2
<1>5. IsFiniteSet(Elements(t)) /\ Cardinality(Elements(t)) = Len(s) - 1
  <2>1. s[i] \in Elements(s)
    BY DEF Elements
  <2>2. IsFiniteSet(Elements(s)) /\ Cardinality(Elements(s)) = Len(s)
    BY DEF WellFormed
  <2> QED BY <1>4, <2>1, <2>2, FS_RemoveElement
<1>6. WellFormed(t)
  BY <1>1, <1>3, <1>5 DEF WellFormed
<1> QED BY <1>1, <1>4, <1>6 DEF t

(* push_back() of an element the list does not have.                       *)
LEMMA AppendFacts ==
  ASSUME NEW s, WellFormed(s), NEW r \in Resources, r \notin Elements(s)
  PROVE  /\ WellFormed(Append(s, r))
         /\ Elements(Append(s, r)) = Elements(s) \cup {r}
         /\ Len(Append(s, r)) = Len(s) + 1
<1> DEFINE t == Append(s, r)
<1>1. /\ t \in Seq(Resources) /\ Len(t) = Len(s) + 1 /\ Len(s) \in Nat
      /\ \A i \in 1..Len(s) : t[i] = s[i]
      /\ t[Len(s) + 1] = r
  BY AppendProperties, LenProperties DEF WellFormed
<1> HIDE DEF t
<1>2. Distinct(t)
  <2> SUFFICES ASSUME NEW i \in 1..(Len(s) + 1), NEW j \in 1..(Len(s) + 1), t[i] = t[j]
               PROVE  i = j
    BY <1>1 DEF Distinct
  <2>1. CASE i \in 1..Len(s) /\ j \in 1..Len(s)
    BY <1>1, <2>1 DEF WellFormed, Distinct
  <2>2. CASE i = Len(s) + 1 /\ j \in 1..Len(s)
    BY <1>1, <2>2 DEF Elements
  <2>3. CASE i \in 1..Len(s) /\ j = Len(s) + 1
    BY <1>1, <2>3 DEF Elements
  <2> QED BY <1>1, <2>1, <2>2, <2>3
<1>3. Elements(t) = Elements(s) \cup {r}
  BY <1>1 DEF Elements
<1>4. IsFiniteSet(Elements(t)) /\ Cardinality(Elements(t)) = Len(s) + 1
  BY <1>3, FS_AddElement DEF WellFormed
<1> QED BY <1>1, <1>2, <1>3, <1>4 DEF WellFormed, t

(* erase(remove()): the list loses the element if it has it.               *)
LEMMA WithoutFacts ==
  ASSUME NEW s, WellFormed(s), NEW r
  PROVE  /\ WellFormed(Without(s, r))
         /\ Elements(Without(s, r)) = Elements(s) \ {r}
         /\ Len(Without(s, r)) = IF r \in Elements(s) THEN Len(s) - 1 ELSE Len(s)
<1>1. CASE r \in Elements(s)
  <2> DEFINE i == CHOOSE i \in 1..Len(s) : s[i] = r
  <2>1. i \in 1..Len(s) /\ s[i] = r
    BY <1>1 DEF Elements
  <2>2. Without(s, r) = RemoveAt(s, i)
    BY <1>1 DEF Without, Elements
  <2> HIDE DEF i
  <2> QED BY <1>1, <2>1, <2>2, RemoveAtFacts
<1>2. CASE r \notin Elements(s)
  BY <1>2 DEF Without, Elements
<1> QED BY <1>1, <1>2

(* Moving an element of the list to its end.                               *)
LEMMA TouchFacts ==
  ASSUME NEW s, WellFormed(s), NEW r \in Resources, r \in Elements(s)
  PROVE  /\ WellFormed(Touch(s, r))
         /\ Elements(Touch(s, r)) = Elements(s)
         /\ Len(Touch(s, r)) = Len(s)
<1>1. /\ WellFormed(Without(s, r))
      /\ Elements(Without(s, r)) = Elements(s) \ {r}
      /\ Len(Without(s, r)) = Len(s) - 1
  BY WithoutFacts
<1>2. /\ WellFormed(Touch(s, r))
      /\ Elements(Touch(s, r)) = (Elements(s) \ {r}) \cup {r}
      /\ Len(Touch(s, r)) = Len(s) - 1 + 1
  BY <1>1, AppendFacts DEF Touch
<1>3. Len(s) \in Nat
  BY LenProperties DEF WellFormed
<1> QED BY <1>2, <1>3

(* pop() of the queue.                                                     *)
LEMMA TailFacts ==
  ASSUME NEW s, WellFormed(s), s # <<>>
  PROVE  /\ WellFormed(Tail(s))
         /\ Elements(Tail(s)) = Elements(s) \ {Head(s)}
         /\ Head(s) \in Elements(s)
<1>1. s \in Seq(Resources) /\ Len(s) \in Nat \ {0} /\ Head(s) = s[1]
  BY EmptySeq DEF WellFormed
<1>2. /\ RemoveAt(s, 1) \in Seq(Resources)
      /\ Len(RemoveAt(s, 1)) = Len(s) - 1
      /\ \A j \in 1..(Len(s) - 1) : RemoveAt(s, 1)[j] = s[j + 1]
  BY <1>1, RemoveAtEntries
<1>3. /\ Tail(s) \in Seq(Resources) /\ Len(Tail(s)) = Len(s) - 1
      /\ \A j \in 1..Len(Tail(s)) : Tail(s)[j] = s[j + 1]
  BY <1>1, HeadTailProperties
<1>4. Tail(s) = RemoveAt(s, 1)
  BY <1>2, <1>3, SeqEqual
<1>5. 1 \in 1..Len(s) /\ Head(s) \in Elements(s)
  BY <1>1 DEF Elements
<1> QED BY <1>1, <1>4, <1>5, RemoveAtFacts

-----------------------------------------------------------------------------
(* How many clients keep used_count raised when one comes or leaves.       *)
Users(t, r) == {c \in Clients : t[c] = r}

(* used_count counts a set of clients, which is finite.                    *)
LEMMA UsersFinite ==
  ASSUME NEW t, NEW r
  PROVE  IsFiniteSet(Users(t, r)) /\ Cardinality(Users(t, r)) \in Nat
BY FiniteAssumption, FS_Subset, FS_CardinalityType DEF Users

(* used_count++ by a client that was outside.                              *)
LEMMA UserComes ==
  ASSUME NEW t \in [Clients -> Resources \cup {None}],
         NEW c \in Clients, t[c] = None, NEW r \in Resources,
         NEW q \in Resources
  PROVE  Cardinality(Users([t EXCEPT ![c] = r], q)) =
           IF q = r THEN Cardinality(Users(t, q)) + 1 ELSE Cardinality(Users(t, q))
<1>1. CASE q = r
  <2>1. Users([t EXCEPT ![c] = r], q) = Users(t, q) \cup {c} /\ c \notin Users(t, q)
    BY <1>1, NoneAssumption DEF Users
  <2> QED BY <1>1, <2>1, UsersFinite, FS_AddElement
<1>2. CASE q # r
  <2>1. Users([t EXCEPT ![c] = r], q) = Users(t, q)
    BY <1>2, NoneAssumption DEF Users
  <2> QED BY <1>2, <2>1
<1> QED BY <1>1, <1>2

(* used_count-- by a client that was inside.                               *)
LEMMA UserLeaves ==
  ASSUME NEW t \in [Clients -> Resources \cup {None}],
         NEW c \in Clients, t[c] \in Resources, NEW q \in Resources
  PROVE  /\ Cardinality(Users([t EXCEPT ![c] = None], q)) =
              IF q = t[c] THEN Cardinality(Users(t, q)) - 1 ELSE Cardinality(Users(t, q))
         /\ Cardinality(Users(t, t[c])) > 0
<1>1. Cardinality(Users(t, t[c])) > 0
  BY UsersFinite, FS_EmptySet DEF Users
<1>2. CASE q = t[c]
  <2>1. Users([t EXCEPT ![c] = None], q) = Users(t, q) \ {c} /\ c \in Users(t, q)
    BY <1>2, NoneAssumption DEF Users
  <2> QED BY <1>1, <1>2, <2>1, UsersFinite, FS_RemoveElement
<1>3. CASE q # t[c]
  <2>1. Users([t EXCEPT ![c] = None], q) = Users(t, q)
    BY <1>3, NoneAssumption DEF Users
  <2> QED BY <1>1, <1>3, <2>1
<1> QED BY <1>1, <1>2, <1>3

-----------------------------------------------------------------------------
(* A nonempty set of naturals has a least element.                         *)
LEMMA LeastPlace ==
  ASSUME NEW T, T \subseteq Nat, T # {}
  PROVE  \E x \in T : \A y \in T : x <= y
<1>1. PICK x \in T : \A y \in T : ~(<<y, x>> \in OpToRel(<, Nat))
  BY NatLessThanWellFounded, WFMin
<1>2. \A y \in T : ~(y < x)
  BY <1>1 DEF OpToRel
<1> QED BY <1>2

(* The loaded resources in use are a finite part of the places.            *)
LEMMA UsedFinite ==
  ASSUME Inv
  PROVE  /\ IsFiniteSet(Used) /\ IsFiniteSet(Placed)
         /\ Cardinality(Used) \in Nat
         /\ Cardinality(Placed) = Len(loadedResources)
         /\ Cardinality(Used) <= Len(loadedResources)
         /\ Cardinality(Used) = Len(loadedResources) => Used = Placed
<1>1. IsFiniteSet(Placed) /\ Cardinality(Placed) = Len(loadedResources)
  BY DEF Inv, PlacesBounded, WellFormed, Placed
<1>2. Used \in SUBSET Placed
  BY DEF Used
<1> QED BY <1>1, <1>2, FS_Subset, FS_CardinalityType

(* With fewer resources in use than places, the eviction leaves room for   *)
(* one more, and only drops what nobody uses.                              *)
LEMMA EvictionFacts ==
  ASSUME Inv, NEW r \in Resources, r \notin Placed, usedResources < ConcurrentLimit,
         NEW dropped, dropped = {loadedResources[i] : i \in Victims(r)},
         NEW kept, kept = IF Victims(r) = {} THEN loadedResources
                          ELSE RemoveAt(loadedResources, CHOOSE i \in Victims(r) : TRUE)
  PROVE  /\ WellFormed(kept)
         /\ Elements(kept) = Placed \ dropped
         /\ Len(kept) < ConcurrentLimit
         /\ \A q \in dropped : q \in Placed /\ usedCount[q] = 0
<1>1. /\ WellFormed(loadedResources) /\ Len(loadedResources) <= ConcurrentLimit
      /\ Len(loadedResources) \in Nat /\ ConcurrentLimit \in Nat
  BY LimitAssumption, LenProperties DEF Inv, PlacesBounded, WellFormed
<1>2. UnusedPlaces(r) \subseteq 1..Len(loadedResources)
  BY DEF UnusedPlaces
<1>3. \A i \in Victims(r) : i \in UnusedPlaces(r)
  BY DEF Victims
<1>4. \A q \in dropped : q \in Placed /\ usedCount[q] = 0
  BY <1>3 DEF UnusedPlaces, Placed, Elements
<1>5. CASE Victims(r) = {}
  <2>1. kept = loadedResources /\ dropped = {}
    BY <1>5
  <2>2. Len(loadedResources) # ConcurrentLimit
    <3> SUFFICES ASSUME Len(loadedResources) = ConcurrentLimit PROVE FALSE
      OBVIOUS
    <3>1. Used # Placed
      <4>1. usedResources = Cardinality(Used)
        BY DEF Inv, Accounting
      <4> QED BY <4>1, UsedFinite, <1>1
    <3>2. PICK q \in Placed : ~(usedCount[q] > 0)
      BY <3>1 DEF Used
    <3>3. PICK i \in 1..Len(loadedResources) : loadedResources[i] = q
      BY DEF Placed, Elements
    <3>4. q \in Resources /\ usedCount[q] = 0
      <4>1. q \in Resources
        BY <3>3, <1>1, ElementOfSeq DEF WellFormed
      <4> QED BY <3>2, <4>1 DEF Inv, TypeOK
    <3>5. i \in UnusedPlaces(r)
      BY <3>3, <3>4 DEF UnusedPlaces
    <3>6. PICK j \in UnusedPlaces(r) : \A k \in UnusedPlaces(r) : j <= k
      BY <3>5, <1>2, LeastPlace, <1>1
    <3> QED BY <3>6, <1>5 DEF Victims
  <2>3. Elements(kept) = Placed \ dropped
    BY <2>1 DEF Placed
  <2>4. WellFormed(kept) /\ Len(kept) < ConcurrentLimit
    BY <1>1, <2>1, <2>2
  <2> QED BY <1>4, <2>3, <2>4
<1>6. CASE Victims(r) # {}
  <2> DEFINE i == CHOOSE i \in Victims(r) : TRUE
  <2>1. i \in Victims(r)
    BY <1>6
  <2>2. i \in 1..Len(loadedResources) /\ Len(loadedResources) = ConcurrentLimit
    BY <2>1, <1>2, <1>3 DEF Victims
  <2>3. \A j \in Victims(r) : j = i
    <3> HIDE DEF i
    <3> TAKE j \in Victims(r)
    <3>1. i <= j /\ j <= i
      BY <2>1, <1>3 DEF Victims
    <3>2. i \in Nat /\ j \in Nat
      BY <2>2, <1>2, <1>3, <1>1
    <3> QED BY <3>1, <3>2
  <2>4. dropped = {loadedResources[i]}
    <3> HIDE DEF i
    <3> QED BY <2>1, <2>3
  <2>5. kept = RemoveAt(loadedResources, i)
    BY <1>6
  <2> HIDE DEF i
  <2>6. /\ WellFormed(kept) /\ Elements(kept) = Placed \ dropped
        /\ Len(kept) = Len(loadedResources) - 1
    BY <1>1, <2>2, <2>4, <2>5, RemoveAtFacts DEF Placed
  <2> QED BY <1>1, <1>4, <2>2, <2>6
<1> QED BY <1>5, <1>6

-----------------------------------------------------------------------------
(* The step that starts a load, whether or not the client waited before:   *)
(* what it does to the list, to the counter and to the other resources.    *)
LEMMA StartFacts ==
  ASSUME Inv, NEW c \in Clients, NEW r \in Resources, NEW queue,
         r \notin Placed, usedResources < ConcurrentLimit,
         usedCount' \in [Resources -> Nat], usedCount'[r] > 0,
         \A q \in Resources \ {r} : usedCount'[q] = usedCount[q],
         StartLoad(c, r, queue)
  PROVE  /\ WellFormed(loadedResources)' /\ Len(loadedResources') <= ConcurrentLimit
         /\ usedResources' = Cardinality(Used') /\ usedResources' \in Nat
         /\ r \in Placed'
         /\ state' \in [Resources -> {"NOT_LOADED", "LOADING", "LOADED"}]
         /\ memory' \in [Resources -> {"absent", "coming", "present"}]
         /\ state'[r] = "LOADING" /\ memory'[r] = "coming"
         /\ \A q \in Resources \ {r} :
              \/ /\ q \in Placed <=> q \in Placed'
                 /\ state'[q] = state[q] /\ memory'[q] = memory[q]
              \/ /\ q \in Placed /\ usedCount[q] = 0 /\ q \notin Placed'
                 /\ state'[q] = "NOT_LOADED" /\ memory'[q] = "absent"
<1> DEFINE dropped == {loadedResources[i] : i \in Victims(r)}
           kept == IF Victims(r) = {} THEN loadedResources
                   ELSE RemoveAt(loadedResources, CHOOSE i \in Victims(r) : TRUE)
<1>1. /\ WellFormed(kept) /\ Elements(kept) = Placed \ dropped
      /\ Len(kept) < ConcurrentLimit
      /\ \A q \in dropped : q \in Placed /\ usedCount[q] = 0
  BY EvictionFacts
<1>2. /\ loadedResources' = Append(kept, r)
      /\ usedResources' = usedResources + 1
      /\ state' = [q \in Resources |-> IF q \in dropped THEN "NOT_LOADED"
                                       ELSE IF q = r THEN "LOADING" ELSE state[q]]
      /\ memory' = [q \in Resources |-> IF q \in dropped THEN "absent"
                                        ELSE IF q = r THEN "coming" ELSE memory[q]]
  BY DEF StartLoad
<1> HIDE DEF dropped, kept
<1>3. /\ WellFormed(loadedResources')
      /\ Elements(loadedResources') = Elements(kept) \cup {r}
      /\ Len(loadedResources') = Len(kept) + 1
  BY <1>1, <1>2, AppendFacts
<1>4. WellFormed(loadedResources)' /\ Placed' = (Placed \ dropped) \cup {r}
  BY <1>1, <1>3 DEF WellFormed, Distinct, Elements, Placed
<1>5. Len(loadedResources') <= ConcurrentLimit
  BY <1>1, <1>3, LenProperties, LimitAssumption DEF WellFormed
<1>6. usedResources' = Cardinality(Used') /\ usedResources' \in Nat
  <2>1. Placed \subseteq Resources
    BY ElementOfSeq DEF Inv, TypeOK, Placed, Elements
  <2>2. Used' = Used \cup {r} /\ r \notin Used
    BY <1>1, <1>4, <2>1 DEF Used
  <2>3. usedResources = Cardinality(Used) /\ usedResources \in Nat
    BY DEF Inv, Accounting, TypeOK
  <2>4. Cardinality(Used \cup {r}) = Cardinality(Used) + 1
    BY <2>2, UsedFinite, FS_AddElement
  <2>5. usedResources' = usedResources + 1
    BY <1>2
  <2> QED BY <2>2, <2>3, <2>4, <2>5
<1>7. r \notin dropped
  BY <1>1
<1>8. /\ state' \in [Resources -> {"NOT_LOADED", "LOADING", "LOADED"}]
      /\ memory' \in [Resources -> {"absent", "coming", "present"}]
      /\ state'[r] = "LOADING" /\ memory'[r] = "coming"
  BY <1>2, <1>7 DEF Inv, TypeOK
<1>9. \A q \in Resources \ {r} :
              \/ /\ q \in Placed <=> q \in Placed'
                 /\ state'[q] = state[q] /\ memory'[q] = memory[q]
              \/ /\ q \in Placed /\ usedCount[q] = 0 /\ q \notin Placed'
                 /\ state'[q] = "NOT_LOADED" /\ memory'[q] = "absent"
  BY <1>1, <1>2, <1>4
<1> QED BY <1>4, <1>5, <1>6, <1>8, <1>9

(* A client inside the loader is counted, so that its resource is neither  *)
(* evicted nor counted out.                                                *)
LEMMA InsideCounted ==
  ASSUME Inv, NEW c \in Clients, target[c] \in Resources
  PROVE  usedCount[target[c]] > 0
<1>1. usedCount[target[c]] = Cardinality(Users(target, target[c]))
  BY DEF Inv, Accounting, Users
<1>2. Users(target, target[c]) # {}
  BY DEF Users
<1> QED BY <1>1, <1>2, UsersFinite, FS_EmptySet

(* pc[c] tells whether target[c] is a resource.                            *)
LEMMA InsideTarget ==
  ASSUME Inv, NEW c \in Clients, pc[c] \notin {"idle", "released", "notifying"}
  PROVE  target[c] \in Resources
BY DEF Inv, TypeOK, InsideHasTarget

(* A resource that waits for its turn occupies no place yet.               *)
LEMMA WaitingNotPlaced ==
  ASSUME Inv, NEW c \in Clients, pc[c] = "turn"
  PROVE  target[c] \notin Placed /\ state[target[c]] = "LOADING"
<1>1. target[c] \in Resources /\ FirstCaller(c)
  BY InsideTarget DEF FirstCaller
<1>2. state[target[c]] = "LOADING"
  BY <1>1 DEF Inv, LoadingHasOwner
<1>3. ~\E d \in Clients : Owner(d) /\ target[d] = target[c]
  BY <1>1 DEF Inv, OneFirstCaller, Owner, FirstCaller
<1> QED BY <1>1, <1>2, <1>3 DEF Inv, PlacesMatchStates

(* Falling asleep and waking change nothing the invariant relates.         *)
LEMMA OnlySleepersChange ==
  ASSUME Inv, SleepersWait', TypeOK',
         UNCHANGED <<usedCount, state, loadedResources, usedResources,
                     queuedResources, pc, target, memory>>
  PROVE  Inv'
<1>1. InsideHasTarget' /\ HoldersLoaded'
  BY SMT DEF Inv, InsideHasTarget, HoldersLoaded, Holding
<1>2. OneFirstCaller' /\ LoadingHasOwner'
  BY DEF Inv, OneFirstCaller, LoadingHasOwner, FirstCaller
<1>3. Placed' = Placed /\ PlacesBounded'
  <2>1. Placed' = Placed
    BY DEF Placed, Elements
  <2>2. WellFormed(loadedResources)' = WellFormed(loadedResources)
    BY DEF WellFormed, Elements, Distinct
  <2> QED BY <2>1, <2>2 DEF Inv, PlacesBounded
<1>4. PlacesMatchStates' /\ MemoryFollows'
  BY <1>3 DEF Inv, PlacesMatchStates, MemoryFollows, Owner
<1>5. Used' = Used
  BY <1>3 DEF Used
<1>6. Accounting'
  BY <1>5 DEF Inv, Accounting
<1>7. QueueMatchesWaiters' /\ WellFormed(queuedResources)'
  <2>1. Elements(queuedResources)' = Elements(queuedResources)
    BY DEF Elements
  <2>2. Distinct(queuedResources)' = Distinct(queuedResources)
    BY DEF Distinct
  <2>3. WellFormed(queuedResources)'
    BY <2>1, <2>2 DEF Inv, WellFormed
  <2>4. QueueMatchesWaiters'
    BY <2>1, <2>2 DEF Inv, QueueMatchesWaiters
  <2> QED BY <2>3, <2>4
<1> QED BY <1>1, <1>2, <1>3, <1>4, <1>6, <1>7 DEF Inv

(* TakeTurn: the client at the head of the queue starts its load, or goes  *)
(* back to sleep.                                                          *)
LEMMA TakeTurnInv ==
  ASSUME Inv, NEW c \in Clients, TakeTurn(c)
  PROVE  Inv'
<1> DEFINE r == target[c]
<1>1. r \in Resources /\ pc[c] = "turn" /\ c \notin asleep
  BY InsideTarget DEF TakeTurn
<1>2. r \notin Placed /\ state[r] = "LOADING"
  BY <1>1, WaitingNotPlaced
<1>3. usedCount' = usedCount /\ target' = target
  BY DEF TakeTurn
<1>4. usedCount \in [Resources -> Nat] /\ usedCount[r] > 0
  BY <1>1, InsideCounted DEF Inv, TypeOK
<1>5. CASE MyTurn(r, queuedResources)
  <2>1. StartLoad(c, r, queuedResources) /\ asleep' = asleep
    BY <1>5 DEF TakeTurn
  <2>2. usedResources < ConcurrentLimit /\ Head(queuedResources) = r
    BY <1>5 DEF MyTurn
  <2>3. /\ WellFormed(loadedResources)' /\ Len(loadedResources') <= ConcurrentLimit
        /\ usedResources' = Cardinality(Used') /\ usedResources' \in Nat
        /\ r \in Placed'
        /\ state' \in [Resources -> {"NOT_LOADED", "LOADING", "LOADED"}]
        /\ memory' \in [Resources -> {"absent", "coming", "present"}]
        /\ state'[r] = "LOADING" /\ memory'[r] = "coming"
        /\ \A q \in Resources \ {r} :
             \/ /\ q \in Placed <=> q \in Placed'
                /\ state'[q] = state[q] /\ memory'[q] = memory[q]
             \/ /\ q \in Placed /\ usedCount[q] = 0 /\ q \notin Placed'
                /\ state'[q] = "NOT_LOADED" /\ memory'[q] = "absent"
    BY <1>1, <1>2, <1>3, <1>4, <2>1, <2>2, StartFacts
  <2>4. pc' = [pc EXCEPT ![c] = "loading"] /\ queuedResources' = Tail(queuedResources)
    BY <2>1 DEF StartLoad, Goto
  <2>5. /\ WellFormed(queuedResources)'
        /\ Elements(queuedResources)' = Elements(queuedResources) \ {r}
    <3>1. r \in Elements(queuedResources) /\ WellFormed(queuedResources)
      BY <1>1 DEF Inv, QueueMatchesWaiters
    <3>2. queuedResources # <<>>
      BY <3>1 DEF Elements
    <3>3. /\ WellFormed(queuedResources')
          /\ Elements(queuedResources') = Elements(queuedResources) \ {r}
      BY <2>2, <2>4, <3>1, <3>2, TailFacts
    <3> QED BY <3>3 DEF WellFormed, Distinct, Elements
  <2>6. \A d \in Clients : target[d] \in Resources => usedCount[target[d]] > 0
    BY InsideCounted
  <2>7. \A d \in Clients : d # c => pc'[d] = pc[d]
    BY <2>4 DEF Inv, TypeOK
  <2>8. pc'[c] = "loading"
    BY <2>4 DEF Inv, TypeOK
  <2> HIDE DEF r
  <2>9. \A d \in Clients : FirstCaller(d)' <=> FirstCaller(d)
    BY <1>1, <2>7, <2>8 DEF FirstCaller
  <2>10. \A d \in Clients : Holding(d)' <=> Holding(d)
    BY <1>1, <1>3, <2>7, <2>8 DEF Holding
  <2>a. TypeOK'
    BY <1>3, <1>4, <2>1, <2>3, <2>4, <2>5 DEF Inv, TypeOK, WellFormed, Locations
  <2>b. InsideHasTarget'
    BY <1>1, <1>3, <2>7, <2>8, NoneAssumption DEF Inv, InsideHasTarget, r
  <2>c. SleepersWait'
    BY <1>1, <2>1, <2>7, <2>8 DEF Inv, TypeOK, SleepersWait
  <2>d. OneFirstCaller'
    BY <1>3, <2>9 DEF Inv, OneFirstCaller
  <2>e. LoadingHasOwner'
    <3> SUFFICES ASSUME NEW q \in Resources
                 PROVE  state'[q] = "LOADING" <=> \E d \in Clients : FirstCaller(d) /\ target[d] = q
      BY <1>3, <2>9 DEF LoadingHasOwner
    <3>1. CASE q = r
      BY <1>1, <2>3, <3>1 DEF FirstCaller, r
    <3>2. CASE q # r
      BY <2>3, <2>6, <3>2 DEF Inv, LoadingHasOwner
    <3> QED BY <3>1, <3>2
  <2>f. PlacesMatchStates'
    <3> SUFFICES ASSUME NEW q \in Resources
                 PROVE  q \in Placed' <=> \/ state'[q] = "LOADED"
                                         \/ \E d \in Clients : Owner(d)' /\ target[d] = q
      BY <1>3 DEF PlacesMatchStates
    <3>1. CASE q = r
      BY <1>1, <2>3, <2>8, <3>1 DEF Owner, r
    <3>2. CASE q # r
      <4>1. \A d \in Clients : target[d] = q => (Owner(d)' <=> Owner(d))
        BY <2>7, <3>2 DEF Owner, r
      <4> QED BY <2>3, <2>6, <3>2, <4>1 DEF Inv, PlacesMatchStates
    <3> QED BY <3>1, <3>2
  <2>g. PlacesBounded'
    BY <2>3 DEF PlacesBounded
  <2>h. HoldersLoaded'
    <3> SUFFICES ASSUME NEW d \in Clients, Holding(d) PROVE state'[target[d]] = "LOADED"
      BY <1>3, <2>10 DEF HoldersLoaded
    <3>1. state[target[d]] = "LOADED" /\ target[d] \in Resources
      BY DEF Inv, HoldersLoaded, TypeOK, Holding
    <3> QED BY <1>2, <2>3, <2>6, <3>1
  <2>i. MemoryFollows'
    <3>1. \A q \in Resources : /\ state'[q] = "LOADED" => memory'[q] = "present"
                               /\ memory'[q] # "absent" => q \in Placed'
      BY <2>3 DEF Inv, MemoryFollows
    <3>2. ASSUME NEW d \in Clients, pc'[d] \in {"loaded", "failed"}
          PROVE  memory'[target[d]] = IF pc'[d] = "loaded" THEN "present" ELSE "absent"
      <4>1. d # c /\ pc[d] \in {"loaded", "failed"} /\ pc'[d] = pc[d]
        BY <2>7, <2>8, <3>2
      <4>2. /\ target[d] \in Resources
            /\ memory[target[d]] = IF pc[d] = "loaded" THEN "present" ELSE "absent"
        BY <4>1, InsideTarget DEF Inv, MemoryFollows
      <4>3. target[d] # r
        BY <1>1, <4>1 DEF Inv, OneFirstCaller, FirstCaller, r
      <4> QED BY <2>3, <2>6, <4>1, <4>2, <4>3
    <3> QED BY <1>3, <3>1, <3>2 DEF MemoryFollows
  <2>j. Accounting'
    BY <1>3, <2>3 DEF Inv, Accounting
  <2>k. QueueMatchesWaiters'
    <3>1. \A d \in Clients : pc'[d] = "turn" <=> pc[d] = "turn" /\ target[d] # r
      BY <1>1, <2>7, <2>8 DEF Inv, OneFirstCaller, FirstCaller, r
    <3> QED BY <1>3, <2>5, <3>1 DEF Inv, QueueMatchesWaiters, WellFormed
  <2> QED BY <2>5, <2>a, <2>b, <2>c, <2>d, <2>e, <2>f, <2>g, <2>h, <2>i, <2>j, <2>k DEF Inv
<1>6. CASE ~MyTurn(r, queuedResources)
  <2>1. /\ asleep' = asleep \cup {c}
        /\ UNCHANGED <<usedCount, state, loadedResources, usedResources,
                       queuedResources, pc, target, memory>>
    BY <1>6 DEF TakeTurn
  <2>2. SleepersWait' /\ TypeOK'
    BY <1>1, <2>1 DEF Inv, TypeOK, SleepersWait
  <2> QED BY <2>1, <2>2, OnlySleepersChange
<1> QED BY <1>5, <1>6

-----------------------------------------------------------------------------
(* What does not touch the queue leaves it well formed.                    *)
LEMMA QueueFrame ==
  ASSUME Inv, queuedResources' = queuedResources
  PROVE  /\ Elements(queuedResources)' = Elements(queuedResources)
         /\ Distinct(queuedResources)' /\ WellFormed(queuedResources)'
<1>1. Elements(queuedResources)' = Elements(queuedResources)
  BY DEF Elements
<1>2. Distinct(queuedResources)' = Distinct(queuedResources)
  BY DEF Distinct
<1> QED BY <1>1, <1>2 DEF Inv, QueueMatchesWaiters, WellFormed

(* What does not touch the list of places leaves it well formed.           *)
LEMMA PlacesFrame ==
  ASSUME Inv, loadedResources' = loadedResources
  PROVE  Placed' = Placed /\ PlacesBounded'
<1>1. Placed' = Placed
  BY DEF Placed, Elements
<1>2. WellFormed(loadedResources)' = WellFormed(loadedResources)
  BY DEF WellFormed, Elements, Distinct
<1> QED BY <1>1, <1>2 DEF Inv, PlacesBounded

(* Nor does the reordering of the list change what has a place.            *)
LEMMA TouchFrame ==
  ASSUME Inv, NEW r \in Resources, r \in Placed,
         loadedResources' = Touch(loadedResources, r)
  PROVE  Placed' = Placed /\ PlacesBounded'
<1>1. /\ WellFormed(loadedResources')
      /\ Elements(loadedResources') = Elements(loadedResources)
      /\ Len(loadedResources') = Len(loadedResources)
  BY TouchFacts DEF Inv, PlacesBounded, Placed
<1>2. Placed' = Placed
  BY <1>1 DEF Placed, Elements
<1>3. WellFormed(loadedResources)'
  BY <1>1 DEF WellFormed, Elements, Distinct
<1> QED BY <1>1, <1>2, <1>3 DEF Inv, PlacesBounded

(* A step of a client that neither is nor becomes the one that loads, and  *)
(* that leaves states, memory and queue alone, only has to keep the counts *)
(* and to hold nothing but a loaded resource.                              *)
LEMMA ClientStep ==
  ASSUME Inv, TypeOK', NEW c \in Clients,
         state' = state, memory' = memory, queuedResources' = queuedResources,
         Placed' = Placed, PlacesBounded',
         \A d \in Clients \ {c} : pc'[d] = pc[d] /\ target'[d] = target[d],
         ~FirstCaller(c), ~FirstCaller(c)',
         pc'[c] \in {"idle", "released"} => target'[c] = None,
         pc'[c] \notin {"idle", "released", "notifying"} => target'[c] # None,
         Holding(c)' => state[target'[c]] = "LOADED",
         SleepersWait', Accounting'
  PROVE  Inv'
<1>1. \A d \in Clients : FirstCaller(d)' <=> FirstCaller(d)
  BY DEF FirstCaller
<1>2. \A d \in Clients : FirstCaller(d) => target'[d] = target[d]
  OBVIOUS
<1>3. InsideHasTarget'
  BY DEF Inv, InsideHasTarget
<1>4. OneFirstCaller'
  BY <1>1, <1>2 DEF Inv, OneFirstCaller
<1>5. LoadingHasOwner'
  BY <1>1, <1>2 DEF Inv, LoadingHasOwner
<1>6. \A d \in Clients : Owner(d) => FirstCaller(d)
  BY DEF Owner, FirstCaller
<1>7. \A d \in Clients : Owner(d)' <=> Owner(d)
  <2>1. ~Owner(c) /\ ~Owner(c)'
    BY DEF Owner, FirstCaller
  <2> QED BY <2>1 DEF Owner
<1>8. PlacesMatchStates'
  BY <1>2, <1>6, <1>7 DEF Inv, PlacesMatchStates
<1>9. HoldersLoaded'
  BY DEF Inv, HoldersLoaded, Holding
<1>10. MemoryFollows'
  <2>1. \A d \in Clients : pc'[d] \in {"loaded", "failed"} =>
                              pc[d] = pc'[d] /\ target'[d] = target[d]
    BY DEF FirstCaller
  <2> QED BY <2>1 DEF Inv, MemoryFollows
<1>11. QueueMatchesWaiters' /\ WellFormed(queuedResources)'
  <2>1. \A d \in Clients : /\ pc'[d] = "turn" <=> pc[d] = "turn"
                           /\ pc[d] = "turn" => target'[d] = target[d]
    BY DEF FirstCaller
  <2> QED BY <2>1, QueueFrame DEF Inv, QueueMatchesWaiters
<1> QED BY <1>3, <1>4, <1>5, <1>8, <1>9, <1>10, <1>11 DEF Inv

(* Counts when client c comes to resource r...                             *)
LEMMA Comes ==
  ASSUME Inv, NEW c \in Clients, NEW r \in Resources, target[c] = None,
         usedCount' = [usedCount EXCEPT ![r] = @ + 1],
         target' = [target EXCEPT ![c] = r]
  PROVE  /\ \A q \in Resources : usedCount'[q] = Cardinality({d \in Clients : target'[d] = q})
         /\ usedCount' \in [Resources -> Nat] /\ usedCount'[r] > 0
         /\ target' \in [Clients -> Resources \cup {None}]
         /\ target'[c] = r
         /\ \A q \in Resources \ {r} : usedCount'[q] = usedCount[q]
<1>1. /\ target \in [Clients -> Resources \cup {None}]
      /\ usedCount \in [Resources -> Nat]
      /\ \A q \in Resources : usedCount[q] = Cardinality(Users(target, q))
  BY DEF Inv, TypeOK, Accounting, Users
<1>2. \A q \in Resources :
        Cardinality(Users(target', q)) =
          IF q = r THEN Cardinality(Users(target, q)) + 1 ELSE Cardinality(Users(target, q))
  BY <1>1, UserComes
<1>3. \A q \in Resources : Users(target', q) = {d \in Clients : target'[d] = q}
  BY DEF Users
<1>4. \A q \in Resources : usedCount'[q] = Cardinality(Users(target', q))
  BY <1>1, <1>2
<1>5. \A q \in Resources : usedCount'[q] = Cardinality({d \in Clients : target'[d] = q})
  BY <1>3, <1>4
<1>6. /\ usedCount' \in [Resources -> Nat] /\ usedCount'[r] > 0
      /\ \A q \in Resources \ {r} : usedCount'[q] = usedCount[q]
  BY <1>1
<1>7. target' \in [Clients -> Resources \cup {None}] /\ target'[c] = r
  BY <1>1
<1> QED BY <1>5, <1>6, <1>7

(* ... and when it leaves the one it had.                                  *)
LEMMA Leaves ==
  ASSUME Inv, NEW c \in Clients, target[c] \in Resources,
         usedCount' = [usedCount EXCEPT ![target[c]] = @ - 1],
         target' = [target EXCEPT ![c] = None]
  PROVE  /\ \A q \in Resources : usedCount'[q] = Cardinality({d \in Clients : target'[d] = q})
         /\ usedCount' \in [Resources -> Nat] /\ usedCount[target[c]] > 0
         /\ target' \in [Clients -> Resources \cup {None}]
         /\ target'[c] = None
         /\ \A q \in Resources \ {target[c]} : usedCount'[q] = usedCount[q]
         /\ usedCount'[target[c]] = usedCount[target[c]] - 1
<1>1. /\ target \in [Clients -> Resources \cup {None}]
      /\ usedCount \in [Resources -> Nat]
      /\ \A q \in Resources : usedCount[q] = Cardinality(Users(target, q))
  BY DEF Inv, TypeOK, Accounting, Users
<1>2. /\ \A q \in Resources :
           Cardinality(Users(target', q)) =
             IF q = target[c] THEN Cardinality(Users(target, q)) - 1
                              ELSE Cardinality(Users(target, q))
      /\ Cardinality(Users(target, target[c])) > 0
  BY <1>1, UserLeaves
<1>3. \A q \in Resources : Users(target', q) = {d \in Clients : target'[d] = q}
  BY DEF Users
<1>4. \A q \in Resources : usedCount'[q] = Cardinality(Users(target', q))
  BY <1>1, <1>2
<1>5. \A q \in Resources : usedCount'[q] = Cardinality({d \in Clients : target'[d] = q})
  BY <1>3, <1>4
<1>6. usedCount[target[c]] > 0
  BY <1>1, <1>2
<1>7. /\ usedCount' \in [Resources -> Nat]
      /\ \A q \in Resources \ {target[c]} : usedCount'[q] = usedCount[q]
      /\ usedCount'[target[c]] = usedCount[target[c]] - 1
  BY <1>1, <1>6
<1>8. target' \in [Clients -> Resources \cup {None}] /\ target'[c] = None
  BY <1>1
<1> QED BY <1>5, <1>6, <1>7, <1>8

(* The number of resources in use when the set of places stays.            *)
LEMMA UsedFrame ==
  ASSUME Inv, Placed' = Placed, \A r \in Resources : usedCount'[r] > 0 <=> usedCount[r] > 0
  PROVE  Used' = Used
<1>1. Placed \subseteq Resources
  BY ElementOfSeq DEF Inv, TypeOK, Placed, Elements
<1> QED BY <1>1 DEF Used

(* LoadHit: a loaded resource gets its first user.                         *)
LEMMA LoadHitInv ==
  ASSUME Inv, NEW c \in Clients, NEW r \in Resources, LoadHit(c, r)
  PROVE  Inv'
<1>1. /\ pc[c] = "idle" /\ usedCount[r] = 0 /\ state[r] = "LOADED" /\ target[c] = None
      /\ usedCount' = [usedCount EXCEPT ![r] = @ + 1]
      /\ loadedResources' = Touch(loadedResources, r)
      /\ usedResources' = usedResources + 1
      /\ target' = [target EXCEPT ![c] = r]
      /\ pc' = [pc EXCEPT ![c] = "using"]
      /\ UNCHANGED <<state, queuedResources, asleep, memory>>
  BY DEF LoadHit, Goto, Inv, InsideHasTarget
<1>2. r \in Placed
  BY <1>1 DEF Inv, PlacesMatchStates
<1>3. Placed' = Placed /\ PlacesBounded'
  BY <1>1, <1>2, TouchFrame
<1>4. /\ \A q \in Resources : usedCount'[q] = Cardinality({d \in Clients : target'[d] = q})
      /\ usedCount' \in [Resources -> Nat] /\ usedCount'[r] > 0
      /\ target' \in [Clients -> Resources \cup {None}]
      /\ target'[c] = r
      /\ \A q \in Resources \ {r} : usedCount'[q] = usedCount[q]
  BY <1>1, Comes
<1>5. Accounting' /\ usedResources' \in Nat
  <2>1. Placed \subseteq Resources
    BY ElementOfSeq DEF Inv, TypeOK, Placed, Elements
  <2>2. Used' = Used \cup {r} /\ r \notin Used
    BY <1>1, <1>2, <1>3, <1>4, <2>1 DEF Used
  <2>3. Cardinality(Used \cup {r}) = Cardinality(Used) + 1
    BY <2>2, UsedFinite, FS_AddElement
  <2>4. usedResources = Cardinality(Used) /\ usedResources \in Nat
    BY DEF Inv, Accounting, TypeOK
  <2> QED BY <1>1, <1>4, <2>2, <2>3, <2>4 DEF Accounting
<1>6. /\ pc' \in [Clients -> Locations] /\ pc'[c] = "using"
      /\ \A d \in Clients \ {c} : pc'[d] = pc[d] /\ target'[d] = target[d]
  BY <1>1 DEF Inv, TypeOK, Locations
<1>7. TypeOK'
  BY <1>1, <1>3, <1>4, <1>5, <1>6 DEF Inv, TypeOK, PlacesBounded, WellFormed
<1>8. SleepersWait'
  BY <1>1, <1>6 DEF Inv, TypeOK, SleepersWait
<1>9. ~FirstCaller(c) /\ ~FirstCaller(c)'
  BY <1>1, <1>6 DEF FirstCaller
<1>10. target'[c] # None
  BY <1>4, NoneAssumption
<1> QED BY <1>1, <1>3, <1>4, <1>5, <1>6, <1>7, <1>8, <1>9, <1>10, ClientStep

(* LoadShared: one more user of a resource that is loading or loaded.      *)
LEMMA LoadSharedInv ==
  ASSUME Inv, NEW c \in Clients, NEW r \in Resources, LoadShared(c, r)
  PROVE  Inv'
<1>1. /\ pc[c] = "idle" /\ usedCount[r] > 0 /\ target[c] = None
      /\ UNCHANGED <<state, usedResources, queuedResources, memory>>
  BY DEF LoadShared, Inv, InsideHasTarget
<1>2. ~FirstCaller(c)
  BY <1>1 DEF FirstCaller
<1>3. ASSUME usedCount' = [usedCount EXCEPT ![r] = @ + 1],
             target' = [target EXCEPT ![c] = r],
             Placed' = Placed, PlacesBounded',
             \/ state[r] = "LOADING" /\ asleep' = asleep \cup {c}
                /\ pc' = [pc EXCEPT ![c] = "sharing"]
             \/ state[r] = "LOADED" /\ asleep' = asleep
                /\ pc' = [pc EXCEPT ![c] = "using"]
      PROVE  Inv'
  <2>1. /\ \A q \in Resources : usedCount'[q] = Cardinality({d \in Clients : target'[d] = q})
        /\ usedCount' \in [Resources -> Nat] /\ usedCount'[r] > 0
        /\ target' \in [Clients -> Resources \cup {None}]
        /\ target'[c] = r
        /\ \A q \in Resources \ {r} : usedCount'[q] = usedCount[q]
    BY <1>1, <1>3, Comes
  <2>2. Used' = Used
    BY <1>1, <1>3, <2>1, UsedFrame
  <2>3. Accounting'
    BY <1>1, <2>1, <2>2 DEF Inv, Accounting
  <2>4. /\ pc' \in [Clients -> Locations] /\ pc'[c] \in {"sharing", "using"}
        /\ \A d \in Clients \ {c} : pc'[d] = pc[d] /\ target'[d] = target[d]
    BY <1>3 DEF Inv, TypeOK, Locations
  <2>5. TypeOK'
    BY <1>1, <1>3, <2>1, <2>4 DEF Inv, TypeOK, PlacesBounded, WellFormed
  <2>6. SleepersWait'
    <3>1. CASE asleep' = asleep \cup {c} /\ pc' = [pc EXCEPT ![c] = "sharing"]
      BY <1>1, <3>1 DEF Inv, TypeOK, SleepersWait
    <3>2. CASE asleep' = asleep
      BY <1>1, <2>4, <3>2 DEF Inv, TypeOK, SleepersWait
    <3> QED BY <1>3, <3>1, <3>2
  <2>7. ~FirstCaller(c)'
    BY <2>4 DEF FirstCaller
  <2>8. target'[c] # None
    BY <2>1, NoneAssumption
  <2>9. Holding(c)' => state[target'[c]] = "LOADED"
    BY <1>3, <2>1 DEF Holding, Inv, TypeOK
  <2>10. pc'[c] \notin {"idle", "released"}
    BY <2>4
  <2> QED BY <1>1, <1>2, <1>3, <2>3, <2>4, <2>5, <2>6, <2>7, <2>8, <2>9, <2>10, ClientStep
<1>4. CASE state[r] = "LOADING"
  BY <1>3, <1>4, PlacesFrame DEF LoadShared, Goto
<1>5. CASE state[r] = "LOADED"
  <2>1. r \in Placed
    BY <1>5 DEF Inv, PlacesMatchStates
  <2> QED BY <1>3, <1>5, <2>1, TouchFrame DEF LoadShared, Goto
<1>6. CASE state[r] = "NOT_LOADED"
  <2>1. UNCHANGED <<usedCount, state, loadedResources, usedResources,
                    queuedResources, pc, target, memory>> /\ asleep' = asleep
    BY <1>6 DEF LoadShared
  <2>2. SleepersWait' /\ TypeOK'
    BY <2>1 DEF Inv, TypeOK, SleepersWait
  <2> QED BY <2>1, <2>2, OnlySleepersChange
<1> QED BY <1>4, <1>5, <1>6 DEF Inv, TypeOK

(* ShareAwake: a later user finds the load running, done or failed.        *)
LEMMA ShareAwakeInv ==
  ASSUME Inv, NEW c \in Clients, ShareAwake(c)
  PROVE  Inv'
<1> DEFINE r == target[c]
<1>1. /\ r \in Resources /\ pc[c] = "sharing" /\ c \notin asleep
      /\ UNCHANGED <<state, usedResources, queuedResources, memory>>
  BY InsideTarget DEF ShareAwake
<1>2. ~FirstCaller(c) /\ usedCount[r] > 0
  BY <1>1, InsideCounted DEF FirstCaller
<1> HIDE DEF r
<1>3. CASE state[r] = "LOADING"
  <2>1. UNCHANGED <<usedCount, state, loadedResources, usedResources,
                    queuedResources, pc, target, memory>> /\ asleep' = asleep \cup {c}
    BY <1>3 DEF ShareAwake, r
  <2>2. SleepersWait' /\ TypeOK'
    BY <1>1, <2>1 DEF Inv, TypeOK, SleepersWait
  <2> QED BY <2>1, <2>2, OnlySleepersChange
<1>4. CASE state[r] = "LOADED"
  <2>1. /\ loadedResources' = Touch(loadedResources, r)
        /\ pc' = [pc EXCEPT ![c] = "using"]
        /\ UNCHANGED <<usedCount, target, asleep>>
    BY <1>4 DEF ShareAwake, Goto, r
  <2>2. r \in Placed
    BY <1>1, <1>4 DEF Inv, PlacesMatchStates
  <2>3. Placed' = Placed /\ PlacesBounded'
    BY <1>1, <2>1, <2>2, TouchFrame
  <2>4. Used' = Used
    BY <2>1, <2>3, UsedFrame
  <2>5. Accounting'
    BY <1>1, <2>1, <2>4 DEF Inv, Accounting
  <2>6. /\ pc' \in [Clients -> Locations] /\ pc'[c] = "using"
        /\ \A d \in Clients \ {c} : pc'[d] = pc[d] /\ target'[d] = target[d]
    BY <2>1 DEF Inv, TypeOK, Locations
  <2>7. TypeOK'
    BY <1>1, <2>1, <2>3, <2>6 DEF Inv, TypeOK, PlacesBounded, WellFormed
  <2>8. SleepersWait'
    BY <1>1, <2>1, <2>6 DEF Inv, TypeOK, SleepersWait
  <2>9. ~FirstCaller(c)'
    BY <2>6 DEF FirstCaller
  <2>10. target'[c] = r /\ r # None
    BY <1>1, <2>1, NoneAssumption DEF r
  <2> QED BY <1>1, <1>2, <1>4, <2>3, <2>5, <2>6, <2>7, <2>8, <2>9, <2>10, ClientStep
<1>5. CASE state[r] = "NOT_LOADED"
  <2>1. /\ usedCount' = [usedCount EXCEPT ![target[c]] = @ - 1]
        /\ target' = [target EXCEPT ![c] = None]
        /\ pc' = [pc EXCEPT ![c] = "idle"]
        /\ UNCHANGED <<asleep, loadedResources>>
    BY <1>5 DEF ShareAwake, Goto, r
  <2>2. /\ \A q \in Resources : usedCount'[q] = Cardinality({d \in Clients : target'[d] = q})
        /\ usedCount' \in [Resources -> Nat]
        /\ target' \in [Clients -> Resources \cup {None}]
        /\ target'[c] = None
        /\ \A q \in Resources \ {r} : usedCount'[q] = usedCount[q]
    BY <1>1, <2>1, Leaves DEF r
  <2>3. Placed' = Placed /\ PlacesBounded'
    BY <2>1, PlacesFrame
  <2>4. r \notin Placed
    <3>1. ~\E d \in Clients : FirstCaller(d) /\ target[d] = r
      BY <1>1, <1>5 DEF Inv, LoadingHasOwner
    <3> QED BY <1>1, <1>5, <3>1 DEF Inv, PlacesMatchStates, Owner, FirstCaller
  <2>5. Used' = Used
    <3>1. Placed \subseteq Resources
      BY ElementOfSeq DEF Inv, TypeOK, Placed, Elements
    <3> QED BY <2>2, <2>3, <2>4, <3>1 DEF Used
  <2>6. Accounting'
    BY <1>1, <2>2, <2>5 DEF Inv, Accounting
  <2>7. /\ pc' \in [Clients -> Locations] /\ pc'[c] = "idle"
        /\ \A d \in Clients \ {c} : pc'[d] = pc[d] /\ target'[d] = target[d]
    BY <2>1 DEF Inv, TypeOK, Locations
  <2>8. TypeOK'
    BY <1>1, <2>1, <2>2, <2>7 DEF Inv, TypeOK
  <2>9. SleepersWait'
    BY <1>1, <2>1, <2>7 DEF Inv, TypeOK, SleepersWait
  <2>10. ~FirstCaller(c)' /\ ~Holding(c)'
    BY <2>2, <2>7 DEF FirstCaller, Holding
  <2> QED BY <1>1, <1>2, <2>2, <2>3, <2>6, <2>7, <2>8, <2>9, <2>10, ClientStep
<1> QED BY <1>1, <1>3, <1>4, <1>5 DEF Inv, TypeOK

(* Release: the last user also gives its place in used_resources up.       *)
LEMMA ReleaseInv ==
  ASSUME Inv, NEW c \in Clients, Release(c)
  PROVE  Inv'
<1> DEFINE r == target[c]
<1>1. /\ r \in Resources /\ r # None /\ pc[c] = "using"
      /\ usedCount' = [usedCount EXCEPT ![target[c]] = @ - 1]
      /\ target' = [target EXCEPT ![c] = None]
      /\ usedResources' = IF LastUser(r) THEN usedResources - 1 ELSE usedResources
      /\ pc' = [pc EXCEPT ![c] = IF LastUser(r) /\ WasFull THEN "released" ELSE "idle"]
      /\ UNCHANGED <<state, loadedResources, queuedResources, asleep, memory>>
  BY InsideTarget, NoneAssumption DEF Release, Goto
<1>2. /\ \A q \in Resources : usedCount'[q] = Cardinality({d \in Clients : target'[d] = q})
      /\ usedCount' \in [Resources -> Nat] /\ usedCount[r] > 0
      /\ target' \in [Clients -> Resources \cup {None}]
      /\ target'[c] = None
      /\ \A q \in Resources \ {r} : usedCount'[q] = usedCount[q]
      /\ usedCount'[r] = usedCount[r] - 1
  BY <1>1, Leaves
<1>3. ~FirstCaller(c) /\ Holding(c)
  BY <1>1 DEF FirstCaller, Holding
<1>4. r \in Placed
  BY <1>1, <1>3 DEF Inv, HoldersLoaded, PlacesMatchStates
<1> HIDE DEF r
<1>5. Placed' = Placed /\ PlacesBounded'
  BY <1>1, PlacesFrame
<1>6. Placed \subseteq Resources /\ usedCount[r] \in Nat
  <2>1. Placed \subseteq Resources
    BY ElementOfSeq DEF Inv, TypeOK, Placed, Elements
  <2> QED BY <1>1, <2>1 DEF Inv, TypeOK
<1>7. usedResources = Cardinality(Used) /\ r \in Used
  BY <1>2, <1>4 DEF Inv, Accounting, Used
<1>8. Accounting' /\ usedResources' \in Nat
  <2>1. CASE LastUser(r)
    <3>1. Used' = Used \ {r}
      BY <1>2, <1>5, <1>6, <2>1 DEF Used, LastUser
    <3>2. Cardinality(Used \ {r}) = Cardinality(Used) - 1
      BY <1>7, UsedFinite, FS_RemoveElement
    <3>3. Cardinality(Used \ {r}) \in Nat
      BY UsedFinite, FS_RemoveElement, FS_CardinalityType
    <3>4. usedResources' = usedResources - 1
      BY <1>1, <2>1
    <3> QED BY <1>2, <1>7, <3>1, <3>2, <3>3, <3>4 DEF Accounting
  <2>2. CASE ~LastUser(r)
    <3>1. usedCount'[r] > 0
      BY <1>2, <1>6, <2>2 DEF LastUser
    <3>2. Used' = Used
      BY <1>2, <1>5, <1>6, <3>1 DEF Used
    <3>3. usedResources' = usedResources
      BY <1>1, <2>2
    <3> QED BY <1>2, <1>7, <3>2, <3>3, UsedFinite DEF Accounting
  <2> QED BY <2>1, <2>2
<1>9. /\ pc' \in [Clients -> Locations] /\ pc'[c] \in {"idle", "released"}
      /\ \A d \in Clients \ {c} : pc'[d] = pc[d] /\ target'[d] = target[d]
  BY <1>1 DEF Inv, TypeOK, Locations
<1>10. TypeOK'
  BY <1>1, <1>2, <1>8, <1>9 DEF Inv, TypeOK
<1>11. SleepersWait'
  BY <1>1, <1>9 DEF Inv, TypeOK, SleepersWait
<1>12. ~FirstCaller(c)' /\ ~Holding(c)'
  BY <1>2, <1>9 DEF FirstCaller, Holding
<1> QED BY <1>1, <1>2, <1>3, <1>5, <1>8, <1>9, <1>10, <1>11, <1>12, ClientStep

(* The two notifications and the spurious wake-ups.                        *)
LEMMA NotifyLoadedInv ==
  ASSUME Inv, NEW c \in Clients, NotifyLoaded(c)
  PROVE  Inv'
<1>1. /\ pc[c] = "notifying" /\ asleep' = {}
      /\ pc' = [pc EXCEPT ![c] = IF target[c] = None THEN "idle" ELSE "using"]
      /\ UNCHANGED <<usedCount, state, loadedResources, usedResources,
                     queuedResources, target, memory>>
  BY DEF NotifyLoaded, Goto, shared
<1>2. Placed' = Placed /\ PlacesBounded'
  BY <1>1, PlacesFrame
<1>3. Used' = Used
  BY <1>1, <1>2, UsedFrame
<1>4. Accounting'
  BY <1>1, <1>3 DEF Inv, Accounting
<1>5. /\ pc' \in [Clients -> Locations]
      /\ pc'[c] = IF target[c] = None THEN "idle" ELSE "using"
      /\ \A d \in Clients \ {c} : pc'[d] = pc[d] /\ target'[d] = target[d]
  BY <1>1 DEF Inv, TypeOK, Locations
<1>6. TypeOK' /\ SleepersWait'
  BY <1>1, <1>5 DEF Inv, TypeOK, SleepersWait
<1>7. ~FirstCaller(c) /\ ~FirstCaller(c)'
  BY <1>1, <1>5 DEF FirstCaller
<1>8. Holding(c)' => state[target'[c]] = "LOADED"
  BY <1>1 DEF Inv, HoldersLoaded, Holding
<1> QED BY <1>1, <1>2, <1>4, <1>5, <1>6, <1>7, <1>8, ClientStep

(* notify_all() of a release.                                              *)
LEMMA NotifyReleasedInv ==
  ASSUME Inv, NEW c \in Clients, NotifyReleased(c)
  PROVE  Inv'
<1>1. /\ pc[c] = "released" /\ asleep' = {} /\ target[c] = None
      /\ pc' = [pc EXCEPT ![c] = "idle"]
      /\ UNCHANGED <<usedCount, state, loadedResources, usedResources,
                     queuedResources, target, memory>>
  BY DEF NotifyReleased, Goto, shared, Inv, InsideHasTarget
<1>2. Placed' = Placed /\ PlacesBounded'
  BY <1>1, PlacesFrame
<1>3. Used' = Used
  BY <1>1, <1>2, UsedFrame
<1>4. Accounting'
  BY <1>1, <1>3 DEF Inv, Accounting
<1>5. /\ pc' \in [Clients -> Locations] /\ pc'[c] = "idle"
      /\ \A d \in Clients \ {c} : pc'[d] = pc[d] /\ target'[d] = target[d]
  BY <1>1 DEF Inv, TypeOK, Locations
<1>6. TypeOK' /\ SleepersWait'
  BY <1>1, <1>5 DEF Inv, TypeOK, SleepersWait
<1>7. ~FirstCaller(c) /\ ~FirstCaller(c)' /\ ~Holding(c)'
  BY <1>1, <1>5 DEF FirstCaller, Holding
<1> QED BY <1>1, <1>2, <1>4, <1>5, <1>6, <1>7, ClientStep

(* A wait that returns by itself.                                          *)
LEMMA SpuriousWakeInv ==
  ASSUME Inv, NEW c \in Clients, SpuriousWake(c)
  PROVE  Inv'
<1>1. /\ asleep' = asleep \ {c}
      /\ UNCHANGED <<usedCount, state, loadedResources, usedResources,
                     queuedResources, pc, target, memory>>
  BY DEF SpuriousWake, shared
<1>2. SleepersWait' /\ TypeOK'
  BY <1>1 DEF Inv, TypeOK, SleepersWait
<1> QED BY <1>1, <1>2, OnlySleepersChange

-----------------------------------------------------------------------------
(* The client that loads r is its only first caller: whoever else keeps    *)
(* the count of r raised is waiting for the load to end.                   *)
LEMMA OwnerAlone ==
  ASSUME Inv, NEW c \in Clients, Owner(c)
  PROVE  /\ target[c] \in Resources /\ target[c] # None
         /\ state[target[c]] = "LOADING" /\ target[c] \in Placed
         /\ \A d \in Clients \ {c} : FirstCaller(d) => target[d] # target[c]
         /\ \A d \in Clients : Holding(d) => target[d] # target[c]
<1>1. target[c] \in Resources /\ FirstCaller(c)
  BY InsideTarget DEF Owner, FirstCaller
<1>2. state[target[c]] = "LOADING" /\ target[c] \in Placed
  BY <1>1 DEF Inv, LoadingHasOwner, PlacesMatchStates
<1> QED BY <1>1, <1>2, NoneAssumption DEF Inv, OneFirstCaller, HoldersLoaded

(* LoadReturns: the object is there or is not.                             *)
LEMMA LoadReturnsInv ==
  ASSUME Inv, NEW c \in Clients, LoadReturns(c)
  PROVE  Inv'
<1> DEFINE r == target[c]
<1>1. Owner(c) /\ pc[c] = "loading"
  BY DEF LoadReturns, Owner
<1>2. /\ r \in Resources /\ r # None /\ state[r] = "LOADING" /\ r \in Placed
      /\ \A d \in Clients \ {c} : FirstCaller(d) => target[d] # r
  BY <1>1, OwnerAlone
<1>3. UNCHANGED <<usedCount, state, loadedResources, usedResources,
                  queuedResources, target, asleep>>
  BY DEF LoadReturns, shared
<1>4. PICK m \in {"absent", "present"}, l \in {"loaded", "failed"} :
        /\ memory' = [memory EXCEPT ![r] = m] /\ pc' = [pc EXCEPT ![c] = l]
        /\ m = IF l = "loaded" THEN "present" ELSE "absent"
  BY DEF LoadReturns, Goto
<1>5. /\ pc' \in [Clients -> Locations] /\ pc'[c] = l
      /\ \A d \in Clients \ {c} : pc'[d] = pc[d]
  BY <1>4 DEF Inv, TypeOK, Locations
<1>6. /\ memory' \in [Resources -> {"absent", "coming", "present"}]
      /\ memory'[r] = m /\ \A q \in Resources \ {r} : memory'[q] = memory[q]
  BY <1>2, <1>4 DEF Inv, TypeOK
<1>7. \A d \in Clients : /\ FirstCaller(d)' <=> FirstCaller(d)
                         /\ Owner(d)' <=> Owner(d)
                         /\ Holding(d)' <=> Holding(d)
                         /\ pc'[d] = "turn" <=> pc[d] = "turn"
                         /\ d \in asleep => d # c
  BY <1>1, <1>3, <1>5 DEF FirstCaller, Owner, Holding, Inv, SleepersWait
<1> HIDE DEF r
<1>8. Placed' = Placed /\ PlacesBounded'
  BY <1>3, PlacesFrame
<1>9. TypeOK' /\ SleepersWait'
  BY <1>3, <1>5, <1>6, <1>7 DEF Inv, TypeOK, SleepersWait
<1>10. InsideHasTarget'
  BY <1>1, <1>3, <1>4, <1>5 DEF Inv, InsideHasTarget
<1>11. OneFirstCaller' /\ LoadingHasOwner'
  BY <1>3, <1>7 DEF Inv, OneFirstCaller, LoadingHasOwner
<1>12. PlacesMatchStates' /\ HoldersLoaded'
  BY <1>3, <1>7, <1>8 DEF Inv, PlacesMatchStates, HoldersLoaded
<1>13. MemoryFollows'
  <2>1. \A q \in Resources : /\ state'[q] = "LOADED" => memory'[q] = "present"
                             /\ memory'[q] # "absent" => q \in Placed'
    BY <1>2, <1>3, <1>6, <1>8 DEF Inv, MemoryFollows
  <2>2. ASSUME NEW d \in Clients, pc'[d] \in {"loaded", "failed"}
        PROVE  memory'[target[d]] = IF pc'[d] = "loaded" THEN "present" ELSE "absent"
    <3>1. CASE d = c
      BY <1>4, <1>5, <1>6, <2>2, <3>1 DEF r
    <3>2. CASE d # c
      <4>1. /\ pc'[d] = pc[d] /\ FirstCaller(d) /\ target[d] \in Resources
            /\ memory[target[d]] = IF pc[d] = "loaded" THEN "present" ELSE "absent"
        BY <1>5, <2>2, <3>2, InsideTarget DEF Inv, MemoryFollows, FirstCaller
      <4>2. target[d] # r
        BY <1>2, <3>2, <4>1
      <4> QED BY <1>6, <4>1, <4>2
    <3> QED BY <3>1, <3>2
  <2> QED BY <1>3, <2>1, <2>2 DEF MemoryFollows
<1>14. Accounting'
  <2>1. Used' = Used
    BY <1>3, <1>8, UsedFrame
  <2> QED BY <1>3, <2>1 DEF Inv, Accounting
<1>15. QueueMatchesWaiters' /\ WellFormed(queuedResources)'
  BY <1>3, <1>7, QueueFrame DEF Inv, QueueMatchesWaiters
<1> QED BY <1>8, <1>9, <1>10, <1>11, <1>12, <1>13, <1>14, <1>15 DEF Inv

(* FinishLoad after a success: the state follows the object.               *)
LEMMA LoadedInv ==
  ASSUME Inv, NEW c \in Clients, pc[c] = "loaded", FinishLoad(c)
  PROVE  Inv'
<1> DEFINE r == target[c]
<1>1. Owner(c)
  BY DEF Owner
<1>2. /\ r \in Resources /\ r # None /\ state[r] = "LOADING" /\ r \in Placed
      /\ \A d \in Clients \ {c} : FirstCaller(d) => target[d] # r
  BY <1>1, OwnerAlone
<1>3. /\ UNCHANGED <<usedCount, loadedResources, usedResources,
                     queuedResources, target, asleep, memory>>
      /\ state' = [state EXCEPT ![r] = "LOADED"]
      /\ pc' = [pc EXCEPT ![c] = "notifying"]
  BY DEF FinishLoad, Goto
<1>4. /\ pc' \in [Clients -> Locations] /\ pc'[c] = "notifying"
      /\ \A d \in Clients \ {c} : pc'[d] = pc[d]
  BY <1>3 DEF Inv, TypeOK, Locations
<1>5. /\ state' \in [Resources -> {"NOT_LOADED", "LOADING", "LOADED"}]
      /\ state'[r] = "LOADED" /\ \A q \in Resources \ {r} : state'[q] = state[q]
  BY <1>2, <1>3 DEF Inv, TypeOK
<1>6. /\ \A d \in Clients : FirstCaller(d)' <=> FirstCaller(d) /\ target[d] # r
      /\ \A d \in Clients : Owner(d)' <=> Owner(d) /\ target[d] # r
      /\ \A d \in Clients : pc'[d] = "turn" <=> pc[d] = "turn"
      /\ \A d \in Clients : Holding(d)' <=> Holding(d) \/ d = c
      /\ \A d \in asleep : d # c
  BY <1>1, <1>2, <1>3, <1>4 DEF FirstCaller, Owner, Holding, Inv, SleepersWait
<1>7. memory[r] = "present"
  BY DEF Inv, MemoryFollows
<1>8. Placed' = Placed /\ PlacesBounded'
  BY <1>3, PlacesFrame
<1>9. Accounting'
  <2>1. Used' = Used
    BY <1>3, <1>8, UsedFrame
  <2> QED BY <1>3, <2>1 DEF Inv, Accounting
<1>10. TypeOK' /\ SleepersWait'
  BY <1>3, <1>4, <1>5, <1>6 DEF Inv, TypeOK, SleepersWait
<1>11. InsideHasTarget'
  BY <1>3, <1>4 DEF Inv, InsideHasTarget
<1>12. HoldersLoaded'
  BY <1>3, <1>5, <1>6 DEF Inv, HoldersLoaded, Holding, TypeOK
<1> HIDE DEF r
<1>13. OneFirstCaller'
  BY <1>3, <1>6 DEF Inv, OneFirstCaller
<1>14. LoadingHasOwner'
  BY <1>2, <1>3, <1>5, <1>6 DEF Inv, LoadingHasOwner
<1>15. PlacesMatchStates'
  BY <1>2, <1>3, <1>5, <1>6, <1>8 DEF Inv, PlacesMatchStates
<1>16. MemoryFollows'
  <2>1. \A d \in Clients : pc'[d] \in {"loaded", "failed"} => pc'[d] = pc[d]
    BY <1>4
  <2> QED BY <1>2, <1>3, <1>5, <1>7, <1>8, <2>1 DEF Inv, MemoryFollows
<1>17. QueueMatchesWaiters' /\ WellFormed(queuedResources)'
  BY <1>3, <1>6, QueueFrame DEF Inv, QueueMatchesWaiters
<1> QED BY <1>8, <1>9, <1>10, <1>11, <1>12, <1>13, <1>14, <1>15, <1>16, <1>17 DEF Inv

(* FinishLoad after a failure: the place is given up and the client is out,*)
(* while those who waited for the same load are still counted.             *)
LEMMA FailedInv ==
  ASSUME Inv, NEW c \in Clients, pc[c] = "failed", FinishLoad(c)
  PROVE  Inv'
<1> DEFINE r == target[c]
<1>1. Owner(c)
  BY DEF Owner
<1>2. /\ r \in Resources /\ r # None /\ state[r] = "LOADING" /\ r \in Placed
      /\ \A d \in Clients \ {c} : FirstCaller(d) => target[d] # r
      /\ \A d \in Clients : Holding(d) => target[d] # r
  BY <1>1, OwnerAlone
<1>3. /\ UNCHANGED <<queuedResources, asleep, memory>>
      /\ state' = [state EXCEPT ![r] = "NOT_LOADED"]
      /\ usedCount' = [usedCount EXCEPT ![target[c]] = @ - 1]
      /\ usedResources' = usedResources - 1
      /\ loadedResources' = Without(loadedResources, r)
      /\ target' = [target EXCEPT ![c] = None]
      /\ pc' = [pc EXCEPT ![c] = "notifying"]
  BY DEF FinishLoad, Goto
<1>4. /\ pc' \in [Clients -> Locations] /\ pc'[c] = "notifying"
      /\ \A d \in Clients \ {c} : pc'[d] = pc[d] /\ target'[d] = target[d]
  BY <1>3 DEF Inv, TypeOK, Locations
<1>5. /\ state' \in [Resources -> {"NOT_LOADED", "LOADING", "LOADED"}]
      /\ state'[r] = "NOT_LOADED" /\ \A q \in Resources \ {r} : state'[q] = state[q]
  BY <1>2, <1>3 DEF Inv, TypeOK
<1>6. /\ \A q \in Resources : usedCount'[q] = Cardinality({d \in Clients : target'[d] = q})
      /\ usedCount' \in [Resources -> Nat] /\ usedCount[r] > 0
      /\ target' \in [Clients -> Resources \cup {None}]
      /\ target'[c] = None
      /\ \A q \in Resources \ {r} : usedCount'[q] = usedCount[q]
  BY <1>2, <1>3, Leaves
<1>7. memory[r] = "absent"
  BY DEF Inv, MemoryFollows
<1>8. /\ \A d \in Clients : FirstCaller(d)' <=> FirstCaller(d) /\ d # c
      /\ \A d \in Clients : Owner(d)' <=> Owner(d) /\ d # c
      /\ \A d \in Clients : pc'[d] = "turn" <=> pc[d] = "turn"
      /\ \A d \in Clients : Holding(d)' => Holding(d) /\ d # c
      /\ \A d \in asleep : d # c
  BY <1>3, <1>4, <1>6 DEF FirstCaller, Owner, Holding, Inv, SleepersWait
<1>9. /\ WellFormed(loadedResources') /\ Elements(loadedResources') = Placed \ {r}
      /\ Len(loadedResources') = Len(loadedResources) - 1
  BY <1>2, <1>3, WithoutFacts DEF Inv, PlacesBounded, Placed
<1>10. /\ Placed' = Placed \ {r} /\ PlacesBounded' /\ loadedResources' \in Seq(Resources)
  <2>1. Placed' = Placed \ {r}
    BY <1>9 DEF Placed, Elements
  <2>2. WellFormed(loadedResources)'
    BY <1>9 DEF WellFormed, Elements, Distinct
  <2>3. Len(loadedResources) \in Nat /\ Len(loadedResources) <= ConcurrentLimit
    BY LenProperties DEF Inv, PlacesBounded, WellFormed
  <2> QED BY <1>9, <2>1, <2>2, <2>3, LimitAssumption DEF PlacesBounded, WellFormed
<1> HIDE DEF r
<1>11. Accounting' /\ usedResources' \in Nat
  <2>1. Placed \subseteq Resources
    BY ElementOfSeq DEF Inv, TypeOK, Placed, Elements
  <2>2. Used' = Used \ {r} /\ r \in Used
    BY <1>2, <1>6, <1>10, <2>1 DEF Used
  <2>3. /\ Cardinality(Used \ {r}) = Cardinality(Used) - 1
        /\ Cardinality(Used \ {r}) \in Nat
    BY <2>2, UsedFinite, FS_RemoveElement, FS_CardinalityType
  <2>4. usedResources = Cardinality(Used)
    BY DEF Inv, Accounting
  <2> QED BY <1>3, <1>6, <2>2, <2>3, <2>4 DEF Accounting
<1>12. TypeOK' /\ SleepersWait'
  BY <1>3, <1>4, <1>5, <1>6, <1>8, <1>10, <1>11 DEF Inv, TypeOK, SleepersWait
<1>13. InsideHasTarget'
  BY <1>4 DEF Inv, InsideHasTarget
<1>14. HoldersLoaded'
  BY <1>2, <1>4, <1>5, <1>8 DEF Inv, HoldersLoaded, Holding, TypeOK
<1>15. OneFirstCaller'
  BY <1>4, <1>8 DEF Inv, OneFirstCaller
<1>16. LoadingHasOwner'
  <2>1. \A d \in Clients : FirstCaller(d)' => target'[d] # r /\ target'[d] = target[d]
    BY <1>2, <1>4, <1>8
  <2> QED BY <1>2, <1>4, <1>5, <1>8, <2>1 DEF Inv, LoadingHasOwner, r
<1>17. PlacesMatchStates'
  <2>1. \A d \in Clients : Owner(d)' => target'[d] # r /\ target'[d] = target[d]
    BY <1>2, <1>4, <1>8 DEF Owner, FirstCaller
  <2> QED BY <1>2, <1>4, <1>5, <1>8, <1>10, <2>1 DEF Inv, PlacesMatchStates, r
<1>18. MemoryFollows'
  <2>1. \A d \in Clients : pc'[d] \in {"loaded", "failed"}
                             => pc'[d] = pc[d] /\ target'[d] = target[d]
    BY <1>4
  <2> QED BY <1>2, <1>3, <1>5, <1>7, <1>10, <2>1 DEF Inv, MemoryFollows
<1>19. QueueMatchesWaiters' /\ WellFormed(queuedResources)'
  <2>1. \A d \in Clients : pc'[d] = "turn" => target'[d] = target[d]
    BY <1>4
  <2>2. \A d \in Clients : pc[d] = "turn" => target'[d] = target[d]
    BY <1>4, <1>8
  <2> QED BY <1>3, <1>8, <2>1, <2>2, QueueFrame DEF Inv, QueueMatchesWaiters
<1> QED BY <1>10, <1>11, <1>12, <1>13, <1>14, <1>15, <1>16, <1>17, <1>18, <1>19 DEF Inv

-----------------------------------------------------------------------------
(* LoadMiss: the first user of a resource nobody has; it has no place, is  *)
(* not queued and nobody is inside for it.                                 *)
LEMMA NobodyInside ==
  ASSUME Inv, NEW r \in Resources, usedCount[r] = 0, state[r] # "LOADED"
  PROVE  /\ \A d \in Clients : target[d] # r
         /\ state[r] = "NOT_LOADED" /\ r \notin Placed
         /\ r \notin Elements(queuedResources)
<1>1. \A d \in Clients : target[d] # r
  BY InsideCounted
<1>2. state[r] = "NOT_LOADED"
  BY <1>1 DEF Inv, TypeOK, LoadingHasOwner
<1>3. r \notin Placed
  BY <1>1 DEF Inv, PlacesMatchStates
<1>4. r \notin Elements(queuedResources)
  BY <1>1 DEF Inv, QueueMatchesWaiters
<1> QED BY <1>1, <1>2, <1>3, <1>4

(* What both outcomes of LoadMiss share: the caller becomes the only first *)
(* caller for r, whose state becomes LOADING.                              *)
LEMMA NewFirstCaller ==
  ASSUME Inv, TypeOK', NEW c \in Clients, NEW r \in Resources, pc[c] = "idle",
         \A d \in Clients : target[d] # r,
         \A d \in Clients \ {c} : pc'[d] = pc[d] /\ target'[d] = target[d],
         pc'[c] \in {"turn", "loading"}, target'[c] = r, state'[r] = "LOADING",
         \A q \in Resources \ {r} :
           \/ state'[q] = state[q]
           \/ /\ usedCount[q] = 0 /\ q \in Placed /\ state'[q] = "NOT_LOADED"
  PROVE  InsideHasTarget' /\ OneFirstCaller' /\ LoadingHasOwner' /\ HoldersLoaded'
<1>1. FirstCaller(c)' /\ ~FirstCaller(c) /\ ~Holding(c)'
  BY DEF FirstCaller, Holding
<1>2. \A d \in Clients \ {c} : /\ FirstCaller(d)' <=> FirstCaller(d)
                               /\ Holding(d)' <=> Holding(d)
  BY DEF FirstCaller, Holding
<1>3. InsideHasTarget'
  BY NoneAssumption DEF Inv, InsideHasTarget
<1>4. OneFirstCaller'
  BY <1>1, <1>2 DEF Inv, OneFirstCaller
<1>5. \A d \in Clients : target[d] \in Resources => usedCount[target[d]] > 0
  BY InsideCounted
<1>6. LoadingHasOwner'
  <2> SUFFICES ASSUME NEW q \in Resources
               PROVE  state'[q] = "LOADING"
                        <=> \E d \in Clients : FirstCaller(d)' /\ target'[d] = q
    BY DEF LoadingHasOwner
  <2>1. CASE q = r
    BY <1>1, <2>1
  <2>2. CASE q # r
    <3>1. \A d \in Clients : FirstCaller(d)' /\ target'[d] = q
                               <=> FirstCaller(d) /\ target[d] = q
      BY <1>1, <1>2, <2>2
    <3> QED BY <1>5, <2>2, <3>1 DEF Inv, LoadingHasOwner
  <2> QED BY <2>1, <2>2
<1>7. HoldersLoaded'
  <2> SUFFICES ASSUME NEW d \in Clients, Holding(d)'
               PROVE  state'[target'[d]] = "LOADED"
    BY DEF HoldersLoaded
  <2>1. d # c /\ Holding(d) /\ target'[d] = target[d]
    BY <1>1, <1>2
  <2>2. state[target[d]] = "LOADED" /\ target[d] \in Resources /\ target[d] # r
    BY <2>1 DEF Inv, HoldersLoaded, TypeOK, Holding
  <2> QED BY <1>5, <2>1, <2>2
<1> QED BY <1>3, <1>4, <1>6, <1>7

(* LoadMiss when the queue is empty and a place is free.                   *)
LEMMA MissStartsInv ==
  ASSUME Inv, NEW c \in Clients, NEW r \in Resources, LoadMiss(c, r),
         MyTurn(r, Append(queuedResources, r))
  PROVE  Inv'
<1>1. /\ pc[c] = "idle" /\ target[c] = None /\ usedCount[r] = 0 /\ state[r] # "LOADED"
      /\ usedCount' = [usedCount EXCEPT ![r] = @ + 1]
      /\ target' = [target EXCEPT ![c] = r]
      /\ StartLoad(c, r, Append(queuedResources, r)) /\ asleep' = asleep
  BY DEF LoadMiss, Inv, InsideHasTarget
<1>2. /\ \A d \in Clients : target[d] # r
      /\ r \notin Placed /\ r \notin Elements(queuedResources)
  BY <1>1, NobodyInside
<1>3. /\ usedResources < ConcurrentLimit /\ Head(Append(queuedResources, r)) = r
  BY DEF MyTurn
<1>4. queuedResources = <<>>
  <2>1. queuedResources \in Seq(Resources) /\ WellFormed(queuedResources)
    BY DEF Inv, TypeOK
  <2>2. CASE queuedResources # <<>>
    <3>1. Head(queuedResources) = r
      BY <1>3, <2>1, <2>2, HeadTailAppend
    <3> QED BY <1>2, <2>1, <2>2, <3>1, TailFacts
  <2> QED BY <2>2
<1>5. /\ pc' = [pc EXCEPT ![c] = "loading"]
      /\ queuedResources' = Tail(Append(queuedResources, r))
  BY <1>1 DEF StartLoad, Goto
<1>6. queuedResources' = queuedResources
  <2>1. <<>> \in Seq(Resources)
    BY EmptySeq
  <2> QED BY <1>4, <1>5, <2>1, HeadTailAppend
<1>7. /\ \A q \in Resources : usedCount'[q] = Cardinality({d \in Clients : target'[d] = q})
      /\ usedCount' \in [Resources -> Nat] /\ usedCount'[r] > 0
      /\ target' \in [Clients -> Resources \cup {None}]
      /\ target'[c] = r
      /\ \A q \in Resources \ {r} : usedCount'[q] = usedCount[q]
  BY <1>1, Comes
<1>8. /\ WellFormed(loadedResources)' /\ Len(loadedResources') <= ConcurrentLimit
      /\ usedResources' = Cardinality(Used') /\ usedResources' \in Nat
      /\ r \in Placed'
      /\ state' \in [Resources -> {"NOT_LOADED", "LOADING", "LOADED"}]
      /\ memory' \in [Resources -> {"absent", "coming", "present"}]
      /\ state'[r] = "LOADING" /\ memory'[r] = "coming"
      /\ \A q \in Resources \ {r} :
           \/ /\ q \in Placed <=> q \in Placed'
              /\ state'[q] = state[q] /\ memory'[q] = memory[q]
           \/ /\ q \in Placed /\ usedCount[q] = 0 /\ q \notin Placed'
              /\ state'[q] = "NOT_LOADED" /\ memory'[q] = "absent"
  BY <1>1, <1>2, <1>3, <1>7, StartFacts
<1>9. /\ pc' \in [Clients -> Locations] /\ pc'[c] = "loading"
      /\ \A d \in Clients \ {c} : pc'[d] = pc[d] /\ target'[d] = target[d]
  BY <1>1, <1>5 DEF Inv, TypeOK, Locations
<1>10. TypeOK'
  BY <1>1, <1>6, <1>7, <1>8, <1>9 DEF Inv, TypeOK, WellFormed
<1>11. SleepersWait'
  BY <1>1, <1>9 DEF Inv, TypeOK, SleepersWait
<1>12. InsideHasTarget' /\ OneFirstCaller' /\ LoadingHasOwner' /\ HoldersLoaded'
  BY <1>1, <1>2, <1>7, <1>8, <1>9, <1>10, NewFirstCaller
<1>13. PlacesBounded'
  BY <1>8 DEF PlacesBounded
<1>14. Accounting'
  BY <1>7, <1>8 DEF Accounting
<1>15. \A d \in Clients : target[d] \in Resources => usedCount[target[d]] > 0
  BY InsideCounted
<1>16. PlacesMatchStates'
  <2> SUFFICES ASSUME NEW q \in Resources
               PROVE  q \in Placed' <=> \/ state'[q] = "LOADED"
                                       \/ \E d \in Clients : Owner(d)' /\ target'[d] = q
    BY DEF PlacesMatchStates
  <2>1. CASE q = r
    BY <1>7, <1>8, <1>9, <2>1 DEF Owner
  <2>2. CASE q # r
    <3>1. \A d \in Clients : Owner(d)' /\ target'[d] = q <=> Owner(d) /\ target[d] = q
      BY <1>1, <1>7, <1>9, <2>2 DEF Owner
    <3> QED BY <1>8, <1>15, <2>2, <3>1 DEF Inv, PlacesMatchStates
  <2> QED BY <2>1, <2>2
<1>17. MemoryFollows'
  <2>1. \A q \in Resources : /\ state'[q] = "LOADED" => memory'[q] = "present"
                             /\ memory'[q] # "absent" => q \in Placed'
    BY <1>8 DEF Inv, MemoryFollows
  <2>2. ASSUME NEW d \in Clients, pc'[d] \in {"loaded", "failed"}
        PROVE  memory'[target'[d]] = IF pc'[d] = "loaded" THEN "present" ELSE "absent"
    <3>1. d # c /\ pc'[d] = pc[d] /\ target'[d] = target[d]
      BY <1>9, <2>2
    <3>2. /\ target[d] \in Resources
          /\ memory[target[d]] = IF pc[d] = "loaded" THEN "present" ELSE "absent"
      BY <2>2, <3>1, InsideTarget DEF Inv, MemoryFollows
    <3>3. target[d] # r
      BY <1>2
    <3> QED BY <1>8, <1>15, <3>1, <3>2, <3>3
  <2> QED BY <2>1, <2>2 DEF MemoryFollows
<1>18. QueueMatchesWaiters' /\ WellFormed(queuedResources)'
  <2>1. \A d \in Clients : pc'[d] = "turn" <=> pc[d] = "turn"
    BY <1>1, <1>9
  <2>2. \A d \in Clients : pc[d] = "turn" => target'[d] = target[d]
    BY <1>1, <1>9
  <2> QED BY <1>6, <2>1, <2>2, QueueFrame DEF Inv, QueueMatchesWaiters
<1> QED BY <1>10, <1>11, <1>12, <1>13, <1>14, <1>16, <1>17, <1>18 DEF Inv

(* LoadMiss when the caller has to wait.                                   *)
LEMMA MissWaitsInv ==
  ASSUME Inv, NEW c \in Clients, NEW r \in Resources, LoadMiss(c, r),
         ~MyTurn(r, Append(queuedResources, r))
  PROVE  Inv'
<1>1. /\ pc[c] = "idle" /\ target[c] = None /\ usedCount[r] = 0 /\ state[r] # "LOADED"
      /\ usedCount' = [usedCount EXCEPT ![r] = @ + 1]
      /\ target' = [target EXCEPT ![c] = r]
      /\ state' = [state EXCEPT ![r] = "LOADING"]
      /\ queuedResources' = Append(queuedResources, r)
      /\ asleep' = asleep \cup {c}
      /\ pc' = [pc EXCEPT ![c] = "turn"]
      /\ UNCHANGED <<loadedResources, usedResources, memory>>
  BY DEF LoadMiss, WaitTurn, Goto, Inv, InsideHasTarget
<1>2. /\ \A d \in Clients : target[d] # r
      /\ state[r] = "NOT_LOADED" /\ r \notin Placed /\ r \notin Elements(queuedResources)
  BY <1>1, NobodyInside
<1>3. /\ \A q \in Resources : usedCount'[q] = Cardinality({d \in Clients : target'[d] = q})
      /\ usedCount' \in [Resources -> Nat] /\ usedCount'[r] > 0
      /\ target' \in [Clients -> Resources \cup {None}]
      /\ target'[c] = r
      /\ \A q \in Resources \ {r} : usedCount'[q] = usedCount[q]
  BY <1>1, Comes
<1>4. /\ pc' \in [Clients -> Locations] /\ pc'[c] = "turn"
      /\ \A d \in Clients \ {c} : pc'[d] = pc[d] /\ target'[d] = target[d]
  BY <1>1 DEF Inv, TypeOK, Locations
<1>5. /\ state' \in [Resources -> {"NOT_LOADED", "LOADING", "LOADED"}]
      /\ state'[r] = "LOADING" /\ \A q \in Resources \ {r} : state'[q] = state[q]
  BY <1>1 DEF Inv, TypeOK
<1>6. /\ WellFormed(queuedResources')
      /\ Elements(queuedResources') = Elements(queuedResources) \cup {r}
  BY <1>1, <1>2, AppendFacts DEF Inv
<1>7. /\ WellFormed(queuedResources)' /\ queuedResources' \in Seq(Resources)
      /\ Elements(queuedResources)' = Elements(queuedResources) \cup {r}
  BY <1>6 DEF WellFormed, Elements, Distinct
<1>8. Placed' = Placed /\ PlacesBounded'
  BY <1>1, PlacesFrame
<1>9. Accounting'
  <2>1. Placed \subseteq Resources
    BY ElementOfSeq DEF Inv, TypeOK, Placed, Elements
  <2>2. Used' = Used
    BY <1>2, <1>3, <1>8, <2>1 DEF Used
  <2> QED BY <1>1, <1>3, <2>2 DEF Inv, Accounting
<1>10. TypeOK'
  BY <1>1, <1>3, <1>4, <1>5, <1>7 DEF Inv, TypeOK
<1>11. SleepersWait'
  BY <1>1, <1>4 DEF Inv, TypeOK, SleepersWait
<1>12. InsideHasTarget' /\ OneFirstCaller' /\ LoadingHasOwner' /\ HoldersLoaded'
  BY <1>1, <1>2, <1>3, <1>4, <1>5, <1>10, NewFirstCaller
<1>13. PlacesMatchStates'
  <2>1. \A d \in Clients : Owner(d)' <=> Owner(d)
    BY <1>1, <1>4 DEF Owner
  <2>2. \A d \in Clients : Owner(d) => target'[d] = target[d]
    BY <1>1, <1>4 DEF Owner
  <2>3. ~\E d \in Clients : Owner(d) /\ target[d] = r
    BY <1>2
  <2> QED BY <1>2, <1>5, <1>8, <2>1, <2>2, <2>3 DEF Inv, PlacesMatchStates
<1>14. MemoryFollows'
  <2>1. \A d \in Clients : pc'[d] \in {"loaded", "failed"}
                             => pc'[d] = pc[d] /\ target'[d] = target[d]
    BY <1>4
  <2> QED BY <1>1, <1>5, <1>8, <2>1 DEF Inv, MemoryFollows
<1>15. QueueMatchesWaiters'
  <2>1. \A d \in Clients : pc'[d] = "turn" <=> pc[d] = "turn" \/ d = c
    BY <1>4
  <2>2. \A d \in Clients : pc[d] = "turn" => target'[d] = target[d] /\ d # c
    BY <1>1, <1>4
  <2>3. Distinct(queuedResources)'
    BY <1>7 DEF WellFormed
  <2> QED BY <1>3, <1>7, <2>1, <2>2, <2>3 DEF Inv, QueueMatchesWaiters
<1> QED BY <1>7, <1>8, <1>9, <1>10, <1>11, <1>12, <1>13, <1>14, <1>15 DEF Inv

-----------------------------------------------------------------------------
(* The invariant holds at the start.                                       *)
LEMMA InitInv ==
  ASSUME Init
  PROVE  Inv
<1>1. Elements(loadedResources) = {} /\ Elements(queuedResources) = {}
  BY DEF Init, Elements
<1>2. <<>> \in Seq(Resources) /\ Len(<<>>) = 0
  BY EmptySeq
<1>3. WellFormed(loadedResources) /\ WellFormed(queuedResources)
  <2>1. loadedResources = <<>> /\ queuedResources = <<>>
    BY DEF Init
  <2>2. Distinct(<<>>)
    BY <1>2 DEF Distinct
  <2>3. IsFiniteSet({}) /\ Cardinality({}) = 0
    BY FS_EmptySet
  <2> QED BY <1>1, <1>2, <2>1, <2>2, <2>3 DEF WellFormed
<1>4. TypeOK
  BY <1>2 DEF Init, TypeOK, Locations
<1>5. Accounting
  <2>1. \A r \in Resources : {c \in Clients : target[c] = r} = {}
    BY NoneAssumption DEF Init
  <2>2. Used = {}
    BY <1>1 DEF Used, Placed
  <2> QED BY <2>1, <2>2, FS_EmptySet DEF Init, Accounting
<1>6. InsideHasTarget /\ SleepersWait /\ OneFirstCaller
  BY DEF Init, InsideHasTarget, SleepersWait, OneFirstCaller, FirstCaller
<1>7. LoadingHasOwner /\ PlacesMatchStates
  BY <1>1 DEF Init, LoadingHasOwner, PlacesMatchStates, FirstCaller, Owner, Placed
<1>8. HoldersLoaded /\ MemoryFollows
  BY DEF Init, HoldersLoaded, Holding, MemoryFollows
<1>9. QueueMatchesWaiters
  BY <1>1, <1>3 DEF Init, QueueMatchesWaiters, WellFormed
<1>10. PlacesBounded
  BY <1>2, <1>3, LimitAssumption DEF Init, PlacesBounded
<1> QED BY <1>3, <1>4, <1>5, <1>6, <1>7, <1>8, <1>9, <1>10 DEF Inv

(* Every step of every client keeps it.                                    *)
LEMMA NextInv ==
  ASSUME Inv, [Next]_vars
  PROVE  Inv'
<1>1. CASE UNCHANGED vars
  <2>1. UNCHANGED <<usedCount, state, loadedResources, usedResources,
                    queuedResources, pc, target, memory>> /\ asleep' = asleep
    BY <1>1 DEF vars, shared
  <2>2. SleepersWait' /\ TypeOK'
    BY <2>1 DEF Inv, TypeOK, SleepersWait
  <2> QED BY <2>1, <2>2, OnlySleepersChange
<1>2. ASSUME NEW c \in Clients, Call(c) PROVE Inv'
  <2>1. PICK r \in Resources : LoadHit(c, r) \/ LoadMiss(c, r) \/ LoadShared(c, r)
    BY <1>2 DEF Call
  <2> QED BY <2>1, LoadHitInv, MissStartsInv, MissWaitsInv, LoadSharedInv
<1>3. ASSUME NEW c \in Clients, FinishLoad(c) PROVE Inv'
  BY <1>3, LoadedInv, FailedInv DEF FinishLoad
<1>4. ASSUME NEW c \in Clients, Continue(c) PROVE Inv'
  BY <1>3, <1>4, TakeTurnInv, LoadReturnsInv, NotifyLoadedInv, ShareAwakeInv,
     ReleaseInv, NotifyReleasedInv DEF Continue
<1> QED BY <1>1, <1>2, <1>4, SpuriousWakeInv DEF Next

(* The inductive invariant of the loader.                                  *)
THEOREM Invariance == Spec => []Inv
BY InitInv, NextInv, PTL DEF Spec

(* The values of all the variables stay in their types: in particular the  *)
(* unsigned counters used_count and used_resources never wrap below zero.  *)
THEOREM TypeCorrect == Spec => []TypeOK
<1>1. Inv => TypeOK
  BY DEF Inv
<1> QED BY <1>1, Invariance, PTL

(* What load() returned stays in memory until it is released.              *)
THEOREM InUseSafety == Spec => []InUseInMemory
<1>1. Inv => InUseInMemory
  BY DEF Inv, InUseInMemory, HoldersLoaded, MemoryFollows, TypeOK, Holding
<1> QED BY <1>1, Invariance, PTL

(* No resource is loaded by two clients, nor while a client uses it.       *)
THEOREM OneLoaderSafety == Spec => []OneLoader
<1>1. ASSUME Inv PROVE OneLoader
  <2> SUFFICES ASSUME NEW r \in Resources
               PROVE (state[r] = "LOADING") <=> \E c \in Clients :
                        /\ FirstCaller(c) /\ target[c] = r
                        /\ \A d \in Clients \ {c} : target[d] = r => pc[d] = "sharing"
    BY DEF OneLoader
  <2>1. ASSUME NEW c \in Clients, FirstCaller(c), target[c] = r, state[r] = "LOADING",
               NEW d \in Clients \ {c}, target[d] = r
        PROVE  pc[d] = "sharing"
    <3>1. ~FirstCaller(d) /\ ~Holding(d)
      BY <1>1, <2>1 DEF Inv, OneFirstCaller, HoldersLoaded
    <3>2. pc[d] \in Locations /\ r # None
      BY <1>1, NoneAssumption DEF Inv, TypeOK
    <3> QED BY <1>1, <2>1, <3>1, <3>2
            DEF Inv, InsideHasTarget, Locations, FirstCaller, Holding
  <2> QED BY <1>1, <2>1 DEF Inv, LoadingHasOwner
<1> QED BY <1>1, Invariance, PTL

(* The two counters count what they are meant to count.                    *)
THEOREM AccountingCorrect == Spec => []Accounting
<1>1. Inv => Accounting
  BY DEF Inv
<1> QED BY <1>1, Invariance, PTL

(* No more resources are in memory than concurrent_limit.                  *)
THEOREM MemoryBoundSafety == Spec => []MemoryBound
<1>1. ASSUME Inv PROVE MemoryBound
  <2> DEFINE inMemory == {r \in Resources : memory[r] # "absent"}
  <2>1. inMemory \in SUBSET Placed
    BY <1>1 DEF Inv, MemoryFollows
  <2>2. /\ Cardinality(inMemory) <= Cardinality(Placed)
        /\ Cardinality(inMemory) \in Nat
    BY <1>1, <2>1, UsedFinite, FS_Subset, FS_CardinalityType
  <2>3. /\ Cardinality(Placed) = Len(loadedResources)
        /\ Len(loadedResources) <= ConcurrentLimit /\ Len(loadedResources) \in Nat
    BY <1>1, UsedFinite, LenProperties DEF Inv, PlacesBounded, WellFormed
  <2> QED BY <2>2, <2>3, LimitAssumption DEF MemoryBound
<1> QED BY <1>1, Invariance, PTL

(* The queue holds the first callers that wait, each once.                 *)
THEOREM QueueCorrect == Spec => []QueueMatchesWaiters
<1>1. Inv => QueueMatchesWaiters
  BY DEF Inv
<1> QED BY <1>1, Invariance, PTL


-----------------------------------------------------------------------------
(* A step of client c loses no wake-up if c stays among those who will     *)
(* notify, makes no sleeper's condition true unless it will notify itself, *)
(* and falls asleep only while its own condition is false.                 *)
LEMMA WakeupFrame ==
  ASSUME Inv, NoLostWakeup, NEW c \in Clients, asleep' \subseteq asleep \cup {c},
         \A d \in Clients \ {c} : pc'[d] = pc[d] /\ target'[d] = target[d],
         WillNotify(c) => WillNotify(c)',
         pc[c] = "notifying" => pc'[c] = "notifying",
         \A d \in asleep \ {c} :
           pc[d] = "turn" /\ usedResources' < ConcurrentLimit
                          /\ Head(queuedResources') = target[d]
             => MyTurn(target[d], queuedResources) \/ WillNotify(c)',
         \A d \in asleep \ {c} :
           pc[d] = "sharing" /\ state'[target[d]] # "LOADING"
             => state[target[d]] # "LOADING" \/ pc'[c] = "notifying",
         c \in asleep' =>
           /\ pc'[c] = "turn" => ~(/\ usedResources' < ConcurrentLimit
                                   /\ Head(queuedResources') = target'[c])
           /\ pc'[c] = "sharing" => state'[target'[c]] = "LOADING"
  PROVE  NoLostWakeup'
<1> SUFFICES ASSUME NEW d \in asleep'
             PROVE  /\ pc'[d] = "turn" /\ usedResources' < ConcurrentLimit
                                       /\ Head(queuedResources') = target'[d]
                         => \E e \in Clients : WillNotify(e)'
                    /\ pc'[d] = "sharing" /\ state'[target'[d]] # "LOADING"
                         => \E e \in Clients : pc'[e] = "notifying"
  BY DEF NoLostWakeup, MyTurn
<1>1. CASE d = c
  BY <1>1
<1>2. CASE d # c
  <2>1. d \in asleep \ {c} /\ d \in Clients /\ pc'[d] = pc[d] /\ target'[d] = target[d]
    BY <1>2 DEF Inv, TypeOK
  <2>2. ASSUME NEW e \in Clients, WillNotify(e) PROVE WillNotify(e)'
    BY <2>2 DEF WillNotify
  <2>3. ASSUME NEW e \in Clients, pc[e] = "notifying" PROVE pc'[e] = "notifying"
    BY <2>3
  <2>4. ASSUME pc[d] = "turn", MyTurn(target[d], queuedResources)
        PROVE  \E e \in Clients : WillNotify(e)'
    BY <2>1, <2>2, <2>4 DEF NoLostWakeup
  <2>5. ASSUME pc[d] = "sharing", state[target[d]] # "LOADING"
        PROVE  \E e \in Clients : pc'[e] = "notifying"
    BY <2>1, <2>3, <2>5 DEF NoLostWakeup
  <2> QED BY <2>1, <2>4, <2>5
<1> QED BY <1>1, <1>2

(* The number of resources in use never exceeds the places.                *)
LEMMA UsedAtMostLimit ==
  ASSUME Inv
  PROVE  usedResources <= ConcurrentLimit /\ usedResources \in Nat
BY UsedFinite, LenProperties, LimitAssumption
   DEF Inv, TypeOK, Accounting, PlacesBounded, WellFormed

(* A load starts: the client that starts it will notify.                   *)
LEMMA StartWakes ==
  ASSUME Inv, NoLostWakeup, NEW c \in Clients, NEW r \in Resources, NEW queue,
         StartLoad(c, r, queue), asleep' = asleep, c \notin asleep,
         pc[c] \in {"idle", "turn"}, ~WillNotify(c),
         \A d \in Clients \ {c} : target'[d] = target[d]
  PROVE  NoLostWakeup'
<1>1. /\ pc'[c] = "loading"
      /\ \A d \in Clients \ {c} : pc'[d] = pc[d]
  BY DEF StartLoad, Goto, Inv, TypeOK
<1>2. WillNotify(c)'
  BY <1>1 DEF WillNotify
<1>3. \A d \in asleep \ {c} :
        pc[d] = "sharing" /\ state'[target[d]] # "LOADING" => state[target[d]] # "LOADING"
  <2> SUFFICES ASSUME NEW d \in asleep \ {c}, pc[d] = "sharing",
                      state'[target[d]] # "LOADING", state[target[d]] = "LOADING"
               PROVE  FALSE
    OBVIOUS
  <2>1. d \in Clients /\ target[d] \in Resources
    BY InsideTarget DEF Inv, TypeOK
  <2>2. usedCount[target[d]] > 0
    BY <2>1, InsideCounted
  <2>3. target[d] \in {loadedResources[i] : i \in Victims(r)}
    BY <2>1 DEF StartLoad
  <2>4. usedCount[target[d]] = 0
    BY <2>3 DEF Victims, UnusedPlaces
  <2> QED BY <2>2, <2>4
<1> QED BY <1>1, <1>2, <1>3, WakeupFrame

(* The steps of Call.                                                      *)
LEMMA CallWakes ==
  ASSUME Inv, NoLostWakeup, NEW c \in Clients, Call(c)
  PROVE  NoLostWakeup'
<1>1. PICK r \in Resources : LoadHit(c, r) \/ LoadMiss(c, r) \/ LoadShared(c, r)
  BY DEF Call
<1>2. /\ pc[c] = "idle" /\ c \notin asleep /\ ~WillNotify(c)
      /\ pc \in [Clients -> Locations] /\ target \in [Clients -> Resources \cup {None}]
  BY <1>1 DEF LoadHit, LoadMiss, LoadShared, Inv, TypeOK, SleepersWait, WillNotify
<1>3. CASE LoadHit(c, r)
  <2>1. /\ usedResources' = usedResources + 1 /\ asleep' = asleep
        /\ queuedResources' = queuedResources /\ state' = state
        /\ pc' = [pc EXCEPT ![c] = "using"] /\ target' = [target EXCEPT ![c] = r]
    BY <1>3 DEF LoadHit, Goto
  <2>2. \A d \in asleep \ {c} :
          pc[d] = "turn" /\ usedResources' < ConcurrentLimit
                         /\ Head(queuedResources') = target[d]
            => MyTurn(target[d], queuedResources)
    BY <2>1, UsedAtMostLimit, LimitAssumption DEF MyTurn
  <2>3. \A d \in Clients \ {c} : pc'[d] = pc[d] /\ target'[d] = target[d]
    BY <1>2, <2>1
  <2> QED BY <1>2, <2>1, <2>2, <2>3, WakeupFrame
<1>4. CASE LoadMiss(c, r) /\ MyTurn(r, Append(queuedResources, r))
  <2>1. /\ StartLoad(c, r, Append(queuedResources, r)) /\ asleep' = asleep
        /\ target' = [target EXCEPT ![c] = r]
    BY <1>4 DEF LoadMiss
  <2>2. \A d \in Clients \ {c} : target'[d] = target[d]
    BY <1>2, <2>1
  <2> QED BY <1>2, <2>1, <2>2, StartWakes
<1>5. CASE LoadMiss(c, r) /\ ~MyTurn(r, Append(queuedResources, r))
  <2>1. /\ asleep' = asleep \cup {c} /\ usedResources' = usedResources
        /\ queuedResources' = Append(queuedResources, r)
        /\ state' = [state EXCEPT ![r] = "LOADING"]
        /\ pc' = [pc EXCEPT ![c] = "turn"] /\ target' = [target EXCEPT ![c] = r]
    BY <1>5 DEF LoadMiss, WaitTurn, Goto
  <2>2. \A d \in asleep \ {c} : pc[d] = "turn" => Head(queuedResources') = Head(queuedResources)
    <3> SUFFICES ASSUME NEW d \in asleep \ {c}, pc[d] = "turn"
                 PROVE  Head(queuedResources') = Head(queuedResources)
      OBVIOUS
    <3>1. d \in Clients /\ target[d] \in Resources
      BY InsideTarget DEF Inv, TypeOK
    <3>2. target[d] \in Elements(queuedResources) /\ queuedResources \in Seq(Resources)
      BY <3>1 DEF Inv, TypeOK, QueueMatchesWaiters
    <3>3. queuedResources # <<>>
      BY <3>2 DEF Elements
    <3> QED BY <2>1, <3>2, <3>3, HeadTailAppend
  <2>3. /\ \A d \in Clients \ {c} : pc'[d] = pc[d] /\ target'[d] = target[d]
        /\ pc'[c] = "turn" /\ target'[c] = r
    BY <1>2, <2>1
  <2>4. ~(usedResources' < ConcurrentLimit /\ Head(queuedResources') = target'[c])
    BY <1>5, <2>1, <2>3 DEF MyTurn
  <2>5. \A q : state'[q] # "LOADING" /\ q \in Resources => state[q] # "LOADING"
    BY <2>1 DEF Inv, TypeOK
  <2>6. \A d \in asleep \ {c} : pc[d] = "sharing" => target[d] \in Resources
    BY InsideTarget DEF Inv, TypeOK
  <2>7. \A d \in asleep \ {c} :
          pc[d] = "turn" /\ usedResources' < ConcurrentLimit
                         /\ Head(queuedResources') = target[d]
            => MyTurn(target[d], queuedResources)
    BY <2>1, <2>2 DEF MyTurn
  <2> QED BY <1>2, <2>1, <2>3, <2>4, <2>5, <2>6, <2>7, WakeupFrame
<1>6. CASE LoadShared(c, r)
  <2>1. /\ usedResources' = usedResources /\ queuedResources' = queuedResources
        /\ state' = state /\ asleep' \subseteq asleep \cup {c}
        /\ \A d \in Clients \ {c} : pc'[d] = pc[d] /\ target'[d] = target[d]
        /\ c \in asleep' => /\ pc'[c] = "sharing" /\ target'[c] = r
                            /\ state[r] = "LOADING"
    BY <1>2, <1>6 DEF LoadShared, Goto
  <2> QED BY <1>2, <2>1, WakeupFrame DEF MyTurn
<1> QED BY <1>1, <1>3, <1>4, <1>5, <1>6

(* The steps of Continue that do not empty the set of sleepers.            *)
LEMMA ContinueWakes ==
  ASSUME Inv, NoLostWakeup, NEW c \in Clients, Continue(c)
  PROVE  NoLostWakeup'
<1>1. pc \in [Clients -> Locations] /\ target \in [Clients -> Resources \cup {None}]
  BY DEF Inv, TypeOK
<1>2. CASE NotifyLoaded(c) \/ NotifyReleased(c)
  BY <1>2 DEF NotifyLoaded, NotifyReleased, NoLostWakeup
<1>3. CASE TakeTurn(c) /\ MyTurn(target[c], queuedResources)
  <2>1. /\ StartLoad(c, target[c], queuedResources) /\ asleep' = asleep
        /\ target' = target /\ pc[c] = "turn" /\ c \notin asleep
    BY <1>3 DEF TakeTurn
  <2>2. target[c] \in Resources /\ ~WillNotify(c)
    BY <2>1, InsideTarget DEF WillNotify
  <2> QED BY <2>1, <2>2, StartWakes
<1>4. CASE TakeTurn(c) /\ ~MyTurn(target[c], queuedResources)
  <2>1. /\ asleep' = asleep \cup {c} /\ pc[c] = "turn"
        /\ UNCHANGED <<state, usedResources, queuedResources, pc, target>>
    BY <1>4 DEF TakeTurn
  <2> QED BY <1>4, <2>1, WakeupFrame DEF MyTurn, WillNotify
<1>5. CASE LoadReturns(c)
  <2>1. /\ UNCHANGED <<state, usedResources, queuedResources, target, asleep>>
        /\ pc[c] = "loading" /\ pc'[c] \in {"loaded", "failed"}
        /\ \A d \in Clients \ {c} : pc'[d] = pc[d]
    BY <1>1, <1>5 DEF LoadReturns, Goto, shared
  <2>2. c \notin asleep
    BY <2>1 DEF Inv, SleepersWait
  <2> QED BY <2>1, <2>2, WakeupFrame DEF MyTurn, WillNotify
<1>6. CASE FinishLoad(c)
  <2>1. /\ pc[c] \in {"loaded", "failed"} /\ pc'[c] = "notifying" /\ asleep' = asleep
        /\ \A d \in Clients \ {c} : pc'[d] = pc[d] /\ target'[d] = target[d]
    BY <1>1, <1>6 DEF FinishLoad, Goto
  <2>2. c \notin asleep /\ WillNotify(c)'
    BY <2>1 DEF Inv, SleepersWait, WillNotify
  <2> QED BY <2>1, <2>2, WakeupFrame
<1>7. CASE ShareAwake(c)
  <2>1. /\ UNCHANGED <<state, usedResources, queuedResources>>
        /\ asleep' \subseteq asleep \cup {c} /\ pc[c] = "sharing" /\ c \notin asleep
        /\ \A d \in Clients \ {c} : pc'[d] = pc[d] /\ target'[d] = target[d]
        /\ c \in asleep' => /\ pc'[c] = "sharing" /\ target'[c] = target[c]
                            /\ state[target[c]] = "LOADING"
    BY <1>1, <1>7 DEF ShareAwake, Goto
  <2> QED BY <2>1, WakeupFrame DEF MyTurn, WillNotify
<1>8. CASE Release(c)
  <2>1. /\ pc[c] = "using" /\ UNCHANGED <<state, queuedResources, asleep>>
        /\ \A d \in Clients \ {c} : pc'[d] = pc[d] /\ target'[d] = target[d]
        /\ usedResources' \in {usedResources, usedResources - 1}
        /\ usedResources' # usedResources /\ WasFull => pc'[c] = "released"
    BY <1>1, <1>8 DEF Release, Goto
  <2>2. c \notin asleep /\ ~WillNotify(c)
    BY <2>1 DEF Inv, SleepersWait, WillNotify
  <2>3. usedResources' < ConcurrentLimit => usedResources < ConcurrentLimit \/ WillNotify(c)'
    BY <2>1, UsedAtMostLimit, LimitAssumption DEF WasFull, WillNotify
  <2> QED BY <2>1, <2>2, <2>3, WakeupFrame DEF MyTurn
<1> QED BY <1>2, <1>3, <1>4, <1>5, <1>6, <1>7, <1>8 DEF Continue

(* Whenever a sleeper's condition is true, a notification is under way.    *)
THEOREM WakeupSafety == Spec => []NoLostWakeup
<1>1. Init => NoLostWakeup
  BY DEF Init, NoLostWakeup
<1>2. Inv /\ NoLostWakeup /\ [Next]_vars => NoLostWakeup'
  <2> SUFFICES ASSUME Inv, NoLostWakeup, [Next]_vars PROVE NoLostWakeup'
    OBVIOUS
  <2>1. CASE UNCHANGED vars
    <3>1. UNCHANGED <<pc, target, asleep, state, usedResources, queuedResources>>
      BY <2>1 DEF vars, shared
    <3> QED BY <3>1 DEF NoLostWakeup, MyTurn, WillNotify
  <2>2. ASSUME NEW c \in Clients, SpuriousWake(c) PROVE NoLostWakeup'
    <3>1. /\ asleep' = asleep \ {c}
          /\ UNCHANGED <<pc, target, state, usedResources, queuedResources>>
      BY <2>2 DEF SpuriousWake, shared
    <3> QED BY <3>1 DEF NoLostWakeup, MyTurn, WillNotify
  <2> QED BY <2>1, <2>2, CallWakes, ContinueWakes DEF Next
<1> QED BY <1>1, <1>2, Invariance, PTL DEF Spec

-----------------------------------------------------------------------------
(* The refinement.  A step of one client shows in the pool at most in what *)
(* that client wants and holds.                                            *)
LEMMA ClientView ==
  ASSUME NEW c \in Clients,
         \A d \in Clients \ {c} : pc'[d] = pc[d] /\ target'[d] = target[d]
  PROVE  /\ Wants' = [Wants EXCEPT ![c] = IF Holding(c)' THEN None ELSE target'[c]]
         /\ Holds' = [Holds EXCEPT ![c] = IF Holding(c)' THEN target'[c] ELSE None]
<1>1. \A d \in Clients \ {c} : Holding(d)' <=> Holding(d)
  BY DEF Holding
<1> QED BY <1>1 DEF Wants, Holds

(* What no client of the loader is inside for, no client of the pool wants *)
(* or holds.                                                               *)
LEMMA UnusedUntouched ==
  ASSUME Inv, NEW q \in Resources, usedCount[q] = 0
  PROVE  Pool!Untouched(q)
<1>1. \A d \in Clients : target[d] # q
  BY InsideCounted
<1>2. q # None
  BY NoneAssumption
<1> QED BY <1>1, <1>2 DEF Pool!Untouched, Wants, Holds

(* The eviction takes at most one place.                                   *)
LEMMA OneVictim ==
  ASSUME NEW r, NEW i \in Victims(r), NEW j \in Victims(r), loadedResources \in Seq(Resources)
  PROVE  i = j
<1>1. i \in UnusedPlaces(r) /\ j \in UnusedPlaces(r) /\ i <= j /\ j <= i
  BY DEF Victims
<1>2. i \in Nat /\ j \in Nat
  BY <1>1, LenProperties DEF UnusedPlaces
<1> QED BY <1>1, <1>2

(* The pool counts the way the loader does.                                *)
LEMMA PoolCardinality ==
  \A S : Pool!Cardinality(S) = Cardinality(S)
BY DEF Pool!Cardinality, Cardinality

(* The start of a load is the pool's Enter.                                *)
LEMMA StartEnters ==
  ASSUME Inv, NEW c \in Clients, NEW r \in Resources, NEW queue,
         r \notin Placed, state[r] # "LOADED", usedResources < ConcurrentLimit,
         StartLoad(c, r, queue)
  PROVE  Pool!Enter(r)
<1> DEFINE dropped == {loadedResources[i] : i \in Victims(r)}
           kept == IF Victims(r) = {} THEN loadedResources
                   ELSE RemoveAt(loadedResources, CHOOSE i \in Victims(r) : TRUE)
<1>1. /\ WellFormed(kept) /\ Elements(kept) = Placed \ dropped
      /\ Len(kept) < ConcurrentLimit
      /\ \A q \in dropped : q \in Placed /\ usedCount[q] = 0
  BY EvictionFacts
<1>2. /\ loadedResources' = Append(kept, r)
      /\ state' = [q \in Resources |-> IF q \in dropped THEN "NOT_LOADED"
                                       ELSE IF q = r THEN "LOADING" ELSE state[q]]
  BY DEF StartLoad
<1>3. \A q \in Placed : q \in Resources
  BY ElementOfSeq DEF Inv, TypeOK, Placed, Elements
<1>4. Cardinality(dropped) <= 1
  <2>1. loadedResources \in Seq(Resources)
    BY DEF Inv, TypeOK
  <2>2. CASE Victims(r) = {}
    <3>1. dropped = {}
      BY <2>2
    <3> QED BY <3>1, FS_EmptySet
  <2>3. CASE Victims(r) # {}
    <3>1. PICK i \in Victims(r) : TRUE
      BY <2>3
    <3>2. dropped = {loadedResources[i]}
      BY <2>1, <3>1, OneVictim
    <3>3. Cardinality({loadedResources[i]}) = 1
      BY FS_Singleton
    <3> HIDE DEF dropped
    <3> QED BY <3>2, <3>3
  <2> QED BY <2>2, <2>3
<1> HIDE DEF dropped, kept
<1>5. /\ WellFormed(loadedResources')
      /\ Elements(loadedResources') = Elements(kept) \cup {r}
      /\ Len(loadedResources') = Len(kept) + 1
  BY <1>1, <1>2, AppendFacts
<1>6. Placed' = (Placed \ dropped) \cup {r}
  BY <1>1, <1>5 DEF Placed, Elements
<1>7. Cardinality(Placed') <= ConcurrentLimit
  <2>1. Placed' = Elements(loadedResources') /\ Len(kept) \in Nat
    BY <1>1, LenProperties DEF Placed, Elements, WellFormed
  <2>2. Cardinality(Elements(loadedResources')) = Len(kept) + 1
    BY <1>5 DEF WellFormed
  <2> QED BY <1>1, <2>1, <2>2, LimitAssumption
<1>8. Ready' = Ready \ dropped
  BY <1>2 DEF Ready
<1>9. dropped \in SUBSET {q \in Placed : Pool!Untouched(q)}
  BY <1>1, <1>3, UnusedUntouched
<1> QED BY <1>4, <1>6, <1>7, <1>8, <1>9, PoolCardinality DEF Pool!Enter

(* A client outside the loader is free in the pool.                        *)
LEMMA IdleIsFree ==
  ASSUME Inv, NEW c \in Clients, pc[c] = "idle"
  PROVE  Pool!Free(c) /\ target[c] = None /\ c \notin asleep
BY DEF Inv, InsideHasTarget, SleepersWait, Pool!Free, Wants, Holds, Holding

(* load(): a hit is the pool's Take, a miss its Ask, and a later caller    *)
(* takes, asks, or is refused without having asked.                        *)
LEMMA CallRefines ==
  ASSUME Inv, NEW c \in Clients, Call(c)
  PROVE  [Pool!Next]_Pool!vars
<1>1. PICK r \in Resources : LoadHit(c, r) \/ LoadMiss(c, r) \/ LoadShared(c, r)
  BY DEF Call
<1>2. /\ Pool!Free(c) /\ target[c] = None
      /\ r # None /\ pc[c] = "idle"
  BY <1>1, IdleIsFree, NoneAssumption DEF LoadHit, LoadMiss, LoadShared
<1>3. /\ pc \in [Clients -> Locations] /\ target \in [Clients -> Resources \cup {None}]
      /\ usedCount \in [Resources -> Nat]
  BY DEF Inv, TypeOK
<1>4. Wants[c] = None /\ Holds[c] = None
  BY <1>2 DEF Pool!Free
<1>5. state[r] = "LOADED" => r \in Placed /\ r \in Ready
  BY DEF Inv, PlacesMatchStates, Ready
<1>6. ASSUME state[r] = "LOADED", state' = state,
             loadedResources' = Touch(loadedResources, r),
             target' = [target EXCEPT ![c] = r], pc' = [pc EXCEPT ![c] = "using"]
      PROVE  Pool!Take(c, r)
  <2>1. Placed' = Placed /\ Ready' = Ready
    BY <1>5, <1>6, TouchFrame DEF Ready
  <2>2. /\ \A d \in Clients \ {c} : pc'[d] = pc[d] /\ target'[d] = target[d]
        /\ pc'[c] = "using" /\ target'[c] = r
    BY <1>3, <1>6
  <2>3. Holding(c)'
    BY <1>2, <2>2 DEF Holding
  <2>4. Wants' = [Wants EXCEPT ![c] = None] /\ Holds' = [Holds EXCEPT ![c] = r]
    BY <2>2, <2>3, ClientView
  <2>5. Wants' = Wants
    BY <1>4, <2>4 DEF Wants
  <2> QED BY <1>2, <1>5, <1>6, <2>1, <2>4, <2>5 DEF Pool!Take
<1>7. ASSUME state[r] # "LOADED", target' = [target EXCEPT ![c] = r],
             NEW l \in {"loading", "turn", "sharing"}, pc' = [pc EXCEPT ![c] = l],
             Pool!Enter(r) \/ UNCHANGED <<Placed, Ready>>
      PROVE  Pool!Ask(c, r)
  <2>1. /\ \A d \in Clients \ {c} : pc'[d] = pc[d] /\ target'[d] = target[d]
        /\ pc'[c] = l /\ target'[c] = r
    BY <1>3, <1>7
  <2>2. ~Holding(c)'
    BY <2>1 DEF Holding
  <2>3. Wants' = [Wants EXCEPT ![c] = r] /\ Holds' = [Holds EXCEPT ![c] = None]
    BY <2>1, <2>2, ClientView
  <2>4. Holds' = Holds
    BY <1>4, <2>3 DEF Holds
  <2>5. r \notin Ready
    BY <1>7 DEF Ready
  <2> QED BY <1>2, <1>7, <2>3, <2>4, <2>5 DEF Pool!Ask
<1>8. CASE LoadHit(c, r)
  <2>1. Pool!Take(c, r)
    BY <1>6, <1>8 DEF LoadHit, Goto
  <2> QED BY <2>1 DEF Pool!Next
<1>9. CASE LoadMiss(c, r) /\ MyTurn(r, Append(queuedResources, r))
  <2>1. /\ StartLoad(c, r, Append(queuedResources, r)) /\ state[r] # "LOADED"
        /\ usedCount[r] = 0 /\ target' = [target EXCEPT ![c] = r]
        /\ pc' = [pc EXCEPT ![c] = "loading"] /\ usedResources < ConcurrentLimit
    BY <1>9 DEF LoadMiss, StartLoad, Goto, MyTurn
  <2>2. Pool!Enter(r)
    BY <2>1, NobodyInside, StartEnters
  <2>3. Pool!Ask(c, r)
    BY <1>7, <2>1, <2>2
  <2> QED BY <2>3 DEF Pool!Next
<1>10. CASE LoadMiss(c, r) /\ ~MyTurn(r, Append(queuedResources, r))
  <2>1. /\ state[r] # "LOADED" /\ state' = [state EXCEPT ![r] = "LOADING"]
        /\ target' = [target EXCEPT ![c] = r] /\ pc' = [pc EXCEPT ![c] = "turn"]
        /\ loadedResources' = loadedResources
    BY <1>10 DEF LoadMiss, WaitTurn, Goto
  <2>2. Placed' = Placed /\ Ready' = Ready
    BY <2>1, PlacesFrame DEF Ready, Inv, TypeOK
  <2>3. Pool!Ask(c, r)
    BY <1>7, <2>1, <2>2
  <2> QED BY <2>3 DEF Pool!Next
<1>11. CASE LoadShared(c, r) /\ state[r] = "LOADED"
  <2>1. Pool!Take(c, r)
    BY <1>6, <1>11 DEF LoadShared, Goto
  <2> QED BY <2>1 DEF Pool!Next
<1>12. CASE LoadShared(c, r) /\ state[r] = "LOADING"
  <2>1. /\ state' = state /\ loadedResources' = loadedResources
        /\ target' = [target EXCEPT ![c] = r] /\ pc' = [pc EXCEPT ![c] = "sharing"]
    BY <1>12 DEF LoadShared, Goto
  <2>2. Placed' = Placed /\ Ready' = Ready
    BY <2>1, PlacesFrame DEF Ready
  <2>3. Pool!Ask(c, r)
    BY <1>7, <1>12, <2>1, <2>2
  <2> QED BY <2>3 DEF Pool!Next
<1>13. CASE LoadShared(c, r) /\ state[r] = "NOT_LOADED"
  <2>1. /\ state' = state /\ loadedResources' = loadedResources
        /\ target' = target /\ pc' = pc
    BY <1>13 DEF LoadShared
  <2>2. Placed' = Placed /\ Ready' = Ready
    BY <2>1, PlacesFrame DEF Ready
  <2>3. Wants' = Wants /\ Holds' = Holds
    BY <2>1 DEF Wants, Holds, Holding
  <2> QED BY <2>2, <2>3 DEF Pool!vars
<1> QED BY <1>1, <1>8, <1>9, <1>10, <1>11, <1>12, <1>13 DEF LoadShared

(* The other steps of a client.                                            *)
LEMMA ContinueRefines ==
  ASSUME Inv, NEW c \in Clients, Continue(c)
  PROVE  [Pool!Next]_Pool!vars
<1> DEFINE r == target[c]
<1>1. /\ pc \in [Clients -> Locations] /\ target \in [Clients -> Resources \cup {None}]
      /\ state \in [Resources -> {"NOT_LOADED", "LOADING", "LOADED"}]
  BY DEF Inv, TypeOK
<1>2. \A q \in Placed : q \in Resources
  BY ElementOfSeq DEF Inv, TypeOK, Placed, Elements
<1>3. CASE TakeTurn(c) /\ MyTurn(r, queuedResources)
  <2>1. /\ StartLoad(c, r, queuedResources) /\ target' = target /\ pc[c] = "turn"
        /\ usedResources < ConcurrentLimit /\ pc' = [pc EXCEPT ![c] = "loading"]
    BY <1>3 DEF TakeTurn, MyTurn, StartLoad, Goto
  <2>2. r \notin Placed /\ state[r] = "LOADING" /\ r \in Resources
    BY <2>1, WaitingNotPlaced, InsideTarget
  <2>3. Pool!Enter(r)
    BY <2>1, <2>2, StartEnters
  <2>4. \A d \in Clients : Holding(d)' <=> Holding(d)
    BY <1>1, <2>1 DEF Holding
  <2>5. Wants' = Wants /\ Holds' = Holds
    BY <2>1, <2>4 DEF Wants, Holds
  <2>6. Wants[c] = r
    BY <2>1 DEF Wants, Holding
  <2>7. Pool!Bring(r)
    BY <2>3, <2>5, <2>6 DEF Pool!Bring
  <2> QED BY <2>2, <2>7 DEF Pool!Next
<1>4. CASE \/ TakeTurn(c) /\ ~MyTurn(r, queuedResources)
           \/ LoadReturns(c) \/ NotifyLoaded(c) \/ NotifyReleased(c)
           \/ ShareAwake(c) /\ state[r] = "LOADING"
  <2>1. /\ UNCHANGED <<state, loadedResources, target>>
        /\ \/ pc' = pc
           \/ pc[c] = "loading" /\ pc' = [pc EXCEPT ![c] = "loaded"]
           \/ pc[c] = "loading" /\ pc' = [pc EXCEPT ![c] = "failed"]
           \/ /\ pc[c] = "notifying"
              /\ pc' = [pc EXCEPT ![c] = IF target[c] = None THEN "idle" ELSE "using"]
           \/ pc[c] = "released" /\ pc' = [pc EXCEPT ![c] = "idle"]
    BY <1>4 DEF TakeTurn, LoadReturns, NotifyLoaded, NotifyReleased, ShareAwake, Goto, shared
  <2>2. Placed' = Placed /\ Ready' = Ready
    BY <2>1, PlacesFrame DEF Ready
  <2>3. \A d \in Clients : Holding(d)' <=> Holding(d)
    BY <1>1, <2>1 DEF Holding
  <2>4. Wants' = Wants /\ Holds' = Holds
    BY <2>1, <2>3 DEF Wants, Holds
  <2> QED BY <2>2, <2>4 DEF Pool!vars
<1>5. CASE FinishLoad(c)
  <2>1. pc[c] \in {"loaded", "failed"} /\ Owner(c) /\ FirstCaller(c) /\ ~Holding(c)
    BY <1>5 DEF FinishLoad, Owner, FirstCaller, Holding
  <2>2. r \in Resources
    BY <2>1, InsideTarget
  <2>3. r \in Placed /\ state[r] = "LOADING"
    BY <2>1, <2>2 DEF Inv, PlacesMatchStates, LoadingHasOwner
  <2>4. Wants[c] = r /\ r \in Placed \ Ready
    BY <2>1, <2>3 DEF Wants, Ready
  <2>5. CASE pc[c] = "loaded"
    <3>1. /\ state' = [state EXCEPT ![r] = "LOADED"] /\ target' = target
          /\ loadedResources' = loadedResources /\ pc' = [pc EXCEPT ![c] = "notifying"]
      BY <1>5, <2>5 DEF FinishLoad, Goto
    <3>2. Placed' = Placed /\ Ready' = Ready \cup {r}
      BY <1>1, <2>2, <3>1, PlacesFrame DEF Ready
    <3>3. /\ \A d \in Clients \ {c} : pc'[d] = pc[d] /\ target'[d] = target[d]
          /\ pc'[c] = "notifying" /\ target'[c] = r
      BY <1>1, <3>1
    <3>4. Holding(c)'
      BY <2>2, <3>3, NoneAssumption DEF Holding
    <3>5. Wants' = [Wants EXCEPT ![c] = None] /\ Holds' = [Holds EXCEPT ![c] = r]
      BY <3>3, <3>4, ClientView
    <3>6. Pool!Arrive(c)
      BY <2>4, <3>2, <3>5 DEF Pool!Arrive
    <3> QED BY <3>6 DEF Pool!Next
  <2>6. CASE pc[c] = "failed"
    <3>1. /\ state' = [state EXCEPT ![r] = "NOT_LOADED"]
          /\ target' = [target EXCEPT ![c] = None]
          /\ loadedResources' = Without(loadedResources, r)
          /\ pc' = [pc EXCEPT ![c] = "notifying"]
      BY <1>5, <2>6 DEF FinishLoad, Goto
    <3>2. Placed' = Placed \ {r}
      <4>1. Elements(loadedResources') = Elements(loadedResources) \ {r}
        BY <3>1, WithoutFacts DEF Inv, PlacesBounded
      <4> QED BY <4>1 DEF Placed, Elements
    <3>3. Ready' = Ready
      BY <1>1, <2>2, <2>3, <3>1 DEF Ready
    <3>4. /\ \A d \in Clients \ {c} : pc'[d] = pc[d] /\ target'[d] = target[d]
          /\ target'[c] = None
      BY <1>1, <3>1
    <3>5. Wants' = [Wants EXCEPT ![c] = None] /\ Holds' = [Holds EXCEPT ![c] = None]
      BY <3>4, ClientView DEF Holding
    <3>6. Holds' = Holds
      BY <2>1, <3>5 DEF Holds
    <3>7. Pool!Fail(c)
      BY <2>4, <3>2, <3>3, <3>5, <3>6 DEF Pool!Fail
    <3> QED BY <3>7 DEF Pool!Next
  <2> QED BY <2>1, <2>5, <2>6
<1>6. CASE ShareAwake(c) /\ state[r] # "LOADING"
  <2>1. pc[c] = "sharing" /\ ~Holding(c) /\ state' = state
    BY <1>6 DEF ShareAwake, Holding
  <2>2. r \in Resources /\ r # None
    BY <2>1, InsideTarget, NoneAssumption
  <2>3. Wants[c] = r /\ Ready' = Ready
    BY <2>1 DEF Wants, Ready
  <2>4. CASE state[r] = "LOADED"
    <3>1. /\ loadedResources' = Touch(loadedResources, r) /\ target' = target
          /\ pc' = [pc EXCEPT ![c] = "using"]
      BY <1>6, <2>4 DEF ShareAwake, Goto
    <3>2. r \in Placed /\ r \in Ready
      BY <2>2, <2>4 DEF Inv, PlacesMatchStates, Ready
    <3>3. Placed' = Placed
      BY <2>2, <3>1, <3>2, TouchFrame
    <3>4. /\ \A d \in Clients \ {c} : pc'[d] = pc[d] /\ target'[d] = target[d]
          /\ pc'[c] = "using" /\ target'[c] = r
      BY <1>1, <3>1
    <3>5. Holding(c)'
      BY <2>2, <3>4 DEF Holding
    <3>6. Wants' = [Wants EXCEPT ![c] = None] /\ Holds' = [Holds EXCEPT ![c] = r]
      BY <3>4, <3>5, ClientView
    <3>7. Pool!Grant(c)
      BY <2>3, <3>2, <3>3, <3>6 DEF Pool!Grant
    <3> QED BY <3>7 DEF Pool!Next
  <2>5. CASE state[r] = "NOT_LOADED"
    <3>1. /\ loadedResources' = loadedResources /\ target' = [target EXCEPT ![c] = None]
      BY <1>6, <2>5 DEF ShareAwake
    <3>2. pc' = [pc EXCEPT ![c] = "idle"]
      BY <1>6, <2>5 DEF ShareAwake, Goto
    <3>3. r \notin Placed
      <4>1. ~\E d \in Clients : Owner(d) /\ target[d] = r
        BY <2>2, <2>5 DEF Inv, LoadingHasOwner, Owner, FirstCaller
      <4> QED BY <2>2, <2>5, <4>1 DEF Inv, PlacesMatchStates
    <3>4. Placed' = Placed
      BY <3>1, PlacesFrame
    <3>5. /\ \A d \in Clients \ {c} : pc'[d] = pc[d] /\ target'[d] = target[d]
          /\ target'[c] = None
      BY <1>1, <3>1, <3>2
    <3>6. Wants' = [Wants EXCEPT ![c] = None] /\ Holds' = [Holds EXCEPT ![c] = None]
      BY <3>5, ClientView DEF Holding
    <3>7. Holds' = Holds
      BY <2>1, <3>6 DEF Holds
    <3>8. Pool!Refuse(c)
      BY <2>2, <2>3, <3>3, <3>4, <3>6, <3>7 DEF Pool!Refuse
    <3> QED BY <3>8 DEF Pool!Next
  <2> QED BY <1>1, <1>6, <2>2, <2>4, <2>5
<1>7. CASE Release(c)
  <2>1. /\ pc[c] = "using" /\ state' = state /\ loadedResources' = loadedResources
        /\ target' = [target EXCEPT ![c] = None]
        /\ \A d \in Clients \ {c} : pc'[d] = pc[d]
    BY <1>1, <1>7 DEF Release, Goto
  <2>2. r \in Resources /\ r # None
    BY <2>1, InsideTarget, NoneAssumption
  <2>3. Placed' = Placed /\ Ready' = Ready
    BY <2>1, PlacesFrame DEF Ready
  <2>4. /\ \A d \in Clients \ {c} : pc'[d] = pc[d] /\ target'[d] = target[d]
        /\ target'[c] = None
    BY <1>1, <2>1
  <2>5. Wants' = [Wants EXCEPT ![c] = None] /\ Holds' = [Holds EXCEPT ![c] = None]
    BY <2>4, ClientView DEF Holding
  <2>6. Wants[c] = None /\ Holds[c] # None
    BY <2>1, <2>2 DEF Wants, Holds, Holding
  <2>7. Wants' = Wants
    BY <2>5, <2>6 DEF Wants
  <2>8. Pool!GiveBack(c)
    BY <2>3, <2>5, <2>6, <2>7 DEF Pool!GiveBack
  <2> QED BY <2>8 DEF Pool!Next
<1> QED BY <1>3, <1>4, <1>5, <1>6, <1>7 DEF Continue

(* The loader starts as an empty pool.                                     *)
LEMMA InitRefines ==
  ASSUME Init
  PROVE  Pool!Init
<1>1. Placed = {}
  BY DEF Init, Placed, Elements
<1>2. Ready = {} /\ \A c \in Clients : ~Holding(c) /\ target[c] = None
  BY DEF Init, Ready, Holding
<1> QED BY <1>1, <1>2 DEF Pool!Init, Wants, Holds

(* Every step of the code is a step of the pool or does not show there: a  *)
(* resource enters only for a client that wants it and on a place nobody   *)
(* uses, and no client is answered but with what is loaded.                *)
THEOREM LoaderImplementsPool == Spec => ImplementsPool
<1>1. Init => Pool!Init
  BY InitRefines
<1>2. Inv /\ [Next]_vars => [Pool!Next]_Pool!vars
  <2> SUFFICES ASSUME Inv, [Next]_vars PROVE [Pool!Next]_Pool!vars
    OBVIOUS
  <2>1. CASE UNCHANGED <<state, loadedResources, pc, target>>
    <3>1. Placed' = Placed
      BY <2>1, PlacesFrame
    <3>2. Ready' = Ready /\ Wants' = Wants /\ Holds' = Holds
      BY <2>1 DEF Ready, Wants, Holds, Holding
    <3> QED BY <3>1, <3>2 DEF Pool!vars
  <2>2. ASSUME NEW c \in Clients, SpuriousWake(c)
        PROVE  UNCHANGED <<state, loadedResources, pc, target>>
    BY <2>2 DEF SpuriousWake, shared
  <2>3. CASE UNCHANGED vars
    BY <2>1, <2>3 DEF vars, shared
  <2> QED BY <2>1, <2>2, <2>3, CallRefines, ContinueRefines DEF Next
<1> QED BY <1>1, <1>2, Invariance, PTL DEF Spec, ImplementsPool, Pool!Spec
=============================================================================
