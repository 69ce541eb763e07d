-------------------------- MODULE ResponseStreamProofs --------------------------
(***************************************************************************)
(* Theorems about ResponseStream for every minimum, every size of a        *)
(* callback and every generator.                                           *)
(***************************************************************************)
EXTENDS ResponseStream, TLAPS

(* The inductive invariant: the buffer starts at consumed, and what was    *)
(* copied ends where the next copy starts; the end comes after everything. *)
Inv ==
  /\ TypeOK
  /\ consumed + generator_offset = sent
  /\ phase = "ended" => generator_end /\ sent = made

USE MinimumAssumption, RoomsAssumption DEF Len, Left, SmallerOf, Minimum

LEMMA InitInv == Init => Inv
<1> SUFFICES ASSUME Init PROVE Inv
  OBVIOUS
<1>1. made \in Nat
  BY DEF Init
<1>2. phase = "idle" /\ max = 1 /\ consumed = 0 /\ generator_offset = 0 /\ sent = 0
  BY DEF Init
<1>7. generator_end \in BOOLEAN
  BY DEF Init
<1>3. consumed \in 0..made /\ generator_offset \in 0..Len
  BY <1>1, <1>2
<1>4. consumed + generator_offset = sent
  BY <1>2
<1>5. TypeOK
  BY <1>1, <1>2, <1>3, <1>7 DEF TypeOK
<1>6. phase # "ended"
  BY <1>2
<1> QED BY <1>4, <1>5, <1>6 DEF Inv

(* In the copy, with the numbers that the code computes.                   *)
LEMMA CopyFacts ==
  ASSUME Inv, Copy
  PROVE  LET data_len == SmallerOf(Left, max)
         IN /\ data_len \in Nat \ {0} /\ data_len <= Left
            /\ sent' = sent + data_len
            /\ consumed' + generator_offset' = sent'
            /\ sent' <= made
            /\ consumed' \in Nat /\ generator_offset' \in Nat
<1> DEFINE data_len == SmallerOf(Left, max)
<1>1. /\ made \in Nat /\ consumed \in Nat /\ generator_offset \in Nat /\ max \in Nat \ {0}
      /\ generator_offset <= Len /\ consumed + generator_offset = sent
  BY DEF Inv, TypeOK
<1>2. Left \in Nat \ {0}
  BY <1>1 DEF Copy
<1>3. data_len \in Nat \ {0} /\ data_len <= Left
  BY <1>1, <1>2
<1>4. sent' = consumed + generator_offset + data_len /\ Consume(generator_offset + data_len)
  BY DEF Copy
<1> HIDE DEF data_len
<1>5. consumed' + generator_offset' = sent' /\ consumed' \in Nat /\ generator_offset' \in Nat
  <2>1. CASE Len - (generator_offset + data_len) < Minimum
    <3>1. consumed' = consumed + (generator_offset + data_len) /\ generator_offset' = 0
      BY <1>4, <2>1 DEF Consume
    <3> QED BY <1>1, <1>3, <1>4, <3>1
  <2>2. CASE ~(Len - (generator_offset + data_len) < Minimum)
    <3>1. consumed' = consumed /\ generator_offset' = generator_offset + data_len
      BY <1>4, <2>2 DEF Consume
    <3> QED BY <1>1, <1>3, <1>4, <3>1
  <2> QED BY <2>1, <2>2
<1>6. sent' <= made /\ sent' = sent + data_len
  BY <1>1, <1>3, <1>4
<1> QED BY <1>3, <1>5, <1>6 DEF data_len

LEMMA NextInv == Inv /\ [Next]_vars => Inv'
<1> SUFFICES ASSUME Inv, [Next]_vars PROVE Inv'
  OBVIOUS
<1>1. CASE Callback
  BY <1>1 DEF Inv, TypeOK, Callback
<1>2. CASE Generate
  <2>1. PICK n \in 0..MaxPiece, more \in BOOLEAN : made' = made + n /\ generator_end' = ~more
    BY <1>2 DEF Generate
  <2>2. /\ phase = "filling" /\ phase' = phase /\ max' = max /\ consumed' = consumed
        /\ generator_offset' = generator_offset /\ sent' = sent
    BY <1>2 DEF Generate
  <2> QED BY <2>1, <2>2 DEF Inv, TypeOK
<1>3. CASE End
  <2>1. ~(Left < Minimum) \/ generator_end
    BY <1>3 DEF End, NeedsMore
  <2>2. Left = 0 /\ Minimum > 0
    BY <1>3 DEF End, Inv, TypeOK
  <2>3. generator_end
    BY <2>1, <2>2
  <2>4. /\ phase' = "ended" /\ max' = max /\ made' = made /\ consumed' = consumed
        /\ generator_offset' = generator_offset /\ generator_end' = generator_end /\ sent' = sent
    BY <1>3 DEF End
  <2>5. TypeOK'
    BY <2>4 DEF Inv, TypeOK
  <2>6. sent = made
    BY <2>2 DEF Inv, TypeOK
  <2>7. consumed' + generator_offset' = sent'
    BY <2>4 DEF Inv
  <2>8. generator_end' /\ sent' = made'
    BY <2>3, <2>4, <2>6
  <2> QED BY <2>5, <2>7, <2>8 DEF Inv
<1>4. CASE Copy
  <2>1. /\ consumed' + generator_offset' = sent' /\ sent' <= made
        /\ consumed' \in Nat /\ generator_offset' \in Nat
    BY <1>4, CopyFacts
  <2>2. /\ made' = made /\ max' = max /\ generator_end' = generator_end /\ phase' = "idle"
    BY <1>4 DEF Copy
  <2>3. TypeOK'
    <3>1. made' \in Nat /\ max' \in Nat \ {0} /\ generator_end' \in BOOLEAN /\ phase' = "idle"
      BY <2>2 DEF Inv, TypeOK
    <3>2. consumed' \in 0..made' /\ generator_offset' \in 0..(made' - consumed') /\ sent' \in Nat
      <4>1. made \in Nat /\ made' = made
        BY <2>2 DEF Inv, TypeOK
      <4>2. \A m, c, o \in Nat : c + o <= m => c \in 0..m /\ o \in 0..(m - c) /\ c + o \in Nat
        OBVIOUS
      <4>3. consumed' + generator_offset' <= made'
        BY <2>1, <4>1
      <4> QED BY <2>1, <4>1, <4>2, <4>3
    <3> QED BY <3>1, <3>2 DEF TypeOK
  <2>4. phase' # "ended" /\ consumed' + generator_offset' = sent'
    BY <2>1, <2>2
  <2> QED BY <2>3, <2>4 DEF Inv
<1>5. CASE UNCHANGED vars
  BY <1>5 DEF Inv, TypeOK, vars
<1> QED BY <1>1, <1>2, <1>3, <1>4, <1>5 DEF Next

THEOREM InvHolds == Spec => []Inv
BY InitInv, NextInv, PTL DEF Spec

(* The variables of microhttpd_request have their types, and               *)
(* generator_offset never passes the end of the buffer.                    *)
THEOREM TypeHolds == Spec => []TypeOK
<1>1. Inv => TypeOK
  BY DEF Inv
<1> QED BY <1>1, InvHolds, PTL

(* generator_callback skips no byte and sends none twice, whatever sizes   *)
(* it is called with and however the output is cut into pieces.            *)
THEOREM InOrderHolds == Spec => InOrder
<1>1. Inv /\ [Next]_vars =>
        [sent' # sent => consumed + generator_offset = sent /\ sent' <= made]_vars
  <2> SUFFICES ASSUME Inv, Next, sent' # sent
               PROVE  consumed + generator_offset = sent /\ sent' <= made
    OBVIOUS
  <2>1. Copy
    BY DEF Next, Callback, Generate, End
  <2> QED BY <2>1, CopyFacts DEF Inv
<1> QED BY <1>1, InvHolds, PTL DEF Spec, InOrder

(* A chunk below the minimum is the last one.                              *)
THEOREM SmallChunkHolds == Spec => SmallChunkIsLast
<1>1. Inv /\ [Next]_vars =>
        [sent' # sent /\ sent' - sent < Minimum => generator_end /\ sent' = made]_vars
  <2> SUFFICES ASSUME Inv, Next, sent' # sent, sent' - sent < Minimum
               PROVE  generator_end /\ sent' = made
    OBVIOUS
  <2>1. Copy
    BY DEF Next, Callback, Generate, End
  <2>2. /\ made \in Nat /\ consumed \in Nat /\ generator_offset \in Nat /\ max \in Nat \ {0}
        /\ consumed + generator_offset = sent
    BY DEF Inv, TypeOK
  <2> DEFINE data_len == SmallerOf(Left, max)
  <2>3. data_len \in Nat /\ sent' = sent + data_len
    BY <2>1, CopyFacts
  <2>4. data_len < Minimum
    BY <2>2, <2>3
  <2>5. Left < Minimum /\ data_len = Left
    BY <2>2, <2>4
  <2>6. generator_end
    BY <2>1, <2>5 DEF Copy, NeedsMore
  <2> QED BY <2>2, <2>3, <2>5, <2>6
<1> QED BY <1>1, InvHolds, PTL DEF Spec, SmallChunkIsLast

(* generator_callback implements the stream that ByteStream specifies.     *)
THEOREM Implements == Spec => IsStream
<1>1. Init => Stream!Init
  BY DEF Init, Stream!Init
<1>2. Inv /\ [Next]_vars =>
        [Stream!Next]_<<made, generator_end, sent, phase = "ended">>
  <2> SUFFICES ASSUME Inv, [Next]_vars
               PROVE  Stream!Next \/ UNCHANGED <<made, generator_end, sent, phase = "ended">>
    OBVIOUS
  <2>1. CASE Callback
    BY <2>1 DEF Callback
  <2>2. CASE Generate
    BY <2>2 DEF Generate, NeedsMore, Inv, TypeOK, Stream!Next, Stream!Write
  <2>3. CASE End
    <3>1. generator_end /\ sent = made
      <4>1. phase' = "ended" /\ generator_end' = generator_end /\ sent' = sent /\ made' = made
        BY <2>3 DEF End
      <4>2. Inv'
        BY NextInv
      <4> QED BY <4>1, <4>2 DEF Inv
    <3> QED BY <2>3, <3>1 DEF End, Stream!Next, Stream!End
  <2>4. CASE Copy
    <3>1. sent \in Nat /\ sent' \in Nat /\ sent < sent' /\ sent' <= made
      BY <2>4, CopyFacts DEF Inv, TypeOK
    <3>2. /\ phase = "filling" /\ phase' = "idle" /\ made' = made
          /\ generator_end' = generator_end
      BY <2>4 DEF Copy
    <3> QED BY <3>1, <3>2 DEF Stream!Next, Stream!Read
  <2>5. CASE UNCHANGED vars
    BY <2>5 DEF vars
  <2> QED BY <2>1, <2>2, <2>3, <2>4, <2>5 DEF Next
<1> QED BY <1>1, <1>2, InvHolds, PTL DEF Spec, IsStream, Stream!Spec
=============================================================================
