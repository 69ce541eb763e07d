----------------------------- MODULE ResponseStream -----------------------------
(***************************************************************************)
(* A response that is generated while it is sent (response_generator and   *)
(* generator_callback of rest_server.cpp).  libmicrohttpd calls the        *)
(* callback whenever it has room for some bytes; the callback generates    *)
(* until there are enough, copies, and now and then removes what was       *)
(* copied from the front of the generator's buffer.                        *)
(*                                                                         *)
(* Bytes are numbered from 0 in the order they are generated; the buffer   *)
(* holds those from consumed on.                                           *)
(***************************************************************************)
EXTENDS Integers

CONSTANTS
  MinGenerated,   \* rest_server::min_generated
  Rooms,          \* the sizes libmicrohttpd calls the callback with
  MaxPiece,       \* bound: bytes of one generate()
  MaxMade         \* bound: bytes of the whole response

(* udpipe_server.cpp sets 32 kB; libmicrohttpd asks for at least a byte.   *)
ASSUME MinimumAssumption == MinGenerated \in Nat \ {0}
ASSUME RoomsAssumption == Rooms \subseteq Nat \ {0} /\ MaxPiece \in Nat /\ MaxMade \in Nat

VARIABLES
  phase,           \* "idle", "filling" (inside the callback), "ended"
  max,             \* the argument of the callback
  made,            \* bytes generated so far
  consumed,        \* bytes removed from the front of the buffer
  generator_offset,
  generator_end,
  sent             \* history: the byte after the last one copied

vars == <<phase, max, made, consumed, generator_offset, generator_end, sent>>

Len == made - consumed

Left == Len - generator_offset

SmallerOf(a, b) == IF a < b THEN a ELSE b

Minimum == SmallerOf(MinGenerated, max)

(* respond; the constructor of the generator may have generated something. *)
Init ==
  /\ phase = "idle" /\ max = 1
  /\ made \in 0..SmallerOf(MaxPiece, MaxMade)
  /\ consumed = 0 /\ generator_offset = 0 /\ generator_end = FALSE /\ sent = 0

Callback ==
  /\ phase = "idle"
  /\ phase' = "filling"
  /\ max' \in Rooms
  /\ UNCHANGED <<made, consumed, generator_offset, generator_end, sent>>

(* The condition of the while loop.                                        *)
SlipForEver == Left < Minimum

NeedsMore == Left < Minimum /\ ~generator_end

(* A call of generate(); the one that returns false may add something too. *)
Generate ==
  /\ phase = "filling" /\ NeedsMore
  /\ \E n \in 0..MaxPiece, more \in BOOLEAN :
       /\ made + n <= MaxMade
       /\ made' = made + n
       /\ generator_end' = ~more
  /\ UNCHANGED <<phase, max, consumed, generator_offset, sent>>

SlipEndAfterLast ==
  /\ phase = "filling" /\ ~NeedsMore
  /\ generator_end
  /\ phase' = "ended"
  /\ UNCHANGED <<max, made, consumed, generator_offset, generator_end, sent>>

(* The data are over.                                                      *)
End ==
  /\ phase = "filling" /\ ~NeedsMore
  /\ Len <= generator_offset
  /\ phase' = "ended"
  /\ UNCHANGED <<max, made, consumed, generator_offset, generator_end, sent>>

(* The generator forgets what was copied, if little is left to copy.       *)
SlipForgetAll(offset) ==
  IF Len - offset < Minimum
  THEN consumed' = made /\ generator_offset' = 0
  ELSE generator_offset' = offset /\ UNCHANGED consumed

Consume(offset) ==
  IF Len - offset < Minimum
  THEN consumed' = consumed + offset /\ generator_offset' = 0
  ELSE generator_offset' = offset /\ UNCHANGED consumed

Copy ==
  /\ phase = "filling" /\ ~NeedsMore
  /\ Len > generator_offset
  /\ LET data_len == SmallerOf(Left, max)
     IN /\ sent' = consumed + generator_offset + data_len
        /\ Consume(generator_offset + data_len)
  /\ phase' = "idle"
  /\ UNCHANGED <<max, made, generator_end>>

Next == Callback \/ Generate \/ End \/ Copy

Spec == Init /\ [][Next]_vars

(* The thread inside the callback runs, and the input of the generator is  *)
(* finite: generate() returns false some time.                             *)
FairSpec ==
  /\ Spec
  /\ WF_vars(Generate \/ End \/ Copy)
  /\ SF_vars(Generate /\ generator_end')

-----------------------------------------------------------------------------
(* Every variable has its type, and the offset lies in the buffer: the     *)
(* unsigned subtraction data.len - generator_offset never wraps.           *)
TypeOK ==
  /\ phase \in {"idle", "filling", "ended"}
  /\ max \in Nat \ {0}
  /\ made \in Nat /\ consumed \in 0..made /\ generator_offset \in 0..Len /\ sent \in Nat
  /\ generator_end \in BOOLEAN

(* No byte is skipped or sent twice: a chunk starts where the last ended.  *)
InOrder == [][sent' # sent => consumed + generator_offset = sent /\ sent' <= made]_vars

(* A chunk is smaller than the minimum only if it is the last one.         *)
SmallChunkIsLast ==
  [][sent' # sent /\ sent' - sent < Minimum => generator_end /\ sent' = made]_vars

(* The response is a stream of bytes as ByteStream has it; the end is told *)
(* only when everything generated was sent.                                *)
Stream == INSTANCE ByteStream WITH
  written <- made, closed <- generator_end, read <- sent, ended <- (phase = "ended")

IsStream == Stream!Spec

(* Every callback returns.                                                 *)
CallbackReturns == (phase = "filling") ~> (phase # "filling")
=============================================================================
