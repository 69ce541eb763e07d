------------------------------ MODULE JsonBuilder ------------------------------
(***************************************************************************)
(* json_builder: a document written by calls of object, array, key, value, *)
(* indent, close and finish, while the streamed response removes what it   *)
(* has sent from the front (discard_current_prefix).  The calls may come   *)
(* in any order that makes sense of the document: keys and values          *)
(* alternate in an object, and there is one value at the top.              *)
(*                                                                         *)
(* A byte is a letter or its name; a number, true, false or null is the    *)
(* one byte "1".                                                           *)
(* The reader at the end of the module is the grammar of RFC 8259 for      *)
(* these bytes and knows nothing of the builder.                           *)
(***************************************************************************)
EXTENDS Integers, SequencesExt

CONSTANTS
  Texts,       \* the strings the callers pass, sequences of characters
  MaxBytes     \* bound: bytes of a document before it is finished

VARIABLES
  out,           \* history: all bytes ever pushed to json
  gone,          \* how many of them were discarded
  stack,         \* the closing bytes
  mode,          \* "NORMAL", "IN_VALUE", "AFTER_VALUE"
  need_indent,
  awaiting,      \* history: a key waits for its value
  said,          \* history: the strings of the document, in order
  finished       \* history: finish was called

vars == <<out, gone, stack, mode, need_indent, awaiting, said, finished>>

(* The bytes that mean something in a document.                            *)
Quote == "quote"
Backslash == "backslash"
Space == "space"
NewLine == "nl"
Control == "ctl"        \* a byte below 32 without an escape of its own
BeginObject == "begin_object"
EndObject == "end_object"
BeginArray == "begin_array"
EndArray == "end_array"
NameSeparator == "name_separator"     \* the colon
ValueSeparator == "value_separator"   \* the comma

(* The bytes in memory.                                                    *)
json == SubSeq(out, gone + 1, Len(out))

-----------------------------------------------------------------------------
SlipNoEscape(chr) == IF chr = NewLine THEN <<Backslash, "n">> ELSE <<chr>>

(* encode, for one character.                                              *)
Encode(chr) ==
  CASE chr \in {Quote, Backslash} -> <<Backslash, chr>>
    [] chr = NewLine         -> <<Backslash, "n">>
    [] chr = Control         -> <<"u", "0", "0", "1", "F">>
    [] OTHER                 -> <<chr>>

Encoded(text) ==
  LET bytes[n \in 0..Len(text)] == IF n = 0 THEN <<>> ELSE bytes[n - 1] \o Encode(text[n])
  IN bytes[Len(text)]

(* A state of the builder proper, and the two things that write.           *)
Builder == [out |-> out, stack |-> stack, mode |-> mode, need_indent |-> need_indent]

Push(b, bytes) == [b EXCEPT !.out = @ \o bytes]

(* json.back() sees what was not discarded yet.                            *)
EndsWith(b, byte) == Len(b.out) > gone /\ Last(b.out) = byte

SlipCommaKept(b, start_value) ==
  LET closed == IF b.mode = "IN_VALUE"
                THEN [Push(b, <<Quote>>) EXCEPT !.mode = "AFTER_VALUE"] ELSE b
      separated == IF start_value /\ closed.mode = "AFTER_VALUE" THEN Push(closed, <<ValueSeparator>>) ELSE closed
  IN [separated EXCEPT !.need_indent = FALSE]

normalize_mode(b, start_value) ==
  LET closed == IF b.mode = "IN_VALUE"
                THEN [Push(b, <<Quote>>) EXCEPT !.mode = "AFTER_VALUE"] ELSE b
      separated == IF start_value /\ closed.mode = "AFTER_VALUE"
                   THEN [Push(closed, <<ValueSeparator>>) EXCEPT !.mode = "NORMAL"] ELSE closed
      blanks == IF EndsWith(separated, NameSeparator) THEN <<Space>>
                ELSE <<NewLine>> \o [i \in DOMAIN b.stack |-> Space]
  IN IF b.need_indent THEN [Push(separated, blanks) EXCEPT !.need_indent = FALSE] ELSE separated

Opened(b, opening, closing) ==
  LET n == normalize_mode(b, TRUE)
  IN [Push(n, <<opening>>) EXCEPT !.stack = Append(@, closing)]

Keyed(b, text) ==
  Push(normalize_mode(b, TRUE), <<Quote>> \o Encoded(text) \o <<Quote, NameSeparator>>)

SlipAlwaysOpened(b, text, append) ==
  [Push(normalize_mode(b, TRUE), <<Quote>> \o Encoded(text)) EXCEPT !.mode = "IN_VALUE"]

(* value(string_piece, append)                                             *)
Valued(b, text, append) ==
  LET start == IF append /\ b.mode = "IN_VALUE" THEN b
               ELSE Push(normalize_mode(b, TRUE), <<Quote>>)
  IN [Push(start, Encoded(text)) EXCEPT !.mode = "IN_VALUE"]

(* The values that are not strings.                                        *)
Scalar(b) == [Push(normalize_mode(b, TRUE), <<"1">>) EXCEPT !.mode = "AFTER_VALUE"]

Indented(b) ==
  IF b.need_indent THEN b ELSE [normalize_mode(b, FALSE) EXCEPT !.need_indent = TRUE]

(* The closing byte is popped before the indentation is counted.           *)
Closed(b) ==
  IF b.stack = <<>> THEN b
  ELSE [Push(normalize_mode([b EXCEPT !.stack = Front(@)], FALSE), <<Last(b.stack)>>)
          EXCEPT !.mode = "AFTER_VALUE"]

(* close, after indent if asked for, until the stack is empty.             *)
Finished(b, indent) ==
  LET closed[n \in 0..Len(b.stack)] ==
        IF n = 0 THEN b ELSE Closed(IF indent THEN Indented(closed[n - 1]) ELSE closed[n - 1])
      all == closed[Len(b.stack)]
  IN IF Len(all.out) > gone /\ ~EndsWith(all, NewLine) THEN Push(all, <<NewLine>>) ELSE all

-----------------------------------------------------------------------------
Init ==
  /\ out = <<>> /\ gone = 0 /\ stack = <<>> /\ mode = "NORMAL" /\ need_indent = FALSE
  /\ awaiting = FALSE /\ said = <<>> /\ finished = FALSE

Become(b) ==
  /\ out' = b.out /\ stack' = b.stack /\ mode' = b.mode /\ need_indent' = b.need_indent
  /\ UNCHANGED gone

(* A place for a value: the document, an array, or after a key.            *)
PlaceForValue ==
  /\ ~finished /\ Len(out) <= MaxBytes
  /\ IF stack = <<>> THEN out = <<>> ELSE Last(stack) = EndArray \/ awaiting

Object ==
  /\ PlaceForValue
  /\ Become(Opened(Builder, BeginObject, EndObject))
  /\ awaiting' = FALSE
  /\ UNCHANGED <<said, finished>>

Array ==
  /\ PlaceForValue
  /\ Become(Opened(Builder, BeginArray, EndArray))
  /\ awaiting' = FALSE
  /\ UNCHANGED <<said, finished>>

Key ==
  /\ ~finished /\ Len(out) <= MaxBytes
  /\ stack # <<>> /\ Last(stack) = EndObject /\ ~awaiting
  /\ \E text \in Texts : Become(Keyed(Builder, text)) /\ said' = Append(said, text)
  /\ awaiting' = TRUE
  /\ UNCHANGED finished

Value ==
  /\ PlaceForValue /\ stack # <<>>
  /\ \E text \in Texts, append \in BOOLEAN :
       /\ append => mode # "IN_VALUE"
       /\ Become(Valued(Builder, text, append)) /\ said' = Append(said, text)
  /\ awaiting' = FALSE
  /\ UNCHANGED finished

(* More of the string that is still open.                                  *)
MoreValue ==
  /\ ~finished /\ Len(out) <= MaxBytes /\ mode = "IN_VALUE"
  /\ \E text \in Texts :
       /\ Become(Valued(Builder, text, TRUE))
       /\ said' = [said EXCEPT ![Len(said)] = @ \o text]
  /\ UNCHANGED <<awaiting, finished>>

Number ==
  /\ PlaceForValue /\ stack # <<>>
  /\ Become(Scalar(Builder))
  /\ awaiting' = FALSE
  /\ UNCHANGED <<said, finished>>

Indent ==
  /\ ~finished /\ Len(out) <= MaxBytes
  /\ Become(Indented(Builder))
  /\ UNCHANGED <<awaiting, said, finished>>

Close ==
  /\ ~finished /\ stack # <<>> /\ ~awaiting
  /\ Become(Closed(Builder))
  /\ UNCHANGED <<awaiting, said, finished>>

Finish ==
  /\ ~finished /\ out # <<>> /\ ~awaiting
  /\ \E indent \in BOOLEAN : Become(Finished(Builder, indent))
  /\ finished' = TRUE
  /\ UNCHANGED <<awaiting, said>>

(* discard_current_prefix, called with at most the length of json.         *)
Discard ==
  /\ \E length \in 1..Len(json) : gone' = gone + length
  /\ UNCHANGED <<out, stack, mode, need_indent, awaiting, said, finished>>

Next ==
  \/ Object \/ Array \/ Key \/ Value \/ MoreValue \/ Number
  \/ Indent \/ Close \/ Finish \/ Discard

Spec == Init /\ [][Next]_vars

-----------------------------------------------------------------------------
(* The reader.  "wants" is what may come next; the strings read so far are *)
(* decoded; inside of a string "wants" is "char" or "escaped".             *)
Start == [wants |-> "value", open |-> <<>>, strings |-> <<>>, key |-> FALSE]

Bad(r) == [r EXCEPT !.wants = "nothing"]

(* After a complete value.                                                 *)
Complete(r) == [r EXCEPT !.wants = IF r.open = <<>> THEN "end" ELSE "comma_or_close"]

OpenString(r, key) == [r EXCEPT !.wants = "char", !.key = key, !.strings = Append(@, <<>>)]

AddChar(r, chr) ==
  [r EXCEPT !.wants = "char", !.strings[Len(r.strings)] = Append(@, chr)]

CanStart(r) == r.wants \in {"value", "value_or_close"}

InString(r, byte) ==
  CASE byte = Backslash          -> [r EXCEPT !.wants = "escaped"]
    [] byte = Quote              -> IF r.key THEN [r EXCEPT !.wants = "colon"] ELSE Complete(r)
    [] byte \in {NewLine, Control} -> Bad(r)
    [] OTHER                     -> AddChar(r, byte)

AfterBackslash(r, byte) ==
  CASE byte \in {Quote, Backslash} -> AddChar(r, byte)
    [] byte = "n"                -> AddChar(r, NewLine)
    [] OTHER                     -> Bad(r)

BetweenStrings(r, byte) ==
  CASE byte \in {Space, NewLine} -> r
    [] byte = Quote /\ r.wants \in {"key", "key_or_close"} -> OpenString(r, TRUE)
    [] byte = Quote /\ CanStart(r) -> OpenString(r, FALSE)
    [] byte = "1" /\ CanStart(r)   -> Complete(r)
    [] byte = BeginObject /\ CanStart(r) ->
         [r EXCEPT !.wants = "key_or_close", !.open = Append(@, EndObject)]
    [] byte = BeginArray /\ CanStart(r) ->
         [r EXCEPT !.wants = "value_or_close", !.open = Append(@, EndArray)]
    [] byte = NameSeparator /\ r.wants = "colon" -> [r EXCEPT !.wants = "value"]
    [] byte = ValueSeparator /\ r.wants = "comma_or_close" ->
         [r EXCEPT !.wants = IF Last(r.open) = EndObject THEN "key" ELSE "value"]
    [] byte \in {EndObject, EndArray} /\ r.wants \in {"comma_or_close", "key_or_close", "value_or_close"}
         /\ byte = Last(r.open) -> Complete([r EXCEPT !.open = Front(@)])
    [] OTHER -> Bad(r)

Read(r, byte) ==
  CASE r.wants = "char"    -> InString(r, byte)
    [] r.wants = "escaped" -> AfterBackslash(r, byte)
    [] OTHER               -> BetweenStrings(r, byte)

ReadAll(bytes) ==
  LET after[n \in 0..Len(bytes)] == IF n = 0 THEN Start ELSE Read(after[n - 1], bytes[n])
  IN after[Len(bytes)]

Reading == ReadAll(out)

-----------------------------------------------------------------------------
(* What was written so far is the beginning of a JSON document, however it *)
(* was cut into sent and unsent parts, and the open brackets are those on  *)
(* the stack.                                                              *)
ValidSoFar == LET r == Reading IN r.wants # "nothing" /\ r.open = stack

(* After finish the document is complete.                                  *)
FinishedIsDocument == finished => Reading.wants = "end"

(* The strings of the document are those that were passed, appended parts  *)
(* joined.                                                                 *)
SaysWhatWasSaid == Reading.strings = said
=============================================================================
