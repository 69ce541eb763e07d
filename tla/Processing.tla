------------------------------ MODULE Processing ------------------------------
(***************************************************************************)
(* How a document is processed: by pipeline::process (pipeline.cpp) and by *)
(* the handlers of the REST service (udpipe_service.cpp), which answer     *)
(* with a generator that works after they returned.  A document is a       *)
(* sequence of sentences, each given by its number of characters; 0 is     *)
(* something the reader refuses.                                           *)
(***************************************************************************)
EXTENDS Integers, SequencesExt

CONSTANT Requests   \* records of the parameters, and of the parts the model has

VARIABLES
  request,
  phase,     \* "handle", "trial", "generate", "process"; "sent", "done", "error"
  reader,    \* the input_format: the next sentence, and whose memory the text is
  infclen,   \* the header with the number of characters
  output,    \* the sentences written
  finished   \* finish_document was called

vars == <<request, phase, reader, infclen, output, finished>>

Parts == {"tokenizer", "tagger", "parser"}

Init ==
  /\ request \in Requests
  /\ phase = IF request.handler = "pipeline" THEN "process" ELSE "handle"
  /\ reader = [at |-> 1, text |-> IF request.handler = "pipeline" THEN "block" ELSE "none"]
  /\ infclen = 0
  /\ output = <<>>
  /\ finished = FALSE

-----------------------------------------------------------------------------
(* The parts the service believes a model has: all, unless it was loaded   *)
(* once at the start to find out.                                          *)
capabilities == IF request.checked THEN request.model ELSE Parts

(* What the model does when it is asked to; the tagger has no options.     *)
new_tokenizer == "tokenizer" \in request.model /\ request.tokenizer = "good"
tag == "tagger" \in request.model
parse == "parser" \in request.model /\ request.parser = "good"

get_input_format ==
  IF request.tokenizer # "none" THEN "tokenizer" \in capabilities /\ new_tokenizer
  ELSE request.known_input
get_tagger == request.tagger = "none" \/ "tagger" \in capabilities
get_parser == request.parser = "none" \/ "parser" \in capabilities

(* The early returns of the handlers.                                      *)
Accepted ==
  /\ request.loads
  /\ CASE request.handler = "process" ->
            request.has_data /\ get_input_format /\ get_tagger /\ get_parser /\ request.known_output
       [] request.handler = "weblicht tokenize" -> new_tokenizer
       [] request.handler = "weblicht tag or parse" -> TRUE

(* The text of process is a local variable, that of Weblicht is the body   *)
(* of the request, which lives as long as the response.                    *)
Memory == IF request.handler = "process" THEN "local" ELSE "body"

set_text(text) == reader' = [at |-> 1, text |-> text]

Handle ==
  /\ phase = "handle"
  /\ phase' = IF ~Accepted THEN "error"
              ELSE IF request.handler = "weblicht tokenize" THEN "generate" ELSE "trial"
  /\ IF Accepted THEN set_text(Memory) ELSE UNCHANGED reader
  /\ UNCHANGED <<request, infclen, output, finished>>

next_sentence == reader.at <= Len(request.data) /\ request.data[reader.at] > 0

(* The input is read once before anything is sent.                         *)
TrySentence ==
  /\ phase = "trial"
  /\ next_sentence
  /\ reader' = [reader EXCEPT !.at = @ + 1]
  /\ infclen' = IF request.handler = "process" THEN infclen + request.data[reader.at] ELSE 0
  /\ UNCHANGED <<request, phase, output, finished>>

SlipErrorMissed == FALSE

ReadError == reader.at <= Len(request.data)

SlipNotCopied == Memory

(* The text the generator reads, after the handler returned.               *)
Kept == IF request.handler = "process" THEN "copy" ELSE "body"

Respond ==
  /\ phase = "trial"
  /\ ~next_sentence
  /\ IF ReadError THEN phase' = "error" /\ UNCHANGED reader
     ELSE phase' = "generate" /\ set_text(Kept)
  /\ UNCHANGED <<request, infclen, output, finished>>

(* A sentence as it is written; the errors of tag and parse are ignored.   *)
Written(tagged, parsed) == [number |-> reader.at, tagged |-> tagged, parsed |-> parsed]

Generate ==
  /\ phase = "generate"
  /\ \/ /\ next_sentence
        /\ output' = Append(output, Written(request.tagger # "none" /\ tag,
                                            request.parser # "none" /\ parse))
        /\ reader' = [reader EXCEPT !.at = @ + 1]
        /\ UNCHANGED <<phase, finished>>
     \/ /\ ~next_sentence
        /\ finished' = TRUE
        /\ phase' = "sent"
        /\ UNCHANGED <<reader, output>>
  /\ UNCHANGED <<request, infclen>>

-----------------------------------------------------------------------------
(* pipeline::process: any failure ends it, and the output is not finished. *)
Fails == (request.tagger # "none" /\ ~tag) \/ (request.parser # "none" /\ ~parse)
Constructed ==
  /\ IF request.tokenizer # "none" THEN new_tokenizer ELSE request.known_input
  /\ request.known_output

process ==
  /\ phase = "process"
  /\ \/ /\ ~Constructed \/ (next_sentence /\ Fails) \/ (~next_sentence /\ ReadError)
        /\ phase' = "error"
        /\ UNCHANGED <<reader, output, finished>>
     \/ /\ Constructed /\ next_sentence /\ ~Fails
        /\ output' = Append(output, Written(request.tagger # "none", request.parser # "none"))
        /\ reader' = [reader EXCEPT !.at = @ + 1]
        /\ UNCHANGED <<phase, finished>>
     \/ /\ Constructed /\ ~next_sentence /\ ~ReadError
        /\ finished' = TRUE
        /\ phase' = "done"
        /\ UNCHANGED <<reader, output>>
  /\ UNCHANGED <<request, infclen>>

Next == Handle \/ TrySentence \/ Respond \/ Generate \/ process

Spec == Init /\ [][Next]_vars

-----------------------------------------------------------------------------
(* A response is an error and nothing else, or it has all sentences of the *)
(* document in their order and its end, and the length of them all in the  *)
(* header, although the generator does not look at errors; sentences are   *)
(* processed as asked for, unless the parser's options are wrong or the    *)
(* parts of the model were not checked.  A pipeline that succeeds did all  *)
(* it was asked for; one that fails wrote the sentences before the failure.*)
Complete ==
  /\ finished
  /\ Len(output) = Len(request.data)
  /\ \A k \in DOMAIN request.data : output[k].number = k
AsAsked(sentence) ==
  /\ sentence.tagged <=> request.tagger # "none"
  /\ sentence.parsed <=> request.parser # "none"
Characters ==   \* in the first k sentences
  LET sum[k \in 0..Len(request.data)] == IF k = 0 THEN 0 ELSE sum[k - 1] + request.data[k]
  IN sum
AllProcessed == \A k \in DOMAIN request.data : AsAsked(output[k])

ResponsesWhole ==
  /\ phase = "error" /\ request.handler # "pipeline" => output = <<>>
  /\ phase = "sent" =>
       /\ Complete
       /\ request.handler = "process" => infclen = Characters[Len(request.data)]
       /\ request.checked /\ request.parser # "bad"
            /\ request.handler = "process" => AllProcessed
  /\ phase = "done" => Complete /\ AllProcessed
  /\ phase = "error" => ~finished

(* The generator reads a text that is still there.                         *)
TextAlive == phase = "generate" => reader.text # "local"
=============================================================================
