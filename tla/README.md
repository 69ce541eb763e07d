# UDPipe in TLA+

UDPipe is a pipeline for tokenization, tagging, lemmatization and dependency
parsing of text, with a library, a command line tool and a REST server. This
directory holds TLA+ models of its core logic, the TLC configurations that
check them on small instances, and TLAPS proofs of the most important
properties for every instance. Paths below are relative to the repository.

## 1. The system

### Components, their state and their operations

| Component | Source | State | Operations |
|---|---|---|---|
| Model loader | `src/utils/threadsafe_resource_loader.h` | per-resource counts and states, the places in use order, the queue of first callers, one mutex and one condition variable | `load`, `release` by many threads |
| REST service | `src/rest_server/udpipe_service.*` | the models and their names, the loader | `init`, `handle_*`; a `loaded_model` borrows a model for a request |
| REST server | `src/rest_server/microrestd/rest_server/rest_server.cpp`, `udpipe_server.cpp` | daemon, connections, requests | `start`, the callbacks of libmicrohttpd, `wait_until_signalled`, `stop` |
| Streamed responses | same, `generator_callback` | buffer of the generator, offset, end flag | callback with a room of some size |
| JSON builder | `.../rest_server/json_builder.*` | the document, the stack of closing brackets, a mode | `object`, `array`, `key`, `value`, `indent`, `close`, `finish`, `discard_current_prefix` |
| Transition systems | `src/parsito/transition`, `configuration`, `tree` | stack, buffer, tree | shift, left and right arcs, swap, link2 arcs |
| Parsers | `src/parsito/parser/parser_nn.cpp` | pooled workspaces: embeddings, one tree, the beam | `parse_greedy`, `parse_beam_search` |
| Input and output formats | `src/sentence` | the text still to be read, counters of the document | `read_block`, `set_text`, `next_sentence`, `write_sentence` |
| Tokenizers | `src/tokenizer`, `src/morphodita/tokenizer` | text, window of network outcomes, saved spaces, paragraphs | `set_text`, `next_sentence`, `reset_document` |
| Multi-word splitter, detokenizer | `src/tokenizer` | tables of rules; a suffix array of raw text | `append_token`, `detokenize`, `train` |
| Tagger and morphology | `src/morphodita/tagger`, `morpho` | trellis, caches of scores, dictionary, guesser, persistent map | `tag`, `analyze` |
| Model, pipeline, evaluator | `src/model` | caches in thread-safe stacks; the joint tokenizer's paragraph | `tag`, `parse`, `process`, `evaluate` |
| Training | `*_trainer*`, `*_encoder*`, the oracles of `src/parsito/transition` | averaged weights, counts of rules, the configuration an oracle follows | `train`, `predict` |
| Utilities | `src/utils` | - | parsing of numbers and options, binary coding, compression |

`PROJECT.json` lists all of them, those left out with the reason. Its list
`hazards` has what is hard to test at its line, with the properties that would
catch it going wrong.

## 2. Modules and how they correspond to the code

| Module | Models | Composition |
|---|---|---|
| `ResourcePool` | what the loader promises: places, readiness, who wants and who holds | abstract |
| `ResourceLoader` | `load`, `release` | implements `ResourcePool` |
| `UDPipeServer` | start, requests, stop, exit | `INSTANCE ResourceLoader` with connections and the main thread as clients |
| `Processing` | `pipeline::process`, the handlers and generators of the service | |
| `ModelNames` | the table of names that `init` of the service fills | |
| `ByteStream` | a stream of bytes with an end | abstract |
| `ResponseStream` | `generator_callback` | implements `ByteStream` |
| `JsonBuilder` | the JSON builder, and a reader of JSON as reference | |
| `Transitions` | configurations, trees and transitions, as functions | |
| `GreedyParser`, `BeamParser` | the two parsers | extend `Transitions` |
| `ParserOracles` | the static, lazy and dynamic oracles and the training loops that follow them | extends `Transitions` |
| `ConlluFormat` | CoNLL-U reader and writer | |
| `TextFormats` | horizontal, vertical and presegmented readers, two writers | |
| `TokenFields`, `SentenceFields` | MISC fields and escapes; comments of a sentence | the second extends the first |
| `GruTokenizer` | the tokenizer's windows, spaces, URLs and sentence ends | |
| `TokenizerWrapper` | blocks, ranges, saved spaces, paragraphs, plaintext output | extends `GruTokenizer` and `TokenFields` |
| `JointTokenizer` | joint segmentation of a paragraph by the cost of its parses | |
| `MultiwordSplitter`, `SplitterTraining` | `append_token` over loaded rules; the trainer of these rules | the second extends the first |
| `Detokenizer` | `detokenize` with its search in a suffix array | |
| `ModelCaches` | the thread-safe stack and the caches of `tag` and `parse` | |
| `TaggerDecoder` | the trellis, its windows, and the cache of feature scores | |
| `TaggerTraining` | the averaged perceptron, early stopping, renumbering of features | |
| `PersistentMap` | the hash map that is built, written and read at one go | |
| `Morphology`, `GuesserTraining` | `analyze`, casing variants, numbers, the guesser; the trainer of its rules | the second extends the first |
| `Evaluator` | alignment of two annotations of a text, heads, counts | |
| `LibraryState` | the data, the variables and the assumptions of the components that work alone, and what is proved of them | extends `ModelCaches`, instantiates `Processing`, `ModelNames`, `JsonBuilder`, `TaggerTraining` |
| `Library` | the components that have no partner, one at a time | extends `LibraryState`, instantiates the others |
| `*Proofs` | theorems about the module they are named after | `LibraryProofs` extends `LibraryState` and instantiates `Library`; `GreedyParserProofs` and `BeamParserProofs` share the lemmas of `TransitionsProofs`; `UDPipeServerProofs` instantiates `ResourceLoaderProofs` |
| `MC*` | instances for TLC whose values are defined by operators; the other runs give their values in the `.cfg` | `MCLibrary` gives `Library` its values |

The map in `PROJECT.json` gives the lines behind every definition. Operators named
`Slip...` are not part of the models: each is a plausible slip of the definition it
stands before, used to show that a property is able to fail.

**ResourceLoader.** `usedCount`, `state`, `loadedResources`, `usedResources` and
`queuedResources` are the members of the class. `pc` and `target` say where in
`load` or `release` a client is, `asleep` who sleeps on the condition variable and
`memory` what the calls of `resource->load()` and `release()` have done. An action
is a critical section up to the next unlock or wait; `notify_all` after the unlock is an
action of its own because other threads may run in between. Loads may fail, waits
may wake spuriously.

**UDPipeServer.** `phase` follows `main`; `stage` is the state of a connection as
the callbacks see it; `worker` is the select loop a connection is bound to
(`Threads = {}`: a thread per connection). `Busy` is the loop of libmicrohttpd's
`MHD_poll_all`: a select loop runs one callback at a time, and waits as long as that does. Requests are reduced to the model they ask for and
to whether they are refused on the way.

**Processing.** A document is a sequence of sizes of sentences, 0 for one the reader
refuses. A request has or lacks data, a tokenizer, a tagger, a parser, known formats
and a model with some of the parts. As in the
model of the code, the tagger ignores its options and only the parser may refuse them. The property relates the response to the document: an
error, or all of it, although the generator does not look at the reader's error:
the handler has read everything once before.

**ResponseStream.** `made` and `consumed` count bytes, so that the buffer of the
generator is `made - consumed`; `generator_offset` and `generator_end` are the
members of the request, `sent` is what libmicrohttpd got. Bytes are numbers of
positions: which byte is sent is which position is copied.

**JsonBuilder.** `out` is the whole document, `gone` how much of it was discarded;
`json` is the rest, which is all that `normalize_mode` may look at. Callers call in
the order that the grammar of JSON asks for. A byte is a letter or its name, and a number, `true`, `false` or
`null` is one byte. `ReadAll` reads `out` by an independent reader, a recursive function over its bytes.

**Transitions.** A configuration is a record of stack, buffer, heads, relations and children;
`Applicable` and `Perform` are the guards and effects of the six transitions.
The network is any preference: a parser may take every applicable transition.
**GreedyParser** keeps `embedded`, the relations from which the cached embeddings were
computed. **BeamParser** keeps one `tree` for all configurations of the beam, as the
code does, and saves and refreshes heads and relations; costs are a few ranks.
**ParserOracles** translates each `predict`; the loop over the words of a training sentence
is `Follow`. The table of the dynamic oracle is a recursive function over diagonals.
What the network would answer is any applicable transition.

**ConlluFormat.** A line is what its identifying columns and its head say. The
same text is read by two readers, one given the whole text and one by blocks
that `getpara` cuts. A text is built line by line as it is read, so every text
within the bounds is covered. **TextFormats** reads characters, since these formats have
nothing else. The presegmented reader joins the sentences that the tokenizer it wraps gives for a line and renumbers
their words and multi-word tokens, and stops at its error; that tokenizer is external and is told by the letters of the line what to
give: words, a multi-word token, several sentences or an error. It never gives heads or empty nodes, which the code would renumber as well. `blocks` is what `read_block` still gives, `again` the second reading after
`reset_document`, which the service does.

**GruTokenizer and TokenizerWrapper.** The network's outcome for every character of a window is
chosen by `\E`. The windows are cut at a suitable break, as in the code; saved spaces,
paragraph marks and ranges are the members of the wrapper. Texts have letters, spaces,
newlines, dots and a letter that makes a URL. `Measure` is a number that every
step lowers, which shows that all loops end without any assumption of fairness.

**JointTokenizer.** The costs that parsing gives to a span are any of a few negative
numbers. The search over `best_length` is followed position by position, the way back and the
dealing of tokens and multi-word tokens are actions.

**ModelCaches.** An action is a step of `push` or `pop` inside the spin lock; popping a cache
first releases the pointer, then removes the slot. A failing parse keeps its cache.

**Tagger.** `TaggerDecoder` follows one node per word and tag, with `prev` and the windows of
decoded tags; weights are any function to a few values. `TaggerTraining` lets the decoder
find any key for a word, so that it says nothing of how good a tagger is, only that the stored weights are the
averages of the ones used. `PersistentMap` takes any function as the hash.

**Morphology, GuesserTraining, SplitterTraining, Detokenizer.** Forms are sequences of
characters; upper and lower case and categories are functions given as constants. In both
training modules the trained rules are handed to the model of the code that uses them.

**Evaluator.** Both data are sentences of tokens of words with heads; the pointers of the loop that
aligns are `si`, `gi`, `ss`, `gs` and `multiword_range_end`. The longest common subsequence within
a multi-word range is computed as in the code and compared with the definition.

## 3. Runs

| Run | Shows |
|---|---|
| `loader` | three calls over three models and two places: a model in use stays in memory, memory is bounded, no wake-up is lost; `ImplementsPool`; every call is answered (`LoadAnswered`) |
| `server` | a thread for each of three connections, the default model preloaded: handlers work with loaded models and give them back, the exit finds nobody inside, connections end, `stop()` finishes |
| `server_pool_stop` | violation, finding 1 |
| `greedy_parser` | every parse of six words by each system with a single root: soundness, never stuck, a tree with one root, projective where it should be, children and embeddings in step, an end |
| `beam_search` | beam of two over three words: configurations sharing a tree do not mix, the heap keeps the best and the best tree is returned, the search ends |
| `response_stream` | rooms and pieces of any size below and above the minimum: no byte lost, repeated or reordered, the end told after the last one, every callback returns |
| `json_control` | violation, finding 2 |
| `conllu_read` | every text of five lines: well formed sentences, the writer's output reads back, whole text and blocks agree, reading ends |
| `conllu_cr` | violation, finding 3 |
| `tokenizer` | any outcomes of the network: text kept over sentences, windows and blocks, ranges and marks right, and every step gets nearer to the end |
| `library` | nineteen instances of the components that work alone (below) |
| `dynamic_oracle` | violation, finding 4 |

Every property of a passing run has a mutant in `PROJECT.json` that breaks it.

The run `library` gathers the components that have no partner: a behaviour of `Library`, whose
values `MCLibrary` gives, chooses one of them in its initial state, `which`, and is a behaviour of this one. Its properties:

| Property | Says |
|---|---|
| `CachesOwned` | a cache is in one place and of one thread; there are no more than threads and failed calls |
| `JointBest` | the segmentation is the best one by definition, and every token is dealt once |
| `FormatsRight` | words, documents and paragraphs do not depend on blocks nor on an earlier reading; what was written is read back; a presegmented line is one sentence that keeps all words and multi-word tokens of the line, numbered without a gap, and counts each newline once |
| `SplitRight` | the splitter uses the right rule in whatever order rules were loaded; trained, it splits the training data as most of it does |
| `TaggingBest` | the best sequence of tags although nodes and scores are reused and although scores of dynamic features are cached by their keys; averages; the map finds all; the analyzer takes the best rule and knows its training data |
| `OraclesRight` | static oracles rebuild their tree, the transitions the structured training performs unasked are applicable, the dynamic oracle is right while all arcs are |
| `FieldsRight` | fields and comments say what they were last set to (a comment, but for the blanks before its value and its line ends, which are not kept); the detokenizer's choice is that of the counts by definition |
| `JsonRight` | the document is valid at every moment, although its front was discarded, and says what was said |
| `EvaluationRight` | data are refused only if their characters other than spaces differ; as many words as possible are aligned; heads and counts by definition |
| `ServiceRight` | a response is an error or whole; its text outlives it; a name means the first model that has it |

### Bounds

- *Loader and server*: with three clients, three models and two places there can be
  a hit, a miss that evicts, a shared load that fails with a waiter, and a queue of
  two, at the same time; two places are the least at which eviction has a choice. The
  proofs about the loader need no bound. In `server` the preloaded default keeps one of the places,
  so that the others compete for one.
- *Parsers*: six words are enough for swaps that cross, for both link2 arcs, and
  for the last-root rule with a non-empty buffer; the proofs cover every length.
  Beam search is explored with three words, a beam of two and two costs: the least at
  which configurations diverge, finish at different times and evict one another.
- *Oracles*: all trees of four words for every static oracle; the dynamic one with four
  words, and with five, where it first fails.
- *Stream*: the minimum lies between the smallest and the largest room, pieces go from
  nothing to more than the minimum, and twelve bytes leave several callbacks.
- *JSON*: six bytes before the closing ones hold a nested object or array with a key,
  an open string and an escape.
- *CoNLL-U*: five lines hold a sentence with a multi-word token, its words and an
  empty node, or two sentences; numbers go one beyond the number of words.
- *Tokenizer*: windows of five characters, cut at two or three, over texts of up to six,
  given in one or two blocks or as two documents: runs of spaces lie across
  cuts, windows and blocks. Texts of six letters whose URL lies across the cut, and texts with a URL
  in two blocks, are added to all texts of up to four characters.
- *Library*: three threads and four caches; paragraphs of four words and sentences of at most
  two; texts of up to six characters; three rules or tokens, whose keys end one another;
  trellises of order two and three over three or four words; two iterations over two words;
  eight keys; all raw texts of four characters; data of four words in one or two
  sentences on both sides, with and without spaces in the forms; presegmented lines that give up to two sentences,
  with a multi-word token or an error. Each is the least at which two of the cases that the code
  distinguishes meet.

### Fairness

- *Loader*: a thread inside `load` or `release` goes on (`WF` of each step): the
  operating system runs it, and loading a model ends. Nothing is assumed of callers that are
  outside. A client may overtake the queue by a hit for ever, so `LoadAnswered` and
  `ConnectionsEnd` are stated for behaviours in which that stops (`NobodyOvertakes`);
  the code has nothing that would prevent it.
- *Server*: callbacks and the main thread go on (`WF`); a select loop serves each of
  its connections in turn, and a connection that is silent runs into the timeout of the
  library, so a request arrives or is completed if that is possible again and again (`SF`).
- *Stream*: the callback's loop goes on (`WF`), and `generate()` ends its document at last, because its
  input is finite (`SF`).
- *Parsers, CoNLL-U*: the single thread that runs the loop runs. No fairness is
  assumed between the transitions: the end of a parse must not depend on it.
- *Tokenizer, library*: none. `TokenizingProceeds` is an action property.

`CHECK_DEADLOCK FALSE` is used where the system may stop: a response that was sent, a
document that is finished or has reached its bound, a text that was read, a component of the library that is done.

## 4. Theorems

Checked by `tlapm`, for every value of the constants. Every inductive invariant was
first checked by TLC on the instance of its run.

**`ResourceLoaderProofs`** (from: the limit is a natural number, clients and
resources are finite sets, `None` is not a resource). `Invariance` is the inductive
invariant `Inv`, the rest follows from it: `TypeCorrect`, `InUseSafety`,
`OneLoaderSafety`, `AccountingCorrect`, `MemoryBoundSafety`, `QueueCorrect`,
`WakeupSafety`. None of these is inductive alone. That eviction finds a victim, so that
memory is bounded, needs that `usedResources` counts the used places; that needs that the
count of a resource is the number of clients inside; that needs that each of them has a target, that
the first caller of a resource is the only one, and that a failed load leaves no
place. The absence of lost wake-ups rests on the same counts: a release that does
not notify leaves the pool as not-full as it was. `LoaderImplementsPool` is the refinement, action by action:
a load that begins takes a place and gives up those of its victims at once, a load that
ends makes the place ready or gives it up, a client that goes on to use holds, and the rest stutters.

**`UDPipeServerProofs`** (from: the limit is natural, connections and models are finite,
the default is a model, `None` is none, the main thread no connection).
`ServerInvariance`, `LoaderUsedAsMeant`, `WorksWithLoadedModelHolds`,
`NoLeakedModelHolds`, `QuietExitHolds`. The server is not a behaviour of the loader: while `init` tries
the models, and while the destructors run, memory changes without it. `Seen` is the
memory of the models that have a place; `View` is the instance of `ResourceLoaderProofs` whose
memory is `Seen`. Every action of the server up to the exit is a step of `View`, and so its
invariant is preserved by lemmas that were proved once. What is added is where each stage
of a connection is in its call.

**`TransitionsProofs`, `GreedyParserProofs`** (from: `N` is natural, the systems are among the three of the code,
there is a relation, and `root` and another one with a single root). `TypeHolds`, `SoundHolds`, `ChildrenHold`,
`EmbeddingsHold`, `NeverStuckHolds`, `ResultHolds`. The invariant is `ConfOK`: the root is at
the bottom of the stack, every word is in the stack, in the buffer or linked, and only once,
a linked word has a head that is itself linked or still available, and with a single root
the relation `root` is given only by the transition that ends the parse. It makes a
final configuration a tree, and leaves a transition applicable in every other one.
`ProjectiveHolds`: without swap and link2 the stack and the buffer are in the order of the sentence, no arc
covers a word that is still in either, and no two arcs cross; an arc between the two topmost nodes
covers only words that are linked already, and so crosses nothing.

**`BeamParserProofs`** (also from: beam size and number of costs are positive, labels are finite).
`BeamInvariance`, `BeamSoundHolds`, `BeamKeepsBestHolds`. The invariant says for every phase which
configuration the one tree and the embeddings belong to: to none between two rounds, to the one that is asked
about during `classify`, to the one that was built last during `build`. Saving and refreshing are inverse on trees whose lists of
children are those of their heads, which `ConfOK` gives. An alternative names a configuration of
the beam and a transition that is applicable in it, so that building is always legal; the heap is full whenever
something was dropped, and keeps nothing worse than that.

**`ConlluProofs`** (from: the largest number in the text is natural; the number of lines is not bounded by
more). `ReaderInvariance`, `ReturnsWellFormedHolds`, `SameByBlocksHolds`. A sentence in progress has tokens
that do not overlap, the last of which ends at `last_multiword_token`, and empty nodes numbered without a gap
that belong to words already read; the checks at its end are what is missing to a
well formed one. That the lists of children repeat the heads is an induction over the words: `Children`
is a recursive function over `0..n`, which exists by a least counterexample, as does the
first word after which a list would be wrong. The two readers are in step as long as no empty
line separates comments or tokens from their words. `RoundTripHolds`: what
`write_sentence` writes of a returned sentence is read back as the same one. The reader and the writer are
recursive functions of the lines and of the words. The invariant adds that a returned sentence
is one that the reader had complete, and that only version 2 of the format gives it empty nodes, so that its tokens and empty nodes are where the writer's cursors stop: before a word
is written both cursors stand at the first token and the first node that belong there or later. The lines of
one word are then read by an induction over the nodes behind it, and the whole by one over the words.

**`LibraryProofs`** says of the caches and of four of the other components of `Library` what the run `library` checks.

- *Caches* (from `CachesAssumption`: threads are finite, `Null` is no number of a cache): `CachesInvariance`, `OneOwnerHolds`,
  `CachesFewHolds`, `CachesOwnedHolds`. Between `release` and `pop_back` the last slot is empty; only the thread that has the
  lock may see it so. A cache moves from one place to one other in every step. The bound on their number needs that a
  thread that found the stack empty counts as if it had a cache, since others may push before it makes one: places in
  use on the stack and such threads are never more than the threads, and only these make caches.
- *Service* (from `RequestsAssumption`, `DescriptionsAssumption`: only a reader refuses a sentence, a tokenizer takes any
  text; a model has an id): `ServiceRightHolds`. `Served` says for every phase of a handler what is
  established: how far the trial read and that all of it is readable, what was announced, and that the output is the
  sentences before the reader, processed as promised. The generator never meets an error because the handler read the same
  data before. `Mapped` says that a name of the models added so far means the first that has it, also as a prefix, and that each first
  id was new when its model came; `Named` adds what the default name means at the end.
- *JSON* (from `TextsAssumption`: no text has a control character without an escape of its own, because of finding 2):
  `JsonRightHolds`. `Built` says what the reader wants next after the bytes written so far: this is determined by the mode, the
  top of the stack and whether a key waits for its value. The brackets that are open for the reader are
  those of the stack, and the strings it has read are those that were passed. `ReadEncoded` (what `encode` makes of a text is read
  as this text) and `Normalized` (what `normalize_mode` adds) carry the lemmas about each call; `finish` is an induction
  over the rounds of its loop. What was discarded only decides about blanks.

- *Training of the tagger* (from `TrainingAssumption`: there is an iteration): `TrainingHolds`, the part `TrainingRight` of
  `TaggingBest`: the weights that are stored are the averages, and those of the first of the best iterations. A gamma lags behind; what
  it lacks is its alpha times the sentences since its last update (`Due`), which is what the invariant adds. The end of an
  iteration pays all of it and counts anew from 0, which is right only because the count of sentences begins anew, too.

At the end the results are lifted to `Library`: in a behaviour of the library the component `which` takes the steps, and the
others leave its variables alone (`Working`).

**`ResponseStreamProofs`** (from: the minimum and the rooms are positive). `TypeHolds`:
the unsigned difference of length and offset does not wrap. `InOrderHolds`,
`SmallChunkHolds`, and `Implements`: the callback implements `ByteStream`. The invariant
relates `sent` to `consumed + generator_offset` in every phase of the callback.

Only model-checked, and why:

- liveness (`LoadAnswered`, `ConnectionsEnd`, `StopFinishes`, `ParsingEnds`, `SearchEnds`, `ReadingEnds` and the end of a
  response), which needs fairness;
- `TextKept`, `MarksRight` and `TokenizingProceeds` of the tokenizer, and of `library` `JointBest`, `FormatsRight`, `SplitRight`,
  `TaggingBest` (but for its part `TrainingRight`), `OraclesRight`, `FieldsRight`, `EvaluationRight`: these proofs have not been written. Most of these
  properties compare an algorithm with an optimum over all segmentations, alignments or trees, and so need long inductions.

The library's induction theorems take an operator as a parameter and cannot be used with the provers here. Where an induction is
needed it goes by a least counterexample (`LeastNat`): of the numbers below which a recursive function exists, or
after which what is read is wrong, the least one is not 0 and not a successor.

## 5. Findings

1. **A select loop can wait for itself** (`server_pool_stop`). With `--threads` a loop that
   blocks in `load()` cannot finish its other connection, which holds the place. Neither
   ends, nor does `stop()`.
2. **Control characters in JSON** (`json_control`). `encode` writes `u00XX` without the
   backslash; the reader gets five other characters.
3. **A lone carriage return** (`conllu_cr`). The CoNLL-U reader stops a line before a CR
   but skips one only together with the LF after it, and loops for ever otherwise.
4. **The dynamic oracle is not always best** (`dynamic_oracle`). Once a wrong arc was made, a node of
   the buffer may be taken into the right stack for a child that is no longer available, and the
   transition predicted loses an arc. There is none up to four words, and one
   configuration of five words.

Smaller observations, made while modelling, that no run is about:

- With `--concurrent_models=1` the preloaded default model keeps the only place; a request
  for any other model waits for ever.
- The generators of the service do not look at the result of `tag` and `parse`: a failure leaves
  sentences unprocessed in a response with status 200. Every failing `parse` loses a cache.
- `generic_morpho.cpp:130` describes numbers by a pattern without the final dot that line 152 accepts.
- For a capitalized unknown word the guesser skips a rule that another casing variant used
  and then adds the default tag, once (`morpho_statistical_guesser.cpp:76`, `:105`).
- The trainer of the guesser may write a label whose prefix and suffix overlap in the word it came from; guessing does not find it.
- The trainer of the splitter compares lengths, not letters, when it cuts common prefixes
  (line 68), and cuts bytes, so that a rule may begin inside a letter.
- The evaluator takes the end of a joint range from the system's token (`evaluator.cpp:326`), so that two ranges without a common
  character may be aligned as one.
- Comments are found by their beginning: `# text_en` is taken for `# text`.
- The joint tokenizer does not set `sent_id` and `text`; with a token wider than
  `joint_max_sentence_len` its way back does not end. `JointBest` is about tokens that fit.
- Single tabs and newlines inside a token come back as spaces: `SpacesInToken` is set only if lengths differ.
- With `single_root` the dynamic oracle ignores this restriction; it is checked without.
- The branch of the wrapper that erases empty forms (`morphodita_tokenizer_wrapper.cpp:83`) cannot be
  reached with the GRU tokenizer, whose tokens have a character, and is not in the model.

## 6. Not modelled

- *Neural networks, embeddings and their training*: floating point arithmetic, replaced by any choice.
- *Generated code*: the state tables of the ragel tokenizers and of the URL detector, and the language bindings.
- *Third-party code*: libmicrohttpd (but for `Busy`; what its callbacks promise is in the actions of the connections), pugixml, LZMA, unilib, the headers of Java. Together with
  the generated code these are most of the repository's C and C++ lines; the lines modelled are to be compared with the
  rest, which is the program's own logic.
- *Code that UDPipe does not run*: Czech, English and external morphology, derivators, tagset converters, and the
  vertical tokenizer of MorphoDiTa.
- *Plain data and wording*: words and tokens as records, logging, formatting of EPE and Matxin, elementary features, percentages of the evaluator.
- *Options and files*: the command line tool, the parsing of options and numbers, the binary encoder and decoder, the model
  trainer, which are sequences of independent reads with an error each.
- *Inside modelled components*: a failing parse in the joint tokenizer, letters of several bytes in the trainers, the
  dictionary of the analyzer beyond the set of its forms, `generate` of the morphology.

## 7. Plan

1. Proofs: that renumbering features changes no score (`TaggerTraining`), that every position is
   reached once by the windows (`GruTokenizer`), that the segmentation is the best one (`JointTokenizer`).
2. The binary decoder's positions against the length of its data; `parse_int` at the edges of `int`; `named_values`.
3. The dictionary of the analyzer: classes and suffixes against the list of its forms.
