# NameTag in TLA+

NameTag 1 (`src/`) is a recognizer of named entities: a C++ library, the
programs `run_ner`, `run_tokenizer` and `train_ner`, and a REST server. This
directory holds TLA+ models of its own logic, the TLC configurations that check
them, and proofs for TLAPS. Paths below are relative to `src/src/` unless they
start with `src/`.

    tlc -config BilouForced.cfg MCBilouDecoding      # check one run
    tlapm CachePool_proofs.tla                       # check one set of proofs

## The system

`bilou_ner::recognize` takes the words of one sentence. A **tagger** fills in
lemmas and tags; then every **stage** (a network) turns **features** of each word
into a vector of probabilities, a **decoder** picks the best sequence of labels
B, I, L, O, U, and these labels are features of the next stage. The labels of the
last stage become entities, which some feature processors then **post-process**.
Everything a call works on lives in a *cache* that it takes from a stack shared
by threads and puts back at its end.

| Component | State | Operations | Interacts with | Hard behaviours | What makes it correct |
|---|---|---|---|---|---|
| BILOU decoder (`bilou/`) | per word: local and global probabilities, entities, back pointers, the chosen label; previous stage | `init`, `update`, `compute_best_decoding`, `fill_previous_stage`, `clear_*` | filled by the network and by processors | dead ends, ties, division by the best probability, labels forced by probability 1 against 0 | the decoding is whole entities, has the greatest probability, keeps forced labels |
| `bilou_ner` (`ner/bilou_ner.cpp`) | model (read-only), stack of caches | `load`, `recognize` | all of the above | data of an earlier call in the cache; threads | entities are those of the labels; nothing of an earlier call is used |
| Cache stack (`utils/threadsafe_stack.h`) | a vector under a spin lock | `push`, `pop` | `recognize`, `morphodita_tagger::tag` | interleavings of threads | a cache has one user; none is lost; no more than threads |
| Label-forcing processors (`features/`) | tries, lists, entity numbers | `process_sentence` | fill the decoder's words before the network | overlapping matches, several processors | the manual's rule: earlier, then longer matches win |
| Entity post-processing (`features/`) | tries, lists | `process_entities` of `GazetteersEnhanced` (hard_post), `CzechAddContainers` | rewrites the entities | nested entities and gaps, order of processors | entities stay sorted and nested |
| Feature allocation (`features/`) | maps from strings to numbers, a counter | `parse`, `lookup`, `load`, `save` | the network indexes its weights by them | windows, offsets, features of words outside the sentence | different features have different numbers (two exceptions are below) |
| Network classifier (`classifier/`) | weights | `train`, `classify` | features in, outcomes out | numerics | (data) |
| Trainer (`ner/bilou_ner_trainer.cpp`) | labelled sentences, stages | `load_data`, `train`, `compute_previous_stage` | decoder, templates, network | neighbouring entities, sentences without words | outcomes decode to the annotation |
| Model encoding (`utils/binary_*`) | a byte buffer | `add_*`, `next_*` | every `load` and `save` | field widths, truncated data | what is saved is loaded |
| Taggers (`tagger/`) | model, their own stack of caches | `load`, `tag` | fill the sentence's words | fewer tags than words | every field of a word is set |
| Tokenizers (`tokenizer/`) | a position in a text | `set_text`, `next_sentence` | `run_ner`, service | limits on the length of a sentence | sentences partition the tokens |
| Output (`run_ner.cpp`, `rest_server/nametag_service.cpp`) | a stack of open entities | XML, CoNLL, vertical, JSON | entities in | nesting, numbering over sentences | every element is closed, in order |
| Service (`rest_server/nametag_service.cpp`) | models and their aliases | `init`, the three handlers | microrestd, `bilou_ner` | alias clashes, answers generated in pieces | an identifier means one model |
| microrestd (`rest_server/microrestd/rest_server/`) | requests, body limits, generator offsets | callbacks of libmicrohttpd, `start`, `stop` | service | callbacks in pieces, size limits, early end | one answer to a request, complete |
| Resource loader (`utils/threadsafe_resource_loader.h`) | counts, queue, states | `load`, `release` | used by nothing in this repository | condition variable, failed loads | bounded number of resources, nobody waits for ever |
| Options (`utils/options.cpp`, ...) | none | parsing | programs | integer limits | |

Vendored or generated and not modelled in themselves: `morphodita/`, `unilib/`,
libmicrohttpd (but for the life of its connections), pugixml, LZMA, the Ragel
machine of `url_detector.cpp`, the SWIG wrappers in `src/bindings/`. `PROJECT.json` lists every component with its
status, and under `hazards` the places that are hard to test.

## Modules

| Module | Models |
|---|---|
| `BilouDecoding` | `recognize` on one cache: stages, forced labels, decoder, extraction |
| `MCBilouDecoding` | its instances for TLC |
| `BilouDecoding_proofs` | its proofs |
| `CachePool` | the stack of caches and the threads that share it |
| `ExclusivePool` | what `recognize` needs of that stack: the abstract specification |
| `MCCachePool` | the instance of `CachePool` for TLC |
| `CachePool_proofs` | its proofs, and that it implements `ExclusivePool` |
| `EntityProcessing` | `process_entities`: what `recognize` does to the entities it extracted |
| `EntityOutput` | `run_ner` and `/recognize` over a text: `EntityProcessing`, sorting, the three writers |
| `EntityOutput_proofs` | proofs about both |
| `FeatureAllocation` | the numbers of features: `parse`, `lookup`, windows, lists |
| `Trainer` | `train` on top of `FeatureAllocation`: outcomes, templates, stages |
| `Trainer_proofs` | proofs about both |
| `ResponseStream` | `generator_callback`: a response generated while it is sent |
| `ByteStream` | what the client of such a response is promised: the abstract specification |
| `ResponseStream_proofs` | its bounds, and that it implements `ByteStream` |
| `ServiceModels` | the data of `nametag_service`: identifiers, aliases, the handlers' answers |
| `RestServer` | `nametag_server`: `ServiceModels` under `rest_server` and the threads of libmicrohttpd |
| `RestServer_proofs` | its proofs |
| `ResourceLoader` | `threadsafe_resource_loader` |
| `ResourceLoader_proofs` | its proofs |
| `Induction` | lemmas all proofs share: least numbers, induction over a range, existence of recursive functions |
| `MCEntityOutput`, `MCTrainer`, `MCResponseStream`, `MCRestServer`, `MCResourceLoader` | instances for TLC |

### BilouDecoding

One variable per field of `ner_sentence` (`filled` is `local_filled`, `localProb`
and `localEntity` are `local.bilou[..]`, `prob`, `entity`, `previous` and `best`
are `global`, `previousStage` is `previous_stage`), the output `entities`, and the
control of `recognize`: `pc`, the stage, the feature processor at work and the
loop variable. All vectors have the size of the longest sentence and are *not*
reset by a call: that is the cache.

| Action | Code |
|---|---|
| `Recognize(s)` | the call, `clear_previous_stage` (or, for no words, straight to the end) |
| `StartStage` | `clear_probabilities_local_filled` |
| `GazetteersAtWord`, `UrlEmailAtWord`, `NextProcessor` | `process_sentence` of the processors that force labels, word by word |
| `ClassifyWord`, `KeepForcedWord` | one word of the classification loop, with `init` or `update` |
| `LastLabel`, `FollowPrevious`, `FillPreviousStage` | `compute_best_decoding`, `fill_previous_stage` |
| `ExtractUnit`, `ExtractSpan`, `SkipWord`, `Return` | the loop that stores entities |

Abstractions. A network is any vector of `Outcomes` for any word, so nothing
depends on training. A sentence comes with the matches of each processor: for
`GazetteersEnhanced` the spans its trie reaches with a hard_pre node (for one
length the node of the lowest index, as in line 495 of
`feature_processor_instances.cpp`), for `URLEmailDetector` single words.
Probabilities are natural numbers, and the division by the better of the two best
probabilities of a word is left out: all five values of the next word share the
divisor, and every comparison is among those five. `NoZeroDivision` is what the
division needs. `recognize` is one thread's work on its own cache, which
`CachePool` justifies; here it is sequential.

### CachePool and ExclusivePool

A thread's `pc` follows `pop`, `new cache()`, the work, and `push`. Each access
another thread could observe is a step: taking the flag, the two halves of
`release()` (reading the pointer, and clearing it, which leaves an empty pointer
in the vector), `pop_back()`, `emplace_back`, clearing the flag. A failed
`test_and_set` is a stuttering step. Caches are numbered as they are made. The
abstract pool's free caches are those in the vector; `pop` takes effect when
`release()` clears the pointer, `push` at `emplace_back`.

### EntityProcessing and EntityOutput

`EntityProcessing` starts from what `EntitiesMatchLabels` of `BilouDecoding`
promises: entities that are sorted and disjoint (`SentencesAssumption`). Each
processor of the template file rebuilds the list in a `buffer`:

| Action | Code |
|---|---|
| `Recognize(s)` | the end of `recognize`'s extraction, or a sentence without words |
| `GazetteersAtWord` | one word of the loop of `GazetteersEnhanced::process_entities` |
| `ContainersAtEntity` | one entity of the loop of `CzechAddContainers::process_entities` |
| `EndOfGazetteers`, `EndOfContainers` (`EndOfProcessor`) | the buffer replaces the list if it is of another length, or longer; the next processor |
| `EndOfProcessing` | the end of the last processor |

`EntityOutput` extends it with the loop over the sentences of a text that
`run_ner.cpp` and `nametag_service.cpp` both have: `SortEntities`, then word by
word `XmlWord` or `ConllWord`, or entity by entity `VerticalEntity`, and
`EndOfSentence`. What lives longer than a sentence is kept as in the code: the
ends of open XML elements and the number of lines of the vertical form
(`ForgetSentence` has what does not). `out` is a sequence of items, not of
characters.

### FeatureAllocation and Trainer

`FeatureAllocation` has the one counter `total` from which every processor takes
numbers: `ParseProcessor` (the empty string, the lists, the clusters) and
`Lookup` (a string not seen before). `Trainer` is `train`: `LoadWord` for each
word of an annotated sentence, `EndOfData` and `LoadHeldout`, `ParseTemplate`,
and for each stage `ApplyKey` and `ApplyFeature` (in any order of the strings),
`TrainNetwork` with its tests of sizes, and the decoding of the data for the
next stage. Training itself, and the labels it leads to, are any labels.

### ResponseStream and ByteStream

`Callback`, `Generate` or `GenerateNothing` (the loop), `EndOfStream` and
`CopyData` (with `Forget`, the `consume` at its end) are the statements of
`generator_callback`. Bytes are numbers in the order they were written; `made`
and `first` say which of them the generator holds. `rest_response_generator`
returns true from the call that writes the last bytes and false only from the
next: `last`.

### RestServer and ServiceModels

Three kinds of processes. The *main thread* runs `InitService`, `Start`,
`Quiesce` (the signal), `CloseSocket`, `FreeConnection` / `UncountConnection` /
`AllFreed` (the cleanup inside `MHD_get_daemon_info`), `ReadConnections`,
`StopDaemon`, `FinishStop`. The *thread of the daemon* polls, accepts, starts a
connection's thread, counts the connection in two steps (`ReadCount`,
`WriteCount`: `daemon->connections++` without a lock) and frees those that are
closed (`CleanUp`). The *thread of each connection* calls back: `HandleHeaders`,
`HandleChunk` (the body in chunks of any length), `HandleComplete`,
`RequestCompleted` at any time (timeout, lost client, shutdown).

Abstractions. A string is the sequence of its parts between hyphens; a part that
is six digits is in `Versions`, and no other part begins with six digits (the
code would take them off the front of such a part too). No part is empty, so
identifiers that are empty or begin with a hyphen are not in the model. A unit
of a body is one byte as far as limits go and may complete a piece of a
parameter. One request to a connection, as the server's responses close it.
Only the default of `--threads` is modelled, a thread for each connection, and
`Start` does not fail: the program would just exit. The answers of the generators
are those of `ResponseStream`.

### ResourceLoader

A monitor. One action is what a thread does while it holds the mutex, up to the
wait or unlock that ends it; `NotifyAndReturn` comes after the unlock.
`asleep` are the threads in the condition variable that were not notified, and
`SpuriousWakeup` takes one out at any time. The clients are any threads that
load a resource, use it and release it; loading may fail.

## Runs

| Run | Instance | What it shows |
|---|---|---|
| `bilou_plain` | up to 3 words, 1 entity, 1 stage, no forced labels, every output vector over {1, 2} | `WellFormedDecoding`, `OptimalDecoding` |
| `bilou_forced` | 4 words, 2 entities, three processors with up to four matches between them, five output vectors | `ForcedSpansReported`, `ForcedLabelsKept`, `EntitiesMatchLabels`, `NoZeroDivision`, `DecidedOnce` |
| `bilou_reuse` | two calls on one cache, 0 to 2 words each, 2 stages | `TypeOK`, `OnlyMatchesForce`, `PreviousStageSound` |
| `cache_pool` | 3 threads that call for ever | `TypeOK`, `CacheExclusive`, `NoCacheLost`, `PoolBounded`, `LockReleased`, `ImplementsPool` |
| `entities` | every list of entities of 1 or 2 words in sentences of up to 4, two sets of overlapping matches, both orders of the processors, texts of up to 5 lines | `OutputTypeOK`, `EntitiesNested`, `AddedByTheRules`, `XmlRoundTrip`, `ConllLabels`, `VerticalNumbers` |
| `conll_nested` | the same, up to 2 words, CoNLL | violation: `OnlyOutermost` |
| `training` | every annotated sentence of up to 3 words with 2 types, as training and held-out data; six processors; 2 stages | `TypeOK`, `AllottedOnce`, `AppliedApart`, `OutcomesMatchAnnotation`, `InstancesInRange`, `NumbersStable` |
| `feature_outer` | the same, 1 word, 1 stage | violation: `OuterWordIsEmptyString` |
| `response_stream` | up to 5 pieces of 0 to 3 bytes, 1 to 4 bytes at a time, minimum 2 | `BufferBounded`, `ImplementsByteStream`, `StreamEnds` |
| `resource_loader` | 3 threads, 3 resources, place for 2, 2 loads each | `TypeOK`, `MemoryBounded`, `UsersKeepResources`, `EveryLoadReturns` |
| `nametag_server` | 2 connections, 16 kinds of request, 7 lists of models, limits 0 and 2 | `TypeOK`, `SizeLimitKept`, `RightModel`, `NoRequestWithoutService`, `StopTerminates` |
| `stop_socket` | 1 connection, 1 model | violation: `SocketOpenWhileUsed` |

- `WellFormedDecoding`: the labels chosen are whole entities and O.
- `OptimalDecoding`: no well-formed labelling has a greater product of
  probabilities (compared with a definition that enumerates labellings).
- `ForcedLabelsKept`, `ForcedSpansReported`, `DecidedOnce`: a forced label
  survives decoding; the spans reported are those the manual's rule selects
  from all matches; no word is decided twice in a stage.
- `EntitiesMatchLabels`: the entities are sorted and disjoint, cover exactly the
  words not labelled O, start where a span starts, and have the type that
  `update` carried to each of their words.
- `OnlyMatchesForce`, `PreviousStageSound`: what an earlier call or stage left in
  the cache is never taken for this one's.
- `EntitiesNested`, `AddedByTheRules`: after all processors the entities are
  sorted and properly nested, and they are those extracted and those that the
  manual's rules, stated over the whole sentence, add; the code builds them in
  one pass from the left.
- `XmlRoundTrip`, `ConllLabels`, `VerticalNumbers`: a reader of each form finds
  the entities of the sentence in it, and no others, in every sentence of a text.
- `AllottedOnce`, `NumbersStable`, `InstancesInRange`: `parse` and `lookup` never
  give a number away twice, the number of a string never changes, and no instance
  is beyond the sizes its network is trained with.
- `AppliedApart`: the numbers that a string, or the entries of a list, give to the
  words around them are of no other string or list. `AllottedOnce` does not say
  this: it is about the numbers given away, not about those applied to a word. Two
  kinds of features do share numbers, and neither property excludes it: slots B and G
  within one list of `GazetteersEnhanced` (see below), and the words outside a
  sentence (`feature_outer`).
- `OutcomesMatchAnnotation`: what is learnt is what was annotated.
- `BufferBounded`, `ImplementsByteStream`, `StreamEnds`: the generator holds less
  than the minimum and one piece; the client gets all bytes, once and in order,
  and then the end.
- `MemoryBounded`, `UsersKeepResources`, `EveryLoadReturns`: no more resources
  in memory than the limit and none forgotten; none evicted under its user; no
  load waits for ever.
- `SizeLimitKept`, `RightModel`: however a body is cut, one beyond the limit never
  reaches the service and one within it is never refused for its size; an answer
  comes from the model that the parameter, joined from its pieces, selects.
- `NoRequestWithoutService`, `StopTerminates`: `stop` may overlook a connection
  that was accepted but not yet counted. It then cuts it off; but
  `MHD_stop_daemon` joins its thread before `stop` forgets the service. `stop`
  ends unless its own update of the count collides with that of the daemon's
  thread, which the count cannot survive.

### Where the code disagrees with a document, a comment or its declarations

- `conll_nested`: both writers put the labels of all entities around a word on
  its line; the manual (`src/MANUAL:518`) says that only the outermost is kept.
- `feature_outer`: the comment on `lookup_empty` says that `lookup("")` gives the
  window; `lookup` adds the number of features allocated before. Words outside
  the sentence so get numbers that mean something else, in training and in
  recognition alike.
- `stop_socket`: `stop` closes the listening socket at once; libmicrohttpd's
  documentation forbids this before `MHD_stop_daemon` when threads are used.

Two more were met while modelling. The models follow the code, and no run shows
them; both are in `feature_processor_instances.cpp`.

- A comment of `CzechAddContainers` (line 152) says "P if ps+ pf+"; the code, and
  `ContainersOf` with it, takes the `pf` first and then the `ps`.
- The enum of `GazetteersEnhanced` (line 371) gives G, U, B, L and I a slot each,
  and `parse` takes five numbers for a list; `process_sentence` adds the
  `bilou_type` instead (line 504), in which B is 0 (`BilouType`). So B shares the
  number of G, and one slot of every list is never applied. Training and
  recognition apply the same numbers, so a model works, but nothing marks the
  first word of an entry.

### Bounds

An update of the decoder looks at two adjacent words, so three words contain the
first word, an inner step and a last word; two values of probability give every
order and every tie of the comparisons. Four words are the least that hold two
overlapping spans of two or three words and a word outside them. Two calls of
every pair of lengths, with two stages each, show every way one use of a cache
follows another. Three threads give one inside the lock, one that waits, and
one that works in its cache.

Four words hold all containers (`td tm ty` is the longest), a container with an
entity right before or after it, and a match in a gap; five lines hold a
second sentence after one of up to two words. The annotation of a word depends
on its two neighbours: three words. Six processors have windows of 0, 1 and 2
and every form of list next to each other. Pieces and requests of a response
lie on both sides of the minimum, and five pieces let the buffer be forgotten
more than once. Three threads with two places let one wait, in the queue or for a
load, while another loads and a third releases. With two connections one is
accepted while the other is freed, and a limit of two with bodies of up to four
units has every way to cut a body around the limit.

`MaxLoads` bounds how often a thread loads. With callers that never stop a
thread at the front of the queue can be overtaken for ever by threads that
reuse what is in memory, and its load would not return.

`CHECK_DEADLOCK FALSE`: in the `BilouDecoding` runs the caller stops after
`MaxCalls` calls; a text and a training end; a response ends; the threads of
`ResourceLoader` stop after `MaxLoads`; the server may fail to start, and it
stops. Of the waits, `EveryLoadReturns` and `StopTerminates` say that nobody
waits for ever.

### Fairness

`BilouDecoding`, `EntityOutput` and `Trainer` are sequential and have no liveness
property: their loops are bounded by their headers. In `CachePool` the operating
system runs every thread: weak fairness for each. That is enough for
`LockReleased` (who holds the flag clears it). It is not enough for "every thread
gets the lock": a spin lock is not fair, the code promises nothing else, and no
such property is stated.

`ResponseStream`: the thread of the connection runs, and its client goes on
reading (one that does not is cut off by the timeout). `ResourceLoader`: each
thread that is not asleep runs, loading takes a finite time, and a user releases
what it has loaded; spurious wakeups and calls are not assumed. `RestServer`:
every thread runs, and a connection gets to its end because libmicrohttpd closes
it after a timeout; `nametag_server` sets 60 s unless the option says 0, and
then a silent client would keep `stop` waiting. No signal is assumed to come.

### Faulty variants

Operators named `Bad...` are faulty variants of the definition that follows
them. No specification uses them; `PROJECT.json` names for each property one that
violates it.

## Proofs

The theorems hold for every value of the constants that these named assumptions
admit; TLC evaluates each of them in every run of its module.

| Module | Assumptions |
|---|---|
| `BilouDecoding` | `BoundsAssumption`, `ProcessorsAssumption`, `SentencesAssumption` (matches lie in their sentence), `OutcomesAssumption` (network outputs are positive: a softmax) |
| `CachePool` | `ThreadsAssumption` (finitely many threads), `NoneAssumption` |
| `EntityProcessing` | `TypesAssumption`, `TemplatesAssumption`, `SentencesAssumption` (entities extracted are sorted and disjoint: `EntitiesAreLabels`) |
| `FeatureAllocation`, `Trainer` | `TemplatesAssumption`, `SentenceAssumption`, `StagesAssumption` |
| `ResponseStream` | `SizesAssumption` (the sizes are positive) |
| `ResourceLoader` | `LimitAssumption`, `ClientsAssumption` (finite sets of threads and resources) |
| `RestServer` | `SizesAssumption`, `ModelsAssumption`, `RequestsAssumption` (no piece of a parameter in a body comes before one marked as its first) |

The theorems about `EntityOutput` have one hypothesis more, `ContainersOnce`: the
template file has at most one `CzechAddContainers`. With two of them
`EntitiesNested` is false, as TLC shows at once: the second finds the same
entities again and adds each container again, of the same span. The code does
not forbid it; the manual has no use for it.

### Which theorem states which property

| Module | Theorem (property) |
|---|---|
| `BilouDecoding_proofs` | `TypeCorrect` (`TypeOK`), `DivisionDefined` (`NoZeroDivision`), `DecodingWellFormed` (`WellFormedDecoding`), `ForcedKept` (`ForcedLabelsKept`), `OnceDecided` (`DecidedOnce`), `PreviousStageCorrect` (`PreviousStageSound`), `MatchesForce` (`OnlyMatchesForce`), `ForcedReported` (`ForcedSpansReported`), `EntitiesAreLabels` (`EntitiesMatchLabels`), `DecodingOptimal` (`OptimalDecoding`) |
| `CachePool_proofs` | `PoolTypeCorrect` (`TypeOK`), `Exclusive` (`CacheExclusive`), `NotLost` (`NoCacheLost`), `Bounded` (`PoolBounded`), `Refinement` (`ImplementsPool`) |
| `EntityOutput_proofs` | `OutputTyped` (`OutputTypeOK`), `Nested` (`EntitiesNested`), `NumbersOfLines` (`VerticalNumbers`), `LabelsOfWords` (`ConllLabels`), `XmlReadBack` (`XmlRoundTrip`), `RulesFollowed` (`AddedByTheRules`) |
| `Trainer_proofs` | `TypeCorrect` (`TypeOK`), `AllottedApart` (`AllottedOnce`), `AppliedStayApart` (`AppliedApart`), `StableNumbers` (`NumbersStable`), `RightOutcomes` (`OutcomesMatchAnnotation`), `InRangeAlways` (`InstancesInRange`) |
| `ResponseStream_proofs` | `TypeCorrect`, `Bounded` (`BufferBounded`), `Refinement` (`ImplementsByteStream`) |
| `ResourceLoader_proofs` | `TypeCorrect` (`TypeOK`), `LimitKept` (`MemoryBounded`), `UsersKeep` (`UsersKeepResources`) |
| `RestServer_proofs` | `TypeCorrect` (`TypeOK`), `LimitOfBodies` (`SizeLimitKept`), `RightModelAnswers` (`RightModel`), `ServiceThere` (`NoRequestWithoutService`) |

### The arguments

`BilouDecoding_proofs`. The properties are not inductive: that a decoding ends
well says nothing before the back pointers have been followed. `IndInv` adds to
the types

- `LoopOK`: where the loop variable may be for each value of `pc`;
- `LocalsOK`: a filled word has positive outputs for every label, or one forced
  label; and where a forced label begins or continues a span, its neighbour in
  that span is forced to match;
- `ChainOK`: in the part of the table already computed, every word has a label
  of positive probability that the next word can continue, and every positive
  entry points back to a positive entry of a label that may precede it;
- `BackOK`: the labels chosen so far, from the end, follow these pointers.

A second invariant, `ReportInv`, follows what reaches the networks and the
caller: the labels a network is given are the decoding of the stage before
(`StageOK`); some set of matches, chosen by the manual's rule among those looked
at so far, accounts for every word forced so far (`MatchesOK`); the entity that
`update` gave a label inside a span is that of the word before (`EntityOK`); and
the entities stored so far are the spans of labels before the word at hand
(`ReportOK`, with `LastStageOK` and `NothingReported` for the time before). It
needs `IndInv`: only in a well-formed decoding do spans end where the loop of
`recognize` stops. The word at which such a scan stops is `LeastNumber` of
`Induction`.

`DecodingOptimal` needs a third, `BestInv`: every table is still computed from
the one before (`TablesOK`), and the walk back started at the best label that may
end a sentence (`LastOK`). So by induction over the words an entry bounds the
product of every well-formed labelling that leads to it (`TableBounds`), and the
labels that the back pointers give attain it (`TableAttained`). Probabilities are
natural numbers in the model and products are exact; the code multiplies doubles,
and what rounding does to a near tie is not modelled.

`CachePool_proofs`. `IndInv` says that one thread at most is between taking and
clearing the flag (`MutexOK`), what each thread's pointer is at each point
(`HeldOK`), and that the vector has an empty pointer only at its end and only
between `release()` and `pop_back()` (`StackOK`). `Refinement`: every step is one
of `ExclusivePool` or invisible to it. `Bounded` needs a second invariant,
`BoundInv`: the caches made and the threads about to make one are together no
more than the threads. A thread that finds the vector empty may make a cache
although another has been pushed since; but at the moment it looked, all caches
had users, which an injection from caches to threads shows.

`EntityOutput_proofs`, in four layers.

- `NestInv` follows the buffer of the processor at work. What
  `GazetteersEnhanced` has copied ends at or before `until`, and has the entities
  not yet copied inside or after it (`CopiedOK`); with
  `CzechAddContainers`, an entity still to be copied is after those in the buffer
  or inside one of them, and then it is of a type, at a place, where no container
  begins (`ContainedOK`); that depends on a list without nesting (*flat*), as it
  is before the first containers.
- `WriteInv` adds the writers: `StartedOK` (the entities written are those that
  start before the word), `StackOK` and `ConllOK` (the stack is the entities
  around the word, outermost first), `EndsOK` (the ends on the XML writer's stack
  never increase, and each is before an entity to come or encloses it), `VerticalOK`, `TextOK`
  (what the lines of the text so far hold) and `Fresh` (nothing is left of the
  sentence before). Sorting leaves a nested list as it is (`SortKeeps`).
- `ReadInv` adds a reader of the XML, and says by `Holds` that every entity
  written so far is one the reader has found or one of its open elements, which
  stand at the ends on the writer's stack. At the last word that stack is empty
  (`NoneOpen`), so all are found, and none twice, as their number is right.
- `RulesInv`, on `NestInv`, says which entities are in the list: before each
  processor, those that the rules make of the extracted ones. At a word, the
  buffer of `GazetteersEnhanced` has the entities before it and a choice among
  the matches before it, in which every match left out overlaps one that the rule
  prefers (`PickedOK`); at the end this is the choice of the rule, which is
  unique (`OneChoice`). The buffer of `CzechAddContainers` has the entities
  passed and the containers that begin at them (`BuiltOK`). That these are the
  containers of the definition, which speaks of adjacent spans and gaps and not
  of places in a list, holds of flat lists (`PersonsAre`, `DatesAre`,
  `ContainersAre`). A buffer is longer than the list if something was added,
  and is the list if not, so it does not matter that the two processors test
  their buffers differently (`!=` and `>`).

`Trainer_proofs`. `IndInv`: every string of every processor, and every list,
has a block of numbers as wide as its window, below `total`, and all blocks are
apart (`Blocks`); the words loaded so far have the outcomes of the annotation
(`Loaded`); and the features of the instances stored are below the counter that
the network will be given (`InRangeSoFar`). `Types` and `Progress` say the rest.

`ResponseStream_proofs`. `IndInv` adds to the types that the bytes sent are the
first `first + generator_offset`, in order (`SentOK`), that `generate()` returned
false only after its last piece (`EndOK`), that bytes already copied are held only
while at least the minimum follows them (`OffsetOK`), and `BufferBounded` itself:
the loop generates only when less than the minimum is left, and then, by
`OffsetOK`, nothing that was copied is still held. `TypeCorrect` says that the
unsigned differences of the code do not wrap. For `Refinement`, `Generate` maps to
`Write`, `CopyData` to `Deliver`, `EndOfStream` to `End`, and the other steps are
invisible.

`ResourceLoader_proofs`. `IndInv`: `used_count` of a resource is the number of
threads that have asked for it and not released it (`UsersOK`);
`used_resources` is the number of resources that are loaded and used, or being
loaded (`CountOK`); `loaded_resources` lists the resources in memory, each once
(`LifeOK`, `MemoryOK`); and `LoadersOK` says who loads. So when the list is full
and yet a place is free, one in it has no user: the eviction finds it, and takes
it from nobody.

`RestServer_proofs`. `IndInv` is `Settings` (the map has for each identifier the
first model with it: `MapRight`), `Threads` (between which steps of the main
thread the daemon and its connections exist: `MHD_stop_daemon` ends only when
the last is gone, and only then is the service forgotten) and `Conversation` for
each connection (the body received and the parameters joined so far are those of
the request its client sends, and no more than the limit).

### What stays with TLC

- Liveness (`LockReleased`, `EveryLoadReturns`, `StreamEnds`, `StopTerminates`): TLAPS does not reach liveness under fairness.

Some definitions are shaped by the provers. Induction theorems of the library
take an operator as a parameter, which they cannot instantiate; `Induction` states
the same over sets, and `Recursion` gives a recursive function from its step.
`SortSeq`, `SelectSeq` and folds are opaque to them, so `Sorted`, `AfterWord`,
`ReaderOf` and `PathProb` are written out.

## Not modelled

`PROJECT.json` gives the reason for each component. Most of the lines of
`src/src/` are not NameTag's own: libmicrohttpd, pugixml, the LZMA coder, unilib,
and MorphoDiTa with its generated guesser and Ragel machines. The models
cover the parts of the program's own logic that keep state or have an order to
get wrong; a map of a large share of all lines would be a model of those
libraries. Of the program's own code these are left out:

- the numerics of the network (`classifier/`): floating point; NaN, which the
  decoder would not survive, is a hazard listed without a property;
- `save` and `load` of models (`utils/binary_*`), loading in `ner/ner.cpp`;
- the tokenizers, and the parsing of options (`utils/`);
- logging and the log's size limit, the JSON and XML builders, the thread pool of
  `--threads` and the Windows branches of microrestd;
- failing allocations (`threadsafe_stack.h:42`), for the code handles none.

Hazards without a property say why in their note.

## Plan

1. `BinaryCodec`: the variable length fields of the encoder and the bounds checks
   of the decoder, against each other; the tokenizers' limits; `parse_int`.
2. The pool of threads of the server (`--threads`), in which several daemons
   share the socket.
