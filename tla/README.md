# A verification development of bodhan_genai

TLA+ models of this repository's own logic, the TLC runs that check them on
small instances, and TLAPS proofs of the theorems that hold for every instance.
Paths below are relative to `src/src/bodhan_genai/`.

## The system

| Component | Code | State | Operations | Hard part |
|---|---|---|---|---|
| ASR streaming slot engine | `asr/serving/slot_engine.py` | request queue, staged list, slot pool (device tensors and host mirrors), stop and error flags | `submit`, `close`, producer loop, scheduler loop (`_admit`, `_step`, `_evict`) | many sessions, two threads, a host-side copy of device state, either thread dying |
| ASR offline continuous batching | `asr/engine/continuous_batching.py` | utterance source, ready list, slot pool sized by the first batch | `run` (pull and prefill, admit, step, evict), producer thread | overlap of encoding and decoding, lying durations, graph capture over live buffers, finished slots that keep being stepped |
| ASR VAD streaming | `asr/serving/streaming.py` | open span, committed texts, noise history | `push`, `finalize` | span bounds, audio lost or decoded twice, exceptions mid-close |
| ASR replica and session | `asr/serving/replica.py`, `service.py` | a spooled upload, a worker thread's call, a websocket's VadStream; the demo page's file, selector and answers | transcribe, upload, detect, stream; the page's buttons | disconnects at any await, calls that outlive their handler, errors between a decode and its message; what a user touches while the page waits |
| ASR engine facade, chunker, LID | `asr/engine/engine.py`, `chunker.py`, `lid.py` | none | `transcribe_batch`, `transcribe_long`, `split_points`, the vote | cuts, one language for all pieces of a file, batches that mix languages |
| ASR transcription command | `asr/inference/transcribe.py` | a JSONL file per shard | resume, emit | crash and resume |
| ASR model, tokenizer, features | `asr/model/` | weights | forward passes | |
| TTS streaming pipeline | `tts/engine/streaming.py`, `tts/serving/snac_streamer.py`, `windower.py` | one drive task and one consumer per request, one batcher, bounded queues; a private event loop for blocking callers | `stream`, `stream_sync`, `_drive`, `_run`, `stop`, `shutdown` | one event loop, many tasks, back-pressure, failures that must be seen, callers blocked in other threads |
| TTS chunked synthesis | `tts/engine/chunked.py` | a plan of chunks, a job per chunk | planning, batch or streamed synthesis, joining | text lost between the rungs of the ladder, order of results |
| TTS offline synthesis | `tts/engine/offline.py`, `tts/inference/offline_vllm.py` | WAV files, manifests, actors | plan, generate, decode, write, manifests | resume, one actor failing, two rows on one file |
| TTS serving | `tts/serving/service.py`, `replica.py`, `client.py` | calls, record queue, health strikes | HTTP, SSE and websocket handlers, writers, health check | truncated audio taken for whole, a call cut off mid-way |
| TTS data pipeline | `tts/data/tokenize.py`, `compile.py` | shard files, parts, manifests | tokenize, compile, finalize | resume after a kill between any two writes, input that grew |
| TTS training | `tts/training/` | sampler position, packed bins, checkpoints on disk, what was measured since the last log | sample, pack, shard, collate, log, save, prune, resume | four bookkeepings of one packing, ranks out of step, a kill while rotating checkpoints, pauses counted as training |
| TTS codec, prompts | `tts/codec/`, `tts/templates/`, `tts/inference/prompts.py` | none | interleaving, parsing, batched and windowed decoding | audio of one request in another's batch row, context of a window |
| Machine translation | `mt/` | rendered files, a cache under a lock, checkpoints | render, cache, train, merge, `vllm_ready`, four commands that translate | results out of order, ranks sharing a cache, a kill between two files |
| Document OCR | `ocr/` | page layouts and texts, a packed cache of scans | layout, recognition, reconstruction, split, pack, train | the text of one block in another, labels of one scan on another |
| Serving authentication | `_serving_auth.py` | credential file | check, refusal | a malformed file |

How they interact.  A websocket session (`service.py`) pushes audio into its
`VadStream`, which calls the replica's `transcribe`, which submits one span to
the shared slot engine and blocks on its Future; the slot engine inherits the pool
arithmetic and the decode step of the offline engine.  An upload or a list of
paths goes to worker threads, where the facade cuts long files, votes on their
language and hands batches to the offline engine.  A text-to-speech request opens
a drive task (language model to windower to batcher queue) and a consumer
(bounded queue to client); one batcher task serves all requests; the chunked
facade runs several such requests for one text.  The training side is a chain of
commands that meet in files: tokenize, compile, sample, train; render, cache,
train, merge, complete; split, pack, train.

## Modules

| Module | Models |
|---|---|
| `DecodePool` | the arithmetic of one decode step over a slot pool, shared by both ASR engines |
| `Outcomes` | what either engine promises: each job settles once, as answered or failed |
| `SlotEngine`, `MCSlotEngine` | `StreamingSlotEngine` |
| `OfflineRun`, `MCOfflineRun` | `IndicTranscribeEngine.run` |
| `TtsStream`, `MCTtsStream` | the streaming TTS pipeline |
| `ChunkedTts` | `_stream_chunk_jobs`: producers of chunks and the consumer that joins them |
| `VadStream` | `VadStream` and the websocket session that feeds it |
| `TranscribeShard` | one shard of the transcription command, with its output file |
| `SpeechChunks`, `AsrRequests` | where long audio is cut and how its language is voted on; one request to the ASR server |
| `DemoPage` | the page the ASR server serves for trying it out |
| `FanOut` | a list of requests answered by a thread pool, or batch by batch |
| `PageOcr` | a page from image to text, under every command |
| `Translate` | the four commands that translate, and the benchmark's pairing |
| `TtsService` | calls to the TTS server, their clients and recordings, the health check, the credential |
| `StreamBridge` | `stream_sync`: blocking callers of the streaming engine, and its shutdown |
| `SnacCodec`, `StreamWindows` | codes to tokens to audio; the windows of a streamed request |
| `Selection` | the elements of a list that a mask or a filter keeps, and a sum over some of its places |
| `TtsEngine`, `BatchSynthesis` | `synthesize_batch`; the batch job over a manifest |
| `LongForm` | how a long text becomes chunks, and what comes of them |
| `DataPipeline`, `CompileShards` | the two stages of the speech data, and both over one directory |
| `PackingSampler` | the four packers, the sampler, its ranks and the collator |
| `CheckpointKeeper` | checkpoints of full and LoRA runs |
| `Throughput` | the rates a training run reports, and the packing it sums between two logs |
| `LayoutData` | layout training from annotated scans to each rank's batches |
| `MtCorpus`, `MergeReady` | bitext to training data; a finetune to a served checkpoint |
| `MCTraining`, `MCSynthesis`, `MCRequests` | put the modules above side by side for TLC |
| `SequenceFacts`, `SlotEngine_proofs` | lemmas on sequences; the theorems about `SlotEngine` |
| `Synthesis_proofs` | the theorems about `StreamBridge`, `StreamWindows` and `TtsEngine` |
| `TtsStream_proofs`, `OfflineRun_proofs`, `ChunkedTts_proofs` | the theorems about those three |
| `Requests_proofs` | the theorems about `TtsService`, `VadStream`, `TranscribeShard`, `AsrRequests`, `DemoPage` and `Translate` |
| `Training_proofs` | the theorems about `DataPipeline`, `CheckpointKeeper`, `MtCorpus`, `MergeReady`, `LayoutData` and `Throughput` |

The three composing MC modules hold parts that never meet in one process.  A
variable `part`, chosen at the start, says which of them runs; the others stay as
they began.  Where components do meet, one module uses the other: `DataPipeline`
runs its tokenizer and `CompileShards` over one directory, `PageOcr` and `Translate` send
through `FanOut`, `AsrRequests` cuts and votes with `SpeechChunks`, `TtsEngine`,
`BatchSynthesis` and `StreamWindows` read tokens with `SnacCodec`; what the engine makes of a chunk is taken to be right or lost there,
which is what `TtsEngine` and `TtsStream` are about.

**SlotEngine.**  A request is `idle`, has passed `submit`'s checks, or has been
put into `_q`.  Two program counters give the place of the producer and the
scheduler threads: an action is what a thread does between two moments at which
another thread can observe or change shared state (a queue operation, a lock
region of `_staged`, a Future).  `slotReq`, `aliveSet`, `posMirror` are the host
side of the pool; `alive`, `finished`, `slotPos`, `slotCap` the device side.  GPU
work is atomic: its only visible effects are the state it leaves or the
exception it raises.  `ProducerDies` and `SchedRaises` are a thread's death wherever
such work stands: in encoding, in a step, before an eviction's first row or after its
last (`ResetRaises`), in prefilling (`PrefillRaises`), and in the loop that copies the
popped requests into slots (`CopyRaises`), which loses those not yet in one.  What such
a thread leaves half written on the device no later step reads.  Keys, values and prompts
are represented by the request they were computed for, so a transcript decoded
from another request's audio shows as an outcome that is neither answered nor
failed.

**OfflineRun.**  `source`, `hand` and `ready` are the futures, the batch being
encoded and the ready list; `mainPc` and `prodPc` the two threads.  The device
tensors are one record, whose key columns and token columns hold the utterance
that wrote them; `StepBody` is `_step_body` column by column, including the
scratch columns of finished slots, and `WarmUp` is the capture of a graph (three
runs of the body with positions held still, then what is restored).  The sorted
list is an input: claimed durations only order it, and the true encoder lengths
are independent of the order.

**TtsStream.**  One event loop: an action is what runs between two awaits.  A
frame is its emit index.  `Pass` is the scatter that ends an iteration of the
batcher: `_drain_out` for every touched or finalized request.

**StreamBridge.**  Each blocking caller is a thread with a queue; the loop thread
runs one pump task per call.  `loopOf` is the bridge's private event loop, which
`shutdown` takes away and ends, `calledSoon` the callbacks each loop has been handed,
and `owner` the loop the engine was started on, which no other loop may use.
`Verdict` is what the pump says with the sentinel it puts last: nothing, or the
exception.  What a generator does between two frames is `TtsStream`'s business.

**ChunkedTts.**  One event loop: a producer's action appends one frame or ends
it, a consumer's action is what runs between two awaits, except that the live
loop takes one frame per action (a finer interleaving than the code's, which
only adds states in which a producer appended earlier).  A frame is voiced or
silent.  `exact` is the whole-chunk path with `trim_silence`, `live` the path with
held-back silence; `Wait`, `Woken` and `Timeout` are the clear, test and wait of
`data_evt`.  `cleanup` is the `finally` block: cancelled producers record an error
and end.

**LongForm.**  A text is a sequence of characters, each standing for
its class, which is all the sentence scanner and the ladder look at; CRLF,
full-width clause marks and abbreviations of several letters are abstracted.
`Chunked` is the ladder (sentence, clause, word, hard cut) and the packing to the
budget, `DialoguePlan` the plan of turns.  A job is a text or a dialogue with its
budgets; one or more of its chunks may fail, and what is inked in the result can
then be compared with what the text holds.  Samples a second is a whole number,
so the float arithmetic of the budgets is exact.

**SnacCodec, StreamWindows, TtsEngine.**  The SNAC networks are external: an
encoder gives three streams of codes at rates 1:2:4, a decoder one sample for each
frame, named by the seven codes it is made of, and where it decodes several frames
at once by its neighbours too.  The vocabulary is a few codes per position.
`StreamWindows` feeds the tokens of an emission to the windower step by step, cut
anywhere.  `TtsEngine` is `synthesize_batch` with close and use after close, over
sequences built as the training data builds them.

**BatchSynthesis.**  One action per step a driver or an actor takes that another
run could see: a shard generated, a batch decoded, a WAV written, a manifest
written.  An actor's call may raise, a stage may run out of time, the job may be
killed and run again.  A WAV is the sound in it, so that a file written for another
row shows.  In the passing run rows with one basename and one text have one speaker;
`synthesis_names` drops that.

**VadStream.**  `audio` is everything received; `base` is where `_seg` begins in
it, so that a span is a pair of positions and the properties can say which audio
was decoded, dropped or kept.  Durations are whole hops of the energy frames.  A
hop is speech or noise, speech at least 28 dB above noise and noise below
`silence_dbfs`; under that assumption the relative threshold of `_threshold` parts
the two when the window it looks at holds speech and lies below everything when
it does not, which is what `Voiced` says.  Gradual levels, where the threshold can
fall within speech, are left out.  `Push` is one call of `push` with
everything it does: leading silence dropped, then the forced cut, the endpoint cut
or a partial.  Transcribing may raise, and a span larger than the slot engine's
window is refused.  `longest` remembers the longest packet: what `SpanBounded`
promises depends on it.  The session's loop (`_ws_stream`) is sequential, so one packet
is one action; `sent` is what the client was told.

**SpeechChunks and AsrRequests.**  A recording is a sequence of units, each silent
or in the language spoken; a language model's scores are the shares of the voiced
units it hears.  A text is the sequence of units it was decoded from, each with its
file and the language it was prompted in, so that a unit lost, repeated, misplaced
or decoded in a second language shows.  An action of a request is what its handler
does between two awaits, or what its worker thread does; the caller may be gone at
any of them, and `OrphanEnds` is a thread's call that ends after its handler has.

**DemoPage.**  A handler of the page runs to its end but for `run`, which waits for
the server; an answer is known by the run and the file it is for.

**TranscribeShard.**  The file is a sequence of pieces: the bytes of a record up
to within a character of its text, the rest of that character, the rest of the
record, the newline.  A kill loses the buffer and may come after any spill, so
that a file may end between any two pieces; `Lines` and `Undecodable` are what
reading it back gives.  Both backends are there: results of the engine in any
order, batches of short rows followed by long rows one by one.  A text and an error
record are not told apart, because a resume treats them alike; writing itself is
taken to succeed.

**FanOut, PageOcr, Translate.**  An answer is known by the request it was made
for; the server may answer in any order and fail any of them.  In `PageOcr` a
box is an interval down the page in half pixels, because every rule about boxes
compares an overlap with an extent; a reading is known by the image, the crop and
the prompt.  The clean-up of a page (duplicates, headers and footers, captions in
diagrams, nested equations), the layout file that may be edited between two
commands, and both backends are there; crop scaling and LaTeX repair are not, and
images are taken to have distinct stems.  In `Translate` a translation is known by
the text and the target its prompt names, and the talk loop, document mode and the
benchmark's rows and columns are commands like the others.

**TtsService.**  A frame is known by its call, the engine method that rendered it
and its position.  Handlers of one replica interleave at their awaits; a call may
be cut off at any of them; finished utterances go to the background writers; an
engine that died fails health checks until the replica is replaced.  What a client
makes of what it received (`client.py`) is part of the model: told an end it writes all
it has (`ClientReads`), and a connection closed in good order before that ends its loop
in the same way (`ClosedEarly`), which the file does not show; `told` does.

**DataPipeline, CompileShards.**  Files are variables that survive
a kill; every write is an action, the append to `failed.jsonl` two, and a kill is
possible between any two of them.  Rows are positions in a source that may grow
between runs, with another `rows_per_shard`.  `DataPipeline` lists what one stage
wrote as the other's input.  The tokenizer is stated in `DataPipeline` itself.

**PackingSampler.**  Four bookkeepings of the same bins: a
SortedList of (remaining, bin), a linear scan, stacks of bins by remaining capacity
over a Fenwick tree, and the compiled kernel's linked lists over such a tree, each
with its own data structure.  All four are fed the same sequence and compared.
`Collated` is the row a bin is trained as, and `Starts` what flash attention reads
off its position ids.

**CheckpointKeeper.**  A `setup` is a command with its configuration, full or LoRA,
including those `main` refuses.  `SaveAdapter` and `KeepBestAndLast` are the two
callbacks, in the order the Trainer calls them; a save and a removal may be cut by
a kill, and `ResumesFrom` is `get_last_checkpoint`, which is external.

**Throughput.**  After a step the Trainer, which is external, logs, evaluates and
saves, each at its cadence; an evaluation and a save take time that is not
training.  Rates are kept as steps over ticks, sums over batches as sets of batches.
`trained` are the steps since the last log with their time, `unpaused` the time of those
since the last pause, `cutIn` whether a pause came between: what a logged rate is
compared with.

**LayoutData.**  Splits, packing and training over a few sources of scans, one of
each policy.  A scan's content, its strips and its bytes are small values; the
blobs, the index and the maps from record to label are what the code keeps.
accelerate's own sharding of batches is external.

**MtCorpus, MergeReady.**  A row is a directed pair of texts and a tensor is a
layer with its kind.  The ranks of a train run reach the cache in any order under
its file lock; a kill may leave any file torn.

## Runs

| Run | Result | Shows |
|---|---|---|
| `slot` | pass | a request is in one place and lost only with the thread that had it in hand; staged memory is bounded; the host's copy of the pool is right; steps stay in the allocation; every Future settles once with its own text (`SettlesOnce`); every request is answered while both threads live, and `close` stops both (`EveryWaitEnds`) |
| `slot_shutdown` | violation | `close` leaves queued and staged requests unresolved, against the comment on the shutdown drain |
| `offline` | pass | a run that returns is complete; the caches of a slot hold only its tenant's keys; each utterance is reported once and as its own (`AnsweredOnce`); the run ends |
| `tts` | pass | frames arrive once and in order; a failed, dropped or overflowing stream never ends cleanly; every stream ends while the batcher lives |
| `tts_tail` | violation | a stream can end cleanly without its last frames |
| `chunked` | pass | chunks arrive whole and in order, with their gaps, on both paths; every stream ends with its producers |
| `training` | pass | no row is lost or doubled by tokenize and compile over kills, failing workers and growing input; four packers agree and fill what they may; an epoch holds its share of every data set, dealt in equal numbers of bins (`EpochDealt`); the best checkpoints survive and a resume reads a whole one; a layout batch holds what was annotated; a logged rate is of the steps it counts unless a pause cut in, and each batch is in one log (`LogsTrue`); all ranks train on one and the same corpus; a completed checkpoint loads |
| `synthesis` | pass | the manifest says of each row what its WAV holds; the engine speaks what was recorded; a streamed frame is decoded in its context; the chunks of a text or dialogue hold all of it once and in order; a blocking caller hears all of its audio or an exception (`BlockingHearsAll`) |
| `synthesis_names` | violation | rows with one basename and text but different speakers are planned onto one WAV |
| `requests` | pass | every row of a reply is of its own file, whole, in order and in one language (`RowsAnswered`); nothing of an upload is left behind (`NothingLeft`); the second run after a kill completes a shard (`HealsInTwo`); in a live session all speech is decoded once (`SpeechHeardOnce`) and spans are bounded by the segment and the packets (`SpanBounded`); a block of a page has its own text (`OwnText`); translations line up with their sources (`Aligned`); what a TTS client has when it is told the end is the whole utterance, and what it has when closed off early the beginning of it; recordings are whole (`EndMeansWhole`); what the demo page shows belongs together (`OnePage`) |
| `shard_resume` | violation | a kill inside a character leaves a file that the next run cannot read |
| `layout_nested` | violation | an equation is dropped for a container that is itself dropped and does not cover it |

Every property of a passing run has a mutant in `PROJECT.json`: an operator of the
module (its comment begins with "Mutant") that changes one definition the way a
plausible slip would, and breaks the property under the run's own bounds.

`SettlesOnce` is the refinement of `Outcomes` by `SlotEngine`, `AnsweredOnce` that
by `OfflineRun`.  Some properties are conditional, and each condition is a
behaviour the code has:

* `RowsKept` excuses a shard whose run was killed between its file and its manifest
  entry, or whose first failed row went onto a torn line of `failed.jsonl`.
* `CompiledOnce` promises a whole output when a run finishes with the input it
  began with.
* `RanksInStep`, the second half of `EpochDealt`, excuses what the sampler itself refuses (a rank without bins raises)
  and fewer bins than ranks need as padding, where `_shard_bins` cannot repeat
  enough of them.
* `RanksTrainAlike` is about the data of the ranks.  Two ranks that wrote the cache at a
  time would write the same, so it does not show a lock that fails.
* `ResumesFromWhole` excuses a save that was cut, which leaves the newest
  checkpoint torn, and with `last_n = 0` a removal that was cut.
* `InContext` speaks of emissions with one start marker and codes in range.
* `HealsInTwo` says the second, since the first record a resumed run appends lands
  on the torn line.
* `SpanBounded` gives its bounds in terms of the longest packet.  The hard ones (the
  open span under `max_segment_s`, all that is decoded within the window) are for
  packets short beside a segment (`ShortPackets`); nothing bounds a client's.
  A span made longer by longer packets may not fit, and then ends the session.
* `LogsTrue` says of a rate what the callback computes: steps since the last log over
  time since the last pause.  Only when no pause cut in between is that the rate of
  its steps, as the docstring says of every rate; otherwise it is above it.
* `Accounted` lets a thread that dies take with it what it had in hand, once `err` says
  so: a batch being encoded, or requests popped for slots and not yet in one.  Their
  Futures are never resolved (the handler fails the queue only).
* `EndMeansWhole` asks of a file whose client was not told the end only that it is the
  beginning of the utterance.  It speaks of what the handler drew from the engine; that
  the engine itself may end a stream cleanly without its last frames is `tts_tail`.
* `OnePage` does not speak of the language selector, which an answer overwrites
  whatever was chosen meanwhile (see below).
* `BlockingHearsAll` leaves out a caller interrupted before its task was made,
  which cancels nothing, and makes no promise to one blocked while `shutdown` stops
  the loop: it waits for ever (see below).

### Bounds

`slot`: four requests (one too long, one with a bad prompt), two slots, admission
batch 1, eviction after every step as the server configures it, length caps small
enough that a request reaches its cap in two steps.  This is enough for a full
pool with a request waiting, a full staged list and every pair of deaths.
`offline`: lists of up to four utterances drawn from all kinds (already failed,
unreadable, longer than claimed, unpromptable), two slots, eviction every second
step so that a finished slot is stepped again.  `tts`: two streams, one of which
may fail, queues of one frame and groups of two, a batch of two windows, two
decode failures before the batcher gives up.  `chunked`: three chunks of up to
three frames (room for a pause inside), one prefetched, messages of two frames: a producer that
overtakes the consumer, one that is overtaken, and one not yet created.

`training` (458,334 states).  Data: four rows of two languages and two lengths,
shards of two or three rows, two runs of tokenize and two of compile, kills and
failing workers in each; a kill before, between and after every pair of writes fits.
Sampler: five rows of every length among 1, 2, 3 and 6 into bins of 5 (so that two
or three may fit, or fill a bin, or one is oversized), two data sets of which one is smaller
than its share, two ranks, two epochs, with and without rank-local packing.
Checkpoints: four saves, two kills, a full run that keeps the last and the best
two, a LoRA run that keeps only the best two, and the configurations the commands
refuse; with four saves a checkpoint is removed before and after a resume.  Layout: three sources, one of each split policy, shards of
three bytes so that pages roll over, batches of one to three, one or two
processes, two passes.  Corpus: two corpora of seven rows with a repeated pair, a
reversed one, a blank and one too long; two ranks, a kill.  Merge: three layers of
two kinds with and without shared keys, sharded or not, two merges, two kills.

`synthesis` (895,194 states).  Batch job: three rows of which two share a basename, two generating
and two decoding actors, two runs, a kill and a fault; with force, dedup and
language directories.  Engine: up to three texts of one to three frames, cut
anywhere.  Facade: every text of up to five characters over letters, spaces, commas
and full stops, five longer ones for the guards of the sentence scanner, dialogues of
three turns over five texts, budgets in characters and seconds, any of the chunks
lost.  Windows: nought to five frames, window sizes 3 and 4, every way of
cutting the emission into engine steps.  Blocking callers: two of up to two frames,
two loops, two shutdowns.  `synthesis_names` has the batch job's
bounds with rows of two speakers.

`requests` (923,605 states).  Server: eight recordings (short, long with
pauses, silent, one whose language changes, broken, empty, too large, away), four
languages of which one is untrained and one outside the recommended set, lists of
up to five paths in batches of two; what decides is the split of a list between
the two paths and the scatter back, which five paths with three short and two long
ones show.  Shard: three rows, one long and without a language, a flush every second
row, two kills and four runs: a kill before, within and after a flush, and two runs
that finish after a kill.  Session: every signal of up to eleven hops in packets of
one, two or four, with the durations scaled down in proportion (a segment of two to six
hops, an endpoint of two, five frames of history, a margin of one), which is enough for two closed
spans and an open one, or a forced cut and an endpoint after it, with packets within
the margin and far beyond it.  Pages: four pages
of up to seven boxes, two worker threads.  Translation: up to six lines, blank ones
and repeated ones among them, two threads; a benchmark of three rows and three
languages.  TTS server: two calls of up to two frames at once, two strikes before a
replica is replaced, one engine death; the two callers are interchangeable in `TtsService`,
which only quantifies over them, so the run takes them as symmetric.

### Fairness

The threads of both ASR engines are loops that the operating system keeps
scheduling: weak fairness of each thread as a whole, none of its choices (which
token ends a transcript, whether GPU work raises).  A request always ends because
of its length cap, not because of fairness.  A session that passed `submit`'s
checks reaches its `put`; nobody has to call `submit` or `close`.  In `TtsStream`
every task of the event loop is weakly fair and a generation has finitely many
frames; a client that has not left keeps reading.  `EveryRequestSettles` (the first
half of `EveryWaitEnds`) excuses an engine that was closed or lost a thread, and
`EveryStreamEnds` a batcher that has stopped or died: in both cases the code leaves
recovery to the owner, which replaces the replica.  In `ChunkedTts` the consumer and
each producer are weakly fair, as tasks of one event loop; the 0.25 s timeout is
not, so that `StreamEnds` shows the events alone suffice.  A chunk has finitely many
frames.  `training`, `synthesis` and `requests` state safety only and assume no
fairness: commands may be killed and callers may leave, so nothing is promised to
happen.  `CHECK_DEADLOCK FALSE` is set because every system here may stop: all
requests answered, engine closed, command over.

## Proofs

`SlotEngine_proofs` proves for every set of requests and slots, every batch size
and every length, from `PoolAssumption` and `EngineAssumption` alone:

* `TypeCorrect`: `[]TypeOK`.  `TypeInv` adds only the finiteness facts needed by
  the sequence and cardinality lemmas.
* `HostView` and `StepsFit`: `[]HostMatchesDevice`, `[]StepFitsPool`.
  HostMatchesDevice speaks of the states between two iterations, so it is not
  inductive: `PoolInv` says what holds at every program counter.  `SlotInv`
  relates a slot's request, cap and prompt to whether it runs, and `Lag` bounds
  how far the position mirror leads by the steps since the last eviction.
* `NeverTwice` and `NeverLost`: `[]OnePlace`, `[]Accounted`.  `PlaceInv` is their
  conjunction with `Calls` (a request in the engine has been put) and `Hands`
  (which program counters may hold drained requests).  Each hand-over is shown to
  keep the places apart with the lemmas of `SequenceFacts` on splitting,
  appending and concatenating injective sequences.  `HandInv` bounds what a thread has
  in hand, and with it what a death takes along.
* `StagingBounded`: `[]BoundedStaging`.  The producer tests the backlog in one step
  and adds to it two steps later, so `StagingInv` bounds the staged list while a
  batch is on its way (`StagedByProducer`); without a producer it says that the
  scheduler admits all it encoded before it encodes again (`StagedByScheduler`).
* `KeepsPromise`: `Spec => SettlesOnce`, the refinement of `Outcomes`, from
  `PlaceInv`, `PoolInv` and `AnswerInv`: a delivered text comes from its own
  request.

`Synthesis_proofs` has three parts, for what the run `synthesis` does in its parts `sync`,
`windows` and `engine`.  For every set of blocking callers and every number of loops, shutdowns
and frames, from `BridgeAssumption` alone:

* `BridgeType`: `[]TypeInv`.
* `BlockingStreams`: `[]BlockingHearsAll`.  What a caller heard says nothing of what
  it will hear, so the invariant adds what waits in its queue (`BoxInv`: frames that
  continue those heard, and a sentinel only at the end), that a pump is asked for
  once and before it exists (`StartInv`), and where the cancellation of a pump
  without a listener is, in a loop's callbacks or at the task (`CancelInv`).
  `BridgeSpec` is what the run `synthesis` does in its part `sync`; like that part it
  has no fairness, so the theorem promises nothing to a caller whose loop stops.

And for every set of emissions, every way the engine cuts one into steps, and every
size of the window and of the codebook, from the assumptions of `SnacCodec` and
`WindowAssumption`:

* `WindowsInContext`: `[]InContext`.  The property speaks of the end; `CaughtUp` says of
  every state that the frames so far and the tokens not yet drained are those between
  the start marker and the first end marker of what has been fed, and `SentInv` that
  each frame dispatched was sent in the window it would have with all the frames there:
  a window goes out once its last frame has come (`WindowSettled`), so what comes later
  does not change it.  That clipping and dropping frames come to the same for a
  well-formed request is `ClipFacts`, and `ParseFacts` relates the frames to those the
  parser of a whole answer finds (`PickAll`: a mask that keeps every row keeps the list).

And for every set of recordings, every call, every size of the decoder's batches and of
the codebook, from the assumptions of `SnacCodec` and `EngineAssumption` (a recording is
three streams of codes at rates 1:2:4):

* `EngineSpeaksOwn`: `[]SpokenAsRecorded`.  Of what is returned nothing could be shown
  step by step, so `EngineInv` says what is held on the way: the places still asked for
  are those of the rows without an error, each once (`StillAsked`), at each is the text's
  prompt (`Prompted`) and later the start of the tokens of its own recording (`SlotStart`),
  all of them when the generation was not cut.  The lemmas on the codec are what the
  property is about: a row padded in the tokenizer's batch gives the tokens of its own
  recording (`OwnFacts`), what is read out of a generation is the start of them
  (`GeneratedFacts`), the start of a list of tokens is read as the frames that are whole
  in it (`ParsePrefix`), streams put together again are the frames they were made of
  (`DecodeStreams`), and a row of the decoder's batch, whatever it is sorted and padded
  with, is decoded to its own frames (`BatchDecodes`).

`OfflineRun_proofs` proves, for every list of utterances, every number of slots and
every warm-up, from `PoolAssumption` and `RunAssumption`:

* `RunType`: `[]TypeInv`; `RunInductive`: `[]RunInv`.  Besides the types, `RunInv` has
  `PoolInv` (what a running slot holds: the keys and tokens of its own utterance up to
  its position, and nothing the scratch columns of finished slots or a graph's capture
  may have overwritten), `StageInv` (an utterance is in one place on its way to the
  pool), `ToldInv` (what the caller has been given) and `ThreadInv` (what each program
  counter of the two threads allows).
* `RunReturnsComplete` and `RunCachesIntact`: `[]ReturnsComplete`, `[]CachesIntact`.
  `CachesIntact` is not inductive: a slot is refilled while the others are stepped, and
  a capture runs the step over live buffers, so `SlotAt` is shown to survive `Admit`,
  `StepBody` and `WarmUp` one at a time.
* `RunKeepsPromise`: `RunSpec => AnsweredOnce`, the refinement of `Outcomes` for the
  offline engine.

`TtsStream_proofs` proves, for every set of requests and every size of the queues, from
the assumptions of `TtsStream`:

* `StreamType`: `[]TypeInv`; `StreamInductive`: `[]StreamInv`.  `FramesInv` says that
  what a client holds, what waits in its queue, what the batcher has decoded ahead of
  its turn and what is still to be emitted are consecutive; `WorkInv` and `QueueInv`
  say who may touch a request at each place of its drive task and of the batcher, and
  `FailInv` that a failure is recorded before the sentinel that ends the stream.
* `TtsInOrder` and `TtsFailureNeverClean`: `[]InOrder`, `[]FailureNeverClean`.

`ChunkedTts_proofs` proves `ChunkType`, `ChunkInductive` and `ChunkedWhole`:
`[]ChunksWhole`, for every number of chunks and frames and every gap, from
`ChunkedAssumption`.  `LiveAt` describes the consumer's work on the current chunk: its
buffer is the frames since the last flush, `held` the silent ones after it, and what
was sent of the chunk is its gap and the places opened so far.  A producer that is done
changes its chunk's frames no more, so `PastInv` keeps for the chunks already closed
what `LiveAt` said of them; `OutInv` orders what was sent.

`Requests_proofs` has seven parts, each for what the run `requests` does in one of its
own:

* `ServiceInductive` and `ServiceWhole`: `[]EndMeansWhole`, from `ServiceAssumption`.
  `ServiceInv` relates, at each place of a handler, what was sent to what was drawn from
  the engine (`SoFar`, `Drawn`, `Refused`, `Failed`, `Told`); recordings are only of
  calls whose caller was told they are complete, and a file is true to what its client
  was told (`TrueFile`).  What a client has read before the word of an end are the first
  frames of its call (`ReadSoFar`), whenever it is closed off.
* `ListenInductive` and `SpeechOnce`: `[]SpeechHeardOnce`, from `VadAssumption`.  The
  property is inductive with the types; the work is in the cuts: that a forced cut
  leaves the rest of the span to the next (`DropFacts`), that what is closed is settled
  (`Settled`) and that an exception in a close loses nothing (`CloseKeeps`).
* `SpansBounded`: `[]SpanBounded`, from `VadAssumption`, for packets of any length.  A
  forced cut may leave more than a segment in the buffer, so that the bounds do not
  follow from one step: `BoundInv` adds why the excess cannot grow.  A forced cut is at
  the last pause, so what it keeps has none (`ForcedUnbroken`), and an open span that is
  still over a segment then is cut at its very end by the next (`ForcedBehind`,
  `OpenUnbroken`).  A cut at a pause takes `min_segment_s` and the pause away
  (`ForcedLeaves`), which is where short packets give the hard bound.  A span with a
  long pause behind its last speech is at its endpoint (`OverdueEnds`), and a forced cut
  never leaves such a pause in what it keeps, since it would have been the later place
  to cut.
* `ShardInductive` and `ShardHeals`: `[]HealsInTwo`, from `ShardAssumption`.
  `ShardInv` speaks of the file as closing it would leave it: no row has two lines
  there and none is still to be done.  A buffered record has its end of line, so a
  spill makes no line that closing would not; a run that finishes ends the last line,
  so that the second one sees the row a torn line had swallowed.
* `HandlerInductive` and `HandlerLeavesNothing`: `[]NothingLeft`.  `FileInv` says at each
  place of a handler whether there is a temporary file and whether it is open.
* `HandlerAnswersInductive` and `HandlerAnswers`: `[]RowsAnswered`, from `ChunkAssumption` and
  `RequestAssumption`.  `AnswerInv` says at each place of a handler which call runs and,
  of an upload, that the modes done so far are whole and in the language the rest will
  be asked in (`Going`), which is there from the first mode on.  Under it lies what a
  call answers, for every recording: the greedy cuts are a chain of pieces from 0 to the
  end (`GreedyFacts`, by induction over what is left; `MergeTailFacts`), the words of a
  chain one after the other are the words of the whole (`ChainWords`), batches put
  back together are one answer for each row in order (`BatchedFacts`), the scatter of
  short and long rows answers every path (`PathsFacts`), and the vote names one of the
  candidates whatever the probes (`VoteFacts`, `LongLang`).
* `PageInductive` and `PageOne`: `[]OnePage`.  What the user may do depends on `busy`, so
  `PageInv` adds what a run in flight holds the page to.
* `TranslateInductive` and `TranslateAligned`: `[]Aligned`, from `TranslateAssumption` and
  `FanOutAssumption`.  A request that was answered holds its own answer and no other
  holds any (`AskedInv`), the engine in the process has answered the first of its list
  and no more (`EngineInv`, so that the count it batches by is the place it has reached:
  `CountedUpTo`), the segments are those of the direction in hand (`TaskInv`), and what
  was scored under the name of a direction is of that direction, row by row
  (`ScoreInv`).  `WriteResults` keeps the translated records with `PickAt`, whose lemmas
  say that it keeps their order and picks the same places of the segments.

`Training_proofs` has six parts, for what the run `training` does in its parts `data`,
`keeper`, `merge`, `meter`, `corpus` and `layout`:

* `TokInductive` and `TokKeepsRows`: `[]RowsKept`, from `TokenizeAssumption`, under the
  steps of both stages (`DataSpec`).  `TokInv`
  keeps the driver and the manifest in agreement (`HandInv`), and of a shard file
  without a done entry says that it is in hand or was cut (`FileInv`).  Input that grew
  needs `CountFacts`: the number of shards never falls as rows are added.
* `DataInductive` and `DataCompiledOnce`: `[]CompiledOnce`, from `TokenizeAssumption` and
  `CompileAssumption`.  That no row is compiled twice rests on the tokenizer: a row is
  only ever written to the shard its position gives (`OwnerInv`), so the parts of a split
  share no row (`TablesApart`).  That none is missing rests on the order of the
  finalization: every compiled shard has its parts (`PartsHere`) until the rewriting has
  put all their rows in the output (`RewriteInv`, `OutWhole`), and only then are the
  parts removed.  `SlicedFacts` says that cutting a table into shards loses no entry and
  puts none in two, because each has as many before it as no other has.
* `ResumeInductive` and `KeeperResumes`: `[]ResumesFromWhole`; `BestInductive` and
  `BestKept`: `[]BestSurvive`, from `KeeperAssumption`.  `BrokenInv` says that a
  checkpoint cut while written or removed is covered by a newer whole one or is a
  leftover the next rotation takes, `VictimInv` what a rotation may be in the middle of
  removing; `BestInv` adds the log of evaluations, and `BestSaved` and `FewerBetter`
  that a save lets nobody else in among the best.
* `MergeInductive` and `MergeReadyLoads`: `[]ReadyLoads`, from `MergeAssumption`.  The
  weights on disk are the first files of one merge (`Filled`), the index names the
  completing file only once that file is whole, and a command in the middle holds what
  it will write (`StoredMap`, `FullMap`).
* `MeterInductive` and `MeterTrue`: `[]LogsTrue`, from `ThroughputAssumption`.  The
  clock of a rate stands at the last pause and the steps since (`ClockInv`); its count is
  that of the steps since the last log, whose time is the same unless a pause cut in
  (`TrainedInv`); and a batch is in one log or still in the sum (`LoggedInv`).
* `CorpusInductive`, `CorpusDealt` and `CorpusAlike`: `[]RanksTrainAlike`, from
  `CorpusAssumption`.  For `RanksAgree`, a rank that is past a split has what the
  cache holds of it (`GotInv`), and nobody writes over a saved cache, because a rank that
  saves one holds the lock of a cache that is only begun (`SavingInv`).  Ranks resume at
  the last checkpoint until all of them train, and only then is another written
  (`ResumedInv`).  For `PairsHeldOut`, `DealtInv` says that each file holds the rendered
  rows at the places drawn for it; the seeded streams are the same in every render, so
  a render that starts over under a cache repeats the one the cache was built from
  (`Wholly`).  That the rendered rows are the wanted pairs is `FlattenFacts` for the
  corpora one after the other, and that deduplication keeps one of each is
  `PickInjective`.
* `LayoutInductive` and `LayoutBatches`: `[]BatchesAsAnnotated`, from `LayoutAssumption`
  (annotations are finite lists, sizes and weights are numbers, a batch and the number of
  processes are positive).  `CacheInv` says what the packed cache holds: an entry of the
  index has its page's bytes at its place in its shard (`BytesCached`) and its page's
  labels between its offsets (`LabelsCached`), no two entries are of one page
  (`PagesCached`), and packing disturbs nothing that is there (`CachePage`, `SkipPage`).
  `PassInv` says that what was fed so far is what the order of the pools and the two
  dealings give, and that there were enough pages for it.  The rest is arithmetic of
  places: a source's part of a global batch is a multiple of the number of processes and
  begins at one (`StartsFacts`), so every rank's share has as many of it (`ShareCount`,
  `ShareFacts`); two global batches have no place of a pool in common (`BatchesApart`),
  and step and rank follow from the number of a batch (`DivUnique`).

`SequenceFacts` also holds what these proofs need of sequences in general: splitting,
appending, concatenating, cutting, intervals and injectivity, what `PickAt` keeps and how
much, what `FlattenSeq` joins and where, and what division leaves.

Checked by TLC only:

* liveness (`EveryWaitEnds`, `EveryStreamEnds`, `StreamEnds`, `RunEnds`): ENABLED and fairness are
  out of the prover's reach;
* what a recursive function, a fold, `FlattenSeq`, `SelectSeq` or a sort computes for
  every input, where the induction over data is too long to carry out by hand.  The
  provers cannot use the library's induction theorems for it, so each such induction is
  one over a set of naturals, as it is done in `SequenceFacts` for `FlattenSeq` and
  `PickAt` and the sum over a finite set, and in `Requests_proofs` for the greedy cuts.
  Left to TLC for that reason are the packers and the
  collator (`WellPacked`, and `EpochDealt` with its halves `RatioKept` and `RanksInStep`), the chunk planner
  (`WholeText`) and pages (`OwnText`);
* `ManifestTruthful`, which depends on the inputs: two speakers of one text who share a
  path of output would refute it, so it is no theorem for every value of the constants.

## Where code and documents part, or a caller may be surprised

Five disagreements have a run of their own that shows them (`slot_shutdown`,
`tts_tail`, `shard_resume`, `layout_nested`, `synthesis_names`).  The others were
met while modelling; the models follow the code.  Two of them are in what the passing
runs check.  In `RateOfTraining`: `on_evaluate` and `on_save` move the time of the last
log and not its step (`callbacks.py:210`, `:219`), so a utilization logged after one that
came between two logs divides the steps of the whole interval by the time of those after
it, where the docstring at `:107` has "wall-clock seconds for logging_steps steps".  With
`configs/tts/train/sft.yaml` (logs every 20 steps, evaluations and saves every 250) the
log at step 260, and after each odd multiple of 250, is twice the true utilization.  In
`SpanBounded`: the comment at `replica.py:50` says that a second of margin covers a span
that overshoots by one packet and the carry-in of a forced cut, while `service.py:286`
takes packets of any length.  A cut may carry over all but `min_segment_s` and the pause
of a packet too long and the next packet comes on top before the next test, so with the
shipped 0.6 s and 0.2 s packets of over 0.9 s make a span that `submit` refuses
(`slot_engine.py:202`): the session ends with an error and the span is not transcribed.

ASR.  A scheduler or producer thread that dies never resolves the Futures of what it
had in hand, nor of what is staged or in a slot: its handler fails the queue only
(`slot_engine.py:536`).  An exception in the main loop of `continuous_batching.py:644` leaves `run`
without telling the producer thread to stop.  A finished slot waiting for eviction
may embed a position past the table, which the comment at `:332` and the code at
`:728` see differently.  A session that is silent from its start has the silence
decoded for a partial, against the docstring of `streaming.py:225`.
`LID_MAX_SECONDS` is not applied at `/asr/detect`, although `replica.py:112` says
why it should be.  The demo page adopts an identified language by the value the
selector had when the request was sent (`service.py:840`), so a language the user
chooses meanwhile is overwritten, although the page says one supplied always wins.

TTS.  If the batcher task dies after repeated decode failures, the consumers of
other open streams poll for ever (`snac_streamer.py:290`): the health check reports
it and the owner replaces the replica, which is what `EveryStreamEnds` excuses.  A caller of
`stream_sync` that is blocked while `shutdown` stops the loop waits for ever; after
a shutdown a new one is told the engine is bound to another event loop.  A gap is
sent before a chunk that then fails live (`chunked.py:844`).  The recording counter
restarts at 0 in each replica, so replicas sharing a directory overwrite each
other's files; a complete utterance is not recorded when the client closes first; a
websocket or event-stream client writes what it has even when the connection was closed
normally without an end event (`client.py:94`), and says nothing of it.  `_shard_bins` repeats the first bins, not the last as its docstring says, and
cannot repeat more than there are; the sampler's length before the first pack is an
estimate.  Comments on resume at `compile.py:522` and `tokenize.py:469` promise more
than the code does.  With `last_n = 0` a removal that is cut may leave a broken
checkpoint as the newest.

Translation.  `render.py`'s note on ordering assumes the pair order its default
deduplication removes; the reverse of a train row may be in dev.  A cache torn by a
kill in `save_to_disk`, or stale after a re-render, is never rebuilt.  An index torn
in the middle of a write stops `vllm_ready` from running again.  A server's reply
without choices raises for the whole batch, although transport errors are said to
land in `MTResult.error`; the offline commands exit 0 with failed rows, the client
exits 1; on standard output failed rows are dropped.

OCR.  The layout evaluation makes a list of a `PageResult`, which raises, so that
every page is skipped, and compares pixel boxes with normalized ones.  A data set
read from disk never drops header and footer strips while the packed one may
(`dataset.py:143`).  A layout file with duplicate orders gives one text to two
blocks.  Outputs of two images with one stem overwrite each other.  The sampler has
already dealt pages to ranks when accelerate deals batches again, so each epoch
uses one page in as many as there are ranks.  A pack that is killed leaves an old
index over new blobs.

## Not modelled, and the plan

Left out, and why: forward passes, features, logits, LID scores, the SNAC and Vocos
networks, loudness, LaTeX repair, crop scaling and BLEU or chrF are numerical or
textual code without state; argument parsing, Ray Serve, vLLM and Trainer start-up,
logging, benches and reports are wrappers;
`_pack_best_fit*` is not called.  `components` in `PROJECT.json` says it part by
part.

Next:

1. Proofs of `WholeText` and of the layout half of `OwnText`.
2. The consumers of a batcher that died, and the producer thread of an offline run
   whose main loop raised: both need a statement of what the code should promise.
3. The configuration and start-up of the two servers.
