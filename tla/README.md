# TLA+ models of sam3cpplib

sam3cpplib runs the SAM3 segmentation model: encode an image once, then ask for
detections by text, by example box (both "PCS") or by point and box ("PVS").  It
is a C++ library of free functions over two objects, `sam3_model` and
`sam3_state`, with two interchangeable engines behind every stage: graphs of
ggml, and TensorRT.  What is hard about it is not the arithmetic but who owns
which buffer after which call failed, which of the two engines answers, what
the process and the disk remember, and whether the many hand-overs between
programs, graphs and name lists agree.  The modules here model that.

Paths below are relative to the repository, sources under `src/`.

## Inventory

| Part | State | Operations | Hard behaviours | Correct when | Module |
|---|---|---|---|---|---|
| Session (`api.cpp`, `state.cpp`, `trt/trt_{encoder,pcs,pvs}.cpp`, the two encodes of `debug.cpp`) | `sam3_state`: seven owned native allocations, raw pointers into them, caches with validity flags, switches | encode (three ways), text prompt, point prompt, exemplar embedding, FP8 switches, free | every encode replaces allocations and may fail between freeing and replacing; TensorRT and ggml leave different things behind; flags outlive what they vouch for | nothing leaks or dangles; a prompt answers from the last successful encode, at its size; failures are refusals | Session |
| Model registry (`model_load.cpp`, `ggml/backend.cpp`, `trt/trt_encoder.cpp`) | `g_gpu_backend`, `g_trt_cfg`, the static table of engines, every model | load (fails at many points), free, the engine and path of each call | global state set midway through loads that then fail; several models; a table that outlives them | the registered backend is live and the right one; a configuration gets its engines | ModelRegistry |
| Weight container (`model_load.cpp`; converter and extractor in `scripts/convert/`, `examples/quantize.cpp`) | the file | convert, quantize, extract, load | five programs choose tensors by lists of their own; interrupted writes; readers that do not look at what they read | loaded means complete, each tensor with its own bytes; complete means loadable | WeightFile, TensorNames |
| Engine cache (`trt/trt_engine.cpp`, `trt/trt_runtime.cpp`) | one file per key in a shared directory | hash, look up, build, write, deserialize | processes overlap, crash, fail to write; no lock, no rename | nobody runs an engine of another model or precision | EngineCache |
| Engine run (`trt/trt_runtime.cpp`) | bindings, staging buffers, a stream | create, bind, enqueue, copy out, synchronise, free | asynchronous copies into vectors that a failure frees; a context that remembers earlier calls | a successful call has its own outputs | EngineRun |
| Tokenizer (`tokenizer.cpp`) | vocabulary, merge ranks, a cache | load, split, merge, pad, truncate | a cache that outlives calls and vocabularies; truncation at the end token | equals the reference merge; always the form the text encoder takes | Tokenizer |
| Prompts and answers (`ggml/pvs.cpp`, `ggml/pcs.cpp`, `api.cpp`, `trt/trt_{pcs,pvs}.cpp`, `mask_utils.cpp`) | none beyond the session's | rows of points, boxes, exemplars; mask choice, threshold, NMS; area, box, centroid, coordinates | the 16-token bound, no-prompt requests, counts computed five times, ties, empty masks | both engines see the whole prompt; NMS and measures meet their definitions | Prompts |
| PCS pipeline (`ggml/pcs.cpp`, `api.cpp`) | five contexts and allocators, one after the other, and vectors between them | build, allocate, set inputs by name, compute, read back | padding, token id 0, the presence row, inputs found by name | padding has no part in an answer, the whole prompt has; rows stay aligned | PcsPipeline |
| Graph builders (`ggml/backbone.cpp`, `ggml/pvs.cpp`, the rest of `ggml/pcs.cpp`) | none | vision transformer, mask decoder | | | partly: the text path's graphs |
| Window partition (`ggml/backend.cpp`), preprocessing and image files, tensor dumps (`debug.cpp`), exporters, examples, vendored stb | none | | | | not modelled, see below |

How they interact: a client loads a model (registry, reading a container that the
tools wrote), creates a state of it and calls the session; every session call
consults `g_gpu_backend`, `g_trt_cfg` and the engine table; the first use of a
table entry goes through the engine cache on disk; TensorRT stages go through
the engine run, ggml stages through graph builders and `sam3_graph_compute`.
A text prompt is tokenized, laid out with its exemplars (prompts), run through
the pipeline or an engine, and thresholded and suppressed (prompts again).
There are no threads, callbacks or messages inside the library: a call runs to
its end.  Concurrency is between processes (the cache) and between a call and
the device (the engine run), order is the client's, failure is the environment's.

`PROJECT.json` lists every component and, under "hazards", what each is exposed to.

## Modules

- **PromptableImage**: what a client is promised of one state, with no memory,
  path or engine.  The abstract specification of Session.
- **Session**: one `sam3_state` under one deployment (build, configuration,
  weights, available engines), driven by any sequence of calls.  One action per
  public function.  `session.handle` holds the owning pointers, `live` the
  allocated blocks, `tensor` the cached tensor pointers, each with the block its
  metadata is in, the block its data is in, the image it was computed from and
  its size.  A use of memory the code does not check is a fault that ends the
  session (`status`).  A call may fail wherever the code has an exit; the kinds
  are chosen by the constant `Failures`.  Blocks have fresh names, the least ones
  no pointer holds, so neither a bound nor a counter is needed and a dangling
  pointer never looks live.
- **ModelRegistry**: one process and its models.  `sam3_load_model` ends at one
  of four places, named by what it has changed by then (`Stops`); `Infer` is what
  a session call finds in the globals: the path and the engine.  `DeploymentFixed`
  is why Session may take its deployment as constant between loads.
- **EngineCache**: several processes over one directory, one action per step
  that can be observed from outside (read and hash, hit, miss, build, open,
  write, deserialize), a failure of each, crashes, and new exports of the ONNX
  files.  Reading the cache file is one step: a read that overlaps a write has
  an outcome that a read at one instant of the write has too.
- **EngineRun**: one engine and its successive calls.  `stream` is the work
  queued on the CUDA stream; `Device` takes its first item at any time, so that a
  copy the code calls asynchronous may be done at once or long after the call
  failed.  Every call has a number that stands for its data; a run whose inputs
  were not all of one call yields `Garbage`.  `late` and `wild` are history
  variables.  Outputs have static shapes, as the code requires, and freeing
  device memory waits for the device, as CUDA's does.
- **WeightFile**: a container and the four programs that handle it.  A record
  carries the name of the tensor whose bytes it holds, so that "its own bytes"
  can be asked for.  `Cuts` is what an interruption of a writer leaves, `Patched`
  what the quantizer makes of a record its input ends in, `Stops` and `Loaded`
  where the loader ends and what it has then.  **TensorNames** gives the name
  lists of the five programs, one tensor for each kind that any of them tells
  apart (type, shape, section, special treatment).
- **Tokenizer**: `sam3_tokenize` step by step: one word split off, one word
  merged or found in the cache, its ids emitted.  `MergeOnce` takes the best pair
  first and merges all its places (`MergeAll`), as the code does.  The properties
  compare what it comes to with a definition of another shape: `ByRank`, each
  merge once in the order of ranks, at the places that `AllMerged` finds first
  and replaces then.
- **Prompts**: a request, the rows each path makes of it, any raw output, and
  what the code makes of that.  The order `std::sort` leaves ties in is a choice.
- **PcsPipeline**: the five graphs of a text prompt as a flow: a number is
  abstracted to the set of sources it was computed from, a row keeps the token or
  query that residual connections add to it.  An input is found by name
  (`First`), so two inputs of one name are one input set and one not.
  `seg_fpn2` gets no buffer, because nothing reads it, and is not set.
- **Loops**: a loop that keeps some elements of a list, which the loader, the
  point rows, the mask coordinates and the definition of a text's tokens share.
- **SessionProofs**, **ModelRegistryProofs**, **EngineProofs** (of EngineCache and
  of EngineRun, whose `Init`, `Next` and `Spec` are named `RunInit`, `RunNext` and
  `RunSpec` so that one module can extend both), **PromptsProofs**,
  **TokenizerProofs**, **WeightFileProofs**, **PcsPipelineProofs**: the theorems.
- **LoopProofs**: the facts about data that they share: induction over numbers,
  functions defined by recursion, sequences as functions, and what `Selected` and
  `Filtered` end with.
- **MCSession**, **MCModelRegistry**, **MCEngineCache**, **MCEngineRun**,
  **MCWeightFile**, **MCTokenizer**, **MCPrompts**, **MCPcsPipeline**: constants for TLC.

An operator whose name is that of the next one and a suffix, such as
`DropEncode_GgmlOnly`, is that definition with a mistake in it.  Nothing uses it;
each shows that some property would notice.

## Runs

Passing runs:

| Run | Shows | Size |
|---|---|---|
| `session_all` | all calls, all failures, fourteen deployments: ownership, complete free, current features, answers of the encoded image, failed encodes that keep features, and that after a successful native-size encode only the two known prompts can fault (see the first two disagreements below) | 2 images, 1 preprocessed buffer, 122,000 states |
| `session_ggml` | without TensorRT no call faults, the encodings' flag is truthful, and Session implements PromptableImage | 5 deployments, 6,800 states |
| `registry` | registration, configuration and stability of service | 3 models, 2 engine names, 366,000 states |
| `engine_cache` | key, memory and torn files under failures and crashes | 2 processes, 2 contents, 2 requests, 109,000 states |
| `engine_run` | three calls on one engine, each failing anywhere, against a device at its own pace: outputs, bindings, staging, stray writes, and that every call returns | 2 inputs, 2 outputs, 456,000 states |
| `weight_file` | converter, quantizer and extractor in any order with an interruption anywhere: what loads is whole, what is whole loads | 3 programs, 1 interruption, 56,000 states |
| `tokenizer` | words, merges, cache and ids as defined, with vocabularies whole, cut and exchanged; every call returns | 28 texts, 2 vocabularies, 195,000 states |
| `prompts` | rows of every small request on both paths, suppression for every order of ties, measures of masks | 363,000 states |
| `pcs_pipeline` | what reaches an answer and what does not, and alignment of score, box and mask, with a failure at any stage | 1,100 states |

Bounds.

- *Session, ModelRegistry, EngineCache*: two images suffice where a property compares
  what a state holds with what it was last given; a third only renames.  Sessions
  are finite without a bound on their length because names of blocks are reused.
  Three models are the least in which one is loaded, one fails and one is freed in
  every order.  Two processes are what an overlap takes.  Images, models and
  processes are symmetric, and no model chooses among them.
- *EngineRun*: `MaxCalls` is 3: one call that fails, one that fails over what
  the first left, and one that succeeds.  Of two inputs one has a dynamic shape;
  the arguments include one too large for the profile and one of the wrong size.
- *WeightFile*: `MaxTools` is 3, so convert, quantize and extract (or quantize
  twice) are one history; `MaxCrashes` is 1.  The names are the kinds of
  TensorNames, in three orders: an interruption can fall before, in and after each.
- *Tokenizer*: `MaxCalls` and `MaxLoads` are 2, since the cache needs a second call or
  vocabulary to be wrong; five ids, so that texts of one to five tokens fall on both
  sides of the truncation.  Both lists of merges satisfy `MergesInOrder`, which the
  theorems suppose; the run checks that.  The texts have every kind of character the code
  distinguishes, contractions and markers, whole and cut off.
- *Prompts*: up to 15 positive and 3 negative points and a box, on both sides of the
  profile's 16; three detections with three scores, which is a tie, a chain and
  a suppressed suppressor; a 3 by 2 image with empty, full and corner masks.
- *PcsPipeline*: four ids, three queries, two or three layers (the second layer is
  the first that has a predecessor), and `MaxCalls` 2.

Violation runs, each one disagreement between code and text ("findings" in `PROJECT.json`
quotes both sides):

| Run | In a sentence |
|---|---|
| `trt_encode_mutates` | a failed TensorRT encode has dropped the previous one, pointers still set |
| `pcs_after_trt_encode` | the text fallback reads encodings a TensorRT encode never made |
| `unset_input` | the decoder's layers after the first read inputs that nobody sets |

Deadlock is not checked: a session ends, a model is loaded once per name, a
bounded history is over, and a library waits for its client.

Fairness.  `Tokenizer` and `EngineRun` claim that every call returns
(`CallsReturn`).  In Tokenizer, `WF(Step)` says that a call which has begun runs on;
it waits for nothing.  In EngineRun, `WF(Step)` says the same of a call whose
next step is possible, and `WF(Device)` that the device works its stream off,
which is all that `cudaStreamSynchronize` waits for; failures and the next call
are not fair, nothing forces them.  Elsewhere no liveness is claimed: an action
is a whole call, and the next one is up to the client.

### Disagreements without a run

These were met while modelling.  The models have the code's behaviour, and the
properties above are stated around it.

- A text prompt on ggml after a TensorRT encode, or after a failed allocation of the
  positional encodings (`api.cpp:233`), reads encodings that are not there (`api.cpp:408`;
  run `pcs_after_trt_encode`).
- `sam3_pcs_compute_exemplar_embedding` asks whether there is a detector neck and, unlike
  `sam3_segment_pcs` (`api.cpp:330`), not whether the model is visual-only.  A TensorRT encode
  sets `neck_det` for any model (`trt/trt_encoder.cpp:216`); the geometry weights of a
  visual-only model are never registered (`model_load.cpp:273`), and `sam3_read_f32` looks into
  a null tensor (`ggml/pcs.cpp:520`, `ggml/backend.cpp:263`).  After a ggml encode there is no
  detector neck and the call answers nothing.  These two are the exceptions of
  `EncodedPromptIsSafe`.
- The TensorRT point path runs before the check "image not encoded" of
  `api.cpp` and reads `neck_trk` unchecked (`trt/trt_pvs.cpp:95`).  `NoFault` is
  therefore only claimed where there is no point engine.
- For the same reason a request without a point or box, refused on the ggml path
  (`api.cpp:927`), is answered on the TensorRT path.
- `neck_pe_valid` survives the encodings it vouches for when their reallocation
  fails in `sam3_encode_image_from_preprocessed` (`debug.cpp:975`): hence no
  failure "pe" in `session_ggml`.
- A TensorRT encode of a preprocessed image returns before the image's size is
  stored (`debug.cpp:788`): the exception in `AnswerMatchesEncode`.
- The engine table is keyed by variable name, so that the engines of a second
  configuration are those of the first (`trt/trt_encoder.cpp:67`): the premise of
  `UniformConfigServed`.
- A load that fails after the backend exists takes the GPU registration of an
  earlier model with it (`model_load.cpp:868`): why `RegistrationKept` ends with the
  next GPU load.
- A cache file that was not written to its end is a hit ever after
  (`trt/trt_engine.cpp:221`): what `TornHasCause` traces to its cause.
- Creating an engine with a tensor of an unsupported type returns without
  destroying the stream (`trt/trt_runtime.cpp:96-99`).
- The quantizer does not look at how much it read: a tensor that its input ends
  in is written to its full length from buffers it never filled
  (`examples/quantize.cpp:278`).  At the end of a visual-only file nothing
  notices: the exception in `LoadedHoldsOwnBytes`.
- The same quantizer after a conversion to visual-only that was cut off within the
  name of its last record writes that record under a mangled name.  The extractor
  drops a record whose name it does not know (one that still begins with `sam_pe.` it keeps)
  and gives the sidecar the count of what it
  kept (`scripts/convert/extract_sam3_trt_runtime.py:117`): a file like a whole one, without
  one helper tensor.  Only the loader's count of registered tensors
  refuses it: why `CompleteFilesLoad` leaves visual-only sidecars out once a
  program was interrupted.
- Token id 0 is masked as padding (`api.cpp:420`, "0.0 for valid tokens, -1e9 for
  padding text tokens") and is "!" in the vocabulary, so an exclamation mark is
  hidden from the prompt's attention biases.  `OnlyPaddingMasked` of Tokenizer states
  the comment and is in no run; `WholePromptReaches` shows that the mark still
  reaches every answer, through the text encoder.
- `sam3_mask_bbox` ends behind the last pixel, the box of a PVS detection on it, and
  for an empty mask that box is inside out (`include/sam3cpp/sam3.h:113` speaks of
  `sam3_detection::box` as the model's predicted box).
- `api.cpp:373` says that the TensorRT text path takes "zero exemplar boxes"; it takes
  any that fit its profile.

## Proofs

All proofs are of safety properties of `Spec`, for every value of the constants that meets
the named assumptions.  Those of Session, ModelRegistry, EngineCache, EngineRun and
PcsPipeline only say that sets and bounds have their types and that special values are not
ordinary ones.  Others say what the code's data is like:

- Prompts, `RequestsAssumption`: points and exemplars are lists, scores and boxes are whole
  numbers of any size, the pixels of a mask are the image's.
- WeightFile, `NamesAssumption`: a checkpoint lists no name twice (a Python dictionary),
  the detector's tensors are registered ones, and the name a misread record gets is nobody's.
- Tokenizer, `CharsAssumption`: letters, digits and white space are disjoint, a space is
  white space, special tokens and the letters of contractions contain none.
- Three theorems have hypotheses of their own, besides those named below for Session and
  EngineCache.  `NamesAgree` (WeightFile) says that the
  programs' name lists agree; `ListsAgree` proves it of the lists in TensorNames, as the four
  sources have them.  `MergesInOrder` (Tokenizer) says that a list of merges has a pair once and
  after the merges that make its tokens, which is how training writes such a list: a merge joins
  two tokens that exist.  The list itself is data outside the repository; TLC evaluates the
  hypothesis for the run's lists.

With these, every safety property that a passing run checks is proved.

- **Session**, first part: `TypeOK`, `Ownership`, `FreedMeansEmpty`,
  `EncodedFeaturesCurrent`.  The strengthening (`IInv`) says three things more: every live
  block is held by exactly one handle, no local handle is left over between calls, and the
  features of the last encode are held under its path until the state is freed.  The first
  makes a fresh block fresh; the second makes the end of one call a start for the next.  The
  argument treats `Allocate`, `Free`, `Adopt` and `Point` once, as lemmas about any state,
  and each call as a composition of them.
- **Session**, second part: `AnswerInv` adds to `IInv` that the stored size and the size of
  the features fit the last encode; from it follow `AnswerMatchesEncode`,
  `FailedEncodeKeepsFeatures` and `EncodedPromptIsSafe`, in every deployment.  For the last,
  `IInv` also says which encodes leave a detector neck: all but a ggml encode of a visual-only
  model.  `NoFault`,
  `PeValidMeansReadable` and the refinement `KeepsPromise` are proved under `GgmlSessions` (no
  TensorRT, weights loaded, native size, only graphs fail), the conditions of `session_ggml`.
  `GgmlInv` says that a state is either `Empty`, without features, or `Ready`, with everything
  a prompt reads, and that the flag implies the encodings are held; every call of such a
  session is then a step of the promise or leaves it unchanged, one lemma per call.
- **ModelRegistry**: the invariant adds that the configuration in force came from some load,
  that engines in the table are what some load asked for, and that a remembered answer is the
  one asking again would yield; the last makes `DeploymentFixed` a step property of the
  invariant.
- **EngineCache**: the invariant follows a process: before it parses, the file it will parse
  is the file it hashed; from then on its engine is that of its key.  `CacheFaithful` and
  `MemoAsAsked` hold under `ProperUse`: no pattern given twice (`DistinctHashed` proves that
  then the exclusive or loses nothing) and no export during a build.
- **EngineRun**: the context's part of the invariant is that what the call has bound so far
  has this call's address and shape; the stream's, that the last upload queued for a staged
  input is this call's (or the staging already holds it), that behind those uploads stands
  one run of this call, and that downloads of this call follow that run.  Work of earlier,
  failed calls may stand anywhere before: a stream is worked off in order, so that it is
  overwritten before this call's run.
- **Prompts**.  `SuppressionAsDefined`: of the detections met so far each is kept or
  suppressed, kept ones do not clash, and each suppressed one has a kept one of no lower score
  to blame: the order of processing is what makes the blame go the right way.
  `PromptReachesEngine`: the rows of a request are lists joined, so that a row of either path is
  found in one of them by its index; what is cut off lies behind the profile's last row.
  `MasksMeasured`: raster order is division with remainder by the width, hence a bijection of
  indices and pixels, and the loops that count and sum over indices are, by induction over the
  index, counts and sums over pixels.
- **Tokenizer**.  `SplitFollowsPattern`: what was split off is the text up to the position
  without its spaces; a piece is cut out at the position and a run of one kind ends before the
  first character of another.  `CacheHoldsMerges`, that taking the best pair until none is
  left comes to the same as every merge once by rank: a word under way (`UnderWay`) is what the
  first k merges make of its symbols, and it has pairs of later merges only.  The merges
  between k and the best pair then leave it as it is (`Skipped`), merging the best pair is the
  next one (`MergeAllIsAllMerged`), and a pair that is new has the new token in it
  and therefore a later rank (`BestIsNext`).  The last is where `MergesInOrder` is needed: without
  it the two differ, since a rank that comes back is applied by the code and not by the
  definition.  `ResultAsDefined`: the ids are those of the tokens looked up so far, a suffix of
  the current word being left (`Work`); fitting them makes the defined result.
  `ResultFormat` needs none of this and holds whatever was read.  `LoopsMoveOn` is the step
  property behind `CallsReturn`: no pass of the splitting loop stays where it is, and
  a merge of a pair the word has leaves fewer tokens.
- **WeightFile**: through every program names stay distinct and bytes their own, except for
  the last record of a file that was interrupted and rewritten, and such a file has no
  vocabulary again (`Sound`).  So a loader that only counts records has given every
  registered tensor its data (`CountIsEnough`: an injection between finite sets of equal size
  is a surjection), which yields `LoadedHoldsOwnBytes`, `IncompleteFilesRefused` and
  `SidecarHasItsRecords`.  For `CompleteFilesLoad` the invariant also follows which names a
  file still has and in which types (`Traceable`), and uses `NamesAgree`.
- **PcsPipeline**: between the stages every vector is known by its rows: whose each one is and
  what has reached it.  After the encoder each row has exactly everything that was asked,
  besides weights and positions, so that `PaddingHasNoInfluence` and `WholePromptReaches` are the
  two inclusions of one equation; the layers of a stage are an induction over their number.
  `DetectionsAligned` is the other half, whose row is whose.

Induction over data.  The library's induction theorems take a predicate as a
parameter, which no installed prover can instantiate.  LoopProofs puts a set in its
place: `SetInduction` follows from the theorem that an injection of a finite set into itself
is onto, `LeastExists` from it, and `Recursion` from both: a function defined by recursion exists,
and equals the one that CHOOSE picks.  What the loops of the models compute is proved
with these, which is why those loops are recursive functions and no module uses
RECURSIVE.

Only model-checked: `CallsReturn` of Tokenizer and of EngineRun, which is liveness under
fairness.  (`LoopsMoveOn` proves for all constants what Tokenizer's rests on.)

## Assumptions of the models

- One client thread per process; a call is one action, or in the modules that
  follow a call step by step, one call at a time.  The engine table has no
  lock, so a client with threads is outside the models.
- Reading a tensor of the wrong size is a fault, though the build may survive it.
- FNV hashes do not collide; only their combination by exclusive or is modelled.
- A file that is not one whole engine does not deserialize.
- `ggml_init` itself returns null only where the code checks it.
- What a CUDA stream is given it does in order; an asynchronous copy between the host
  and the device may be done before the call returns or after.
- Attention depends on all rows it may see; -1e9 as a bias hides a row.
- The end of a file falls anywhere in it; a write does not change what it has written.

## Not modelled, and why

- Window partition and graph lowering: a fixed chain of tensor views, which the
  library's own backend test compares with the native operation; when it applies is
  `Fallback` of ModelRegistry.
- The vision transformer, the mask decoder, preprocessing and interpolation:
  arithmetic of real values without state or control that depends on data.
- Image files, tensor dumps, exporters, calibration, examples and vendored code: input
  and output, inspection, offline tools and clients.
- Some hazards have no property, mostly because the code goes wrong there and the
  properties are stated around it, as a premise or an exception: a prompt with a point engine
  before any encode, a request without a prompt, a second TensorRT configuration or a second
  GPU model in one process, a pattern given twice, an export during a build, a second
  vocabulary.  Each has a note in `PROJECT.json`.

## Plan

Done: Session with PromptableImage, ModelRegistry, EngineCache, EngineRun, WeightFile,
Tokenizer, Prompts, PcsPipeline, their runs, and the proofs above.

1. For EngineRun what `LoopsMoveOn` is for Tokenizer: that each step of a call, and each of
   the device's, lowers a variant.
2. Window partition as a permutation of rows, compared with its inverse.
