------------------------------- MODULE Session -------------------------------
(***************************************************************************)
(* One sam3_state driven by one client: create, encode an image, prompt    *)
(* it, free it.  A state owns up to seven native allocations and holds raw *)
(* pointers into them; every encode replaces some of the allocations and   *)
(* some of the pointers, and may fail between the two.  The module follows *)
(* who owns which block, what each cached tensor pointer points at, and    *)
(* which of the two paths (TensorRT, ggml) answers a call.                 *)
(*                                                                         *)
(* Where a definition is preceded by another of the same name and a suffix *)
(* (DropEncode_GgmlOnly), that one is a mistake the runs must notice.      *)
(*                                                                         *)
(* A call is one action: the library runs a call to its end before the     *)
(* client makes the next one (docs/api.md).  What the environment decides  *)
(* inside a call -- an allocation, a graph, an engine that fails -- is a   *)
(* nondeterministic choice of the action, limited by Failures.             *)
(***************************************************************************)
EXTENDS Naturals, FiniteSets

CONSTANTS
  Images,        \* pictures given to sam3_encode_image, each with its own size
  Preprocessed,  \* native-size float buffers given to ..._from_preprocessed
  NoImage,       \* "nothing encoded"
  Square,        \* the pixel size of every Preprocessed buffer
  Deployments,   \* the builds, models and settings a session may run under
  Calls,         \* the entry points this client uses
  Failures       \* the kinds of failure the environment may exhibit

CallNames == {"encode", "encode_prep", "encode_vit", "pcs", "pvs", "exemplar",
              "fp8", "free"}
FailureKinds == {"trt_encode", "trt_prompt", "graph", "pe"}
Sizes == {"native", "override"}
Engines == {"enc", "enc_fp8", "pcs", "pcs_fp8", "pvs"}

\* What is fixed for the life of a session: the build (SAM3_TRT_ENCODER,
\* SAM3_TRT_ONLY), SAM3_TRT enabled, the model on the registered GPU backend,
\* trt_only_weights, the model kind, encode_img_size, and the engines that
\* can be had (the engine cache remembers failures too, so this never changes).
Deployment == [built : BOOLEAN, only : BOOLEAN, enabled : BOOLEAN,
               onGpu : BOOLEAN, skip : BOOLEAN, visualOnly : BOOLEAN,
               size : Sizes, engines : SUBSET Engines]

ASSUME ImagesAssumption ==
  /\ Images \cap Preprocessed = {}
  /\ NoImage \notin Images \cup Preprocessed
  /\ Square \notin Images \cup {NoImage}
ASSUME DeploymentsAssumption == Deployments \subseteq Deployment
ASSUME CallsAssumption == Calls \subseteq CallNames /\ Failures \subseteq FailureKinds

VARIABLES
  dep,      \* the deployment
  session,  \* the sam3_state and the heap blocks that are allocated
  last,     \* ghost: the image of the last encode call, whether it succeeded
  out,      \* what the last call returned
  status    \* "open", "freed", or the fault that ended the session

vars == <<dep, session, last, out, status>>

-----------------------------------------------------------------------------
(* Memory.  A block is named after the pointer it was allocated for; a     *)
(* freed name is not used again while some pointer still holds it, so a    *)
(* dangling pointer never looks live by accident.                          *)

Fields == {"ctx", "galloc", "buffer", "pe_ctx", "pe_buf", "trt_out_ctx", "trt_out_buf"}
Locals == {"ctx0", "galloc0"}      \* the running call's own context, allocator
Handle == Fields \cup Locals
Null == <<"nullptr", 0>>
Block == Handle \X Nat

\* neck_det stands for neck_det[0..3], neck_pe for neck_det_pe and neck_trk_pe.
TensorName == {"vit_output", "neck_det", "neck_trk", "neck_pe"}
NullTensor == [meta |-> Null, data |-> Null, of |-> NoImage, size |-> "native"]

Pointers(s) ==
  s.live \cup {s.handle[h] : h \in Handle}
         \cup {s.tensor[t].meta : t \in TensorName}
         \cup {s.tensor[t].data : t \in TensorName}

Fresh(s, h) ==
  <<h, CHOOSE n \in 1 .. Cardinality(Pointers(s)) + 1 : <<h, n>> \notin Pointers(s)>>

Allocate(s, H) ==
  [s EXCEPT !.handle = [h \in Handle |-> IF h \in H THEN Fresh(s, h) ELSE s.handle[h]],
            !.live = @ \cup {Fresh(s, h) : h \in H}]

\* Free what the handles in H own, and null them.  nullptr is skipped.
Free(s, H) ==
  [s EXCEPT !.handle = [h \in Handle |-> IF h \in H THEN Null ELSE s.handle[h]],
            !.live = @ \ {s.handle[h] : h \in H}]

\* state.ctx = ctx0; state.galloc = galloc
Adopt_ForgetsGalloc(s) ==
  [s EXCEPT !.handle = [h \in Handle |-> IF h = "ctx" THEN s.handle["ctx0"]
                                         ELSE IF h \in Locals THEN Null ELSE s.handle[h]]]

Adopt(s) ==
  [s EXCEPT !.handle = [h \in Handle |-> CASE h = "ctx" -> s.handle["ctx0"]
                                           [] h = "galloc" -> s.handle["galloc0"]
                                           [] h \in Locals -> Null
                                           [] OTHER -> s.handle[h]]]

\* Tensors whose metadata lives in handle m and whose data lives in handle d.
Ref(s, m, d, i, sz) == [meta |-> s.handle[m], data |-> s.handle[d], of |-> i, size |-> sz]

Point(s, T, m, d, i, sz) ==
  [s EXCEPT !.tensor =
     [t \in TensorName |-> IF t \in T THEN Ref(s, m, d, i, sz) ELSE s.tensor[t]]]

NullOut(s, T) ==
  [s EXCEPT !.tensor = [t \in TensorName |-> IF t \in T THEN NullTensor ELSE s.tensor[t]]]

IsNull(s, t) == s.tensor[t].meta = Null

\* What reading tensor t does, when the reader assumes the given size.
ReadFault(s, t, sz) ==
  IF IsNull(s, t) THEN "null_deref"
  ELSE IF ~({s.tensor[t].meta, s.tensor[t].data} \subseteq s.live) THEN "use_after_free"
  ELSE IF s.tensor[t].size # sz THEN "wrong_size" ELSE "none"

Faults == {"null_deref", "use_after_free", "wrong_size", "missing_weights"}
FirstOf(f, g) == IF f # "none" THEN f ELSE g

-----------------------------------------------------------------------------
(* The image encoder *)

Dims_Raw(i) == i
Dims(i) == IF i \in Preprocessed THEN Square ELSE i

\* The size the results will be given in.
SetOrig_Once(s, i) == [s EXCEPT !.orig = IF @ = NoImage THEN Dims(i) ELSE @]
SetOrig(s, i) == [s EXCEPT !.orig = Dims(i)]

\* The ggml graphs are not compiled in, or their weights are not loaded.
GgmlExcluded == (dep.built /\ dep.only) \/ dep.skip

TrtReady == dep.built /\ dep.enabled /\ dep.onGpu
EncoderEngine(s) == "enc" \in dep.engines \/ (s.encFp8 /\ "enc_fp8" \in dep.engines)
TrtEncodes(s, sz) == TrtReady /\ sz = "native" /\ EncoderEngine(s)

DropEncode_GgmlOnly(s) == Free(s, {"galloc", "ctx"})
DropEncode(s) == Free(s, {"trt_out_buf", "trt_out_ctx", "galloc", "ctx"})

\* sam3_try_trt_encode_image returns true.
TrtEncoded_DropsLast(s, i) ==
  DropEncode(Point(Allocate(s, {"trt_out_ctx", "trt_out_buf"}),
                   {"vit_output", "neck_det", "neck_trk"}, "trt_out_ctx", "trt_out_buf",
                   i, "native"))

TrtEncoded(s, i) ==
  Point(Allocate(DropEncode(s), {"trt_out_ctx", "trt_out_buf"}),
        {"vit_output", "neck_det", "neck_trk"}, "trt_out_ctx", "trt_out_buf", i, "native")

\* The states in which sam3_try_trt_encode_image returns false: untouched if
\* it never started, else with the previous encode dropped and whatever was
\* allocated at the point of failure (H) freed again.
TrtMisses(s, sz) ==
  IF ~TrtEncodes(s, sz) THEN {s}
  ELSE IF "trt_encode" \notin Failures THEN {}
  ELSE {Free(Allocate(DropEncode(s), H), H) :
          H \in {{}, {"trt_out_ctx"}, {"trt_out_ctx", "trt_out_buf"}}}

\* A graph that fails, before or after its context and allocator exist.
GraphFailures_FreesState(s) ==
  IF "graph" \notin Failures THEN {} ELSE {Free(s, {"ctx", "galloc"})}

GraphFailures(s) ==
  IF "graph" \notin Failures THEN {}
  ELSE {Free(Allocate(s, H), H) : H \in {{}, Locals}}

Necks_NoTracker == IF dep.visualOnly THEN {} ELSE {"neck_det"}
Necks == IF dep.visualOnly THEN {"neck_trk"} ELSE {"neck_det", "neck_trk"}

\* The ggml graph computed: drop the previous graph, adopt the new one.
GgmlEncoded(s, i, sz) ==
  LET built == Adopt(Free(Allocate(s, Locals), {"galloc", "ctx"}))
  IN  Point(NullOut(built, {"neck_det"}), {"vit_output"} \cup Necks, "ctx", "galloc", i, sz)

\* The positional encodings, rebuilt into a context and a buffer of their own.
\* A failed allocation is logged and nothing else: the encode still succeeds.
PeRebuilds(s) ==
  LET bare == Allocate(Free(s, {"pe_buf", "pe_ctx"}), {"pe_ctx"})
      full == Point(Allocate(bare, {"pe_buf"}), {"neck_pe"}, "pe_ctx", "pe_buf", NoImage, "native")
  IN  [ok |-> full, failed |-> IF "pe" \in Failures THEN {bare} ELSE {}]

RefreshNeckPe(s) ==
  IF s.neckPeValid THEN {s}
  ELSE {[PeRebuilds(s).ok EXCEPT !.neckPeValid = TRUE]} \cup PeRebuilds(s).failed

RebuildNeckPe(s) == {PeRebuilds(s).ok} \cup PeRebuilds(s).failed

\* The PVS prompt-encoder cache is kept unless the feature size changed.
CheckPeCache(s) == [s EXCEPT !.peCache = IF @ = dep.size THEN @ ELSE "invalid"]

-----------------------------------------------------------------------------
(* Calls *)

Nothing(call) == [call |-> call, path |-> "none", of |-> NoImage, dims |-> NoImage]

Open(call) == status = "open" /\ call \in Calls

EncodeReturns(call, s, i, path) ==
  /\ session' = s
  /\ last' = [of |-> i, path |-> path]
  /\ out' = [Nothing(call) EXCEPT !.path = path]
  /\ UNCHANGED <<dep, status>>

sam3_encode_image(i) ==
  /\ Open("encode")
  /\ LET s == SetOrig(session, i)
     IN  \/ TrtEncodes(s, dep.size) /\ EncodeReturns("encode", TrtEncoded(s, i), i, "trt")
         \/ \E t \in TrtMisses(s, dep.size) :
              \/ GgmlExcluded /\ EncodeReturns("encode", t, i, "none")
              \/ /\ ~GgmlExcluded
                 /\ \/ \E u \in GraphFailures(t) : EncodeReturns("encode", u, i, "none")
                    \/ \E u \in RefreshNeckPe(GgmlEncoded(t, i, dep.size)) :
                         EncodeReturns("encode", CheckPeCache(u), i, "ggml")

sam3_encode_image_from_preprocessed(i) ==
  /\ Open("encode_prep")
  /\ \/ TrtEncodes(session, "native")
        /\ EncodeReturns("encode_prep", TrtEncoded(session, i), i, "trt")
     \/ \E t \in TrtMisses(session, "native") :
          \/ dep.skip /\ EncodeReturns("encode_prep", t, i, "none")
          \/ /\ ~dep.skip
             /\ LET s == SetOrig(t, i)
                IN  \/ \E u \in GraphFailures(s) : EncodeReturns("encode_prep", u, i, "none")
                    \/ \E u \in RebuildNeckPe(GgmlEncoded(s, i, "native")) :
                         EncodeReturns("encode_prep", CheckPeCache(u), i, "ggml")

\* The backbone alone: the necks and the encodings are dropped with the rest.
VitEncoded_KeepsFlag(s, i) ==
  LET built == Adopt(Free(Allocate(s, Locals), {"galloc", "ctx", "pe_buf", "pe_ctx"}))
  IN  Point(NullOut(built, TensorName), {"vit_output"}, "ctx", "galloc", i, "native")

VitEncoded_KeepsPointers(s, i) ==
  LET built == Adopt(Free(Allocate(s, Locals), {"galloc", "ctx", "pe_buf", "pe_ctx"}))
  IN  Point([built EXCEPT !.neckPeValid = FALSE], {"vit_output"}, "ctx", "galloc", i, "native")

VitEncoded(s, i) ==
  LET built == Adopt(Free(Allocate(s, Locals), {"galloc", "ctx", "pe_buf", "pe_ctx"}))
  IN  Point(NullOut([built EXCEPT !.neckPeValid = FALSE], TensorName),
            {"vit_output"}, "ctx", "galloc", i, "native")

Crash(call, fault) ==
  /\ status' = fault
  /\ out' = Nothing(call)
  /\ UNCHANGED <<dep, session, last>>

sam3_encode_vit_from_preprocessed_selective(i) ==
  /\ Open("encode_vit")
  /\ LET s == SetOrig(session, i)
     IN  \/ dep.skip /\ Crash("encode_vit", "missing_weights")
         \/ \E u \in GraphFailures(s) : EncodeReturns("encode_vit", u, i, "none")
         \/ ~dep.skip /\ EncodeReturns("encode_vit", s, i, "none")  \* unknown output name
         \/ ~dep.skip /\ EncodeReturns("encode_vit", CheckPeCache(VitEncoded(s, i)), i, "vit")

\* A call that answers from tensor t over the given path, or answers nothing.
Answers(call, s, t, path) ==
  /\ session' = s
  /\ out' = [call |-> call, path |-> path, of |-> s.tensor[t].of, dims |-> s.orig]
  /\ UNCHANGED <<dep, last, status>>

AnswersNothing(call, s) ==
  /\ session' = s
  /\ out' = Nothing(call)
  /\ UNCHANGED <<dep, last, status>>

\* What a prompt asks for: nothing at all, at most 16 tokens, or more.
Prompts == {"empty", "narrow", "wide"}

PcsEngine == "pcs" \in dep.engines \/ (session.pcsFp8 /\ "pcs_fp8" \in dep.engines)
TrtTakesPcs(p) == TrtReady /\ p # "wide" /\ PcsEngine
TrtTakesPvs(p) == TrtReady /\ p # "wide" /\ "pvs" \in dep.engines

\* TensorRT does not take the prompt, or takes it and fails.
TrtDeclines(takes) == ~takes \/ "trt_prompt" \in Failures

\* All PCS code reads the native number of features.
DetFault == ReadFault(session, "neck_det", "native")
TrtPcsFault(p) == IF TrtTakesPcs(p) THEN DetFault ELSE "none"
GgmlPcsFault == FirstOf(DetFault, ReadFault(session, "neck_pe", "native"))

sam3_segment_pcs(p) ==
  /\ Open("pcs")
  /\ p # "empty"                    \* any text tokenizes to something
  /\ \/ /\ dep.visualOnly \/ IsNull(session, "neck_det")
        /\ AnswersNothing("pcs", session)
     \/ /\ ~dep.visualOnly /\ ~IsNull(session, "neck_det")
        /\ \/ TrtPcsFault(p) # "none" /\ Crash("pcs", TrtPcsFault(p))
           \/ /\ TrtTakesPcs(p) /\ TrtPcsFault(p) = "none"
              /\ Answers("pcs", session, "neck_det", "trt")
           \/ /\ TrtPcsFault(p) = "none" /\ TrtDeclines(TrtTakesPcs(p))
              /\ \/ GgmlExcluded /\ AnswersNothing("pcs", session)
                 \/ /\ ~GgmlExcluded /\ GgmlPcsFault # "none"
                    /\ Crash("pcs", GgmlPcsFault)
                 \/ /\ ~GgmlExcluded /\ GgmlPcsFault = "none"
                    /\ \/ \E u \in GraphFailures(session) : AnswersNothing("pcs", u)
                       \/ Answers("pcs", Free(Allocate(session, Locals), Locals),
                                  "neck_det", "ggml")

\* sam3_populate_pe_cache
FillPeCache(s) == [s EXCEPT !.peCache = IF @ = "invalid" THEN dep.size ELSE @]

\* The engine's shapes are native; the decoder's arithmetic is the session's.
TrtPvsFault(s, p) ==
  IF TrtTakesPvs(p)
    THEN FirstOf(ReadFault(s, "neck_trk", "native"),
                 IF dep.size = "native" THEN "none" ELSE "wrong_size")
    ELSE "none"

GgmlPvsFault(s) == ReadFault(s, "neck_trk", dep.size)

sam3_segment_pvs(p) ==
  /\ Open("pvs")
  /\ LET s == IF TrtReady THEN FillPeCache(session) ELSE session
     IN  \/ TrtPvsFault(s, p) # "none" /\ Crash("pvs", TrtPvsFault(s, p))
         \/ /\ TrtTakesPvs(p) /\ TrtPvsFault(s, p) = "none"
            /\ Answers("pvs", s, "neck_trk", "trt")
         \/ /\ TrtPvsFault(s, p) = "none" /\ TrtDeclines(TrtTakesPvs(p))
            /\ \/ /\ GgmlExcluded \/ IsNull(s, "neck_trk") \/ p = "empty"
                  /\ AnswersNothing("pvs", s)
               \/ /\ ~GgmlExcluded /\ ~IsNull(s, "neck_trk") /\ p # "empty"
                  /\ \/ \E u \in GraphFailures(s) : AnswersNothing("pvs", u)
                     \/ GgmlPvsFault(s) # "none" /\ Crash("pvs", GgmlPvsFault(s))
                     \/ /\ GgmlPvsFault(s) = "none"
                        /\ \/ \E u \in GraphFailures(FillPeCache(s)) : AnswersNothing("pvs", u)
                           \/ Answers("pvs", Free(Allocate(FillPeCache(s), Locals), Locals),
                                      "neck_trk", "ggml")

\* The features are read first, then the geometry weights, which a visual-only
\* model does not register; sam3_read_f32 looks into a null tensor for its type.
GeometryFault == IF dep.visualOnly THEN "null_deref" ELSE "none"
ExemplarFault == FirstOf(DetFault, GeometryFault)

\* Unlike the text prompt, this call does not ask for the kind of the model.
sam3_pcs_compute_exemplar_embedding ==
  /\ Open("exemplar")
  /\ \/ IsNull(session, "neck_det") /\ AnswersNothing("exemplar", session)
     \/ /\ ~IsNull(session, "neck_det")
        /\ \/ ExemplarFault # "none" /\ Crash("exemplar", ExemplarFault)
           \/ ExemplarFault = "none" /\ Answers("exemplar", session, "neck_det", "cpu")

\* Without SAM3_TRT_ENCODER the switch is ignored.
sam3_set_encoder_fp8(on) ==
  /\ Open("fp8")
  /\ session' = [session EXCEPT !.encFp8 = IF dep.built THEN on ELSE @]
  /\ UNCHANGED <<dep, last, out, status>>

sam3_set_pcs_fp8(on) ==
  /\ Open("fp8")
  /\ session' = [session EXCEPT !.pcsFp8 = IF dep.built THEN on ELSE @]
  /\ UNCHANGED <<dep, last, out, status>>

Freed_KeepsTrt(s) == Free(s, Fields \ {"trt_out_buf", "trt_out_ctx"})
Freed(s) == Free(s, Fields)

\* The client may free the state; the deleter frees it (again) at the end.
sam3_free_state ==
  /\ status \in {"open", "freed"} /\ "free" \in Calls
  /\ session' = Freed(session)
  /\ status' = "freed"
  /\ out' = Nothing("free")
  /\ UNCHANGED <<dep, last>>

-----------------------------------------------------------------------------
\* sam3_create_state
CreatedState ==
  [handle |-> [h \in Handle |-> Null], live |-> {},
   tensor |-> [t \in TensorName |-> NullTensor],
   neckPeValid |-> FALSE, peCache |-> "invalid", orig |-> NoImage,
   encFp8 |-> FALSE, pcsFp8 |-> FALSE]

Init ==
  /\ dep \in Deployments
  /\ session = CreatedState
  /\ last = [of |-> NoImage, path |-> "none"]
  /\ out = Nothing("create")
  /\ status = "open"

Next ==
  \/ \E i \in Images : sam3_encode_image(i)
  \/ \E i \in Preprocessed : sam3_encode_image_from_preprocessed(i)
  \/ \E i \in Preprocessed : sam3_encode_vit_from_preprocessed_selective(i)
  \/ \E p \in Prompts : sam3_segment_pcs(p)
  \/ \E p \in Prompts : sam3_segment_pvs(p)
  \/ sam3_pcs_compute_exemplar_embedding
  \/ \E on \in BOOLEAN : sam3_set_encoder_fp8(on)
  \/ \E on \in BOOLEAN : sam3_set_pcs_fp8(on)
  \/ sam3_free_state

Spec == Init /\ [][Next]_vars

-----------------------------------------------------------------------------
(* Properties *)

Tensor == [meta : Block \cup {Null}, data : Block \cup {Null},
           of : Images \cup Preprocessed \cup {NoImage}, size : Sizes]

SessionType ==
  [handle : [Handle -> Block \cup {Null}], live : SUBSET Block,
   tensor : [TensorName -> Tensor], neckPeValid : BOOLEAN,
   peCache : Sizes \cup {"invalid"}, orig : Images \cup {NoImage, Square},
   encFp8 : BOOLEAN, pcsFp8 : BOOLEAN]

\* The type of every variable.
TypeOK ==
  /\ dep \in Deployments
  /\ session \in SessionType
  /\ last \in [of : Images \cup Preprocessed \cup {NoImage},
               path : {"none", "trt", "ggml", "vit"}]
  /\ out \in [call : CallNames \cup {"create"}, path : {"none", "trt", "ggml", "vit", "cpu"},
              of : Images \cup Preprocessed \cup {NoImage},
              dims : Images \cup {NoImage, Square}]
  /\ status \in {"open", "freed"} \cup Faults

\* Between two calls every allocated block is owned by exactly one field of
\* the state, and every non-null field owns an allocated block: no path of any
\* call, failing or not, leaks a block, frees one twice or keeps a freed one.
Ownership ==
  /\ session.live = {session.handle[h] : h \in Fields} \ {Null}
  /\ \A g, h \in Fields : session.handle[g] = session.handle[h] =>
       g = h \/ session.handle[g] = Null
  /\ \A h \in Locals : session.handle[h] = Null

\* sam3_free_state gives everything back, whatever the calls before it did.
FreedMeansEmpty == status = "freed" => session.live = {}

Encoded == last.path \in {"trt", "ggml"}

\* After an encode that returned true, what the prompts read is live and is
\* that image's, on every path -- until the state is freed.
EncodedFeaturesCurrent ==
  Encoded /\ status # "freed" =>
    /\ ReadFault(session, "neck_trk", session.tensor["neck_trk"].size) = "none"
    /\ session.tensor["neck_trk"].of = last.of
    /\ IsNull(session, "neck_det")
         <=> dep.visualOnly /\ last.path = "ggml"
    /\ ~IsNull(session, "neck_det")
         => session.tensor["neck_det"] = session.tensor["neck_trk"]

\* A detection after a successful encode shows the encoded image, at that
\* image's own size; a TensorRT encode of a preprocessed buffer is excepted.
AnswerMatchesEncode ==
  out.call \in {"pcs", "pvs"} /\ out.of # NoImage /\ Encoded =>
    /\ out.of = last.of
    /\ last.path = "ggml" \/ last.of \in Images => out.dims = Dims(last.of)

\* An encode that fails without having reached TensorRT leaves the features of
\* the previous encode, and the blocks they live in, as they were.
FailedEncodeKeepsFeatures ==
  [][out'.call \in {"encode", "encode_prep", "encode_vit"} /\ out'.path = "none"
       /\ (out'.call = "encode_vit" \/
           ~TrtEncodes(session, IF out'.call = "encode" THEN dep.size ELSE "native"))
     => /\ session'.tensor = session.tensor
        /\ session'.handle = session.handle
        /\ session'.live = session.live]_vars

\* After a successful encode at native size two prompts can fault and no other:
\* a text prompt that falls to ggml while the positional encodings are missing,
\* and an exemplar embedding on a visual-only model that TensorRT encoded for
\* (the ggml encode of such a model leaves no detector neck, which is noticed).
EncodedPromptIsSafe ==
  [][Encoded /\ dep.size = "native" /\ status' \in Faults \ {"missing_weights"}
     => \/ /\ out'.call = "pcs" /\ ~GgmlExcluded
           /\ ReadFault(session, "neck_pe", "native") # "none"
        \/ out'.call = "exemplar" /\ dep.visualOnly /\ last.path = "trt"]_vars

\* No call faults (holds in the deployments of run session_ggml).
NoFault == status \notin Faults

\* neck_pe_valid is the reason an encode skips rebuilding the encodings.
PeValidMeansReadable ==
  session.neckPeValid /\ status = "open" => ReadFault(session, "neck_pe", "native") = "none"

\* Where nothing faults, the state is a PromptableImage: what it holds is what
\* the tracker neck was computed from.
Promise == INSTANCE PromptableImage WITH
  Pictures <- Images \cup Preprocessed,
  PictureSizes <- Images \cup {Square},
  SizeOf <- Dims,
  holds <- IF status = "freed" THEN NoImage ELSE session.tensor["neck_trk"].of,
  trusted <- Encoded /\ status # "freed",
  answer <- [of |-> out.of, dims |-> out.dims]

\* The session implements the promise (in the deployments of session_ggml).
KeepsPromise == Promise!Spec

-----------------------------------------------------------------------------
(* What the repository's own text says, and the code does not do *)

\* trt_encoder.cpp: the attempt "returns false (no state mutated)", so that a
\* failed encode leaves the cached features usable.
FailedTrtEncodeMutatesNothing ==
  [][out'.call = "encode" /\ out'.path = "none"
     => session'.live = session.live /\ session'.tensor = session.tensor]_vars

\* architecture.md: a stage without an engine falls back to ggml.
PcsFallsBack == Encoded /\ out.call = "pcs" => status # "null_deref"
=============================================================================
