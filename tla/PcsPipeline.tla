---------------------------- MODULE PcsPipeline ----------------------------
(***************************************************************************)
(* The ggml path of sam3_segment_pcs: five sub-graphs, each with a context *)
(* and an allocator of its own, that hand their results on through vectors *)
(* of the host.  A graph is built, allocated, given its inputs by name,    *)
(* computed and read back; every stage may fail and end the call.          *)
(*                                                                         *)
(* Numbers are abstracted to where they come from.  A row has the token or *)
(* query it belongs to, which residual connections keep, and the sources   *)
(* that its numbers were computed from; weights are no source.             *)
(***************************************************************************)
EXTENDS Integers, Sequences, FiniteSets, SequencesExt

CONSTANTS CtxLen,      \* hp.text_ctx_len
          Tokens,      \* results of the tokenizer
          Exemplars,   \* [boxes, embeddings]: the exemplars of a request
          NQ,          \* hp.ddec_num_queries
          TextLayers, FusionLayers, DecoderLayers,
          MaxCalls

ASSUME PipelineAssumption ==
    /\ CtxLen \in Nat \ {0} /\ NQ \in Nat \ {0} /\ MaxCalls \in Nat
    /\ {TextLayers, FusionLayers, DecoderLayers} \subseteq Nat \ {0}
    /\ Tokens \subseteq [1 .. CtxLen -> Nat]
    /\ Exemplars \subseteq [boxes : Nat, embeddings : Nat]

VARIABLES asked,   \* [ids, geo]: token ids, and rows of geometry
          at,      \* [stage, step]
          inputs,  \* inputs of the stage's context, in order of creation
          open,    \* what the stage has not freed
          host,    \* vectors of the host
          result,  \* detections before thresholding
          calls
vars == <<asked, at, inputs, open, host, result, calls>>

Stages == <<"text", "geometry", "fusion", "decoder", "head">>
Idle == [stage |-> 0, step |-> "idle"]
In(stage) == Stages[at.stage] = stage

-----------------------------------------------------------------------------
(* Rows.                                                                     *)

Text(i) == <<"text", i>>
Geo(i) == <<"geo", i>>
Query(k) == <<"query", k>>
Fpn(n) == <<"fpn", n>>
Image == <<"image", 0>>
Position == <<"position", 0>>
Undefined == <<"nan", 0>>       \* a softmax over nothing
Unset(p) == <<"unset", p>>      \* what was in the memory of input p

Row(own, from) == [own |-> own, from |-> from]
Plus(row, sources) == [row EXCEPT !.from = @ \cup sources]
Sources(rows) == UNION {rows[j].from : j \in DOMAIN rows}

(* sam3_multihead_attn_fused: row i reads the rows of kv that it sees, at    *)
(* weights that depend on all it sees.                                       *)
Attend(q, kv, seen) ==
    [i \in DOMAIN q |->
        Plus(q[i], IF seen[i] = {} THEN {Undefined}
                   ELSE UNION {kv[j].from : j \in seen[i]})]
Everything(q, kv) == [i \in DOMAIN q |-> DOMAIN kv]

(* sam3_expand_token_attn_bias: one row of bias for all queries and heads;   *)
(* -1e9 is minus infinity once cast to half precision.                       *)
AttendTokens(q, tokens, bias) ==
    Attend(q, tokens, [i \in DOMAIN q |-> {j \in DOMAIN tokens : bias[j]}])

-----------------------------------------------------------------------------
(* Inputs of a context, and how the caller sets them.                        *)

Names(stage) ==
    CASE stage = "text" -> <<"text_token_ids", "causal_mask">>
      [] stage = "geometry" -> <<"geo_img", "geo_pe", "geom_post_final_proj">>
      [] stage = "fusion" -> <<"fenc_img", "fenc_pe", "fenc_prompt", "fenc_bias">>
      [] stage = "decoder" ->
             <<"ddec_enc", "ddec_pe", "ddec_text", "sine_dim_t", "rpb_coords",
               "text_attn_bias", "text_valid_mask">>
             \o [n \in 1 .. 2 * DecoderLayers |->    \* of layer (n + 1) \div 2
                    IF n % 2 = 1 THEN "ddec_query_pos_pres" ELSE "rpb_pres_zeros"]
      [] stage = "head" ->
             <<"seg_enc", "seg_fpn0", "seg_fpn1", "seg_fpn2", "seg_queries",
               "seg_text", "seg_bias">>

(* The head replaces the coarsest level by the encoder's output, so the      *)
(* allocator gives the input of that level no buffer.                        *)
Allocated(name) == name # "seg_fpn2"

(* ggml_get_tensor returns the first tensor of that name.                    *)
First(name) == SelectInSeq(inputs, LAMBDA t : t.name = name)

(* Masks as matrices and rows of what is visible.                            *)
sam3_fill_causal_mask == [q \in 1 .. CtxLen |-> [kv \in 1 .. CtxLen |-> kv <= q]]

Bias_TextOnly(request) ==
    [j \in 1 .. CtxLen + request.geo |-> j <= CtxLen /\ request.ids[j] # 0]
Bias_GeometryFirst(request) ==
    [j \in 1 .. CtxLen + request.geo |->
        j <= request.geo \/ request.ids[j - request.geo] # 0]

(* combined_bias_cpu, and text_valid_mask_cpu, which has the same support.   *)
Bias(request) ==
    [j \in 1 .. CtxLen + request.geo |-> j > CtxLen \/ request.ids[j] # 0]

Prompt(h) == h.text \o h.geometry    \* combined_prompt_cpu

SegQueries_FromZero(h) == [k \in 1 .. NQ |-> h.queries[k]]
SegQueries(h) == [k \in 1 .. NQ |-> h.queries[k + 1]]    \* queries_data + D

(* What the caller puts into the input called name.                          *)
Data(name) ==
    LET one(source) == <<Row(source, {source})>>
    IN  CASE name = "text_token_ids" -> [i \in 1 .. CtxLen |-> Row(Text(i), {Text(i)})]
          [] name = "causal_mask" -> sam3_fill_causal_mask
          [] name \in {"geo_img", "fenc_img"} -> one(Image)
          [] name \in {"geo_pe", "fenc_pe", "ddec_pe"} -> one(Position)
          [] name = "geom_post_final_proj" ->
                 [i \in 1 .. asked.geo |-> Row(Geo(i), {Geo(i)})]
          [] name \in {"fenc_prompt", "ddec_text", "seg_text"} -> Prompt(host)
          [] name \in {"fenc_bias", "text_attn_bias", "text_valid_mask", "seg_bias"} ->
                 Bias(asked)
          [] name \in {"ddec_enc", "seg_enc"} -> host.fused
          [] name \in {"sine_dim_t", "rpb_coords"} -> <<Row(<<name, 0>>, {})>>
          [] name \in {"ddec_query_pos_pres", "rpb_pres_zeros"} -> <<Row(Query(0), {})>>
          [] name = "seg_fpn0" -> one(Fpn(0))
          [] name = "seg_fpn1" -> one(Fpn(1))
          [] name = "seg_fpn2" -> one(Fpn(2))
          [] name = "seg_queries" -> SegQueries(host)

(* A graph reads what an input holds.                                        *)
Held(p) == IF inputs[p].set THEN inputs[p].data ELSE <<Row(Unset(p), {Unset(p)})>>
Input(name) == Held(First(name))

-----------------------------------------------------------------------------
(* The five graphs.                                                          *)

sam3_text_block_forward(x) ==
    LET mask == Input("causal_mask")
    IN  Attend(x, x, [q \in DOMAIN x |-> {kv \in DOMAIN x : mask[q][kv]}])

TextBlock[n \in 0 .. TextLayers] ==
    IF n = 0 THEN Input("text_token_ids") ELSE sam3_text_block_forward(TextBlock[n - 1])

sam3_build_text_encoder_graph == TextBlock[TextLayers]

(* Rows of geometry see each other and the image; more layers add nothing.   *)
sam3_build_geom_enc_graph ==
    LET x == Input("geom_post_final_proj")
        image == Input("geo_img") \o Input("geo_pe")
        selfAttended == Attend(x, x, Everything(x, x))
    IN  Attend(selfAttended, image, Everything(selfAttended, image))

(* The image, one row, reads itself, its positions and the prompt.           *)
sam3_fenc_layer_forward(x) ==
    AttendTokens(<<Plus(x[1], Sources(Input("fenc_pe")))>>,
                 Input("fenc_prompt"), Input("fenc_bias"))

FusionLayer[n \in 0 .. FusionLayers] ==
    IF n = 0 THEN Input("fenc_img") ELSE sam3_fenc_layer_forward(FusionLayer[n - 1])

sam3_build_fenc_graph == FusionLayer[FusionLayers]

(* The inputs that layer i of the decoder created.                           *)
QueryPosPres(i) == Held(7 + 2 * i - 1)
RpbPresZeros(i) == Held(7 + 2 * i)

(* sam3_build_query_pos and sam3_compute_box_rpb: the presence token first,  *)
(* then what the reference boxes give.                                       *)
QueryPos(boxes, i) == QueryPosPres(i) \o boxes
BoxRpb(boxes, i) == RpbPresZeros(i) \o boxes

(* sam3_ddec_layer_forward                                                   *)
DecoderLayer(queries, pos, rpb) ==
    LET rows == DOMAIN queries
        selfAttended ==
            [k \in rows |-> Plus(queries[k], Sources(queries) \cup Sources(pos))]
        textAttended ==
            AttendTokens(selfAttended, Input("ddec_text"), Input("text_attn_bias"))
    IN  [k \in rows |->
            Plus(textAttended[k],
                 Sources(Input("ddec_enc")) \cup Sources(Input("ddec_pe"))
                     \cup rpb[k].from)]

(* Box refinement: object queries only.                                      *)
Refined(boxes, queries) ==
    [k \in 1 .. NQ |-> Row(queries[k + 1].own, boxes[k].from \cup queries[k + 1].from)]

(* Layer i, after which the boxes are refined.                               *)
Decode(d, i) ==
    LET q == DecoderLayer(d.queries, QueryPos(d.boxes, i), BoxRpb(d.boxes, i))
    IN  [queries |-> q, boxes |-> Refined(d.boxes, q)]

Decoded[i \in 0 .. DecoderLayers] ==
    IF i = 0
    THEN [queries |-> [k \in 1 .. NQ + 1 |-> Row(Query(k - 1), {Query(k - 1)})],
          boxes |-> [k \in 1 .. NQ |-> Row(Query(k), {})]]
    ELSE Decode(Decoded[i - 1], i)

(* sam3_dot_product_scoring: every query against the mean of valid tokens.   *)
Pooled == UNION {Input("ddec_text")[j].from :
                    j \in {n \in DOMAIN Input("ddec_text") : Input("text_valid_mask")[n]}}

Scored(queries) == [k \in 1 .. NQ |-> Plus(queries[k + 1], Pooled)]

(* sam3_build_ddec_graph                                                     *)
sam3_build_ddec_graph ==
    LET d == Decoded[DecoderLayers]
    IN  [queries |-> d.queries, boxes |-> d.boxes, scores |-> Scored(d.queries),
         presence |-> <<d.queries[1]>>]

(* sam3_pixel_decoder merges the levels from the coarsest on.                *)
PixelFeatures(coarsest) ==
    Sources(coarsest) \cup Sources(Input("seg_fpn1")) \cup Sources(Input("seg_fpn0"))

(* sam3_build_seg_head_graph                                                 *)
sam3_build_seg_head_graph ==
    LET enc == AttendTokens(Input("seg_enc"), Input("seg_text"), Input("seg_bias"))
        queries == Input("seg_queries")
    IN  [k \in 1 .. NQ |-> Plus(queries[k], PixelFeatures(enc))]

(* The vectors of the host after a stage was read back.                      *)
ReadBack ==
    CASE In("text") -> [host EXCEPT !.text = sam3_build_text_encoder_graph]
      [] In("geometry") -> [host EXCEPT !.geometry = sam3_build_geom_enc_graph]
      [] In("fusion") -> [host EXCEPT !.fused = sam3_build_fenc_graph]
      [] In("decoder") ->
             LET d == sam3_build_ddec_graph
             IN  [host EXCEPT !.queries = d.queries, !.boxes = d.boxes,
                              !.scores = d.scores, !.presence = d.presence]
      [] In("head") -> [host EXCEPT !.masks = sam3_build_seg_head_graph]

-----------------------------------------------------------------------------
(* The call.                                                                 *)

NoVectors == [text |-> <<>>, geometry |-> <<>>, fused |-> <<>>, queries |-> <<>>,
              boxes |-> <<>>, scores |-> <<>>, presence |-> <<>>, masks |-> <<>>]
NoRequest == [ids |-> [i \in 1 .. CtxLen |-> 0], geo |-> 0]

Init == /\ asked = NoRequest /\ at = Idle /\ inputs = <<>> /\ open = {}
        /\ host = NoVectors /\ result = NoVectors /\ calls = 0

sam3_segment_pcs ==
    /\ at = Idle /\ calls < MaxCalls
    /\ \E ids \in Tokens, ex \in Exemplars :
          asked' = [ids |-> ids, geo |-> ex.boxes + ex.embeddings + 1]    \* and CLS
    /\ at' = [stage |-> 1, step |-> "build"]
    /\ host' = NoVectors /\ result' = NoVectors /\ calls' = calls + 1
    /\ UNCHANGED <<inputs, open>>

Build ==
    /\ at.step = "build"
    /\ LET names == Names(Stages[at.stage])
       IN  inputs' = [p \in 1 .. Len(names) |->
                        [name |-> names[p], set |-> FALSE, data |-> <<>>]]
    /\ open' = {"context", "allocator"}
    /\ at' = [at EXCEPT !.step = "allocate"]
    /\ UNCHANGED <<asked, host, result, calls>>

(* An exit: what is open is freed, and the result is empty.                  *)
Exit == /\ open' = {} /\ inputs' = <<>> /\ at' = Idle
        /\ UNCHANGED <<asked, host, result, calls>>

AllocationFails == at.step = "allocate" /\ Exit

Allocate == /\ at.step = "allocate" /\ at' = [at EXCEPT !.step = "upload"]
            /\ UNCHANGED <<asked, inputs, open, host, result, calls>>

(* Inputs that the caller knows are set; a name means its first tensor.      *)
Upload ==
    /\ at.step = "upload"
    /\ inputs' = [p \in DOMAIN inputs |->
                    LET name == inputs[p].name
                    IN  IF Allocated(name) /\ First(name) = p
                        THEN [name |-> name, set |-> TRUE, data |-> Data(name)]
                        ELSE inputs[p]]
    /\ at' = [at EXCEPT !.step = "compute"]
    /\ UNCHANGED <<asked, open, host, result, calls>>

ComputeFails == at.step = "compute" /\ Exit

(* sam3_graph_compute, ggml_backend_tensor_get, and freeing the stage.       *)
Compute ==
    /\ at.step = "compute"
    /\ host' = ReadBack
    /\ inputs' = <<>> /\ open' = {}
    /\ at' = IF at.stage < Len(Stages)
             THEN [stage |-> at.stage + 1, step |-> "build"]
             ELSE [stage |-> at.stage, step |-> "finish"]
    /\ UNCHANGED <<asked, result, calls>>

(* On to thresholding and suppression (module Prompts).                      *)
Finish == /\ at.step = "finish" /\ result' = host /\ at' = Idle
          /\ UNCHANGED <<asked, inputs, open, host, calls>>

Next == \/ sam3_segment_pcs \/ Build \/ Allocate \/ AllocationFails
        \/ Upload \/ Compute \/ ComputeFails \/ Finish

Spec == Init /\ [][Next]_vars

-----------------------------------------------------------------------------
(* Properties.                                                               *)

Answers == {result.scores[k] : k \in DOMAIN result.scores}
           \cup {result.boxes[k] : k \in DOMAIN result.boxes}
           \cup {result.masks[k] : k \in DOMAIN result.masks}
           \cup {result.presence[k] : k \in DOMAIN result.presence}

(* A prompt is its tokens up to the last that is not zero; what follows is   *)
(* padding.  Zero is also the id of a token of its own, the exclamation mark.*)
Asked == {i \in 1 .. CtxLen : \E j \in i .. CtxLen : asked.ids[j] # 0}

(* Padding tokens, cached levels that were replaced, and softmaxes over no   *)
(* token at all have no part in a score, box, mask or presence: the causal   *)
(* mask, three biases and the scoring mask line up with the prompt's rows.   *)
PaddingHasNoInfluence ==
    \A row \in Answers : \A source \in row.from :
        /\ source[1] = "text" => source[2] \in Asked
        /\ source \notin {Undefined, Fpn(2)}

(* Every token of the prompt, also one whose id is zero and which the biases *)
(* hide, and every row of geometry reaches every score, mask and the         *)
(* presence, and so does the image.                                          *)
WholePromptReaches ==
    \A row \in Answers :
        {Text(i) : i \in Asked} \cup {Geo(i) : i \in 1 .. asked.geo}
            \cup {Image, Position} \subseteq row.from

(* The k-th score, the k-th box and the k-th mask are of the same query: the *)
(* presence token is skipped in all of them, or in none.                     *)
DetectionsAligned ==
    \A k \in DOMAIN result.scores :
        /\ result.scores[k].own = Query(k)
        /\ result.boxes[k].own = Query(k)
        /\ result.masks[k].own = Query(k)

(* "zeros -- set by caller": a graph is computed only when each of its       *)
(* inputs that has a buffer was set.                                         *)
EveryInputIsSet ==
    at.step = "compute" =>
        \A p \in DOMAIN inputs : Allocated(inputs[p].name) => inputs[p].set
============================================================================
