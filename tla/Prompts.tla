------------------------------ MODULE Prompts ------------------------------
(***************************************************************************)
(* What a prompt becomes: the tokens of points and boxes, the rows of      *)
(* exemplars and embeddings, which engine they go to, and what is made of  *)
(* that engine's raw output: masks chosen, detections selected, suppressed *)
(* and numbered.  The network between is a choice of any raw output.       *)
(*                                                                         *)
(* Prompted features and images are those of Session; here every call has  *)
(* an encoded image.  Coordinates are integers; a mask is the set of its   *)
(* foreground pixels.                                                      *)
(***************************************************************************)
EXTENDS Integers, Sequences, FiniteSets, SequencesExt, FiniteSetsExt, Loops

CONSTANTS PvsRequests, PcsRequests,
          ProfileMax,       \* tokens the engine's profile admits
          MultiMasks,       \* masks besides the single one
          Width, Height,    \* of the image
          Masks, Boxes, Scores,   \* raw outputs there may be
          Queries           \* detections of a raw output

ASSUME SizesAssumption ==
    /\ ProfileMax \in Nat \ {0} /\ MultiMasks \in Nat \ {0}
    /\ Width \in Nat \ {0} /\ Height \in Nat \ {0} /\ Queries \in Nat
IsList(s) == s \in Seq(ToSet(s))
Pixels == (0 .. Width - 1) \X (0 .. Height - 1)

ASSUME RequestsAssumption ==
    /\ \A r \in PvsRequests :
          IsList(r.pos) /\ IsList(r.neg) /\ r.box \in BOOLEAN /\ "score_threshold" \notin DOMAIN r
    /\ \A r \in PcsRequests :
          IsList(r.pos) /\ IsList(r.neg) /\ IsList(r.emb) /\ "score_threshold" \in DOMAIN r
    /\ Scores \subseteq Int /\ Boxes \subseteq [cx : Int, cy : Int, w : Nat, h : Nat]
    /\ Masks \subseteq SUBSET Pixels

VARIABLES request,  \* what was asked
          at,       \* where the call is
          path,     \* "trt" or "ggml"
          input,    \* the prompt rows that the engine was given
          dets,     \* detections above the threshold
          order, k, suppressed, keep,   \* local to sam3_nms
          result
vars == <<request, at, path, input, dets, order, k, suppressed, keep, result>>

-----------------------------------------------------------------------------
(* Points and boxes. *)

(* Places are pairs, so that points, corners and no place compare.           *)
Box0 == [at |-> <<"corner", 0>>, label |-> 2]
Box1 == [at |-> <<"corner", 1>>, label |-> 3]

(* sam3_collect_pvs_prompt_tokens                                            *)
PvsTokens(r) ==
    (IF r.box THEN <<Box0, Box1>> ELSE <<>>)
    \o [i \in 1 .. Len(r.pos) |-> [at |-> r.pos[i], label |-> 1]]
    \o [i \in 1 .. Len(r.neg) |-> [at |-> r.neg[i], label |-> 0]]
    \o <<[at |-> <<"origin", 0>>, label |-> -1]>>

(* The padding token has no position.                                        *)
SparseRow(token) ==
    IF token.label = -1 THEN [at |-> <<"nowhere", 0>>, label |-> -1] ELSE token

(* sam3_build_sam_pe sizes the tensor by a count of its own.                 *)
PointCount_NoPad(r) == Len(r.pos) + Len(r.neg) + IF r.box THEN 2 ELSE 0

PointCount(r) == Len(r.pos) + Len(r.neg) + 1 + IF r.box THEN 2 ELSE 0

TrtSparse(r) == [i \in 1 .. Len(PvsTokens(r)) |-> SparseRow(PvsTokens(r)[i])]
GgmlSparse(r) == [i \in 1 .. PointCount(r) |-> SparseRow(PvsTokens(r)[i])]

-----------------------------------------------------------------------------
(* Exemplars and embeddings. *)

(* sam3_precompute_geom_input: boxes, then embeddings, then CLS. An          *)
(* embedding of the wrong size becomes zeros; it is not dropped.             *)
BoxRow(b, label, image) == [kind |-> "box", of |-> b, label |-> label, pooled |-> image]
Cls == [kind |-> "cls"]
Zeros == [kind |-> "zeros"]
Short == [kind |-> "short"]     \* an embedding of another size

ExemplarRows(r, image) ==
    [i \in 1 .. Len(r.pos) |-> BoxRow(r.pos[i], 1, image)]
    \o [i \in 1 .. Len(r.neg) |-> BoxRow(r.neg[i], 0, image)]

GeomRows_EmbeddingsFirst(r, image) ==
    [i \in 1 .. Len(r.emb) |-> IF r.emb[i] = Short THEN Zeros ELSE r.emb[i]]
    \o ExemplarRows(r, image) \o <<Cls>>

GeomRows(r, image) ==
    ExemplarRows(r, image)
    \o [i \in 1 .. Len(r.emb) |-> IF r.emb[i] = Short THEN Zeros ELSE r.emb[i]]
    \o <<Cls>>

(* sam3_try_trt_segment_pcs, sam3_segment_pcs, sam3_build_geom_enc_graph     *)
GeomCount(r) == Len(r.pos) + Len(r.neg) + Len(r.emb) + 1

(* sam3_pcs_compute_exemplar_embedding: the first row of a call of its own.  *)
Embedding(b, positive, image) ==
    LET r == [pos |-> IF positive THEN <<b>> ELSE <<>>,
              neg |-> IF positive THEN <<>> ELSE <<b>>, emb |-> <<>>]
    IN  GeomRows(r, image)[1]

-----------------------------------------------------------------------------
(* The way to an engine. *)

Ask ==
    /\ at = "idle"
    /\ \/ \E r \in PvsRequests : request' = r /\ at' = "pvs"
       \/ \E r \in PcsRequests : request' = r /\ at' = "pcs"
    /\ UNCHANGED <<path, input, dets, order, k, suppressed, keep, result>>

To(p, rows, next) ==
    /\ path' = p /\ input' = rows /\ at' = next
    /\ UNCHANGED <<request, dets, order, k, suppressed, keep, result>>

InProfile(n) == n <= ProfileMax

PvsTrt == /\ at = "pvs" /\ InProfile(Len(PvsTokens(request)))
          /\ To("trt", TrtSparse(request), "masks")
PcsTrt == /\ at = "pcs" /\ InProfile(GeomCount(request))
          /\ Len(GeomRows(request, "this")) = GeomCount(request)
          /\ To("trt", GeomRows(request, "this"), "queries")

(* An engine that is missing or fails leaves the prompt to ggml.             *)
PvsGgml == /\ at = "pvs" /\ (request.pos # <<>> \/ request.box)
           /\ To("ggml", GgmlSparse(request), "masks")
PcsGgml == /\ at = "pcs"
           /\ To("ggml", GeomRows(request, "this"), "queries")

PvsRefused == /\ at = "pvs" /\ request.pos = <<>> /\ ~request.box
              /\ To("none", <<>>, "done")

-----------------------------------------------------------------------------
(* Point and box answers: one mask, or all but that one. *)

Chosen(r) == IF r.multimask THEN [i \in 1 .. MultiMasks |-> i] ELSE <<0>>

(* The box is scanned for in the mask, from its far corners.                 *)
MaskBox(mask) ==
    IF mask = {} THEN [x0 |-> Width, y0 |-> Height, x1 |-> 0, y1 |-> 0]
    ELSE [x0 |-> Min({p[1] : p \in mask}), y0 |-> Min({p[2] : p \in mask}),
          x1 |-> Max({p[1] : p \in mask}), y1 |-> Max({p[2] : p \in mask})]

ChooseMasks ==
    /\ at = "masks"
    /\ \E raw \in [0 .. MultiMasks -> Masks] :
          result' = [i \in 1 .. Len(Chosen(request)) |->
                       LET m == Chosen(request)[i] IN
                       [mask |-> raw[m], box |-> MaskBox(raw[m]), instance_id |-> m]]
    /\ at' = "done"
    /\ UNCHANGED <<request, path, input, dets, order, k, suppressed, keep>>

-----------------------------------------------------------------------------
(* Text and exemplar answers. *)

Clamp(x, hi) == IF x < 0 THEN 0 ELSE IF x > hi THEN hi ELSE x

(* sam3_cxcywh_to_xyxy, for coordinates in halves of a pixel.                *)
Clamped(b) ==
    [x0 |-> Clamp(2 * b.cx - b.w, 2 * Width), y0 |-> Clamp(2 * b.cy - b.h, 2 * Height),
     x1 |-> Clamp(2 * b.cx + b.w, 2 * Width), y1 |-> Clamp(2 * b.cy + b.h, 2 * Height)]

Length(a, b) == IF b > a THEN b - a ELSE 0
Area(b) == (b.x1 - b.x0) * (b.y1 - b.y0)
Inter(a, b) ==
    Length(Max({a.x0, b.x0}), Min({a.x1, b.x1})) * Length(Max({a.y0, b.y0}), Min({a.y1, b.y1}))

(* sam3_box_iou above a threshold of t[1] / t[2].                            *)
Overlap_OfSmaller(a, b, t) ==
    Inter(a, b) * t[2] > t[1] * Area(a)

Overlap(a, b, t) ==
    LET union == Area(a) + Area(b) - Inter(a, b)
    IN  union > 0 /\ Inter(a, b) * t[2] > t[1] * union

(* The loop over the queries: those that reach the threshold, in order.      *)
InOrder(S) ==
    {pick \in [1 .. Cardinality(S) -> S] : \A i, j \in 1 .. Cardinality(S) : i < j => pick[i] < pick[j]}
Reaching(raw, threshold) == {q \in 1 .. Queries : raw[q].score >= threshold}

(* std::sort: any order in which scores do not rise.                         *)
Orders(d) ==
    {p \in [1 .. Len(d) -> 1 .. Len(d)] :
        /\ IsInjective(p)
        /\ \A i \in 1 .. Len(d) - 1 : d[p[i]].score >= d[p[i + 1]].score}

Threshold ==
    /\ at = "queries"
    /\ \E raw \in [1 .. Queries -> [score : Scores, box : Boxes]] :
          \E pick \in InOrder(Reaching(raw, request.score_threshold)) :
             dets' = [i \in DOMAIN pick |->
                        [score |-> raw[pick[i]].score, box |-> Clamped(raw[pick[i]].box)]]
    /\ \E p \in Orders(dets') : order' = p
    /\ k' = 1 /\ suppressed' = {} /\ keep' = <<>>
    /\ at' = "nms"
    /\ UNCHANGED <<request, path, input, result>>

NmsSkip ==
    /\ at = "nms" /\ k <= Len(order) /\ order[k] \in suppressed
    /\ k' = k + 1
    /\ UNCHANGED <<request, at, path, input, dets, order, suppressed, keep, result>>

NmsKeep ==
    /\ at = "nms" /\ k <= Len(order) /\ order[k] \notin suppressed
    /\ keep' = Append(keep, order[k])
    /\ suppressed' = suppressed \cup
         {j \in 1 .. Len(dets) : j # order[k] /\
             Overlap(dets[order[k]].box, dets[j].box, request.nms_threshold)}
    /\ k' = k + 1
    /\ UNCHANGED <<request, at, path, input, dets, order, result>>

(* Kept detections are numbered from 1, and moved to the result.             *)
Number ==
    /\ at = "nms" /\ k > Len(order)
    /\ result' = [i \in 1 .. Len(keep) |->
                    [score |-> dets[keep[i]].score, box |-> dets[keep[i]].box, instance_id |-> i]]
    /\ at' = "done"
    /\ UNCHANGED <<request, path, input, dets, order, k, suppressed, keep>>

-----------------------------------------------------------------------------
(* mask_utils.cpp: a mask's measures. *)

sam3_mask_area(mask) == Cardinality({p \in Pixels : p \in mask})
sam3_mask_at(mask, x, y) == x >= 0 /\ y >= 0 /\ x < Width /\ y < Height /\ <<x, y>> \in mask

sam3_mask_bbox_Inclusive(mask) == MaskBox(mask)

sam3_mask_bbox(mask) ==
    LET b == MaskBox(mask) IN
    IF mask = {} THEN [x0 |-> 0, y0 |-> 0, x1 |-> 0, y1 |-> 0]
    ELSE [b EXCEPT !.x1 = @ + 1, !.y1 = @ + 1]

(* The pixels in the order of the loops, row by row.                         *)
Raster == [i \in 1 .. Width * Height |-> <<(i - 1) % Width, (i - 1) \div Width>>]
Foreground(mask) == {i \in 1 .. Width * Height : Raster[i] \in mask}

sam3_mask_coords(mask) == Selected(Raster, Foreground(mask))

Sum(mask, value) ==
    LET sum[i \in 0 .. Width * Height] ==
          IF i = 0 THEN 0
          ELSE IF i \in Foreground(mask) THEN sum[i - 1] + value[i] ELSE sum[i - 1]
    IN  sum[Width * Height]

(* Sums of coordinates, of which the caller gets the quotient by the count.  *)
sam3_mask_centroid(mask) ==
    LET n == Sum(mask, [i \in 1 .. Width * Height |-> 1]) IN
    IF n = 0 THEN [x |-> -1, y |-> -1, n |-> 1]
    ELSE [x |-> Sum(mask, [i \in 1 .. Width * Height |-> Raster[i][1]]),
          y |-> Sum(mask, [i \in 1 .. Width * Height |-> Raster[i][2]]), n |-> n]

-----------------------------------------------------------------------------
Init ==
    /\ request = <<>> /\ at = "idle" /\ path = "none" /\ input = <<>>
    /\ dets = <<>> /\ order = <<>> /\ k = 1 /\ suppressed = {} /\ keep = <<>> /\ result = <<>>
Next ==
    \/ Ask \/ PvsTrt \/ PcsTrt \/ PvsGgml \/ PcsGgml \/ PvsRefused
    \/ ChooseMasks \/ Threshold \/ NmsSkip \/ NmsKeep \/ Number
Spec == Init /\ [][Next]_vars

-----------------------------------------------------------------------------
(* Every token of a prompt reaches the engine, whichever it is, and nothing  *)
(* else does: the counts that five places compute for themselves agree with  *)
(* the lists, TensorRT is never given more than its profile admits, the      *)
(* padding token and CLS stay last.  An exemplar box and the embedding that  *)
(* was computed from it are the same row, whatever is around them.           *)
PromptReachesEngine ==
    /\ at = "masks" =>
         /\ path = "trt" => Len(input) <= ProfileMax
         /\ Len(input) = Len(request.pos) + Len(request.neg) + (IF request.box THEN 3 ELSE 1)
         /\ \A i \in 1 .. Len(input) : (input[i].label = -1) = (i = Len(input))
         /\ {input[i] : i \in 1 .. Len(input)} =
              {[at |-> p, label |-> 1] : p \in ToSet(request.pos)}
              \cup {[at |-> p, label |-> 0] : p \in ToSet(request.neg)}
              \cup (IF request.box THEN {Box0, Box1} ELSE {})
              \cup {[at |-> <<"nowhere", 0>>, label |-> -1]}
    /\ at = "queries" =>
         /\ path = "trt" => Len(input) <= ProfileMax
         /\ Len(input) = GeomCount(request) /\ Last(input) = Cls
         /\ input = GeomRows(
               [pos |-> <<>>, neg |-> <<>>,
                emb |-> [i \in 1 .. Len(request.pos) |-> Embedding(request.pos[i], TRUE, "this")]
                        \o [i \in 1 .. Len(request.neg) |-> Embedding(request.neg[i], FALSE, "this")]
                        \o request.emb], "other")

(* The pairs of detections that may not both be kept.                        *)
Clash(i, j) == Overlap(dets[i].box, dets[j].box, request.nms_threshold)

(* sam3_nms keeps, in any order std::sort leaves ties in, detections that do *)
(* not overlap, drops only what overlaps a kept one of no lower score, never *)
(* marks what it has kept, and numbers them from the best down; with         *)
(* distinct scores the order decides nothing.                                *)
SuppressionAsDefined ==
    at = "done" /\ path # "none" /\ "score_threshold" \in DOMAIN request =>
        LET kept == ToSet(keep) IN
        /\ IsInjective(keep) /\ kept \cap suppressed = {}
        /\ \A i, j \in kept : i # j => ~Clash(i, j)
        /\ \A j \in 1 .. Len(dets) :
              j \in kept \/ \E i \in kept : Clash(i, j) /\ dets[i].score >= dets[j].score
        /\ \A i, j \in 1 .. Len(result) :
              i < j => /\ result[i].score >= result[j].score
                       /\ result[i].instance_id < result[j].instance_id
        /\ \A i \in 1 .. Len(result) : LET b == result[i].box IN
              /\ 0 <= b.x0 /\ b.x0 <= b.x1 /\ b.x1 <= 2 * Width
              /\ 0 <= b.y0 /\ b.y0 <= b.y1 /\ b.y1 <= 2 * Height

(* A mask's measures agree with each other and with its detection's box: the *)
(* coordinates are the foreground, row by row, as many as the area; the      *)
(* bounding box is the least that holds every pixel, and the centroid lies   *)
(* in it.  The detection's own box ends on the last pixel where the bounding *)
(* box ends behind it, and is inside out when there is no pixel.             *)
MasksMeasured ==
    at = "done" => \A i \in 1 .. Len(result) : "mask" \in DOMAIN result[i] =>
        LET mask == result[i].mask
            coords == sam3_mask_coords(mask)
            b == sam3_mask_bbox(mask)
            c == sam3_mask_centroid(mask)
        IN  /\ ToSet(coords) = mask /\ Len(coords) = sam3_mask_area(mask)
            /\ \A m, n \in 1 .. Len(coords) : m < n =>
                  \/ coords[m][2] < coords[n][2]
                  \/ coords[m][2] = coords[n][2] /\ coords[m][1] < coords[n][1]
            /\ \A x \in -1 .. Width, y \in -1 .. Height :
                  sam3_mask_at(mask, x, y) = (<<x, y>> \in mask)
            /\ mask # {} =>
                  /\ \A p \in mask : p[1] \in b.x0 .. b.x1 - 1 /\ p[2] \in b.y0 .. b.y1 - 1
                  /\ \E p \in mask : p[1] = b.x0
                  /\ \E p \in mask : p[1] + 1 = b.x1
                  /\ b.x0 * c.n <= c.x /\ c.x <= (b.x1 - 1) * c.n
                  /\ b.y0 * c.n <= c.y /\ c.y <= (b.y1 - 1) * c.n
                  /\ result[i].box = [b EXCEPT !.x1 = @ - 1, !.y1 = @ - 1]
            /\ mask = {} => Area(b) = 0 /\ result[i].box.x0 > result[i].box.x1
=============================================================================
