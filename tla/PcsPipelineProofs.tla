-------------------------- MODULE PcsPipelineProofs --------------------------
(***************************************************************************)
(* What the results of the five graphs are computed from, for any prompt,  *)
(* any exemplars and any number of layers and queries.                     *)
(*                                                                         *)
(* The argument: while a call runs, every vector that a stage has handed   *)
(* on is known by its rows: whose they are and what reached them.  The     *)
(* text has its prefix, geometry all of geometry and the image, and what   *)
(* follows everything that was asked, and nothing else but weights.        *)
(***************************************************************************)
EXTENDS PcsPipeline, LoopProofs

-----------------------------------------------------------------------------
(* The invariant.                                                            *)

TypeOK ==
    /\ asked \in [ids : [1 .. CtxLen -> Nat], geo : Nat]
    /\ \/ at = Idle
       \/ at \in [stage : 1 .. 5, step : {"build", "allocate", "upload", "compute"}]
       \/ at = [stage |-> 5, step |-> "finish"]
    /\ DOMAIN host = DOMAIN NoVectors

(* Everything that was asked, and the other sources a row may have.          *)
AllAsked == {Text(i) : i \in Asked} \cup {Geo(i) : i \in 1 .. asked.geo}
            \cup {Image, Position}
Source == {"text", "geo", "query", "fpn", "image", "position", "nan", "unset"} \X Int
Others == {s \in Source : s[1] \in {"query", "unset"}} \cup {Fpn(0), Fpn(1)}

Rows == [own : Source, from : SUBSET Source]

(* Rows with nothing in them that must not be, and those that have all.      *)
CleanRows == {row \in Rows : row.from \subseteq AllAsked \cup Others}
FullRows == {row \in CleanRows : AllAsked \subseteq row.from}

(* A vector of full rows, of the queries from first + 1 on.                  *)
AreOf(v, n, first) ==
    v \in [1 .. n -> FullRows] /\ \A k \in 1 .. n : v[k].own = Query(first + k)

EncodedText == [i \in 1 .. CtxLen |-> Row(Text(i), {Text(j) : j \in 1 .. i})]
EncodedGeometry ==
    [i \in 1 .. asked.geo |->
        Row(Geo(i), {Geo(j) : j \in 1 .. asked.geo} \cup {Image, Position})]
FusedImage == <<Row(Image, AllAsked)>>

IsDecoded(h) ==
    /\ AreOf(h.queries, NQ + 1, -1)
    /\ AreOf(h.boxes, NQ, 0) /\ AreOf(h.scores, NQ, 0)
    /\ AreOf(h.presence, 1, -1)

(* The stages before the current one have left what they should.             *)
Past(n) == at.stage > n \/ at.step = "finish"
HostInv ==
    /\ Past(1) => host.text = EncodedText
    /\ Past(2) => host.geometry = EncodedGeometry
    /\ Past(3) => host.fused = FusedImage
    /\ Past(4) => IsDecoded(host)
    /\ Past(5) => AreOf(host.masks, NQ, 0)

(* The context of a stage has its inputs; when it is computed, every name    *)
(* that has memory means what the caller meant, and only repeated names leave*)
(* something unset.                                                          *)
Unfilled(stage) ==
    [p \in 1 .. Len(Names(stage)) |->
        [name |-> Names(stage)[p], set |-> FALSE, data |-> <<>>]]
UnsetRow(p) == <<Row(Unset(p), {Unset(p)})>>
InputsInv ==
    /\ at.step \in {"allocate", "upload"} => inputs = Unfilled(Stages[at.stage])
    /\ at.step = "compute" =>
          \A p \in 1 .. Len(Names(Stages[at.stage])) :
             LET name == Names(Stages[at.stage])[p]
             IN  /\ Allocated(name) => Input(name) = Data(name)
                 /\ Held(p) \in {Data(name), UnsetRow(p)}

(* What a call that ended has returned is of the request it was given.       *)
ResultInv ==
    \/ result = NoVectors
    \/ at = Idle /\ IsDecoded(result) /\ AreOf(result.masks, NQ, 0)

IInv == TypeOK /\ HostInv /\ InputsInv /\ ResultInv /\ (at # Idle => asked.geo > 0)

-----------------------------------------------------------------------------
(* Inputs by name.                                                           *)

LEMMA JoinedOnes ==
    ASSUME NEW a, NEW b
    PROVE  /\ DOMAIN (<<a>> \o <<b>>) = 1 .. 2
           /\ (<<a>> \o <<b>>)[1] = a /\ (<<a>> \o <<b>>)[2] = b
<1>1. <<a>> \in Seq({a, b}) /\ <<b>> \in Seq({a, b}) OBVIOUS
<1>2. Len(<<a>>) = 1 /\ Len(<<b>>) = 1 OBVIOUS
<1>3. <<a>>[1] = a /\ <<b>>[1] = b OBVIOUS
<1> DEFINE ab == <<a>> \o <<b>>
<1>4. /\ ab \in Seq({a, b}) /\ Len(ab) = 2
      /\ \A i \in 1 .. 2 : ab[i] = IF i <= 1 THEN <<a>>[i] ELSE <<b>>[i - 1]
  BY <1>1, <1>2, ConcatProperties
<1>5. DOMAIN ab = 1 .. 2 BY <1>4, LenProperties
<1> QED BY <1>3, <1>4, <1>5

\* What ggml_get_tensor finds: a tensor of that name, and none before it has it.
LEMMA FirstIsFirst ==
    ASSUME NEW n \in Nat, DOMAIN inputs = 1 .. n, Len(inputs) = n,
           NEW p \in 1 .. n
    PROVE  /\ First(inputs[p].name) \in 1 .. n
           /\ inputs[First(inputs[p].name)].name = inputs[p].name
<1> DEFINE name == inputs[p].name
           I == {i \in 1 .. Len(inputs) : inputs[i].name = name}
<1>1. p \in I /\ I \subseteq Nat OBVIOUS
<1>2. First(name) = CHOOSE x \in I : \A y \in I : x <= y
  BY <1>1 DEF First, SelectInSeq, Min
<1> HIDE DEF I
<1>3. \E x \in I : \A y \in I : x <= y BY <1>1, LeastExists
<1>4. First(name) \in I BY <1>2, <1>3
<1> QED BY <1>4 DEF I

\* The names of the inputs decide which tensor a name means.
LEMMA FirstByNames ==
    ASSUME NEW n \in Nat, DOMAIN inputs = 1 .. n, Len(inputs) = n,
           DOMAIN inputs' = 1 .. n, Len(inputs') = n,
           \A p \in 1 .. n : inputs'[p].name = inputs[p].name,
           NEW name
    PROVE  First(name)' = First(name)
<1> DEFINE I == {i \in 1 .. Len(inputs) : inputs[i].name = name}
           J == {i \in 1 .. Len(inputs') : inputs'[i].name = name}
<1>1. I = J OBVIOUS
<1>2. First(name) = IF I # {} THEN CHOOSE x \in I : \A y \in I : x <= y ELSE 0
  BY DEF First, SelectInSeq, Min
<1>3. First(name)' = IF J # {} THEN CHOOSE x \in J : \A y \in J : x <= y ELSE 0
  BY DEF First, SelectInSeq, Min
<1> HIDE DEF I, J
<1> QED BY <1>1, <1>2, <1>3

InputNames ==
    {"text_token_ids", "causal_mask", "geo_img", "geo_pe", "geom_post_final_proj",
     "fenc_img", "fenc_pe", "fenc_prompt", "fenc_bias", "ddec_enc", "ddec_pe",
     "ddec_text", "sine_dim_t", "rpb_coords", "text_attn_bias", "text_valid_mask",
     "ddec_query_pos_pres", "rpb_pres_zeros", "seg_enc", "seg_fpn0", "seg_fpn1",
     "seg_fpn2", "seg_queries", "seg_text", "seg_bias"}

\* The inputs of the decoder's layers follow seven others, two for a layer.
LEMMA DecoderNames ==
    /\ Names("decoder") \in [1 .. 7 + 2 * DecoderLayers -> InputNames]
    /\ Names("decoder")[1] = "ddec_enc" /\ Names("decoder")[2] = "ddec_pe"
    /\ Names("decoder")[3] = "ddec_text"
    /\ Names("decoder")[6] = "text_attn_bias" /\ Names("decoder")[7] = "text_valid_mask"
    /\ \A p \in 8 .. 7 + 2 * DecoderLayers :
          Names("decoder")[p] \in {"ddec_query_pos_pres", "rpb_pres_zeros"}
<1> DEFINE layers == [n \in 1 .. 2 * DecoderLayers |->
                        IF n % 2 = 1 THEN "ddec_query_pos_pres" ELSE "rpb_pres_zeros"]
           seven == <<"ddec_enc", "ddec_pe", "ddec_text", "sine_dim_t", "rpb_coords",
                      "text_attn_bias", "text_valid_mask">>
<1>1. DecoderLayers \in Nat BY PipelineAssumption
<1>2. layers \in [1 .. 2 * DecoderLayers -> {"ddec_query_pos_pres", "rpb_pres_zeros"}]
  OBVIOUS
<1>3. layers \in [1 .. 2 * DecoderLayers -> InputNames] BY DEF InputNames
<1>4. seven \in [1 .. 7 -> InputNames] BY DEF InputNames
<1>5. /\ seven[1] = "ddec_enc" /\ seven[2] = "ddec_pe" /\ seven[3] = "ddec_text"
      /\ seven[6] = "text_attn_bias" /\ seven[7] = "text_valid_mask"
  OBVIOUS
<1>6. Names("decoder") = seven \o layers BY DEF Names
<1> HIDE DEF seven, layers
<1>7. PICK m \in Nat : m = 2 * DecoderLayers BY <1>1
<1>8. PICK names : names = Names("decoder") OBVIOUS
<1>9. layers \in [1 .. m -> InputNames] BY <1>3, <1>7
<1>10. /\ names \in [1 .. 7 + m -> InputNames]
       /\ \A i \in 1 .. 7 + m : names[i] = IF i <= 7 THEN seven[i] ELSE layers[i - 7]
  <2>0. PICK k : k \in Nat /\ k = 7 OBVIOUS
  <2>. k \in Nat /\ m \in Nat BY <2>0, <1>7
  <2>. seven \in [1 .. k -> InputNames] BY <2>0, <1>4
  <2>1. seven \o layers \in [1 .. k + m -> InputNames] BY <1>9, Joined
  <2>2. \A i \in 1 .. k + m :
          (seven \o layers)[i] = IF i <= k THEN seven[i] ELSE layers[i - k]
    BY <1>9, Joined
  <2>3. names = seven \o layers BY <1>6, <1>8
  <2> QED BY <2>0, <2>1, <2>2, <2>3
<1>11. \A i \in 1 .. 7 : names[i] = seven[i] BY <1>10
<1>12. \A p \in 8 .. 7 + m : names[p] \in {"ddec_query_pos_pres", "rpb_pres_zeros"}
  <2> TAKE p \in 8 .. 7 + m
  <2>1. p \in 1 .. 7 + m /\ ~(p <= 7) /\ p - 7 \in 1 .. m OBVIOUS
  <2>2. names[p] = layers[p - 7] BY <2>1, <1>10
  <2> QED BY <2>1, <2>2, <1>2, <1>7
<1>13. /\ names[1] = "ddec_enc" /\ names[2] = "ddec_pe" /\ names[3] = "ddec_text"
       /\ names[6] = "text_attn_bias" /\ names[7] = "text_valid_mask"
  BY <1>5, <1>11
<1> QED BY <1>7, <1>8, <1>10, <1>12, <1>13

\* The inputs of a stage are a sequence of names.
LEMMA NamesType ==
    ASSUME NEW n \in 1 .. 5
    PROVE  \E m \in Nat : /\ Names(Stages[n]) \in [1 .. m -> InputNames]
                          /\ Len(Names(Stages[n])) = m
<1>1. CASE n = 1
  <2>1. Names(Stages[n]) \in [1 .. 2 -> InputNames] BY <1>1 DEF Names, Stages, InputNames
  <2> QED BY <2>1, VectorIsSequence
<1>2. CASE n = 2
  <2>1. Names(Stages[n]) \in [1 .. 3 -> InputNames] BY <1>2 DEF Names, Stages, InputNames
  <2> QED BY <2>1, VectorIsSequence
<1>3. CASE n = 3
  <2>1. Names(Stages[n]) \in [1 .. 4 -> InputNames] BY <1>3 DEF Names, Stages, InputNames
  <2> QED BY <2>1, VectorIsSequence
<1>4. CASE n = 4
  <2>1. Stages[n] = "decoder" BY <1>4 DEF Stages
  <2>2. 7 + 2 * DecoderLayers \in Nat BY PipelineAssumption
  <2> QED BY <2>1, <2>2, DecoderNames, VectorIsSequence
<1>5. CASE n = 5
  <2>1. Names(Stages[n]) \in [1 .. 7 -> InputNames] BY <1>5 DEF Names, Stages, InputNames
  <2> QED BY <2>1, VectorIsSequence
<1> QED BY <1>1, <1>2, <1>3, <1>4, <1>5

\* In a stage that is computed, each of these names means what the caller put
\* under it, and what a layer of the decoder created is one row.
LEMMA InputsOfText ==
    ASSUME InputsInv, at.step = "compute", at.stage = 1
    PROVE  /\ Input("text_token_ids") = [i \in 1 .. CtxLen |-> Row(Text(i), {Text(i)})]
           /\ Input("causal_mask") = sam3_fill_causal_mask
<1>1. Names(Stages[1]) = <<"text_token_ids", "causal_mask">> BY DEF Names, Stages
<1>2. \A p \in 1 .. 2 : Allocated(Names(Stages[1])[p])
        => Input(Names(Stages[1])[p]) = Data(Names(Stages[1])[p])
  BY <1>1 DEF InputsInv
<1>3. Input("text_token_ids") = Data("text_token_ids") BY <1>1, <1>2 DEF Allocated
<1>4. Input("causal_mask") = Data("causal_mask") BY <1>1, <1>2 DEF Allocated
<1> QED BY <1>3, <1>4 DEF Data

LEMMA InputsOfGeometry ==
    ASSUME InputsInv, at.step = "compute", at.stage = 2
    PROVE  /\ Input("geo_img") = <<Row(Image, {Image})>>
           /\ Input("geo_pe") = <<Row(Position, {Position})>>
           /\ Input("geom_post_final_proj") =
                 [i \in 1 .. asked.geo |-> Row(Geo(i), {Geo(i)})]
<1>1. Names(Stages[2]) = <<"geo_img", "geo_pe", "geom_post_final_proj">>
  BY DEF Names, Stages
<1>2. \A p \in 1 .. 3 : Allocated(Names(Stages[2])[p])
        => Input(Names(Stages[2])[p]) = Data(Names(Stages[2])[p])
  BY <1>1 DEF InputsInv
<1>3. Input("geo_img") = Data("geo_img") BY <1>1, <1>2 DEF Allocated
<1>4. Input("geo_pe") = Data("geo_pe") BY <1>1, <1>2 DEF Allocated
<1>5. Input("geom_post_final_proj") = Data("geom_post_final_proj")
  BY <1>1, <1>2 DEF Allocated
<1> QED BY <1>3, <1>4, <1>5 DEF Data

LEMMA InputsOfFusion ==
    ASSUME InputsInv, at.step = "compute", at.stage = 3
    PROVE  /\ Input("fenc_img") = <<Row(Image, {Image})>>
           /\ Input("fenc_pe") = <<Row(Position, {Position})>>
           /\ Input("fenc_prompt") = Prompt(host)
           /\ Input("fenc_bias") = Bias(asked)
<1>1. Names(Stages[3]) = <<"fenc_img", "fenc_pe", "fenc_prompt", "fenc_bias">>
  BY DEF Names, Stages
<1>2. \A p \in 1 .. 4 : Allocated(Names(Stages[3])[p])
        => Input(Names(Stages[3])[p]) = Data(Names(Stages[3])[p])
  BY <1>1 DEF InputsInv
<1>3. Input("fenc_img") = Data("fenc_img") BY <1>1, <1>2 DEF Allocated
<1>4. Input("fenc_pe") = Data("fenc_pe") BY <1>1, <1>2 DEF Allocated
<1>5. Input("fenc_prompt") = Data("fenc_prompt") BY <1>1, <1>2 DEF Allocated
<1>6. Input("fenc_bias") = Data("fenc_bias") BY <1>1, <1>2 DEF Allocated
<1> QED BY <1>3, <1>4, <1>5, <1>6 DEF Data

LEMMA InputsOfDecoder ==
    ASSUME InputsInv, at.step = "compute", at.stage = 4
    PROVE  /\ Input("ddec_enc") = host.fused
           /\ Input("ddec_pe") = <<Row(Position, {Position})>>
           /\ Input("ddec_text") = Prompt(host)
           /\ Input("text_attn_bias") = Bias(asked)
           /\ Input("text_valid_mask") = Bias(asked)
           /\ \A p \in 8 .. 7 + 2 * DecoderLayers :
                 Held(p) \in {<<Row(Query(0), {})>>, UnsetRow(p)}
<1> DEFINE names == Names("decoder")
<1>1. DecoderLayers \in Nat /\ 7 + 2 * DecoderLayers \in Nat BY PipelineAssumption
<1>2. Stages[4] = "decoder" BY DEF Stages
<1>3. Len(names) = 7 + 2 * DecoderLayers BY <1>1, DecoderNames, VectorIsSequence
<1>4. \A p \in 1 .. 7 + 2 * DecoderLayers :
        /\ Allocated(names[p]) => Input(names[p]) = Data(names[p])
        /\ Held(p) \in {Data(names[p]), UnsetRow(p)}
  <2> HIDE DEF names
  <2> QED BY <1>2, <1>3 DEF InputsInv, names
<1>5. \A p \in 1 .. 7 : Allocated(names[p]) => Input(names[p]) = Data(names[p])
  BY <1>1, <1>4
<1>6. /\ Input("ddec_enc") = Data("ddec_enc") /\ Input("ddec_pe") = Data("ddec_pe")
      /\ Input("ddec_text") = Data("ddec_text")
  BY <1>5, DecoderNames DEF Allocated
<1>7. /\ Input("text_attn_bias") = Data("text_attn_bias")
      /\ Input("text_valid_mask") = Data("text_valid_mask")
  BY <1>5, DecoderNames DEF Allocated
<1>8. ASSUME NEW p \in 8 .. 7 + 2 * DecoderLayers
      PROVE  Data(names[p]) = <<Row(Query(0), {})>>
  <2>1. names[p] \in {"ddec_query_pos_pres", "rpb_pres_zeros"} BY DecoderNames
  <2> HIDE DEF names
  <2> QED BY <2>1 DEF Data
<1>9. \A p \in 8 .. 7 + 2 * DecoderLayers :
        Held(p) \in {<<Row(Query(0), {})>>, UnsetRow(p)}
  <2> HIDE DEF names
  <2> QED BY <1>1, <1>4, <1>8
<1> QED BY <1>6, <1>7, <1>9 DEF Data

LEMMA InputsOfHead ==
    ASSUME InputsInv, at.step = "compute", at.stage = 5
    PROVE  /\ Input("seg_enc") = host.fused
           /\ Input("seg_fpn0") = <<Row(Fpn(0), {Fpn(0)})>>
           /\ Input("seg_fpn1") = <<Row(Fpn(1), {Fpn(1)})>>
           /\ Input("seg_queries") = SegQueries(host)
           /\ Input("seg_text") = Prompt(host)
           /\ Input("seg_bias") = Bias(asked)
<1>1. Names(Stages[5]) = <<"seg_enc", "seg_fpn0", "seg_fpn1", "seg_fpn2", "seg_queries",
                           "seg_text", "seg_bias">>
  BY DEF Names, Stages
<1>2. \A p \in 1 .. 7 : Allocated(Names(Stages[5])[p])
        => Input(Names(Stages[5])[p]) = Data(Names(Stages[5])[p])
  BY <1>1 DEF InputsInv
<1>3. /\ Input("seg_enc") = Data("seg_enc") /\ Input("seg_fpn0") = Data("seg_fpn0")
      /\ Input("seg_fpn1") = Data("seg_fpn1")
  BY <1>1, <1>2 DEF Allocated
<1>4. /\ Input("seg_queries") = Data("seg_queries") /\ Input("seg_text") = Data("seg_text")
      /\ Input("seg_bias") = Data("seg_bias")
  BY <1>1, <1>2 DEF Allocated
<1> QED BY <1>3, <1>4 DEF Data

-----------------------------------------------------------------------------
(* Rows.                                                                     *)

LEMMA RowFields ==
    ASSUME NEW own, NEW from
    PROVE  Row(own, from).own = own /\ Row(own, from).from = from
BY DEF Row

LEMMA PlusRow ==
    ASSUME NEW own, NEW from, NEW more
    PROVE  Plus(Row(own, from), more) = Row(own, from \cup more)
BY DEF Plus, Row

LEMMA AllowedAreSources == AllAsked \cup Others \subseteq Source
<1>1. CtxLen \in Nat BY PipelineAssumption
<1>2. \A i \in Asked : Text(i) \in Source BY <1>1 DEF Asked, Text, Source
<1>3. \A i \in 1 .. asked.geo : Geo(i) \in Source BY DEF Geo, Source
<1>4. Image \in Source /\ Position \in Source /\ Fpn(0) \in Source /\ Fpn(1) \in Source
  BY DEF Image, Position, Fpn, Source
<1> QED BY <1>2, <1>3, <1>4 DEF AllAsked, Others

\* Sources that a row may have keep it clean, and what it has it keeps.
LEMMA PlusClean ==
    ASSUME NEW row \in CleanRows, NEW more, more \subseteq AllAsked \cup Others
    PROVE  /\ Plus(row, more) \in CleanRows /\ Plus(row, more).own = row.own
           /\ Plus(row, more).from = row.from \cup more
           /\ AllAsked \subseteq more \/ row \in FullRows => Plus(row, more) \in FullRows
<1>1. row \in Rows /\ row.from \subseteq AllAsked \cup Others BY DEF CleanRows
<1>2. /\ Plus(row, more).own = row.own /\ Plus(row, more).from = row.from \cup more
  BY <1>1 DEF Plus, Rows
<1>3. Plus(row, more) \in Rows
  <2>1. more \subseteq Source BY AllowedAreSources
  <2> QED BY <1>1, <2>1 DEF Plus, Rows
<1>4. Plus(row, more) \in CleanRows BY <1>1, <1>2, <1>3 DEF CleanRows
<1> QED BY <1>2, <1>4 DEF FullRows

LEMMA CleanSources ==
    ASSUME NEW v, \A k \in DOMAIN v : v[k] \in CleanRows
    PROVE  Sources(v) \subseteq AllAsked \cup Others
BY DEF Sources, CleanRows

LEMMA RowIsClean ==
    ASSUME NEW own \in Source, NEW from, from \subseteq AllAsked \cup Others
    PROVE  /\ Row(own, from) \in CleanRows
           /\ AllAsked \subseteq from => Row(own, from) \in FullRows
BY AllowedAreSources DEF Row, Rows, CleanRows, FullRows

-----------------------------------------------------------------------------
(* The text encoder: every token has its prefix.                             *)

LEMMA TextForward ==
    ASSUME InputsInv, at.step = "compute", at.stage = 1,
           NEW x, NEW from, DOMAIN x = 1 .. CtxLen,
           \A i \in 1 .. CtxLen :
              /\ x[i] = Row(Text(i), from[i])
              /\ Text(i) \in from[i] /\ from[i] \subseteq {Text(j) : j \in 1 .. i}
    PROVE  sam3_text_block_forward(x) = EncodedText
<1> DEFINE mask == sam3_fill_causal_mask
           seen == [q \in 1 .. CtxLen |-> {kv \in 1 .. CtxLen : mask[q][kv]}]
           y == Attend(x, x, seen)
<1>0. CtxLen \in Nat BY PipelineAssumption
<1>1. sam3_text_block_forward(x) = y
  BY InputsOfText DEF sam3_text_block_forward
<1>2. \A i \in 1 .. CtxLen : seen[i] = 1 .. i
  <2> TAKE i \in 1 .. CtxLen
  <2>1. \A kv \in 1 .. CtxLen : mask[i][kv] <=> kv <= i BY DEF sam3_fill_causal_mask
  <2>2. seen[i] = {kv \in 1 .. CtxLen : kv <= i}
    <3> HIDE DEF mask
    <3> QED BY <2>1
  <2>3. {kv \in 1 .. CtxLen : kv <= i} = 1 .. i BY <1>0
  <2> QED BY <2>2, <2>3
<1>3. DOMAIN y = 1 .. CtxLen BY DEF Attend
<1>4. ASSUME NEW i \in 1 .. CtxLen
      PROVE  y[i] = Row(Text(i), {Text(j) : j \in 1 .. i})
  <2>1. i \in seen[i] BY <1>0, <1>2
  <2> DEFINE more == UNION {x[j].from : j \in seen[i]}
  <2>2. y[i] = Plus(x[i], more)
    <3>1. seen[i] # {} /\ i \in DOMAIN x BY <2>1
    <3> HIDE DEF seen
    <3> QED BY <3>1 DEF Attend
  <2>3. \A j \in 1 .. i : j \in 1 .. CtxLen /\ x[j].from = from[j]
    BY <1>0 DEF Row
  <2>4. more = UNION {from[j] : j \in 1 .. i}
    <3> HIDE DEF seen
    <3> QED BY <1>2, <2>3
  <2>5. from[i] \cup UNION {from[j] : j \in 1 .. i} = {Text(j) : j \in 1 .. i}
    <3>1. \A j \in 1 .. i : j \in 1 .. CtxLen /\ 1 .. j \subseteq 1 .. i BY <1>0
    <3>2. \A j \in 1 .. i : from[j] \subseteq {Text(k) : k \in 1 .. i} BY <3>1
    <3>3. \A j \in 1 .. i : Text(j) \in from[j] BY <3>1
    <3>4. i \in 1 .. i BY <1>0
    <3> HIDE DEF Text
    <3> QED BY <3>2, <3>3, <3>4
  <2>6. x[i] = Row(Text(i), from[i]) OBVIOUS
  <2> HIDE DEF y, more
  <2>7. y[i] = Row(Text(i), from[i] \cup more) BY <2>2, <2>6, PlusRow
  <2> QED BY <2>4, <2>5, <2>7
<1> HIDE DEF y
<1>5. y = [i \in 1 .. CtxLen |-> y[i]] BY <1>3 DEF y, Attend
<1> QED BY <1>1, <1>4, <1>5 DEF EncodedText

\* However many blocks there are, one and the last give the same.
LEMMA TextGraph ==
    ASSUME InputsInv, at.step = "compute", at.stage = 1
    PROVE  sam3_build_text_encoder_graph = EncodedText
<1> DEFINE raw == [i \in 1 .. CtxLen |-> Row(Text(i), {Text(i)})]
           N == TextLayers
<1>0. CtxLen \in Nat /\ N \in Nat /\ N # 0 BY PipelineAssumption
<1>1. Input("text_token_ids") = raw BY InputsOfText
<1>2. sam3_text_block_forward(raw) = EncodedText
  <2> DEFINE from == [i \in 1 .. CtxLen |-> {Text(i)}]
  <2>1. \A i \in 1 .. CtxLen :
          /\ raw[i] = Row(Text(i), from[i])
          /\ Text(i) \in from[i] /\ from[i] \subseteq {Text(j) : j \in 1 .. i}
    BY <1>0
  <2>2. DOMAIN raw = 1 .. CtxLen OBVIOUS
  <2> HIDE DEF raw, from
  <2> QED BY <2>1, <2>2, TextForward
<1>3. sam3_text_block_forward(EncodedText) = EncodedText
  <2> DEFINE from == [i \in 1 .. CtxLen |-> {Text(j) : j \in 1 .. i}]
  <2>1. \A i \in 1 .. CtxLen :
          /\ EncodedText[i] = Row(Text(i), from[i])
          /\ Text(i) \in from[i] /\ from[i] \subseteq {Text(j) : j \in 1 .. i}
    BY <1>0 DEF EncodedText
  <2>2. DOMAIN EncodedText = 1 .. CtxLen BY DEF EncodedText
  <2> HIDE DEF from
  <2> QED BY <2>1, <2>2, TextForward
<1> HIDE DEF raw
<1>4. TextBlock = [n \in 0 .. N |-> IF n = 0 THEN raw
                                   ELSE sam3_text_block_forward(TextBlock[n - 1])]
  <2> DEFINE g == [n \in 0 .. N |-> IF n = 0 THEN raw ELSE EncodedText]
  <2>1. \A n \in 0 .. N : n # 0 => g[n - 1] \in {raw, EncodedText} BY <1>0
  <2>2. g = [n \in 0 .. N |-> IF n = 0 THEN raw ELSE sam3_text_block_forward(g[n - 1])]
    BY <2>1, <1>2, <1>3
  <2>3. \E f : f = [n \in 0 .. N |-> IF n = 0 THEN Input("text_token_ids")
                                    ELSE sam3_text_block_forward(f[n - 1])]
    BY <2>2, <1>1
  <2>4. TextBlock = [n \in 0 .. N |-> IF n = 0 THEN Input("text_token_ids")
                                     ELSE sam3_text_block_forward(TextBlock[n - 1])]
    BY <2>3 DEF TextBlock
  <2> QED BY <2>4, <1>1
<1> DEFINE S == {n \in Nat : n <= N => TextBlock[n] = IF n = 0 THEN raw ELSE EncodedText}
<1>5. 0 \in S BY <1>0, <1>4
<1>6. ASSUME NEW n \in Nat, n \in S PROVE n + 1 \in S
  <2>1. CASE n + 1 <= N
    <3>1. n + 1 \in 0 .. N /\ (n + 1) - 1 = n /\ n <= N BY <1>0, <2>1
    <3>2. TextBlock[n + 1] = sam3_text_block_forward(TextBlock[n]) BY <1>4, <3>1
    <3>3. TextBlock[n] \in {raw, EncodedText} BY <1>6, <3>1
    <3> QED BY <3>2, <3>3, <1>2, <1>3
  <2> QED BY <2>1
<1> HIDE DEF S
<1>7. N \in S BY <1>0, <1>5, <1>6, SetInduction
<1> QED BY <1>0, <1>7 DEF S, sam3_build_text_encoder_graph

-----------------------------------------------------------------------------
(* The geometry encoder: every row has all of geometry, and the image.       *)

LEMMA GeometryGraph ==
    ASSUME InputsInv, at.step = "compute", at.stage = 2, asked.geo \in Nat
    PROVE  sam3_build_geom_enc_graph = EncodedGeometry
<1> DEFINE N == asked.geo
           x == [i \in 1 .. N |-> Row(Geo(i), {Geo(i)})]
           Geos == {Geo(j) : j \in 1 .. N}
           image == <<Row(Image, {Image})>> \o <<Row(Position, {Position})>>
           y == Attend(x, x, Everything(x, x))
           z == Attend(y, image, Everything(y, image))
<1>1. sam3_build_geom_enc_graph = z
  BY InputsOfGeometry DEF sam3_build_geom_enc_graph
<1>2. y = [i \in 1 .. N |-> Row(Geo(i), Geos)]
  <2>1. ASSUME NEW i \in 1 .. N PROVE y[i] = Row(Geo(i), Geos)
    <3> DEFINE more == UNION {x[j].from : j \in 1 .. N}
    <3>1. more = Geos
      <4>1. \A j \in 1 .. N : x[j].from = {Geo(j)} BY DEF Row
      <4> HIDE DEF x
      <4> QED BY <4>1
    <3>2. y[i] = Plus(x[i], more)
      <4>1. DOMAIN x = 1 .. N /\ DOMAIN x # {} OBVIOUS
      <4> HIDE DEF x
      <4> QED BY <4>1 DEF Attend, Everything
    <3>3. x[i] = Row(Geo(i), {Geo(i)}) OBVIOUS
    <3> HIDE DEF x, y, more
    <3>4. y[i] = Row(Geo(i), {Geo(i)} \cup more) BY <3>2, <3>3, PlusRow
    <3>5. {Geo(i)} \cup more = Geos BY <3>1
    <3> QED BY <3>4, <3>5
  <2>2. y = [i \in 1 .. N |-> y[i]] BY DEF Attend
  <2> HIDE DEF y
  <2> QED BY <2>1, <2>2
<1>3. DOMAIN image = 1 .. 2 /\ image[1].from = {Image} /\ image[2].from = {Position}
  BY JoinedOnes DEF Row
<1> HIDE DEF image
<1>5. UNION {image[j].from : j \in 1 .. 2} = {Image, Position}
  <2>1. 1 .. 2 = {1, 2} OBVIOUS
  <2> QED BY <2>1, <1>3
<1> HIDE DEF x, y
<1>6. ASSUME NEW i \in 1 .. N
      PROVE  z[i] = Row(Geo(i), Geos \cup {Image, Position})
  <2> DEFINE more == UNION {image[j].from : j \in 1 .. 2}
  <2>1. DOMAIN image # {} /\ DOMAIN y = 1 .. N BY <1>2, <1>3
  <2>2. z[i] = Plus(y[i], UNION {image[j].from : j \in DOMAIN image})
    BY <2>1 DEF Attend, Everything
  <2>3. z[i] = Plus(y[i], more) BY <2>2, <1>3
  <2>4. y[i] = Row(Geo(i), Geos) BY <1>2
  <2> HIDE DEF z, more
  <2>5. z[i] = Row(Geo(i), Geos \cup more) BY <2>3, <2>4, PlusRow
  <2> QED BY <2>5, <1>5 DEF more
<1>7. z = [i \in 1 .. N |-> z[i]] BY <1>2 DEF Attend
<1> HIDE DEF z
<1> QED BY <1>1, <1>6, <1>7 DEF EncodedGeometry

-----------------------------------------------------------------------------
(* The prompt: what its visible rows have is everything that was asked.      *)

\* What the stages before have left of the prompt.
PromptIsEncoded ==
    /\ asked.ids \in [1 .. CtxLen -> Nat] /\ asked.geo \in Nat \ {0}
    /\ host.text = EncodedText /\ host.geometry = EncodedGeometry

LEMMA PromptRows ==
    ASSUME PromptIsEncoded
    PROVE  /\ DOMAIN Prompt(host) = 1 .. CtxLen + asked.geo
           /\ \A j \in 1 .. CtxLen : Prompt(host)[j] = Row(Text(j), {Text(k) : k \in 1 .. j})
           /\ \A j \in 1 .. asked.geo :
                 Prompt(host)[CtxLen + j]
                    = Row(Geo(j), {Geo(k) : k \in 1 .. asked.geo} \cup {Image, Position})
<1> DEFINE S == {EncodedText[i] : i \in 1 .. CtxLen}
                  \cup {EncodedGeometry[i] : i \in 1 .. asked.geo}
<1>1. CtxLen \in Nat /\ asked.geo \in Nat BY PipelineAssumption DEF PromptIsEncoded
<1>2. EncodedText \in [1 .. CtxLen -> S]
  <2>1. EncodedText = [i \in 1 .. CtxLen |-> EncodedText[i]] BY DEF EncodedText
  <2> QED BY <2>1
<1>3. EncodedGeometry \in [1 .. asked.geo -> S]
  <2>1. EncodedGeometry = [i \in 1 .. asked.geo |-> EncodedGeometry[i]]
    BY DEF EncodedGeometry
  <2> QED BY <2>1
<1> HIDE DEF S
<1>4. Prompt(host) = EncodedText \o EncodedGeometry BY DEF Prompt, PromptIsEncoded
<1>5. EncodedText \o EncodedGeometry \in [1 .. CtxLen + asked.geo -> S]
  BY <1>1, <1>2, <1>3, Joined
<1>6. \A i \in 1 .. CtxLen + asked.geo : (EncodedText \o EncodedGeometry)[i]
          = IF i <= CtxLen THEN EncodedText[i] ELSE EncodedGeometry[i - CtxLen]
  BY <1>1, <1>2, <1>3, Joined
<1>7. ASSUME NEW j \in 1 .. CtxLen
      PROVE  Prompt(host)[j] = Row(Text(j), {Text(k) : k \in 1 .. j})
  <2>1. j \in 1 .. CtxLen + asked.geo /\ j <= CtxLen BY <1>1
  <2>2. Prompt(host)[j] = EncodedText[j] BY <2>1, <1>4, <1>6
  <2> QED BY <2>2 DEF EncodedText
<1>8. ASSUME NEW j \in 1 .. asked.geo
      PROVE  Prompt(host)[CtxLen + j]
               = Row(Geo(j), {Geo(k) : k \in 1 .. asked.geo} \cup {Image, Position})
  <2>1. /\ CtxLen + j \in 1 .. CtxLen + asked.geo /\ ~(CtxLen + j <= CtxLen)
        /\ (CtxLen + j) - CtxLen = j
    BY <1>1
  <2>2. Prompt(host)[CtxLen + j] = EncodedGeometry[j] BY <2>1, <1>4, <1>6
  <2> QED BY <2>2 DEF EncodedGeometry
<1> QED BY <1>4, <1>5, <1>7, <1>8

\* The tokens that the biases let through, and what those have.
Visible == {j \in DOMAIN Prompt(host) : Bias(asked)[j]}
Reached == UNION {Prompt(host)[j].from : j \in Visible}

\* A token with an id of zero is hidden, but the tokens after it have seen it.
LEMMA VisiblePrompt ==
    ASSUME PromptIsEncoded
    PROVE  Visible # {} /\ Reached = AllAsked
<1> DEFINE Geos == {Geo(k) : k \in 1 .. asked.geo}
<1>1. CtxLen \in Nat /\ asked.geo \in Nat /\ asked.geo > 0
  BY PipelineAssumption DEF PromptIsEncoded
<1>0. Visible = {j \in 1 .. CtxLen + asked.geo : j > CtxLen \/ asked.ids[j] # 0}
  <2>1. \A j \in 1 .. CtxLen + asked.geo :
          Bias(asked)[j] <=> j > CtxLen \/ asked.ids[j] # 0
    BY DEF Bias
  <2> QED BY <2>1, PromptRows DEF Visible
<1>2. \A j \in 1 .. CtxLen : j \in Visible <=> asked.ids[j] # 0
  BY <1>0, <1>1
<1>3. \A j \in 1 .. asked.geo : CtxLen + j \in Visible
  BY <1>0, <1>1
<1>4. \A j \in Visible :
        j \in 1 .. CtxLen \/ \E k \in 1 .. asked.geo : j = CtxLen + k
  <2> TAKE j \in Visible
  <2>1. j \in 1 .. CtxLen + asked.geo BY PromptRows DEF Visible
  <2>2. CASE j <= CtxLen BY <1>1, <2>1, <2>2
  <2>3. CASE ~(j <= CtxLen)
    <3>1. j - CtxLen \in 1 .. asked.geo /\ j = CtxLen + (j - CtxLen) BY <1>1, <2>1, <2>3
    <3> QED BY <3>1
  <2> QED BY <2>2, <2>3
<1>5. \A j \in 1 .. CtxLen : Prompt(host)[j].from = {Text(k) : k \in 1 .. j}
  <2> TAKE j \in 1 .. CtxLen
  <2> DEFINE prefix == {Text(k) : k \in 1 .. j}
  <2>1. Prompt(host)[j] = Row(Text(j), prefix) BY PromptRows
  <2> HIDE DEF prefix
  <2> QED BY <2>1, RowFields DEF prefix
<1>6. \A j \in 1 .. asked.geo :
        Prompt(host)[CtxLen + j].from = Geos \cup {Image, Position}
  <2> TAKE j \in 1 .. asked.geo
  <2>1. Prompt(host)[CtxLen + j] = Row(Geo(j), Geos \cup {Image, Position}) BY PromptRows
  <2> HIDE DEF Geos
  <2> QED BY <2>1, RowFields
<1>7. Visible # {}
  <2>1. 1 \in 1 .. asked.geo BY <1>1
  <2> QED BY <2>1, <1>3
<1>8. ASSUME NEW j \in Visible PROVE Prompt(host)[j].from \subseteq AllAsked
  <2>1. CASE j \in 1 .. CtxLen
    <3>1. asked.ids[j] # 0 BY <1>2, <2>1
    <3>2. \A k \in 1 .. j : k \in Asked
      <4> TAKE k \in 1 .. j
      <4>1. k \in 1 .. CtxLen /\ j \in k .. CtxLen BY <1>1, <2>1
      <4> QED BY <4>1, <3>1 DEF Asked
    <3> QED BY <3>2, <1>5, <2>1 DEF AllAsked
  <2>2. CASE \E k \in 1 .. asked.geo : j = CtxLen + k
    BY <2>2, <1>6 DEF AllAsked
  <2> QED BY <2>1, <2>2, <1>4
<1>9. Geos \cup {Image, Position} \subseteq Reached
  <2>1. 1 \in 1 .. asked.geo BY <1>1
  <2> QED BY <2>1, <1>3, <1>6 DEF Reached
<1>10. ASSUME NEW i \in Asked PROVE Text(i) \in Reached
  <2>1. PICK j \in i .. CtxLen : asked.ids[j] # 0 BY DEF Asked
  <2>2. i \in 1 .. CtxLen BY DEF Asked
  <2>3. j \in 1 .. CtxLen /\ i \in 1 .. j BY <1>1, <2>1, <2>2
  <2>4. j \in Visible BY <1>2, <2>1, <2>3
  <2>5. Text(i) \in Prompt(host)[j].from BY <1>5, <2>3
  <2> QED BY <2>4, <2>5 DEF Reached
<1>11. AllAsked \subseteq Reached BY <1>9, <1>10 DEF AllAsked
<1>12. Reached \subseteq AllAsked BY <1>8 DEF Reached
<1> QED BY <1>7, <1>11, <1>12

\* Attending the prompt's tokens adds everything that was asked.
LEMMA TokensReach ==
    ASSUME PromptIsEncoded, NEW q
    PROVE  AttendTokens(q, Prompt(host), Bias(asked))
             = [i \in DOMAIN q |-> Plus(q[i], AllAsked)]
<1>1. AttendTokens(q, Prompt(host), Bias(asked))
        = [i \in DOMAIN q |-> Plus(q[i], IF Visible = {} THEN {Undefined} ELSE Reached)]
  BY DEF AttendTokens, Attend, Visible, Reached
<1> QED BY <1>1, VisiblePrompt

-----------------------------------------------------------------------------
(* The fusion encoder: the image has everything.                             *)

LEMMA FusionForward ==
    ASSUME InputsInv, at.step = "compute", at.stage = 3, PromptIsEncoded,
           NEW from, Image \in from, from \subseteq AllAsked
    PROVE  sam3_fenc_layer_forward(<<Row(Image, from)>>) = FusedImage
<1> DEFINE x == <<Row(Image, from)>>
           attended == <<Plus(x[1], Sources(<<Row(Position, {Position})>>))>>
<1>1. sam3_fenc_layer_forward(x) = [i \in DOMAIN attended |-> Plus(attended[i], AllAsked)]
  BY InputsOfFusion, TokensReach DEF sam3_fenc_layer_forward
<1>2. Sources(<<Row(Position, {Position})>>) = {Position} BY DEF Sources, Row
<1>3. attended = <<Row(Image, from \cup {Position})>> BY <1>2, PlusRow
<1>4. Plus(Row(Image, from \cup {Position}), AllAsked) = Row(Image, AllAsked)
  <2>1. (from \cup {Position}) \cup AllAsked = AllAsked BY DEF AllAsked
  <2> QED BY <2>1, PlusRow
<1> HIDE DEF attended
<1>5. DOMAIN attended = {1} /\ attended[1] = Row(Image, from \cup {Position}) BY <1>3
<1>6. [i \in DOMAIN attended |-> Plus(attended[i], AllAsked)] = <<Row(Image, AllAsked)>>
  BY <1>4, <1>5
<1> QED BY <1>1, <1>6 DEF FusedImage

LEMMA FusionGraph ==
    ASSUME InputsInv, at.step = "compute", at.stage = 3, PromptIsEncoded
    PROVE  sam3_build_fenc_graph = FusedImage
<1> DEFINE raw == <<Row(Image, {Image})>>
           N == FusionLayers
<1>0. N \in Nat /\ N # 0 BY PipelineAssumption
<1>1. Input("fenc_img") = raw BY InputsOfFusion
<1>2. sam3_fenc_layer_forward(raw) = FusedImage
  <2>1. {Image} \subseteq AllAsked BY DEF AllAsked
  <2> QED BY <2>1, FusionForward
<1>3. sam3_fenc_layer_forward(FusedImage) = FusedImage
  <2>1. Image \in AllAsked BY DEF AllAsked
  <2> QED BY <2>1, FusionForward DEF FusedImage
<1> HIDE DEF raw
<1>4. FusionLayer = [n \in 0 .. N |-> IF n = 0 THEN raw
                                     ELSE sam3_fenc_layer_forward(FusionLayer[n - 1])]
  <2> DEFINE g == [n \in 0 .. N |-> IF n = 0 THEN raw ELSE FusedImage]
  <2>1. \A n \in 0 .. N : n # 0 => g[n - 1] \in {raw, FusedImage} BY <1>0
  <2>2. g = [n \in 0 .. N |-> IF n = 0 THEN raw ELSE sam3_fenc_layer_forward(g[n - 1])]
    BY <2>1, <1>2, <1>3
  <2>3. \E f : f = [n \in 0 .. N |-> IF n = 0 THEN Input("fenc_img")
                                    ELSE sam3_fenc_layer_forward(f[n - 1])]
    BY <2>2, <1>1
  <2>4. FusionLayer = [n \in 0 .. N |-> IF n = 0 THEN Input("fenc_img")
                                       ELSE sam3_fenc_layer_forward(FusionLayer[n - 1])]
    BY <2>3 DEF FusionLayer
  <2> QED BY <2>4, <1>1
<1> DEFINE S == {n \in Nat : n <= N => FusionLayer[n] = IF n = 0 THEN raw ELSE FusedImage}
<1>5. 0 \in S BY <1>0, <1>4
<1>6. ASSUME NEW n \in Nat, n \in S PROVE n + 1 \in S
  <2>1. CASE n + 1 <= N
    <3>1. n + 1 \in 0 .. N /\ (n + 1) - 1 = n /\ n <= N BY <1>0, <2>1
    <3>2. FusionLayer[n + 1] = sam3_fenc_layer_forward(FusionLayer[n]) BY <1>4, <3>1
    <3>3. FusionLayer[n] \in {raw, FusedImage} BY <1>6, <3>1
    <3> QED BY <3>2, <3>3, <1>2, <1>3
  <2> QED BY <2>1
<1> HIDE DEF S
<1>7. N \in S BY <1>0, <1>5, <1>6, SetInduction
<1> QED BY <1>0, <1>7 DEF S, sam3_build_fenc_graph

-----------------------------------------------------------------------------
(* The decoder.                                                              *)

DecoderIsFed ==
    /\ InputsInv /\ at.step = "compute" /\ at.stage = 4
    /\ PromptIsEncoded /\ host.fused = FusedImage

(* Between two layers.                                                       *)
Between ==
    {d \in [queries : [1 .. NQ + 1 -> CleanRows], boxes : [1 .. NQ -> CleanRows]] :
        /\ \A k \in 1 .. NQ + 1 : d.queries[k].own = Query(k - 1)
        /\ \A k \in 1 .. NQ : d.boxes[k].own = Query(k)}
Decided ==
    {d \in Between : /\ d.queries \in [1 .. NQ + 1 -> FullRows]
                     /\ d.boxes \in [1 .. NQ -> FullRows]}

\* What a layer created and never set may be anything, but nothing of a prompt.
LEMMA CreatedByLayer ==
    ASSUME DecoderIsFed, NEW p \in 8 .. 7 + 2 * DecoderLayers
    PROVE  Held(p) \in [1 .. 1 -> CleanRows]
<1>1. Held(p) = <<Row(Query(0), {})>> \/ Held(p) = <<Row(Unset(p), {Unset(p)})>>
  BY InputsOfDecoder DEF DecoderIsFed, UnsetRow
<1>2. p \in Int BY PipelineAssumption
<1>3. Row(Query(0), {}) \in CleanRows
  <2>1. Query(0) \in Source BY DEF Query, Source
  <2> QED BY <2>1, RowIsClean
<1>4. Row(Unset(p), {Unset(p)}) \in CleanRows
  <2>1. Unset(p) \in Source /\ Unset(p)[1] = "unset" BY <1>2 DEF Unset, Source
  <2>2. Unset(p) \in Others BY <2>1 DEF Others
  <2> QED BY <2>1, <2>2, RowIsClean
<1>5. ASSUME NEW r \in CleanRows PROVE <<r>> \in [1 .. 1 -> CleanRows]
  OBVIOUS
<1> QED BY <1>1, <1>3, <1>4, <1>5

LEMMA PresenceAndBoxes ==
    ASSUME DecoderIsFed, NEW i \in 1 .. DecoderLayers,
           NEW boxes \in [1 .. NQ -> CleanRows]
    PROVE  /\ QueryPos(boxes, i) \in [1 .. 1 + NQ -> CleanRows]
           /\ BoxRpb(boxes, i) \in [1 .. 1 + NQ -> CleanRows]
<1>1. DecoderLayers \in Nat /\ NQ \in Nat BY PipelineAssumption
<1>2. 7 + 2 * i - 1 \in 8 .. 7 + 2 * DecoderLayers BY <1>1
<1>3. 7 + 2 * i \in 8 .. 7 + 2 * DecoderLayers BY <1>1
<1>4. QueryPosPres(i) \in [1 .. 1 -> CleanRows] BY <1>2, CreatedByLayer DEF QueryPosPres
<1>5. RpbPresZeros(i) \in [1 .. 1 -> CleanRows] BY <1>3, CreatedByLayer DEF RpbPresZeros
<1>6. ASSUME NEW f \in [1 .. 1 -> CleanRows] PROVE f \o boxes \in [1 .. 1 + NQ -> CleanRows]
  <2>1. 1 \in Nat OBVIOUS
  <2> QED BY <1>1, <2>1, Joined
<1> QED BY <1>4, <1>5, <1>6 DEF QueryPos, BoxRpb

\* A layer leaves every query with everything that was asked.
LEMMA LayerFills ==
    ASSUME DecoderIsFed, NEW queries \in [1 .. NQ + 1 -> CleanRows],
           NEW pos \in [1 .. 1 + NQ -> CleanRows], NEW rpb \in [1 .. 1 + NQ -> CleanRows]
    PROVE  /\ DecoderLayer(queries, pos, rpb) \in [1 .. NQ + 1 -> FullRows]
           /\ \A k \in 1 .. NQ + 1 :
                 DecoderLayer(queries, pos, rpb)[k].own = queries[k].own
<1> DEFINE Allowed == AllAsked \cup Others
           self == Sources(queries) \cup Sources(pos)
           a == [k \in 1 .. NQ + 1 |-> Plus(queries[k], self)]
           b == [k \in 1 .. NQ + 1 |-> Plus(a[k], AllAsked)]
           more == [k \in 1 .. NQ + 1 |-> AllAsked \cup {Position} \cup rpb[k].from]
           c == [k \in 1 .. NQ + 1 |-> Plus(b[k], more[k])]
<1>1. NQ \in Nat BY PipelineAssumption
<1>2. AttendTokens(a, Input("ddec_text"), Input("text_attn_bias")) = b
  <2>1. DOMAIN a = 1 .. NQ + 1 OBVIOUS
  <2> HIDE DEF a
  <2> QED BY <2>1, InputsOfDecoder, TokensReach DEF DecoderIsFed
<1>3. Sources(Input("ddec_enc")) = AllAsked
  <2>1. Input("ddec_enc") = <<Row(Image, AllAsked)>>
    BY InputsOfDecoder DEF DecoderIsFed, FusedImage
  <2> QED BY <2>1 DEF Sources, Row
<1>4. Sources(Input("ddec_pe")) = {Position}
  <2>1. Input("ddec_pe") = <<Row(Position, {Position})>>
    BY InputsOfDecoder DEF DecoderIsFed
  <2> QED BY <2>1 DEF Sources, Row
<1>5. DecoderLayer(queries, pos, rpb) = c
  <2>1. DOMAIN queries = 1 .. NQ + 1 OBVIOUS
  <2>2. DecoderLayer(queries, pos, rpb)
          = [k \in 1 .. NQ + 1 |-> Plus(b[k], Sources(Input("ddec_enc"))
                 \cup Sources(Input("ddec_pe")) \cup rpb[k].from)]
    <3> HIDE DEF b
    <3> QED BY <1>2, <2>1 DEF DecoderLayer
  <2> HIDE DEF b
  <2> QED BY <2>2, <1>3, <1>4
<1>6. self \subseteq Allowed BY CleanSources
<1>7. \A k \in 1 .. NQ + 1 : more[k] \subseteq Allowed /\ AllAsked \subseteq more[k]
  <2>1. Position \in AllAsked BY DEF AllAsked
  <2>2. \A k \in 1 .. NQ + 1 : rpb[k] \in CleanRows BY <1>1
  <2>3. \A k \in 1 .. NQ + 1 : rpb[k].from \subseteq Allowed BY <2>2 DEF CleanRows
  <2> QED BY <2>1, <2>3
<1>8. ASSUME NEW k \in 1 .. NQ + 1
      PROVE  c[k] \in FullRows /\ c[k].own = queries[k].own
  <2> HIDE DEF self, more
  <2>1. a[k] \in CleanRows /\ a[k].own = queries[k].own
    BY <1>6, PlusClean
  <2>2. b[k] \in CleanRows /\ b[k].own = queries[k].own
    <3>1. b[k] = Plus(a[k], AllAsked) OBVIOUS
    <3> HIDE DEF a, b
    <3> QED BY <2>1, <3>1, PlusClean
  <2>3. c[k] = Plus(b[k], more[k]) OBVIOUS
  <2> HIDE DEF b, c
  <2> QED BY <2>2, <2>3, <1>7, PlusClean
<1> HIDE DEF c
<1>9. c \in [1 .. NQ + 1 -> FullRows] BY <1>8 DEF c
<1> QED BY <1>5, <1>8, <1>9

LEMMA DecodeStep ==
    ASSUME DecoderIsFed, NEW i \in 1 .. DecoderLayers, NEW d \in Between
    PROVE  Decode(d, i) \in Decided
<1> DEFINE pos == QueryPos(d.boxes, i)
           rpb == BoxRpb(d.boxes, i)
           q == DecoderLayer(d.queries, pos, rpb)
           boxes == Refined(d.boxes, q)
<1>1. NQ \in Nat BY PipelineAssumption
<1>2. /\ d.queries \in [1 .. NQ + 1 -> CleanRows] /\ d.boxes \in [1 .. NQ -> CleanRows]
      /\ \A k \in 1 .. NQ + 1 : d.queries[k].own = Query(k - 1)
  BY DEF Between
<1>3. pos \in [1 .. 1 + NQ -> CleanRows] /\ rpb \in [1 .. 1 + NQ -> CleanRows]
  BY <1>2, PresenceAndBoxes
<1> HIDE DEF pos, rpb
<1>4. q \in [1 .. NQ + 1 -> FullRows] /\ \A k \in 1 .. NQ + 1 : q[k].own = Query(k - 1)
  BY <1>2, <1>3, LayerFills
<1> HIDE DEF q
<1>5. ASSUME NEW k \in 1 .. NQ PROVE boxes[k] \in FullRows /\ boxes[k].own = Query(k)
  <2>1. k + 1 \in 1 .. NQ + 1 /\ (k + 1) - 1 = k BY <1>1
  <2>2. q[k + 1] \in FullRows /\ q[k + 1].own = Query(k) BY <1>4, <2>1
  <2>3. d.boxes[k] \in CleanRows BY <1>2
  <2>4. boxes[k] = Row(q[k + 1].own, d.boxes[k].from \cup q[k + 1].from) BY DEF Refined
  <2>5. q[k + 1].own \in Source BY <2>2 DEF FullRows, CleanRows, Rows
  <2>6. d.boxes[k].from \cup q[k + 1].from \subseteq AllAsked \cup Others
    BY <2>2, <2>3 DEF FullRows, CleanRows
  <2>7. AllAsked \subseteq d.boxes[k].from \cup q[k + 1].from BY <2>2 DEF FullRows
  <2> HIDE DEF boxes
  <2> QED BY <2>2, <2>4, <2>5, <2>6, <2>7, RowIsClean, RowFields
<1>6. boxes = [k \in 1 .. NQ |-> boxes[k]] BY DEF Refined
<1> HIDE DEF boxes
<1>7. boxes \in [1 .. NQ -> FullRows] BY <1>5, <1>6
<1>8. Decode(d, i) = [queries |-> q, boxes |-> boxes] BY DEF Decode, q, boxes, pos, rpb
<1>9. FullRows \subseteq CleanRows BY DEF FullRows
<1>10. q \in [1 .. NQ + 1 -> CleanRows] /\ boxes \in [1 .. NQ -> CleanRows]
  BY <1>4, <1>7, <1>9
<1> DEFINE e == [queries |-> q, boxes |-> boxes]
<1>11. e.queries = q /\ e.boxes = boxes OBVIOUS
<1>12. e \in [queries : [1 .. NQ + 1 -> CleanRows], boxes : [1 .. NQ -> CleanRows]]
  BY <1>10
<1> HIDE DEF e
<1>13. e \in Between BY <1>4, <1>5, <1>11, <1>12 DEF Between
<1>14. e \in Decided BY <1>4, <1>7, <1>11, <1>13 DEF Decided
<1> QED BY <1>8, <1>14 DEF e

\* Layers are many and add what they may, so that the last is known by what it
\* keeps to, not by what it is.
LEMMA LastLayer ==
    ASSUME DecoderIsFed
    PROVE  Decoded[DecoderLayers] \in Decided
<1> DEFINE N == DecoderLayers
           first == [queries |-> [k \in 1 .. NQ + 1 |-> Row(Query(k - 1), {Query(k - 1)})],
                     boxes |-> [k \in 1 .. NQ |-> Row(Query(k), {})]]
           step == [i \in Nat |-> [d \in Between |-> IF i \in 1 .. N THEN Decode(d, i) ELSE d]]
<1>0. N \in Nat /\ N # 0 /\ NQ \in Nat BY PipelineAssumption
<1>1. first \in Between
  <2>1. \A k \in 1 .. NQ + 1 : Query(k - 1) \in Source /\ Query(k - 1) \in Others
    BY <1>0 DEF Query, Source, Others
  <2>2. \A k \in 1 .. NQ : Query(k) \in Source BY <1>0 DEF Query, Source
  <2>3. \A k \in 1 .. NQ + 1 : Row(Query(k - 1), {Query(k - 1)}) \in CleanRows
    <3> TAKE k \in 1 .. NQ + 1
    <3>1. {Query(k - 1)} \subseteq AllAsked \cup Others BY <2>1
    <3> QED BY <2>1, <3>1, RowIsClean
  <2>4. \A k \in 1 .. NQ : Row(Query(k), {}) \in CleanRows
    <3> TAKE k \in 1 .. NQ
    <3>1. {} \subseteq AllAsked \cup Others OBVIOUS
    <3> QED BY <2>2, <3>1, RowIsClean
  <2>5. /\ first.queries \in [1 .. NQ + 1 -> CleanRows]
        /\ first.boxes \in [1 .. NQ -> CleanRows]
    BY <2>3, <2>4
  <2>6. /\ \A k \in 1 .. NQ + 1 : first.queries[k].own = Query(k - 1)
        /\ \A k \in 1 .. NQ : first.boxes[k].own = Query(k)
    BY DEF Row
  <2>7. first = [queries |-> first.queries, boxes |-> first.boxes] OBVIOUS
  <2> HIDE DEF first
  <2>8. first \in [queries : [1 .. NQ + 1 -> CleanRows], boxes : [1 .. NQ -> CleanRows]]
    BY <2>5, <2>7
  <2> QED BY <2>6, <2>8 DEF Between
<1>2. Decided \subseteq Between BY DEF Decided
<1>3. \A i \in 1 .. N : \A d \in Between : Decode(d, i) \in Decided BY DecodeStep
<1>4. step \in [Nat -> [Between -> Between]] BY <1>2, <1>3
<1> HIDE DEF first
<1>5. PICK f : /\ f \in [0 .. N -> Between] /\ f[0] = first
               /\ \A n \in 1 .. N : f[n] = step[n][f[n - 1]]
  <2> HIDE DEF step
  <2>1. \E f : Iterates(f, N, Between, first, step) BY <1>0, <1>1, <1>4, Recursion
  <2> QED BY <2>1 DEF Iterates
<1>6. f = [n \in 0 .. N |-> IF n = 0 THEN first ELSE Decode(f[n - 1], n)]
  <2>1. \A n \in 0 .. N : n # 0 => n \in 1 .. N OBVIOUS
  <2>2. \A n \in 1 .. N : n \in Nat /\ n - 1 \in 0 .. N BY <1>0
  <2>3. \A n \in 1 .. N : step[n][f[n - 1]] = Decode(f[n - 1], n)
    BY <1>5, <2>2
  <2> HIDE DEF step
  <2>4. \A n \in 0 .. N : f[n] = IF n = 0 THEN first ELSE Decode(f[n - 1], n)
    BY <1>5, <2>1, <2>3
  <2> QED BY <1>5, <2>4
<1>7. Decoded = [n \in 0 .. N |-> IF n = 0 THEN first ELSE Decode(Decoded[n - 1], n)]
  <2>1. \E g : g = [n \in 0 .. N |-> IF n = 0 THEN first ELSE Decode(g[n - 1], n)]
    BY <1>6
  <2>2. Decoded = CHOOSE g :
          g = [n \in 0 .. N |-> IF n = 0 THEN first ELSE Decode(g[n - 1], n)]
    BY DEF Decoded, first
  <2> QED BY <2>1, <2>2
<1> HIDE DEF step
<1> DEFINE S == {n \in Nat : n <= N => Decoded[n] \in IF n = 0 THEN Between ELSE Decided}
<1>8. 0 \in S BY <1>0, <1>1, <1>7
<1>9. ASSUME NEW n \in Nat, n \in S PROVE n + 1 \in S
  <2>1. CASE n + 1 <= N
    <3>1. n + 1 \in 0 .. N /\ n + 1 \in 1 .. N /\ (n + 1) - 1 = n /\ n <= N
      BY <1>0, <2>1
    <3>2. Decoded[n + 1] = Decode(Decoded[n], n + 1) BY <1>7, <3>1
    <3>3. Decoded[n] \in Between BY <1>2, <1>9, <3>1
    <3> QED BY <3>1, <3>2, <3>3, <1>3
  <2> QED BY <2>1
<1> HIDE DEF S
<1>10. N \in S BY <1>0, <1>8, <1>9, SetInduction
<1> QED BY <1>0, <1>10 DEF S

LEMMA DecoderGraph ==
    ASSUME DecoderIsFed
    PROVE  /\ IsDecoded(sam3_build_ddec_graph)
           /\ DOMAIN sam3_build_ddec_graph = {"queries", "boxes", "scores", "presence"}
<1> DEFINE d == Decoded[DecoderLayers]
           scores == Scored(d.queries)
           presence == <<d.queries[1]>>
<1>1. NQ \in Nat BY PipelineAssumption
<1>2. sam3_build_ddec_graph = [queries |-> d.queries, boxes |-> d.boxes,
                               scores |-> scores, presence |-> presence]
  BY DEF sam3_build_ddec_graph
<1>3. d \in Decided BY LastLayer
<1> HIDE DEF d
<1>4. /\ d.queries \in [1 .. NQ + 1 -> FullRows] /\ d.boxes \in [1 .. NQ -> FullRows]
      /\ \A k \in 1 .. NQ + 1 : d.queries[k].own = Query(k - 1)
      /\ \A k \in 1 .. NQ : d.boxes[k].own = Query(k)
  BY <1>3 DEF Decided, Between
<1>5. Pooled = AllAsked
  <2>1. Pooled = Reached
    BY InputsOfDecoder DEF DecoderIsFed, Pooled, Reached, Visible
  <2> QED BY <2>1, VisiblePrompt DEF DecoderIsFed
<1>6. ASSUME NEW k \in 1 .. NQ
      PROVE  scores[k] \in FullRows /\ scores[k].own = Query(k)
  <2>1. k + 1 \in 1 .. NQ + 1 /\ (k + 1) - 1 = k BY <1>1
  <2>2. d.queries[k + 1] \in FullRows /\ d.queries[k + 1].own = Query(k) BY <1>4, <2>1
  <2>3. scores[k] = Plus(d.queries[k + 1], AllAsked) BY <1>5 DEF Scored
  <2>4. d.queries[k + 1] \in CleanRows BY <2>2 DEF FullRows
  <2>5. AllAsked \subseteq AllAsked \cup Others OBVIOUS
  <2> HIDE DEF scores
  <2> QED BY <2>2, <2>3, <2>4, <2>5, PlusClean
<1>7. scores = [k \in 1 .. NQ |-> scores[k]] BY DEF Scored
<1>8. presence \in [1 .. 1 -> FullRows] /\ presence[1].own = Query(0)
  <2>1. 1 \in 1 .. NQ + 1 /\ 1 - 1 = 0 BY <1>1
  <2>2. d.queries[1] \in FullRows /\ d.queries[1].own = Query(0) BY <1>4, <2>1
  <2> QED BY <2>2
<1> HIDE DEF scores, presence
<1>9. AreOf(d.queries, NQ + 1, -1)
  <2>1. \A k \in 1 .. NQ + 1 : k - 1 = -1 + k BY <1>1
  <2> QED BY <1>4, <2>1 DEF AreOf
<1>10. AreOf(d.boxes, NQ, 0)
  <2>1. \A k \in 1 .. NQ : 0 + k = k BY <1>1
  <2> QED BY <1>4, <2>1 DEF AreOf
<1>11. AreOf(scores, NQ, 0)
  <2>1. \A k \in 1 .. NQ : 0 + k = k BY <1>1
  <2>2. scores \in [1 .. NQ -> FullRows] BY <1>6, <1>7
  <2> QED BY <1>6, <2>1, <2>2 DEF AreOf
<1>12. AreOf(presence, 1, -1)
  <2>1. \A k \in 1 .. 1 : k = 1 /\ -1 + k = 0 OBVIOUS
  <2> QED BY <1>8, <2>1 DEF AreOf
<1> QED BY <1>2, <1>9, <1>10, <1>11, <1>12 DEF IsDecoded

-----------------------------------------------------------------------------
(* The head.                                                                 *)

LEMMA HeadGraph ==
    ASSUME InputsInv, at.step = "compute", at.stage = 5, PromptIsEncoded,
           host.fused = FusedImage, AreOf(host.queries, NQ + 1, -1)
    PROVE  AreOf(sam3_build_seg_head_graph, NQ, 0)
<1> DEFINE enc == AttendTokens(Input("seg_enc"), Input("seg_text"), Input("seg_bias"))
           more == PixelFeatures(enc)
           masks == [k \in 1 .. NQ |-> Plus(SegQueries(host)[k], more)]
<1>1. NQ \in Nat BY PipelineAssumption
<1>2. sam3_build_seg_head_graph = masks
  BY InputsOfHead DEF sam3_build_seg_head_graph
<1>3. Sources(enc) = AllAsked
  <2> DEFINE x == <<Row(Image, AllAsked)>>
  <2>1. Input("seg_enc") = x BY InputsOfHead DEF FusedImage
  <2>2. enc = [i \in DOMAIN x |-> Plus(x[i], AllAsked)]
    <3> HIDE DEF x
    <3> QED BY <2>1, InputsOfHead, TokensReach
  <2>3. Plus(Row(Image, AllAsked), AllAsked) = Row(Image, AllAsked)
    <3>1. AllAsked \cup AllAsked = AllAsked OBVIOUS
    <3> QED BY <3>1, PlusRow
  <2>4. DOMAIN x = {1} /\ x[1] = Row(Image, AllAsked) OBVIOUS
  <2> HIDE DEF x, enc
  <2>5. DOMAIN enc = {1} /\ enc[1] = Row(Image, AllAsked) BY <2>2, <2>3, <2>4
  <2>6. enc[1].from = AllAsked BY <2>5, RowFields
  <2> QED BY <2>5, <2>6 DEF Sources
<1> HIDE DEF enc
<1>4. Sources(Input("seg_fpn0")) = {Fpn(0)} /\ Sources(Input("seg_fpn1")) = {Fpn(1)}
  <2>1. /\ Input("seg_fpn0") = <<Row(Fpn(0), {Fpn(0)})>>
        /\ Input("seg_fpn1") = <<Row(Fpn(1), {Fpn(1)})>>
    BY InputsOfHead
  <2> QED BY <2>1 DEF Sources, Row
<1>5. more \subseteq AllAsked \cup Others
  BY <1>3, <1>4 DEF PixelFeatures, Others
<1> HIDE DEF more
<1>6. ASSUME NEW k \in 1 .. NQ
      PROVE  masks[k] \in FullRows /\ masks[k].own = Query(0 + k)
  <2>1. k + 1 \in 1 .. NQ + 1 /\ -1 + (k + 1) = 0 + k BY <1>1
  <2>2. host.queries[k + 1] \in FullRows /\ host.queries[k + 1].own = Query(0 + k)
    BY <2>1 DEF AreOf
  <2>3. masks[k] = Plus(host.queries[k + 1], more) BY DEF SegQueries
  <2>4. host.queries[k + 1] \in CleanRows BY <2>2 DEF FullRows
  <2> HIDE DEF masks
  <2> QED BY <2>2, <2>3, <2>4, <1>5, PlusClean
<1>7. masks = [k \in 1 .. NQ |-> masks[k]] OBVIOUS
<1> HIDE DEF masks
<1>8. masks \in [1 .. NQ -> FullRows] BY <1>6, <1>7
<1> QED BY <1>2, <1>6, <1>8 DEF AreOf

-----------------------------------------------------------------------------
(* Every step keeps the invariant.                                           *)

\* What a row should have depends on the request, what the caller puts into an
\* input on the request and the host.
LEMMA RequestKept ==
    ASSUME asked' = asked
    PROVE  /\ AllAsked' = AllAsked /\ FullRows' = FullRows
           /\ EncodedGeometry' = EncodedGeometry /\ FusedImage' = FusedImage
<1>1. AllAsked' = AllAsked BY DEF AllAsked, Asked
<1>2. FullRows' = FullRows BY <1>1 DEF FullRows, CleanRows
<1>3. EncodedGeometry' = EncodedGeometry BY DEF EncodedGeometry
<1>4. FusedImage' = FusedImage BY <1>1 DEF FusedImage
<1> QED BY <1>1, <1>2, <1>3, <1>4

LEMMA DataKept ==
    ASSUME asked' = asked, host' = host, NEW name
    PROVE  Data(name)' = Data(name)
BY DEF Data, Prompt, Bias, SegQueries

LEMMA HostKept ==
    ASSUME HostInv, asked' = asked, host' = host,
           \A n \in 1 .. 5 : (Past(n)') => Past(n)
    PROVE  HostInv'
<1>1. /\ (Past(1)') => Past(1)
      /\ (Past(2)') => Past(2)
      /\ (Past(3)') => Past(3)
  OBVIOUS
<1>2. /\ (Past(4)') => Past(4)
      /\ (Past(5)') => Past(5)
  OBVIOUS
<1>3. (Past(1)') => (host.text = EncodedText)'
  BY <1>1 DEF HostInv, EncodedText
<1>4. (Past(2)') => (host.geometry = EncodedGeometry)' BY <1>1, RequestKept DEF HostInv
<1>5. (Past(3)') => (host.fused = FusedImage)' BY <1>1, RequestKept DEF HostInv
<1>6. (Past(4)') => IsDecoded(host)' BY <1>2, RequestKept DEF HostInv, IsDecoded, AreOf
<1>7. (Past(5)') => AreOf(host.masks, NQ, 0)' BY <1>2, RequestKept DEF HostInv, AreOf
<1> QED BY <1>3, <1>4, <1>5, <1>6, <1>7 DEF HostInv

LEMMA StagesAreFive == Len(Stages) = 5 BY DEF Stages

LEMMA InitInvariant == Init => IInv
<1> SUFFICES ASSUME Init PROVE IInv OBVIOUS
<1>1. TypeOK
  <2>1. NoRequest \in [ids : [1 .. CtxLen -> Nat], geo : Nat] BY DEF NoRequest
  <2> QED BY <2>1 DEF Init, TypeOK
<1>2. HostInv BY DEF Init, HostInv, Past, Idle
<1>3. InputsInv BY DEF Init, InputsInv, Idle
<1> QED BY <1>1, <1>2, <1>3 DEF Init, IInv, ResultInv

\* Setting the inputs by name gives every name that has memory its meaning.
LEMMA UploadSets ==
    ASSUME IInv, Upload PROVE InputsInv'
<1>0. PICK names : names = Names(Stages[at.stage]) OBVIOUS
<1>1. at.stage \in 1 .. 5 /\ at.step = "upload" BY DEF IInv, TypeOK, Upload, Idle
<1>2. at'.stage = at.stage /\ at'.step = "compute" /\ asked' = asked /\ host' = host
  BY DEF IInv, TypeOK, Upload, Idle
<1>3. PICK m \in Nat : names \in [1 .. m -> InputNames] /\ Len(names) = m
  BY <1>0, <1>1, NamesType
<1>4. inputs = [p \in 1 .. m |-> [name |-> names[p], set |-> FALSE, data |-> <<>>]]
  BY <1>0, <1>1, <1>3 DEF IInv, InputsInv, Unfilled
<1>5. DOMAIN inputs = 1 .. m /\ Len(inputs) = m
  <2> DEFINE S == {inputs[p] : p \in 1 .. m}
  <2>1. inputs \in [1 .. m -> S] BY <1>4
  <2> HIDE DEF S
  <2> QED BY <2>1, <1>3, VectorIsSequence
<1>6. inputs' = [p \in 1 .. m |->
                   IF Allocated(names[p]) /\ First(names[p]) = p
                   THEN [name |-> names[p], set |-> TRUE, data |-> Data(names[p])]
                   ELSE [name |-> names[p], set |-> FALSE, data |-> <<>>]]
  BY <1>4 DEF Upload
<1>7. DOMAIN inputs' = 1 .. m /\ Len(inputs') = m
  <2> DEFINE S == {inputs'[p] : p \in 1 .. m}
  <2>1. inputs' \in [1 .. m -> S] BY <1>6
  <2> HIDE DEF S
  <2> QED BY <2>1, <1>3, VectorIsSequence
<1>8. \A p \in 1 .. m : inputs[p].name = names[p] /\ inputs'[p].name = names[p]
  BY <1>4, <1>6
<1>9. \A name : First(name)' = First(name)
  BY <1>3, <1>5, <1>7, <1>8, FirstByNames
<1>10. ASSUME NEW p \in 1 .. m
       PROVE  /\ Allocated(names[p]) => Input(names[p])' = Data(names[p])
              /\ Held(p)' \in {Data(names[p]), UnsetRow(p)}
  <2> DEFINE f == First(names[p])
  <2>1. f \in 1 .. m /\ names[f] = names[p]
    <3>1. First(inputs[p].name) \in 1 .. m
      BY <1>3, <1>5, FirstIsFirst
    <3>2. inputs[First(inputs[p].name)].name = inputs[p].name
      BY <1>3, <1>5, FirstIsFirst
    <3> QED BY <3>1, <3>2, <1>8
  <2>2. Allocated(names[p]) => Input(names[p])' = Data(names[p])
    <3> SUFFICES ASSUME Allocated(names[p]) PROVE Input(names[p])' = Data(names[p])
      OBVIOUS
    <3>1. First(names[f]) = f BY <2>1
    <3>2. inputs'[f].set /\ inputs'[f].data = Data(names[p])
      <4> HIDE DEF f
      <4> QED BY <1>6, <2>1, <3>1
    <3>3. First(names[p])' = f BY <1>9
    <3> HIDE DEF f
    <3> QED BY <3>2, <3>3 DEF Input, Held
  <2>3. \/ inputs'[p].set /\ inputs'[p].data = Data(names[p])
        \/ ~inputs'[p].set
    BY <1>6
  <2> QED BY <2>2, <2>3 DEF Held, UnsetRow
<1>11. \A name : Data(name)' = Data(name) BY <1>2, DataKept
<1>12. names = Names(Stages[at.stage])' BY <1>0, <1>2 DEF Names
<1>13. \A p \in 1 .. m : /\ (Allocated(names[p]) => Input(names[p]) = Data(names[p]))'
                         /\ (Held(p) \in {Data(names[p]), UnsetRow(p)})'
  BY <1>10, <1>11 DEF Allocated, UnsetRow
<1>14. \A p \in 1 .. Len(names) :
          LET name == names[p]
          IN  /\ (Allocated(name) => Input(name) = Data(name))'
              /\ (Held(p) \in {Data(name), UnsetRow(p)})'
  BY <1>3, <1>13
<1> QED BY <1>2, <1>12, <1>14 DEF InputsInv

\* Every stage leaves the host what the next ones rely on.
LEMMA ComputeHands ==
    ASSUME IInv, Compute PROVE HostInv' /\ DOMAIN host' = DOMAIN host
<1>1. /\ at.step = "compute" /\ at.stage \in 1 .. 5 /\ asked.geo \in Nat \ {0}
      /\ asked.ids \in [1 .. CtxLen -> Nat]
  BY DEF IInv, TypeOK, Compute, Idle
<1>2. /\ DOMAIN host = {"text", "geometry", "fused", "queries", "boxes", "scores",
                        "presence", "masks"}
      /\ asked' = asked /\ host' = ReadBack
  BY DEF IInv, TypeOK, Compute, NoVectors
<1>3. /\ at.stage > 1 => host.text = EncodedText
      /\ at.stage > 2 => host.geometry = EncodedGeometry
      /\ at.stage > 3 => host.fused = FusedImage
      /\ at.stage > 4 => IsDecoded(host)
  BY DEF IInv, HostInv, Past
<1>4. at.stage > 2 => PromptIsEncoded BY <1>1, <1>3 DEF PromptIsEncoded
<1>5. \A n \in 1 .. 5 : (Past(n)') => n <= at.stage
  BY <1>1, StagesAreFive DEF Compute, Past
<1>6. InputsInv BY DEF IInv
<1>7. EncodedText' = EncodedText BY DEF EncodedText
<1>8. CASE at.stage = 1
  <2>1. host' = [host EXCEPT !.text = EncodedText]
    BY <1>1, <1>2, <1>6, <1>8, TextGraph DEF ReadBack, In, Stages
  <2>2. host'.text = EncodedText /\ DOMAIN host' = DOMAIN host BY <2>1, <1>2
  <2>3. ~Past(2)' /\ ~Past(3)' /\ ~Past(4)' /\ ~Past(5)' BY <1>5, <1>8
  <2> QED BY <2>2, <2>3, <1>7 DEF HostInv
<1>9. CASE at.stage = 2
  <2>1. host' = [host EXCEPT !.geometry = EncodedGeometry]
    BY <1>1, <1>2, <1>6, <1>9, GeometryGraph DEF ReadBack, In, Stages
  <2>2. /\ host'.text = host.text /\ host'.geometry = EncodedGeometry
        /\ DOMAIN host' = DOMAIN host
    BY <2>1, <1>2
  <2>3. ~Past(3)' /\ ~Past(4)' /\ ~Past(5)' BY <1>5, <1>9
  <2> QED BY <2>2, <2>3, <1>2, <1>3, <1>7, <1>9, RequestKept DEF HostInv
<1>10. CASE at.stage = 3
  <2>1. host' = [host EXCEPT !.fused = FusedImage]
    BY <1>1, <1>2, <1>4, <1>6, <1>10, FusionGraph DEF ReadBack, In, Stages
  <2>2. /\ host'.text = host.text /\ host'.geometry = host.geometry
        /\ host'.fused = FusedImage /\ DOMAIN host' = DOMAIN host
    BY <2>1, <1>2
  <2>3. ~Past(4)' /\ ~Past(5)' BY <1>5, <1>10
  <2> QED BY <2>2, <2>3, <1>2, <1>3, <1>7, <1>10, RequestKept DEF HostInv
<1>11. CASE at.stage = 4
  <2> DEFINE d == sam3_build_ddec_graph
  <2>1. host' = [host EXCEPT !.queries = d.queries, !.boxes = d.boxes,
                             !.scores = d.scores, !.presence = d.presence]
    BY <1>1, <1>2, <1>11 DEF ReadBack, In, Stages
  <2>2. IsDecoded(d)
    BY <1>1, <1>3, <1>4, <1>6, <1>11, DecoderGraph DEF DecoderIsFed
  <2> HIDE DEF d
  <2>3. /\ host'.text = host.text /\ host'.geometry = host.geometry
        /\ host'.fused = host.fused /\ DOMAIN host' = DOMAIN host
    BY <2>1, <1>2
  <2>4. /\ host'.queries = d.queries /\ host'.boxes = d.boxes
        /\ host'.scores = d.scores /\ host'.presence = d.presence
    BY <2>1, <1>2
  <2>5. IsDecoded(host)' BY <1>2, <2>2, <2>4, RequestKept DEF IsDecoded, AreOf
  <2>6. ~Past(5)' BY <1>5, <1>11
  <2> QED BY <2>3, <2>5, <2>6, <1>2, <1>3, <1>7, <1>11, RequestKept DEF HostInv
<1>12. CASE at.stage = 5
  <2> DEFINE masks == sam3_build_seg_head_graph
  <2>1. host' = [host EXCEPT !.masks = masks]
    BY <1>1, <1>2, <1>12 DEF ReadBack, In, Stages
  <2>2. AreOf(masks, NQ, 0)
    BY <1>1, <1>3, <1>4, <1>6, <1>12, HeadGraph DEF IsDecoded
  <2> HIDE DEF masks
  <2>3. /\ host'.text = host.text /\ host'.geometry = host.geometry
        /\ host'.fused = host.fused /\ DOMAIN host' = DOMAIN host
    BY <2>1, <1>2
  <2>4. /\ host'.queries = host.queries /\ host'.boxes = host.boxes
        /\ host'.scores = host.scores /\ host'.presence = host.presence
        /\ host'.masks = masks
    BY <2>1, <1>2
  <2>5. IsDecoded(host)' BY <1>2, <1>3, <1>12, <2>4, RequestKept DEF IsDecoded, AreOf
  <2>6. AreOf(host.masks, NQ, 0)' BY <1>2, <2>2, <2>4, RequestKept DEF AreOf
  <2> QED BY <2>3, <2>5, <2>6, <1>2, <1>3, <1>7, <1>12, RequestKept DEF HostInv
<1> QED BY <1>1, <1>8, <1>9, <1>10, <1>11, <1>12

\* While a call runs, each of its other steps keeps request, host and result.
LEMMA QuietStep ==
    ASSUME IInv, at # Idle, asked' = asked, host' = host, result' = result,
           at' = Idle \/ (at'.stage = at.stage /\ at' # Idle
                          /\ at'.step \in {"allocate", "upload", "compute"}
                          /\ at.step # "finish"),
           TypeOK', InputsInv'
    PROVE  IInv'
<1>1. HostInv'
  <2>1. \A n \in 1 .. 5 : (Past(n)') => Past(n) BY DEF Past, Idle
  <2> QED BY <2>1, HostKept DEF IInv
<1>2. ResultInv'
  <2>1. result = NoVectors BY DEF IInv, ResultInv
  <2> QED BY <2>1 DEF ResultInv, NoVectors
<1>3. (at # Idle => asked.geo > 0)' BY DEF IInv, Idle
<1> QED BY <1>1, <1>2, <1>3 DEF IInv

LEMMA NextInvariant == IInv /\ [Next]_vars => IInv'
<1> SUFFICES ASSUME IInv, [Next]_vars PROVE IInv' OBVIOUS
<1>1. TypeOK BY DEF IInv
<1>2. NoVectors' = NoVectors /\ Idle' = Idle BY DEF NoVectors, Idle
<1>3. CASE sam3_segment_pcs
  <2>1. PICK ids \in Tokens, ex \in Exemplars :
          asked' = [ids |-> ids, geo |-> ex.boxes + ex.embeddings + 1]
    BY <1>3 DEF sam3_segment_pcs
  <2>2. ids \in [1 .. CtxLen -> Nat] /\ ex \in [boxes : Nat, embeddings : Nat]
    BY <2>1, PipelineAssumption
  <2>3. ex.boxes + ex.embeddings + 1 \in Nat /\ ex.boxes + ex.embeddings + 1 > 0
    BY <2>2
  <2>4. /\ at' = [stage |-> 1, step |-> "build"]
        /\ host' = NoVectors /\ result' = NoVectors
    BY <1>3 DEF sam3_segment_pcs
  <2>5. asked' \in [ids : [1 .. CtxLen -> Nat], geo : Nat] /\ asked'.geo > 0
    BY <2>1, <2>2, <2>3
  <2>6. TypeOK' BY <2>4, <2>5 DEF TypeOK, NoVectors
  <2>7. HostInv' BY <2>4 DEF HostInv, Past
  <2>8. InputsInv' BY <2>4 DEF InputsInv
  <2>9. ResultInv' BY <2>4 DEF ResultInv, NoVectors
  <2> QED BY <2>5, <2>6, <2>7, <2>8, <2>9 DEF IInv
<1>4. CASE Build
  <2>1. at.step = "build" /\ at.stage \in 1 .. 5 BY <1>1, <1>4 DEF Build, TypeOK, Idle
  <2>2. at' = [stage |-> at.stage, step |-> "allocate"]
    BY <1>1, <1>4, <2>1 DEF Build, TypeOK, Idle
  <2>3. asked' = asked /\ host' = host /\ result' = result BY <1>4 DEF Build
  <2>4. inputs' = Unfilled(Stages[at.stage]) BY <1>4 DEF Build, Unfilled
  <2>5. TypeOK' BY <1>1, <2>1, <2>2, <2>3 DEF TypeOK, NoVectors
  <2>6. InputsInv'
    <3>1. Unfilled(Stages[at.stage])' = Unfilled(Stages[at.stage])
      BY <2>2 DEF Unfilled, Names
    <3> QED BY <2>2, <2>4, <3>1 DEF InputsInv
  <2>7. at # Idle /\ at'.stage = at.stage /\ at' # Idle BY <2>1, <2>2 DEF Idle
  <2> QED BY <2>1, <2>2, <2>3, <2>5, <2>6, <2>7, QuietStep
<1>5. CASE Allocate
  <2>1. at.step = "allocate" /\ at.stage \in 1 .. 5 BY <1>1, <1>5 DEF Allocate, TypeOK, Idle
  <2>2. at' = [stage |-> at.stage, step |-> "upload"]
    BY <1>1, <1>5, <2>1 DEF Allocate, TypeOK, Idle
  <2>3. asked' = asked /\ host' = host /\ result' = result /\ inputs' = inputs
    BY <1>5 DEF Allocate
  <2>4. TypeOK' BY <1>1, <2>1, <2>2, <2>3 DEF TypeOK, NoVectors
  <2>5. InputsInv'
    <3>1. Unfilled(Stages[at.stage])' = Unfilled(Stages[at.stage])
      BY <2>2 DEF Unfilled, Names
    <3> QED BY <2>1, <2>2, <2>3, <3>1 DEF IInv, InputsInv
  <2>6. at # Idle /\ at'.stage = at.stage /\ at' # Idle BY <2>1, <2>2 DEF Idle
  <2> QED BY <2>1, <2>2, <2>3, <2>4, <2>5, <2>6, QuietStep
<1>6. CASE AllocationFails \/ ComputeFails
  <2>1. /\ at # Idle /\ at' = Idle
        /\ asked' = asked /\ host' = host /\ result' = result
    BY <1>6 DEF AllocationFails, ComputeFails, Exit, Idle
  <2>2. TypeOK' BY <1>1, <2>1 DEF TypeOK, NoVectors, Idle
  <2>3. InputsInv' BY <2>1 DEF InputsInv, Idle
  <2> QED BY <2>1, <2>2, <2>3, QuietStep
<1>7. CASE Upload
  <2>1. at.step = "upload" /\ at.stage \in 1 .. 5 BY <1>1, <1>7 DEF Upload, TypeOK, Idle
  <2>2. at' = [stage |-> at.stage, step |-> "compute"]
    BY <1>1, <1>7, <2>1 DEF Upload, TypeOK, Idle
  <2>3. asked' = asked /\ host' = host /\ result' = result BY <1>7 DEF Upload
  <2>4. TypeOK' BY <1>1, <2>1, <2>2, <2>3 DEF TypeOK, NoVectors
  <2>5. InputsInv' BY <1>7, UploadSets
  <2>6. at # Idle /\ at'.stage = at.stage /\ at' # Idle BY <2>1, <2>2 DEF Idle
  <2> QED BY <2>1, <2>2, <2>3, <2>4, <2>5, <2>6, QuietStep
<1>8. CASE Compute
  <2>1. at.step = "compute" /\ at.stage \in 1 .. 5 /\ at # Idle
    BY <1>1, <1>8 DEF Compute, TypeOK, Idle
  <2>2. /\ at.stage < 5 => at' = [stage |-> at.stage + 1, step |-> "build"]
        /\ at.stage = 5 => at' = [stage |-> 5, step |-> "finish"]
    BY <1>8, <2>1, StagesAreFive DEF Compute
  <2>3. asked' = asked /\ result' = result BY <1>8 DEF Compute
  <2>4. HostInv' /\ DOMAIN host' = DOMAIN host BY <1>8, ComputeHands
  <2>5. \/ at' \in [stage : 1 .. 5, step : {"build", "allocate", "upload", "compute"}]
        \/ at' = [stage |-> 5, step |-> "finish"]
    BY <2>1, <2>2
  <2>6. TypeOK' BY <1>1, <2>3, <2>4, <2>5 DEF TypeOK, NoVectors
  <2>7. InputsInv' BY <2>1, <2>2 DEF InputsInv
  <2>8. ResultInv'
    <3>1. result = NoVectors BY <2>1 DEF IInv, ResultInv
    <3> QED BY <2>3, <3>1 DEF ResultInv, NoVectors
  <2>9. (at # Idle => asked.geo > 0)' BY <2>1, <2>3 DEF IInv
  <2> QED BY <2>4, <2>6, <2>7, <2>8, <2>9 DEF IInv
<1>9. CASE Finish
  <2>1. /\ at.step = "finish" /\ at' = Idle
        /\ asked' = asked /\ host' = host /\ result' = host
    BY <1>9 DEF Finish
  <2>2. TypeOK' BY <1>1, <2>1 DEF TypeOK, NoVectors, Idle
  <2>3. HostInv' BY <2>1 DEF HostInv, Past, Idle
  <2>4. InputsInv' BY <2>1 DEF InputsInv, Idle
  <2>5. IsDecoded(host) /\ AreOf(host.masks, NQ, 0) BY <2>1 DEF IInv, HostInv, Past
  <2>6. IsDecoded(result)' /\ AreOf(result.masks, NQ, 0)'
    BY <2>1, <2>5, RequestKept DEF IsDecoded, AreOf
  <2>7. ResultInv' BY <1>2, <2>1, <2>6 DEF ResultInv
  <2>8. (at # Idle => asked.geo > 0)' BY <2>1 DEF Idle
  <2> QED BY <2>2, <2>3, <2>4, <2>7, <2>8 DEF IInv
<1>10. CASE UNCHANGED vars
  <2>1. /\ asked' = asked /\ at' = at /\ inputs' = inputs /\ host' = host
        /\ result' = result
    BY <1>10 DEF vars
  <2>2. TypeOK' BY <1>1, <2>1 DEF TypeOK, NoVectors, Idle
  <2>3. HostInv'
    <3>1. \A n \in 1 .. 5 : (Past(n)') => Past(n) BY <2>1 DEF Past
    <3> QED BY <2>1, <3>1, HostKept DEF IInv
  <2>4. InputsInv'
    <3>1. \A name : Data(name)' = Data(name) BY <2>1, DataKept
    <3>2. \A name : Input(name)' = Input(name)
      <4> TAKE name
      <4>1. First(name)' = First(name) BY <2>1 DEF First, SelectInSeq, Min
      <4> QED BY <2>1, <4>1 DEF Input, Held
    <3>3. \A p : Held(p)' = Held(p) BY <2>1 DEF Held
    <3>4. \A stage : Unfilled(stage)' = Unfilled(stage) /\ Names(stage)' = Names(stage)
      BY DEF Unfilled, Names
    <3> QED BY <2>1, <3>1, <3>2, <3>3, <3>4 DEF IInv, InputsInv, Allocated, UnsetRow
  <2>5. ResultInv'
    <3>1. ResultInv BY DEF IInv
    <3>2. CASE result = NoVectors BY <1>2, <2>1, <3>2 DEF ResultInv
    <3>3. CASE at = Idle /\ IsDecoded(result) /\ AreOf(result.masks, NQ, 0)
      <4>1. at' = Idle /\ IsDecoded(result)' /\ AreOf(result.masks, NQ, 0)'
        BY <2>1, <3>3, RequestKept DEF IsDecoded, AreOf
      <4> QED BY <1>2, <4>1 DEF ResultInv
    <3> QED BY <3>1, <3>2, <3>3 DEF ResultInv
  <2>6. (at # Idle => asked.geo > 0)' BY <1>2, <2>1 DEF IInv
  <2> QED BY <2>2, <2>3, <2>4, <2>5, <2>6 DEF IInv
<1> QED BY <1>3, <1>4, <1>5, <1>6, <1>7, <1>8, <1>9, <1>10 DEF Next

LEMMA Invariance == Spec => []IInv
BY InitInvariant, NextInvariant, PTL DEF Spec

-----------------------------------------------------------------------------
(* Theorems.                                                                 *)

\* Every variable keeps its type, and a result is there only between calls.
THEOREM TypeCorrect == Spec => []TypeOK
<1>1. IInv => TypeOK BY DEF IInv
<1> QED BY Invariance, <1>1, PTL

\* The rows of a result are full: NoVectors has none.
LEMMA AnswersAreFull == IInv => Answers \subseteq FullRows
<1> SUFFICES ASSUME IInv PROVE Answers \subseteq FullRows OBVIOUS
<1>1. CASE result = NoVectors
  BY <1>1 DEF Answers, NoVectors
<1>2. CASE IsDecoded(result) /\ AreOf(result.masks, NQ, 0)
  <2>1. /\ result.scores \in [1 .. NQ -> FullRows] /\ result.boxes \in [1 .. NQ -> FullRows]
        /\ result.masks \in [1 .. NQ -> FullRows]
        /\ result.presence \in [1 .. 1 -> FullRows]
    BY <1>2 DEF IsDecoded, AreOf
  <2> QED BY <2>1 DEF Answers
<1> QED BY <1>1, <1>2 DEF IInv, ResultInv

\* No padding token, no replaced level and no empty softmax has a part in an
\* answer, for any tokens, any exemplars and any number of layers and queries.
THEOREM PaddingIsIgnored == Spec => []PaddingHasNoInfluence
<1>1. IInv => PaddingHasNoInfluence
  <2> SUFFICES ASSUME IInv, NEW row \in Answers, NEW source \in row.from
               PROVE  /\ source[1] = "text" => source[2] \in Asked
                      /\ source \notin {Undefined, Fpn(2)}
    BY DEF PaddingHasNoInfluence
  <2>1. source \in AllAsked \cup Others BY AnswersAreFull DEF FullRows, CleanRows
  <2>2. CASE source \in Others
    BY <2>2 DEF Others, Undefined, Fpn
  <2>3. CASE source \in {Text(i) : i \in Asked}
    BY <2>3 DEF Text, Undefined, Fpn
  <2>4. CASE source \in {Geo(i) : i \in 1 .. asked.geo}
    BY <2>4 DEF Geo, Undefined, Fpn
  <2>5. CASE source \in {Image, Position}
    BY <2>5 DEF Image, Position, Undefined, Fpn
  <2> QED BY <2>1, <2>2, <2>3, <2>4, <2>5 DEF AllAsked
<1> QED BY Invariance, <1>1, PTL

\* Every token up to the last that is not zero, every row of geometry and the
\* image reach every score, box, mask and the presence.
THEOREM PromptIsUsed == Spec => []WholePromptReaches
<1>1. IInv => WholePromptReaches
  BY AnswersAreFull DEF WholePromptReaches, FullRows, AllAsked
<1> QED BY Invariance, <1>1, PTL

\* The k-th score, box and mask are of one query, whatever the stages handed on.
THEOREM DetectionsStayAligned == Spec => []DetectionsAligned
<1>1. IInv => DetectionsAligned
  <2> SUFFICES ASSUME IInv PROVE DetectionsAligned OBVIOUS
  <2>1. CASE result = NoVectors
    BY <2>1 DEF DetectionsAligned, NoVectors
  <2>2. CASE IsDecoded(result) /\ AreOf(result.masks, NQ, 0)
    <3>1. DOMAIN result.scores = 1 .. NQ BY <2>2 DEF IsDecoded, AreOf
    <3>2. \A k \in 1 .. NQ : 0 + k = k BY PipelineAssumption
    <3> QED BY <2>2, <3>1, <3>2 DEF DetectionsAligned, IsDecoded, AreOf
  <2> QED BY <2>1, <2>2 DEF IInv, ResultInv
<1> QED BY Invariance, <1>1, PTL
============================================================================
