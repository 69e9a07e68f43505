---------------------------- MODULE TensorNames ----------------------------
(***************************************************************************)
(* The tensors the programs of WeightFile tell apart: per section of       *)
(* sam3_register_tensors one tensor for every kind the section has (of     *)
(* which type, shape and special treatment), standing for all of that      *)
(* kind, and the name lists of each program.  Numbers of layers and blocks *)
(* are left out of the names.                                              *)
(***************************************************************************)
EXTENDS Sequences

(* Registered in the weight type (T2, T4, reg, reg4), by section ...         *)
VitWeights == {"vit.patch_embed.proj.weight", "vit.blocks.attn.qkv.weight"}
NeckWeights == {"neck.det.conv_1x1.weight", "neck.trk.conv_1x1.weight"}
TextWeights == {"text.resizer.weight"}
FencWeights == {"fenc.layers.linear1.weight"}
DdecWeights == {"ddec.bbox_embed.layers.weight", "ddec.boxRPB_embed_x.layers.0.weight"}
ScoringWeights == {"scoring.prompt_proj.weight"}
GeomWeights == {"geom.boxes_direct_project.weight", "geom.final_proj.weight",
                "geom.layers.linear1.weight"}
SegWeights == {"seg.pixel_decoder.conv_layers.weight"}
PeWeights == {"sam_pe.mask_ds.0.weight"}
DecWeights == {"sam_dec.twoway.mlp.lin1.weight", "sam_dec.upscale.0.weight"}

(* ... and always in f32 (T1f, T2f, T3f, T4f, reg1).                         *)
VitFixed == {"vit.pos_embed", "vit.blocks.attn.freqs_cis", "vit.ln_pre.weight"}
TextFixed == {"text.token_embed.weight"}
DdecFixed == {"ddec.query_embed.weight", "ddec.reference_points.weight"}
GeomFixed == {"geom.label_embed.weight", "geom.norm.bias"}
PeFixed == {"sam_pe.pe_gaussian", "sam_pe.point_embeddings.weight", "sam_pe.mask_ds.0.bias"}
DecFixed == {"sam_dec.iou_token.weight", "no_mem_embed"}

(* In the container, and not registered.                                     *)
Tracker == {"mem_attn.layers.linear1.weight", "mem_enc.tpos_enc"}

WeightTypedNames ==
    UNION {VitWeights, NeckWeights, TextWeights, FencWeights, DdecWeights, ScoringWeights,
           GeomWeights, SegWeights, PeWeights, DecWeights}
RegisteredNames ==
    UNION {WeightTypedNames, VitFixed, TextFixed, DdecFixed, GeomFixed, PeFixed, DecFixed}
AllNames == RegisteredNames \cup Tracker

(* The sections inside "if (!hp.visual_only)".                               *)
DetectorNames ==
    UNION {{"neck.det.conv_1x1.weight"}, TextWeights, TextFixed, FencWeights, DdecWeights,
           DdecFixed, ScoringWeights, GeomWeights, GeomFixed, SegWeights}

(* The predicate keep.                                                       *)
GeomInputWeights == {"geom.boxes_direct_project.weight", "geom.final_proj.weight",
                     "geom.label_embed.weight", "geom.norm.bias"}
RuntimeHelperNames == PeWeights \cup PeFixed \cup GeomInputWeights

(* Shapes: the first dimension given to T1 .. T4.                            *)
Vectors == {"vit.ln_pre.weight", "geom.norm.bias", "sam_pe.mask_ds.0.bias"}
OddRows == {"vit.patch_embed.proj.weight", "neck.det.conv_1x1.weight", "neck.trk.conv_1x1.weight",
            "vit.blocks.attn.freqs_cis", "ddec.boxRPB_embed_x.layers.0.weight",
            "ddec.reference_points.weight", "geom.boxes_direct_project.weight",
            "seg.pixel_decoder.conv_layers.weight", "sam_pe.mask_ds.0.weight",
            "sam_pe.pe_gaussian", "sam_pe.mask_ds.0.bias", "sam_dec.upscale.0.weight"}
MatrixNames == AllNames \ Vectors
AlignedNames == AllNames \ OddRows

(* The converter: VISUAL_ONLY_STRIP_PREFIXES, and names that stay f32.        *)
StrippedNames ==
    {"neck.det.conv_1x1.weight", "text.resizer.weight", "text.token_embed.weight",
     "fenc.layers.linear1.weight", "scoring.prompt_proj.weight",
     "seg.pixel_decoder.conv_layers.weight"}
    \cup DdecWeights \cup DdecFixed \cup GeomWeights \cup GeomFixed
ConvertedAsF32Names ==
    {"vit.patch_embed.proj.weight", "ddec.bbox_embed.layers.weight",
     "ddec.boxRPB_embed_x.layers.0.weight", "vit.pos_embed", "vit.blocks.attn.freqs_cis",
     "text.token_embed.weight", "ddec.query_embed.weight", "geom.label_embed.weight",
     "sam_pe.pe_gaussian", "sam_pe.point_embeddings.weight", "sam_dec.iou_token.weight",
     "no_mem_embed", "mem_enc.tpos_enc"}

(* The quantizer: is_embedding.                                              *)
NeverQuantizedNames_AsConverter == ConvertedAsF32Names

NeverQuantizedNames ==
    {"vit.pos_embed", "vit.blocks.attn.freqs_cis", "text.token_embed.weight",
     "ddec.query_embed.weight", "geom.label_embed.weight", "sam_pe.pe_gaussian",
     "sam_pe.point_embeddings.weight", "sam_dec.iou_token.weight", "no_mem_embed",
     "mem_enc.tpos_enc"}

(* The extractor: sam_pe.* and GEOM_HELPERS.                                 *)
SidecarHelperNames ==
    {"geom.boxes_direct_project.weight", "geom.final_proj.weight", "geom.label_embed.weight",
     "geom.norm.bias"} \cup PeWeights \cup PeFixed
=============================================================================
