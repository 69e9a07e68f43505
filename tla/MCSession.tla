------------------------------ MODULE MCSession ------------------------------
(* The deployments the runs of Session range over. *)
EXTENDS Session, TLC

ImageSymmetry == Permutations(Images)

AllEngines == {"enc", "pcs", "pvs"}

Ggml ==
  [built |-> FALSE, only |-> FALSE, enabled |-> FALSE, onGpu |-> TRUE, skip |-> FALSE,
   visualOnly |-> FALSE, size |-> "native", engines |-> {}]

Trt == [Ggml EXCEPT !.built = TRUE, !.enabled = TRUE, !.engines = AllEngines]

\* A ggml build or model, text-capable or visual-only, at native size.
MCGgml == {Ggml, [Ggml EXCEPT !.visualOnly = TRUE], [Ggml EXCEPT !.onGpu = FALSE],
           [Trt EXCEPT !.enabled = FALSE], [Trt EXCEPT !.onGpu = FALSE]}

\* Every TensorRT setting that changes a branch, with a ggml fallback or none.
MCTrt ==
  {[Trt EXCEPT !.only = (f = "build"), !.skip = (f = "weights"), !.engines = e] :
     f \in {"fallback", "build", "weights"},
     e \in {AllEngines, {"enc_fp8", "pcs_fp8", "pvs"}, {"pcs", "pvs"}}}

MCAll == MCTrt
           \cup {Ggml, [Ggml EXCEPT !.skip = TRUE], [Ggml EXCEPT !.size = "override"],
                 [Trt EXCEPT !.size = "override"], [Trt EXCEPT !.visualOnly = TRUE]}

\* One deployment per disagreement.
MCTrtOnlyWeights == {[Trt EXCEPT !.skip = TRUE]}
MCTrtEncoderOnly == {[Trt EXCEPT !.engines = {"enc"}]}
=============================================================================
