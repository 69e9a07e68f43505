--------------------------- MODULE MCModelRegistry ---------------------------
(* The environments and parameters the runs of ModelRegistry range over. *)
EXTENDS ModelRegistry, TLC

Symmetric == Permutations(Models)

MCOff == [enabled |-> FALSE, skip |-> TRUE, onnx |-> [n \in Names |-> None], precision |-> None]

\* An environment that names one file for every engine and a precision.
MCEnv == [MCOff EXCEPT !.skip = FALSE, !.onnx = [n \in Names |-> "env.onnx"],
                       !.precision = "fp32"]

\* A full configuration, one that leaves a field to the environment, none.
MCFull == [enabled |-> TRUE, skip |-> FALSE, onnx |-> [n \in Names |-> "a.onnx"],
           precision |-> "mixed"]
MCPartial == [MCFull EXCEPT !.skip = TRUE, !.onnx = [n \in Names |-> None], !.precision = "fp16"]

MCParams ==
  {[useGpu |-> g, sidecar |-> FALSE, trt |-> c] : g \in BOOLEAN, c \in {MCOff, MCFull}}
    \cup {[useGpu |-> TRUE, sidecar |-> s, trt |-> MCPartial] : s \in BOOLEAN}
    \cup {[useGpu |-> TRUE, sidecar |-> TRUE, trt |-> MCOff]}

MCNames == {"encoder", "pcs"}
MCPcsNames == {"pcs"}
MCFiles == {"a.onnx", "env.onnx"}
MCPrecisions == {"fp32", "fp16", "mixed"}
=============================================================================
