---------------------------- MODULE MCEngineCache ----------------------------
(* The requests the runs of EngineCache range over. *)
EXTENDS EngineCache, TLC

Symmetric == Permutations(Procs) \cup Permutations(Contents)

Plain(f) == [path |-> "a", fp16 |-> f, patterns |-> <<>>, fp32Env |-> FALSE, rebuild |-> FALSE]
Mixed == [Plain(TRUE) EXCEPT !.patterns = <<"text_">>]

\* FP16, and a mixed precision forced to FP32 that always rebuilds.
MCRequests == {Plain(TRUE), [Mixed EXCEPT !.fp32Env = TRUE, !.rebuild = TRUE]}
MCPaths == {"a"}
MCPatterns == {"text_"}
=============================================================================
