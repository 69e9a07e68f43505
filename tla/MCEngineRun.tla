---------------------------- MODULE MCEngineRun ----------------------------
(* EngineRun as for the point head: an input of a dynamic shape, one of a    *)
(* fixed one, and two outputs.                                               *)
EXTENDS EngineRun
MCInputs == <<"tokens", "features">>
MCOutputs == <<"masks", "ious">>

Arg(via, size, dims) == [via |-> via, size |-> size, dims |-> dims]
Args(tokens, features) == [tokens |-> tokens, features |-> features]
MCArguments ==
    {Args(Arg("device", 1, TRUE), Arg("host", 2, FALSE)),
     Args(Arg("host", 2, TRUE), Arg("device", 2, FALSE)),
     Args(Arg("host", 3, TRUE), Arg("host", 2, FALSE)),
     Args(Arg("host", 1, TRUE), Arg("host", 1, FALSE))}
=============================================================================
