---------------------------- MODULE MCWeightFile ----------------------------
(* WeightFile over the kinds of tensors there are, in three orders: ending   *)
(* in a tensor of the sidecar, in a registered one, and in one the loader    *)
(* passes over.                                                              *)
EXTENDS WeightFile, TensorNames

Listed(S) == FoldSet(LAMBDA n, s : Append(s, n), <<>>, S)
MCCheckpoints == {Listed(AllNames \ PeFixed) \o Listed(PeFixed),
                  Listed(AllNames \ DecFixed) \o Listed(DecFixed),
                  Listed(RegisteredNames) \o Listed(Tracker)}
=============================================================================
