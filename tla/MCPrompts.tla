----------------------------- MODULE MCPrompts -----------------------------
(* Prompts with the engines' profile of 16 tokens, and as many points and    *)
(* exemplars as reach it and exceed it.                                      *)
EXTENDS Prompts

Points(name, n) == [i \in 1 .. n |-> <<name, i>>]
MCPvsRequests ==
    {[pos |-> Points("pos", p), neg |-> Points("neg", n), box |-> b, multimask |-> m] :
        p \in {0, 1, 2, 12, 15}, n \in {0, 1, 3}, b \in BOOLEAN, m \in BOOLEAN}
MCPcsRequests ==
    {[pos |-> Points("pos", p), neg |-> Points("neg", n), emb |-> e,
      score_threshold |-> 1, nms_threshold |-> t] :
        p \in {0, 2, 14}, n \in {0, 1}, e \in {<<>>, <<Short, Embedding(<<"cat", 0>>, TRUE, "reference")>>},
        t \in {<<1, 10>>, <<1, 2>>}}
MCMasks ==
    {{}, {<<0, 0>>}, {<<2, 1>>, <<0, 1>>}, {<<1, 0>>, <<1, 1>>, <<2, 0>>}, Pixels}
MCBoxes ==
    {[cx |-> 1, cy |-> 1, w |-> 2, h |-> 2], [cx |-> 2, cy |-> 1, w |-> 4, h |-> 2],
     [cx |-> 0, cy |-> 1, w |-> 2, h |-> 4], [cx |-> 3, cy |-> 2, w |-> 0, h |-> 3]}
=============================================================================
