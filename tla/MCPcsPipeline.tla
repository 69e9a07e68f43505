--------------------------- MODULE MCPcsPipeline ---------------------------
EXTENDS PcsPipeline

(* Start 8, end 9; 0 pads, and is the id of the exclamation mark.            *)
MCTokens == {<<8, 5, 9, 0>>, <<8, 9, 0, 0>>, <<8, 5, 0, 9>>, <<8, 0, 9, 0>>,
             <<8, 0, 0, 9>>}
MCExemplars == {[boxes |-> b, embeddings |-> e] : b \in 0 .. 2, e \in 0 .. 1}
============================================================================
