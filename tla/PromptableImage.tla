--------------------------- MODULE PromptableImage ---------------------------
(***************************************************************************)
(* What a client is promised of one state, without memory, paths or        *)
(* engines: encode an image once, prompt it as often as you like.  A       *)
(* prompt is answered from the one image the state holds.  While the last  *)
(* encode has succeeded the answer has that image's size; after an encode  *)
(* that failed the size is anyone's guess, and only encoding again helps.  *)
(***************************************************************************)
CONSTANTS Pictures, NoImage, PictureSizes, SizeOf(_)

VARIABLES holds, trusted, answer

NoAnswer == [of |-> NoImage, dims |-> NoImage]

Init == holds = NoImage /\ trusted = FALSE /\ answer = NoAnswer

Encode(i) == holds' = i /\ trusted' = TRUE /\ answer' = NoAnswer

EncodeFails == trusted' = FALSE /\ answer' = NoAnswer /\ UNCHANGED holds

\* The features are given up: a backbone-only encode, or the end.
Drop == holds' = NoImage /\ trusted' = FALSE /\ answer' = NoAnswer

Prompt ==
  /\ holds # NoImage
  /\ \E d \in PictureSizes : /\ trusted => d = SizeOf(holds)
                             /\ answer' = [of |-> holds, dims |-> d]
  /\ UNCHANGED <<holds, trusted>>

Refuse == answer' = NoAnswer /\ UNCHANGED <<holds, trusted>>

Next == (\E i \in Pictures : Encode(i)) \/ EncodeFails \/ Drop \/ Prompt \/ Refuse

Spec == Init /\ [][Next]_<<holds, trusted, answer>>
=============================================================================
