----------------------------- MODULE Tokenizer -----------------------------
(***************************************************************************)
(* The byte-pair tokenizer of text prompts: loading its vocabulary, and    *)
(* sam3_tokenize from a text to token ids, with the cache of encoded words *)
(* that outlives a call and a vocabulary.                                  *)
(*                                                                         *)
(* A text is a sequence of characters; the bytes of a character are        *)
(* symbols.  A token is a sequence of symbols, the last of a word's with   *)
(* the mark "</w>".  A vocabulary file is a list of merges and the ids of  *)
(* tokens.                                                                 *)
(***************************************************************************)
EXTENDS Naturals, Sequences, FiniteSets, SequencesExt, Loops

CONSTANTS Texts,        \* the prompts
          Vocabularies,
          Letter, Digit, Space,
          Lower,        \* characters to characters
          Bytes,        \* characters to sequences of symbols
          Specials,     \* "<|startoftext|>" and "<|endoftext|>"
          Sot, Eot,     \* their ids
          CtxLen,
          MaxCalls,     \* bound: prompts per history
          MaxLoads      \* bound: vocabularies read per history

Char == DOMAIN Lower

ASSUME CtxLenAssumption == CtxLen \in Nat /\ CtxLen >= 2
ASSUME IdsAssumption ==
    /\ Sot \in Nat \ {0} /\ Eot \in Nat \ {0}
    /\ \A v \in Vocabularies :
          /\ v.entries \in Seq([token : Seq(STRING), id : Nat])
          /\ v.merges \in Seq(Seq(STRING) \X Seq(STRING))
    /\ MaxCalls \in Nat /\ MaxLoads \in Nat
ASSUME CharsAssumption ==
    /\ \A text \in Texts : text \in Seq(Char)
    /\ Lower \in [Char -> Char] /\ " " \in Char \cap Space
    /\ Bytes \in [Char -> Seq(STRING)]
    /\ Letter \cap Digit = {} /\ (Letter \cup Digit) \cap Space = {}
    /\ \A w \in Specials :
          w \in Seq(STRING) /\ w # <<>> /\ \A i \in 1 .. Len(w) : w[i] \notin Space
    /\ Space \cap {"'", "s", "t", "m", "d", "r", "e", "v", "l"} = {}

VARIABLES tok,      \* sam3_bpe_tokenizer: id (encoder), merges, cache
          loaded, loads,
          call,     \* where sam3_tokenize is, and its local variables
          ids, calls
vars == <<tok, loaded, loads, call, ids, calls>>

-----------------------------------------------------------------------------
(* sam3_load_bpe_vocab_from_stream *)

NoVocabulary == [id |-> <<>>, merges |-> <<>>, cache |-> <<>>]
NoCall == [at |-> "idle", text |-> <<>>, pos |-> 1, words |-> <<>>, word |-> <<>>]

(* A file lists tokens with their ids, then pairs of tokens.  What one that  *)
(* ends early leaves: the first of its entries.  (What was not read makes    *)
(* entries that match no token.)                                             *)
Torn(v) ==
    {[entries |-> SubSeq(v.entries, 1, k), merges |-> <<>>] : k \in 0 .. Len(v.entries) - 1}
    \cup {[v EXCEPT !.merges = SubSeq(@, 1, k)] : k \in 0 .. Len(v.merges) - 1}

(* A token listed twice has the later id: encoder[token] = token_id.         *)
Ids(entries) ==
    LET at(t) == {k \in 1 .. Len(entries) : entries[k].token = t}
    IN  [t \in {e.token : e \in ToSet(entries)} |->
            entries[CHOOSE k \in at(t) : \A j \in at(t) : j <= k].id]

(* Both tables are cleared first; the cache is not.                          *)
Refill(v) == tok' = [id |-> Ids(v.entries), merges |-> v.merges, cache |-> tok.cache]

sam3_test_load_tokenizer ==
    /\ call.at = "idle" /\ loads < MaxLoads
    /\ loads' = loads + 1
    /\ \E v \in Vocabularies :
          \/ Refill(v) /\ loaded' = TRUE
          \/ (\E t \in Torn(v) : Refill(t)) /\ UNCHANGED loaded
    /\ UNCHANGED <<call, ids, calls>>

-----------------------------------------------------------------------------
(* sam3_pretokenize *)

Others(text) == ToSet(text) \ (Letter \cup Digit \cup Space)

Contractions ==
    {<<"'", c>> : c \in {"s", "t", "m", "d"}}
    \cup {<<"'", "r", "e">>, <<"'", "v", "e">>, <<"'", "l", "l">>}

(* The words of S that the text goes on with at position i.                  *)
Starting(S, text, i) ==
    {w \in S : i + Len(w) - 1 <= Len(text) /\ SubSeq(text, i, i + Len(w) - 1) = w}

(* The characters of S from position i on.                                   *)
Run(text, i, S) ==
    LET ends == {j \in i .. Len(text) : \A k \in i .. j : text[k] \in S}
    IN  SubSeq(text, i, i + Cardinality(ends) - 1)

Piece_ShortContractions(text, i) ==
    LET special == Starting(Specials, text, i)
    IN  CASE special # {} -> CHOOSE w \in special : TRUE
          [] special = {} /\ text[i] = "'" /\ i < Len(text) -> SubSeq(text, i, i + 1)
          [] OTHER ->
               IF text[i] \in Letter THEN Run(text, i, Letter)
               ELSE IF text[i] \in Digit THEN <<text[i]>>
               ELSE Run(text, i, Others(text))

Piece(text, i) ==
    LET special == Starting(Specials, text, i)
        contraction == Starting(Contractions, text, i)
    IN  CASE special # {} -> CHOOSE w \in special : TRUE
          [] special = {} /\ contraction # {} -> CHOOSE w \in contraction : TRUE
          [] OTHER ->
               IF text[i] \in Letter THEN Run(text, i, Letter)
               ELSE IF text[i] \in Digit THEN <<text[i]>>
               ELSE Run(text, i, Others(text))

Split ==
    /\ call.at = "split" /\ call.pos <= Len(call.text)
    /\ call' = IF call.text[call.pos] \in Space
               THEN [call EXCEPT !.pos = @ + 1]
               ELSE LET w == Piece(call.text, call.pos) IN
                    [call EXCEPT !.pos = @ + Len(w), !.words = Append(@, w)]
    /\ UNCHANGED <<tok, loaded, loads, ids, calls>>

EndSplit ==
    /\ call.at = "split" /\ call.pos > Len(call.text)
    /\ call' = [call EXCEPT !.at = "words", !.pos = 1]
    /\ UNCHANGED <<tok, loaded, loads, ids, calls>>

-----------------------------------------------------------------------------
(* sam3_bpe_encode *)

(* The byte encoder, sam3_utf8_chars, and "</w>" after the last.             *)
Encoded(w) == FlattenSeq([i \in 1 .. Len(w) |-> Bytes[w[i]]])
Symbols(s) ==
    [i \in 1 .. Len(s) |-> IF i = Len(s) THEN <<s[i], "</w>">> ELSE <<s[i]>>]

(* A pair that is listed twice has its last rank.                            *)
Ranks(word) ==
    {r \in 1 .. Len(tok.merges) :
        /\ \E i \in 1 .. Len(word) - 1 : tok.merges[r] = <<word[i], word[i + 1]>>
        /\ \A q \in r + 1 .. Len(tok.merges) : tok.merges[q] # tok.merges[r]}

Best_Last(word) == CHOOSE r \in Ranks(word) : \A q \in Ranks(word) : q <= r

Best(word) == CHOOSE r \in Ranks(word) : \A q \in Ranks(word) : r <= q

MergeAll_SkipsLast(word, pair) ==
    LET joined[i \in 0 .. Len(word) - 1] ==
          IF i = 0 THEN <<>>
          ELSE LET s == joined[i - 1] IN
               IF s # <<>> /\ Last(s) = pair[1] /\ word[i] = pair[2]
               THEN Append(Front(s), pair[1] \o pair[2])
               ELSE Append(s, word[i])
    IN  Append(joined[Len(word) - 1], Last(word))

(* All occurrences of the pair, from the left.                               *)
MergeAll(word, pair) ==
    LET joined[i \in 0 .. Len(word)] ==
          IF i = 0 THEN <<>>
          ELSE LET s == joined[i - 1] IN
               IF s # <<>> /\ Last(s) = pair[1] /\ word[i] = pair[2]
               THEN Append(Front(s), pair[1] \o pair[2])
               ELSE Append(s, word[i])
    IN  joined[Len(word)]

NextWord ==
    /\ call.at = "words" /\ call.pos <= Len(call.words)
    /\ LET e == Encoded(call.words[call.pos]) IN
       call' = IF e \in DOMAIN tok.cache
               THEN [call EXCEPT !.at = "emit", !.word = tok.cache[e]]
               ELSE [call EXCEPT !.at = "merge", !.word = Symbols(e)]
    /\ UNCHANGED <<tok, loaded, loads, ids, calls>>

MergeOnce ==
    /\ call.at = "merge" /\ Ranks(call.word) # {}
    /\ call' = [call EXCEPT !.word = MergeAll(@, tok.merges[Best(@)])]
    /\ UNCHANGED <<tok, loaded, loads, ids, calls>>

Cached(e, tokens) ==
    [tok EXCEPT !.cache = [x \in DOMAIN @ \cup {e} |-> IF x = e THEN tokens ELSE @[x]]]

FinishWord ==
    /\ call.at = "merge" /\ Ranks(call.word) = {}
    /\ tok' = Cached(Encoded(call.words[call.pos]), call.word)
    /\ call' = [call EXCEPT !.at = "emit"]
    /\ UNCHANGED <<loaded, loads, ids, calls>>

-----------------------------------------------------------------------------
(* sam3_tokenize *)

Emit_DefaultsToZero ==
    /\ call.at = "emit" /\ call.word # <<>>
    /\ ids' = Append(ids, IF Head(call.word) \in DOMAIN tok.id THEN tok.id[Head(call.word)] ELSE 0)
    /\ call' = [call EXCEPT !.word = Tail(@)]
    /\ UNCHANGED <<tok, loaded, loads, calls>>

(* Tokens the vocabulary lacks are dropped.                                  *)
Emit ==
    /\ call.at = "emit" /\ call.word # <<>>
    /\ ids' = IF Head(call.word) \in DOMAIN tok.id
              THEN Append(ids, tok.id[Head(call.word)]) ELSE ids
    /\ call' = [call EXCEPT !.word = Tail(@)]
    /\ UNCHANGED <<tok, loaded, loads, calls>>

EndWord ==
    /\ call.at = "emit" /\ call.word = <<>>
    /\ call' = [call EXCEPT !.at = "words", !.pos = @ + 1]
    /\ UNCHANGED <<tok, loaded, loads, ids, calls>>

(* Lower case, one space for white space, none at the ends.                  *)
Clean(text) ==
    LET kept == Selected(text, {i \in 1 .. Len(text) :
                    text[i] \in Space => i > 1 /\ text[i - 1] \notin Space})
        line == [i \in 1 .. Len(kept) |->
                    IF kept[i] \in Space THEN " " ELSE Lower[kept[i]]]
    IN  IF line # <<>> /\ Last(line) \in Space THEN Front(line) ELSE line

Begin ==
    /\ call.at = "idle" /\ loaded /\ calls < MaxCalls
    /\ \E text \in Texts : call' = [NoCall EXCEPT !.at = "split", !.text = Clean(text)]
    /\ ids' = <<Sot>> /\ calls' = calls + 1
    /\ UNCHANGED <<tok, loaded, loads>>

Fitted_LosesEot(s) == [i \in 1 .. CtxLen |-> IF i <= Len(s) THEN s[i] ELSE 0]

(* Cut to the context length, keeping the end of text, or padded to it.      *)
Fitted(s) ==
    IF Len(s) > CtxLen
    THEN [i \in 1 .. CtxLen |-> IF i = CtxLen THEN Eot ELSE s[i]]
    ELSE [i \in 1 .. CtxLen |-> IF i <= Len(s) THEN s[i] ELSE 0]

Return ==
    /\ call.at = "words" /\ call.pos > Len(call.words)
    /\ ids' = Fitted(Append(ids, Eot))
    /\ call' = [call EXCEPT !.at = "idle"]
    /\ UNCHANGED <<tok, loaded, loads, calls>>

(* sam3_segment_pcs: the tokens that attention and scoring leave out.        *)
MaskedOut(tokens) == {i \in 1 .. Len(tokens) : tokens[i] = 0}

-----------------------------------------------------------------------------
Step == Split \/ EndSplit \/ NextWord \/ MergeOnce \/ FinishWord \/ Emit \/ EndWord \/ Return
Init ==
    /\ tok = NoVocabulary /\ loaded = FALSE /\ loads = 0
    /\ call = NoCall /\ ids = <<>> /\ calls = 0
Next == sam3_test_load_tokenizer \/ Begin \/ Step

(* A call that has begun runs on; nothing in it waits for anything.          *)
Spec == Init /\ [][Next]_vars /\ WF_vars(Step)

-----------------------------------------------------------------------------
Kinds == {"letter", "digit", "space", "other"}
KindOf(c) == CASE c \in Letter -> "letter" [] c \in Digit -> "digit"
               [] c \in Space -> "space" [] OTHER -> "other"
AllOf(w, kind) == w # <<>> /\ \A i \in 1 .. Len(w) : KindOf(w[i]) = kind

Fixed == Specials \cup Contractions
(* A word of the CLIP pattern that the comment of sam3_pretokenize quotes;   *)
(* and one of letters, or of others, that has no more of them to come.       *)
Shaped(w) ==
    \/ w \in Fixed \/ AllOf(w, "letter") \/ AllOf(w, "other")
    \/ AllOf(w, "digit") /\ Len(w) = 1
EndsWell(w, text, next) ==
    next <= Len(text) /\ w \notin Fixed /\ (AllOf(w, "letter") \/ AllOf(w, "other"))
        => KindOf(text[next]) # KindOf(Last(w))

(* sam3_pretokenize loses nothing but spaces, makes only words of the CLIP   *)
(* pattern, and ends a word of letters, or of other characters, only where   *)
(* the next character is of another kind.                                    *)
SplitFollowsPattern ==
    call.at = "split" =>
        /\ FlattenSeq(call.words) =
             Filtered(SubSeq(call.text, 1, call.pos - 1), Char \ Space)
        /\ \A i \in 1 .. Len(call.words) : Shaped(call.words[i])
        /\ call.words # <<>> /\ call.text[call.pos - 1] \notin Space
             => EndsWell(Last(call.words), call.text, call.pos)

(* What the merges are for: each in turn, by rank, wherever its two tokens   *)
(* are neighbours.                                                           *)
AllMerged(word, pair) ==
    LET starts[i \in 0 .. Len(word)] ==   \* where occurrences start, among the first i
          IF i = 0 THEN {}
          ELSE IF i < Len(word) /\ <<word[i], word[i + 1]>> = pair /\ i - 1 \notin starts[i - 1]
               THEN starts[i - 1] \cup {i} ELSE starts[i - 1]
        S == starts[Len(word)]
    IN  FlattenSeq([i \in 1 .. Len(word) |->
                      IF i \in S THEN <<pair[1] \o pair[2]>>
                      ELSE IF i - 1 \in S THEN <<>> ELSE <<word[i]>>])
ByRank(e, merges) ==
    LET merged[r \in 0 .. Len(merges)] ==
          IF r = 0 THEN Symbols(e) ELSE AllMerged(merged[r - 1], merges[r])
    IN  merged[Len(merges)]

(* What training makes of a list of merges: each pair once, and after the    *)
(* merges that make its tokens.                                              *)
InOrder(merges) ==
    \A q, r \in 1 .. Len(merges) :
        /\ merges[q] = merges[r] => q = r
        /\ merges[r][1] \o merges[r][2] \in {merges[q][1], merges[q][2]} => r < q
MergesInOrder == \A v \in Vocabularies : InOrder(v.merges)

(* The best pair first, found again after every merge, comes to the same as  *)
(* every merge once in the order of ranks; and the cache, which is filled in *)
(* one call and read in later ones, holds nothing else as long as one        *)
(* vocabulary was read.  (A second one does not clear it.)                   *)
CacheHoldsMerges ==
    loads <= 1 => \A e \in DOMAIN tok.cache : tok.cache[e] = ByRank(e, tok.merges)

TokensOf(words, merges) ==
    FlattenSeq([i \in 1 .. Len(words) |-> ByRank(Encoded(words[i]), merges)])

(* The ids of a text depend on the text and the vocabulary alone: the        *)
(* beginning, the tokens of its words as far as there is room, the end, and  *)
(* zeros.  Truncation keeps the end of text (tokenizer.cpp:380).             *)
ResultAsDefined ==
    call.at = "idle" /\ calls > 0 /\ loads = 1 =>
        LET tokens == Filtered(TokensOf(call.words, tok.merges), DOMAIN tok.id)
            n == IF Len(tokens) < CtxLen - 2 THEN Len(tokens) ELSE CtxLen - 2
        IN  /\ Len(ids) = CtxLen
            /\ ids[1] = Sot
            /\ \A i \in 1 .. n : ids[i + 1] = tok.id[tokens[i]]
            /\ ids[n + 2] = Eot
            /\ \A i \in n + 3 .. CtxLen : ids[i] = 0

(* Whatever vocabularies were read, whole or not, and whatever the cache     *)
(* holds, what sam3_tokenize returns has the form the text encoder takes:    *)
(* the context length, a beginning, an end, and zeros after it.              *)
ResultFormat ==
    call.at = "idle" /\ calls > 0 =>
        /\ Len(ids) = CtxLen
        /\ ids[1] = Sot
        /\ \E e \in 2 .. CtxLen : ids[e] = Eot /\ \A i \in e + 1 .. CtxLen : ids[i] = 0

(* Every call returns: each pass of the splitting loop moves on, each merge  *)
(* shortens the word.                                                        *)
CallsReturn == call.at = "split" ~> call.at = "idle"

(* api.cpp:420, "0.0 for valid tokens, -1e9 for padding text tokens": no     *)
(* token up to the end of text is left out.                                  *)
OnlyPaddingMasked ==
    call.at = "idle" /\ calls > 0 =>
        \A i \in MaskedOut(ids) : \E e \in 1 .. i : ids[e] = Eot
=============================================================================
