---------------------------- MODULE MCTokenizer ----------------------------
(* Tokenizer over all texts of two characters and some longer ones.  "é" is  *)
(* a letter of two bytes.  "!" has id 0, as in CLIP's vocabulary.            *)
EXTENDS Tokenizer

MCLetter == {"a", "b", "s", "r", "e", "A", "S", "é"}
MCDigit == {"1"}
MCSpace == {" ", "\t"}
MCChar == MCLetter \cup MCDigit \cup MCSpace \cup {"'", "!", "<", "|", ">"}
MCLower == [c \in MCChar |-> CASE c = "A" -> "a" [] c = "S" -> "s" [] OTHER -> c]
MCBytes == [c \in MCChar |-> IF c = "é" THEN <<"Ã", "©">> ELSE <<c>>]
MCSpecials == {<<"<", "|", "s", "|", ">">>, <<"<", "|", "e", "|", ">">>}

MCTexts ==
    {<<>>} \cup {<<c, d>> : c \in {"a", "'", "!"}, d \in {"a", "s", "'", "!", "1"}}
    \cup {<<"a", "'", "S">>, <<"a", "'", "r", "e">>, <<"a", "'", "r">>, <<"!", "'", "s">>,
          <<"a", "b", "a", "b", "a">>, <<"A", "\t", " ", "b", " ">>, <<"é", "a">>,
          <<"<", "|", "e", "|", ">", "a">>, <<"!", "<", "|", "e", "|", ">">>,
          <<"1", "1", "1", "1", "1">>, <<"a", "a", "a">>, <<"!", "!", "<">>}

W == "</w>"
Entry(t, n) == [token |-> t, id |-> n]
MCVocabularies ==
    {[merges |-> << << <<"a">>, <<"b">> >>, << <<"a", "b">>, <<"a", "b">> >>,
                    << <<"Ã">>, <<"©">> >>, << <<"b">>, <<"a">> >>, << <<"a">>, <<"a", W>> >> >>,
      entries |-> <<Entry(<<"!">>, 0), Entry(<<"a", W>>, 4), Entry(<<"a", "b", "a", "b">>, 6),
                    Entry(<<"Ã", "©">>, 7), Entry(<<"1", W>>, 8), Entry(<<"a">>, 3)>>],
     [merges |-> << << <<"b">>, <<"a", W>> >>, << <<"a">>, <<"a", W>> >> >>,
      entries |-> <<Entry(<<"a", W>>, 2), Entry(<<"a", "a", W>>, 5)>>]}

(* What the theorems about merging suppose of the lists of merges.           *)
ASSUME MCMergesInOrder == MergesInOrder
=============================================================================
