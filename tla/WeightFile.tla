----------------------------- MODULE WeightFile -----------------------------
(***************************************************************************)
(* The weight container and the four programs that handle it: the          *)
(* converter writes it from a checkpoint, the quantizer rewrites it, the   *)
(* extractor takes a TensorRT sidecar from it, and the library loads       *)
(* either.  The programs agree on nothing but the file: each decides by    *)
(* tensor names of its own what to convert, quantize, keep or expect.  A   *)
(* writer may be interrupted anywhere; the next program reads what is      *)
(* there.                                                                  *)
(*                                                                         *)
(* A file is its header, its tensor records and its vocabulary.  A record  *)
(* carries the name of the tensor its bytes belong to in "data": whether   *)
(* a loaded tensor holds its own bytes is what the properties ask.  All    *)
(* offsets, paddings and byte counts are abstracted to which part of which *)
(* record the end of the file falls in.                                    *)
(***************************************************************************)
EXTENDS Naturals, Sequences, FiniteSets, SequencesExt, Loops

CONSTANTS Names,            \* the tensors of a checkpoint
          Checkpoints,      \* the orders a checkpoint lists them in
          Registered,       \* those the loader creates for a full model
          WeightTyped,      \*   ... in the file's weight type, the rest in f32
          Detector,         \*   ... only for models that are not visual-only
          RuntimeHelpers,   \*   ... also when TensorRT owns the weights
          Matrix,           \* two dimensions or more
          Aligned,          \* rows of a multiple of 32
          Stripped,         \* left out by the converter of a visual-only model
          ConvertedAsF32,   \* never stored in f16 by the converter
          NeverQuantized,   \* the quantizer's embeddings
          SidecarHelpers,   \* kept by the extractor
          MaxTools,         \* bound: programs run on one file's history
          MaxCrashes        \* bound: interrupted writes in one file's history

QuantTypes == {"q4_0", "q8_0"}
FTypes == {"f32", "f16"} \cup QuantTypes
Garbage == "garbage"
Mangled == "mangled"

ASSUME NamesAssumption ==
    /\ IsFiniteSet(Names) /\ Garbage \notin Names /\ Mangled \notin Names
    /\ Registered \subseteq Names /\ Detector \subseteq Registered
    /\ Checkpoints \subseteq Seq(Names)
    /\ \A c \in Checkpoints : IsInjective(c)
    /\ MaxTools \in Nat /\ MaxCrashes \in Nat

VARIABLES input,    \* the file at hand
          output,   \* the file the last program wrote
          model,    \* what loading the file at hand gave
          tools, crashes
vars == <<input, output, model, tools, crashes>>

-----------------------------------------------------------------------------
(* Files. "header": "none" has no complete magic, version, type and count,  *)
(* "torn" ends in the hyperparameters, "garbled" has hyperparameters that   *)
(* were never read.  "torn": where the last record ends early, in its fixed *)
(* fields, in its shape or name, or in its data.                            *)
Record == [name : Names \cup {Mangled}, dtype : FTypes, data : Names \cup {Garbage}]
File == [header : {"none", "torn", "garbled", "whole"}, magic : {"sam3", "s3rt"},
         ftype : FTypes, visual : BOOLEAN, count : Nat, recs : Seq(Record),
         torn : {"no", "fixed", "name", "data"}, vocab : {"none", "torn", "whole"}]

NoFile == [header |-> "none", magic |-> "sam3", ftype |-> "f32", visual |-> FALSE,
           count |-> 0, recs |-> <<>>, torn |-> "no", vocab |-> "none"]

(* What the bytes of f are up to some point: up to the header's last byte, or *)
(* somewhere in or after the record k; and all that they may be.              *)
CutInHeader(f) == [f EXCEPT !.header = "torn", !.recs = <<>>, !.vocab = "none"]
CutAt(f, k, t) == [f EXCEPT !.recs = SubSeq(f.recs, 1, k), !.torn = t, !.vocab = "none"]
Cuts(f) ==
    {NoFile, CutInHeader(f), [f EXCEPT !.recs = <<>>, !.vocab = "none"]}
    \cup {CutAt(f, k, t) : k \in 1 .. Len(f.recs), t \in {"no", "fixed", "name", "data"}}
    \cup (IF f.vocab = "none" THEN {} ELSE {[f EXCEPT !.vocab = "torn"]})

(* A writer gets to the end, or, once, to anywhere before it.               *)
Writes(f) ==
    /\ tools < MaxTools
    /\ tools' = tools + 1
    /\ \/ output' = f /\ UNCHANGED crashes
       \/ crashes < MaxCrashes /\ crashes' = crashes + 1 /\ output' \in Cuts(f) \ {f}

(* A record that is there to its last byte.                                  *)
Whole(f) == IF f.torn = "no" THEN Len(f.recs) ELSE Len(f.recs) - 1
LastRecordTorn(f) == f.torn = "data"

-----------------------------------------------------------------------------
(* scripts/convert/convert_sam3_to_ggml.py *)

ConvertedType(n, ftype) ==
    IF ftype = "f16" /\ n \in Matrix /\ n \notin ConvertedAsF32 THEN "f16" ELSE "f32"

Kept(checkpoint, visual) ==
    Selected(checkpoint, {i \in 1 .. Len(checkpoint) : ~(visual /\ checkpoint[i] \in Stripped)})

Converted(checkpoint, ftype, visual) ==
    LET kept == Kept(checkpoint, visual) IN
    [NoFile EXCEPT !.header = "whole", !.ftype = ftype, !.visual = visual,
       !.count = Len(kept),
       !.recs = [i \in 1 .. Len(kept) |->
                   [name |-> kept[i], dtype |-> ConvertedType(kept[i], ftype), data |-> kept[i]]],
       !.vocab = IF visual THEN "none" ELSE "whole"]

Convert ==
    /\ input = NoFile /\ output = NoFile
    /\ \E c \in Checkpoints, ftype \in {"f32", "f16"}, visual \in BOOLEAN :
          Writes(Converted(c, ftype, visual))
    /\ UNCHANGED <<input, model>>

-----------------------------------------------------------------------------
(* examples/quantize.cpp *)

Quantizes(r) ==
    /\ r.name \in Matrix /\ r.name \in Aligned
    /\ r.dtype \notin QuantTypes
    /\ r.name \notin NeverQuantized

Requantized(r, q) == IF Quantizes(r) THEN [r EXCEPT !.dtype = q] ELSE r

(* What becomes of the last record if the input ends in it: it is not begun, *)
(* or written to its full length from buffers that were not filled.          *)
Patched(f) ==
    LET whole == SubSeq(f.recs, 1, Whole(f))
        last == f.recs[Len(f.recs)]
    IN  CASE f.torn \in {"no", "fixed"} -> whole
          [] f.torn = "name" -> Append(whole, [last EXCEPT !.name = Mangled, !.data = Garbage])
          [] f.torn = "data" -> Append(whole, [last EXCEPT !.data = Garbage])

(* The vocabulary is copied unless reading the records has already failed.   *)
Quantized(f, q) ==
    LET recs == Patched(f) IN
    [f EXCEPT !.ftype = q, !.torn = "no",
              !.recs = [i \in 1 .. Len(recs) |-> Requantized(recs[i], q)]]

(* The output is opened, hence emptied, before the input is looked at. What  *)
(* was not read from a short header is not initialized.                      *)
QuantizeRefused ==
    /\ tools < MaxTools /\ tools' = tools + 1
    /\ \/ input.magic # "sam3" /\ output' = NoFile
       \/ input.header = "none" /\ output' \in {NoFile, [NoFile EXCEPT !.header = "garbled"]}
       \/ input.header = "torn" /\ output' = [input EXCEPT !.header = "garbled"]
    /\ UNCHANGED crashes

Quantize ==
    /\ tools > 0
    /\ \E q \in QuantTypes :
          IF input.header \in {"whole", "garbled"} /\ input.magic = "sam3"
          THEN Writes(Quantized(input, q))
          ELSE QuantizeRefused
    /\ UNCHANGED <<input, model>>

-----------------------------------------------------------------------------
(* scripts/convert/extract_sam3_trt_runtime.py *)

(* Reading raises an exception at the first byte that is needed and missing; *)
(* seeking over a tensor that is not kept needs none of its bytes.  What     *)
(* remains of a name may still begin with sam_pe. and be kept.               *)
KeptNames == {SidecarHelpers, SidecarHelpers \cup {Mangled}}

Extractable(f, names) ==
    /\ f.header \in {"whole", "garbled"} /\ f.magic = "sam3"
    /\ Len(f.recs) = f.count
    /\ f.torn = "data" => f.recs[Len(f.recs)].name \notin names
    /\ f.torn \notin {"fixed", "name"}

Sidecar(f, names) ==
    LET kept == Selected(f.recs, {i \in 1 .. Len(f.recs) : f.recs[i].name \in names}) IN
    [f EXCEPT !.magic = "s3rt", !.count = Len(kept), !.recs = kept, !.torn = "no"]

Extract_InPlace ==
    /\ tools > 0
    /\ \E names \in KeptNames : Extractable(input, names) /\ Writes(Sidecar(input, names))
    /\ UNCHANGED <<input, model>>

(* Written under another name, and moved over the output in one step.        *)
Extract ==
    /\ tools > 0 /\ tools < MaxTools
    /\ tools' = tools + 1
    /\ \/ /\ \E names \in KeptNames :
                Extractable(input, names) /\ output' = Sidecar(input, names)
          /\ UNCHANGED crashes
       \/ /\ ~Extractable(input, SidecarHelpers) \/ (\E r \in ToSet(input.recs) : r.name = Mangled)
          /\ UNCHANGED <<output, crashes>>
       \/ crashes < MaxCrashes /\ crashes' = crashes + 1 /\ UNCHANGED output
    /\ UNCHANGED <<input, model>>

-----------------------------------------------------------------------------
(* src/model_load.cpp *)

Configs == [expectSidecar : BOOLEAN, trt : BOOLEAN, skipWeights : BOOLEAN]

TrtOnly(f, c) == f.magic = "s3rt" \/ c.skipWeights

(* sam3_register_tensors: the tensors there are, and their types.            *)
Expected(f, c) ==
    {n \in Registered : /\ f.visual => n \notin Detector
                        /\ TrtOnly(f, c) => n \in RuntimeHelpers}

TensorType(n, ftype) ==
    IF n \in WeightTyped /\ (ftype \in QuantTypes => n \in Aligned) THEN ftype ELSE "f32"

(* sam3_load_tensors: the conversions there are.                             *)
Convertible(from, to) ==
    \/ from = to
    \/ {from, to} = {"f16", "f32"}
    \/ from \in QuantTypes /\ to = "f32"

HeaderAccepted(f, c) ==
    /\ c.expectSidecar => f.magic = "s3rt"
    /\ f.magic = "s3rt" => c.trt
    /\ f.header = "whole"

(* A registered record stops the load if its type cannot be converted or its *)
(* data cannot be read; any other is passed over without reading it.         *)
Stops(f, expected) ==
    \E i \in 1 .. Len(f.recs) :
       /\ f.recs[i].name \in expected
       /\ \/ i = Len(f.recs) /\ LastRecordTorn(f)
          \/ i <= Whole(f) /\ ~Convertible(f.recs[i].dtype, TensorType(f.recs[i].name, f.ftype))

(* The records, not the names, are counted.                                  *)
Loaded(f, expected) == {i \in 1 .. Whole(f) : f.recs[i].name \in expected}

VocabularyRead_Unchecked(f) == f.header = "whole"

VocabularyRead(f) == f.visual \/ f.vocab = "whole"

Loads_Uncounted(f, c) ==
    /\ HeaderAccepted(f, c)
    /\ ~Stops(f, Expected(f, c))
    /\ VocabularyRead(f)

Loads(f, c) ==
    LET expected == Expected(f, c) IN
    /\ HeaderAccepted(f, c)
    /\ ~Stops(f, expected)
    /\ Cardinality(Loaded(f, expected)) = Cardinality(expected)
    /\ VocabularyRead(f)

(* The bytes tensor n ends up with: those of the last record of its name.    *)
Bytes(f, c, n) ==
    LET of == {i \in Loaded(f, Expected(f, c)) : f.recs[i].name = n} IN
    IF of = {} THEN Garbage ELSE f.recs[CHOOSE i \in of : \A j \in of : j <= i].data

NoModel == [ok |-> FALSE, visual |-> FALSE, bytes |-> <<>>]

sam3_load_model ==
    /\ tools > 0 /\ output = NoFile
    /\ \E c \in Configs :
          model' = IF Loads(input, c)
                   THEN [ok |-> TRUE, visual |-> input.visual,
                         bytes |-> [n \in Expected(input, c) |-> Bytes(input, c, n)]]
                   ELSE NoModel
    /\ UNCHANGED <<input, output, tools, crashes>>

-----------------------------------------------------------------------------
(* The client goes on with what the last program wrote.                      *)
Take ==
    /\ tools > 0
    /\ input' = output /\ output' = NoFile /\ model' = NoModel
    /\ UNCHANGED <<tools, crashes>>

Init == input = NoFile /\ output = NoFile /\ model = NoModel /\ tools = 0 /\ crashes = 0
Next == Convert \/ Quantize \/ Extract \/ sam3_load_model \/ Take
Spec == Init /\ [][Next]_vars

-----------------------------------------------------------------------------
Complete(f) ==
    /\ f.header = "whole" /\ f.torn = "no" /\ Len(f.recs) = f.count
    /\ \A r \in ToSet(f.recs) : r.data # Garbage
    /\ f.vocab = IF f.visual THEN "none" ELSE "whole"

LastOf(f) == IF f.recs = <<>> THEN Garbage ELSE f.recs[Len(f.recs)].name

(* A loaded model holds in every tensor that tensor's own bytes, although    *)
(* sam3_load_tensors only counts records and five programs choose by name.   *)
(* The one way around it: the quantizer pads out a tensor that its input     *)
(* ended in; that goes unnoticed only at the very end of a visual-only file, *)
(* where neither a count nor a vocabulary is missing.                        *)
LoadedHoldsOwnBytes ==
    model.ok => \A n \in DOMAIN model.bytes :
                   model.bytes[n] # n => /\ model.visual /\ n = LastOf(input)
                                         /\ crashes > 0 /\ tools > 1

(* What the converter wrote in full, however it was then quantized (to one   *)
(* type) and extracted from in full, loads in every configuration that       *)
(* admits its kind of file: the name lists of the programs agree.  Not so    *)
(* after an interruption that left a visual-only file without the name of    *)
(* its last tensor: the quantizer makes a record of no tensor from it, the   *)
(* extractor may leave that out and count what is left, and the sidecar then *)
(* lacks a tensor without any sign of it but the loader's refusal.           *)
OneQuantType(f) == \A r \in ToSet(f.recs) : r.dtype \in QuantTypes => r.dtype = f.ftype
CompleteFilesLoad ==
    Complete(input) /\ OneQuantType(input)
    /\ (input.magic = "s3rt" /\ input.visual => crashes = 0) =>
        \A c \in Configs :
           (input.magic = "s3rt" => c.trt) /\ (c.expectSidecar => input.magic = "s3rt")
              => Loads(input, c)

(* A file that misses its end is refused, unless all that is missing is what *)
(* the configuration does not want.                                          *)
IncompleteFilesRefused ==
    ~Complete(input) => \A c \in Configs :
        Loads(input, c) =>
            /\ input.visual
            /\ \A n \in Expected(input, c) : \E i \in 1 .. Whole(input) : input.recs[i].name = n

(* However the extractor was interrupted, and whatever it read, a sidecar    *)
(* has all the records its header promises (the temporary file and           *)
(* os.replace).  Its vocabulary is no better than the checkpoint's.          *)
SidecarHasItsRecords ==
    \A f \in {input, output} :
       f.magic = "s3rt" => f.torn = "no" /\ Len(f.recs) = f.count
=============================================================================
