--------------------------- MODULE WeightFileProofs ---------------------------
(***************************************************************************)
(* What the four programs make of one file, for any tensors, any order of  *)
(* them, any number of programs run and any number of interruptions.       *)
(*                                                                         *)
(* The argument: names stay distinct, and bytes their own, through every   *)
(* program, but for the one record that an interrupted file may end in,    *)
(* and such a file never has a vocabulary again.  So counting records is   *)
(* as good as looking for names.  That what should load does load needs    *)
(* more: which names a file still has, and in which types.                 *)
(***************************************************************************)
EXTENDS WeightFile, TensorNames, LoopProofs

-----------------------------------------------------------------------------
(* The invariant.  It is stated of a file, the interruptions and the programs*)
(* run so far.                                                               *)

(* Every record has a name and bytes of its own, but for the last record of a*)
(* file that was interrupted, and once more rewritten.                       *)
DistinctNames(f) ==
    \A i, j \in 1 .. Len(f.recs) :
       f.recs[i].name = f.recs[j].name => i = j \/ f.recs[i].name = Mangled
OwnBytes(f, cr, tl) ==
    \A i \in 1 .. Len(f.recs) :
       f.recs[i].data # f.recs[i].name =>
          /\ i = Len(f.recs) /\ f.recs[i].data = Garbage /\ f.vocab = "none"
          /\ cr > 0 /\ tl > 1

(* Nothing follows what is missing, and what is missing was interrupted.     *)
EndsOnce(f, cr, tl) ==
    /\ Len(f.recs) <= f.count
    /\ f.torn # "no" => Len(f.recs) > 0 /\ f.vocab = "none" /\ cr > 0 /\ tl > 0
    /\ f.vocab # "none" => Len(f.recs) = f.count
    /\ f.magic = "s3rt" =>
          f.torn = "no" /\ Len(f.recs) = f.count /\ f.header \in {"whole", "garbled"}

Sound(f, cr, tl) ==
    f \in File /\ DistinctNames(f) /\ OwnBytes(f, cr, tl) /\ EndsOnce(f, cr, tl)

(* What a file that was written in full must have: the tensors every         *)
(* checkpoint lists, unless the converter or the extractor leaves them out.  *)
Wanted(f) ==
    {n \in Names : /\ \A c \in Checkpoints : \E i \in 1 .. Len(c) : c[i] = n
                   /\ f.visual => n \notin Stripped
                   /\ f.magic = "s3rt" => n \in SidecarHelpers}
HasWanted(f) == \A n \in Wanted(f) : \E i \in 1 .. Len(f.recs) : f.recs[i].name = n
LostItsName(f, cr) ==
    \/ \E i \in 1 .. Len(f.recs) : f.recs[i].name = Mangled
    \/ f.magic = "s3rt" /\ cr > 0 /\ f.vocab = "none"
InTypes(f) ==
    \A i \in 1 .. Len(f.recs) :
       /\ f.ftype \notin QuantTypes => f.recs[i].dtype \notin QuantTypes
       /\ f.ftype \in QuantTypes =>
             (f.recs[i].name \in (Matrix \cap Aligned) \ NeverQuantized
                => f.recs[i].dtype \in QuantTypes)
Traceable(f, cr) ==
    f.header = "whole" =>
       /\ Len(f.recs) = f.count => HasWanted(f) \/ LostItsName(f, cr)
       /\ InTypes(f)

IInv ==
    /\ tools \in Nat /\ crashes \in Nat
    /\ Sound(input, crashes, tools) /\ Sound(output, crashes, tools)
    /\ Traceable(input, crashes) /\ Traceable(output, crashes)
    /\ LoadedHoldsOwnBytes

-----------------------------------------------------------------------------
(* Files.                                                                    *)

\* What a record of a file is.
LEMMA RecordsOfFile ==
    ASSUME NEW f \in File
    PROVE  /\ f.recs \in Seq(Record) /\ Len(f.recs) \in Nat /\ f.count \in Nat
           /\ \A i \in 1 .. Len(f.recs) : f.recs[i] \in Record
<1>1. f.recs \in Seq(Record) /\ f.count \in Nat BY DEF File
<1>2. Len(f.recs) \in Nat BY <1>1, LenProperties
<1>3. \A i \in 1 .. Len(f.recs) : f.recs[i] \in Record BY <1>1, ElementOfSeq
<1> QED BY <1>1, <1>2, <1>3

\* A file without records is one that nothing can be wrong with.
LEMMA EmptyIsSound ==
    ASSUME NEW f \in File, f.recs = <<>>, f.torn = "no", f.vocab = "none",
           f.magic = "sam3", NEW cr, NEW tl
    PROVE  Sound(f, cr, tl)
<1>1. Len(f.recs) = 0 /\ f.count \in Nat BY EmptySeq DEF File
<1>2. 1 .. Len(f.recs) = {} BY <1>1
<1>3. DistinctNames(f) BY <1>2 DEF DistinctNames
<1>4. OwnBytes(f, cr, tl) BY <1>2 DEF OwnBytes
<1>5. EndsOnce(f, cr, tl) BY <1>1 DEF EndsOnce
<1> QED BY <1>3, <1>4, <1>5 DEF Sound

\* The file of no bytes, and what the quantizer makes of one.
LEMMA NoFileIsSound ==
    ASSUME NEW cr, NEW tl, NEW f \in {NoFile, [NoFile EXCEPT !.header = "garbled"]}
    PROVE  Sound(f, cr, tl) /\ Traceable(f, cr)
<1>1. <<>> \in Seq(Record) BY EmptySeq
<1>2. f \in File
  <2>1. 0 \in Nat /\ "f32" \in FTypes BY DEF FTypes
  <2>2. PICK e : e = <<>> OBVIOUS
  <2>3. [header |-> "none", magic |-> "sam3", ftype |-> "f32", visual |-> FALSE,
         count |-> 0, recs |-> e, torn |-> "no", vocab |-> "none"] \in File
    BY <1>1, <2>1, <2>2 DEF File
  <2>4. NoFile \in File BY <2>2, <2>3 DEF NoFile
  <2>5. [NoFile EXCEPT !.header = "garbled"] \in File BY <2>4 DEF File
  <2> QED BY <2>4, <2>5
<1>3. f.recs = <<>> /\ f.torn = "no" /\ f.vocab = "none" /\ f.magic = "sam3"
      /\ f.header # "whole"
  BY DEF NoFile
<1> QED BY <1>2, <1>3, EmptyIsSound DEF Traceable

\* Time excuses more, never less.
LEMMA SoundLater ==
    ASSUME NEW f, NEW cr \in Nat, NEW tl \in Nat, Sound(f, cr, tl), Traceable(f, cr),
           NEW cr2 \in Nat, NEW tl2 \in Nat, cr <= cr2, tl <= tl2
    PROVE  Sound(f, cr2, tl2) /\ Traceable(f, cr2)
<1>1. EndsOnce(f, cr2, tl2) BY DEF Sound, EndsOnce
<1>2. OwnBytes(f, cr2, tl2) BY DEF Sound, OwnBytes
<1>3. LostItsName(f, cr) => LostItsName(f, cr2) BY DEF LostItsName
<1> QED BY <1>1, <1>2, <1>3 DEF Sound, Traceable

\* A file that a writer did not get to the end of.
LEMMA CutIsSound ==
    ASSUME NEW f, NEW cr \in Nat, NEW tl \in Nat, tl > 0,
           Sound(f, cr, tl), Traceable(f, cr), f.torn = "no", f.magic = "sam3",
           NEW g \in Cuts(f)
    PROVE  Sound(g, cr + 1, tl) /\ Traceable(g, cr + 1)
<1>0. /\ f \in File /\ f.recs \in Seq(Record) /\ Len(f.recs) \in Nat /\ f.count \in Nat
      /\ \A i \in 1 .. Len(f.recs) : f.recs[i] \in Record
      /\ Len(f.recs) <= f.count
  BY RecordsOfFile DEF Sound, EndsOnce
<1>1. CASE g = NoFile BY <1>1, NoFileIsSound
<1>2. CASE g = CutInHeader(f)
  <2>1. <<>> \in Seq(Record) BY EmptySeq
  <2>2. g \in File BY <1>0, <1>2, <2>1 DEF File, CutInHeader
  <2>3. g.recs = <<>> /\ g.torn = "no" /\ g.vocab = "none" /\ g.magic = "sam3"
        /\ g.header # "whole"
    BY <1>0, <1>2 DEF File, CutInHeader
  <2> QED BY <2>2, <2>3, EmptyIsSound DEF Traceable
<1>3. CASE g = [f EXCEPT !.recs = <<>>, !.vocab = "none"]
  <2>1. <<>> \in Seq(Record) /\ Len(<<>>) = 0 BY EmptySeq
  <2>2. g \in File BY <1>0, <1>3, <2>1 DEF File
  <2>3. /\ g.recs = <<>> /\ g.torn = "no" /\ g.vocab = "none" /\ g.magic = "sam3"
        /\ g.header = f.header /\ g.visual = f.visual /\ g.count = f.count
    BY <1>0, <1>3 DEF File
  <2>4. 1 .. Len(g.recs) = {} BY <2>1, <2>3
  <2>5. InTypes(g) BY <2>4 DEF InTypes
  <2>6. ASSUME g.header = "whole", Len(g.recs) = g.count
        PROVE  HasWanted(g) \/ LostItsName(g, cr + 1)
    <3>1. f.count = 0 /\ Len(f.recs) = 0 /\ 1 .. Len(f.recs) = {}
      BY <1>0, <2>1, <2>3, <2>6
    <3>2. HasWanted(f) BY <2>3, <2>6, <3>1 DEF Sound, Traceable, LostItsName
    <3>3. Wanted(f) = {} BY <3>1, <3>2 DEF HasWanted
    <3>4. Wanted(g) = Wanted(f) BY <2>3 DEF Wanted
    <3> QED BY <3>3, <3>4 DEF HasWanted
  <2> QED BY <2>2, <2>3, <2>5, <2>6, EmptyIsSound DEF Traceable
<1>4. CASE \E k \in 1 .. Len(f.recs), t \in {"no", "fixed", "name", "data"} :
              g = CutAt(f, k, t)
  <2>1. PICK k \in 1 .. Len(f.recs), t \in {"no", "fixed", "name", "data"} :
              g = CutAt(f, k, t)
    BY <1>4
  <2> DEFINE recs == SubSeq(f.recs, 1, k)
  <2>2. /\ recs \in Seq(Record) /\ Len(recs) = k
        /\ \A i \in 1 .. k : recs[i] = f.recs[i]
    BY <1>0, SubSeqProperties
  <2>3. k \in Nat /\ 1 .. k \subseteq 1 .. Len(f.recs) BY <1>0
  <2> HIDE DEF recs
  <2>4. g \in File BY <1>0, <2>1, <2>2 DEF File, CutAt, recs
  <2>5. /\ g.recs = recs /\ g.torn = t /\ g.vocab = "none" /\ g.magic = "sam3"
        /\ g.header = f.header /\ g.visual = f.visual /\ g.count = f.count
        /\ g.ftype = f.ftype
    BY <1>0, <2>1 DEF File, CutAt, recs
  <2>6. DistinctNames(g) BY <2>2, <2>3, <2>5 DEF Sound, DistinctNames
  <2>7. OwnBytes(g, cr + 1, tl)
    <3>1. ASSUME NEW i \in 1 .. k, recs[i].data # recs[i].name
          PROVE  i = k /\ recs[i].data = Garbage /\ cr + 1 > 0 /\ tl > 1
      <4>1. i \in 1 .. Len(f.recs) /\ recs[i] = f.recs[i] BY <2>2, <2>3
      <4>2. i = Len(f.recs) /\ f.recs[i].data = Garbage /\ cr > 0 /\ tl > 1
        BY <3>1, <4>1 DEF Sound, OwnBytes
      <4> QED BY <1>0, <2>3, <4>1, <4>2
    <3> QED BY <2>2, <2>5, <3>1 DEF OwnBytes
  <2>8. EndsOnce(g, cr + 1, tl) BY <1>0, <2>2, <2>3, <2>5 DEF EndsOnce
  <2>9. InTypes(f) => InTypes(g) BY <2>2, <2>3, <2>5 DEF InTypes
  <2>10. ASSUME g.header = "whole", Len(g.recs) = g.count
         PROVE  HasWanted(g) \/ LostItsName(g, cr + 1)
    <3>1. k = Len(f.recs) /\ k = f.count BY <1>0, <2>2, <2>5, <2>10
    <3>2. HasWanted(f) \/ LostItsName(f, cr) BY <2>5, <2>10, <3>1 DEF Traceable
    <3>3. Wanted(g) = Wanted(f) BY <2>5 DEF Wanted
    <3>4. HasWanted(f) => HasWanted(g) BY <2>2, <2>5, <3>1, <3>3 DEF HasWanted
    <3>5. LostItsName(f, cr) => LostItsName(g, cr + 1)
      BY <2>2, <2>5, <3>1 DEF LostItsName
    <3> QED BY <3>2, <3>4, <3>5
  <2> QED BY <2>4, <2>5, <2>6, <2>7, <2>8, <2>9, <2>10 DEF Sound, Traceable
<1>5. CASE f.vocab # "none" /\ g = [f EXCEPT !.vocab = "torn"]
  <2>1. g \in File BY <1>0, <1>5 DEF File
  <2>2. /\ g.recs = f.recs /\ g.torn = f.torn /\ g.vocab = "torn" /\ g.magic = f.magic
        /\ g.header = f.header /\ g.visual = f.visual /\ g.count = f.count
        /\ g.ftype = f.ftype
    BY <1>0, <1>5 DEF File
  <2>3. DistinctNames(g) BY <2>2 DEF Sound, DistinctNames
  <2>4. OwnBytes(g, cr + 1, tl) BY <1>5, <2>2 DEF Sound, OwnBytes
  <2>5. EndsOnce(g, cr + 1, tl) BY <1>5, <2>2 DEF Sound, EndsOnce
  <2>6. InTypes(f) => InTypes(g) BY <2>2 DEF InTypes
  <2>7. Wanted(g) = Wanted(f) BY <2>2 DEF Wanted
  <2>8. HasWanted(f) => HasWanted(g) BY <2>2, <2>7 DEF HasWanted
  <2>9. LostItsName(f, cr) => LostItsName(g, cr + 1) BY <2>2 DEF LostItsName
  <2> QED BY <2>1, <2>2, <2>3, <2>4, <2>5, <2>6, <2>8, <2>9 DEF Sound, Traceable
<1> DEFINE Before == [f EXCEPT !.recs = <<>>, !.vocab = "none"]
           InVocabulary == [f EXCEPT !.vocab = "torn"]
           InVocabularies == IF f.vocab = "none" THEN {} ELSE {InVocabulary}
           Afters == {CutAt(f, k, t) : k \in 1 .. Len(f.recs),
                                       t \in {"no", "fixed", "name", "data"}}
<1>6. \/ g = NoFile \/ g = CutInHeader(f) \/ g = Before
      \/ g \in Afters \/ g \in InVocabularies
  BY DEF Cuts
<1>7. g \in Afters =>
         \E k \in 1 .. Len(f.recs), t \in {"no", "fixed", "name", "data"} : g = CutAt(f, k, t)
  OBVIOUS
<1>8. g \in InVocabularies => f.vocab # "none" /\ g = InVocabulary
  <2> HIDE DEF InVocabulary
  <2> QED OBVIOUS
<1>9. CASE g \in Afters BY <1>4, <1>7, <1>9
<1>10. CASE g \in InVocabularies
  <2>1. f.vocab # "none" /\ g = InVocabulary BY <1>8, <1>10
  <2> QED BY <1>5, <2>1
<1> QED BY <1>1, <1>2, <1>3, <1>6, <1>9, <1>10

\* What the converter writes is sound and has all that is wanted of it.
LEMMA ConvertedIsSound ==
    ASSUME NEW c \in Checkpoints, NEW ftype \in {"f32", "f16"}, NEW visual \in BOOLEAN,
           NEW cr, NEW tl
    PROVE  /\ Sound(Converted(c, ftype, visual), cr, tl)
           /\ Traceable(Converted(c, ftype, visual), cr)
           /\ Converted(c, ftype, visual).torn = "no"
           /\ Converted(c, ftype, visual).magic = "sam3"
<1> DEFINE positions == {i \in 1 .. Len(c) : ~(visual /\ c[i] \in Stripped)}
           kept == Kept(c, visual)
           record(n) == [name |-> n, dtype |-> ConvertedType(n, ftype), data |-> n]
           recs == [i \in 1 .. Len(kept) |-> record(kept[i])]
           f == Converted(c, ftype, visual)
<1>1. c \in Seq(Names) /\ Len(c) \in Nat
      /\ \A i, j \in 1 .. Len(c) : c[i] = c[j] => i = j
  <2>1. c \in Seq(Names) /\ IsInjective(c) BY NamesAssumption
  <2>2. DOMAIN c = 1 .. Len(c) /\ Len(c) \in Nat BY <2>1, LenProperties
  <2> QED BY <2>1, <2>2 DEF IsInjective
<1>2. PICK e : Selects(kept, e, c, Len(c), positions, Names)
  <2>1. kept = Selected(c, positions) BY DEF Kept
  <2> HIDE DEF positions, kept
  <2> QED BY <1>1, <2>1, SelectedSelects
<1> HIDE DEF kept
<1>3. /\ kept \in Seq(Names) /\ Len(kept) \in Nat
      /\ e \in [1 .. Len(kept) -> 1 .. Len(c)]
      /\ \A k \in 1 .. Len(kept) : e[k] \in positions /\ kept[k] = c[e[k]]
      /\ \A k, l \in 1 .. Len(kept) : k < l => e[k] < e[l]
      /\ \A i \in 1 .. Len(c) : i \in positions => \E k \in 1 .. Len(kept) : e[k] = i
  BY <1>2, LenProperties DEF Selects
<1>4. \A k \in 1 .. Len(kept) : kept[k] \in Names BY <1>3, ElementOfSeq
<1>5. \A n \in Names : record(n) \in Record
  BY DEF Record, ConvertedType, FTypes
<1>6. recs \in Seq(Record) /\ Len(recs) = Len(kept)
  <2>1. recs \in [1 .. Len(kept) -> Record] BY <1>4, <1>5
  <2> HIDE DEF recs
  <2> QED BY <1>3, <2>1, VectorIsSequence
<1>7. \A i \in 1 .. Len(kept) :
         /\ recs[i].name = kept[i] /\ recs[i].data = kept[i]
         /\ recs[i].dtype \in {"f32", "f16"}
  BY DEF ConvertedType
<1> HIDE DEF recs
<1>8. /\ f \in File
      /\ f.recs = recs /\ f.count = Len(kept) /\ f.ftype = ftype /\ f.visual = visual
      /\ f.torn = "no" /\ f.magic = "sam3" /\ f.header = "whole"
  <2>1. NoFile \in File BY NoFileIsSound DEF Sound
  <2>2. f = [NoFile EXCEPT !.header = "whole", !.ftype = ftype, !.visual = visual,
               !.count = Len(kept), !.recs = recs,
               !.vocab = IF visual THEN "none" ELSE "whole"]
    BY DEF Converted, recs, kept
  <2>3. ftype \in FTypes BY DEF FTypes
  <2>4. f \in File BY <1>3, <1>6, <2>1, <2>2, <2>3 DEF File
  <2>5. f.torn = NoFile.torn /\ f.magic = NoFile.magic BY <2>1, <2>2 DEF File
  <2>6. /\ f.recs = recs /\ f.count = Len(kept) /\ f.ftype = ftype /\ f.visual = visual
        /\ f.header = "whole"
    BY <2>1, <2>2 DEF File
  <2> QED BY <2>4, <2>5, <2>6 DEF NoFile
<1> HIDE DEF f
<1>9. DistinctNames(f)
  <2> SUFFICES ASSUME NEW k \in 1 .. Len(kept), NEW l \in 1 .. Len(kept),
                      kept[k] = kept[l]
               PROVE  k = l
    BY <1>6, <1>7, <1>8 DEF DistinctNames
  <2>1. e[k] \in 1 .. Len(c) /\ e[l] \in 1 .. Len(c) /\ c[e[k]] = c[e[l]] BY <1>3
  <2>2. e[k] = e[l] BY <1>1, <2>1
  <2>3. ~(k < l) /\ ~(l < k) BY <1>3, <2>1, <2>2
  <2> QED BY <1>3, <2>3
<1>10. OwnBytes(f, cr, tl) BY <1>6, <1>7, <1>8 DEF OwnBytes
<1>11. EndsOnce(f, cr, tl) BY <1>3, <1>6, <1>8 DEF EndsOnce
<1>12. HasWanted(f)
  <2> SUFFICES ASSUME NEW n \in Wanted(f)
               PROVE  \E k \in 1 .. Len(kept) : recs[k].name = n
    BY <1>6, <1>8 DEF HasWanted
  <2>1. PICK i \in 1 .. Len(c) : c[i] = n BY DEF Wanted
  <2>2. i \in positions BY <1>8, <2>1 DEF Wanted
  <2>3. PICK k \in 1 .. Len(kept) : e[k] = i BY <1>3, <2>2
  <2>4. recs[k].name = n BY <1>3, <1>7, <2>1, <2>3
  <2> QED BY <2>4
<1>13. InTypes(f)
  BY <1>6, <1>7, <1>8 DEF InTypes, QuantTypes
<1> QED BY <1>8, <1>9, <1>10, <1>11, <1>12, <1>13 DEF f, Sound, Traceable

\* What the quantizer reads from a file: the records there are, but for the
\* last, if the file ends in it.
LEMMA PatchedRecords ==
    ASSUME NEW f \in File, f.torn # "no" => Len(f.recs) > 0
    PROVE  /\ Patched(f) \in Seq(Record)
           /\ Len(Patched(f)) \in Nat /\ Len(Patched(f)) <= Len(f.recs)
           /\ f.torn = "no" => Patched(f) = f.recs
           /\ \A i \in 1 .. Len(Patched(f)) :
                 \/ Patched(f)[i] = f.recs[i]
                 \/ /\ i = Len(f.recs) /\ f.torn # "no"
                    /\ Patched(f)[i].data = Garbage
                    /\ Patched(f)[i].name \in {f.recs[i].name, Mangled}
<1> DEFINE n == Len(f.recs)
           whole == SubSeq(f.recs, 1, Whole(f))
           last == f.recs[n]
<1>1. /\ f.recs \in Seq(Record) /\ n \in Nat
      /\ \A i \in 1 .. n : f.recs[i] \in Record
  BY RecordsOfFile
<1>2. Whole(f) \in 0 .. n /\ (f.torn = "no" => Whole(f) = n)
      /\ (f.torn # "no" => Whole(f) = n - 1 /\ n > 0)
  BY <1>1 DEF Whole
<1>3. /\ whole \in Seq(Record) /\ Len(whole) = Whole(f)
      /\ \A i \in 1 .. Whole(f) : whole[i] = f.recs[i]
  BY <1>1, <1>2, SubSeqProperties
<1>4. f.torn = "no" => whole = f.recs
  <2>1. SubSeq(f.recs, 1, n) = f.recs BY <1>1, SubSeqFull
  <2> QED BY <1>2, <2>1
<1>5. f.torn \in {"no", "fixed", "name", "data"} BY DEF File
<1>6. CASE f.torn \in {"no", "fixed"}
  <2>1. Patched(f) = whole BY <1>6 DEF Patched
  <2> HIDE DEF whole
  <2>2. Len(whole) \in Nat /\ Len(whole) <= n BY <1>1, <1>2, <1>3
  <2> QED BY <1>3, <1>4, <2>1, <2>2
<1>7. ASSUME NEW r \in Record, Patched(f) = Append(whole, r), f.torn # "no",
             r.data = Garbage, r.name \in {last.name, Mangled}
      PROVE  /\ Patched(f) \in Seq(Record)
             /\ Len(Patched(f)) \in Nat /\ Len(Patched(f)) <= Len(f.recs)
             /\ \A i \in 1 .. Len(Patched(f)) :
                   \/ Patched(f)[i] = f.recs[i]
                   \/ /\ i = Len(f.recs)
                      /\ Patched(f)[i].data = Garbage
                      /\ Patched(f)[i].name \in {f.recs[i].name, Mangled}
  <2> HIDE DEF whole
  <2>1. /\ Append(whole, r) \in Seq(Record) /\ Len(Append(whole, r)) = Len(whole) + 1
        /\ Append(whole, r)[Len(whole) + 1] = r
        /\ \A i \in 1 .. Len(whole) : Append(whole, r)[i] = whole[i]
    BY <1>3, AppendProperties
  <2>2. Len(whole) + 1 = n /\ Len(whole) \in Nat BY <1>1, <1>2, <1>3, <1>7
  <2>3. \A i \in 1 .. n : i = n \/ i \in 1 .. Len(whole) BY <2>2
  <2>4. Len(Patched(f)) = n BY <1>7, <2>1, <2>2
  <2>5. ASSUME NEW i \in 1 .. n
        PROVE  \/ Patched(f)[i] = f.recs[i]
               \/ i = n /\ Patched(f)[i] = r
    BY <1>3, <1>7, <2>1, <2>2, <2>3
  <2> QED BY <1>1, <1>7, <2>1, <2>4, <2>5
<1>8. CASE f.torn = "name"
  <2>1. last \in Record BY <1>1, <1>2, <1>8
  <2> DEFINE r == [last EXCEPT !.name = Mangled, !.data = Garbage]
  <2>2. r \in Record /\ r.data = Garbage /\ r.name = Mangled BY <2>1 DEF Record
  <2>3. Patched(f) = Append(whole, r) BY <1>8 DEF Patched
  <2> HIDE DEF r, whole, last
  <2>4. r.name \in {last.name, Mangled} BY <2>2
  <2> QED BY <1>7, <1>8, <2>2, <2>3, <2>4
<1>9. CASE f.torn = "data"
  <2>1. last \in Record BY <1>1, <1>2, <1>9
  <2> DEFINE r == [last EXCEPT !.data = Garbage]
  <2>2. r \in Record /\ r.data = Garbage /\ r.name = last.name BY <2>1 DEF Record
  <2>3. Patched(f) = Append(whole, r) BY <1>9 DEF Patched
  <2> HIDE DEF r, whole, last
  <2>4. r.name \in {last.name, Mangled} BY <2>2
  <2> QED BY <1>7, <1>9, <2>2, <2>3, <2>4
<1> QED BY <1>5, <1>6, <1>8, <1>9

\* A file that the quantizer wrote in full: it does not end early any more, and
\* a record whose bytes were not read can only be its last.
LEMMA QuantizedIsSound ==
    ASSUME NEW f, NEW cr \in Nat, NEW tl \in Nat, Sound(f, cr, tl), Traceable(f, cr),
           f.magic = "sam3", NEW q \in QuantTypes
    PROVE  /\ Sound(Quantized(f, q), cr, tl + 1) /\ Traceable(Quantized(f, q), cr)
           /\ Quantized(f, q).torn = "no" /\ Quantized(f, q).magic = "sam3"
<1> DEFINE read == Patched(f)
           recs == [i \in 1 .. Len(read) |-> Requantized(read[i], q)]
           g == Quantized(f, q)
<1>1. /\ f \in File /\ f.recs \in Seq(Record) /\ Len(f.recs) \in Nat /\ f.count \in Nat
      /\ \A i \in 1 .. Len(f.recs) : f.recs[i] \in Record
      /\ Len(f.recs) <= f.count
      /\ f.torn # "no" => Len(f.recs) > 0 /\ f.vocab = "none" /\ cr > 0 /\ tl > 0
      /\ f.vocab # "none" => Len(f.recs) = f.count
  BY RecordsOfFile DEF Sound, EndsOnce
<1>2. /\ read \in Seq(Record)
      /\ Len(read) \in Nat /\ Len(read) <= Len(f.recs)
      /\ f.torn = "no" => read = f.recs
      /\ \A i \in 1 .. Len(read) :
            \/ read[i] = f.recs[i]
            \/ /\ i = Len(f.recs) /\ f.torn # "no"
               /\ read[i].data = Garbage
               /\ read[i].name \in {f.recs[i].name, Mangled}
  <2>1. f.torn # "no" => Len(f.recs) > 0 BY <1>1
  <2> QED BY <1>1, <2>1, PatchedRecords
<1> HIDE DEF read
<1>3. q \in FTypes BY DEF FTypes
<1>4. \A r \in Record :
         /\ Requantized(r, q) \in Record
         /\ Requantized(r, q).name = r.name /\ Requantized(r, q).data = r.data
         /\ r.name \in (Matrix \cap Aligned) \ NeverQuantized
               => Requantized(r, q).dtype \in QuantTypes
  <2> SUFFICES ASSUME NEW r \in Record
               PROVE  /\ Requantized(r, q) \in Record
                      /\ Requantized(r, q).name = r.name /\ Requantized(r, q).data = r.data
                      /\ r.name \in (Matrix \cap Aligned) \ NeverQuantized
                            => Requantized(r, q).dtype \in QuantTypes
    OBVIOUS
  <2>1. [r EXCEPT !.dtype = q] \in Record BY <1>3 DEF Record
  <2>2. LET s == [r EXCEPT !.dtype = q] IN s.name = r.name /\ s.data = r.data /\ s.dtype = q
    BY DEF Record
  <2>3. CASE Quantizes(r) BY <2>1, <2>2, <2>3 DEF Requantized
  <2>4. CASE ~Quantizes(r) BY <2>4 DEF Requantized, Quantizes
  <2> QED BY <2>3, <2>4
<1>5. \A i \in 1 .. Len(read) : read[i] \in Record BY <1>2, ElementOfSeq
<1>6. recs \in Seq(Record) /\ Len(recs) = Len(read)
  <2>1. recs \in [1 .. Len(read) -> Record] BY <1>4, <1>5
  <2> HIDE DEF recs
  <2> QED BY <1>2, <2>1, VectorIsSequence
<1>7. \A i \in 1 .. Len(read) :
         /\ recs[i].name = read[i].name /\ recs[i].data = read[i].data
         /\ read[i].name \in (Matrix \cap Aligned) \ NeverQuantized
               => recs[i].dtype \in QuantTypes
  BY <1>4, <1>5
<1>8. g = [f EXCEPT !.ftype = q, !.torn = "no", !.recs = recs] BY DEF Quantized, read
<1> HIDE DEF recs, g
<1>9. /\ g \in File /\ g.recs = recs /\ g.ftype = q /\ g.torn = "no" /\ g.magic = "sam3"
      /\ g.header = f.header /\ g.visual = f.visual /\ g.count = f.count /\ g.vocab = f.vocab
  BY <1>1, <1>3, <1>6, <1>8 DEF File
<1>10. 1 .. Len(read) \subseteq 1 .. Len(f.recs) BY <1>1, <1>2
<1>11. DistinctNames(g)
  <2> SUFFICES ASSUME NEW i \in 1 .. Len(read), NEW j \in 1 .. Len(read),
                      read[i].name = read[j].name, read[i].name # Mangled
               PROVE  i = j
    BY <1>6, <1>7, <1>9 DEF DistinctNames
  <2>1. i \in 1 .. Len(f.recs) /\ j \in 1 .. Len(f.recs) BY <1>10
  <2>2. read[i].name = f.recs[i].name BY <1>2
  <2>3. read[j].name = f.recs[j].name BY <1>2
  <2> QED BY <2>1, <2>2, <2>3 DEF Sound, DistinctNames
<1>12. OwnBytes(g, cr, tl + 1)
  <2> SUFFICES ASSUME NEW i \in 1 .. Len(read), read[i].data # read[i].name
               PROVE  /\ i = Len(read) /\ read[i].data = Garbage /\ f.vocab = "none"
                      /\ cr > 0 /\ tl + 1 > 1
    BY <1>6, <1>7, <1>9 DEF OwnBytes
  <2>1. CASE read[i] = f.recs[i]
    <3>1. i \in 1 .. Len(f.recs) BY <1>10
    <3>2. i = Len(f.recs) /\ f.recs[i].data = Garbage /\ f.vocab = "none" /\ cr > 0 /\ tl > 1
      BY <2>1, <3>1 DEF Sound, OwnBytes
    <3>3. i = Len(read) BY <1>1, <1>2, <3>2
    <3> QED BY <2>1, <3>2, <3>3
  <2>2. CASE i = Len(f.recs) /\ f.torn # "no" /\ read[i].data = Garbage
    <3>1. i = Len(read) BY <1>1, <1>2, <2>2
    <3>2. f.vocab = "none" /\ cr > 0 /\ tl + 1 > 1 BY <1>1, <2>2
    <3> QED BY <2>2, <3>1, <3>2
  <2> QED BY <1>2, <2>1, <2>2
<1>13. EndsOnce(g, cr, tl + 1)
  <2>1. Len(recs) <= f.count BY <1>1, <1>2, <1>6
  <2>2. f.vocab # "none" => Len(recs) = f.count BY <1>1, <1>2, <1>6
  <2> QED BY <1>9, <2>1, <2>2 DEF EndsOnce
<1>14. InTypes(g) BY <1>6, <1>7, <1>9 DEF InTypes
<1>15. ASSUME g.header = "whole", Len(recs) = g.count
       PROVE  HasWanted(g) \/ LostItsName(g, cr)
  <2>1. Len(read) = Len(f.recs) /\ Len(f.recs) = f.count BY <1>1, <1>2, <1>6, <1>9, <1>15
  <2>2. \A i \in 1 .. Len(read) : read[i].name = f.recs[i].name \/ read[i].name = Mangled
    BY <1>2
  <2>3. CASE \E i \in 1 .. Len(read) : read[i].name = Mangled
    BY <1>6, <1>7, <1>9, <2>3 DEF LostItsName
  <2>4. CASE \A i \in 1 .. Len(read) : read[i].name # Mangled
    <3>1. \A i \in 1 .. Len(f.recs) : recs[i].name = f.recs[i].name /\ f.recs[i].name # Mangled
      BY <1>7, <2>1, <2>2, <2>4
    <3>2. HasWanted(f)
      BY <1>1, <1>9, <1>15, <2>1, <3>1 DEF Traceable, LostItsName
    <3>3. Wanted(g) = Wanted(f) BY <1>9 DEF Wanted
    <3> QED BY <1>6, <1>9, <2>1, <3>1, <3>2, <3>3 DEF HasWanted
  <2> QED BY <2>3, <2>4
<1>16. Traceable(g, cr) BY <1>9, <1>14, <1>15 DEF Traceable
<1>17. Sound(g, cr, tl + 1) BY <1>9, <1>11, <1>12, <1>13 DEF Sound
<1> QED BY <1>9, <1>16, <1>17 DEF g

\* A sidecar, once the extractor has moved it into place, is a sound file.
LEMMA SidecarIsSound ==
    ASSUME NEW f, NEW cr \in Nat, NEW tl \in Nat, Sound(f, cr, tl), Traceable(f, cr),
           NEW names \in KeptNames, Extractable(f, names)
    PROVE  Sound(Sidecar(f, names), cr, tl + 1) /\ Traceable(Sidecar(f, names), cr)
<1> DEFINE positions == {i \in 1 .. Len(f.recs) : f.recs[i].name \in names}
           kept == Selected(f.recs, positions)
           g == Sidecar(f, names)
<1>1. /\ f \in File /\ f.recs \in Seq(Record) /\ Len(f.recs) \in Nat /\ f.count \in Nat
      /\ \A i \in 1 .. Len(f.recs) : f.recs[i] \in Record
      /\ f.header \in {"whole", "garbled"} /\ f.magic = "sam3"
      /\ Len(f.recs) = f.count
  BY RecordsOfFile DEF Sound, Extractable
<1>2. PICK e : Selects(kept, e, f.recs, Len(f.recs), positions, Record)
  <2> HIDE DEF positions
  <2> QED BY <1>1, SelectedSelects
<1> HIDE DEF kept
<1>3. /\ kept \in Seq(Record) /\ Len(kept) \in Nat
      /\ e \in [1 .. Len(kept) -> 1 .. Len(f.recs)]
      /\ \A k \in 1 .. Len(kept) : e[k] \in positions /\ kept[k] = f.recs[e[k]]
      /\ \A k, l \in 1 .. Len(kept) : k < l => e[k] < e[l]
      /\ \A i \in 1 .. Len(f.recs) : i \in positions => \E k \in 1 .. Len(kept) : e[k] = i
  BY <1>2, LenProperties DEF Selects
<1>4. g = [f EXCEPT !.magic = "s3rt", !.count = Len(kept), !.recs = kept, !.torn = "no"]
  BY DEF Sidecar, kept
<1> HIDE DEF g
<1>5. /\ g \in File /\ g.recs = kept /\ g.count = Len(kept) /\ g.torn = "no"
      /\ g.magic = "s3rt" /\ g.header = f.header /\ g.visual = f.visual
      /\ g.vocab = f.vocab /\ g.ftype = f.ftype
  BY <1>1, <1>3, <1>4 DEF File
<1>6. DistinctNames(g)
  <2> SUFFICES ASSUME NEW k \in 1 .. Len(kept), NEW l \in 1 .. Len(kept),
                      kept[k].name = kept[l].name, kept[k].name # Mangled
               PROVE  k = l
    BY <1>5 DEF DistinctNames
  <2>1. /\ e[k] \in 1 .. Len(f.recs) /\ e[l] \in 1 .. Len(f.recs)
        /\ f.recs[e[k]].name = f.recs[e[l]].name /\ f.recs[e[k]].name # Mangled
    BY <1>3
  <2>2. e[k] = e[l] BY <2>1 DEF Sound, DistinctNames
  <2>3. ~(k < l) /\ ~(l < k) BY <1>3, <2>1, <2>2
  <2> QED BY <1>3, <2>3
<1>7. OwnBytes(g, cr, tl + 1)
  <2> SUFFICES ASSUME NEW k \in 1 .. Len(kept), kept[k].data # kept[k].name
               PROVE  /\ k = Len(kept) /\ kept[k].data = Garbage /\ f.vocab = "none"
                      /\ cr > 0 /\ tl + 1 > 1
    BY <1>5 DEF OwnBytes
  <2>1. e[k] \in 1 .. Len(f.recs) /\ kept[k] = f.recs[e[k]] BY <1>3
  <2>2. /\ e[k] = Len(f.recs) /\ kept[k].data = Garbage /\ f.vocab = "none"
        /\ cr > 0 /\ tl > 1
    BY <2>1 DEF Sound, OwnBytes
  <2>3. k = Len(kept)
    <3>1. Len(kept) \in 1 .. Len(kept) /\ k <= Len(kept) BY <1>3
    <3>2. e[Len(kept)] <= Len(f.recs) /\ e[Len(kept)] \in Nat BY <1>3, <3>1
    <3>3. ~(k < Len(kept)) BY <1>1, <1>3, <2>2, <3>1, <3>2
    <3> QED BY <1>3, <3>1, <3>3
  <2> QED BY <2>2, <2>3
<1>8. EndsOnce(g, cr, tl + 1) BY <1>1, <1>3, <1>5 DEF EndsOnce
<1>9. ASSUME InTypes(f) PROVE InTypes(g)
  <2> SUFFICES ASSUME NEW k \in 1 .. Len(kept)
               PROVE  /\ f.ftype \notin QuantTypes => kept[k].dtype \notin QuantTypes
                      /\ f.ftype \in QuantTypes =>
                            (kept[k].name \in (Matrix \cap Aligned) \ NeverQuantized
                               => kept[k].dtype \in QuantTypes)
    BY <1>5 DEF InTypes
  <2>1. e[k] \in 1 .. Len(f.recs) /\ kept[k] = f.recs[e[k]] BY <1>3
  <2> QED BY <1>9, <2>1 DEF InTypes
<1>10. ASSUME g.header = "whole" PROVE HasWanted(g) \/ LostItsName(g, cr)
  <2>1. HasWanted(f) \/ LostItsName(f, cr) BY <1>1, <1>5, <1>10 DEF Traceable
  <2>2. CASE LostItsName(f, cr)
    <3>1. PICK i \in 1 .. Len(f.recs) : f.recs[i].name = Mangled
      BY <1>1, <2>2 DEF LostItsName
    <3>2. f.recs[i].data # f.recs[i].name
      <4>1. f.recs[i].data \in Names \cup {Garbage} BY <1>1 DEF Record
      <4>2. Mangled \notin Names /\ Mangled # Garbage
        BY NamesAssumption DEF Mangled, Garbage
      <4> QED BY <3>1, <4>1, <4>2
    <3>3. f.vocab = "none" /\ cr > 0 BY <3>2 DEF Sound, OwnBytes
    <3> QED BY <1>5, <3>3 DEF LostItsName
  <2>3. CASE HasWanted(f)
    <3> SUFFICES ASSUME NEW n \in Wanted(g)
                 PROVE  \E k \in 1 .. Len(kept) : kept[k].name = n
      BY <1>5 DEF HasWanted
    <3>1. n \in Wanted(f) /\ n \in SidecarHelpers BY <1>1, <1>5 DEF Wanted
    <3>2. PICK i \in 1 .. Len(f.recs) : f.recs[i].name = n BY <2>3, <3>1 DEF HasWanted
    <3>3. i \in positions BY <3>1, <3>2 DEF KeptNames
    <3>4. PICK k \in 1 .. Len(kept) : e[k] = i BY <1>3, <3>3
    <3>5. kept[k].name = n BY <1>3, <3>2, <3>4
    <3> QED BY <3>5
  <2> QED BY <2>1, <2>2, <2>3
<1>11. Sound(g, cr, tl + 1) BY <1>5, <1>6, <1>7, <1>8 DEF Sound
<1>12. Traceable(g, cr) BY <1>5, <1>9, <1>10 DEF Traceable
<1> QED BY <1>11, <1>12 DEF g

-----------------------------------------------------------------------------
(* Loading.                                                                  *)

LEMMA WholeIsPrefix ==
    ASSUME NEW f \in File, Len(f.recs) > 0 \/ f.torn = "no"
    PROVE  Whole(f) \in Nat /\ 1 .. Whole(f) \subseteq 1 .. Len(f.recs)
<1>1. Len(f.recs) \in Nat BY RecordsOfFile
<1> QED BY <1>1 DEF Whole

LEMMA ExpectedFinite ==
    ASSUME NEW f, NEW c
    PROVE  IsFiniteSet(Expected(f, c)) /\ Expected(f, c) \subseteq Names
<1>1. Expected(f, c) \subseteq Names BY NamesAssumption DEF Expected
<1> QED BY <1>1, FS_Subset, NamesAssumption

\* No two records of a file are those of one registered tensor.
LEMMA LoadedNames ==
    ASSUME NEW f \in File, NEW c, DistinctNames(f), Len(f.recs) > 0 \/ f.torn = "no"
    PROVE  [i \in Loaded(f, Expected(f, c)) |-> f.recs[i].name]
              \in Injection(Loaded(f, Expected(f, c)), Expected(f, c))
<1> DEFINE loaded == Loaded(f, Expected(f, c))
           named == [i \in loaded |-> f.recs[i].name]
<1>1. named \in [loaded -> Expected(f, c)] BY DEF Loaded
<1>2. loaded \subseteq 1 .. Len(f.recs) BY WholeIsPrefix DEF Loaded
<1>3. \A i \in loaded : f.recs[i].name # Mangled
  <2>1. \A i \in loaded : f.recs[i].name \in Expected(f, c) BY DEF Loaded
  <2>2. Mangled \notin Names BY NamesAssumption
  <2> QED BY <2>1, <2>2, ExpectedFinite
<1>4. \A i, j \in loaded : named[i] = named[j] => i = j
  BY <1>2, <1>3 DEF DistinctNames
<1> QED BY <1>1, <1>4 DEF Injection, IsInjective

(* If records have names of their own, as many records as there are          *)
(* registered tensors are those tensors: sam3_load_tensors compares two      *)
(* numbers, and none of the registered tensors is left without its data.     *)
THEOREM CountIsEnough ==
    ASSUME NEW f \in File, NEW c \in Configs, Loads(f, c), DistinctNames(f),
           Len(f.recs) > 0 \/ f.torn = "no"
    PROVE  \A n \in Expected(f, c) : \E i \in 1 .. Whole(f) : f.recs[i].name = n
<1> DEFINE expected == Expected(f, c)
           loaded == Loaded(f, expected)
           named == [i \in loaded |-> f.recs[i].name]
<1>1. IsFiniteSet(expected) BY ExpectedFinite
<1>2. loaded \subseteq 1 .. Whole(f) BY DEF Loaded
<1>3. named \in Injection(loaded, expected) BY LoadedNames
<1>4. Cardinality(loaded) = Cardinality(expected) BY DEF Loads
<1>5. named \in Surjection(loaded, expected) BY <1>1, <1>3, <1>4, FS_Injection
<1>6. ASSUME NEW n \in expected PROVE \E i \in 1 .. Whole(f) : f.recs[i].name = n
  <2>1. PICK i \in loaded : named[i] = n BY <1>5 DEF Surjection
  <2> QED BY <2>1, <1>2
<1> QED BY <1>6

\* The only bytes of a loaded tensor that can be another's.
LEMMA LoadGivesOwnBytes ==
    ASSUME NEW f, NEW cr, NEW tl, Sound(f, cr, tl), NEW c \in Configs, Loads(f, c),
           NEW n \in Expected(f, c), Bytes(f, c, n) # n
    PROVE  f.visual /\ n = LastOf(f) /\ cr > 0 /\ tl > 1
<1>1. f \in File /\ DistinctNames(f) /\ (Len(f.recs) > 0 \/ f.torn = "no")
  BY DEF Sound, EndsOnce
<1>2. PICK i \in 1 .. Whole(f) : f.recs[i].name = n BY <1>1, CountIsEnough
<1> DEFINE of == {j \in Loaded(f, Expected(f, c)) : f.recs[j].name = n}
<1>3. i \in of BY <1>2 DEF Loaded
<1>4. 1 .. Whole(f) \subseteq 1 .. Len(f.recs) BY <1>1, WholeIsPrefix
<1>5. n # Mangled
  <2>1. n \in Names /\ Mangled \notin Names BY ExpectedFinite, NamesAssumption
  <2> QED BY <2>1
<1>6. \A j \in of : j = i BY <1>1, <1>2, <1>4, <1>5 DEF Loaded, DistinctNames
<1>7. of = {i} BY <1>3, <1>6
<1>8. Bytes(f, c, n) = f.recs[CHOOSE j \in {i} : \A k \in {i} : k <= j].data
  BY <1>3, <1>7 DEF Bytes
<1>9. (CHOOSE j \in {i} : \A k \in {i} : k <= j) = i
  <2>1. \E j \in {i} : \A k \in {i} : k <= j OBVIOUS
  <2> QED BY <2>1
<1>10. f.recs[i].data # f.recs[i].name BY <1>2, <1>8, <1>9
<1>11. i = Len(f.recs) /\ f.vocab = "none" /\ cr > 0 /\ tl > 1
  BY <1>2, <1>4, <1>10 DEF Sound, OwnBytes
<1>12. f.visual BY <1>11 DEF Loads, VocabularyRead
<1>13. f.recs # <<>> BY <1>2, <1>4, EmptySeq
<1> QED BY <1>2, <1>11, <1>12, <1>13 DEF LastOf

\* A file that loads is complete, or visual-only.
LEMMA LoadedIsComplete ==
    ASSUME NEW f, NEW cr, NEW tl, Sound(f, cr, tl), NEW c \in Configs, Loads(f, c),
           ~f.visual
    PROVE  Complete(f)
<1>1. f \in File /\ f.recs \in Seq(Record) /\ Len(f.recs) \in Nat
      /\ \A i \in 1 .. Len(f.recs) : f.recs[i] \in Record
  BY RecordsOfFile DEF Sound
<1>2. f.vocab = "whole" /\ f.header = "whole"
  BY DEF Loads, VocabularyRead, HeaderAccepted
<1>3. f.torn = "no" /\ Len(f.recs) = f.count BY <1>2 DEF Sound, EndsOnce
<1>4. ASSUME NEW r \in ToSet(f.recs) PROVE r.data # Garbage
  <2>1. PICK i \in 1 .. Len(f.recs) : r = f.recs[i]
    <3>1. DOMAIN f.recs = 1 .. Len(f.recs) BY <1>1, LenProperties
    <3> QED BY <3>1 DEF ToSet
  <2>2. r.data = r.name BY <1>2, <2>1 DEF Sound, OwnBytes
  <2>3. r.name \in Names \cup {Mangled} BY <1>1, <2>1 DEF Record
  <2>4. Garbage \notin Names /\ Garbage # Mangled BY NamesAssumption DEF Garbage, Mangled
  <2> QED BY <2>2, <2>3, <2>4
<1> QED BY <1>2, <1>3, <1>4 DEF Complete

(* The name lists of the four programs agree, which the library relies on and*)
(* nothing checks: every checkpoint has what the loader registers; what the  *)
(* converter strips is not registered for a visual-only model; what the      *)
(* loader registers beside TensorRT the extractor keeps; and what is         *)
(* registered in a quantized type the quantizer does quantize.               *)
NamesAgree ==
    /\ \A c \in Checkpoints : \A n \in Registered : \E i \in 1 .. Len(c) : c[i] = n
    /\ Stripped \cap Registered \subseteq Detector
    /\ RuntimeHelpers \cap Registered \subseteq SidecarHelpers
    /\ Registered \cap WeightTyped \cap Aligned \subseteq Matrix \ NeverQuantized

\* The two floating types convert into each other.
LEMMA FloatsConvert ==
    \A from, to \in {"f16", "f32"} : Convertible(from, to)
BY DEF Convertible

\* Where the lists agree, nothing that is complete is refused.
LEMMA CompleteLoads ==
    ASSUME NamesAgree, NEW f, NEW cr, NEW tl, Sound(f, cr, tl), Traceable(f, cr),
           Complete(f), OneQuantType(f), f.magic = "s3rt" /\ f.visual => cr = 0,
           NEW c \in Configs, f.magic = "s3rt" => c.trt,
           c.expectSidecar => f.magic = "s3rt"
    PROVE  Loads(f, c)
<1> DEFINE expected == Expected(f, c)
           loaded == Loaded(f, expected)
           named == [i \in loaded |-> f.recs[i].name]
<1>1. /\ f \in File /\ f.recs \in Seq(Record) /\ Len(f.recs) \in Nat
      /\ DOMAIN f.recs = 1 .. Len(f.recs)
      /\ \A i \in 1 .. Len(f.recs) : f.recs[i] \in Record
  BY RecordsOfFile, LenProperties DEF Sound
<1>2. f.header = "whole" /\ f.torn = "no" /\ Len(f.recs) = f.count
      /\ f.vocab = IF f.visual THEN "none" ELSE "whole"
  BY DEF Complete
<1>3. \A i \in 1 .. Len(f.recs) : f.recs[i] \in ToSet(f.recs) BY <1>1 DEF ToSet
<1>4. \A i \in 1 .. Len(f.recs) : f.recs[i].name # Mangled
  <2> SUFFICES ASSUME NEW i \in 1 .. Len(f.recs), f.recs[i].name = Mangled PROVE FALSE
    OBVIOUS
  <2>1. f.recs[i].data # Garbage BY <1>3 DEF Complete
  <2>2. f.recs[i].data \in Names \cup {Garbage} BY <1>1 DEF Record
  <2>3. Mangled \notin Names BY NamesAssumption
  <2>4. f.recs[i].data # f.recs[i].name BY <2>1, <2>2, <2>3
  <2> QED BY <2>1, <2>4 DEF Sound, OwnBytes
<1>5. HasWanted(f)
  <2>1. HasWanted(f) \/ LostItsName(f, cr) BY <1>2 DEF Traceable
  <2>2. ~LostItsName(f, cr)
    <3>1. ~(f.magic = "s3rt" /\ cr > 0 /\ f.vocab = "none") BY <1>2
    <3> QED BY <1>4, <3>1 DEF LostItsName
  <2> QED BY <2>1, <2>2
<1>6. expected \subseteq Wanted(f)
  <2> SUFFICES ASSUME NEW n \in expected PROVE n \in Wanted(f) OBVIOUS
  <2>1. n \in Registered /\ n \in Names BY NamesAssumption DEF Expected
  <2>2. \A d \in Checkpoints : \E i \in 1 .. Len(d) : d[i] = n BY <2>1 DEF NamesAgree
  <2>3. f.visual => n \notin Stripped BY <2>1 DEF Expected, NamesAgree
  <2>4. f.magic = "s3rt" => n \in SidecarHelpers
    BY <2>1 DEF Expected, TrtOnly, NamesAgree
  <2> QED BY <2>1, <2>2, <2>3, <2>4 DEF Wanted
<1>7. Whole(f) = Len(f.recs) BY <1>2 DEF Whole
<1>8. named \in Bijection(loaded, expected)
  <2>1. named \in Injection(loaded, expected) BY <1>1, <1>2, LoadedNames DEF Sound
  <2>2. ASSUME NEW n \in expected PROVE \E i \in loaded : named[i] = n
    <3>1. PICK i \in 1 .. Len(f.recs) : f.recs[i].name = n BY <1>5, <1>6 DEF HasWanted
    <3>2. i \in loaded BY <1>7, <3>1 DEF Loaded
    <3> QED BY <3>1, <3>2
  <2>3. named \in [loaded -> expected] BY <2>1 DEF Injection
  <2>4. named \in Surjection(loaded, expected) BY <2>2, <2>3 DEF Surjection
  <2> HIDE DEF named, loaded, expected
  <2> QED BY <2>1, <2>4 DEF Bijection
<1>9. Cardinality(loaded) = Cardinality(expected)
  <2>1. IsFiniteSet(expected) BY ExpectedFinite
  <2>2. IsFiniteSet(loaded)
    <3>1. loaded \in SUBSET (1 .. Len(f.recs)) BY <1>7 DEF Loaded
    <3>2. IsFiniteSet(1 .. Len(f.recs)) BY <1>1, FS_Interval
    <3> HIDE DEF loaded
    <3> QED BY <3>1, <3>2, FS_Subset
  <2> HIDE DEF named, loaded, expected
  <2>3. ExistsBijection(loaded, expected) BY <1>8 DEF ExistsBijection
  <2> QED BY <2>2, <2>3, FS_Bijection
<1>10. ASSUME NEW i \in 1 .. Len(f.recs), f.recs[i].name \in expected
       PROVE  Convertible(f.recs[i].dtype, TensorType(f.recs[i].name, f.ftype))
  <2> DEFINE r == f.recs[i]
             to == TensorType(r.name, f.ftype)
  <2>1. r.dtype \in FTypes /\ f.ftype \in FTypes BY <1>1 DEF File, Record
  <2>2. /\ f.ftype \notin QuantTypes => r.dtype \notin QuantTypes
        /\ f.ftype \in QuantTypes =>
              (r.name \in (Matrix \cap Aligned) \ NeverQuantized => r.dtype \in QuantTypes)
    BY <1>2 DEF Traceable, InTypes
  <2>3. r.dtype \in QuantTypes => r.dtype = f.ftype BY <1>3 DEF OneQuantType
  <2>4. CASE to = "f32"
    <3>1. r.dtype = "f32" \/ r.dtype = "f16" \/ r.dtype \in QuantTypes BY <2>1 DEF FTypes
    <3> QED BY <2>4, <3>1, FloatsConvert DEF Convertible
  <2>5. CASE to # "f32"
    <3>1. r.name \in WeightTyped /\ (f.ftype \in QuantTypes => r.name \in Aligned)
          /\ to = f.ftype
      BY <2>5 DEF TensorType
    <3>2. CASE f.ftype \in QuantTypes
      <4>1. r.name \in Registered BY <1>10 DEF Expected
      <4>2. r.name \in (Matrix \cap Aligned) \ NeverQuantized
        BY <3>1, <3>2, <4>1 DEF NamesAgree
      <4>3. r.dtype = to BY <2>2, <2>3, <3>1, <3>2, <4>2
      <4> QED BY <4>3 DEF Convertible
    <3>3. CASE f.ftype \notin QuantTypes
      <4>1. to = "f16" BY <2>1, <2>5, <3>1, <3>3 DEF FTypes
      <4>2. r.dtype = "f32" \/ r.dtype = "f16" BY <2>1, <2>2, <3>3 DEF FTypes
      <4> QED BY <4>1, <4>2, FloatsConvert
    <3> QED BY <3>2, <3>3
  <2> QED BY <2>4, <2>5
<1>11. ~Stops(f, expected) BY <1>2, <1>7, <1>10 DEF Stops, LastRecordTorn
<1>12. HeaderAccepted(f, c) BY <1>2 DEF HeaderAccepted
<1>13. VocabularyRead(f) BY <1>2 DEF VocabularyRead
<1> QED BY <1>9, <1>11, <1>12, <1>13 DEF Loads

-----------------------------------------------------------------------------
(* Every step keeps the invariant.                                           *)

LEMMA InitInv == Init => IInv
<1> SUFFICES ASSUME Init PROVE IInv OBVIOUS
<1>1. input \in {NoFile, [NoFile EXCEPT !.header = "garbled"]} /\ output = input
      /\ tools = 0 /\ crashes = 0
  BY DEF Init
<1>2. Sound(input, crashes, tools) /\ Traceable(input, crashes) BY <1>1, NoFileIsSound
<1>3. LoadedHoldsOwnBytes BY DEF Init, NoModel, LoadedHoldsOwnBytes
<1> QED BY <1>1, <1>2, <1>3 DEF IInv

\* A program that leaves the input and the model alone has only to write
\* something sound.
LEMMA WriteKeepsInv ==
    ASSUME IInv, UNCHANGED <<input, model>>,
           tools' \in Nat, crashes' \in Nat, tools <= tools', crashes <= crashes',
           Sound(output', crashes', tools'), Traceable(output', crashes')
    PROVE  IInv'
<1>1. Sound(input, crashes', tools') /\ Traceable(input, crashes') BY SoundLater DEF IInv
<1>2. LoadedHoldsOwnBytes'
  <2>1. tools \in Nat /\ crashes \in Nat /\ LoadedHoldsOwnBytes BY DEF IInv
  <2>2. (crashes > 0 => crashes' > 0) /\ (tools > 1 => tools' > 1) BY <2>1
  <2> QED BY <2>1, <2>2 DEF LoadedHoldsOwnBytes
<1> QED BY <1>1, <1>2 DEF IInv

\* Getting to the end of a sound file, or not.
LEMMA WritesKeepInv ==
    ASSUME IInv, UNCHANGED <<input, model>>, NEW f, Writes(f),
           Sound(f, crashes, tools + 1), Traceable(f, crashes),
           f.torn = "no", f.magic = "sam3"
    PROVE  IInv'
<1>1. tools \in Nat /\ crashes \in Nat /\ tools' = tools + 1 BY DEF IInv, Writes
<1>2. CASE output' = f /\ UNCHANGED crashes
  <2>1. crashes' = crashes /\ tools' \in Nat /\ tools <= tools' /\ crashes <= crashes'
    BY <1>1, <1>2
  <2> QED BY <1>1, <1>2, <2>1, WriteKeepsInv
<1>3. CASE crashes' = crashes + 1 /\ output' \in Cuts(f)
  <2>1. tools + 1 \in Nat /\ tools + 1 > 0 BY <1>1
  <2>2. Sound(output', crashes + 1, tools + 1) /\ Traceable(output', crashes + 1)
    BY <1>1, <1>3, <2>1, CutIsSound
  <2>3. crashes' \in Nat /\ tools' \in Nat /\ tools <= tools' /\ crashes <= crashes'
    BY <1>1, <1>3
  <2> QED BY <1>1, <1>3, <2>2, <2>3, WriteKeepsInv
<1> QED BY <1>2, <1>3 DEF Writes

\* What the quantizer leaves of an input that it does not accept.
LEMMA RefusedKeepsInv ==
    ASSUME IInv, UNCHANGED <<input, model>>, QuantizeRefused
    PROVE  IInv'
<1>1. tools \in Nat /\ crashes \in Nat /\ tools' = tools + 1 /\ crashes' = crashes
  BY DEF IInv, QuantizeRefused
<1>2. tools' \in Nat /\ crashes' \in Nat /\ tools <= tools' /\ crashes <= crashes' BY <1>1
<1>3. CASE output' \in {NoFile, [NoFile EXCEPT !.header = "garbled"]}
  BY <1>2, <1>3, NoFileIsSound, WriteKeepsInv
<1>4. CASE input.header = "torn" /\ output' = [input EXCEPT !.header = "garbled"]
  <2> DEFINE g == [input EXCEPT !.header = "garbled"]
  <2>1. Sound(input, crashes', tools') BY <1>1, <1>2, SoundLater DEF IInv
  <2>2. input \in File BY <2>1 DEF Sound
  <2>3. /\ g \in File /\ g.header = "garbled" /\ g.recs = input.recs /\ g.count = input.count
        /\ g.torn = input.torn /\ g.vocab = input.vocab /\ g.magic = input.magic
    BY <2>2 DEF File
  <2> HIDE DEF g
  <2>4. DistinctNames(g) BY <2>1, <2>3 DEF Sound, DistinctNames
  <2>5. OwnBytes(g, crashes', tools') BY <2>1, <2>3 DEF Sound, OwnBytes
  <2>6. EndsOnce(g, crashes', tools') BY <2>1, <2>3 DEF Sound, EndsOnce
  <2>7. Sound(g, crashes', tools') /\ Traceable(g, crashes')
    BY <2>3, <2>4, <2>5, <2>6 DEF Sound, Traceable
  <2>8. output' = g BY <1>4 DEF g
  <2> QED BY <1>2, <2>7, <2>8, WriteKeepsInv
<1> QED BY <1>3, <1>4 DEF QuantizeRefused

LEMMA StepKeepsInv == IInv /\ [Next]_vars => IInv'
<1> SUFFICES ASSUME IInv, [Next]_vars PROVE IInv' OBVIOUS
<1>0. tools \in Nat /\ crashes \in Nat
      /\ Sound(input, crashes, tools) /\ Sound(output, crashes, tools)
      /\ Traceable(input, crashes) /\ Traceable(output, crashes)
  BY DEF IInv
<1>1. CASE Convert
  <2>1. PICK c \in Checkpoints, ftype \in {"f32", "f16"}, visual \in BOOLEAN :
           Writes(Converted(c, ftype, visual))
    BY <1>1 DEF Convert
  <2> DEFINE f == Converted(c, ftype, visual)
  <2>2. /\ Sound(f, crashes, tools + 1) /\ Traceable(f, crashes)
        /\ f.torn = "no" /\ f.magic = "sam3"
    BY ConvertedIsSound
  <2>3. UNCHANGED <<input, model>> BY <1>1 DEF Convert
  <2> HIDE DEF f
  <2>4. Writes(f) BY <2>1 DEF f
  <2> QED BY <2>2, <2>3, <2>4, WritesKeepInv
<1>2. CASE Quantize
  <2>1. UNCHANGED <<input, model>> BY <1>2 DEF Quantize
  <2>2. PICK q \in QuantTypes : IF input.header \in {"whole", "garbled"} /\ input.magic = "sam3"
                                THEN Writes(Quantized(input, q))
                                ELSE QuantizeRefused
    BY <1>2 DEF Quantize
  <2>3. CASE QuantizeRefused BY <2>1, <2>3, RefusedKeepsInv
  <2>4. CASE input.magic = "sam3" /\ Writes(Quantized(input, q))
    <3> DEFINE f == Quantized(input, q)
    <3>1. /\ Sound(f, crashes, tools + 1) /\ Traceable(f, crashes)
          /\ f.torn = "no" /\ f.magic = "sam3"
      BY <1>0, <2>4, QuantizedIsSound
    <3> HIDE DEF f
    <3>2. Writes(f) BY <2>4 DEF f
    <3> QED BY <2>1, <3>1, <3>2, WritesKeepInv
  <2> QED BY <2>2, <2>3, <2>4
<1>3. CASE Extract
  <2>1. UNCHANGED <<input, model>> /\ tools' = tools + 1 BY <1>3 DEF Extract
  <2>2. ASSUME NEW names \in KeptNames, Extractable(input, names),
               output' = Sidecar(input, names), UNCHANGED crashes
        PROVE  IInv'
    <3> DEFINE f == Sidecar(input, names)
    <3>1. Sound(f, crashes, tools + 1) /\ Traceable(f, crashes)
      BY <1>0, <2>2, SidecarIsSound
    <3> HIDE DEF f
    <3>2. output' = f /\ crashes' = crashes BY <2>2 DEF f
    <3>3. tools' \in Nat /\ crashes' \in Nat /\ tools <= tools' /\ crashes <= crashes'
      BY <1>0, <2>1, <3>2
    <3> QED BY <2>1, <3>1, <3>2, <3>3, WriteKeepsInv
  <2>3. CASE output' = output /\ crashes' \in {crashes, crashes + 1}
    <3>1. tools' \in Nat /\ crashes' \in Nat /\ tools <= tools' /\ crashes <= crashes'
      BY <1>0, <2>1, <2>3
    <3>2. Sound(output, crashes', tools') /\ Traceable(output, crashes')
      BY <1>0, <3>1, SoundLater
    <3>3. Sound(output', crashes', tools') /\ Traceable(output', crashes')
      BY <2>3, <3>2
    <3> QED BY <2>1, <3>1, <3>3, WriteKeepsInv
  <2> QED BY <1>3, <2>2, <2>3 DEF Extract
<1>4. CASE sam3_load_model
  <2>1. UNCHANGED <<input, output, tools, crashes>> BY <1>4 DEF sam3_load_model
  <2>2. PICK c \in Configs :
           model' = IF Loads(input, c)
                    THEN [ok |-> TRUE, visual |-> input.visual,
                          bytes |-> [n \in Expected(input, c) |-> Bytes(input, c, n)]]
                    ELSE NoModel
    BY <1>4 DEF sam3_load_model
  <2>3. CASE Loads(input, c)
    <3>1. /\ model'.visual = input.visual
          /\ model'.bytes = [n \in Expected(input, c) |-> Bytes(input, c, n)]
      BY <2>2, <2>3
    <3>2. \A n \in Expected(input, c) :
             Bytes(input, c, n) # n =>
                input.visual /\ n = LastOf(input) /\ crashes > 0 /\ tools > 1
      BY <1>0, <2>3, LoadGivesOwnBytes
    <3>3. LoadedHoldsOwnBytes' BY <2>1, <3>1, <3>2 DEF LoadedHoldsOwnBytes, LastOf
    <3> QED BY <1>0, <2>1, <3>3 DEF IInv
  <2>4. CASE ~Loads(input, c)
    <3>1. ~model'.ok BY <2>2, <2>4 DEF NoModel
    <3> QED BY <1>0, <2>1, <3>1 DEF IInv, LoadedHoldsOwnBytes
  <2> QED BY <2>3, <2>4
<1>5. CASE Take
  <2>1. /\ input' = output /\ tools' = tools /\ crashes' = crashes /\ output' = NoFile
        /\ ~model'.ok
    BY <1>5 DEF Take, NoModel
  <2>2. Sound(output', crashes', tools') /\ Traceable(output', crashes')
    BY <2>1, NoFileIsSound
  <2> QED BY <1>0, <2>1, <2>2 DEF IInv, LoadedHoldsOwnBytes
<1>6. CASE UNCHANGED vars
  BY <1>0, <1>6 DEF IInv, vars, LoadedHoldsOwnBytes, LastOf
<1> QED BY <1>1, <1>2, <1>3, <1>4, <1>5, <1>6 DEF Next

(* The invariant holds throughout.                                           *)
LEMMA Invariance == Spec => []IInv
BY InitInv, StepKeepsInv, PTL DEF Spec

(* A loaded model holds in every tensor that tensor's own bytes, but for the *)
(* last of an interrupted visual-only file that was then quantized.          *)
THEOREM BytesAreTheirOwn == Spec => []LoadedHoldsOwnBytes
<1>1. IInv => LoadedHoldsOwnBytes BY DEF IInv
<1> QED BY <1>1, Invariance, PTL

(* A file that misses its end is refused, unless it is visual-only and has   *)
(* every tensor that the configuration wants.                                *)
THEOREM TruncationIsNoticed == Spec => []IncompleteFilesRefused
<1>1. IInv => IncompleteFilesRefused
  <2> SUFFICES ASSUME IInv, ~Complete(input), NEW c \in Configs, Loads(input, c)
               PROVE  /\ input.visual
                      /\ \A n \in Expected(input, c) :
                            \E i \in 1 .. Whole(input) : input.recs[i].name = n
    BY DEF IncompleteFilesRefused
  <2>1. Sound(input, crashes, tools) BY DEF IInv
  <2>2. input.visual BY <2>1, LoadedIsComplete
  <2>3. input \in File /\ DistinctNames(input) /\ (Len(input.recs) > 0 \/ input.torn = "no")
    BY <2>1 DEF Sound, EndsOnce
  <2> QED BY <2>2, <2>3, CountIsEnough
<1> QED BY <1>1, Invariance, PTL

(* A sidecar under its final name has all the records its header promises.   *)
THEOREM SidecarsAreWhole == Spec => []SidecarHasItsRecords
<1>1. IInv => SidecarHasItsRecords BY DEF IInv, SidecarHasItsRecords, Sound, EndsOnce
<1> QED BY <1>1, Invariance, PTL

(* Where the programs' name lists agree, every file that was written in full *)
(* loads in every configuration that admits its kind.                        *)
THEOREM WholeFilesLoad ==
    ASSUME NamesAgree
    PROVE  Spec => []CompleteFilesLoad
<1>1. IInv => CompleteFilesLoad
  <2> SUFFICES ASSUME IInv, Complete(input), OneQuantType(input),
                      input.magic = "s3rt" /\ input.visual => crashes = 0,
                      NEW c \in Configs, input.magic = "s3rt" => c.trt,
                      c.expectSidecar => input.magic = "s3rt"
               PROVE  Loads(input, c)
    BY DEF CompleteFilesLoad
  <2>1. Sound(input, crashes, tools) /\ Traceable(input, crashes) BY DEF IInv
  <2> QED BY <2>1, CompleteLoads
<1> QED BY <1>1, Invariance, PTL

(* The lists, as the four programs have them, do agree.                      *)
THEOREM ListsAgree ==
    /\ StrippedNames \cap RegisteredNames \subseteq DetectorNames
    /\ RuntimeHelperNames \cap RegisteredNames \subseteq SidecarHelperNames
    /\ RegisteredNames \cap WeightTypedNames \cap AlignedNames
          \subseteq MatrixNames \ NeverQuantizedNames
<1>1. StrippedNames \subseteq DetectorNames
  BY DEF StrippedNames, DetectorNames, TextWeights, TextFixed, FencWeights, DdecWeights,
         DdecFixed, ScoringWeights, GeomWeights, GeomFixed, SegWeights
<1>2. RuntimeHelperNames \subseteq SidecarHelperNames
  BY DEF RuntimeHelperNames, SidecarHelperNames, GeomInputWeights
<1>3. WeightTypedNames \subseteq AllNames
  BY DEF AllNames, RegisteredNames
<1>4. WeightTypedNames \cap AlignedNames \cap (Vectors \cup NeverQuantizedNames) = {}
  BY DEF WeightTypedNames, AlignedNames, Vectors, NeverQuantizedNames, VitWeights,
         NeckWeights, TextWeights, FencWeights, DdecWeights, ScoringWeights, GeomWeights,
         SegWeights, PeWeights, DecWeights
<1> QED BY <1>1, <1>2, <1>3, <1>4 DEF MatrixNames

=============================================================================
