---------------------------- MODULE SessionProofs ----------------------------
(***************************************************************************)
(* Ownership of native memory in one session, for every deployment, every  *)
(* set of images and every combination of failures.                        *)
(*                                                                         *)
(* The argument: a state is Sound when it is well typed, the handles hold  *)
(* exactly the live blocks, one block each, and no local handle outlives   *)
(* its call.  Free and Allocate keep a state Sound (but for the locals);   *)
(* so does everything the calls are built from; so does every action.      *)
(***************************************************************************)
EXTENDS Session, FiniteSetTheorems, TLAPS

-----------------------------------------------------------------------------
(* Fresh names exist *)

\* The image of a finite set under a function is finite.
LEMMA ImageFinite ==
  ASSUME NEW S, IsFiniteSet(S), NEW f
  PROVE  IsFiniteSet({f[x] : x \in S})
<1> DEFINE T == {f[x] : x \in S}
           g == [x \in S |-> f[x]]
<1>1. g \in Surjection(S, T)
  BY DEF Surjection
<1> QED
  BY <1>1, FS_Surjection

\* Handles and tensors are finitely many: each set is the range of a sequence.
LEMMA NamesFinite == IsFiniteSet(Handle) /\ IsFiniteSet(TensorName)
<1> DEFINE hs == <<"ctx", "galloc", "buffer", "pe_ctx", "pe_buf", "trt_out_ctx",
                   "trt_out_buf", "ctx0", "galloc0">>
           ts == <<"vit_output", "neck_det", "neck_trk", "neck_pe">>
<1>1. IsFiniteSet(1 .. 9) /\ IsFiniteSet(1 .. 4)
  <2>1. 1 \in Int /\ 4 \in Int /\ 9 \in Int
    OBVIOUS
  <2> QED
    BY ONLY <2>1, FS_Interval, Zenon
<1>2. hs \in Surjection(1 .. 9, Handle)
  <2>1. hs \in [1 .. 9 -> Handle]
    BY DEF Handle, Fields, Locals
  <2>2. /\ hs[1] = "ctx" /\ hs[2] = "galloc" /\ hs[3] = "buffer" /\ hs[4] = "pe_ctx"
        /\ hs[5] = "pe_buf" /\ hs[6] = "trt_out_ctx" /\ hs[7] = "trt_out_buf"
        /\ hs[8] = "ctx0" /\ hs[9] = "galloc0"
    OBVIOUS
  <2> QED
    BY <2>1, <2>2 DEF Surjection, Handle, Fields, Locals
<1>3. ts \in Surjection(1 .. 4, TensorName)
  <2>1. ts \in [1 .. 4 -> TensorName]
    BY DEF TensorName
  <2>2. ts[1] = "vit_output" /\ ts[2] = "neck_det" /\ ts[3] = "neck_trk" /\ ts[4] = "neck_pe"
    OBVIOUS
  <2> QED
    BY <2>1, <2>2 DEF Surjection, TensorName
<1> HIDE DEF hs, ts
<1> QED
  BY <1>1, <1>2, <1>3, FS_Surjection, Zenon

\* In a state whose live set is finite a fresh name exists, and Fresh is one.
LEMMA FreshIsNew ==
  ASSUME NEW s, IsFiniteSet(Pointers(s)), NEW h \in Handle
  PROVE  Fresh(s, h) \notin Pointers(s) /\ Fresh(s, h) \in {h} \X Nat
<1> DEFINE k == Cardinality(Pointers(s))
           name == [n \in 1 .. k + 1 |-> <<h, n>>]
<1>1. k \in Nat
  BY FS_CardinalityType
<1>2. \E n \in 1 .. k + 1 : <<h, n>> \notin Pointers(s)
  <2> SUFFICES ASSUME \A n \in 1 .. k + 1 : <<h, n>> \in Pointers(s)
               PROVE  FALSE
    OBVIOUS
  <2>1. name \in Injection(1 .. k + 1, Pointers(s))
    BY DEF Injection, IsInjective
  <2>2. Cardinality(1 .. k + 1) <= k
    BY <2>1, FS_Injection
  <2>3. Cardinality(1 .. k + 1) = k + 1
    BY <1>1, FS_Interval
  <2> QED
    BY <1>1, <2>2, <2>3
<1> DEFINE m == CHOOSE n \in 1 .. k + 1 : <<h, n>> \notin Pointers(s)
<1>3. m \in 1 .. k + 1 /\ <<h, m>> \notin Pointers(s)
  BY <1>2
<1>4. Fresh(s, h) = <<h, m>>
  BY DEF Fresh
<1> HIDE DEF m
<1>5. m \in Nat
  BY <1>1, <1>3
<1> QED
  BY <1>3, <1>4, <1>5

-----------------------------------------------------------------------------
(* Sound states *)

\* The handles hold exactly the live blocks, one block each.
Owned(s) ==
  /\ s.live = {s.handle[h] : h \in Handle} \ {Null}
  /\ \A g, h \in Handle : s.handle[g] = s.handle[h] => g = h \/ s.handle[g] = Null

Sound(s) == s \in SessionType /\ Owned(s)

\* No local handle is in use: the state between two calls.
Quiet(s) == \A h \in Locals : s.handle[h] = Null

\* Sound and quiet is what a session is before and after every call.
Good(s) == Sound(s) /\ Quiet(s)

\* A sound state holds finitely many pointers.
LEMMA PointersFinite ==
  ASSUME NEW s, Sound(s)
  PROVE  IsFiniteSet(Pointers(s))
<1> DEFINE hs == {s.handle[h] : h \in Handle}
           m == [t \in TensorName |-> s.tensor[t].meta]
           d == [t \in TensorName |-> s.tensor[t].data]
           ms == {m[t] : t \in TensorName}
           ds == {d[t] : t \in TensorName}
<1>1. IsFiniteSet(hs)
  BY NamesFinite, ImageFinite
<1>2. IsFiniteSet(s.live)
  <2>1. s.live \in SUBSET hs
    BY DEF Sound, Owned
  <2> QED
    BY <1>1, <2>1, FS_Subset
<1>3. IsFiniteSet(ms) /\ IsFiniteSet(ds)
  <2> HIDE DEF m, d
  <2> QED
    BY NamesFinite, ImageFinite
<1>4. Pointers(s) = ((s.live \cup hs) \cup ms) \cup ds
  BY DEF Pointers
<1> HIDE DEF hs, ms, ds
<1> QED
  BY <1>1, <1>2, <1>3, <1>4, FS_Union

\* Freeing handles of a sound state leaves a sound one.
LEMMA FreeSound ==
  ASSUME NEW s, Sound(s), NEW H, H \subseteq Handle
  PROVE  /\ Sound(Free(s, H))
         /\ \A h \in Handle : Free(s, H).handle[h] = IF h \in H THEN Null ELSE s.handle[h]
         /\ Free(s, H).tensor = s.tensor
<1> DEFINE f == Free(s, H)
<1>1. s \in SessionType /\ Owned(s)
  BY DEF Sound
<1>2. /\ f.handle = [h \in Handle |-> IF h \in H THEN Null ELSE s.handle[h]]
      /\ f.live = s.live \ {s.handle[h] : h \in H}
      /\ f.tensor = s.tensor
  BY <1>1 DEF Free, SessionType
<1>3. f \in SessionType
  BY <1>1 DEF Free, SessionType
<1> HIDE DEF f
<1>4. \A h \in Handle : f.handle[h] = IF h \in H THEN Null ELSE s.handle[h]
  BY <1>2
<1>5. f.live = {f.handle[h] : h \in Handle} \ {Null}
  BY <1>1, <1>2, <1>4 DEF Owned
<1>6. \A g, h \in Handle : f.handle[g] = f.handle[h] => g = h \/ f.handle[g] = Null
  BY <1>1, <1>4 DEF Owned
<1> QED
  BY <1>2, <1>3, <1>4, <1>5, <1>6 DEF Sound, Owned, f

\* Allocating into null handles of a sound state leaves a sound one.
LEMMA AllocateSound ==
  ASSUME NEW s, Sound(s), NEW H, H \subseteq Handle, \A h \in H : s.handle[h] = Null
  PROVE  /\ Sound(Allocate(s, H))
         /\ \A h \in Handle \ H : Allocate(s, H).handle[h] = s.handle[h]
         /\ \A h \in H : Allocate(s, H).handle[h] # Null
         /\ Allocate(s, H).tensor = s.tensor
<1> DEFINE a == Allocate(s, H)
           new(h) == Fresh(s, h)
<1>1. s \in SessionType /\ Owned(s)
  BY DEF Sound
<1>2. \A h \in H : new(h) \notin Pointers(s) /\ new(h) \in {h} \X Nat
  BY PointersFinite, FreshIsNew
<1>3. /\ a.handle = [h \in Handle |-> IF h \in H THEN new(h) ELSE s.handle[h]]
      /\ a.live = s.live \cup {new(h) : h \in H}
      /\ a.tensor = s.tensor
  BY <1>1 DEF Allocate, SessionType
<1> HIDE DEF new
<1>4. \A h \in H : new(h) \in Block /\ new(h) # Null
  BY <1>2 DEF Block, Null, Handle, Fields, Locals
<1>5. a \in SessionType
  <2>1. a = [s EXCEPT !.handle = [h \in Handle |-> IF h \in H THEN new(h) ELSE s.handle[h]],
                      !.live = s.live \cup {new(h) : h \in H}]
    BY DEF Allocate, new
  <2>2. [h \in Handle |-> IF h \in H THEN new(h) ELSE s.handle[h]] \in [Handle -> Block \cup {Null}]
    BY <1>1, <1>4 DEF SessionType
  <2>3. s.live \cup {new(h) : h \in H} \in SUBSET Block
    BY <1>1, <1>4 DEF SessionType
  <2> HIDE DEF a
  <2> QED
    BY <1>1, <2>1, <2>2, <2>3 DEF SessionType
<1> HIDE DEF a
<1>6. \A h \in Handle : a.handle[h] = IF h \in H THEN new(h) ELSE s.handle[h]
  BY <1>3
<1>7. \A h \in H : new(h) \notin {s.handle[g] : g \in Handle}
  BY <1>2 DEF Pointers
<1>8. \A g, h \in H : new(g) = new(h) => g = h
  BY <1>2
<1>9. a.live = {a.handle[h] : h \in Handle} \ {Null}
  BY <1>1, <1>3, <1>4, <1>6 DEF Owned
<1>10. \A g, h \in Handle : a.handle[g] = a.handle[h] => g = h \/ a.handle[g] = Null
  BY <1>1, <1>6, <1>7, <1>8 DEF Owned
<1> QED
  BY <1>3, <1>4, <1>5, <1>6, <1>9, <1>10 DEF Sound, Owned, a

\* ctx0 and galloc0 become the state's own.
LEMMA AdoptGood ==
  ASSUME NEW s, Sound(s), s.handle["ctx"] = Null, s.handle["galloc"] = Null
  PROVE  /\ Good(Adopt(s))
         /\ Adopt(s).handle["ctx"] = s.handle["ctx0"]
         /\ Adopt(s).handle["galloc"] = s.handle["galloc0"]
         /\ Adopt(s).tensor = s.tensor
<1> DEFINE a == Adopt(s)
<1>1. s \in SessionType /\ Owned(s)
  BY DEF Sound
<1>2. /\ a.handle = [h \in Handle |-> CASE h = "ctx" -> s.handle["ctx0"]
                                         [] h = "galloc" -> s.handle["galloc0"]
                                         [] h \in Locals -> Null
                                         [] OTHER -> s.handle[h]]
      /\ a.live = s.live
      /\ a.tensor = s.tensor
  BY <1>1 DEF Adopt, SessionType
<1>3. a \in SessionType
  BY <1>1 DEF Adopt, SessionType, Handle, Fields, Locals
<1> HIDE DEF a
<1>4. /\ a.handle["ctx"] = s.handle["ctx0"]
      /\ a.handle["galloc"] = s.handle["galloc0"]
      /\ a.handle["ctx0"] = Null /\ a.handle["galloc0"] = Null
      /\ a.handle["buffer"] = s.handle["buffer"]
      /\ a.handle["pe_ctx"] = s.handle["pe_ctx"]
      /\ a.handle["pe_buf"] = s.handle["pe_buf"]
      /\ a.handle["trt_out_ctx"] = s.handle["trt_out_ctx"]
      /\ a.handle["trt_out_buf"] = s.handle["trt_out_buf"]
  BY <1>2 DEF Handle, Fields, Locals
<1>5. a.live = {a.handle[h] : h \in Handle} \ {Null}
  BY <1>1, <1>2, <1>4 DEF Owned, Handle, Fields, Locals
<1>6. \A g, h \in Handle : a.handle[g] = a.handle[h] => g = h \/ a.handle[g] = Null
  BY <1>1, <1>4 DEF Owned, Handle, Fields, Locals
<1> QED
  BY <1>2, <1>3, <1>4, <1>5, <1>6 DEF Good, Sound, Owned, Quiet, Locals, a

\* What touches no handle keeps the memory as it is.
LEMMA SameMemory ==
  ASSUME NEW s, NEW r, r \in SessionType, r.handle = s.handle, r.live = s.live
  PROVE  (Owned(s) => Owned(r)) /\ (Quiet(s) => Quiet(r))
BY DEF Owned, Quiet

\* The picture a tensor may be of.
Pictures == Images \cup Preprocessed \cup {NoImage}

\* Pointing tensors at allocated blocks, or nulling them, keeps the memory.
LEMMA PointGood ==
  ASSUME NEW s, Good(s), NEW T, NEW m \in Handle, NEW d \in Handle,
         NEW i \in Pictures, NEW sz \in Sizes
  PROVE  /\ Good(Point(s, T, m, d, i, sz))
         /\ Point(s, T, m, d, i, sz).handle = s.handle
         /\ \A t \in TensorName : Point(s, T, m, d, i, sz).tensor[t] =
              IF t \in T THEN Ref(s, m, d, i, sz) ELSE s.tensor[t]
<1> DEFINE r == Point(s, T, m, d, i, sz)
<1>1. s \in SessionType
  BY DEF Good, Sound
<1>2. /\ r.handle = s.handle /\ r.live = s.live
      /\ r.tensor = [t \in TensorName |->
           IF t \in T THEN Ref(s, m, d, i, sz) ELSE s.tensor[t]]
  BY <1>1 DEF Point, SessionType
<1>3. r \in SessionType
  BY <1>1 DEF Point, Ref, SessionType, Tensor, Pictures
<1> HIDE DEF r
<1>4. \A t \in TensorName : r.tensor[t] =
        IF t \in T THEN Ref(s, m, d, i, sz) ELSE s.tensor[t]
  BY <1>2
<1>5. Good(r)
  BY <1>2, <1>3, SameMemory DEF Good, Sound
<1> QED
  BY <1>2, <1>4, <1>5 DEF r

\* Nulling tensors keeps the memory sound, and the other tensors as they were.
LEMMA NullOutGood ==
  ASSUME NEW s, Good(s), NEW T
  PROVE  /\ Good(NullOut(s, T))
         /\ NullOut(s, T).handle = s.handle
         /\ \A t \in TensorName : NullOut(s, T).tensor[t] =
              IF t \in T THEN NullTensor ELSE s.tensor[t]
<1> DEFINE r == NullOut(s, T)
<1>1. s \in SessionType
  BY DEF Good, Sound
<1>2. /\ r.handle = s.handle /\ r.live = s.live
      /\ r.tensor = [t \in TensorName |-> IF t \in T THEN NullTensor ELSE s.tensor[t]]
  BY <1>1 DEF NullOut, SessionType
<1>3. r \in SessionType
  BY <1>1 DEF NullOut, SessionType, Tensor, NullTensor, Sizes
<1> HIDE DEF r
<1>4. \A t \in TensorName : r.tensor[t] = IF t \in T THEN NullTensor ELSE s.tensor[t]
  BY <1>2
<1>5. Good(r)
  BY <1>2, <1>3, SameMemory DEF Good, Sound
<1> QED
  BY <1>2, <1>4, <1>5 DEF r

\* Assigning a flag or the cache size keeps the memory and the tensors.
LEMMA FlagsGood ==
  ASSUME NEW s, Good(s), NEW b \in BOOLEAN, NEW c \in Sizes \cup {"invalid"},
         NEW r \in {[s EXCEPT !.neckPeValid = b], [s EXCEPT !.peCache = c]}
  PROVE  Good(r) /\ r.handle = s.handle /\ r.tensor = s.tensor
<1>1. s \in SessionType
  BY DEF Good, Sound
<1>2. r \in SessionType
  BY <1>1 DEF SessionType
<1>3. r.handle = s.handle /\ r.live = s.live /\ r.tensor = s.tensor
  BY <1>1 DEF SessionType
<1> QED
  BY <1>2, <1>3, SameMemory DEF Good, Sound

-----------------------------------------------------------------------------
(* What the calls are built from *)

\* The state holds the features of picture i, in the blocks of the given path.
HoldsFeatures(s, i, path) ==
  LET m == IF path = "trt" THEN "trt_out_ctx" ELSE "ctx"
      d == IF path = "trt" THEN "trt_out_buf" ELSE "galloc"
  IN  /\ s.handle[m] # Null /\ s.handle[d] # Null
      /\ s.tensor["neck_trk"].meta = s.handle[m]
      /\ s.tensor["neck_trk"].data = s.handle[d]
      /\ s.tensor["neck_trk"].of = i
      /\ IF dep.visualOnly /\ path = "ggml" THEN IsNull(s, "neck_det")
         ELSE s.tensor["neck_det"] = s.tensor["neck_trk"]

\* Dropping the previous encode nulls its four handles.
LEMMA DropEncodeGood ==
  ASSUME NEW s, Good(s)
  PROVE  /\ Good(DropEncode(s))
         /\ \A h \in {"trt_out_ctx", "trt_out_buf", "ctx", "galloc"} :
              DropEncode(s).handle[h] = Null
BY FreeSound DEF DropEncode, Good, Quiet, Handle, Fields, Locals

\* A TensorRT encode leaves the picture's features in the TensorRT blocks.
LEMMA TrtEncodedGood ==
  ASSUME NEW s, Good(s), NEW i \in Images \cup Preprocessed
  PROVE  Good(TrtEncoded(s, i)) /\ HoldsFeatures(TrtEncoded(s, i), i, "trt")
<1> DEFINE H == {"trt_out_ctx", "trt_out_buf"}
           a == Allocate(DropEncode(s), H)
           T == {"vit_output", "neck_det", "neck_trk"}
           r == Point(a, T, "trt_out_ctx", "trt_out_buf", i, "native")
<1>1. H \subseteq Handle /\ H \cap Locals = {} /\ Locals \subseteq Handle
  BY DEF Handle, Fields, Locals
<1>2. Good(DropEncode(s)) /\ \A h \in H : DropEncode(s).handle[h] = Null
  BY DropEncodeGood
<1>3. Good(a) /\ \A h \in H : a.handle[h] # Null
  BY <1>1, <1>2, AllocateSound DEF Good, Quiet
<1> HIDE DEF a
<1>4. i \in Pictures /\ "native" \in Sizes
  BY DEF Pictures, Sizes
<1>5. /\ Good(r) /\ r.handle = a.handle
      /\ \A t \in T : r.tensor[t] = Ref(a, "trt_out_ctx", "trt_out_buf", i, "native")
  <2>1. "trt_out_ctx" \in Handle /\ "trt_out_buf" \in Handle /\ T \subseteq TensorName
    BY DEF Handle, Fields, TensorName
  <2> HIDE DEF T
  <2>2. /\ Good(r) /\ r.handle = a.handle
        /\ \A t \in TensorName : r.tensor[t] =
             IF t \in T THEN Ref(a, "trt_out_ctx", "trt_out_buf", i, "native") ELSE a.tensor[t]
    BY <1>3, <1>4, <2>1, PointGood
  <2> QED
    BY <2>1, <2>2
<1>6. r = TrtEncoded(s, i)
  BY DEF TrtEncoded, a
<1> HIDE DEF r
<1>7. HoldsFeatures(r, i, "trt")
  BY <1>3, <1>5 DEF HoldsFeatures, Ref
<1> QED
  BY <1>5, <1>6, <1>7

\* Scratch blocks allocated into null handles and freed again leave no trace
\* in the handles.
LEMMA ScratchGood ==
  ASSUME NEW s, Good(s), NEW H, H \subseteq Handle, \A h \in H : s.handle[h] = Null
  PROVE  /\ Good(Free(Allocate(s, H), H))
         /\ \A h \in Handle : Free(Allocate(s, H), H).handle[h] = s.handle[h]
         /\ Free(Allocate(s, H), H).tensor = s.tensor
<1> DEFINE a == Allocate(s, H)
<1>1. /\ Sound(a) /\ a.tensor = s.tensor
      /\ \A h \in Handle \ H : a.handle[h] = s.handle[h]
  BY AllocateSound DEF Good
<1> HIDE DEF a
<1>2. /\ Sound(Free(a, H)) /\ Free(a, H).tensor = a.tensor
      /\ \A h \in Handle : Free(a, H).handle[h] = IF h \in H THEN Null ELSE a.handle[h]
  BY <1>1, FreeSound
<1> QED
  BY <1>1, <1>2 DEF Good, Quiet, Handle, a

\* A TensorRT attempt that fails keeps the memory sound at every point of
\* failure.
LEMMA TrtMissesGood ==
  ASSUME NEW s, Good(s), NEW sz, NEW t \in TrtMisses(s, sz)
  PROVE  Good(t)
<1>1. CASE t = s
  BY <1>1
<1>2. CASE t # s
  <2>1. PICK H \in {{}, {"trt_out_ctx"}, {"trt_out_ctx", "trt_out_buf"}} :
          t = Free(Allocate(DropEncode(s), H), H)
    BY <1>2 DEF TrtMisses
  <2>2. H \subseteq Handle /\ \A h \in H : DropEncode(s).handle[h] = Null
    BY DropEncodeGood DEF Handle, Fields
  <2> QED
    BY <2>1, <2>2, DropEncodeGood, ScratchGood
<1> QED
  BY <1>1, <1>2

\* A graph that fails gives its context and allocator back.
LEMMA GraphFailuresGood ==
  ASSUME NEW s, Good(s), NEW u \in GraphFailures(s)
  PROVE  /\ Good(u) /\ u.tensor = s.tensor
         /\ \A h \in Handle : u.handle[h] = s.handle[h]
<1>1. PICK H \in {{}, Locals} : u = Free(Allocate(s, H), H)
  BY DEF GraphFailures
<1>2. H \subseteq Handle /\ \A h \in H : s.handle[h] = Null
  BY DEF Good, Quiet, Handle
<1> QED
  BY <1>1, <1>2, ScratchGood

\* A ggml graph that computed: its blocks replace those the caller freed.
LEMMA BuiltGood ==
  ASSUME NEW s, Good(s), NEW H, H \subseteq Fields, "ctx" \in H, "galloc" \in H
  PROVE  LET b == Adopt(Free(Allocate(s, Locals), H))
         IN  Good(b) /\ b.handle["ctx"] # Null /\ b.handle["galloc"] # Null
<1> DEFINE a == Allocate(s, Locals)
           f == Free(a, H)
<1>1. Locals \subseteq Handle /\ H \subseteq Handle /\ H \cap Locals = {}
  BY DEF Handle, Fields, Locals
<1>2. Sound(a) /\ \A h \in Locals : a.handle[h] # Null
  BY <1>1, AllocateSound DEF Good, Quiet
<1> HIDE DEF a
<1>3. /\ Sound(f)
      /\ \A h \in Handle : f.handle[h] = IF h \in H THEN Null ELSE a.handle[h]
  BY <1>1, <1>2, FreeSound
<1> HIDE DEF f
<1>4. /\ f.handle["ctx"] = Null /\ f.handle["galloc"] = Null
      /\ f.handle["ctx0"] # Null /\ f.handle["galloc0"] # Null
  BY <1>1, <1>2, <1>3 DEF Handle, Locals
<1>5. Good(Adopt(f)) /\ Adopt(f).handle["ctx"] # Null /\ Adopt(f).handle["galloc"] # Null
  BY <1>3, <1>4, AdoptGood
<1> QED
  BY <1>5 DEF a, f

\* A ggml encode leaves the picture's features in the graph's blocks.
LEMMA GgmlEncodedGood ==
  ASSUME NEW s, Good(s), NEW i \in Images \cup Preprocessed, NEW sz \in Sizes
  PROVE  Good(GgmlEncoded(s, i, sz)) /\ HoldsFeatures(GgmlEncoded(s, i, sz), i, "ggml")
<1> DEFINE b == Adopt(Free(Allocate(s, Locals), {"galloc", "ctx"}))
           n == NullOut(b, {"neck_det"})
           T == {"vit_output"} \cup Necks
           r == Point(n, T, "ctx", "galloc", i, sz)
<1>1. Good(b) /\ b.handle["ctx"] # Null /\ b.handle["galloc"] # Null
  BY BuiltGood DEF Fields
<1> HIDE DEF b
<1>2. /\ Good(n) /\ n.handle = b.handle
      /\ \A t \in TensorName : n.tensor[t] = IF t \in {"neck_det"} THEN NullTensor ELSE b.tensor[t]
  BY <1>1, NullOutGood
<1> HIDE DEF n
<1>3. "ctx" \in Handle /\ "galloc" \in Handle /\ i \in Pictures
  BY DEF Handle, Fields, Pictures
<1>4. "neck_trk" \in T /\ ("neck_det" \in T <=> ~dep.visualOnly)
  BY DEF Necks
<1> HIDE DEF T
<1>5. /\ Good(r) /\ r.handle = n.handle
      /\ \A t \in TensorName : r.tensor[t] =
           IF t \in T THEN Ref(n, "ctx", "galloc", i, sz) ELSE n.tensor[t]
  <2>1. Good(n)
    BY <1>2
  <2> QED
    BY <2>1, <1>3, PointGood
<1>6. r = GgmlEncoded(s, i, sz)
  BY DEF GgmlEncoded, b, n, T
<1> HIDE DEF r
<1>7. IF dep.visualOnly THEN r.tensor["neck_det"] = NullTensor
      ELSE r.tensor["neck_det"] = r.tensor["neck_trk"]
  BY <1>2, <1>4, <1>5 DEF TensorName
<1>8. r.tensor["neck_trk"] = Ref(r, "ctx", "galloc", i, sz)
  BY <1>4, <1>5 DEF TensorName, Ref
<1>9. HoldsFeatures(r, i, "ggml")
  BY <1>1, <1>2, <1>5, <1>7, <1>8 DEF HoldsFeatures, IsNull, NullTensor, Ref
<1> QED
  BY <1>5, <1>6, <1>9

\* Holding a picture's features does not depend on the encodings.
LEMMA FeaturesKept ==
  ASSUME NEW s, NEW r, NEW i, NEW path, HoldsFeatures(s, i, path),
         \A h \in Handle \ {"pe_ctx", "pe_buf"} : r.handle[h] = s.handle[h],
         \A t \in TensorName \ {"neck_pe"} : r.tensor[t] = s.tensor[t]
  PROVE  HoldsFeatures(r, i, path)
BY DEF HoldsFeatures, IsNull, Handle, Fields, TensorName

\* Rebuilding the encodings, whether or not their buffer can be had, keeps the
\* memory sound and the features in place.
LEMMA PeRebuildsGood ==
  ASSUME NEW s, Good(s), NEW r \in {PeRebuilds(s).ok} \cup PeRebuilds(s).failed
  PROVE  /\ Good(r)
         /\ \A h \in Handle \ {"pe_ctx", "pe_buf"} : r.handle[h] = s.handle[h]
         /\ \A t \in TensorName \ {"neck_pe"} : r.tensor[t] = s.tensor[t]
<1> DEFINE f == Free(s, {"pe_buf", "pe_ctx"})
           bare == Allocate(f, {"pe_ctx"})
           a == Allocate(bare, {"pe_buf"})
           full == Point(a, {"neck_pe"}, "pe_ctx", "pe_buf", NoImage, "native")
<1>1. {"pe_ctx", "pe_buf"} \subseteq Handle /\ {"pe_ctx", "pe_buf"} \cap Locals = {}
      /\ Locals \subseteq Handle /\ NoImage \in Pictures /\ "native" \in Sizes
  BY DEF Handle, Fields, Locals, Pictures, Sizes
<1>2. /\ Good(f) /\ f.tensor = s.tensor
      /\ f.handle["pe_ctx"] = Null /\ f.handle["pe_buf"] = Null
      /\ \A h \in Handle \ {"pe_ctx", "pe_buf"} : f.handle[h] = s.handle[h]
  BY <1>1, FreeSound DEF Good, Quiet
<1> HIDE DEF f
<1>3. /\ Good(bare) /\ bare.tensor = s.tensor /\ bare.handle["pe_buf"] = Null
      /\ \A h \in Handle \ {"pe_ctx", "pe_buf"} : bare.handle[h] = s.handle[h]
  BY <1>1, <1>2, AllocateSound DEF Good, Quiet
<1> HIDE DEF bare
<1>4. /\ Good(a) /\ a.tensor = s.tensor
      /\ \A h \in Handle \ {"pe_ctx", "pe_buf"} : a.handle[h] = s.handle[h]
  BY <1>1, <1>3, AllocateSound DEF Good, Quiet
<1> HIDE DEF a
<1>5. /\ Good(full) /\ full.handle = a.handle
      /\ \A t \in TensorName \ {"neck_pe"} : full.tensor[t] = a.tensor[t]
  <2>1. Good(a) /\ "pe_ctx" \in Handle /\ "pe_buf" \in Handle
    BY <1>1, <1>4
  <2>2. /\ Good(full) /\ full.handle = a.handle
        /\ \A t \in TensorName : full.tensor[t] =
             IF t \in {"neck_pe"} THEN Ref(a, "pe_ctx", "pe_buf", NoImage, "native")
                                 ELSE a.tensor[t]
    BY <1>1, <2>1, PointGood
  <2> QED
    BY <2>2
<1>6. r \in {full, bare}
  BY DEF PeRebuilds, full, a, bare, f
<1> HIDE DEF full
<1> QED
  BY <1>3, <1>4, <1>5, <1>6

\* With the flag set or not, the encodings refreshed or kept: the features stay.
LEMMA NeckPeGood ==
  ASSUME NEW s, Good(s), NEW i, NEW path, HoldsFeatures(s, i, path),
         NEW r \in RefreshNeckPe(s) \cup RebuildNeckPe(s)
  PROVE  Good(r) /\ HoldsFeatures(r, i, path)
<1> DEFINE ok == PeRebuilds(s).ok
<1>1. CASE r = s
  BY <1>1
<1>2. CASE r \in {ok} \cup PeRebuilds(s).failed
  BY <1>2, PeRebuildsGood, FeaturesKept
<1>3. CASE r = [ok EXCEPT !.neckPeValid = TRUE]
  <2>1. Good(ok) /\ HoldsFeatures(ok, i, path)
    BY PeRebuildsGood, FeaturesKept
  <2> HIDE DEF ok
  <2>2. Good(r) /\ r.handle = ok.handle /\ r.tensor = ok.tensor
    <3>1. "invalid" \in Sizes \cup {"invalid"}
      OBVIOUS
    <3> QED
      BY <1>3, <2>1, <3>1, FlagsGood
  <2> QED
    BY <2>1, <2>2, FeaturesKept
<1> QED
  BY <1>1, <1>2, <1>3 DEF RefreshNeckPe, RebuildNeckPe

\* The prompt-encoder cache is not part of the memory followed here.
LEMMA PeCacheGood ==
  ASSUME NEW s, Good(s), dep.size \in Sizes, NEW r \in {CheckPeCache(s), FillPeCache(s)}
  PROVE  Good(r) /\ r.handle = s.handle /\ r.tensor = s.tensor
<1>1. s.peCache \in Sizes \cup {"invalid"}
  BY DEF Good, Sound, SessionType
<1>2. PICK c \in Sizes \cup {"invalid"} : r = [s EXCEPT !.peCache = c]
  BY <1>1 DEF CheckPeCache, FillPeCache
<1> QED
  BY <1>2, FlagsGood, TRUE \in BOOLEAN

\* Recording the picture's size.
LEMMA SetOrigGood ==
  ASSUME NEW s, Good(s), NEW i \in Images \cup Preprocessed
  PROVE  Good(SetOrig(s, i))
<1> DEFINE r == SetOrig(s, i)
<1>1. s \in SessionType /\ Dims(i) \in Images \cup {NoImage, Square}
  BY DEF Good, Sound, Dims
<1>2. r \in SessionType /\ r.handle = s.handle /\ r.live = s.live
  BY <1>1 DEF SetOrig, SessionType
<1> HIDE DEF r
<1>3. Good(r)
  BY <1>2, SameMemory DEF Good, Sound
<1> QED
  BY <1>3 DEF r

\* A backbone-only encode keeps the memory sound.
LEMMA VitEncodedGood ==
  ASSUME NEW s, Good(s), NEW i \in Images \cup Preprocessed
  PROVE  Good(VitEncoded(s, i))
<1> DEFINE b == Adopt(Free(Allocate(s, Locals), {"galloc", "ctx", "pe_buf", "pe_ctx"}))
           v == [b EXCEPT !.neckPeValid = FALSE]
           n == NullOut(v, TensorName)
<1>1. Good(b)
  BY BuiltGood DEF Fields
<1> HIDE DEF b
<1>2. Good(v)
  <2>1. "invalid" \in Sizes \cup {"invalid"}
    OBVIOUS
  <2> QED
    BY <1>1, <2>1, FlagsGood
<1> HIDE DEF v
<1>3. Good(n)
  BY <1>2, NullOutGood
<1> HIDE DEF n
<1>4. "ctx" \in Handle /\ "galloc" \in Handle /\ i \in Pictures /\ "native" \in Sizes
  BY DEF Handle, Fields, Pictures, Sizes
<1> QED
  BY <1>3, <1>4, PointGood DEF VitEncoded, b, v, n

-----------------------------------------------------------------------------
(* The inductive invariant *)

IInv ==
  /\ TypeOK
  /\ Good(session)
  /\ FreedMeansEmpty
  /\ Encoded /\ status # "freed" => HoldsFeatures(session, last.of, last.path)

\* A created state satisfies the invariant.
LEMMA InitIInv == Init => IInv
<1> SUFFICES ASSUME Init PROVE IInv
  OBVIOUS
<1>1. session \in SessionType
  BY DEF Init, CreatedState, SessionType, NullTensor, Tensor, Sizes, Handle
<1>2. \A h \in Handle : session.handle[h] = Null
  BY DEF Init, CreatedState
<1>3. session.live = {}
  BY DEF Init, CreatedState
<1>4. Good(session)
  BY <1>1, <1>2, <1>3 DEF Good, Sound, Owned, Quiet, Handle
<1>5. TypeOK
  BY <1>1 DEF TypeOK, Init, Nothing
<1> QED
  BY <1>4, <1>5 DEF IInv, Init, FreedMeansEmpty, Encoded

\* An encode that returns a good state which holds what it claims.
LEMMA EncodeReturnsIInv ==
  ASSUME IInv, status = "open", NEW call \in CallNames, NEW s, Good(s),
         NEW i \in Images \cup Preprocessed, NEW path \in {"none", "trt", "ggml", "vit"},
         path \in {"trt", "ggml"} => HoldsFeatures(s, i, path),
         EncodeReturns(call, s, i, path)
  PROVE  IInv'
<1>1. /\ session' = s /\ last' = [of |-> i, path |-> path] /\ dep' = dep /\ status' = status
      /\ out' = [call |-> call, path |-> path, of |-> NoImage, dims |-> NoImage]
  BY DEF EncodeReturns, Nothing
<1>2. TypeOK'
  BY <1>1 DEF IInv, TypeOK, Good, Sound
<1>3. Good(session)'
  BY <1>1 DEF Good, Sound, Owned, Quiet
<1>4. (Encoded /\ status # "freed" => HoldsFeatures(session, last.of, last.path))'
  BY <1>1 DEF Encoded, HoldsFeatures, IsNull
<1> QED
  BY <1>1, <1>2, <1>3, <1>4 DEF IInv, FreedMeansEmpty

\* A prompt that answers, or not, from a state with the same memory.
LEMMA PromptReturnsIInv ==
  ASSUME IInv, status = "open", NEW call \in CallNames, NEW s, Good(s),
         s.tensor = session.tensor, \A h \in Handle : s.handle[h] = session.handle[h],
         \/ \E t \in TensorName : \E path \in {"trt", "ggml", "cpu"} : Answers(call, s, t, path)
         \/ AnswersNothing(call, s)
  PROVE  IInv'
<1>1. /\ session' = s /\ last' = last /\ dep' = dep /\ status' = status
      /\ out'.of = NoImage \/ \E t \in TensorName : out'.of = s.tensor[t].of
  BY DEF Answers, AnswersNothing, Nothing
<1>2. \A t \in TensorName : s.tensor[t].of \in Images \cup Preprocessed \cup {NoImage}
  BY DEF Good, Sound, SessionType, Tensor
<1>3. s.orig \in Images \cup {NoImage, Square}
  BY DEF Good, Sound, SessionType
<1>4. TypeOK'
  <2>1. out' \in [call : CallNames \cup {"create"}, path : {"none", "trt", "ggml", "vit", "cpu"},
                  of : Images \cup Preprocessed \cup {NoImage},
                  dims : Images \cup {NoImage, Square}]
    BY <1>2, <1>3 DEF Answers, AnswersNothing, Nothing
  <2> QED
    BY <1>1, <2>1 DEF IInv, TypeOK, Good, Sound
<1>5. Good(session)'
  BY <1>1 DEF Good, Sound, Owned, Quiet
<1>6. (Encoded /\ status # "freed" => HoldsFeatures(session, last.of, last.path))'
  BY <1>1 DEF IInv, Encoded, HoldsFeatures, IsNull, Handle, Fields
<1> QED
  BY <1>1, <1>4, <1>5, <1>6 DEF IInv, FreedMeansEmpty

\* A call that faults.
LEMMA CrashIInv ==
  ASSUME IInv, status = "open", NEW call \in CallNames, NEW fault \in Faults,
         Crash(call, fault)
  PROVE  IInv'
<1>1. /\ session' = session /\ last' = last /\ dep' = dep /\ status' = fault
      /\ out' = [call |-> call, path |-> "none", of |-> NoImage, dims |-> NoImage]
  BY DEF Crash, Nothing
<1>2. TypeOK'
  BY <1>1 DEF IInv, TypeOK
<1>3. Good(session)'
  BY <1>1 DEF IInv, Good, Sound, Owned, Quiet
<1>4. (Encoded /\ status # "freed" => HoldsFeatures(session, last.of, last.path))'
  BY <1>1 DEF IInv, Encoded, HoldsFeatures, IsNull
<1>5. fault # "freed"
  BY DEF Faults
<1> QED
  BY <1>1, <1>2, <1>3, <1>4, <1>5 DEF IInv, FreedMeansEmpty

-----------------------------------------------------------------------------
(* Every action preserves the invariant *)

\* Facts about the deployment every action uses.
LEMMA DepFacts ==
  ASSUME IInv
  PROVE  dep.size \in Sizes /\ Good(session)
BY DeploymentsAssumption DEF IInv, TypeOK, Deployment

\* sam3_encode_image preserves the invariant: TensorRT, ggml, or a failure.
LEMMA EncodeImageIInv ==
  ASSUME IInv, NEW i \in Images, sam3_encode_image(i)
  PROVE  IInv'
<1> DEFINE s == SetOrig(session, i)
<1>1. /\ status = "open" /\ "encode" \in CallNames /\ i \in Images \cup Preprocessed
      /\ dep.size \in Sizes /\ Good(s)
  BY DepFacts, SetOrigGood DEF sam3_encode_image, Open, CallNames
<1>2. CASE EncodeReturns("encode", TrtEncoded(s, i), i, "trt")
  BY <1>1, <1>2, TrtEncodedGood, EncodeReturnsIInv
<1>3. ASSUME NEW t \in TrtMisses(s, dep.size),
             \/ EncodeReturns("encode", t, i, "none")
             \/ \E u \in GraphFailures(t) : EncodeReturns("encode", u, i, "none")
      PROVE  IInv'
  BY <1>1, <1>3, TrtMissesGood, GraphFailuresGood, EncodeReturnsIInv
<1>4. ASSUME NEW t \in TrtMisses(s, dep.size),
             NEW u \in RefreshNeckPe(GgmlEncoded(t, i, dep.size)),
             EncodeReturns("encode", CheckPeCache(u), i, "ggml")
      PROVE  IInv'
  <2>1. Good(GgmlEncoded(t, i, dep.size)) /\ HoldsFeatures(GgmlEncoded(t, i, dep.size), i, "ggml")
    BY <1>1, TrtMissesGood, GgmlEncodedGood
  <2>2. Good(u) /\ HoldsFeatures(u, i, "ggml")
    BY <2>1, NeckPeGood
  <2>3. Good(CheckPeCache(u)) /\ HoldsFeatures(CheckPeCache(u), i, "ggml")
    BY <1>1, <2>2, PeCacheGood, FeaturesKept
  <2> QED
    BY <1>1, <1>4, <2>3, EncodeReturnsIInv
<1> QED
  BY <1>2, <1>3, <1>4 DEF sam3_encode_image

\* The encode of a preprocessed buffer preserves the invariant.
LEMMA EncodePrepIInv ==
  ASSUME IInv, NEW i \in Preprocessed, sam3_encode_image_from_preprocessed(i)
  PROVE  IInv'
<1>1. /\ status = "open" /\ "encode_prep" \in CallNames /\ i \in Images \cup Preprocessed
      /\ dep.size \in Sizes /\ Good(session) /\ "native" \in Sizes
  BY DepFacts DEF sam3_encode_image_from_preprocessed, Open, CallNames, Sizes
<1>2. CASE EncodeReturns("encode_prep", TrtEncoded(session, i), i, "trt")
  BY <1>1, <1>2, TrtEncodedGood, EncodeReturnsIInv
<1>3. ASSUME NEW t \in TrtMisses(session, "native"),
             \/ EncodeReturns("encode_prep", t, i, "none")
             \/ \E u \in GraphFailures(SetOrig(t, i)) : EncodeReturns("encode_prep", u, i, "none")
      PROVE  IInv'
  BY <1>1, <1>3, TrtMissesGood, SetOrigGood, GraphFailuresGood, EncodeReturnsIInv
<1>4. ASSUME NEW t \in TrtMisses(session, "native"),
             NEW u \in RebuildNeckPe(GgmlEncoded(SetOrig(t, i), i, "native")),
             EncodeReturns("encode_prep", CheckPeCache(u), i, "ggml")
      PROVE  IInv'
  <2> DEFINE g == GgmlEncoded(SetOrig(t, i), i, "native")
  <2>1. Good(g) /\ HoldsFeatures(g, i, "ggml")
    BY <1>1, TrtMissesGood, SetOrigGood, GgmlEncodedGood
  <2>2. Good(u) /\ HoldsFeatures(u, i, "ggml")
    BY <2>1, NeckPeGood
  <2>3. Good(CheckPeCache(u)) /\ HoldsFeatures(CheckPeCache(u), i, "ggml")
    BY <1>1, <2>2, PeCacheGood, FeaturesKept
  <2> QED
    BY <1>1, <1>4, <2>3, EncodeReturnsIInv
<1> QED
  BY <1>2, <1>3, <1>4 DEF sam3_encode_image_from_preprocessed

\* The backbone-only encode preserves the invariant.
LEMMA EncodeVitIInv ==
  ASSUME IInv, NEW i \in Preprocessed, sam3_encode_vit_from_preprocessed_selective(i)
  PROVE  IInv'
<1> DEFINE s == SetOrig(session, i)
<1>1. /\ status = "open" /\ "encode_vit" \in CallNames /\ i \in Images \cup Preprocessed
      /\ dep.size \in Sizes /\ Good(s) /\ "missing_weights" \in Faults
  BY DepFacts, SetOrigGood
     DEF sam3_encode_vit_from_preprocessed_selective, Open, CallNames, Faults
<1>2. CASE Crash("encode_vit", "missing_weights")
  BY <1>1, <1>2, CrashIInv
<1>3. CASE \/ \E u \in GraphFailures(s) : EncodeReturns("encode_vit", u, i, "none")
           \/ EncodeReturns("encode_vit", s, i, "none")
  BY <1>1, <1>3, GraphFailuresGood, EncodeReturnsIInv
<1>4. CASE EncodeReturns("encode_vit", CheckPeCache(VitEncoded(s, i)), i, "vit")
  BY <1>1, <1>4, VitEncodedGood, PeCacheGood, EncodeReturnsIInv
<1> QED
  BY <1>2, <1>3, <1>4 DEF sam3_encode_vit_from_preprocessed_selective

\* A text prompt preserves the invariant, answered, refused or faulting.
LEMMA SegmentPcsIInv ==
  ASSUME IInv, NEW p \in Prompts, sam3_segment_pcs(p)
  PROVE  IInv'
<1>1. /\ status = "open" /\ "pcs" \in CallNames /\ Good(session)
      /\ "neck_det" \in TensorName /\ {"trt", "ggml"} \subseteq {"trt", "ggml", "cpu"}
  BY DepFacts DEF sam3_segment_pcs, Open, CallNames, TensorName
<1>2. DetFault \in Faults \cup {"none"} /\ GgmlPcsFault \in Faults \cup {"none"}
      /\ TrtPcsFault(p) \in Faults \cup {"none"}
  BY DEF DetFault, GgmlPcsFault, TrtPcsFault, FirstOf, ReadFault, Faults
<1> DEFINE u == Free(Allocate(session, Locals), Locals)
<1>3. /\ Good(u) /\ u.tensor = session.tensor
      /\ \A h \in Handle : u.handle[h] = session.handle[h]
  BY <1>1, ScratchGood DEF Good, Quiet, Handle
<1> HIDE DEF u
<1>4. CASE \E f \in Faults : Crash("pcs", f)
  BY <1>1, <1>4, CrashIInv
<1>5. CASE AnswersNothing("pcs", session) \/ Answers("pcs", session, "neck_det", "trt")
  BY <1>1, <1>5, PromptReturnsIInv
<1>6. CASE \E v \in GraphFailures(session) : AnswersNothing("pcs", v)
  BY <1>1, <1>6, GraphFailuresGood, PromptReturnsIInv
<1>7. CASE Answers("pcs", u, "neck_det", "ggml")
  BY <1>1, <1>3, <1>7, PromptReturnsIInv
<1> QED
  BY <1>2, <1>4, <1>5, <1>6, <1>7 DEF sam3_segment_pcs, u

\* A point or box prompt preserves the invariant.
LEMMA SegmentPvsIInv ==
  ASSUME IInv, NEW p \in Prompts, sam3_segment_pvs(p)
  PROVE  IInv'
<1> DEFINE s == IF TrtReady THEN FillPeCache(session) ELSE session
           f == FillPeCache(s)
           u == Free(Allocate(f, Locals), Locals)
<1>1. /\ status = "open" /\ "pvs" \in CallNames /\ dep.size \in Sizes
      /\ "neck_trk" \in TensorName /\ {"trt", "ggml"} \subseteq {"trt", "ggml", "cpu"}
  BY DepFacts DEF sam3_segment_pvs, Open, CallNames, TensorName
<1>2. Good(s) /\ s.tensor = session.tensor /\ s.handle = session.handle
  BY <1>1, DepFacts, PeCacheGood
<1> HIDE DEF s
<1>3. Good(f) /\ f.tensor = session.tensor /\ f.handle = session.handle
  BY <1>1, <1>2, PeCacheGood
<1>4. GgmlPvsFault(s) \in Faults \cup {"none"} /\ TrtPvsFault(s, p) \in Faults \cup {"none"}
  BY DEF GgmlPvsFault, TrtPvsFault, FirstOf, ReadFault, Faults
<1> HIDE DEF f
<1>5. /\ Good(u) /\ u.tensor = session.tensor
      /\ \A h \in Handle : u.handle[h] = session.handle[h]
  BY <1>3, ScratchGood DEF Good, Quiet, Handle
<1> HIDE DEF u
<1>6. CASE \E e \in Faults : Crash("pvs", e)
  BY <1>1, <1>6, CrashIInv
<1>7. CASE AnswersNothing("pvs", s) \/ Answers("pvs", s, "neck_trk", "trt")
  BY <1>1, <1>2, <1>7, PromptReturnsIInv
<1>8. CASE \E v \in GraphFailures(s) \cup GraphFailures(f) : AnswersNothing("pvs", v)
  BY <1>1, <1>2, <1>3, <1>8, GraphFailuresGood, PromptReturnsIInv
<1>9. CASE Answers("pvs", u, "neck_trk", "ggml")
  BY <1>1, <1>5, <1>9, PromptReturnsIInv
<1> QED
  BY <1>4, <1>6, <1>7, <1>8, <1>9 DEF sam3_segment_pvs, s, f, u

\* Computing an exemplar embedding preserves the invariant.
LEMMA ExemplarIInv ==
  ASSUME IInv, sam3_pcs_compute_exemplar_embedding
  PROVE  IInv'
<1>1. /\ status = "open" /\ "exemplar" \in CallNames /\ Good(session)
      /\ "neck_det" \in TensorName /\ "cpu" \in {"trt", "ggml", "cpu"}
  BY DepFacts DEF sam3_pcs_compute_exemplar_embedding, Open, CallNames, TensorName
<1>2. ExemplarFault \in Faults \cup {"none"}
  BY DEF ExemplarFault, GeometryFault, FirstOf, DetFault, ReadFault, Faults
<1>3. CASE \E f \in Faults : Crash("exemplar", f)
  BY <1>1, <1>3, CrashIInv
<1>4. CASE AnswersNothing("exemplar", session) \/ Answers("exemplar", session, "neck_det", "cpu")
  BY <1>1, <1>4, PromptReturnsIInv
<1> QED
  BY <1>2, <1>3, <1>4 DEF sam3_pcs_compute_exemplar_embedding

\* The two FP8 switches preserve the invariant.
LEMMA SetFp8IInv ==
  ASSUME IInv, NEW on \in BOOLEAN, sam3_set_encoder_fp8(on) \/ sam3_set_pcs_fp8(on)
  PROVE  IInv'
<1>1. /\ Good(session) /\ session \in SessionType
      /\ dep' = dep /\ last' = last /\ out' = out /\ status' = status
      /\ \E b \in BOOLEAN : \/ session' = [session EXCEPT !.encFp8 = b]
                            \/ session' = [session EXCEPT !.pcsFp8 = b]
  BY DepFacts DEF sam3_set_encoder_fp8, sam3_set_pcs_fp8, Good, Sound, SessionType
<1>2. /\ session' \in SessionType /\ session'.handle = session.handle
      /\ session'.live = session.live /\ session'.tensor = session.tensor
  BY <1>1 DEF SessionType
<1>3. Good(session)'
  BY <1>1, <1>2 DEF Good, Sound, Owned, Quiet
<1>4. TypeOK'
  BY <1>1, <1>2 DEF IInv, TypeOK
<1>5. (Encoded /\ status # "freed" => HoldsFeatures(session, last.of, last.path))'
  BY <1>1, <1>2 DEF IInv, Encoded, HoldsFeatures, IsNull
<1> QED
  BY <1>1, <1>2, <1>3, <1>4, <1>5 DEF IInv, FreedMeansEmpty

\* Freeing the state, once or again, preserves the invariant.
LEMMA FreeStateIInv ==
  ASSUME IInv, sam3_free_state
  PROVE  IInv'
<1>1. /\ session' = Free(session, Fields) /\ status' = "freed" /\ dep' = dep /\ last' = last
      /\ out' = [call |-> "free", path |-> "none", of |-> NoImage, dims |-> NoImage]
  BY DEF sam3_free_state, Freed, Nothing
<1>2. Fields \subseteq Handle /\ Handle = Fields \cup Locals /\ Good(session)
  BY DepFacts DEF Handle
<1>3. /\ Sound(session')
      /\ \A h \in Handle : session'.handle[h] = IF h \in Fields THEN Null ELSE session.handle[h]
  BY <1>1, <1>2, FreeSound DEF Good
<1>4. \A h \in Handle : session'.handle[h] = Null
  BY <1>2, <1>3 DEF Good, Quiet
<1>5. session'.live = {}
  BY <1>3, <1>4 DEF Sound, Owned
<1>6. Good(session)'
  BY <1>2, <1>3, <1>4 DEF Good, Sound, Owned, Quiet
<1>7. TypeOK'
  BY <1>1, <1>3 DEF IInv, TypeOK, Sound, CallNames
<1> QED
  BY <1>1, <1>5, <1>6, <1>7 DEF IInv, FreedMeansEmpty

\* A step that changes nothing.
LEMMA StutterIInv ==
  ASSUME IInv, UNCHANGED vars
  PROVE  IInv'
<1>1. dep' = dep /\ session' = session /\ last' = last /\ out' = out /\ status' = status
  BY DEF vars
<1>2. Good(session)'
  BY <1>1 DEF IInv, Good, Sound, Owned, Quiet
<1>3. (Encoded /\ status # "freed" => HoldsFeatures(session, last.of, last.path))'
  BY <1>1 DEF IInv, Encoded, HoldsFeatures, IsNull
<1> QED
  BY <1>1, <1>2, <1>3 DEF IInv, TypeOK, FreedMeansEmpty

\* The strengthened invariant holds in every state of every session.
THEOREM Invariance == Spec => []IInv
<1>1. IInv /\ [Next]_vars => IInv'
  BY EncodeImageIInv, EncodePrepIInv, EncodeVitIInv, SegmentPcsIInv, SegmentPvsIInv,
     ExemplarIInv, SetFp8IInv, FreeStateIInv, StutterIInv DEF Next
<1> QED
  BY InitIInv, <1>1, PTL DEF Spec

\* Every variable keeps its type.
THEOREM TypeCorrect == Spec => []TypeOK
<1>1. IInv => TypeOK
  BY DEF IInv
<1> QED
  BY Invariance, <1>1, PTL

\* Memory is owned exactly once between any two calls: nothing leaks, nothing
\* is freed twice, whatever fails.
THEOREM OwnershipHolds == Spec => []Ownership
<1>1. IInv => Ownership
  <2> SUFFICES ASSUME IInv PROVE Ownership
    OBVIOUS
  <2>1. Owned(session) /\ Quiet(session) /\ Handle = Fields \cup Locals
    BY DEF IInv, Good, Sound, Handle
  <2>2. session.live = {session.handle[h] : h \in Fields} \ {Null}
    BY <2>1 DEF Owned, Quiet
  <2> QED
    BY <2>1, <2>2 DEF Ownership, Owned, Quiet
<1> QED
  BY Invariance, <1>1, PTL

\* A freed state owns nothing.
THEOREM FreeIsComplete == Spec => []FreedMeansEmpty
<1>1. IInv => FreedMeansEmpty
  BY DEF IInv
<1> QED
  BY Invariance, <1>1, PTL

\* What the prompts read after a successful encode is live and current.
THEOREM FeaturesCurrent == Spec => []EncodedFeaturesCurrent
<1>1. IInv => EncodedFeaturesCurrent
  <2> SUFFICES ASSUME IInv, Encoded, status # "freed" PROVE EncodedFeaturesCurrent
    BY DEF EncodedFeaturesCurrent
  <2>1. HoldsFeatures(session, last.of, last.path) /\ Owned(session)
    BY DEF IInv, Good, Sound
  <2>2. {"trt_out_ctx", "trt_out_buf", "ctx", "galloc"} \subseteq Handle
    BY DEF Handle, Fields
  <2>3. /\ ~IsNull(session, "neck_trk")
        /\ session.tensor["neck_trk"].meta \in session.live
        /\ session.tensor["neck_trk"].data \in session.live
        /\ session.tensor["neck_trk"].of = last.of
    BY <2>1, <2>2 DEF HoldsFeatures, Owned, IsNull
  <2>4. ReadFault(session, "neck_trk", session.tensor["neck_trk"].size) = "none"
    BY <2>3 DEF ReadFault
  <2>5. IF dep.visualOnly /\ last.path = "ggml" THEN IsNull(session, "neck_det")
        ELSE /\ session.tensor["neck_det"] = session.tensor["neck_trk"]
             /\ ~IsNull(session, "neck_det")
    BY <2>1, <2>3 DEF HoldsFeatures, IsNull
  <2> QED
    BY <2>3, <2>4, <2>5 DEF EncodedFeaturesCurrent
<1> QED
  BY Invariance, <1>1, PTL

-----------------------------------------------------------------------------
(***************************************************************************)
(* Second part: what a client gets to see of one session.  An answer is of *)
(* the image that was encoded last, at its size; a failed encode leaves    *)
(* what there was; a prompt after an encode reads valid memory.            *)
(*                                                                         *)
(* The first part follows the blocks; here the size of the picture and of  *)
(* the features are added to what an encode leaves behind.                 *)
(***************************************************************************)
-----------------------------------------------------------------------------
(* What the calls are built from keeps the size of the picture               *)

Sized(s) == "orig" \in DOMAIN s

KeepsSize(s, r) == DOMAIN r = DOMAIN s /\ r.orig = s.orig

LEMMA KeepsSizeTwice ==
  ASSUME NEW s, NEW r, NEW q, KeepsSize(s, r), KeepsSize(r, q)
  PROVE  KeepsSize(s, q)
BY DEF KeepsSize

\* Memory and pointers are other fields of the state than the size.
LEMMA PartsKeepSize ==
  ASSUME NEW s, Sized(s)
  PROVE  /\ \A H : KeepsSize(s, Free(s, H))
         /\ \A H : KeepsSize(s, Allocate(s, H))
         /\ KeepsSize(s, Adopt(s))
         /\ \A T, m, d, i, sz : KeepsSize(s, Point(s, T, m, d, i, sz))
         /\ \A T : KeepsSize(s, NullOut(s, T))
         /\ \A b : KeepsSize(s, [s EXCEPT !.neckPeValid = b])
         /\ \A c : KeepsSize(s, [s EXCEPT !.peCache = c])
<1>1. \A H : KeepsSize(s, Free(s, H)) BY DEF Sized, KeepsSize, Free
<1>2. \A H : KeepsSize(s, Allocate(s, H)) BY DEF Sized, KeepsSize, Allocate
<1>3. KeepsSize(s, Adopt(s)) BY DEF Sized, KeepsSize, Adopt
<1>4. \A T, m, d, i, sz : KeepsSize(s, Point(s, T, m, d, i, sz))
  BY DEF Sized, KeepsSize, Point
<1>5. \A T : KeepsSize(s, NullOut(s, T)) BY DEF Sized, KeepsSize, NullOut
<1>6. \A b : KeepsSize(s, [s EXCEPT !.neckPeValid = b]) BY DEF Sized, KeepsSize
<1>7. \A c : KeepsSize(s, [s EXCEPT !.peCache = c]) BY DEF Sized, KeepsSize
<1> QED BY <1>1, <1>2, <1>3, <1>4, <1>5, <1>6, <1>7

LEMMA ScratchKeepsSize ==
  ASSUME NEW s, Sized(s), NEW H
  PROVE  KeepsSize(s, Free(Allocate(s, H), H))
<1>1. KeepsSize(s, Allocate(s, H)) BY PartsKeepSize
<1>2. Sized(Allocate(s, H)) BY <1>1 DEF KeepsSize, Sized
<1>3. KeepsSize(Allocate(s, H), Free(Allocate(s, H), H)) BY <1>2, PartsKeepSize
<1> QED BY <1>1, <1>3, KeepsSizeTwice

\* An encode by either path, successful or not.
LEMMA TrtEncodedKeepsSize ==
  ASSUME NEW s, Sized(s), NEW i
  PROVE  KeepsSize(s, TrtEncoded(s, i))
<1> DEFINE d == DropEncode(s)
           a == Allocate(d, {"trt_out_ctx", "trt_out_buf"})
<1>1. KeepsSize(s, d) BY PartsKeepSize DEF DropEncode
<1>2. Sized(d) BY <1>1 DEF KeepsSize, Sized
<1> HIDE DEF d
<1>3. KeepsSize(d, a) BY <1>2, PartsKeepSize
<1>4. Sized(a) BY <1>2, <1>3 DEF KeepsSize, Sized
<1> HIDE DEF a
<1>5. KeepsSize(a, Point(a, {"vit_output", "neck_det", "neck_trk"}, "trt_out_ctx",
                         "trt_out_buf", i, "native"))
  BY <1>4, PartsKeepSize
<1> QED BY <1>1, <1>3, <1>5, KeepsSizeTwice DEF TrtEncoded, a, d

LEMMA TrtMissesKeepsSize ==
  ASSUME NEW s, Sized(s), NEW sz, NEW t \in TrtMisses(s, sz)
  PROVE  KeepsSize(s, t)
<1>1. CASE t = s BY <1>1 DEF KeepsSize
<1>2. CASE t # s
  <2>1. PICK H \in {{}, {"trt_out_ctx"}, {"trt_out_ctx", "trt_out_buf"}} :
          t = Free(Allocate(DropEncode(s), H), H)
    BY <1>2 DEF TrtMisses
  <2>2. KeepsSize(s, DropEncode(s)) BY PartsKeepSize DEF DropEncode
  <2>3. Sized(DropEncode(s)) BY <2>2 DEF KeepsSize, Sized
  <2> QED BY <2>1, <2>2, <2>3, ScratchKeepsSize, KeepsSizeTwice
<1> QED BY <1>1, <1>2

LEMMA GraphFailuresKeepsSize ==
  ASSUME NEW s, Sized(s), NEW u \in GraphFailures(s)
  PROVE  KeepsSize(s, u)
<1>1. PICK H \in {{}, Locals} : u = Free(Allocate(s, H), H) BY DEF GraphFailures
<1> QED BY <1>1, ScratchKeepsSize

LEMMA GgmlEncodedKeepsSize ==
  ASSUME NEW s, Sized(s), NEW i, NEW sz
  PROVE  KeepsSize(s, GgmlEncoded(s, i, sz))
<1> DEFINE a == Allocate(s, Locals)
           f == Free(a, {"galloc", "ctx"})
           b == Adopt(f)
           n == NullOut(b, {"neck_det"})
           r == Point(n, {"vit_output"} \cup Necks, "ctx", "galloc", i, sz)
<1>1. KeepsSize(s, a) BY PartsKeepSize
<1>2. Sized(a) BY <1>1 DEF KeepsSize, Sized
<1> HIDE DEF a
<1>3. KeepsSize(a, f) BY <1>2, PartsKeepSize
<1>4. Sized(f) BY <1>2, <1>3 DEF KeepsSize, Sized
<1> HIDE DEF f
<1>5. KeepsSize(f, b) BY <1>4, PartsKeepSize
<1>6. Sized(b) BY <1>4, <1>5 DEF KeepsSize, Sized
<1> HIDE DEF b
<1>7. KeepsSize(b, n) BY <1>6, PartsKeepSize
<1>8. Sized(n) BY <1>6, <1>7 DEF KeepsSize, Sized
<1> HIDE DEF n
<1>9. KeepsSize(n, r) BY <1>8, PartsKeepSize
<1>10. r = GgmlEncoded(s, i, sz) BY DEF GgmlEncoded, r, n, b, f, a
<1> HIDE DEF r
<1> QED BY <1>1, <1>3, <1>5, <1>7, <1>9, <1>10, KeepsSizeTwice

LEMMA PeRebuildsKeepsSize ==
  ASSUME NEW s, Sized(s), NEW r \in {PeRebuilds(s).ok} \cup PeRebuilds(s).failed
  PROVE  KeepsSize(s, r)
<1> DEFINE f == Free(s, {"pe_buf", "pe_ctx"})
           bare == Allocate(f, {"pe_ctx"})
           a == Allocate(bare, {"pe_buf"})
           full == Point(a, {"neck_pe"}, "pe_ctx", "pe_buf", NoImage, "native")
<1>1. KeepsSize(s, f) BY PartsKeepSize
<1>2. Sized(f) BY <1>1 DEF KeepsSize, Sized
<1> HIDE DEF f
<1>3. KeepsSize(f, bare) BY <1>2, PartsKeepSize
<1>4. Sized(bare) BY <1>2, <1>3 DEF KeepsSize, Sized
<1> HIDE DEF bare
<1>5. KeepsSize(bare, a) BY <1>4, PartsKeepSize
<1>6. Sized(a) BY <1>4, <1>5 DEF KeepsSize, Sized
<1> HIDE DEF a
<1>7. KeepsSize(a, full) BY <1>6, PartsKeepSize
<1>8. r \in {full, bare} BY DEF PeRebuilds, full, a, bare, f
<1> HIDE DEF full
<1> QED BY <1>1, <1>3, <1>5, <1>7, <1>8, KeepsSizeTwice

LEMMA NeckPeKeepsSize ==
  ASSUME NEW s, Sized(s), NEW r \in RefreshNeckPe(s) \cup RebuildNeckPe(s)
  PROVE  KeepsSize(s, r)
<1> DEFINE ok == PeRebuilds(s).ok
<1>1. CASE r = s BY <1>1 DEF KeepsSize
<1>2. CASE r \in {ok} \cup PeRebuilds(s).failed BY <1>2, PeRebuildsKeepsSize
<1>3. CASE r = [ok EXCEPT !.neckPeValid = TRUE]
  <2>1. KeepsSize(s, ok) BY PeRebuildsKeepsSize
  <2>2. Sized(ok) BY <2>1 DEF KeepsSize, Sized
  <2> HIDE DEF ok
  <2>3. KeepsSize(ok, r) BY <1>3, <2>2, PartsKeepSize
  <2> QED BY <2>1, <2>3, KeepsSizeTwice
<1> QED BY <1>1, <1>2, <1>3 DEF RefreshNeckPe, RebuildNeckPe

LEMMA PeCacheKeepsSize ==
  ASSUME NEW s, Sized(s), NEW r \in {CheckPeCache(s), FillPeCache(s)}
  PROVE  KeepsSize(s, r)
<1>1. \E c : r = [s EXCEPT !.peCache = c] BY DEF CheckPeCache, FillPeCache
<1> QED BY <1>1, PartsKeepSize

-----------------------------------------------------------------------------
(* The size the features were computed at                                   *)

TrackerSize(s) == s.tensor["neck_trk"].size

LEMMA TrtEncodedSize ==
  ASSUME NEW s, Good(s), NEW i \in Images \cup Preprocessed
  PROVE  TrackerSize(TrtEncoded(s, i)) = "native"
<1> DEFINE a == Allocate(DropEncode(s), {"trt_out_ctx", "trt_out_buf"})
<1>1. Good(a)
  <2>1. Good(DropEncode(s)) /\ \A h \in {"trt_out_ctx", "trt_out_buf"} : DropEncode(s).handle[h] = Null
    BY DropEncodeGood
  <2>2. {"trt_out_ctx", "trt_out_buf"} \subseteq Handle /\ Locals \subseteq Handle
        /\ {"trt_out_ctx", "trt_out_buf"} \cap Locals = {}
    BY DEF Handle, Fields, Locals
  <2> QED BY <2>1, <2>2, AllocateSound DEF Good, Quiet
<1> HIDE DEF a
<1>2. "trt_out_ctx" \in Handle /\ "trt_out_buf" \in Handle /\ i \in Pictures /\ "native" \in Sizes
      /\ "neck_trk" \in TensorName
  BY DEF Handle, Fields, Pictures, Sizes, TensorName
<1>3. Point(a, {"vit_output", "neck_det", "neck_trk"}, "trt_out_ctx", "trt_out_buf", i, "native")
        .tensor["neck_trk"] = Ref(a, "trt_out_ctx", "trt_out_buf", i, "native")
  BY <1>1, <1>2, PointGood
<1> QED BY <1>3 DEF TrtEncoded, TrackerSize, Ref, a

LEMMA GgmlEncodedSize ==
  ASSUME NEW s, Good(s), NEW i \in Images \cup Preprocessed, NEW sz \in Sizes
  PROVE  TrackerSize(GgmlEncoded(s, i, sz)) = sz
<1> DEFINE b == Adopt(Free(Allocate(s, Locals), {"galloc", "ctx"}))
           n == NullOut(b, {"neck_det"})
<1>1. Good(b) BY BuiltGood DEF Fields
<1> HIDE DEF b
<1>2. Good(n) BY <1>1, NullOutGood
<1> HIDE DEF n
<1>3. "ctx" \in Handle /\ "galloc" \in Handle /\ i \in Pictures /\ "neck_trk" \in TensorName
      /\ "neck_trk" \in {"vit_output"} \cup Necks
  BY DEF Handle, Fields, Pictures, TensorName, Necks
<1>4. Point(n, {"vit_output"} \cup Necks, "ctx", "galloc", i, sz).tensor["neck_trk"]
        = Ref(n, "ctx", "galloc", i, sz)
  BY <1>2, <1>3, PointGood
<1> QED BY <1>4 DEF GgmlEncoded, TrackerSize, Ref, b, n

\* Refreshing the encodings leaves the features alone.
LEMMA NeckPeKeepsTracker ==
  ASSUME NEW s, Good(s), NEW r \in RefreshNeckPe(s) \cup RebuildNeckPe(s)
  PROVE  r.tensor["neck_trk"] = s.tensor["neck_trk"]
<1> DEFINE ok == PeRebuilds(s).ok
<1>1. CASE r = s BY <1>1
<1>2. CASE r \in {ok} \cup PeRebuilds(s).failed
  BY <1>2, PeRebuildsGood DEF TensorName
<1>3. CASE r = [ok EXCEPT !.neckPeValid = TRUE]
  <2>1. Good(ok) /\ ok.tensor["neck_trk"] = s.tensor["neck_trk"]
    BY PeRebuildsGood DEF TensorName
  <2> HIDE DEF ok
  <2>2. r.tensor = ok.tensor
    BY <1>3, <2>1 DEF Good, Sound, SessionType
  <2> QED BY <2>1, <2>2
<1> QED BY <1>1, <1>2, <1>3 DEF RefreshNeckPe, RebuildNeckPe

-----------------------------------------------------------------------------
(* The invariant                                                             *)

\* What an encode of picture i over the given path leaves in s.
Encodes(s, i, path) ==
  /\ dep.size = "native" => TrackerSize(s) = "native"
  /\ path = "ggml" \/ i \in Images => s.orig = Dims(i)

AnswerInv ==
  /\ IInv
  /\ Encoded /\ status # "freed" => Encodes(session, last.of, last.path)
  /\ AnswerMatchesEncode

LEMMA GoodIsSized == ASSUME NEW s, Good(s) PROVE Sized(s)
BY DEF Good, Sound, SessionType, Sized

LEMMA SetOrigSizes ==
  ASSUME NEW s, Sized(s), NEW i
  PROVE  Sized(SetOrig(s, i)) /\ SetOrig(s, i).orig = Dims(i)
BY DEF SetOrig, Sized

LEMMA InitAnswerInv == Init => AnswerInv
<1> SUFFICES ASSUME Init PROVE AnswerInv OBVIOUS
<1>1. IInv BY InitIInv
<1> QED BY <1>1 DEF Init, AnswerInv, Encoded, AnswerMatchesEncode, Nothing

LEMMA EncodeReturnsAnswerInv ==
  ASSUME AnswerInv, IInv', NEW call \in {"encode", "encode_prep", "encode_vit"}, NEW s, NEW i, NEW path,
         path \in {"trt", "ggml"} => Encodes(s, i, path),
         EncodeReturns(call, s, i, path)
  PROVE  AnswerInv'
<1>1. /\ session' = s /\ last' = [of |-> i, path |-> path] /\ dep' = dep /\ status' = status
      /\ out'.of = NoImage
  BY DEF EncodeReturns, Nothing
<1>2. (Encoded /\ status # "freed" => Encodes(session, last.of, last.path))'
  BY <1>1 DEF Encoded, Encodes, TrackerSize
<1>3. AnswerMatchesEncode' BY <1>1 DEF AnswerMatchesEncode
<1> QED BY <1>2, <1>3 DEF AnswerInv

\* A prompt that answers from a tensor which is the tracker neck of the last
\* encode, or answers nothing.
LEMMA PromptReturnsAnswerInv ==
  ASSUME AnswerInv, IInv', status = "open", NEW call, NEW s, KeepsSize(session, s),
         s.tensor = session.tensor,
         \/ \E t \in TensorName : \E path \in {"trt", "ggml", "cpu"} :
               /\ Answers(call, s, t, path)
               /\ Encoded => session.tensor[t] = session.tensor["neck_trk"]
         \/ AnswersNothing(call, s)
  PROVE  AnswerInv'
<1>1. /\ session' = s /\ last' = last /\ dep' = dep /\ status' = status
  BY DEF Answers, AnswersNothing
<1>2. (Encoded /\ status # "freed" => Encodes(session, last.of, last.path))'
  BY <1>1 DEF AnswerInv, Encoded, Encodes, TrackerSize, KeepsSize
<1>3. Encoded /\ out'.of # NoImage => out'.of = session.tensor["neck_trk"].of /\ out'.dims = session.orig
  BY <1>1 DEF Answers, AnswersNothing, Nothing, KeepsSize
<1>4. Encoded => /\ session.tensor["neck_trk"].of = last.of
                 /\ Encodes(session, last.of, last.path)
  BY DEF AnswerInv, IInv, HoldsFeatures
<1>5. AnswerMatchesEncode'
  BY <1>1, <1>3, <1>4 DEF AnswerMatchesEncode, Encoded, Encodes
<1> QED BY <1>2, <1>5 DEF AnswerInv

LEMMA CrashAnswerInv ==
  ASSUME AnswerInv, IInv', status = "open", NEW call, NEW fault, Crash(call, fault)
  PROVE  AnswerInv'
<1>1. session' = session /\ last' = last /\ dep' = dep /\ out'.of = NoImage
  BY DEF Crash, Nothing
<1>2. (Encoded /\ status # "freed" => Encodes(session, last.of, last.path))'
  BY <1>1 DEF AnswerInv, Encoded, Encodes, TrackerSize
<1> QED BY <1>1, <1>2 DEF AnswerInv, AnswerMatchesEncode

-----------------------------------------------------------------------------
(* Every action preserves it                                                 *)

LEMMA EncodeImageAnswerInv ==
  ASSUME AnswerInv, IInv', NEW i \in Images, sam3_encode_image(i)
  PROVE  AnswerInv'
<1> DEFINE s == SetOrig(session, i)
<1>1. /\ i \in Images \cup Preprocessed /\ dep.size \in Sizes /\ Good(s)
      /\ Sized(s) /\ s.orig = Dims(i)
  BY DepFacts, SetOrigGood, SetOrigSizes, GoodIsSized DEF AnswerInv
<1> HIDE DEF s
<1>2. CASE EncodeReturns("encode", TrtEncoded(s, i), i, "trt")
  <2>1. Encodes(TrtEncoded(s, i), i, "trt")
    BY <1>1, TrtEncodedSize, TrtEncodedKeepsSize DEF Encodes, KeepsSize
  <2> QED BY <1>2, <2>1, EncodeReturnsAnswerInv
<1>3. ASSUME NEW t, EncodeReturns("encode", t, i, "none") PROVE AnswerInv'
  BY <1>3, EncodeReturnsAnswerInv
<1>4. ASSUME NEW t \in TrtMisses(s, dep.size),
             NEW u \in RefreshNeckPe(GgmlEncoded(t, i, dep.size)),
             EncodeReturns("encode", CheckPeCache(u), i, "ggml")
      PROVE  AnswerInv'
  <2> DEFINE g == GgmlEncoded(t, i, dep.size)
             c == CheckPeCache(u)
  <2>1. Good(t) /\ Sized(t) /\ t.orig = Dims(i)
    BY <1>1, TrtMissesGood, TrtMissesKeepsSize DEF KeepsSize, Sized
  <2>2. Good(g) /\ Sized(g) /\ g.orig = Dims(i) /\ TrackerSize(g) = dep.size
    BY <1>1, <2>1, GgmlEncodedGood, GgmlEncodedKeepsSize, GgmlEncodedSize DEF KeepsSize, Sized
  <2> HIDE DEF g
  <2>3. /\ Sized(u) /\ u.orig = Dims(i) /\ u.tensor["neck_trk"] = g.tensor["neck_trk"]
    BY <1>4, <2>2, NeckPeKeepsSize, NeckPeKeepsTracker DEF g, KeepsSize, Sized
  <2>4. Good(u)
    BY <1>1, <1>4, <2>1, GgmlEncodedGood, NeckPeGood
  <2>5. c.orig = Dims(i) /\ c.tensor = u.tensor
    BY <1>1, <2>3, <2>4, PeCacheGood, PeCacheKeepsSize DEF KeepsSize
  <2> HIDE DEF c
  <2>6. Encodes(c, i, "ggml")
    BY <2>2, <2>3, <2>5 DEF Encodes, TrackerSize
  <2> QED BY <1>4, <2>6, EncodeReturnsAnswerInv DEF c
<1> QED BY <1>2, <1>3, <1>4 DEF sam3_encode_image, s

LEMMA EncodePrepAnswerInv ==
  ASSUME AnswerInv, IInv', NEW i \in Preprocessed, sam3_encode_image_from_preprocessed(i)
  PROVE  AnswerInv'
<1>1. /\ i \in Images \cup Preprocessed /\ i \notin Images /\ dep.size \in Sizes /\ Good(session)
      /\ "native" \in Sizes
  BY DepFacts, ImagesAssumption DEF AnswerInv, Sizes
<1>2. CASE EncodeReturns("encode_prep", TrtEncoded(session, i), i, "trt")
  <2>1. Encodes(TrtEncoded(session, i), i, "trt")
    BY <1>1, TrtEncodedSize DEF Encodes
  <2> QED BY <1>2, <2>1, EncodeReturnsAnswerInv
<1>3. ASSUME NEW t, EncodeReturns("encode_prep", t, i, "none") PROVE AnswerInv'
  BY <1>3, EncodeReturnsAnswerInv
<1>4. ASSUME NEW t \in TrtMisses(session, "native"),
             NEW u \in RebuildNeckPe(GgmlEncoded(SetOrig(t, i), i, "native")),
             EncodeReturns("encode_prep", CheckPeCache(u), i, "ggml")
      PROVE  AnswerInv'
  <2> DEFINE o == SetOrig(t, i)
             g == GgmlEncoded(o, i, "native")
             c == CheckPeCache(u)
  <2>1. Good(o) /\ Sized(o) /\ o.orig = Dims(i)
    BY <1>1, TrtMissesGood, SetOrigGood, SetOrigSizes, GoodIsSized
  <2> HIDE DEF o
  <2>2. Good(g) /\ Sized(g) /\ g.orig = Dims(i) /\ TrackerSize(g) = "native"
        /\ HoldsFeatures(g, i, "ggml")
    BY <1>1, <2>1, GgmlEncodedGood, GgmlEncodedKeepsSize, GgmlEncodedSize DEF KeepsSize, Sized
  <2> HIDE DEF g
  <2>3. u \in RebuildNeckPe(g) BY <1>4 DEF g, o
  <2>4. /\ Sized(u) /\ u.orig = Dims(i) /\ u.tensor["neck_trk"] = g.tensor["neck_trk"]
    BY <2>2, <2>3, NeckPeKeepsSize, NeckPeKeepsTracker DEF KeepsSize, Sized
  <2>5. Good(u)
    BY <2>2, <2>3, NeckPeGood
  <2>6. c.orig = Dims(i) /\ c.tensor = u.tensor
    BY <1>1, <2>4, <2>5, PeCacheGood, PeCacheKeepsSize DEF KeepsSize
  <2> HIDE DEF c
  <2>7. Encodes(c, i, "ggml")
    BY <2>2, <2>4, <2>6 DEF Encodes, TrackerSize
  <2> QED BY <1>4, <2>7, EncodeReturnsAnswerInv DEF c
<1> QED BY <1>2, <1>3, <1>4 DEF sam3_encode_image_from_preprocessed

LEMMA EncodeVitAnswerInv ==
  ASSUME AnswerInv, IInv', NEW i \in Preprocessed, sam3_encode_vit_from_preprocessed_selective(i)
  PROVE  AnswerInv'
<1>1. CASE Crash("encode_vit", "missing_weights")
  BY <1>1, CrashAnswerInv DEF sam3_encode_vit_from_preprocessed_selective, Open
<1>2. CASE \E u, path : path \in {"none", "vit"} /\ EncodeReturns("encode_vit", u, i, path)
  BY <1>2, EncodeReturnsAnswerInv
<1> QED BY <1>1, <1>2 DEF sam3_encode_vit_from_preprocessed_selective

\* What is scratched together for a graph and dropped again leaves the tensors
\* and the size.
LEMMA ScratchOf ==
  ASSUME NEW s, Good(s), NEW u \in GraphFailures(s) \cup {Free(Allocate(s, Locals), Locals)}
  PROVE  KeepsSize(s, u) /\ u.tensor = s.tensor
<1>1. Sized(s) BY GoodIsSized
<1>2. Locals \subseteq Handle /\ \A h \in Locals : s.handle[h] = Null
  BY DEF Good, Quiet, Handle
<1> QED BY <1>1, <1>2, ScratchGood, ScratchKeepsSize, GraphFailuresGood, GraphFailuresKeepsSize

\* A prompt that can read the detector neck reads what the tracker's is.
LEMMA DetectorIsTracker ==
  ASSUME IInv, status # "freed", Encoded, ~IsNull(session, "neck_det")
  PROVE  session.tensor["neck_det"] = session.tensor["neck_trk"]
BY DEF IInv, HoldsFeatures

LEMMA SegmentPcsAnswerInv ==
  ASSUME AnswerInv, IInv', NEW p \in Prompts, sam3_segment_pcs(p)
  PROVE  AnswerInv'
<1>1. /\ status = "open" /\ Good(session) /\ Sized(session) /\ KeepsSize(session, session)
      /\ "neck_det" \in TensorName
  BY DepFacts, GoodIsSized DEF AnswerInv, sam3_segment_pcs, Open, KeepsSize, TensorName
<1>2. CASE \E f : Crash("pcs", f) BY <1>1, <1>2, CrashAnswerInv
<1>3. CASE AnswersNothing("pcs", session) BY <1>1, <1>3, PromptReturnsAnswerInv
<1>4. CASE \E u \in GraphFailures(session) : AnswersNothing("pcs", u)
  BY <1>1, <1>4, ScratchOf, PromptReturnsAnswerInv
<1>5. ASSUME NEW u \in {session, Free(Allocate(session, Locals), Locals)},
             NEW path \in {"trt", "ggml"}, Answers("pcs", u, "neck_det", path),
             ~IsNull(session, "neck_det")
      PROVE  AnswerInv'
  <2>1. KeepsSize(session, u) /\ u.tensor = session.tensor BY <1>1, ScratchOf
  <2>2. Encoded => session.tensor["neck_det"] = session.tensor["neck_trk"]
    BY <1>1, <1>5, DetectorIsTracker DEF AnswerInv
  <2> QED BY <1>1, <1>5, <2>1, <2>2, PromptReturnsAnswerInv
<1> QED BY <1>2, <1>3, <1>4, <1>5 DEF sam3_segment_pcs

LEMMA FilledKeeps ==
  ASSUME NEW s, Good(s), dep.size \in Sizes
  PROVE  /\ Good(FillPeCache(s)) /\ KeepsSize(s, FillPeCache(s))
         /\ FillPeCache(s).tensor = s.tensor /\ FillPeCache(s).live = s.live
<1>1. Good(FillPeCache(s)) /\ FillPeCache(s).tensor = s.tensor BY PeCacheGood
<1>2. KeepsSize(s, FillPeCache(s)) BY GoodIsSized, PeCacheKeepsSize
<1>3. FillPeCache(s).live = s.live BY DEF FillPeCache, Good, Sound, SessionType
<1> QED BY <1>1, <1>2, <1>3

LEMMA SegmentPvsAnswerInv ==
  ASSUME AnswerInv, IInv', NEW p \in Prompts, sam3_segment_pvs(p)
  PROVE  AnswerInv'
<1> DEFINE s == IF TrtReady THEN FillPeCache(session) ELSE session
           f == FillPeCache(s)
<1>1. /\ status = "open" /\ Good(session) /\ Sized(session) /\ KeepsSize(session, session)
      /\ "neck_trk" \in TensorName /\ dep.size \in Sizes
  BY DepFacts, GoodIsSized DEF AnswerInv, sam3_segment_pvs, Open, KeepsSize, TensorName
<1>2. Good(s) /\ KeepsSize(session, s) /\ s.tensor = session.tensor
  BY <1>1, FilledKeeps
<1> HIDE DEF s
<1>3. Good(f) /\ KeepsSize(session, f) /\ f.tensor = session.tensor
  BY <1>1, <1>2, FilledKeeps, KeepsSizeTwice
<1> HIDE DEF f
<1>4. CASE \E e : Crash("pvs", e) BY <1>1, <1>4, CrashAnswerInv
<1>5. CASE AnswersNothing("pvs", s) BY <1>1, <1>2, <1>5, PromptReturnsAnswerInv
<1>6. ASSUME NEW v \in GraphFailures(s) \cup GraphFailures(f), AnswersNothing("pvs", v)
      PROVE  AnswerInv'
  <2>1. KeepsSize(session, v) /\ v.tensor = session.tensor
    BY <1>2, <1>3, ScratchOf, KeepsSizeTwice
  <2> QED BY <1>1, <1>6, <2>1, PromptReturnsAnswerInv
<1>7. ASSUME NEW v \in {s, Free(Allocate(f, Locals), Locals)}, NEW path \in {"trt", "ggml"},
             Answers("pvs", v, "neck_trk", path)
      PROVE  AnswerInv'
  <2>1. KeepsSize(session, v) /\ v.tensor = session.tensor
    BY <1>2, <1>3, ScratchOf, KeepsSizeTwice
  <2> QED BY <1>1, <1>7, <2>1, PromptReturnsAnswerInv
<1> QED BY <1>4, <1>5, <1>6, <1>7 DEF sam3_segment_pvs, s, f

LEMMA ExemplarAnswerInv ==
  ASSUME AnswerInv, IInv', sam3_pcs_compute_exemplar_embedding
  PROVE  AnswerInv'
<1>1. /\ status = "open" /\ Good(session) /\ KeepsSize(session, session)
      /\ "neck_det" \in TensorName
  BY DepFacts DEF AnswerInv, sam3_pcs_compute_exemplar_embedding, Open, KeepsSize, TensorName
<1>2. CASE \E f : Crash("exemplar", f) BY <1>1, <1>2, CrashAnswerInv
<1>3. CASE AnswersNothing("exemplar", session) BY <1>1, <1>3, PromptReturnsAnswerInv
<1>4. CASE ~IsNull(session, "neck_det") /\ Answers("exemplar", session, "neck_det", "cpu")
  <2>1. Encoded => session.tensor["neck_det"] = session.tensor["neck_trk"]
    BY <1>1, <1>4, DetectorIsTracker DEF AnswerInv
  <2> QED BY <1>1, <1>4, <2>1, PromptReturnsAnswerInv
<1> QED BY <1>2, <1>3, <1>4 DEF sam3_pcs_compute_exemplar_embedding

\* Switches, the end of the session, and steps of others.
LEMMA OthersAnswerInv ==
  ASSUME AnswerInv, IInv',
         \/ \E on \in BOOLEAN : sam3_set_encoder_fp8(on) \/ sam3_set_pcs_fp8(on)
         \/ sam3_free_state
         \/ UNCHANGED vars
  PROVE  AnswerInv'
<1>1. session \in SessionType BY DepFacts DEF AnswerInv, Good, Sound
<1>2. CASE sam3_free_state
  <2>1. status' = "freed" /\ out'.call = "free" BY <1>2 DEF sam3_free_state, Nothing
  <2> QED BY <2>1 DEF AnswerInv, AnswerMatchesEncode
<1>3. CASE ~sam3_free_state
  <2>1. /\ session'.tensor = session.tensor /\ session'.orig = session.orig
        /\ last' = last /\ dep' = dep /\ out' = out /\ status' = status
    BY <1>1, <1>3 DEF sam3_set_encoder_fp8, sam3_set_pcs_fp8, SessionType, vars
  <2> QED BY <2>1 DEF AnswerInv, AnswerMatchesEncode, Encoded, Encodes, TrackerSize
<1> QED BY <1>2, <1>3

LEMMA NextAnswerInv == AnswerInv /\ [Next]_vars => AnswerInv'
<1> SUFFICES ASSUME AnswerInv, [Next]_vars PROVE AnswerInv' OBVIOUS
<1>1. IInv'
  BY EncodeImageIInv, EncodePrepIInv, EncodeVitIInv, SegmentPcsIInv, SegmentPvsIInv,
     ExemplarIInv, SetFp8IInv, FreeStateIInv, StutterIInv DEF AnswerInv, Next
<1> QED
  BY <1>1, EncodeImageAnswerInv, EncodePrepAnswerInv, EncodeVitAnswerInv, SegmentPcsAnswerInv,
     SegmentPvsAnswerInv, ExemplarAnswerInv, OthersAnswerInv DEF Next

THEOREM AnswerInvariance == Spec => []AnswerInv
BY InitAnswerInv, NextAnswerInv, PTL DEF Spec

\* A detection shows the image that the last encode was given, at the size of
\* that image, whichever path encoded and whichever answers.
THEOREM AnswersMatch == Spec => []AnswerMatchesEncode
<1>1. AnswerInv => AnswerMatchesEncode BY DEF AnswerInv
<1> QED BY AnswerInvariance, <1>1, PTL

-----------------------------------------------------------------------------
(* Failed encodes                                                            *)

\* The memory and the tensors of s and of r are the same.
SameImage(s, r) == r.tensor = s.tensor /\ r.handle = s.handle /\ r.live = s.live

LEMMA ScratchSameImage ==
  ASSUME NEW s, Good(s), NEW u \in GraphFailures(s)
  PROVE  SameImage(s, u)
<1>1. Good(u) /\ u.tensor = s.tensor /\ \A h \in Handle : u.handle[h] = s.handle[h]
  BY GraphFailuresGood
<1>2. u.handle \in [Handle -> Block \cup {Null}] /\ s.handle \in [Handle -> Block \cup {Null}]
  BY <1>1 DEF Good, Sound, SessionType
<1>3. u.handle = s.handle BY <1>1, <1>2
<1> QED BY <1>1, <1>3 DEF Good, Sound, Owned, SameImage

LEMMA SetOrigSameImage ==
  ASSUME NEW s, Good(s), NEW i
  PROVE  SameImage(s, SetOrig(s, i)) /\ SetOrig(s, i).encFp8 = s.encFp8
BY DEF Good, Sound, SessionType, SetOrig, SameImage

\* The encode failed before TensorRT touched the state.
Untouched ==
  out'.call \in {"encode", "encode_prep", "encode_vit"} /\ out'.path = "none"
    /\ (out'.call = "encode_vit" \/
        ~TrtEncodes(session, IF out'.call = "encode" THEN dep.size ELSE "native"))

LEMMA EncodeFailureKeeps ==
  ASSUME AnswerInv, Untouched, NEW i \in Images, sam3_encode_image(i)
  PROVE  SameImage(session, session')
<1> DEFINE s == SetOrig(session, i)
<1>1. /\ SameImage(session, s) /\ s.encFp8 = session.encFp8 /\ Good(s)
  BY DepFacts, SetOrigGood, SetOrigSameImage DEF AnswerInv
<1> HIDE DEF s
<1>2. out'.call = "encode" /\ ~TrtEncodes(session, dep.size)
  BY DEF sam3_encode_image, EncodeReturns, Nothing, Untouched
<1>3. ~TrtEncodes(s, dep.size) BY <1>1, <1>2 DEF TrtEncodes, EncoderEngine
<1>4. TrtMisses(s, dep.size) = {s} BY <1>3 DEF TrtMisses
<1>5. \/ EncodeReturns("encode", s, i, "none")
      \/ \E u \in GraphFailures(s) : EncodeReturns("encode", u, i, "none")
      \/ \E u : EncodeReturns("encode", u, i, "ggml")
  BY <1>3, <1>4 DEF sam3_encode_image, s
<1>6. session' = s \/ session' \in GraphFailures(s)
  BY <1>5 DEF EncodeReturns, Nothing, Untouched
<1>7. SameImage(s, session') BY <1>1, <1>6, ScratchSameImage DEF SameImage
<1> QED BY <1>1, <1>7 DEF SameImage

LEMMA EncodePrepFailureKeeps ==
  ASSUME AnswerInv, Untouched, NEW i \in Preprocessed, sam3_encode_image_from_preprocessed(i)
  PROVE  SameImage(session, session')
<1> DEFINE s == SetOrig(session, i)
<1>1. SameImage(session, s) /\ Good(s)
  BY DepFacts, SetOrigGood, SetOrigSameImage DEF AnswerInv
<1> HIDE DEF s
<1>2. ~TrtEncodes(session, "native")
  BY DEF sam3_encode_image_from_preprocessed, EncodeReturns, Nothing, Untouched
<1>3. TrtMisses(session, "native") = {session} BY <1>2 DEF TrtMisses
<1>4. \/ EncodeReturns("encode_prep", session, i, "none")
      \/ \E u \in GraphFailures(s) : EncodeReturns("encode_prep", u, i, "none")
      \/ \E u : EncodeReturns("encode_prep", u, i, "ggml")
  BY <1>2, <1>3 DEF sam3_encode_image_from_preprocessed, s
<1>5. session' = session \/ session' \in GraphFailures(s)
  BY <1>4 DEF EncodeReturns, Nothing, Untouched
<1>6. CASE session' = session BY <1>6 DEF SameImage
<1>7. CASE session' \in GraphFailures(s)
  <2>1. SameImage(s, session') BY <1>1, <1>7, ScratchSameImage
  <2> QED BY <1>1, <2>1 DEF SameImage
<1> QED BY <1>5, <1>6, <1>7

LEMMA EncodeVitFailureKeeps ==
  ASSUME AnswerInv, Untouched, NEW i \in Preprocessed,
         sam3_encode_vit_from_preprocessed_selective(i)
  PROVE  SameImage(session, session')
<1> DEFINE s == SetOrig(session, i)
<1>1. SameImage(session, s) /\ Good(s)
  BY DepFacts, SetOrigGood, SetOrigSameImage DEF AnswerInv
<1> HIDE DEF s
<1>2. \/ Crash("encode_vit", "missing_weights")
      \/ \E u \in GraphFailures(s) : EncodeReturns("encode_vit", u, i, "none")
      \/ EncodeReturns("encode_vit", s, i, "none")
      \/ \E u : EncodeReturns("encode_vit", u, i, "vit")
  BY DEF sam3_encode_vit_from_preprocessed_selective, s
<1>3. session' \in {session, s} \/ session' \in GraphFailures(s)
  BY <1>2 DEF EncodeReturns, Crash, Nothing, Untouched
<1>4. CASE session' \in {session, s} BY <1>1, <1>4 DEF SameImage
<1>5. CASE session' \in GraphFailures(s)
  <2>1. SameImage(s, session') BY <1>1, <1>5, ScratchSameImage
  <2> QED BY <1>1, <2>1 DEF SameImage
<1> QED BY <1>3, <1>4, <1>5

\* An encode that fails without TensorRT having dropped the previous one
\* leaves the features, the blocks and the handles as they were.
THEOREM FailedEncodesKeep == Spec => FailedEncodeKeepsFeatures
<1>1. AnswerInv /\ [Next]_vars =>
        [Untouched => SameImage(session, session')]_vars
  <2> SUFFICES ASSUME AnswerInv, Next, Untouched PROVE SameImage(session, session') OBVIOUS
  <2>1. CASE \E i \in Images : sam3_encode_image(i) BY <2>1, EncodeFailureKeeps
  <2>2. CASE \E i \in Preprocessed : sam3_encode_image_from_preprocessed(i)
    BY <2>2, EncodePrepFailureKeeps
  <2>3. CASE \E i \in Preprocessed : sam3_encode_vit_from_preprocessed_selective(i)
    BY <2>3, EncodeVitFailureKeeps
  <2>4. CASE \E on \in BOOLEAN : sam3_set_encoder_fp8(on) \/ sam3_set_pcs_fp8(on)
    BY <2>4, DepFacts DEF AnswerInv, sam3_set_encoder_fp8, sam3_set_pcs_fp8, SameImage, Good, Sound,
       SessionType
  <2>5. CASE sam3_free_state BY <2>5 DEF sam3_free_state, Nothing, Untouched
  <2>6. CASE \E p \in Prompts : sam3_segment_pcs(p)
    <3>1. out'.call = "pcs"
      BY <2>6 DEF sam3_segment_pcs, Answers, AnswersNothing, Crash, Nothing
    <3> QED BY <3>1 DEF Untouched
  <2>7. CASE \E p \in Prompts : sam3_segment_pvs(p)
    <3>1. out'.call = "pvs"
      BY <2>7 DEF sam3_segment_pvs, Answers, AnswersNothing, Crash, Nothing
    <3> QED BY <3>1 DEF Untouched
  <2>8. CASE sam3_pcs_compute_exemplar_embedding
    <3>1. out'.call = "exemplar"
      BY <2>8 DEF sam3_pcs_compute_exemplar_embedding, Answers, AnswersNothing, Crash, Nothing
    <3> QED BY <3>1 DEF Untouched
  <2> QED BY <2>1, <2>2, <2>3, <2>4, <2>5, <2>6, <2>7, <2>8 DEF Next
<1> QED BY <1>1, AnswerInvariance, PTL DEF Spec, FailedEncodeKeepsFeatures, Untouched, SameImage

-----------------------------------------------------------------------------
(* Prompts after an encode                                                   *)

LEMMA TrackerReadable ==
  ASSUME AnswerInv, status = "open", Encoded, dep.size = "native",
         NEW s, s.tensor = session.tensor, s.live = session.live
  PROVE  ReadFault(s, "neck_trk", "native") = "none"
<1>1. HoldsFeatures(session, last.of, last.path) /\ Owned(session) /\ TrackerSize(session) = "native"
  BY DEF AnswerInv, IInv, Good, Sound, Encodes
<1>2. {"trt_out_ctx", "trt_out_buf", "ctx", "galloc"} \subseteq Handle BY DEF Handle, Fields
<1>3. /\ ~IsNull(session, "neck_trk")
      /\ session.tensor["neck_trk"].meta \in session.live
      /\ session.tensor["neck_trk"].data \in session.live
  BY <1>1, <1>2 DEF HoldsFeatures, Owned, IsNull
<1> QED BY <1>1, <1>3 DEF ReadFault, TrackerSize, IsNull

LEMMA DetectorReadable ==
  ASSUME AnswerInv, status = "open", Encoded, dep.size = "native", ~IsNull(session, "neck_det")
  PROVE  DetFault = "none"
<1>1. session.tensor["neck_det"] = session.tensor["neck_trk"] BY DetectorIsTracker DEF AnswerInv
<1>2. ReadFault(session, "neck_trk", "native") = "none" BY TrackerReadable
<1> QED BY <1>1, <1>2 DEF DetFault, ReadFault, IsNull

SafeStep ==
  Encoded /\ dep.size = "native" /\ status' \in Faults \ {"missing_weights"}
     => \/ /\ out'.call = "pcs" /\ ~GgmlExcluded
           /\ ReadFault(session, "neck_pe", "native") # "none"
        \/ out'.call = "exemplar" /\ dep.visualOnly /\ last.path = "trt"

LEMMA PcsIsSafe ==
  ASSUME AnswerInv, NEW p \in Prompts, sam3_segment_pcs(p)
  PROVE  SafeStep
<1> SUFFICES ASSUME Encoded, dep.size = "native", status' \in Faults \ {"missing_weights"}
             PROVE  /\ out'.call = "pcs" /\ ~GgmlExcluded
                    /\ ReadFault(session, "neck_pe", "native") # "none"
  BY DEF SafeStep
<1>1. status = "open" /\ status' # status BY DEF sam3_segment_pcs, Open, Faults
<1>2. ~IsNull(session, "neck_det")
  BY <1>1 DEF sam3_segment_pcs, AnswersNothing
<1>3. DetFault = "none" BY <1>1, <1>2, DetectorReadable
<1>4. TrtPcsFault(p) = "none" BY <1>3 DEF TrtPcsFault
<1>5. ~GgmlExcluded /\ GgmlPcsFault # "none" /\ Crash("pcs", GgmlPcsFault)
  BY <1>1, <1>4 DEF sam3_segment_pcs, Answers, AnswersNothing
<1> QED BY <1>3, <1>5 DEF GgmlPcsFault, FirstOf, Crash, Nothing

LEMMA PvsIsSafe ==
  ASSUME AnswerInv, NEW p \in Prompts, sam3_segment_pvs(p)
  PROVE  SafeStep
<1> SUFFICES ASSUME Encoded, dep.size = "native", status' \in Faults PROVE FALSE
  BY DEF SafeStep
<1> DEFINE s == IF TrtReady THEN FillPeCache(session) ELSE session
<1>1. status = "open" /\ status' # status BY DEF sam3_segment_pvs, Open, Faults
<1>2. s.tensor = session.tensor /\ s.live = session.live
  BY DepFacts, FilledKeeps DEF AnswerInv
<1> HIDE DEF s
<1>3. ReadFault(s, "neck_trk", "native") = "none" BY <1>1, <1>2, TrackerReadable
<1>4. TrtPvsFault(s, p) = "none" /\ GgmlPvsFault(s) = "none"
  BY <1>3 DEF TrtPvsFault, GgmlPvsFault, FirstOf
<1> QED BY <1>1, <1>4 DEF sam3_segment_pvs, s, Answers, AnswersNothing

LEMMA ExemplarIsSafe ==
  ASSUME AnswerInv, sam3_pcs_compute_exemplar_embedding
  PROVE  SafeStep
<1> SUFFICES ASSUME Encoded, dep.size = "native", status' \in Faults
             PROVE  out'.call = "exemplar" /\ dep.visualOnly /\ last.path = "trt"
  BY DEF SafeStep
<1>1. status = "open" /\ status' # status
  BY DEF sam3_pcs_compute_exemplar_embedding, Open, Faults
<1>2. /\ ~IsNull(session, "neck_det") /\ ExemplarFault # "none"
      /\ Crash("exemplar", ExemplarFault)
  BY <1>1 DEF sam3_pcs_compute_exemplar_embedding, Answers, AnswersNothing
<1>3. DetFault = "none" BY <1>1, <1>2, DetectorReadable
<1>4. dep.visualOnly BY <1>2, <1>3 DEF ExemplarFault, GeometryFault, FirstOf
<1>5. last.path = "trt"
  BY <1>1, <1>2, <1>4 DEF AnswerInv, IInv, HoldsFeatures, Encoded
<1> QED BY <1>2, <1>4, <1>5 DEF Crash, Nothing

\* After an encode at native size no prompt reads what is not there, with two
\* exceptions: the positional encodings, by a text prompt on ggml, and the
\* geometry weights of a visual-only model, by an exemplar embedding after an
\* encode that TensorRT made.
THEOREM PromptsAreSafe == Spec => EncodedPromptIsSafe
<1>1. AnswerInv /\ [Next]_vars => [SafeStep]_vars
  <2> SUFFICES ASSUME AnswerInv, Next PROVE SafeStep OBVIOUS
  <2>1. CASE \E p \in Prompts : sam3_segment_pcs(p) BY <2>1, PcsIsSafe
  <2>2. CASE \E p \in Prompts : sam3_segment_pvs(p) BY <2>2, PvsIsSafe
  <2>3. CASE sam3_pcs_compute_exemplar_embedding BY <2>3, ExemplarIsSafe
  <2>4. CASE \E i \in Images : sam3_encode_image(i)
    BY <2>4 DEF sam3_encode_image, EncodeReturns, Open, SafeStep, Faults
  <2>5. CASE \E i \in Preprocessed : sam3_encode_image_from_preprocessed(i)
    BY <2>5 DEF sam3_encode_image_from_preprocessed, EncodeReturns, Open, SafeStep, Faults
  <2>6. CASE \E i \in Preprocessed : sam3_encode_vit_from_preprocessed_selective(i)
    BY <2>6 DEF sam3_encode_vit_from_preprocessed_selective, EncodeReturns, Crash, Open, SafeStep, Faults
  <2>7. CASE \E on \in BOOLEAN : sam3_set_encoder_fp8(on) \/ sam3_set_pcs_fp8(on)
    BY <2>7 DEF sam3_set_encoder_fp8, sam3_set_pcs_fp8, Open, SafeStep, Faults
  <2>8. CASE sam3_free_state BY <2>8 DEF sam3_free_state, SafeStep, Faults
  <2> QED BY <2>1, <2>2, <2>3, <2>4, <2>5, <2>6, <2>7, <2>8 DEF Next
<1> QED BY <1>1, AnswerInvariance, PTL DEF Spec, EncodedPromptIsSafe, SafeStep

-----------------------------------------------------------------------------
(* Sessions that TensorRT has no part in                                     *)

\* A build or model without TensorRT, at native size, with all its weights;
\* graphs may fail, the small allocation of the encodings does not.
GgmlSessions ==
  /\ \A d \in Deployments : ~(d.built /\ d.enabled /\ d.onGpu) /\ ~d.skip /\ d.size = "native"
  /\ Failures \subseteq {"graph"}

\* The positional encodings are in the state's own blocks.
HoldsPe(s) ==
  /\ s.handle["pe_ctx"] # Null /\ s.handle["pe_buf"] # Null
  /\ s.tensor["neck_pe"].meta = s.handle["pe_ctx"]
  /\ s.tensor["neck_pe"].data = s.handle["pe_buf"]
  /\ s.tensor["neck_pe"].size = "native"

\* All that a prompt reads is there ...
Ready(s) ==
  /\ \E i \in Images \cup Preprocessed : HoldsFeatures(s, i, "ggml")
  /\ TrackerSize(s) = "native" /\ HoldsPe(s) /\ s.orig \in Images \cup {Square}

\* ... or nothing that it would read is.
Empty(s) ==
  /\ IsNull(s, "neck_trk") /\ IsNull(s, "neck_det")
  /\ s.tensor["neck_trk"].of = NoImage

Prompted(s) == (Ready(s) \/ Empty(s)) /\ (s.neckPeValid => HoldsPe(s))

GgmlInv ==
  /\ AnswerInv
  /\ status \in {"open", "freed"}
  /\ status = "open" => Prompted(session)
  /\ last.path # "trt"

LEMMA GgmlFacts ==
  ASSUME GgmlSessions, IInv
  PROVE  /\ ~TrtReady /\ dep.size = "native" /\ ~dep.skip
         /\ "pe" \notin Failures /\ "trt_encode" \notin Failures
BY DeploymentsAssumption DEF GgmlSessions, IInv, TypeOK, TrtReady

\* What a graph allocates and gives back is none of what Prompted is about.
SameButSize(s, r) == SameImage(s, r) /\ r.neckPeValid = s.neckPeValid

LEMMA PromptedKept ==
  ASSUME NEW s, NEW r, Prompted(s), SameButSize(s, r),
         r.orig = s.orig \/ r.orig \in Images \cup {Square}
  PROVE  Prompted(r)
BY DEF Prompted, SameButSize, SameImage, Ready, Empty, HoldsFeatures, HoldsPe, IsNull, TrackerSize

LEMMA ScratchSameButSize ==
  ASSUME NEW s, Good(s), NEW u \in GraphFailures(s) \cup {Free(Allocate(s, Locals), Locals)}
  PROVE  SameButSize(s, u) /\ u.orig = s.orig
<1>1. PICK H \in {{}, Locals} : u = Free(Allocate(s, H), H) BY DEF GraphFailures
<1>2. H \subseteq Handle /\ \A h \in H : s.handle[h] = Null BY DEF Good, Quiet, Handle
<1>3. Good(u) /\ u.tensor = s.tensor /\ \A h \in Handle : u.handle[h] = s.handle[h]
  BY <1>1, <1>2, ScratchGood
<1>4. u.handle \in [Handle -> Block \cup {Null}] /\ s.handle \in [Handle -> Block \cup {Null}]
  BY <1>3 DEF Good, Sound, SessionType
<1>5. u.handle = s.handle BY <1>3, <1>4
<1>6. SameImage(s, u) BY <1>3, <1>5 DEF Good, Sound, Owned, SameImage
<1>7. s \in SessionType BY DEF Good, Sound
<1>8. u.neckPeValid = s.neckPeValid /\ u.orig = s.orig
  BY <1>1, <1>7 DEF Free, Allocate, SessionType
<1> QED BY <1>6, <1>8 DEF SameButSize

LEMMA DimsArePictures ==
  ASSUME NEW i \in Images \cup Preprocessed
  PROVE  Dims(i) \in Images \cup {Square}
BY DEF Dims

LEMMA SetOrigSameButSize ==
  ASSUME NEW s, Good(s), NEW i \in Images \cup Preprocessed
  PROVE  /\ SameButSize(s, SetOrig(s, i)) /\ SetOrig(s, i).orig \in Images \cup {Square}
         /\ Good(SetOrig(s, i))
<1>1. s \in SessionType BY DEF Good, Sound
<1>2. SetOrig(s, i).neckPeValid = s.neckPeValid /\ SetOrig(s, i).orig = Dims(i)
  BY <1>1 DEF SetOrig, SessionType
<1> QED BY <1>2, SetOrigGood, SetOrigSameImage, DimsArePictures DEF SameButSize

\* The encodings survive a ggml encode, in their own blocks.
LEMMA GgmlEncodedPe ==
  ASSUME NEW s, Good(s), NEW i \in Images \cup Preprocessed, NEW sz \in Sizes
  PROVE  LET g == GgmlEncoded(s, i, sz) IN
         g.neckPeValid = s.neckPeValid /\ (HoldsPe(s) => HoldsPe(g))
<1> DEFINE a == Allocate(s, Locals)
           f == Free(a, {"galloc", "ctx"})
           b == Adopt(f)
           n == NullOut(b, {"neck_det"})
           T == {"vit_output"} \cup Necks
           r == Point(n, T, "ctx", "galloc", i, sz)
           pe == {"pe_ctx", "pe_buf"}
<1>1. /\ pe \subseteq Handle /\ pe \cap Locals = {} /\ Locals \subseteq Handle
      /\ {"galloc", "ctx"} \subseteq Handle /\ pe \cap {"galloc", "ctx"} = {}
      /\ {"galloc", "ctx"} \cap Locals = {}
  BY DEF Handle, Fields, Locals
<1>2. /\ Sound(a) /\ a.tensor = s.tensor /\ \A h \in pe : a.handle[h] = s.handle[h]
      /\ a.neckPeValid = s.neckPeValid
  <2>1. a.neckPeValid = s.neckPeValid BY DEF Allocate, Good, Sound, SessionType
  <2> QED BY <1>1, <2>1, AllocateSound DEF Good, Quiet
<1> HIDE DEF a
<1>3. /\ Sound(f) /\ f.tensor = a.tensor /\ \A h \in pe : f.handle[h] = a.handle[h]
      /\ f.handle["ctx"] = Null /\ f.handle["galloc"] = Null
      /\ f.neckPeValid = a.neckPeValid
  <2>1. f.neckPeValid = a.neckPeValid BY <1>2 DEF Free, Sound, SessionType
  <2> QED BY <1>1, <1>2, <2>1, FreeSound
<1> HIDE DEF f
<1>4. /\ Good(b) /\ b.tensor = f.tensor /\ b.neckPeValid = f.neckPeValid
  <2>1. b.neckPeValid = f.neckPeValid BY <1>3 DEF Adopt, Sound, SessionType
  <2> QED BY <1>3, <2>1, AdoptGood
<1>5. \A h \in pe : b.handle[h] = f.handle[h]
  BY <1>1, <1>3 DEF Adopt, Sound, SessionType, Handle, Fields, Locals
<1> HIDE DEF b
<1>6. /\ Good(n) /\ n.handle = b.handle /\ n.tensor["neck_pe"] = b.tensor["neck_pe"]
      /\ n.neckPeValid = b.neckPeValid
  <2>1. n.neckPeValid = b.neckPeValid BY <1>4 DEF NullOut, Good, Sound, SessionType
  <2> QED BY <1>4, <2>1, NullOutGood DEF TensorName
<1> HIDE DEF n
<1>7. "ctx" \in Handle /\ "galloc" \in Handle /\ i \in Pictures /\ "neck_pe" \in TensorName \ T
  BY DEF Handle, Fields, Pictures, TensorName, Necks
<1> HIDE DEF T
<1>8. /\ r.handle = n.handle /\ r.tensor["neck_pe"] = n.tensor["neck_pe"]
      /\ r.neckPeValid = n.neckPeValid
  <2>1. r.neckPeValid = n.neckPeValid BY <1>6 DEF Point, Good, Sound, SessionType
  <2>2. Good(n) /\ "neck_pe" \in TensorName BY <1>6, <1>7
  <2> QED BY <1>7, <2>1, <2>2, PointGood
<1>9. r = GgmlEncoded(s, i, sz) BY DEF GgmlEncoded, r, n, b, f, a, T
<1> HIDE DEF r
<1>10. r.tensor["neck_pe"] = s.tensor["neck_pe"] /\ \A h \in pe : r.handle[h] = s.handle[h]
  BY <1>2, <1>3, <1>4, <1>5, <1>6, <1>8
<1>11. r.neckPeValid = s.neckPeValid BY <1>2, <1>3, <1>4, <1>6, <1>8
<1> QED BY <1>9, <1>10, <1>11 DEF HoldsPe

\* Rebuilt, they are there.
LEMMA PeRebuilt ==
  ASSUME NEW s, Good(s)
  PROVE  HoldsPe(PeRebuilds(s).ok)
<1> DEFINE f == Free(s, {"pe_buf", "pe_ctx"})
           bare == Allocate(f, {"pe_ctx"})
           a == Allocate(bare, {"pe_buf"})
           full == Point(a, {"neck_pe"}, "pe_ctx", "pe_buf", NoImage, "native")
<1>1. {"pe_ctx", "pe_buf"} \subseteq Handle /\ {"pe_ctx", "pe_buf"} \cap Locals = {}
      /\ Locals \subseteq Handle /\ NoImage \in Pictures /\ "native" \in Sizes
      /\ "neck_pe" \in TensorName
  BY DEF Handle, Fields, Locals, Pictures, Sizes, TensorName
<1>2. Good(f) /\ f.handle["pe_ctx"] = Null /\ f.handle["pe_buf"] = Null
  BY <1>1, FreeSound DEF Good, Quiet
<1> HIDE DEF f
<1>3. Good(bare) /\ bare.handle["pe_buf"] = Null /\ bare.handle["pe_ctx"] # Null
  BY <1>1, <1>2, AllocateSound DEF Good, Quiet
<1> HIDE DEF bare
<1>4. Good(a) /\ a.handle["pe_ctx"] # Null /\ a.handle["pe_buf"] # Null
  BY <1>1, <1>3, AllocateSound DEF Good, Quiet
<1> HIDE DEF a
<1>5. full.handle = a.handle /\ full.tensor["neck_pe"] = Ref(a, "pe_ctx", "pe_buf", NoImage, "native")
  <2>1. Good(a) /\ "pe_ctx" \in Handle /\ "pe_buf" \in Handle BY <1>1, <1>4
  <2> QED BY <1>1, <2>1, PointGood
<1>6. full = PeRebuilds(s).ok BY DEF PeRebuilds, full, a, bare, f
<1> HIDE DEF full
<1> QED BY <1>4, <1>5, <1>6 DEF HoldsPe, Ref

LEMMA NeckPeHeld ==
  ASSUME NEW s, Good(s), "pe" \notin Failures, s.neckPeValid => HoldsPe(s),
         NEW r \in RefreshNeckPe(s) \cup RebuildNeckPe(s)
  PROVE  HoldsPe(r)
<1> DEFINE ok == PeRebuilds(s).ok
<1>1. HoldsPe(ok) /\ Good(ok) BY PeRebuilt, PeRebuildsGood
<1>2. PeRebuilds(s).failed = {} BY DEF PeRebuilds
<1> HIDE DEF ok
<1>3. CASE s.neckPeValid /\ r = s BY <1>3
<1>4. CASE r = ok BY <1>1, <1>4
<1>5. CASE r = [ok EXCEPT !.neckPeValid = TRUE]
  <2>1. r.handle = ok.handle /\ r.tensor = ok.tensor
    BY <1>1, <1>5 DEF Good, Sound, SessionType
  <2> QED BY <1>1, <2>1 DEF HoldsPe
<1> QED BY <1>2, <1>3, <1>4, <1>5 DEF RefreshNeckPe, RebuildNeckPe, ok

\* An encode that succeeds makes the state ready.
LEMMA EncodeMakesReady ==
  ASSUME NEW t, Good(t), t.neckPeValid => HoldsPe(t), NEW i \in Images \cup Preprocessed,
         t.orig \in Images \cup {Square}, dep.size = "native", "pe" \notin Failures,
         NEW u \in RefreshNeckPe(GgmlEncoded(t, i, "native"))
                   \cup RebuildNeckPe(GgmlEncoded(t, i, "native"))
  PROVE  Good(CheckPeCache(u)) /\ Prompted(CheckPeCache(u)) /\ HoldsFeatures(CheckPeCache(u), i, "ggml")
<1> DEFINE g == GgmlEncoded(t, i, "native")
           c == CheckPeCache(u)
<1>0. "native" \in Sizes BY DEF Sizes
<1>1. /\ Good(g) /\ HoldsFeatures(g, i, "ggml") /\ TrackerSize(g) = "native"
      /\ g.neckPeValid => HoldsPe(g)
  BY <1>0, GgmlEncodedGood, GgmlEncodedSize, GgmlEncodedPe
<1>2. Sized(g) /\ g.orig = t.orig
  BY GoodIsSized, GgmlEncodedKeepsSize DEF KeepsSize, Sized
<1> HIDE DEF g
<1>3. u \in RefreshNeckPe(g) \cup RebuildNeckPe(g) BY DEF g
<1>4. Good(u) /\ HoldsFeatures(u, i, "ggml") BY <1>1, <1>3, NeckPeGood
<1>5. HoldsPe(u) BY <1>1, <1>3, NeckPeHeld
<1>6. TrackerSize(u) = "native" BY <1>1, <1>3, NeckPeKeepsTracker DEF TrackerSize
<1>7. u.orig = t.orig BY <1>2, <1>3, NeckPeKeepsSize DEF KeepsSize
<1>8. /\ Good(c) /\ c.handle = u.handle /\ c.tensor = u.tensor /\ c.orig = u.orig
  BY <1>0, <1>4, GoodIsSized, PeCacheGood, PeCacheKeepsSize DEF KeepsSize
<1> HIDE DEF c
<1>9. HoldsFeatures(c, i, "ggml") /\ HoldsPe(c) /\ TrackerSize(c) = "native"
  BY <1>4, <1>5, <1>6, <1>8 DEF HoldsFeatures, HoldsPe, TrackerSize, IsNull
<1>10. c.orig \in Images \cup {Square} BY <1>7, <1>8
<1> QED BY <1>8, <1>9, <1>10 DEF Prompted, Ready, c

\* A backbone-only encode leaves nothing a prompt would read.
LEMMA VitMakesEmpty ==
  ASSUME NEW s, Good(s), dep.size \in Sizes, NEW i \in Images \cup Preprocessed
  PROVE  LET c == CheckPeCache(VitEncoded(s, i)) IN Prompted(c) /\ Empty(c)
<1> DEFINE b == Adopt(Free(Allocate(s, Locals), {"galloc", "ctx", "pe_buf", "pe_ctx"}))
           v == [b EXCEPT !.neckPeValid = FALSE]
           n == NullOut(v, TensorName)
           r == Point(n, {"vit_output"}, "ctx", "galloc", i, "native")
           c == CheckPeCache(r)
<1>1. Good(b) BY BuiltGood DEF Fields
<1> HIDE DEF b
<1>2. Good(v) /\ v.neckPeValid = FALSE
  <2>1. "invalid" \in Sizes \cup {"invalid"} OBVIOUS
  <2>2. v.neckPeValid = FALSE BY <1>1 DEF Good, Sound, SessionType
  <2> QED BY <1>1, <2>1, <2>2, FlagsGood
<1> HIDE DEF v
<1>3. Good(n) /\ n.neckPeValid = FALSE /\ \A t \in TensorName : n.tensor[t] = NullTensor
  <2>1. n.neckPeValid = FALSE BY <1>2 DEF NullOut, Good, Sound, SessionType
  <2> QED BY <1>2, <2>1, NullOutGood
<1> HIDE DEF n
<1>4. "ctx" \in Handle /\ "galloc" \in Handle /\ i \in Pictures /\ "native" \in Sizes
      /\ {"neck_trk", "neck_det"} \subseteq TensorName
  BY DEF Handle, Fields, Pictures, Sizes, TensorName
<1>5. /\ Good(r) /\ r.neckPeValid = FALSE
      /\ r.tensor["neck_trk"] = NullTensor /\ r.tensor["neck_det"] = NullTensor
  <2>1. r.neckPeValid = FALSE BY <1>3 DEF Point, Good, Sound, SessionType
  <2>2. Good(n) BY <1>3
  <2>3. /\ Good(r)
        /\ \A t \in TensorName : r.tensor[t] =
             IF t \in {"vit_output"} THEN Ref(n, "ctx", "galloc", i, "native") ELSE n.tensor[t]
    BY <1>4, <2>2, PointGood
  <2> QED BY <1>3, <1>4, <2>1, <2>3
<1>6. r = VitEncoded(s, i) BY DEF VitEncoded, b, v, n
<1> HIDE DEF r
<1>7. c.tensor = r.tensor BY <1>5, PeCacheGood
<1>8. c.neckPeValid = FALSE BY <1>5 DEF CheckPeCache, Good, Sound, SessionType
<1> HIDE DEF c
<1>9. Empty(c) BY <1>5, <1>7 DEF Empty, IsNull, NullTensor
<1> QED BY <1>6, <1>8, <1>9 DEF Prompted, c

-----------------------------------------------------------------------------
(* Every call keeps the session prompted, and takes a step of PromptableImage *)

HoldsNow == IF status = "freed" THEN NoImage ELSE session.tensor["neck_trk"].of
Trusted == Encoded /\ status # "freed"
Answer == [of |-> out.of, dims |-> out.dims]
NoAnswer == [of |-> NoImage, dims |-> NoImage]

PromiseStep ==
  \/ \E i \in Images \cup Preprocessed : HoldsNow' = i /\ Trusted' = TRUE /\ Answer' = NoAnswer
  \/ Trusted' = FALSE /\ Answer' = NoAnswer /\ HoldsNow' = HoldsNow
  \/ HoldsNow' = NoImage /\ Trusted' = FALSE /\ Answer' = NoAnswer
  \/ /\ HoldsNow # NoImage
     /\ \E d \in Images \cup {Square} : /\ Trusted => d = Dims(HoldsNow)
                                        /\ Answer' = [of |-> HoldsNow, dims |-> d]
     /\ HoldsNow' = HoldsNow /\ Trusted' = Trusted
  \/ Answer' = NoAnswer /\ HoldsNow' = HoldsNow /\ Trusted' = Trusted
  \/ HoldsNow' = HoldsNow /\ Trusted' = Trusted /\ Answer' = Answer

LEMMA EncodeReturnsGgml ==
  ASSUME GgmlInv, AnswerInv', status = "open", NEW call, NEW s, Prompted(s),
         NEW i \in Images \cup Preprocessed, NEW path, EncodeReturns(call, s, i, path),
         \/ path = "none" /\ s.tensor = session.tensor
         \/ path = "ggml" /\ HoldsFeatures(s, i, "ggml")
         \/ path = "vit" /\ Empty(s)
  PROVE  GgmlInv' /\ PromiseStep
<1>1. /\ session' = s /\ last' = [of |-> i, path |-> path] /\ dep' = dep /\ status' = status
      /\ out'.of = NoImage /\ out'.dims = NoImage
  BY DEF EncodeReturns, Nothing
<1>2. Prompted(session)'
  BY <1>1 DEF Prompted, Ready, Empty, HoldsFeatures, HoldsPe, IsNull, TrackerSize
<1>3. GgmlInv' BY <1>1, <1>2 DEF GgmlInv
<1>4. Answer' = NoAnswer BY <1>1 DEF Answer, NoAnswer
<1>5. CASE path = "none" /\ s.tensor = session.tensor
  <2>1. HoldsNow' = HoldsNow BY <1>1, <1>5 DEF HoldsNow
  <2>2. Trusted' = FALSE BY <1>1, <1>5 DEF Trusted, Encoded
  <2> QED BY <1>3, <1>4, <2>1, <2>2 DEF PromiseStep
<1>6. CASE path = "ggml" /\ HoldsFeatures(s, i, "ggml")
  <2>1. HoldsNow' = i BY <1>1, <1>6 DEF HoldsNow, HoldsFeatures
  <2>2. Trusted' = TRUE BY <1>1, <1>6 DEF Trusted, Encoded
  <2> QED BY <1>3, <1>4, <2>1, <2>2 DEF PromiseStep
<1>7. CASE path = "vit" /\ Empty(s)
  <2>1. HoldsNow' = NoImage BY <1>1, <1>7 DEF HoldsNow, Empty
  <2>2. Trusted' = FALSE BY <1>1, <1>7 DEF Trusted, Encoded
  <2> QED BY <1>3, <1>4, <2>1, <2>2 DEF PromiseStep
<1> QED BY <1>3, <1>5, <1>6, <1>7

LEMMA ReadyWhenRead ==
  ASSUME GgmlInv, status = "open", ~IsNull(session, "neck_trk") \/ ~IsNull(session, "neck_det")
  PROVE  /\ Ready(session) /\ HoldsNow \in Images \cup Preprocessed
         /\ ReadFault(session, "neck_trk", "native") = "none"
         /\ ReadFault(session, "neck_pe", "native") = "none"
         /\ ~IsNull(session, "neck_trk")
         /\ ~IsNull(session, "neck_det") =>
              session.tensor["neck_det"] = session.tensor["neck_trk"] /\ DetFault = "none"
<1>1. Ready(session) BY DEF GgmlInv, Prompted, Empty
<1>2. PICK i \in Images \cup Preprocessed : HoldsFeatures(session, i, "ggml") BY <1>1 DEF Ready
<1>3. Owned(session) BY DEF GgmlInv, AnswerInv, IInv, Good, Sound
<1>4. {"ctx", "galloc", "pe_ctx", "pe_buf"} \subseteq Handle BY DEF Handle, Fields
<1>5. /\ session.tensor["neck_trk"].meta \in session.live
      /\ session.tensor["neck_trk"].data \in session.live
      /\ ~IsNull(session, "neck_trk") /\ session.tensor["neck_trk"].of = i
      /\ session.tensor["neck_trk"].size = "native"
  BY <1>1, <1>2, <1>3, <1>4 DEF HoldsFeatures, Owned, IsNull, Ready, TrackerSize
<1>6. ReadFault(session, "neck_trk", "native") = "none" BY <1>5 DEF ReadFault
<1>7. /\ session.tensor["neck_pe"].meta \in session.live
      /\ session.tensor["neck_pe"].data \in session.live
      /\ ~IsNull(session, "neck_pe") /\ session.tensor["neck_pe"].size = "native"
  BY <1>1, <1>3, <1>4 DEF HoldsPe, Owned, IsNull, Ready
<1>8. ReadFault(session, "neck_pe", "native") = "none" BY <1>7 DEF ReadFault
<1>9. ~IsNull(session, "neck_det") =>
        session.tensor["neck_det"] = session.tensor["neck_trk"]
  BY <1>2 DEF HoldsFeatures
<1>10. ~IsNull(session, "neck_det") => DetFault = "none"
  BY <1>5, <1>9 DEF DetFault, ReadFault, IsNull
<1> QED BY <1>1, <1>5, <1>6, <1>8, <1>9, <1>10 DEF HoldsNow

LEMMA PromptReturnsGgml ==
  ASSUME GgmlInv, AnswerInv', status = "open", NEW call, NEW s, Prompted(s),
         s.tensor = session.tensor, s.orig = session.orig,
         \/ AnswersNothing(call, s)
         \/ \E t \in {"neck_det", "neck_trk"} : \E path : ~IsNull(session, t) /\ Answers(call, s, t, path)
  PROVE  GgmlInv' /\ PromiseStep
<1>1. session' = s /\ last' = last /\ dep' = dep /\ status' = status
  BY DEF Answers, AnswersNothing
<1>2. Prompted(session)'
  BY <1>1 DEF Prompted, Ready, Empty, HoldsFeatures, HoldsPe, IsNull, TrackerSize
<1>3. GgmlInv' BY <1>1, <1>2 DEF GgmlInv
<1>4. HoldsNow' = HoldsNow /\ Trusted' = Trusted
  BY <1>1 DEF HoldsNow, Trusted, Encoded
<1>5. CASE AnswersNothing(call, s)
  <2>1. Answer' = NoAnswer BY <1>5 DEF AnswersNothing, Nothing, Answer, NoAnswer
  <2>2. PromiseStep BY <1>4, <2>1 DEF PromiseStep
  <2> QED BY <1>3, <2>2
<1>6. ASSUME NEW t \in {"neck_det", "neck_trk"}, NEW path, ~IsNull(session, t), Answers(call, s, t, path)
      PROVE  PromiseStep
  <2>1. /\ Ready(session) /\ HoldsNow \in Images \cup Preprocessed
        /\ session.tensor[t] = session.tensor["neck_trk"]
    BY <1>6, ReadyWhenRead
  <2>2. HoldsNow # NoImage BY <2>1, ImagesAssumption
  <2>3. Answer' = [of |-> HoldsNow, dims |-> session.orig]
    BY <1>6, <2>1 DEF Answers, Answer, HoldsNow
  <2>4. session.orig \in Images \cup {Square} BY <2>1 DEF Ready
  <2>5. Trusted => session.orig = Dims(HoldsNow)
    BY DEF Trusted, GgmlInv, AnswerInv, Encodes, Encoded, IInv, HoldsFeatures, HoldsNow
  <2> QED BY <1>4, <2>2, <2>3, <2>4, <2>5 DEF PromiseStep
<1> QED BY <1>3, <1>5, <1>6

-----------------------------------------------------------------------------

LEMMA EncodeImageGgml ==
  ASSUME GgmlSessions, GgmlInv, AnswerInv', NEW i \in Images, sam3_encode_image(i)
  PROVE  GgmlInv' /\ PromiseStep
<1> DEFINE s == SetOrig(session, i)
<1>1. /\ status = "open" /\ i \in Images \cup Preprocessed /\ Good(session) /\ Prompted(session)
      /\ ~TrtReady /\ dep.size = "native" /\ "pe" \notin Failures
  BY DepFacts, GgmlFacts DEF GgmlInv, AnswerInv, sam3_encode_image, Open
<1>2. /\ Good(s) /\ SameButSize(session, s) /\ s.orig \in Images \cup {Square} /\ Prompted(s)
  BY <1>1, SetOrigSameButSize, PromptedKept
<1> HIDE DEF s
<1>3. TrtMisses(s, dep.size) = {s} /\ ~TrtEncodes(s, dep.size)
  BY <1>1 DEF TrtMisses, TrtEncodes
<1>4. CASE EncodeReturns("encode", s, i, "none")
  BY <1>1, <1>2, <1>4, EncodeReturnsGgml DEF SameButSize, SameImage
<1>5. ASSUME NEW u \in GraphFailures(s), EncodeReturns("encode", u, i, "none")
      PROVE  GgmlInv' /\ PromiseStep
  <2>1. SameButSize(s, u) /\ Prompted(u) BY <1>2, ScratchSameButSize, PromptedKept
  <2> QED BY <1>1, <1>2, <1>5, <2>1, EncodeReturnsGgml DEF SameButSize, SameImage
<1>6. ASSUME NEW u \in RefreshNeckPe(GgmlEncoded(s, i, dep.size)),
             EncodeReturns("encode", CheckPeCache(u), i, "ggml")
      PROVE  GgmlInv' /\ PromiseStep
  <2>1. Prompted(CheckPeCache(u)) /\ HoldsFeatures(CheckPeCache(u), i, "ggml")
    BY <1>1, <1>2, EncodeMakesReady DEF Prompted
  <2> QED BY <1>1, <1>6, <2>1, EncodeReturnsGgml
<1> QED BY <1>3, <1>4, <1>5, <1>6 DEF sam3_encode_image, s

LEMMA EncodePrepGgml ==
  ASSUME GgmlSessions, GgmlInv, AnswerInv', NEW i \in Preprocessed,
         sam3_encode_image_from_preprocessed(i)
  PROVE  GgmlInv' /\ PromiseStep
<1> DEFINE s == SetOrig(session, i)
<1>1. /\ status = "open" /\ i \in Images \cup Preprocessed /\ Good(session) /\ Prompted(session)
      /\ ~TrtReady /\ dep.size = "native" /\ "pe" \notin Failures /\ ~dep.skip
  BY DepFacts, GgmlFacts DEF GgmlInv, AnswerInv, sam3_encode_image_from_preprocessed, Open
<1>2. /\ Good(s) /\ SameButSize(session, s) /\ s.orig \in Images \cup {Square} /\ Prompted(s)
  BY <1>1, SetOrigSameButSize, PromptedKept
<1> HIDE DEF s
<1>3. TrtMisses(session, "native") = {session} /\ ~TrtEncodes(session, "native")
  BY <1>1 DEF TrtMisses, TrtEncodes
<1>5. ASSUME NEW u \in GraphFailures(s), EncodeReturns("encode_prep", u, i, "none")
      PROVE  GgmlInv' /\ PromiseStep
  <2>1. SameButSize(s, u) /\ Prompted(u) BY <1>2, ScratchSameButSize, PromptedKept
  <2> QED BY <1>1, <1>2, <1>5, <2>1, EncodeReturnsGgml DEF SameButSize, SameImage
<1>6. ASSUME NEW u \in RebuildNeckPe(GgmlEncoded(s, i, "native")),
             EncodeReturns("encode_prep", CheckPeCache(u), i, "ggml")
      PROVE  GgmlInv' /\ PromiseStep
  <2>1. Prompted(CheckPeCache(u)) /\ HoldsFeatures(CheckPeCache(u), i, "ggml")
    BY <1>1, <1>2, EncodeMakesReady DEF Prompted
  <2> QED BY <1>1, <1>6, <2>1, EncodeReturnsGgml
<1> QED BY <1>1, <1>3, <1>5, <1>6 DEF sam3_encode_image_from_preprocessed, s

LEMMA EncodeVitGgml ==
  ASSUME GgmlSessions, GgmlInv, AnswerInv', NEW i \in Preprocessed,
         sam3_encode_vit_from_preprocessed_selective(i)
  PROVE  GgmlInv' /\ PromiseStep
<1> DEFINE s == SetOrig(session, i)
<1>1. /\ status = "open" /\ i \in Images \cup Preprocessed /\ Good(session) /\ Prompted(session)
      /\ dep.size \in Sizes /\ ~dep.skip
  BY DepFacts, GgmlFacts DEF GgmlInv, AnswerInv, sam3_encode_vit_from_preprocessed_selective, Open
<1>2. /\ Good(s) /\ SameButSize(session, s) /\ s.orig \in Images \cup {Square} /\ Prompted(s)
  BY <1>1, SetOrigSameButSize, PromptedKept
<1> HIDE DEF s
<1>3. CASE EncodeReturns("encode_vit", s, i, "none")
  BY <1>1, <1>2, <1>3, EncodeReturnsGgml DEF SameButSize, SameImage
<1>4. ASSUME NEW u \in GraphFailures(s), EncodeReturns("encode_vit", u, i, "none")
      PROVE  GgmlInv' /\ PromiseStep
  <2>1. SameButSize(s, u) /\ Prompted(u) BY <1>2, ScratchSameButSize, PromptedKept
  <2> QED BY <1>1, <1>2, <1>4, <2>1, EncodeReturnsGgml DEF SameButSize, SameImage
<1>5. CASE EncodeReturns("encode_vit", CheckPeCache(VitEncoded(s, i)), i, "vit")
  <2>1. Prompted(CheckPeCache(VitEncoded(s, i))) /\ Empty(CheckPeCache(VitEncoded(s, i)))
    BY <1>1, <1>2, VitMakesEmpty
  <2> QED BY <1>1, <1>5, <2>1, EncodeReturnsGgml
<1> QED BY <1>1, <1>3, <1>4, <1>5 DEF sam3_encode_vit_from_preprocessed_selective, s

\* What a prompt scratches together leaves the session prompted.
LEMMA ScratchPrompted ==
  ASSUME NEW s, Good(s), Prompted(s),
         NEW u \in GraphFailures(s) \cup {Free(Allocate(s, Locals), Locals)}
  PROVE  Prompted(u) /\ u.tensor = s.tensor /\ u.orig = s.orig
BY ScratchSameButSize, PromptedKept DEF SameButSize, SameImage

LEMMA SegmentPcsGgml ==
  ASSUME GgmlSessions, GgmlInv, AnswerInv', NEW p \in Prompts, sam3_segment_pcs(p)
  PROVE  GgmlInv' /\ PromiseStep
<1>1. /\ status = "open" /\ Good(session) /\ Prompted(session) /\ ~TrtReady
  BY DepFacts, GgmlFacts DEF GgmlInv, AnswerInv, sam3_segment_pcs, Open
<1>2. ~TrtTakesPcs(p) /\ TrtPcsFault(p) = "none" BY <1>1 DEF TrtTakesPcs, TrtPcsFault
<1>3. ~IsNull(session, "neck_det") => GgmlPcsFault = "none"
  BY <1>1, ReadyWhenRead DEF GgmlPcsFault, FirstOf
<1>4. CASE AnswersNothing("pcs", session) BY <1>1, <1>4, PromptReturnsGgml
<1>5. ASSUME NEW u \in GraphFailures(session), AnswersNothing("pcs", u)
      PROVE  GgmlInv' /\ PromiseStep
  BY <1>1, <1>5, ScratchPrompted, PromptReturnsGgml
<1>6. CASE /\ ~IsNull(session, "neck_det")
           /\ Answers("pcs", Free(Allocate(session, Locals), Locals), "neck_det", "ggml")
  <2> DEFINE u == Free(Allocate(session, Locals), Locals)
  <2>1. Prompted(u) /\ u.tensor = session.tensor /\ u.orig = session.orig
    BY <1>1, ScratchPrompted
  <2>2. ~IsNull(session, "neck_det") /\ Answers("pcs", u, "neck_det", "ggml") BY <1>6
  <2> HIDE DEF u
  <2> QED BY <1>1, <2>1, <2>2, PromptReturnsGgml
<1> QED BY <1>2, <1>3, <1>4, <1>5, <1>6 DEF sam3_segment_pcs

LEMMA SegmentPvsGgml ==
  ASSUME GgmlSessions, GgmlInv, AnswerInv', NEW p \in Prompts, sam3_segment_pvs(p)
  PROVE  GgmlInv' /\ PromiseStep
<1> DEFINE f == FillPeCache(session)
           u == Free(Allocate(f, Locals), Locals)
<1>1. /\ status = "open" /\ Good(session) /\ Prompted(session) /\ ~TrtReady
      /\ dep.size = "native" /\ dep.size \in Sizes
  BY DepFacts, GgmlFacts DEF GgmlInv, AnswerInv, sam3_segment_pvs, Open
<1>2. ~TrtTakesPvs(p) /\ TrtPvsFault(session, p) = "none" BY <1>1 DEF TrtTakesPvs, TrtPvsFault
<1>3. ~IsNull(session, "neck_trk") => GgmlPvsFault(session) = "none"
  BY <1>1, ReadyWhenRead DEF GgmlPvsFault
<1>4. /\ Good(f) /\ f.tensor = session.tensor /\ f.orig = session.orig /\ Prompted(f)
  <2>1. f.neckPeValid = session.neckPeValid /\ f.handle = session.handle
        /\ f.live = session.live /\ f.orig = session.orig /\ f.tensor = session.tensor
    BY <1>1 DEF FillPeCache, Good, Sound, SessionType
  <2>2. Good(f) BY <1>1, FilledKeeps
  <2> HIDE DEF f
  <2> QED BY <1>1, <2>1, <2>2, PromptedKept DEF SameButSize, SameImage
<1> HIDE DEF f
<1>5. Prompted(u) /\ u.tensor = session.tensor /\ u.orig = session.orig
  BY <1>4, ScratchPrompted
<1> HIDE DEF u
<1>6. CASE AnswersNothing("pvs", session) BY <1>1, <1>6, PromptReturnsGgml
<1>7. ASSUME NEW v \in GraphFailures(session) \cup GraphFailures(f), AnswersNothing("pvs", v)
      PROVE  GgmlInv' /\ PromiseStep
  <2>1. Prompted(v) /\ v.tensor = session.tensor /\ v.orig = session.orig
    BY <1>1, <1>4, ScratchPrompted
  <2> QED BY <1>1, <1>7, <2>1, PromptReturnsGgml
<1>8. CASE ~IsNull(session, "neck_trk") /\ Answers("pvs", u, "neck_trk", "ggml")
  BY <1>1, <1>5, <1>8, PromptReturnsGgml
<1>9. \/ AnswersNothing("pvs", session)
      \/ \E v \in GraphFailures(session) \cup GraphFailures(f) : AnswersNothing("pvs", v)
      \/ ~IsNull(session, "neck_trk") /\ Answers("pvs", u, "neck_trk", "ggml")
  BY <1>1, <1>2, <1>3 DEF sam3_segment_pvs, f, u
<1> QED BY <1>6, <1>7, <1>8, <1>9

LEMMA ExemplarGgml ==
  ASSUME GgmlSessions, GgmlInv, AnswerInv', sam3_pcs_compute_exemplar_embedding
  PROVE  GgmlInv' /\ PromiseStep
<1>1. status = "open" /\ Prompted(session)
  BY DEF GgmlInv, sam3_pcs_compute_exemplar_embedding, Open
<1>2. ~IsNull(session, "neck_det") => ExemplarFault = "none"
  <2> SUFFICES ASSUME ~IsNull(session, "neck_det") PROVE ExemplarFault = "none" OBVIOUS
  <2>1. DetFault = "none" /\ Ready(session) BY <1>1, ReadyWhenRead
  <2>2. ~dep.visualOnly BY <2>1 DEF Ready, HoldsFeatures
  <2> QED BY <2>1, <2>2 DEF ExemplarFault, GeometryFault, FirstOf
<1>3. CASE AnswersNothing("exemplar", session) BY <1>1, <1>3, PromptReturnsGgml
<1>4. CASE ~IsNull(session, "neck_det") /\ Answers("exemplar", session, "neck_det", "cpu")
  BY <1>1, <1>4, PromptReturnsGgml
<1> QED BY <1>2, <1>3, <1>4 DEF sam3_pcs_compute_exemplar_embedding

LEMMA OthersGgml ==
  ASSUME GgmlSessions, GgmlInv, AnswerInv',
         \/ \E on \in BOOLEAN : sam3_set_encoder_fp8(on) \/ sam3_set_pcs_fp8(on)
         \/ sam3_free_state
         \/ UNCHANGED vars
  PROVE  GgmlInv' /\ PromiseStep
<1>1. session \in SessionType BY DepFacts DEF GgmlInv, AnswerInv, Good, Sound
<1>2. CASE sam3_free_state
  <2>1. status' = "freed" /\ last' = last /\ out'.of = NoImage /\ out'.dims = NoImage
    BY <1>2 DEF sam3_free_state, Nothing
  <2> QED BY <2>1 DEF GgmlInv, PromiseStep, HoldsNow, Trusted, Answer, NoAnswer
<1>3. CASE ~sam3_free_state
  <2>1. /\ session'.tensor = session.tensor /\ session'.orig = session.orig
        /\ session'.handle = session.handle /\ session'.live = session.live
        /\ session'.neckPeValid = session.neckPeValid
        /\ last' = last /\ dep' = dep /\ out' = out /\ status' = status
    BY <1>1, <1>3 DEF sam3_set_encoder_fp8, sam3_set_pcs_fp8, SessionType, vars
  <2>2. status = "open" => Prompted(session)'
    BY <2>1 DEF GgmlInv, Prompted, Ready, Empty, HoldsFeatures, HoldsPe, IsNull, TrackerSize
  <2> QED BY <2>1, <2>2 DEF GgmlInv, PromiseStep, HoldsNow, Trusted, Answer, Encoded
<1> QED BY <1>2, <1>3

LEMMA NextGgml ==
  ASSUME GgmlSessions
  PROVE  GgmlInv /\ [Next]_vars => GgmlInv' /\ PromiseStep
<1> SUFFICES ASSUME GgmlInv, [Next]_vars PROVE GgmlInv' /\ PromiseStep OBVIOUS
<1>1. AnswerInv' BY NextAnswerInv DEF GgmlInv
<1> QED
  BY <1>1, EncodeImageGgml, EncodePrepGgml, EncodeVitGgml, SegmentPcsGgml, SegmentPvsGgml,
     ExemplarGgml, OthersGgml DEF Next

LEMMA InitGgml == Init => GgmlInv /\ HoldsNow = NoImage /\ Trusted = FALSE /\ Answer = NoAnswer
<1> SUFFICES ASSUME Init
             PROVE  GgmlInv /\ HoldsNow = NoImage /\ Trusted = FALSE /\ Answer = NoAnswer
  OBVIOUS
<1>1. AnswerInv BY InitAnswerInv
<1>2. Empty(session) /\ session.neckPeValid = FALSE
  BY DEF Init, CreatedState, NullTensor, Empty, IsNull, TensorName
<1>3. session.tensor["neck_trk"].of = NoImage BY <1>2 DEF Empty
<1> QED BY <1>1, <1>2, <1>3 DEF Init, GgmlInv, Prompted, HoldsNow, Trusted, Encoded, Answer, NoAnswer,
           Nothing

THEOREM GgmlInvariance == ASSUME GgmlSessions PROVE Spec => []GgmlInv
<1>1. GgmlInv /\ [Next]_vars => GgmlInv' BY NextGgml
<1>2. Init => GgmlInv BY InitGgml
<1> QED BY <1>1, <1>2, PTL DEF Spec

\* Without TensorRT no call reads memory that is not there, in any order of
\* calls, whatever graphs fail.
THEOREM GgmlNeverFaults == ASSUME GgmlSessions PROVE Spec => []NoFault
<1>1. GgmlInv => NoFault BY DEF GgmlInv, NoFault, Faults
<1> QED BY GgmlInvariance, <1>1, PTL

\* neck_pe_valid may be trusted: it is set only over encodings that are there.
THEOREM PeFlagIsTrue == ASSUME GgmlSessions PROVE Spec => []PeValidMeansReadable
<1>1. GgmlInv => PeValidMeansReadable
  <2> SUFFICES ASSUME GgmlInv, session.neckPeValid, status = "open"
               PROVE  ReadFault(session, "neck_pe", "native") = "none"
    BY DEF PeValidMeansReadable
  <2>1. HoldsPe(session) /\ Owned(session)
    BY DEF GgmlInv, AnswerInv, IInv, Good, Sound, Prompted
  <2>2. {"pe_ctx", "pe_buf"} \subseteq Handle BY DEF Handle, Fields
  <2> QED BY <2>1, <2>2 DEF HoldsPe, Owned, ReadFault, IsNull
<1> QED BY GgmlInvariance, <1>1, PTL

\* Without TensorRT the session implements PromptableImage: what a client sees
\* is one image at a time, prompted as often as it likes.
THEOREM SessionKeepsPromise == ASSUME GgmlSessions PROVE Spec => KeepsPromise
<1>1. Init => Promise!Init
  BY InitGgml DEF Promise!Init, Promise!NoAnswer, HoldsNow, Trusted, Answer, NoAnswer
<1>2. GgmlInv /\ [Next]_vars =>
        [Promise!Next]_<<HoldsNow, Trusted, Answer>>
  <2> SUFFICES ASSUME GgmlInv, [Next]_vars, ~UNCHANGED <<HoldsNow, Trusted, Answer>>
               PROVE  Promise!Next
    OBVIOUS
  <2>1. PromiseStep BY NextGgml
  <2> QED BY <2>1 DEF PromiseStep, HoldsNow, Trusted, Answer, NoAnswer, Promise!Next, Promise!Encode,
             Promise!EncodeFails, Promise!Drop, Promise!Prompt, Promise!Refuse, Promise!NoAnswer
<1> QED BY <1>1, <1>2, GgmlInvariance, PTL DEF Spec, KeepsPromise, Promise!Spec, HoldsNow, Trusted, Answer
=============================================================================
