----------------------------- MODULE EngineProofs -----------------------------
(***************************************************************************)
(* TensorRT engines.  First the engine cache, proved for any number of     *)
(* processes, files, contents and requests, under any failures: what a     *)
(* file under a key holds, what a process runs, and what it takes to leave *)
(* a torn file.  Then the calls of one engine: that a call which succeeds  *)
(* has its own outputs, and what else holds for any engine, any callers    *)
(* and any number of calls.                                                *)
(***************************************************************************)
EXTENDS EngineCache, EngineRun, FiniteSetTheorems, SequenceTheorems, TLAPS

\* What a process has in hand at each stage of asking.
InHand(p) ==
  /\ ~At(p, "idle") => proc[p].of \in Contents
  /\ At(p, "hashed") \/ At(p, "missed") => ~proc[p].built
  /\ At(p, "built") \/ At(p, "writing") => proc[p].built
  /\ proc[p].built /\ proc[p].pc \in {"built", "writing", "loaded"} => proc[p].blob \in Engine
  /\ proc[p].built /\ At(p, "done") /\ "load" \notin Failures => proc[p].memo # None

\* What it has in hand is what it asked for: the file it is about to parse is
\* the file it hashed, and an engine is the one its request describes.
AsAsked(p) ==
  /\ At(p, "hashed") \/ At(p, "missed") => onnx[proc[p].req.path] = proc[p].of
  /\ proc[p].pc \in {"built", "writing", "loaded"} /\ proc[p].blob \in Engine
       => proc[p].blob = Built(proc[p].of, proc[p].req)
  /\ At(p, "done") /\ proc[p].memo # None => proc[p].memo = Built(proc[p].of, proc[p].req)

IInv ==
  /\ TypeOK
  /\ \A p \in Procs : InHand(p)
  /\ ProperUse => \A p \in Procs : AsAsked(p)
  /\ CacheFaithful
  /\ TornHasCause

-----------------------------------------------------------------------------
\* Patterns given once each survive the exclusive or: the key names exactly
\* the pinned patterns.
LEMMA DistinctHashed ==
  ASSUME NEW s \in Seq(Patterns), Distinct(s)
  PROVE  Hashed(s) = Pinned(s)
<1> DEFINE At_(x) == {i \in DOMAIN s : s[i] = x}
<1>1. ASSUME NEW x \in Pinned(s) PROVE x \in Hashed(s)
  <2>1. PICK i \in DOMAIN s : s[i] = x
    BY <1>1 DEF Pinned
  <2>2. At_(x) = {i}
    BY <2>1 DEF Distinct
  <2>3. Cardinality(At_(x)) = 1
    BY <2>2, FS_Singleton
  <2>4. x \in Patterns
    BY <2>1
  <2>5. QED
    BY <2>3, <2>4 DEF Hashed
<1>2. ASSUME NEW x \in Hashed(s) PROVE x \in Pinned(s)
  <2>1. Cardinality(At_(x)) % 2 = 1
    BY <1>2 DEF Hashed
  <2>2. CASE At_(x) = {}
    <3>1. Cardinality(At_(x)) = 0
      BY <2>2, FS_EmptySet
    <3>2. QED
      BY <2>1, <3>1
  <2>3. CASE At_(x) # {}
    BY <2>3 DEF Pinned
  <2>4. QED
    BY <2>2, <2>3
<1>3. QED
  BY <1>1, <1>2

\* A key determines the engine that is built under it.
LEMMA KeyDescribesEngine ==
  ASSUME NEW c \in Contents, NEW r \in Requests, Distinct(r.patterns)
  PROVE  LET k == Key(c, r)
         IN  Built(c, r) = [of |-> k.of, fp16 |-> k.fp16, pins |-> IF k.fp16 THEN k.pins ELSE {}]
<1>1. r.patterns \in Seq(Patterns)
  BY RequestsAssumption DEF Request
<1>2. Hashed(r.patterns) = Pinned(r.patterns)
  BY <1>1, DistinctHashed
<1>3. QED
  BY <1>2 DEF Key, Built

\* Engines and keys have their types.
LEMMA EngineTypes ==
  ASSUME NEW c \in Contents, NEW r \in Requests
  PROVE  Built(c, r) \in Engine /\ Key(c, r) \in Keys
<1>1. r \in Request
  BY RequestsAssumption
<1>2. Fp16(r) \in BOOLEAN
  BY <1>1 DEF Fp16, Request
<1>3. Pinned(r.patterns) \subseteq Patterns
  BY <1>1 DEF Pinned, Request
<1>4. QED
  BY <1>2, <1>3 DEF Built, Engine, Keys

\* A file path of a request names an ONNX file.
LEMMA PathTypes ==
  ASSUME TypeOK, NEW p \in Procs
  PROVE  /\ proc[p].req \in Requests /\ proc[p].req.path \in Paths
         /\ onnx[proc[p].req.path] \in Contents
BY RequestsAssumption DEF TypeOK, Entry, Request

\* Nothing is known of a process that has not asked.
LEMMA NotAskingType ==
  /\ NotAsking.req \in Requests
  /\ NotAsking.pc = "idle" /\ NotAsking.of = None /\ NotAsking.blob = None
  /\ NotAsking.built = FALSE /\ NotAsking.memo = None
BY RequestsAssumption DEF NotAsking

\* An empty cache satisfies the invariant.
LEMMA InitIInv == Init => IInv
<1>1. SUFFICES ASSUME Init PROVE IInv
  OBVIOUS
<1>2. TypeOK
  BY <1>1, NotAskingType DEF Init, TypeOK, NotAsking, Entry
<1>3. \A p \in Procs : InHand(p) /\ AsAsked(p)
  BY <1>1, NotAskingType DEF Init, InHand, AsAsked, At
<1>4. CacheFaithful /\ TornHasCause
  BY <1>1, NoneAssumption DEF Init, CacheFaithful, TornHasCause
<1>5. QED
  BY <1>2, <1>3, <1>4 DEF IInv

\* When only process p moves, what the others have in hand is untouched.
LEMMA OthersUnmoved ==
  ASSUME IInv, NEW p \in Procs, NEW v, proc' = [proc EXCEPT ![p] = v], onnx' = onnx,
         InHand(p)', ProperUse => AsAsked(p)'
  PROVE  /\ \A q \in Procs : InHand(q)'
         /\ ProperUse => \A q \in Procs : AsAsked(q)'
<1>1. ASSUME NEW q \in Procs, q # p PROVE proc'[q] = proc[q]
  BY <1>1 DEF IInv, TypeOK
<1>2. \A q \in Procs : q # p => InHand(q)'
  BY <1>1 DEF IInv, InHand, At
<1>3. ProperUse => \A q \in Procs : q # p => AsAsked(q)'
  BY <1>1 DEF IInv, AsAsked, At
<1>4. QED
  BY <1>2, <1>3

\* A process that is not writing and moves to no write leaves the writers alone.
LEMMA WritersUnmoved ==
  ASSUME IInv, NEW p \in Procs, NEW v, proc' = [proc EXCEPT ![p] = v],
         ~At(p, "writing"), v.pc # "writing"
  PROVE  \A k : Writers(k)' = Writers(k)
BY DEF IInv, TypeOK, Writers, At, KeyOf

\* A move changes at most the writers of the key the process had and has.
LEMMA WritersElsewhere ==
  ASSUME IInv, NEW p \in Procs, NEW v, proc' = [proc EXCEPT ![p] = v],
         NEW k, k # KeyOf(p), k # Key(v.of, v.req)
  PROVE  Writers(k)' = Writers(k)
BY DEF IInv, TypeOK, Writers, At, KeyOf

\* A move of one process that touches neither the files nor the writers.
LEMMA QuietMove ==
  ASSUME IInv, NEW p \in Procs, NEW v \in Entry, proc' = [proc EXCEPT ![p] = v],
         UNCHANGED <<onnx, disk, spoiled>>, ~At(p, "writing"), v.pc # "writing",
         InHand(p)', ProperUse => AsAsked(p)'
  PROVE  IInv'
<1>1. TypeOK'
  BY DEF IInv, TypeOK
<1>2. /\ \A q \in Procs : InHand(q)'
      /\ ProperUse => \A q \in Procs : AsAsked(q)'
  BY OthersUnmoved
<1>3. CacheFaithful'
  BY DEF IInv, CacheFaithful, ProperUse
<1>4. TornHasCause'
  <2>1. \A k \in Keys : Writers(k)' = Writers(k)
    BY WritersUnmoved
  <2>2. QED
    BY <2>1 DEF IInv, TornHasCause
<1>5. QED
  BY <1>1, <1>2, <1>3, <1>4 DEF IInv, ProperUse

\* Asking, looking up, building and deserializing preserve the invariant: they
\* leave the disk alone, and what they put in hand is what was asked for.
LEMMA QuietStep ==
  ASSUME IInv, NEW p \in Procs,
         ReadOnnx(p) \/ Hit(p) \/ Miss(p) \/ Build(p) \/ BuildFails(p)
           \/ OpenFails(p) \/ Deserialize(p)
  PROVE  IInv'
<1> DEFINE r == proc[p].req
           c == proc[p].of
<1>1. /\ TypeOK /\ InHand(p) /\ CacheFaithful /\ (ProperUse => AsAsked(p))
      /\ UNCHANGED <<onnx, disk, spoiled>>
  BY DEF IInv, ReadOnnx, Hit, Miss, Build, BuildFails, OpenFails, Deserialize
<1>2. r \in Requests /\ r.path \in Paths /\ onnx[r.path] \in Contents
  BY <1>1, PathTypes
<1>3. proc[p] \in Entry
  BY <1>1 DEF TypeOK
<1>4. CASE ReadOnnx(p)
  <2> DEFINE v(q, s) == [pc |-> s, req |-> q, of |-> onnx[q.path], blob |-> None,
                         built |-> FALSE, memo |-> None]
  <2>1. PICK q \in Requests, s \in {"hashed", "done"} : proc' = [proc EXCEPT ![p] = v(q, s)]
    BY <1>4 DEF ReadOnnx
  <2>2. onnx[q.path] \in Contents
    BY <1>1, RequestsAssumption DEF TypeOK, Request
  <2>3. proc'[p] = v(q, s)
    BY <1>1, <2>1 DEF TypeOK
  <2>4. InHand(p)' /\ AsAsked(p)'
    BY <1>1, <2>2, <2>3, NoneAssumption DEF InHand, AsAsked, At
  <2>5. v(q, s) \in Entry /\ v(q, s).pc # "writing" /\ ~At(p, "writing")
    BY <1>4, <2>2 DEF ReadOnnx, At, Entry
  <2>6. QED
    BY <1>1, <2>1, <2>4, <2>5, QuietMove
<1>5. CASE Hit(p)
  <2> DEFINE v == [proc[p] EXCEPT !.pc = "loaded", !.blob = disk[KeyOf(p)]]
  <2>1. /\ proc' = [proc EXCEPT ![p] = v] /\ proc'[p] = v
        /\ proc[p].pc = "hashed"
    BY <1>1, <1>5 DEF Hit, Moves, At, TypeOK
  <2>2. c \in Contents /\ KeyOf(p) \in Keys
    BY <1>1, <1>2, <2>1, EngineTypes DEF InHand, At, KeyOf
  <2>3. disk[KeyOf(p)] \in Engine \cup {None, Torn}
    BY <1>1, <2>2 DEF TypeOK
  <2>4. ASSUME ProperUse, disk[KeyOf(p)] \in Engine PROVE disk[KeyOf(p)] = Built(c, r)
    <3>1. Distinct(r.patterns)
      BY <1>2, <2>4 DEF ProperUse
    <3>2. QED
      BY <1>1, <1>2, <2>2, <2>4, <3>1, KeyDescribesEngine DEF CacheFaithful, KeyOf
  <2>5. InHand(p)'
    BY <1>1, <1>3, <2>1, <2>2 DEF InHand, At, Entry
  <2>6. ProperUse => AsAsked(p)'
    BY <1>1, <1>3, <2>1, <2>4 DEF AsAsked, At, Entry
  <2>7. v \in Entry /\ v.pc # "writing" /\ ~At(p, "writing")
    BY <1>3, <2>1, <2>3 DEF Entry, At
  <2>8. QED
    BY <1>1, <2>1, <2>5, <2>6, <2>7, QuietMove
<1>6. CASE Miss(p)
  <2> DEFINE v == [proc[p] EXCEPT !.pc = "missed", !.blob = None]
  <2>1. proc' = [proc EXCEPT ![p] = v] /\ proc'[p] = v /\ proc[p].pc = "hashed"
    BY <1>1, <1>6 DEF Miss, Moves, At, TypeOK
  <2>2. InHand(p)' /\ (ProperUse => AsAsked(p)')
    BY <1>1, <1>3, <2>1 DEF InHand, AsAsked, At, Entry
  <2>3. v \in Entry /\ v.pc # "writing" /\ ~At(p, "writing")
    BY <1>3, <2>1 DEF Entry, At
  <2>4. QED
    BY <1>1, <2>1, <2>2, <2>3, QuietMove
<1>7. CASE Build(p)
  <2> DEFINE v == [proc[p] EXCEPT !.pc = "built", !.built = TRUE,
                                  !.blob = Built(onnx[r.path], r)]
  <2>1. proc' = [proc EXCEPT ![p] = v] /\ proc'[p] = v /\ proc[p].pc = "missed"
    BY <1>1, <1>7 DEF Build, At, TypeOK
  <2>2. Built(onnx[r.path], r) \in Engine
    BY <1>2, EngineTypes
  <2>3. InHand(p)' /\ (ProperUse => AsAsked(p)')
    BY <1>1, <1>3, <2>1, <2>2 DEF InHand, AsAsked, At, Entry
  <2>4. v \in Entry /\ v.pc # "writing" /\ ~At(p, "writing")
    BY <1>3, <2>1, <2>2 DEF Entry, At
  <2>5. QED
    BY <1>1, <2>1, <2>3, <2>4, QuietMove
<1>8. CASE BuildFails(p)
  <2> DEFINE v == [proc[p] EXCEPT !.pc = "done", !.memo = None]
  <2>1. proc' = [proc EXCEPT ![p] = v] /\ proc[p].pc = "missed"
    BY <1>8 DEF BuildFails, Returns, At
  <2>2. v.pc = "done" /\ v.memo = None
    BY <1>3 DEF Entry
  <2>3. v.of = c /\ v.built = proc[p].built
    BY <1>3 DEF Entry
  <2>4. proc'[p] = v
    BY <1>1, <2>1 DEF TypeOK
  <2>5. c \in Contents /\ ~proc[p].built
    BY <1>1, <2>1 DEF InHand, At
  <2>6. v \in Entry /\ v.pc # "writing" /\ ~At(p, "writing")
    BY <1>3, <2>1 DEF Entry, At
  <2> HIDE DEF v
  <2>7. InHand(p)' /\ AsAsked(p)'
    BY <2>2, <2>3, <2>4, <2>5 DEF InHand, AsAsked, At
  <2>8. QED
    BY <1>1, <2>1, <2>6, <2>7, QuietMove
<1>9. CASE OpenFails(p)
  <2> DEFINE v == [proc[p] EXCEPT !.pc = "loaded", !.blob = proc[p].blob]
  <2>1. proc' = [proc EXCEPT ![p] = v] /\ proc'[p] = v /\ proc[p].pc = "built"
    BY <1>1, <1>9 DEF OpenFails, Moves, At, TypeOK
  <2>2. InHand(p)' /\ (ProperUse => AsAsked(p)')
    BY <1>1, <1>3, <2>1 DEF InHand, AsAsked, At, Entry
  <2>3. v \in Entry /\ v.pc # "writing" /\ ~At(p, "writing")
    BY <1>3, <2>1 DEF Entry, At
  <2>4. QED
    BY <1>1, <2>1, <2>2, <2>3, QuietMove
<1>10. CASE Deserialize(p)
  <2> DEFINE e == IF proc[p].blob = Torn THEN None ELSE proc[p].blob
             v(m) == [proc[p] EXCEPT !.pc = "done", !.memo = m]
  <2>1. PICK m \in {e, None} : /\ proc' = [proc EXCEPT ![p] = v(m)]
                               /\ m = e \/ "load" \in Failures
    BY <1>10 DEF Deserialize, Returns
  <2>2. proc'[p] = v(m)
    BY <1>1, <2>1 DEF TypeOK
  <2>3. proc[p].pc = "loaded" /\ e \in Engine \cup {None}
    BY <1>3, <1>10 DEF Deserialize, At, Entry
  <2>4. proc[p].built => e \in Engine
    BY <1>1, <2>3, NoneAssumption DEF InHand
  <2>5. InHand(p)'
    BY <1>1, <1>3, <2>1, <2>2, <2>3, <2>4, NoneAssumption DEF InHand, At, Entry
  <2>6. ProperUse => AsAsked(p)'
    BY <1>1, <1>3, <2>1, <2>2, <2>3, NoneAssumption DEF AsAsked, At, Entry
  <2>7. v(m) \in Entry /\ v(m).pc # "writing" /\ ~At(p, "writing")
    BY <1>3, <2>1, <2>3 DEF Entry, At
  <2>8. QED
    BY <1>1, <2>1, <2>5, <2>6, <2>7, QuietMove
<1>11. QED
  BY <1>4, <1>5, <1>6, <1>7, <1>8, <1>9, <1>10
\* Opening the cache file preserves the invariant: it is torn, and has a writer.
LEMMA OpenStep == ASSUME IInv, NEW p \in Procs, OpenCache(p) PROVE IInv'
<1> DEFINE v == [proc[p] EXCEPT !.pc = "writing", !.blob = proc[p].blob]
           k == KeyOf(p)
<1>1. TypeOK /\ InHand(p) /\ CacheFaithful /\ TornHasCause /\ (ProperUse => AsAsked(p))
  BY DEF IInv
<1>2. /\ proc' = [proc EXCEPT ![p] = v] /\ proc[p].pc = "built" /\ onnx' = onnx
      /\ disk' = [disk EXCEPT ![k] = Torn]
      /\ spoiled' \in {spoiled \ {k}, spoiled \cup {k}}
  BY DEF OpenCache, Moves, At
<1>3. proc[p] \in Entry /\ v \in Entry /\ proc'[p] = v
  BY <1>1, <1>2 DEF TypeOK, Entry
<1>4. v.pc = "writing" /\ v.of = proc[p].of /\ v.req = proc[p].req
      /\ v.built = proc[p].built /\ v.blob = proc[p].blob
  BY <1>3 DEF Entry
<1> HIDE DEF v
<1>5. k \in Keys
  BY <1>1, <1>2, PathTypes, EngineTypes DEF InHand, At, KeyOf
<1>6. TypeOK'
  BY <1>1, <1>2, <1>3, <1>5 DEF TypeOK
<1>7. InHand(p)' /\ (ProperUse => AsAsked(p)')
  BY <1>1, <1>2, <1>3, <1>4 DEF InHand, AsAsked, At
<1>8. /\ \A q \in Procs : InHand(q)'
      /\ ProperUse => \A q \in Procs : AsAsked(q)'
  BY <1>2, <1>7, OthersUnmoved
<1>9. CacheFaithful'
  BY <1>1, <1>2, <1>5, NoneAssumption DEF CacheFaithful, ProperUse, TypeOK
<1>10. ASSUME NEW j \in Keys, disk'[j] = Torn, Writers(j)' = {} PROVE j \in spoiled'
  <2>1. j = k => p \in Writers(j)'
    BY <1>3, <1>4 DEF Writers, At, KeyOf
  <2>2. j # k
    BY <1>10, <2>1
  <2>3. Writers(j)' = Writers(j)
    BY <1>2, <1>4, <2>2, WritersElsewhere DEF KeyOf
  <2>4. disk[j] = Torn
    BY <1>1, <1>2, <1>10, <2>2 DEF TypeOK
  <2>5. QED
    BY <1>1, <1>2, <1>10, <2>2, <2>3, <2>4 DEF TornHasCause
<1>11. QED
  BY <1>6, <1>8, <1>9, <1>10 DEF IInv, TornHasCause, ProperUse

\* Ending the write preserves the invariant, whether the file is now whole or
\* torn: whole, it is the engine of its key; torn, it counts as spoiled.
LEMMA CloseStep ==
  ASSUME IInv, NEW p \in Procs, WriteCache(p) \/ WriteFails(p)
  PROVE  IInv'
<1> DEFINE v == [proc[p] EXCEPT !.pc = "loaded", !.blob = proc[p].blob]
           k == KeyOf(p)
           c == proc[p].of
           r == proc[p].req
<1>1. TypeOK /\ InHand(p) /\ CacheFaithful /\ TornHasCause /\ (ProperUse => AsAsked(p))
  BY DEF IInv
<1>2. /\ proc' = [proc EXCEPT ![p] = v] /\ proc[p].pc = "writing" /\ onnx' = onnx
      /\ spoiled' \in {spoiled, spoiled \cup {k}}
  BY DEF WriteCache, WriteFails, Moves, At
<1>3. PICK e \in {proc[p].blob, Torn} : /\ disk' = [disk EXCEPT ![k] = e]
                                        /\ e = proc[p].blob \/ k \in spoiled'
  BY DEF WriteCache, WriteFails
<1>4. proc[p] \in Entry /\ v \in Entry /\ proc'[p] = v
  BY <1>1, <1>2 DEF TypeOK, Entry
<1>5. v.pc = "loaded" /\ v.of = c /\ v.req = r
      /\ v.built = proc[p].built /\ v.blob = proc[p].blob
  BY <1>4 DEF Entry
<1> HIDE DEF v
<1>6. c \in Contents /\ r \in Requests /\ k \in Keys /\ proc[p].blob \in Engine
  BY <1>1, <1>2, PathTypes, EngineTypes DEF InHand, At, KeyOf
<1>7. TypeOK'
  BY <1>1, <1>2, <1>3, <1>4, <1>6 DEF TypeOK
<1>8. InHand(p)' /\ (ProperUse => AsAsked(p)')
  BY <1>1, <1>2, <1>4, <1>5, <1>6 DEF InHand, AsAsked, At
<1>9. /\ \A q \in Procs : InHand(q)'
      /\ ProperUse => \A q \in Procs : AsAsked(q)'
  BY <1>2, <1>8, OthersUnmoved
<1>10. CacheFaithful'
  <2>1. SUFFICES ASSUME ProperUse, NEW j \in Keys, disk'[j] \in Engine
                 PROVE  disk'[j] = [of |-> j.of, fp16 |-> j.fp16,
                                    pins |-> IF j.fp16 THEN j.pins ELSE {}]
    BY DEF CacheFaithful, ProperUse
  <2>2. CASE j # k
    BY <1>1, <1>3, <2>1, <2>2 DEF CacheFaithful, TypeOK
  <2>3. CASE j = k
    <3>1. disk'[j] = proc[p].blob
      BY <1>1, <1>3, <1>6, <2>1, <2>3, NoneAssumption DEF TypeOK
    <3>2. proc[p].blob = Built(c, r)
      BY <1>1, <1>2, <1>6, <2>1 DEF AsAsked
    <3>3. Distinct(r.patterns)
      BY <1>6, <2>1 DEF ProperUse
    <3>4. QED
      BY <1>6, <2>3, <3>1, <3>2, <3>3, KeyDescribesEngine DEF KeyOf
  <2>4. QED
    BY <2>2, <2>3
<1>11. ASSUME NEW j \in Keys, disk'[j] = Torn, Writers(j)' = {} PROVE j \in spoiled'
  <2>1. CASE j = k
    <3>1. disk'[k] = e
      BY <1>1, <1>3, <1>6 DEF TypeOK
    <3>2. QED
      BY <1>3, <1>6, <1>11, <2>1, <3>1, NoneAssumption
  <2>2. CASE j # k
    <3>1. Writers(j)' = Writers(j)
      BY <1>2, <1>5, <2>2, WritersElsewhere DEF KeyOf
    <3>2. disk[j] = Torn
      BY <1>1, <1>3, <1>11, <2>2 DEF TypeOK
    <3>3. QED
      BY <1>1, <1>2, <1>11, <3>1, <3>2 DEF TornHasCause
  <2>3. QED
    BY <2>1, <2>2
<1>12. QED
  BY <1>7, <1>9, <1>10, <1>11 DEF IInv, TornHasCause, ProperUse

\* A process that ends or dies preserves the invariant: dying over an open
\* file spoils its key.
LEMMA ExitStep == ASSUME IInv, NEW p \in Procs, Exit(p) PROVE IInv'
<1>1. TypeOK /\ CacheFaithful /\ TornHasCause
  BY DEF IInv
<1>2. /\ proc' = [proc EXCEPT ![p] = NotAsking] /\ UNCHANGED <<onnx, disk>>
      /\ ~At(p, "idle")
      /\ spoiled' = IF At(p, "writing") THEN spoiled \cup {KeyOf(p)} ELSE spoiled
  BY DEF Exit, At
<1>3. NotAsking \in Entry /\ proc'[p] = NotAsking
  BY <1>1, <1>2, NotAskingType DEF TypeOK, Entry, NotAsking
<1>4. At(p, "writing") => KeyOf(p) \in Keys
  BY <1>1, PathTypes, EngineTypes DEF IInv, InHand, At, KeyOf
<1>5. TypeOK'
  BY <1>1, <1>2, <1>3, <1>4 DEF TypeOK
<1>6. InHand(p)' /\ AsAsked(p)'
  BY <1>3, NotAskingType DEF InHand, AsAsked, At
<1>7. /\ \A q \in Procs : InHand(q)'
      /\ ProperUse => \A q \in Procs : AsAsked(q)'
  BY <1>2, <1>6, OthersUnmoved
<1>8. CacheFaithful'
  BY <1>1, <1>2 DEF CacheFaithful, ProperUse
<1>9. ASSUME NEW j \in Keys, disk'[j] = Torn, Writers(j)' = {} PROVE j \in spoiled'
  <2>1. \A q \in Procs : q # p => proc'[q] = proc[q]
    BY <1>1, <1>2 DEF TypeOK
  <2>2. Writers(j) \subseteq {p}
    BY <1>9, <2>1 DEF Writers, At, KeyOf
  <2>3. CASE Writers(j) = {}
    BY <1>1, <1>2, <1>9, <2>3 DEF TornHasCause
  <2>4. CASE p \in Writers(j)
    BY <1>2, <2>4 DEF Writers
  <2>5. QED
    BY <2>2, <2>3, <2>4
<1>10. QED
  BY <1>5, <1>7, <1>8, <1>9 DEF IInv, TornHasCause, ProperUse

\* Exporting a model preserves the invariant: nobody is about to parse it.
LEMMA ExportStep ==
  ASSUME IInv, NEW f \in Paths, NEW c \in Contents, Export(f, c)
  PROVE  IInv'
<1>1. onnx' = [onnx EXCEPT ![f] = c] /\ UNCHANGED <<disk, proc, spoiled>>
  BY DEF Export
<1>2. TypeOK'
  BY <1>1 DEF IInv, TypeOK
<1>3. \A q \in Procs : InHand(q)'
  BY <1>1 DEF IInv, InHand, At
<1>4. ASSUME ProperUse, NEW q \in Procs PROVE AsAsked(q)'
  <2>1. AsAsked(q) /\ onnx \in [Paths -> Contents]
    BY <1>4 DEF IInv, TypeOK
  <2>2. At(q, "hashed") \/ At(q, "missed") => proc[q].req.path # f
    BY <1>4 DEF Export, ProperUse, At
  <2>3. At(q, "hashed") \/ At(q, "missed") => onnx'[proc[q].req.path] = onnx[proc[q].req.path]
    BY <1>1, <2>1, <2>2, PathTypes DEF IInv
  <2>4. QED
    BY <1>1, <2>1, <2>3 DEF AsAsked, At
<1>5. CacheFaithful'
  BY <1>1 DEF IInv, CacheFaithful, ProperUse
<1>6. TornHasCause'
  BY <1>1 DEF IInv, TornHasCause, Writers, At, KeyOf
<1>7. QED
  BY <1>2, <1>3, <1>4, <1>5, <1>6 DEF IInv, ProperUse

\* Every step preserves the invariant.
LEMMA StepIInv == IInv /\ [Next]_vars => IInv'
<1>1. SUFFICES ASSUME IInv, [Next]_vars PROVE IInv'
  OBVIOUS
<1>2. ASSUME NEW p \in Procs, Asks(p) PROVE IInv'
  BY <1>1, <1>2, QuietStep, OpenStep, CloseStep DEF Asks
<1>3. ASSUME NEW p \in Procs, Exit(p) PROVE IInv'
  BY <1>1, <1>3, ExitStep
<1>4. ASSUME NEW f \in Paths, NEW c \in Contents, Export(f, c) PROVE IInv'
  BY <1>1, <1>4, ExportStep
<1>5. CASE UNCHANGED vars
  BY <1>1, <1>5
     DEF vars, IInv, TypeOK, InHand, AsAsked, CacheFaithful, TornHasCause, ProperUse,
         Writers, At, KeyOf
<1>6. QED
  BY <1>1, <1>2, <1>3, <1>4, <1>5 DEF Next

\* The invariant holds of every reachable cache.
THEOREM Invariance == Spec => []IInv
BY InitIInv, StepIInv, PTL DEF Spec

-----------------------------------------------------------------------------
\* Every variable keeps its type.
THEOREM TypeCorrect == Spec => []TypeOK
<1>1. IInv => TypeOK
  BY DEF IInv
<1>2. QED
  BY <1>1, Invariance, PTL

\* What is found under a key was built as the key says.
THEOREM CacheIsFaithful == Spec => []CacheFaithful
<1>1. IInv => CacheFaithful
  BY DEF IInv
<1>2. QED
  BY <1>1, Invariance, PTL

\* A process runs the engine it asked for, or none.
THEOREM MemoIsAsAsked == Spec => []MemoAsAsked
<1>1. IInv => MemoAsAsked
  BY DEF IInv, AsAsked, MemoAsAsked
<1>2. QED
  BY <1>1, Invariance, PTL

\* A process that built its engine runs it.
THEOREM OwnBuildIsServed == Spec => []OwnBuildServes
<1>1. IInv => OwnBuildServes
  BY DEF IInv, InHand, OwnBuildServes
<1>2. QED
  BY <1>1, Invariance, PTL

\* Torn files come from failed, crashed or simultaneous writes only.
THEOREM TornFilesHaveCauses == Spec => []TornHasCause
<1>1. IInv => TornHasCause
  BY DEF IInv
<1>2. QED
  BY <1>1, Invariance, PTL

-----------------------------------------------------------------------------
(* The calls of one engine: the invariant.                                  *)

First(order, k) == {order[j] : j \in 1 .. k}

(* The inputs and outputs that the call has bound so far.                    *)
BoundInputs ==
    IF call.at = "idle" THEN {}
    ELSE IF call.at = "inputs" THEN First(InputOrder, call.k - 1) ELSE Inputs
BoundOutputs ==
    IF call.at \in {"idle", "inputs"} THEN {}
    ELSE IF call.at = "outputs" THEN First(OutputOrder, call.k - 1) ELSE Outputs

(* Where this call's b is.                                                   *)
OnHost(b) == IF b \in Inputs THEN call.args[b].via # "device" ELSE b \notin call.presets
Address(b) == IF OnHost(b) THEN Staging ELSE call.n

CallInv ==
    /\ call.at # "idle" => engine = "ready" /\ call.n > 0
    /\ call.at = "inputs" => call.k <= Len(InputOrder)
    /\ call.at = "enqueue" => call.k = 1
    /\ call.at \in {"outputs", "download"} => call.k <= Len(OutputOrder)

EngineInv ==
    /\ engine # "ready" => stream = <<>>
    /\ engine = "ready" => "stream" \in cuda
    /\ engine = "freed" => cuda = {}

ContextInv ==
    /\ \A b \in BoundInputs \cup BoundOutputs :
          context.address[b] = Address(b) /\ (OnHost(b) => b \in cuda)
    /\ \A d \in BoundInputs \cap Dynamic : context.shape[d] = call.args[d].size

Queued == 1 .. Len(stream)
IsCopy(w, op, b, n) == w.op = op /\ w.tensor = b /\ w.n = n

StreamInv ==
    \A i \in Queued :
       /\ stream[i].op \in {"upload", "download"} => stream[i].tensor \in cuda
       /\ stream[i].op = "run" =>
             \A b \in Tensors : stream[i].address[b] = Staging => b \in cuda
       /\ stream[i].op = "download" =>
             late \/ (stream[i].n = call.n /\ call.at \in {"download", "synchronize"})

(* The staging of b has this call's data, or will have it when the uploads   *)
(* that are queued are done.                                                 *)
Uploads(b) == {i \in Queued : stream[i].op = "upload" /\ stream[i].tensor = b}
Fresh(b) ==
    \/ Uploads(b) = {} /\ memory.staging[b] = call.n
    \/ \E u \in Uploads(b) : stream[u].n = call.n /\ \A v \in Uploads(b) : v <= u
AllFresh == \A b \in BoundInputs : OnHost(b) => Fresh(b)

Downloaded ==
    (IF call.at = "synchronize" THEN Outputs ELSE First(OutputOrder, call.k - 1))
        \ call.presets

(* This call's run is queued, with nothing but downloads behind it; ...      *)
ToRun(r) ==
    /\ stream[r].op = "run" /\ \A b \in Tensors : stream[r].address[b] = Address(b)
    /\ \A i \in Queued : i > r => stream[i].op = "download"
    /\ \A o \in Downloaded : \E d \in Queued : d > r /\ IsCopy(stream[d], "download", o, call.n)
Pending == AllFresh /\ \E r \in Queued : ToRun(r)

(* ... or it is done, and its outputs are there, or on their way.            *)
Ran ==
    /\ \A i \in Queued : stream[i].op = "download"
    /\ \A o \in Outputs :
          IF o \in call.presets THEN memory.caller[o] = call.n ELSE memory.staging[o] = call.n
    /\ \A o \in Downloaded :
          result[o] = call.n \/ \E d \in Queued : IsCopy(stream[d], "download", o, call.n)

DataInv ==
    /\ call.at \in {"inputs", "outputs", "enqueue"} => AllFresh
    /\ call.at \in {"download", "synchronize"} => Pending \/ Ran

RunInv == /\ RunTypeOK /\ CallInv /\ EngineInv /\ ContextInv /\ StreamInv /\ DataInv
        /\ OutputsOfThisCall /\ WildWritesHaveCause
-----------------------------------------------------------------------------
(* Orders, bindings and phases.                                              *)

LEMMA Orders ==
    /\ Inputs = First(InputOrder, Len(InputOrder))
    /\ Outputs = First(OutputOrder, Len(OutputOrder))
    /\ Len(InputOrder) \in Nat \ {0} /\ Len(OutputOrder) \in Nat \ {0}
    /\ Inputs # {}
<1>1. Len(InputOrder) \in Nat \ {0} /\ Len(OutputOrder) \in Nat \ {0}
      BY TensorsAssumption, EmptySeq
<1>2. DOMAIN InputOrder = 1 .. Len(InputOrder) /\ DOMAIN OutputOrder = 1 .. Len(OutputOrder)
      BY TensorsAssumption
<1>3. /\ Inputs = First(InputOrder, Len(InputOrder))
      /\ Outputs = First(OutputOrder, Len(OutputOrder))
      BY <1>2 DEF Inputs, Outputs, ToSet, First
<1>4. InputOrder[1] \in Inputs BY <1>1, <1>3 DEF First
<1> QED BY <1>1, <1>3, <1>4

LEMMA FirstIsEmpty == \A order : First(order, 0) = {}
BY DEF First

LEMMA FirstGrows ==
    ASSUME NEW order, NEW k \in Nat \ {0}
    PROVE  First(order, k) = First(order, k - 1) \cup {order[k]}
<1>1. 1 .. k = (1 .. k - 1) \cup {k} OBVIOUS
<1> QED BY <1>1 DEF First

(* What going on to the next tensor leaves alone.                            *)
Moved ==
    /\ call'.n = call.n /\ call'.args = call.args /\ call'.presets = call.presets
    /\ call' \in ACall

LEMMA NextInput ==
    ASSUME RunTypeOK, CallInv, call.at = "inputs", call' = NextTensor
    PROVE  /\ Binding \in Inputs
           /\ call'.at \in {"inputs", "outputs"} /\ Moved
           /\ call'.at = "inputs" => call'.k <= Len(InputOrder)
           /\ call'.at = "outputs" => call'.k <= Len(OutputOrder)
           /\ BoundInputs' = BoundInputs \cup {Binding}
           /\ BoundOutputs = {} /\ BoundOutputs' = {}
<1>0. call \in ACall BY DEF RunTypeOK
<1>1. Loop = InputOrder /\ Binding = InputOrder[call.k] BY DEF Loop, Binding
<1>2. call.k \in 1 .. Len(InputOrder) BY <1>0, Orders DEF ACall, CallInv
<1>3. Binding \in Inputs BY <1>1, <1>2, Orders DEF First
<1>4. CASE call.k < Len(InputOrder)
  <2>1. call' = [call EXCEPT !.k = @ + 1] BY <1>1, <1>4 DEF NextTensor
  <2>2. call'.at = "inputs" /\ call'.k = call.k + 1 BY <2>1 DEF ACall
  <2>3. call'.k - 1 = call.k /\ First(InputOrder, call.k) = First(InputOrder, call.k - 1) \cup {Binding}
        BY <1>1, <1>2, <2>2, Orders, FirstGrows
  <2>4. BoundInputs' = BoundInputs \cup {Binding}
        BY <2>2, <2>3 DEF BoundInputs
  <2>5. Moved BY <1>0, <2>1 DEF ACall, Moved
  <2> QED BY <1>2, <1>3, <1>4, <2>2, <2>4, <2>5 DEF BoundOutputs, Moved
<1>5. CASE call.k >= Len(InputOrder)
  <2>1. call' = [call EXCEPT !.k = 1, !.at = "outputs"]
        BY <1>1, <1>2, <1>5, Orders DEF NextTensor, After
  <2>2. call'.at = "outputs" /\ call'.k = 1 BY <2>1 DEF ACall
  <2>3. Inputs = First(InputOrder, call.k - 1) \cup {Binding}
        BY <1>1, <1>2, <1>5, Orders, FirstGrows
  <2>4. BoundInputs' = BoundInputs \cup {Binding}
        BY <2>2, <2>3 DEF BoundInputs
  <2>5. BoundOutputs' = {} BY <2>2, FirstIsEmpty DEF BoundOutputs
  <2>6. Moved
    <3>1. call' = [at |-> "outputs", n |-> call.n, k |-> 1, args |-> call.args, presets |-> call.presets]
          BY <1>0, <2>1 DEF ACall
    <3> QED BY <1>0, <3>1 DEF ACall, Moved
  <2> QED BY <1>3, <2>2, <2>4, <2>5, <2>6, Orders DEF BoundOutputs, Moved
<1> QED BY <1>2, <1>4, <1>5, Orders

LEMMA NextOutput ==
    ASSUME RunTypeOK, CallInv, call.at = "outputs", call' = NextTensor
    PROVE  /\ Binding \in Outputs
           /\ call'.at \in {"outputs", "enqueue"} /\ Moved
           /\ call'.at = "outputs" => call'.k <= Len(OutputOrder)
           /\ call'.at = "enqueue" => call'.k = 1
           /\ BoundInputs = Inputs /\ BoundInputs' = Inputs
           /\ BoundOutputs' = BoundOutputs \cup {Binding}
<1>0. call \in ACall BY DEF RunTypeOK
<1>1. Loop = OutputOrder /\ Binding = OutputOrder[call.k] BY DEF Loop, Binding
<1>2. call.k \in 1 .. Len(OutputOrder) BY <1>0, Orders DEF ACall, CallInv
<1>3. Binding \in Outputs BY <1>1, <1>2, Orders DEF First
<1>4. CASE call.k < Len(OutputOrder)
  <2>1. call' = [call EXCEPT !.k = @ + 1] BY <1>1, <1>4 DEF NextTensor
  <2>2. call'.at = "outputs" /\ call'.k = call.k + 1 BY <2>1 DEF ACall
  <2>3. call'.k - 1 = call.k /\ First(OutputOrder, call.k) = First(OutputOrder, call.k - 1) \cup {Binding}
        BY <1>1, <1>2, <2>2, Orders, FirstGrows
  <2>4. BoundOutputs' = BoundOutputs \cup {Binding}
        BY <2>2, <2>3 DEF BoundOutputs
  <2>5. Moved BY <1>0, <2>1 DEF ACall, Moved
  <2> QED BY <1>2, <1>3, <1>4, <2>2, <2>4, <2>5 DEF BoundInputs, Moved
<1>5. CASE call.k >= Len(OutputOrder)
  <2>1. call' = [call EXCEPT !.k = 1, !.at = "enqueue"]
        BY <1>1, <1>2, <1>5, Orders DEF NextTensor, After
  <2>2. call'.at = "enqueue" /\ call'.k = 1 BY <2>1 DEF ACall
  <2>3. Outputs = First(OutputOrder, call.k - 1) \cup {Binding}
        BY <1>1, <1>2, <1>5, Orders, FirstGrows
  <2>4. BoundOutputs' = BoundOutputs \cup {Binding}
        BY <2>2, <2>3 DEF BoundOutputs
  <2>5. Moved
    <3>1. call' = [at |-> "enqueue", n |-> call.n, k |-> 1, args |-> call.args, presets |-> call.presets]
          BY <1>0, <2>1 DEF ACall
    <3> QED BY <1>0, <3>1 DEF ACall, Moved
  <2> QED BY <1>3, <2>2, <2>4, <2>5, Orders DEF BoundInputs, Moved
<1> QED BY <1>2, <1>4, <1>5, Orders

LEMMA NextDownload ==
    ASSUME RunTypeOK, CallInv, call.at = "download", call' = NextTensor
    PROVE  /\ Binding \in Outputs
           /\ call'.at \in {"download", "synchronize"} /\ Moved
           /\ call'.at = "download" => call'.k <= Len(OutputOrder)
           /\ Downloaded' = Downloaded \cup ({Binding} \ call.presets)
<1>0. call \in ACall BY DEF RunTypeOK
<1>1. Loop = OutputOrder /\ Binding = OutputOrder[call.k] BY DEF Loop, Binding
<1>2. call.k \in 1 .. Len(OutputOrder) BY <1>0, Orders DEF ACall, CallInv
<1>3. Binding \in Outputs BY <1>1, <1>2, Orders DEF First
<1>4. CASE call.k < Len(OutputOrder)
  <2>1. call' = [call EXCEPT !.k = @ + 1] BY <1>1, <1>4 DEF NextTensor
  <2>2. call'.at = "download" /\ call'.k = call.k + 1 /\ call'.presets = call.presets
        BY <2>1 DEF ACall
  <2>3. call'.k - 1 = call.k /\ First(OutputOrder, call.k) = First(OutputOrder, call.k - 1) \cup {Binding}
        BY <1>1, <1>2, <2>2, Orders, FirstGrows
  <2>4. Downloaded' = Downloaded \cup ({Binding} \ call.presets)
        BY <2>2, <2>3 DEF Downloaded
  <2>5. Moved BY <1>0, <2>1 DEF ACall, Moved
  <2> QED BY <1>2, <1>3, <1>4, <2>2, <2>4, <2>5 DEF Moved
<1>5. CASE call.k >= Len(OutputOrder)
  <2>1. call' = [call EXCEPT !.k = 1, !.at = "synchronize"]
        BY <1>1, <1>2, <1>5, Orders DEF NextTensor, After
  <2>2. call'.at = "synchronize" /\ call'.k = 1 /\ call'.presets = call.presets
        BY <2>1 DEF ACall
  <2>3. Outputs = First(OutputOrder, call.k - 1) \cup {Binding}
        BY <1>1, <1>2, <1>5, Orders, FirstGrows
  <2>4. Downloaded' = Downloaded \cup ({Binding} \ call.presets)
        BY <2>2, <2>3 DEF Downloaded
  <2>5. Moved
    <3>1. call' = [at |-> "synchronize", n |-> call.n, k |-> 1, args |-> call.args, presets |-> call.presets]
          BY <1>0, <2>1 DEF ACall
    <3> QED BY <1>0, <3>1 DEF ACall, Moved
  <2> QED BY <1>3, <2>2, <2>4, <2>5, Orders DEF Moved
<1> QED BY <1>2, <1>4, <1>5, Orders
-----------------------------------------------------------------------------
(* The context, the stream and the staging.                                  *)

LEMMA ContextAfter ==
    ASSUME RunTypeOK, NEW b \in Tensors, NEW arg \in Argument, NEW v \in 0 .. MaxCalls,
           NEW c, c = [Shaped(b, arg) EXCEPT !.address[b] = v]
    PROVE  /\ c \in [address : [Tensors -> 0 .. MaxCalls], shape : [Dynamic -> Nat]]
           /\ c.address = [context.address EXCEPT ![b] = v]
           /\ c.shape = IF b \in Dynamic THEN [context.shape EXCEPT ![b] = arg.size] ELSE context.shape
<1>1. context \in [address : [Tensors -> 0 .. MaxCalls], shape : [Dynamic -> Nat]] BY DEF RunTypeOK
<1>2. /\ Shaped(b, arg).address = context.address
      /\ Shaped(b, arg).shape = IF b \in Dynamic THEN [context.shape EXCEPT ![b] = arg.size] ELSE context.shape
      /\ Shaped(b, arg) \in [address : [Tensors -> 0 .. MaxCalls], shape : [Dynamic -> Nat]]
      BY <1>1 DEF Shaped, Argument
<1> QED BY <1>1, <1>2

LEMMA Appended ==
    ASSUME RunTypeOK, NEW w \in Work, stream' = Append(stream, w)
    PROVE  /\ stream' \in Seq(Work) /\ Len(stream) \in Nat
           /\ Queued' = Queued \cup {Len(stream) + 1}
           /\ \A i \in Queued : stream'[i] = stream[i] /\ i < Len(stream) + 1
           /\ stream'[Len(stream) + 1] = w
<1>1. stream \in Seq(Work) /\ Len(stream) \in Nat BY DEF RunTypeOK
<1>2. Len(stream') = Len(stream) + 1 BY <1>1
<1>3. 1 .. Len(stream) + 1 = (1 .. Len(stream)) \cup {Len(stream) + 1} BY <1>1
<1> QED BY <1>1, <1>2, <1>3 DEF Queued

LEMMA Shifted ==
    ASSUME RunTypeOK, stream # <<>>, stream' = Tail(stream)
    PROVE  /\ stream' \in Seq(Work) /\ Len(stream) \in Nat
           /\ 1 \in Queued /\ Head(stream) = stream[1] /\ Head(stream) \in Work
           /\ \A i \in Queued' : i \in Nat \ {0} /\ i + 1 \in Queued /\ stream'[i] = stream[i + 1]
           /\ \A i \in Queued \ {1} : i > 1 /\ i - 1 \in Queued' /\ stream'[i - 1] = stream[i]
<1>1. stream \in Seq(Work) BY DEF RunTypeOK
<1>2. Len(stream) \in Nat \ {0} BY <1>1, EmptySeq
<1>3. /\ stream' \in Seq(Work) /\ Len(stream') = Len(stream) - 1
      /\ \A i \in 1 .. Len(stream) - 1 : stream'[i] = stream[i + 1]
      BY <1>1, <1>2
<1>4. Head(stream) = stream[1] /\ Head(stream) \in Work BY <1>1, <1>2
<1>5. \A i \in Queued' : i \in Nat \ {0} /\ i + 1 \in Queued /\ stream'[i] = stream[i + 1]
      BY <1>2, <1>3 DEF Queued
<1>6. ASSUME NEW i \in Queued \ {1}
      PROVE  i > 1 /\ i - 1 \in Queued' /\ stream'[i - 1] = stream[i]
  <2>1. i \in Nat /\ i > 1 /\ i <= Len(stream) BY <1>2 DEF Queued
  <2>2. i - 1 \in 1 .. Len(stream) - 1 /\ (i - 1) + 1 = i BY <1>2, <2>1
  <2> QED BY <1>3, <2>1, <2>2 DEF Queued
<1> QED BY <1>1, <1>2, <1>3, <1>4, <1>5, <1>6 DEF Queued

LEMMA FreshUnchanged ==
    ASSUME NEW b, Fresh(b), UNCHANGED <<stream, memory>>, call'.n = call.n
    PROVE  Fresh(b)'
BY DEF Fresh, Uploads, Queued

LEMMA FreshBehind ==
    ASSUME RunTypeOK, NEW w \in Work, stream' = Append(stream, w), memory' = memory, call'.n = call.n,
           NEW b, Fresh(b), w.op # "upload" \/ w.tensor # b
    PROVE  Fresh(b)'
<1>1. Uploads(b)' = Uploads(b) BY Appended DEF Uploads, Queued
<1>2. \A u \in Uploads(b) : stream'[u].n = stream[u].n BY Appended DEF Uploads
<1> QED BY <1>1, <1>2 DEF Fresh

LEMMA FreshUpload ==
    ASSUME RunTypeOK, NEW w \in Work, stream' = Append(stream, w), call'.n = call.n,
           NEW b, IsCopy(w, "upload", b, call.n)
    PROVE  Fresh(b)'
<1> DEFINE l == Len(stream) + 1
<1>1. l \in Uploads(b)' /\ stream'[l].n = call'.n BY Appended DEF Uploads, IsCopy
<1>2. Queued' = Queued \cup {l} /\ l \in Nat /\ \A i \in Queued : i < l /\ i \in Nat
      BY Appended DEF Queued
<1>3. \A v \in Uploads(b)' : v \in Queued' BY DEF Uploads
<1>4. \A v \in Uploads(b)' : v <= l BY <1>2, <1>3
<1> QED BY <1>1, <1>4 DEF Fresh

LEMMA FreshShifted ==
    ASSUME RunTypeOK, stream # <<>>, stream' = Tail(stream), call' = call, call.at # "idle",
           NEW b \in Inputs, Fresh(b),
           memory'.staging[b] = IF Head(stream).op = "upload" /\ Head(stream).tensor = b
                                THEN Uploaded(b, Head(stream).n).staging[b] ELSE memory.staging[b]
    PROVE  Fresh(b)'
<1>1. \A v \in Uploads(b)' : v \in Nat \ {0} /\ v + 1 \in Uploads(b) /\ stream'[v].n = stream[v + 1].n
      BY Shifted DEF Uploads
<1>2. \A v \in Uploads(b) \ {1} : v - 1 \in Uploads(b)' /\ stream'[v - 1].n = stream[v].n
      BY Shifted DEF Uploads
<1>3. CASE Uploads(b) = {}
  <2>1. Uploads(b)' = {} BY <1>1, <1>3
  <2>2. ~(Head(stream).op = "upload" /\ Head(stream).tensor = b) BY <1>3, Shifted DEF Uploads
  <2> QED BY <1>3, <2>1, <2>2 DEF Fresh
<1>4. CASE Uploads(b) # {}
  <2>1. PICK u \in Uploads(b) : stream[u].n = call.n /\ \A v \in Uploads(b) : v <= u
        BY <1>4 DEF Fresh
  <2>2. u \in Nat BY Shifted DEF Uploads, Queued
  <2>3. CASE u = 1
    <3>1. Uploads(b)' = {} BY <1>1, <2>1, <2>3
    <3>2. Head(stream).op = "upload" /\ Head(stream).tensor = b /\ Head(stream).n = call.n
          BY <2>1, <2>3, Shifted DEF Uploads
    <3>3. Uploaded(b, call.n).staging[b] = call.n BY DEF Uploaded, Running, RunTypeOK, Tensors
    <3> QED BY <3>1, <3>2, <3>3 DEF Fresh
  <2>4. CASE u # 1
    <3>1. u - 1 \in Uploads(b)' /\ stream'[u - 1].n = call'.n BY <1>2, <2>1, <2>4
    <3>2. \A v \in Uploads(b)' : v <= u - 1 BY <1>1, <2>1, <2>2
    <3> QED BY <3>1, <3>2 DEF Fresh
  <2> QED BY <2>3, <2>4
<1> QED BY <1>3, <1>4
-----------------------------------------------------------------------------
(* A call that fails leaves its work queued, and nothing bound.              *)

Contexts == [address : [Tensors -> 0 .. MaxCalls], shape : [Dynamic -> Nat]]

LEMMA IdleTypes ==
    /\ NoOutputs \in [Outputs -> 0 .. MaxCalls]
    /\ \A n \in 0 .. MaxCalls : Idle(n) \in ACall /\ Idle(n).at = "idle" /\ Idle(n).n = n
<1>1. 0 \in 0 .. MaxCalls BY TensorsAssumption
<1>2. NoArguments \in [Inputs -> Argument] BY DEF NoArguments, Argument
<1> QED BY <1>1, <1>2 DEF NoOutputs, Garbage, Idle, ACall

LEMMA FailKeepsRunInv ==
    ASSUME RunInv, call.at # "idle", Fail, UNCHANGED <<engine, stream, memory, result, wild>>,
           cuda \subseteq cuda', cuda' \subseteq Tensors \cup {"stream"}, context' \in Contexts
    PROVE  RunInv'
<1> USE DEF RunInv
<1>0. call \in ACall BY DEF RunTypeOK
<1>1. call' = Idle(call.n) /\ call'.at = "idle" /\ call'.n = call.n /\ call' \in ACall
      BY <1>0, IdleTypes DEF Fail, ACall
<1>2. answer' = [ok |-> FALSE, n |-> call.n, got |-> NoOutputs] BY DEF Fail
<1>3. late' = (late \/ call.at \in {"download", "synchronize"}) BY DEF Fail
<1>4. RunTypeOK'
  <2>1. answer' \in [ok : BOOLEAN, n : 0 .. MaxCalls, got : [Outputs -> 0 .. MaxCalls]]
        BY <1>0, <1>2, IdleTypes DEF ACall
  <2>2. late' \in BOOLEAN BY <1>3 DEF RunTypeOK
  <2> QED BY <1>1, <2>1, <2>2 DEF RunTypeOK, Contexts
<1>5. CallInv' BY <1>1 DEF CallInv
<1>6. EngineInv' BY DEF EngineInv, CallInv
<1>7. ContextInv' BY <1>1 DEF ContextInv, BoundInputs, BoundOutputs
<1>8. StreamInv' BY <1>3 DEF StreamInv, Queued
<1>9. DataInv' BY <1>1 DEF DataInv
<1>10. OutputsOfThisCall' BY <1>2 DEF OutputsOfThisCall
<1>11. WildWritesHaveCause' BY <1>3 DEF WildWritesHaveCause
<1> QED BY <1>4, <1>5, <1>6, <1>7, <1>8, <1>9, <1>10, <1>11

LEMMA FailuresKeepIInv ==
    ASSUME RunInv, Failure \/ InputRefused \/ HostInputMisfits
    PROVE  RunInv'
<1> USE DEF RunInv
<1>1. /\ cuda \subseteq Tensors \cup {"stream"} /\ context \in Contexts
      /\ call.args \in [Inputs -> Argument] /\ call.n \in 0 .. MaxCalls
      BY DEF RunTypeOK, ACall, Contexts
<1>2. CASE InputRefused \/ ShapeRejected \/ BindOutputFails \/ EnqueueFails \/ DownloadFails \/ SynchronizeFails
  <2>1. /\ call.at # "idle" /\ Fail
        /\ UNCHANGED <<engine, cuda, context, stream, memory, result, wild>>
        BY <1>2 DEF InputRefused, ShapeRejected, BindOutputFails, EnqueueFails, DownloadFails, SynchronizeFails
  <2> QED BY <1>1, <2>1, FailKeepsRunInv
<1>3. CASE HostInputMisfits \/ HostInputFails
  <2> DEFINE b == Binding
             arg == call.args[b]
  <2>1. /\ call.at = "inputs" /\ Fail
        /\ UNCHANGED <<engine, stream, memory, result, wild>>
        /\ \/ cuda' = cuda /\ context' = Shaped(b, arg)
           \/ cuda' = cuda \cup {b} /\ context' = [Shaped(b, arg) EXCEPT !.address[b] = Staging]
        BY <1>3 DEF HostInputMisfits, HostInputFails, Allocate, Bound
  <2>2. b \in Inputs /\ b \in Tensors
    <3>1. call.k \in 1 .. Len(InputOrder) /\ b = InputOrder[call.k]
          BY <2>1, Orders DEF RunTypeOK, ACall, CallInv, Binding, Loop
    <3> QED BY <3>1, Orders DEF First, Tensors
  <2>3. arg \in Argument BY <1>1, <2>2
  <2>4. Shaped(b, arg) \in Contexts BY <1>1, <2>3 DEF Shaped, Contexts, Argument
  <2>5. Staging \in 0 .. MaxCalls BY TensorsAssumption DEF Staging
  <2>6. [Shaped(b, arg) EXCEPT !.address[b] = Staging] \in Contexts
        BY <2>2, <2>3, <2>5, ContextAfter DEF Contexts
  <2>7. context' \in Contexts BY <2>1, <2>4, <2>6
  <2> QED BY <1>1, <2>1, <2>2, <2>7, FailKeepsRunInv
<1> QED BY <1>2, <1>3 DEF Failure

-----------------------------------------------------------------------------
(* Between calls.                                                            *)

LEMMA CreateKeepsRunInv == RunInv /\ Create => RunInv'
<1> SUFFICES ASSUME RunInv, Create PROVE RunInv' OBVIOUS
<1> USE DEF RunInv
<1>1. /\ engine = "none" /\ engine' \in {"ready", "refused"} /\ cuda' \subseteq {"stream"}
      /\ engine' = "ready" => cuda' = {"stream"}
      /\ UNCHANGED <<context, stream, memory, call, result, answer, late, wild>>
      BY DEF Create
<1>2. call.at = "idle" /\ stream = <<>> BY <1>1 DEF CallInv, EngineInv
<1>3. RunTypeOK' BY <1>1 DEF RunTypeOK
<1>4. CallInv' /\ EngineInv' BY <1>1, <1>2 DEF CallInv, EngineInv
<1>5. ContextInv' BY <1>1, <1>2 DEF ContextInv, BoundInputs, BoundOutputs
<1>6. StreamInv' BY <1>1, <1>2 DEF StreamInv, Queued
<1>7. DataInv' BY <1>1, <1>2 DEF DataInv
<1>8. OutputsOfThisCall' /\ WildWritesHaveCause'
      BY <1>1 DEF OutputsOfThisCall, WildWritesHaveCause
<1> QED BY <1>3, <1>4, <1>5, <1>6, <1>7, <1>8

LEMMA FreeKeepsRunInv == RunInv /\ Free => RunInv'
<1> SUFFICES ASSUME RunInv, Free PROVE RunInv' OBVIOUS
<1> USE DEF RunInv
<1>1. /\ call.at = "idle" /\ stream = <<>> /\ engine' = "freed" /\ cuda' = {}
      /\ UNCHANGED <<context, stream, memory, call, result, answer, late, wild>>
      BY DEF Free, Released
<1>3. RunTypeOK' BY <1>1 DEF RunTypeOK
<1>4. CallInv' /\ EngineInv' BY <1>1 DEF CallInv, EngineInv
<1>5. ContextInv' BY <1>1 DEF ContextInv, BoundInputs, BoundOutputs
<1>6. StreamInv' BY <1>1 DEF StreamInv, Queued
<1>7. DataInv' BY <1>1 DEF DataInv
<1>8. OutputsOfThisCall' /\ WildWritesHaveCause'
      BY <1>1 DEF OutputsOfThisCall, WildWritesHaveCause
<1> QED BY <1>3, <1>4, <1>5, <1>6, <1>7, <1>8

LEMMA CallKeepsRunInv == RunInv /\ Call => RunInv'
<1> SUFFICES ASSUME RunInv, Call PROVE RunInv' OBVIOUS
<1> USE DEF RunInv
<1>1. PICK args \in Arguments, presets \in SUBSET Outputs :
         call' = [at |-> "inputs", n |-> call.n + 1, k |-> 1, args |-> args, presets |-> presets]
      BY DEF Call
<1>2. /\ engine = "ready" /\ call.at = "idle" /\ call.n < MaxCalls /\ call.n \in 0 .. MaxCalls
      /\ result' = NoOutputs /\ memory' = [memory EXCEPT !.caller = NoOutputs]
      /\ UNCHANGED <<engine, cuda, context, stream, answer, late, wild>>
      BY DEF Call, RunTypeOK, ACall
<1>3. args \in [Inputs -> Argument] /\ MaxCalls \in Nat BY TensorsAssumption
<1>4. call.n + 1 \in 1 .. MaxCalls BY <1>2, <1>3
<1>5. call' \in ACall BY <1>1, <1>3, <1>4 DEF ACall
<1>6. RunTypeOK' BY <1>2, <1>5, IdleTypes DEF RunTypeOK
<1>7. CallInv' BY <1>1, <1>2, <1>4, Orders DEF CallInv
<1>8. EngineInv' BY <1>2 DEF EngineInv
<1>9. BoundInputs' = {} /\ BoundOutputs' = {}
      BY <1>1, FirstIsEmpty DEF BoundInputs, BoundOutputs
<1>10. ContextInv' BY <1>9 DEF ContextInv
<1>11. StreamInv' BY <1>2 DEF StreamInv, Queued
<1>12. DataInv' BY <1>1, <1>9 DEF DataInv, AllFresh
<1>13. OutputsOfThisCall' /\ WildWritesHaveCause'
       BY <1>2 DEF OutputsOfThisCall, WildWritesHaveCause
<1> QED BY <1>6, <1>7, <1>8, <1>10, <1>11, <1>12, <1>13
-----------------------------------------------------------------------------
(* Binding.                                                                  *)

LEMMA DeviceInputKeepsRunInv == RunInv /\ DeviceInput => RunInv'
<1> SUFFICES ASSUME RunInv, DeviceInput PROVE RunInv' OBVIOUS
<1>0. /\ RunTypeOK /\ CallInv /\ EngineInv /\ ContextInv /\ StreamInv /\ DataInv
      /\ OutputsOfThisCall /\ WildWritesHaveCause
      BY DEF RunInv
<1>a. call.at = "inputs" /\ call' = NextTensor BY DEF DeviceInput
<1>b. PICK b \in Inputs : b = Binding BY <1>0, <1>a, NextInput
<1>c. call \in ACall /\ call.n \in 1 .. MaxCalls /\ b \in Tensors
      BY <1>0, <1>a DEF RunTypeOK, ACall, CallInv, Tensors
<1>d. PICK arg \in Argument : arg = call.args[b] BY <1>c DEF ACall
<1>1. /\ call.at = "inputs" /\ call' = NextTensor /\ arg.via = "device"
      /\ context' = [Shaped(b, arg) EXCEPT !.address[b] = call.n]
      /\ UNCHANGED <<engine, cuda, stream, memory, result, answer, late, wild>>
      BY <1>b, <1>d DEF DeviceInput
<1>2. /\ call'.at \in {"inputs", "outputs"} /\ Moved
      /\ call'.at = "inputs" => call'.k <= Len(InputOrder)
      /\ call'.at = "outputs" => call'.k <= Len(OutputOrder)
      /\ BoundInputs' = BoundInputs \cup {b}
      /\ BoundOutputs = {} /\ BoundOutputs' = {}
      BY <1>0, <1>a, <1>b, NextInput
<1>4. BoundInputs \subseteq Inputs BY <1>0, <1>1, Orders DEF BoundInputs, First, CallInv, RunTypeOK, ACall
<1>5. /\ context' \in Contexts
      /\ context'.address = [context.address EXCEPT ![b] = call.n]
      /\ context'.shape = IF b \in Dynamic THEN [context.shape EXCEPT ![b] = arg.size] ELSE context.shape
  <2>1. call.n \in 0 .. MaxCalls BY <1>c
  <2>2. context' = [Shaped(b, arg) EXCEPT !.address[b] = call.n] BY <1>1
  <2>3. RunTypeOK BY <1>0
  <2> QED BY <1>c, <2>1, <2>2, <2>3, ContextAfter DEF Contexts
<1>6. \A c \in Tensors : OnHost(c)' = OnHost(c) /\ Address(c)' = Address(c)
      BY <1>2 DEF OnHost, Address, Moved
<1>7. ~OnHost(b) /\ Address(b) = call.n BY <1>1, <1>d DEF OnHost, Address
<1>8. RunTypeOK' BY <1>0, <1>1, <1>2, <1>5 DEF RunTypeOK, Moved, Contexts
<1>9. CallInv' BY <1>0, <1>1, <1>2, <1>c DEF CallInv, Moved
<1>10. EngineInv' BY <1>0, <1>1 DEF EngineInv
<1>11. ContextInv'
  <2>1. ASSUME NEW c \in BoundInputs'
        PROVE  context'.address[c] = Address(c)' /\ (OnHost(c)' => c \in cuda')
    BY <1>0, <1>1, <1>2, <1>c, <1>4, <1>5, <1>6, <1>7 DEF ContextInv, RunTypeOK, Tensors
  <2>2. ASSUME NEW d \in BoundInputs' \cap Dynamic
        PROVE  context'.shape[d] = call'.args[d].size
    BY <1>0, <1>2, <1>4, <1>5, <1>d DEF ContextInv, RunTypeOK, Moved
  <2> QED BY <1>2, <2>1, <2>2 DEF ContextInv
<1>12. StreamInv' BY <1>0, <1>1 DEF StreamInv, Queued
<1>13. DataInv'
  <2>1. \A c \in BoundInputs : OnHost(c) => Fresh(c) BY <1>0, <1>1 DEF DataInv, AllFresh
  <2>2. \A c \in BoundInputs' : OnHost(c)' => Fresh(c)'
        BY <1>1, <1>2, <1>c, <1>4, <1>6, <1>7, <2>1, FreshUnchanged DEF Moved, Tensors
  <2> QED BY <1>2, <2>2 DEF DataInv, AllFresh
<1>14. OutputsOfThisCall' /\ WildWritesHaveCause'
       BY <1>0, <1>1 DEF OutputsOfThisCall, WildWritesHaveCause
<1> QED BY <1>8, <1>9, <1>10, <1>11, <1>12, <1>13, <1>14 DEF RunInv

LEMMA HostInputKeepsRunInv == RunInv /\ HostInput => RunInv'
<1> SUFFICES ASSUME RunInv, HostInput PROVE RunInv' OBVIOUS
<1>0. /\ RunTypeOK /\ CallInv /\ EngineInv /\ ContextInv /\ StreamInv /\ DataInv
      /\ OutputsOfThisCall /\ WildWritesHaveCause
      BY DEF RunInv
<1>a. call.at = "inputs" /\ call' = NextTensor BY DEF HostInput
<1>b. PICK b \in Inputs : b = Binding BY <1>0, <1>a, NextInput
<1>c. call \in ACall /\ call.n \in 1 .. MaxCalls /\ b \in Tensors
      BY <1>0, <1>a DEF RunTypeOK, ACall, CallInv, Tensors
<1>d. PICK arg \in Argument : arg = call.args[b] BY <1>c DEF ACall
<1>e. PICK w : w = [op |-> "upload", tensor |-> b, n |-> call.n] OBVIOUS
<1>1. /\ call.at = "inputs" /\ call' = NextTensor /\ arg.via = "host" /\ cuda' = cuda \cup {b}
      /\ context' = [Shaped(b, arg) EXCEPT !.address[b] = Staging]
      /\ stream' = Append(stream, w)
      /\ UNCHANGED <<engine, memory, result, answer, late, wild>>
      BY <1>b, <1>d, <1>e DEF HostInput, Allocate, Bound
<1>2. /\ call'.at \in {"inputs", "outputs"} /\ Moved
      /\ call'.at = "inputs" => call'.k <= Len(InputOrder)
      /\ call'.at = "outputs" => call'.k <= Len(OutputOrder)
      /\ BoundInputs' = BoundInputs \cup {b}
      /\ BoundOutputs = {} /\ BoundOutputs' = {}
      BY <1>0, <1>a, <1>b, NextInput
<1>4. BoundInputs \subseteq Inputs BY <1>0, <1>1, Orders DEF BoundInputs, First, CallInv, RunTypeOK, ACall
<1>5. /\ context' \in Contexts
      /\ context'.address = [context.address EXCEPT ![b] = Staging]
      /\ context'.shape = IF b \in Dynamic THEN [context.shape EXCEPT ![b] = arg.size] ELSE context.shape
  <2>1. Staging \in 0 .. MaxCalls BY TensorsAssumption DEF Staging
  <2>2. context' = [Shaped(b, arg) EXCEPT !.address[b] = Staging] BY <1>1
  <2>3. RunTypeOK BY <1>0
  <2> QED BY <1>c, <2>1, <2>2, <2>3, ContextAfter DEF Contexts
<1>6. \A c \in Tensors : OnHost(c)' = OnHost(c) /\ Address(c)' = Address(c)
      BY <1>2 DEF OnHost, Address, Moved
<1>7. OnHost(b) /\ Address(b) = Staging BY <1>1, <1>d DEF OnHost, Address
<1>8. w \in Work /\ w.op = "upload" /\ w.tensor = b /\ w.n = call.n BY <1>c, <1>e DEF Work
<1>9. RunTypeOK' BY <1>0, <1>1, <1>2, <1>c, <1>5, <1>8, Appended DEF RunTypeOK, Moved, Contexts
<1>10. CallInv' BY <1>0, <1>1, <1>2, <1>c DEF CallInv, Moved
<1>11. EngineInv' BY <1>0, <1>1 DEF EngineInv, CallInv
<1>12. ContextInv'
  <2>1. ASSUME NEW c \in BoundInputs'
        PROVE  context'.address[c] = Address(c)' /\ (OnHost(c)' => c \in cuda')
    BY <1>0, <1>1, <1>2, <1>c, <1>4, <1>5, <1>6, <1>7 DEF ContextInv, RunTypeOK, Tensors
  <2>2. ASSUME NEW d \in BoundInputs' \cap Dynamic
        PROVE  context'.shape[d] = call'.args[d].size
    BY <1>0, <1>2, <1>4, <1>5, <1>d DEF ContextInv, RunTypeOK, Moved
  <2> QED BY <1>2, <2>1, <2>2 DEF ContextInv
<1>13. StreamInv'
  <2> DEFINE l == Len(stream) + 1
  <2>1. /\ Queued' = Queued \cup {l} /\ stream'[l] = w
        /\ \A i \in Queued : stream'[i] = stream[i]
        BY <1>0, <1>1, <1>8, Appended
  <2>2. \A i \in Queued : stream[i].op = "download" => late
        BY <1>0, <1>1 DEF StreamInv
  <2> QED BY <1>0, <1>1, <1>8, <2>1, <2>2 DEF StreamInv
<1>14. DataInv'
  <2>1. \A c \in BoundInputs : OnHost(c) => Fresh(c) BY <1>0, <1>1 DEF DataInv, AllFresh
  <2>2. Fresh(b)' BY <1>0, <1>1, <1>2, <1>8, FreshUpload DEF Moved, IsCopy
  <2>3. ASSUME NEW c \in BoundInputs, c # b, OnHost(c) PROVE Fresh(c)'
        BY <1>0, <1>1, <1>2, <1>8, <2>1, <2>3, FreshBehind DEF Moved
  <2>4. \A c \in BoundInputs' : OnHost(c)' => Fresh(c)'
        BY <1>2, <1>4, <1>6, <2>2, <2>3 DEF Tensors
  <2> QED BY <1>2, <2>4 DEF DataInv, AllFresh
<1>15. OutputsOfThisCall' /\ WildWritesHaveCause'
       BY <1>0, <1>1 DEF OutputsOfThisCall, WildWritesHaveCause
<1> QED BY <1>9, <1>10, <1>11, <1>12, <1>13, <1>14, <1>15 DEF RunInv

LEMMA BindOutputKeepsRunInv == RunInv /\ BindOutput => RunInv'
<1> SUFFICES ASSUME RunInv, BindOutput PROVE RunInv' OBVIOUS
<1>0. /\ RunTypeOK /\ CallInv /\ EngineInv /\ ContextInv /\ StreamInv /\ DataInv
      /\ OutputsOfThisCall /\ WildWritesHaveCause
      BY DEF RunInv
<1>a. call.at = "outputs" /\ call' = NextTensor BY DEF BindOutput
<1>b. PICK b \in Outputs : b = Binding BY <1>0, <1>a, NextOutput
<1>c. call \in ACall /\ call.n \in 1 .. MaxCalls /\ b \in Tensors /\ b \notin Inputs
  <2>1. b \in Tensors /\ b \notin Inputs BY TensorsAssumption DEF Tensors
  <2> QED BY <1>0, <1>a, <2>1 DEF RunTypeOK, ACall, CallInv
<1>1. /\ call.at = "outputs" /\ call' = NextTensor
      /\ cuda' = (IF b \in call.presets THEN cuda ELSE cuda \cup {b})
      /\ context' = [context EXCEPT !.address[b] = IF b \in call.presets THEN call.n ELSE Staging]
      /\ UNCHANGED <<engine, stream, memory, result, answer, late, wild>>
      BY <1>b DEF BindOutput, Allocate, Bound
<1>2. /\ call'.at \in {"outputs", "enqueue"} /\ Moved
      /\ call'.at = "outputs" => call'.k <= Len(OutputOrder)
      /\ call'.at = "enqueue" => call'.k = 1
      /\ BoundInputs = Inputs /\ BoundInputs' = Inputs
      /\ BoundOutputs' = BoundOutputs \cup {b}
      BY <1>0, <1>a, <1>b, NextOutput
<1>4. BoundOutputs \subseteq Outputs BY <1>0, <1>1, Orders DEF BoundOutputs, First, CallInv, RunTypeOK, ACall
<1>5. Address(b) = (IF b \in call.presets THEN call.n ELSE Staging) /\ OnHost(b) = (b \notin call.presets)
      BY <1>c DEF Address, OnHost
<1>6. /\ context' \in Contexts
      /\ context'.address = [context.address EXCEPT ![b] = Address(b)]
      /\ context'.shape = context.shape
  <2>1. Address(b) \in 0 .. MaxCalls BY <1>c, <1>5, TensorsAssumption DEF Staging
  <2>2. PICK v \in 0 .. MaxCalls : v = Address(b) BY <2>1
  <2>3. context' = [context EXCEPT !.address[b] = v] BY <1>1, <1>5, <2>2
  <2>4. /\ context' \in Contexts /\ context'.shape = context.shape
        /\ context'.address = [context.address EXCEPT ![b] = v]
        BY <1>0, <1>c, <2>3 DEF Contexts, RunTypeOK
  <2> QED BY <2>2, <2>4
<1>7. \A c \in Tensors : OnHost(c)' = OnHost(c) /\ Address(c)' = Address(c)
      BY <1>2 DEF OnHost, Address, Moved
<1>8. RunTypeOK' BY <1>0, <1>1, <1>2, <1>c, <1>6 DEF RunTypeOK, Moved, Contexts
<1>9. CallInv' BY <1>0, <1>1, <1>2, <1>c DEF CallInv, Moved
<1>10. EngineInv' BY <1>0, <1>1 DEF EngineInv, CallInv
<1>11. ContextInv'
  <2>1. ASSUME NEW c \in BoundInputs' \cup BoundOutputs'
        PROVE  context'.address[c] = Address(c)' /\ (OnHost(c)' => c \in cuda')
    <3>1. c \in Tensors /\ (c = b \/ c \in BoundInputs \cup BoundOutputs)
          BY <1>2, <1>c, <1>4 DEF Tensors
    <3>2. context.address \in [Tensors -> 0 .. MaxCalls] BY <1>0 DEF RunTypeOK
    <3>3. CASE c = b BY <1>1, <1>5, <1>6, <1>7, <3>1, <3>2, <3>3
    <3>4. CASE c # b BY <1>0, <1>1, <1>6, <1>7, <3>1, <3>2, <3>4 DEF ContextInv
    <3> QED BY <3>3, <3>4
  <2>2. ASSUME NEW d \in BoundInputs' \cap Dynamic
        PROVE  context'.shape[d] = call'.args[d].size
    BY <1>0, <1>2, <1>6 DEF ContextInv, Moved
  <2> QED BY <2>1, <2>2 DEF ContextInv
<1>12. StreamInv' BY <1>0, <1>1 DEF StreamInv, Queued
<1>13. DataInv'
  <2>1. \A c \in Inputs : OnHost(c) => Fresh(c) BY <1>0, <1>1, <1>2 DEF DataInv, AllFresh
  <2>2. \A c \in BoundInputs' : OnHost(c)' => Fresh(c)'
        BY <1>1, <1>2, <1>7, <2>1, FreshUnchanged DEF Moved, Tensors
  <2> QED BY <1>2, <2>2 DEF DataInv, AllFresh
<1>14. OutputsOfThisCall' /\ WildWritesHaveCause'
       BY <1>0, <1>1 DEF OutputsOfThisCall, WildWritesHaveCause
<1> QED BY <1>8, <1>9, <1>10, <1>11, <1>12, <1>13, <1>14 DEF RunInv
-----------------------------------------------------------------------------
(* From the enqueueing to the return.                                        *)

LEMMA EnqueueKeepsRunInv == RunInv /\ Enqueue => RunInv'
<1> SUFFICES ASSUME RunInv, Enqueue PROVE RunInv' OBVIOUS
<1>0. /\ RunTypeOK /\ CallInv /\ EngineInv /\ ContextInv /\ StreamInv /\ DataInv
      /\ OutputsOfThisCall /\ WildWritesHaveCause
      BY DEF RunInv
<1>l. PICK l \in Nat : l = Len(stream) + 1 BY DEF RunTypeOK
<1>a. PICK w : w = [op |-> "run", address |-> context.address, shape |-> context.shape] OBVIOUS
<1>1. /\ call.at = "enqueue" /\ stream' = Append(stream, w) /\ call' = [call EXCEPT !.at = "download"]
      /\ UNCHANGED <<engine, cuda, context, memory, result, answer, late, wild>>
      BY <1>a DEF Enqueue
<1>2. call \in ACall BY <1>0 DEF RunTypeOK
<1>3. /\ call'.at = "download" /\ call'.k = call.k /\ call.k = 1 /\ Moved
      BY <1>0, <1>1, <1>2 DEF ACall, Moved, CallInv
<1>4. /\ BoundInputs = Inputs /\ BoundInputs' = Inputs
      /\ BoundOutputs = Outputs /\ BoundOutputs' = Outputs
      BY <1>1, <1>3 DEF BoundInputs, BoundOutputs
<1>5. \A c \in Tensors : OnHost(c)' = OnHost(c) /\ Address(c)' = Address(c)
      BY <1>3 DEF OnHost, Address, Moved
<1>6. /\ w \in Work /\ w.op = "run" /\ w.address = context.address
      BY <1>0, <1>a DEF RunTypeOK, Work
<1>7. /\ stream' \in Seq(Work) /\ Queued' = Queued \cup {l} /\ stream'[l] = w /\ l \in Nat
      /\ \A i \in Queued : stream'[i] = stream[i] /\ i < l
  <2>1. stream' = Append(stream, w) /\ w \in Work /\ RunTypeOK BY <1>0, <1>1, <1>6
  <2> QED BY <1>l, <2>1, Appended
<1>8. \A b \in Tensors : w.address[b] = Address(b) /\ (w.address[b] = Staging => b \in cuda)
  <2> SUFFICES ASSUME NEW b \in Tensors
               PROVE  w.address[b] = Address(b) /\ (w.address[b] = Staging => b \in cuda)
      OBVIOUS
  <2>1. context.address[b] = Address(b) /\ (OnHost(b) => b \in cuda)
        BY <1>0, <1>4 DEF ContextInv, Tensors
  <2>2. ~OnHost(b) => Address(b) # Staging BY <1>0, <1>1 DEF Address, CallInv, Staging
  <2> QED BY <1>6, <2>1, <2>2
<1>9. RunTypeOK' BY <1>0, <1>1, <1>3, <1>7 DEF RunTypeOK, Moved
<1>10. CallInv' BY <1>0, <1>1, <1>3, Orders DEF CallInv, Moved
<1>11. EngineInv' BY <1>0, <1>1 DEF EngineInv, CallInv
<1>12. ContextInv' BY <1>0, <1>1, <1>3, <1>4, <1>5 DEF ContextInv, Moved, Tensors
<1>13. StreamInv'
  <2>1. \A i \in Queued : stream[i].op = "download" => late BY <1>0, <1>1 DEF StreamInv
  <2> QED BY <1>0, <1>1, <1>6, <1>7, <1>8, <2>1 DEF StreamInv
<1>14. DataInv'
  <2>1. \A b \in Inputs : OnHost(b) => Fresh(b) BY <1>0, <1>1, <1>4 DEF DataInv, AllFresh
  <2>2. \A b \in Inputs : OnHost(b) => Fresh(b)'
        BY <1>0, <1>1, <1>3, <1>6, <2>1, FreshBehind DEF Moved
  <2>3. AllFresh' BY <1>4, <1>5, <2>2 DEF AllFresh, Tensors
  <2>4. Downloaded' = {} BY <1>3, FirstIsEmpty DEF Downloaded
  <2>5. ToRun(l)' 
    <3>1. \A i \in Queued' : ~(i > l) BY <1>7 DEF Queued
    <3> QED BY <1>5, <1>6, <1>7, <1>8, <2>4, <3>1 DEF ToRun
  <2> QED BY <1>3, <1>7, <2>3, <2>5 DEF DataInv, Pending
<1>15. OutputsOfThisCall' /\ WildWritesHaveCause'
       BY <1>0, <1>1 DEF OutputsOfThisCall, WildWritesHaveCause
<1> QED BY <1>9, <1>10, <1>11, <1>12, <1>13, <1>14, <1>15 DEF RunInv

LEMMA DownloadKeepsRunInv == RunInv /\ Download => RunInv'
<1> SUFFICES ASSUME RunInv, Download PROVE RunInv' OBVIOUS
<1>0. /\ RunTypeOK /\ CallInv /\ EngineInv /\ ContextInv /\ StreamInv /\ DataInv
      /\ OutputsOfThisCall /\ WildWritesHaveCause
      BY DEF RunInv
<1>l. PICK l \in Nat : l = Len(stream) + 1 BY DEF RunTypeOK
<1>a. call.at = "download" /\ call' = NextTensor BY DEF Download
<1>b. PICK b \in Outputs : b = Binding BY <1>0, <1>a, NextDownload
<1>c. PICK w : w = [op |-> "download", tensor |-> b, n |-> call.n] OBVIOUS
<1>1. /\ stream' = IF b \in call.presets THEN stream ELSE Append(stream, w)
      /\ UNCHANGED <<engine, cuda, context, memory, result, answer, late, wild>>
      BY <1>b, <1>c DEF Download
<1>2. /\ call'.at \in {"download", "synchronize"} /\ Moved
      /\ call'.at = "download" => call'.k <= Len(OutputOrder)
      /\ Downloaded' = Downloaded \cup ({b} \ call.presets)
      BY <1>0, <1>a, <1>b, NextDownload
<1>3. call \in ACall /\ call.n \in 1 .. MaxCalls /\ b \in Tensors
      BY <1>0, <1>a DEF RunTypeOK, ACall, CallInv, Tensors
<1>4. /\ BoundInputs = Inputs /\ BoundInputs' = Inputs
      /\ BoundOutputs = Outputs /\ BoundOutputs' = Outputs
      BY <1>a, <1>2 DEF BoundInputs, BoundOutputs
<1>5. \A c \in Tensors : OnHost(c)' = OnHost(c) /\ Address(c)' = Address(c)
      BY <1>2 DEF OnHost, Address, Moved
<1>6. w \in Work /\ IsCopy(w, "download", b, call.n) BY <1>3, <1>c DEF Work, IsCopy
<1>7. /\ stream' \in Seq(Work) /\ l \in Nat
      /\ \A i \in Queued : i \in Queued' /\ stream'[i] = stream[i] /\ i < l
      /\ \A i \in Queued' : i \in Queued \/ (i = l /\ stream'[l] = w)
      /\ b \notin call.presets => l \in Queued' /\ stream'[l] = w
  <2>1. CASE b \in call.presets
        BY <1>0, <1>1, <1>l, <2>1 DEF RunTypeOK, Queued
  <2>2. CASE b \notin call.presets
    <3>1. stream' = Append(stream, w) /\ w \in Work /\ RunTypeOK BY <1>0, <1>1, <1>6, <2>2
    <3> QED BY <1>l, <3>1, Appended
  <2> QED BY <2>1, <2>2
<1>8. RunTypeOK' BY <1>0, <1>1, <1>2, <1>7 DEF RunTypeOK, Moved
<1>9. CallInv' BY <1>0, <1>1, <1>2, <1>a DEF CallInv, Moved
<1>10. EngineInv' BY <1>0, <1>1, <1>a DEF EngineInv, CallInv
<1>11. ContextInv' BY <1>0, <1>1, <1>2, <1>4, <1>5 DEF ContextInv, Moved, Tensors
<1>12. StreamInv'
  <2>1. OnHost(b) => b \in cuda BY <1>0, <1>4 DEF ContextInv
  <2>2. b \notin call.presets => b \in cuda BY <2>1, TensorsAssumption DEF OnHost
  <2>3. \A i \in Queued' : (i \in Queued /\ stream'[i] = stream[i]) \/ (b \in cuda /\ stream'[i] = w)
    <3> SUFFICES ASSUME NEW i \in Queued'
                 PROVE  (i \in Queued /\ stream'[i] = stream[i]) \/ (b \in cuda /\ stream'[i] = w)
        OBVIOUS
    <3>1. CASE b \in call.presets BY <1>1, <3>1 DEF Queued
    <3>2. CASE b \notin call.presets BY <1>7, <2>2, <3>2
    <3> QED BY <3>1, <3>2
  <2>4. w.op = "download" /\ w.n = call'.n /\ w.tensor = b BY <1>2, <1>6 DEF IsCopy, Moved
  <2> QED BY <1>0, <1>1, <1>2, <2>3, <2>4 DEF StreamInv, Moved
<1>13. DataInv'
  <2>0. \A o \in Downloaded' : o \in Downloaded \/ (o = b /\ l \in Queued' /\ stream'[l] = w)
        BY <1>2, <1>7
  <2>1. CASE Pending
    <3>1. AllFresh'
      <4>1. \A c \in Inputs : OnHost(c) => Fresh(c) BY <1>4, <2>1 DEF Pending, AllFresh
      <4>2. \A c \in Inputs : OnHost(c) => Fresh(c)'
        <5>1. CASE b \in call.presets BY <1>1, <1>2, <4>1, <5>1, FreshUnchanged DEF Moved
        <5>2. CASE b \notin call.presets
              BY <1>0, <1>1, <1>2, <1>6, <4>1, <5>2, FreshBehind DEF Moved, IsCopy
        <5> QED BY <5>1, <5>2
      <4> QED BY <1>4, <1>5, <4>2 DEF AllFresh, Tensors
    <3>2. PICK r \in Queued : ToRun(r) BY <2>1 DEF Pending
    <3>3. r \in Queued' /\ stream'[r] = stream[r] /\ r < l BY <1>7
    <3>4. \A i \in Queued' : i > r => stream'[i].op = "download"
          BY <1>6, <1>7, <3>2 DEF ToRun, IsCopy
    <3>5. \A o \in Downloaded' : \E d \in Queued' : d > r /\ IsCopy(stream'[d], "download", o, call.n)
      <4> SUFFICES ASSUME NEW o \in Downloaded'
                   PROVE  \E d \in Queued' : d > r /\ IsCopy(stream'[d], "download", o, call.n)
          OBVIOUS
      <4>1. CASE o \in Downloaded BY <1>7, <3>2, <4>1 DEF ToRun
      <4>2. CASE o = b /\ l \in Queued' /\ stream'[l] = w BY <1>6, <1>7, <3>3, <4>2
      <4> QED BY <2>0, <4>1, <4>2
    <3>6. ToRun(r)' BY <1>2, <1>5, <3>2, <3>3, <3>4, <3>5 DEF ToRun, Moved, IsCopy
    <3> QED BY <3>1, <3>3, <3>6 DEF DataInv, Pending
  <2>2. CASE Ran
    <3>1. \A i \in Queued' : stream'[i].op = "download"
          BY <1>6, <1>7, <2>2 DEF Ran, IsCopy
    <3>2. \A o \in Outputs : IF o \in call'.presets THEN memory'.caller[o] = call'.n
                             ELSE memory'.staging[o] = call'.n
          BY <1>1, <1>2, <2>2 DEF Ran, Moved
    <3>3. ASSUME NEW o \in Downloaded'
          PROVE  result'[o] = call.n \/ \E d \in Queued' : IsCopy(stream'[d], "download", o, call.n)
      <4>1. CASE o \in Downloaded BY <1>1, <1>7, <2>2, <4>1 DEF Ran
      <4>2. CASE o = b /\ l \in Queued' /\ stream'[l] = w BY <1>6, <4>2
      <4> QED BY <2>0, <4>1, <4>2
    <3> QED BY <1>2, <3>1, <3>2, <3>3 DEF DataInv, Ran, Moved, IsCopy
  <2> QED BY <1>0, <1>a, <2>1, <2>2 DEF DataInv
<1>14. OutputsOfThisCall' /\ WildWritesHaveCause'
       BY <1>0, <1>1 DEF OutputsOfThisCall, WildWritesHaveCause
<1> QED BY <1>8, <1>9, <1>10, <1>11, <1>12, <1>13, <1>14 DEF RunInv

LEMMA SynchronizeKeepsRunInv == RunInv /\ Synchronize => RunInv'
<1> SUFFICES ASSUME RunInv, Synchronize PROVE RunInv' OBVIOUS
<1>0. /\ RunTypeOK /\ CallInv /\ EngineInv /\ ContextInv /\ StreamInv /\ DataInv
      /\ OutputsOfThisCall /\ WildWritesHaveCause
      BY DEF RunInv
<1>1. /\ call.at = "synchronize" /\ stream = <<>> /\ call' = Idle(call.n)
      /\ answer' = [ok |-> TRUE, n |-> call.n, got |-> Materialized]
      /\ UNCHANGED <<engine, cuda, context, stream, memory, result, late, wild>>
      BY DEF Synchronize, Succeed
<1>2. call'.at = "idle" /\ call' \in ACall /\ call.n \in 0 .. MaxCalls
      BY <1>0, <1>1, IdleTypes DEF RunTypeOK, ACall
<1>3. Materialized \in [Outputs -> 0 .. MaxCalls] BY <1>0 DEF Materialized, RunTypeOK
<1>4. RunTypeOK' BY <1>0, <1>1, <1>2, <1>3 DEF RunTypeOK
<1>5. CallInv' BY <1>2 DEF CallInv
<1>6. EngineInv' BY <1>0, <1>1 DEF EngineInv
<1>7. ContextInv' BY <1>2 DEF ContextInv, BoundInputs, BoundOutputs
<1>8. StreamInv' BY <1>1 DEF StreamInv, Queued
<1>9. DataInv' BY <1>2 DEF DataInv
<1>10. OutputsOfThisCall'
  <2>1. Queued = {} BY <1>1 DEF Queued
  <2>2. Ran BY <1>0, <1>1, <2>1 DEF DataInv, Pending
  <2>3. Downloaded = Outputs \ call.presets BY <1>1 DEF Downloaded
  <2>4. \A o \in Outputs : Materialized[o] = call.n
        BY <2>1, <2>2, <2>3 DEF Ran, Materialized
  <2> QED BY <1>1, <2>4 DEF OutputsOfThisCall
<1>11. WildWritesHaveCause' BY <1>0, <1>1 DEF WildWritesHaveCause
<1> QED BY <1>4, <1>5, <1>6, <1>7, <1>8, <1>9, <1>10, <1>11 DEF RunInv
-----------------------------------------------------------------------------
(* The device.                                                               *)

(* What a run of this call computes.                                         *)
LEMMA ComputedIsOfCall ==
    ASSUME RunInv, call.at \in {"download", "synchronize"}, AllFresh,
           NEW r \in Queued, ToRun(r), r = 1
    PROVE  Computed(stream[r]) = call.n
<1>1. \A i \in Inputs : stream[r].address[i] = Address(i) BY DEF ToRun, Tensors
<1>2. call.n > 0 BY DEF RunInv, CallInv
<1>3. ASSUME NEW i \in Inputs, OnHost(i) PROVE memory.staging[i] = call.n
  <2>1. Fresh(i) BY <1>3 DEF AllFresh, BoundInputs
  <2>2. ASSUME NEW u \in Uploads(i) PROVE FALSE
    <3>1. u \in Queued /\ stream[u].op = "upload" BY <2>2 DEF Uploads
    <3>2. u > 1 \/ u = 1 BY <3>1 DEF Queued, RunInv, RunTypeOK
    <3> QED BY <3>1, <3>2 DEF ToRun
  <2> QED BY <2>1, <2>2 DEF Fresh
<1>4. \A i \in Inputs : (IF stream[r].address[i] = Staging THEN memory.staging[i] ELSE stream[r].address[i])
                         = call.n
      BY <1>1, <1>2, <1>3 DEF Address, Staging
<1>5. ReadBy(stream[r]) = {call.n} BY <1>4, Orders DEF ReadBy
<1> QED BY <1>5 DEF Computed

LEMMA DeviceKeepsData ==
    ASSUME RunInv, Device
    PROVE  DataInv'
<1>0. /\ RunTypeOK /\ CallInv /\ EngineInv /\ ContextInv /\ StreamInv /\ DataInv
      BY DEF RunInv
<1>1. /\ stream # <<>> /\ stream' = Tail(stream)
      /\ UNCHANGED <<engine, cuda, context, call, answer, late>>
      BY DEF Device
<1>w. PICK w : w = Head(stream) OBVIOUS
<1>2. /\ 1 \in Queued /\ w = stream[1] /\ w \in Work
      /\ \A i \in Queued' : i \in Nat \ {0} /\ i + 1 \in Queued /\ stream'[i] = stream[i + 1]
      /\ \A i \in Queued \ {1} : i > 1 /\ i - 1 \in Queued' /\ stream'[i - 1] = stream[i]
      BY <1>0, <1>1, <1>w, Shifted
<1>3. \/ /\ w.op = "upload" /\ memory' = Uploaded(w.tensor, w.n)
         /\ UNCHANGED <<result, wild>>
      \/ /\ w.op = "run" /\ memory' = Executed(w)
         /\ UNCHANGED <<result, wild>>
      \/ /\ w.op = "download"
         /\ IF Running(w.n)
            THEN result' = [result EXCEPT ![w.tensor] = memory.staging[w.tensor]] /\ UNCHANGED wild
            ELSE wild' = TRUE /\ UNCHANGED result
         /\ UNCHANGED memory
      BY <1>w DEF Device
<1>4. /\ \A c \in Tensors : OnHost(c)' = OnHost(c) /\ Address(c)' = Address(c)
      /\ BoundInputs' = BoundInputs /\ Downloaded' = Downloaded
      BY <1>1 DEF OnHost, Address, BoundInputs, Downloaded
<1>5. BoundInputs \subseteq Inputs BY <1>0, Orders DEF BoundInputs, First, CallInv, RunTypeOK, ACall
<1>6. \A c \in Inputs :
         memory'.staging[c] = IF w.op = "upload" /\ w.tensor = c
                              THEN Uploaded(c, w.n).staging[c] ELSE memory.staging[c]
  <2>1. CASE w.op = "upload" BY <1>0, <1>2, <1>3, <2>1 DEF Uploaded, RunTypeOK, Tensors, Work
  <2>2. CASE w.op = "run" BY <1>3, <2>2, TensorsAssumption DEF Executed, Tensors
  <2>3. CASE w.op = "download" BY <1>3, <2>3
  <2> QED BY <1>3, <2>1, <2>2, <2>3
<1>7. AllFresh /\ call.at # "idle" => AllFresh'
      BY <1>0, <1>1, <1>w, <1>4, <1>5, <1>6, FreshShifted DEF AllFresh, Tensors
<1>8. ASSUME call.at \in {"download", "synchronize"} PROVE Pending' \/ Ran'
  <2>1. CASE Pending
    <3>1. PICK r \in Queued : ToRun(r) BY <2>1 DEF Pending
    <3>2. CASE r = 1
      <4>1. w.op = "run" /\ memory' = Executed(w) /\ result' = result
            BY <1>2, <1>3, <3>1, <3>2 DEF ToRun
      <4>2. Computed(w) = call.n BY <1>2, <1>8, <2>1, <3>1, <3>2, ComputedIsOfCall DEF Pending
      <4>3. call.n > 0 BY <1>0, <1>8 DEF CallInv
      <4>4. \A i \in Queued' : stream'[i].op = "download"
            BY <1>2, <3>1, <3>2 DEF ToRun
      <4>5. ASSUME NEW o \in Outputs
            PROVE  IF o \in call.presets THEN memory'.caller[o] = call.n ELSE memory'.staging[o] = call.n
        <5>1. w.address[o] = IF o \in call.presets THEN call.n ELSE Staging
              BY <1>2, <3>1, <3>2, TensorsAssumption DEF ToRun, Address, OnHost, Tensors
        <5> QED BY <4>1, <4>2, <4>3, <5>1 DEF Executed, Staging, Tensors
      <4>6. ASSUME NEW o \in Downloaded
            PROVE  \E d \in Queued' : IsCopy(stream'[d], "download", o, call.n)
        <5>1. PICK d \in Queued : d > r /\ IsCopy(stream[d], "download", o, call.n)
              BY <3>1 DEF ToRun
        <5>2. d - 1 \in Queued' /\ stream'[d - 1] = stream[d] BY <1>2, <3>2, <5>1
        <5> QED BY <5>1, <5>2
      <4> QED BY <1>1, <1>4, <4>4, <4>5, <4>6 DEF Ran, IsCopy
    <3>3. CASE r # 1
      <4>1. AllFresh' BY <1>7, <1>8, <2>1 DEF Pending
      <4>2. r - 1 \in Queued' /\ stream'[r - 1] = stream[r] /\ r \in Nat
            BY <1>2, <3>3 DEF Queued
      <4>3. \A i \in Queued' : i > r - 1 => stream'[i].op = "download"
            BY <1>2, <3>1, <4>2 DEF ToRun
      <4>4. ASSUME NEW o \in Downloaded
            PROVE  \E d \in Queued' : d > r - 1 /\ IsCopy(stream'[d], "download", o, call.n)
        <5>1. PICK d \in Queued : d > r /\ IsCopy(stream[d], "download", o, call.n)
              BY <3>1 DEF ToRun
        <5>2. d # 1 /\ d \in Nat BY <4>2, <5>1, <1>2, <3>3 DEF Queued
        <5>3. d - 1 \in Queued' /\ stream'[d - 1] = stream[d] /\ d - 1 > r - 1
              BY <1>2, <4>2, <5>1, <5>2
        <5> QED BY <5>1, <5>3
      <4>5. \E q \in Queued' : ToRun(q)'
        <5>1. PICK q \in Queued' : q = r - 1 BY <4>2
        <5>2. stream'[q].op = "run" /\ \A c \in Tensors : stream'[q].address[c] = Address(c)'
              BY <1>4, <3>1, <4>2, <5>1 DEF ToRun
        <5>3. \A i \in Queued' : i > q => stream'[i].op = "download" BY <4>3, <5>1
        <5>4. \A o \in Downloaded' : \E d \in Queued' : d > q /\ IsCopy(stream'[d], "download", o, call'.n)
              BY <1>1, <1>4, <4>4, <5>1
        <5> QED BY <5>2, <5>3, <5>4 DEF ToRun, IsCopy
      <4> QED BY <4>1, <4>5 DEF Pending
    <3> QED BY <3>2, <3>3
  <2>2. CASE Ran
    <3>1. w.op = "download" BY <1>2, <2>2 DEF Ran
    <3>2. memory' = memory BY <1>3, <3>1
    <3>3. \A i \in Queued' : stream'[i].op = "download" BY <1>2, <2>2 DEF Ran
    <3>4. ASSUME NEW o \in Downloaded
          PROVE  result'[o] = call.n \/ \E d \in Queued' : IsCopy(stream'[d], "download", o, call.n)
      <4>1. o \in Outputs /\ o \notin call.presets /\ result \in [Outputs -> 0 .. MaxCalls]
            BY <1>0, <1>8, Orders DEF Downloaded, First, CallInv, RunTypeOK, ACall
      <4>2. memory.staging[o] = call.n BY <2>2, <4>1 DEF Ran
      <4>3. CASE result[o] = call.n
            BY <1>3, <3>1, <4>1, <4>2, <4>3
      <4>4. ASSUME NEW d \in Queued, IsCopy(stream[d], "download", o, call.n)
            PROVE  result'[o] = call.n \/ \E e \in Queued' : IsCopy(stream'[e], "download", o, call.n)
        <5>1. CASE d = 1
          <6>1. w.tensor = o /\ Running(w.n) BY <1>2, <1>8, <4>4, <5>1 DEF IsCopy, Running
          <6> QED BY <1>3, <3>1, <4>1, <4>2, <6>1
        <5>2. CASE d # 1 BY <1>2, <4>4, <5>2
        <5> QED BY <5>1, <5>2
      <4> QED BY <2>2, <4>3, <4>4 DEF Ran
    <3> QED BY <1>1, <1>4, <2>2, <3>2, <3>3, <3>4 DEF Ran, IsCopy
  <2> QED BY <1>0, <1>8, <2>1, <2>2 DEF DataInv
<1> QED BY <1>0, <1>1, <1>7, <1>8 DEF DataInv

LEMMA DeviceKeepsRunInv == RunInv /\ Device => RunInv'
<1> SUFFICES ASSUME RunInv, Device PROVE RunInv' OBVIOUS
<1>0. /\ RunTypeOK /\ CallInv /\ EngineInv /\ ContextInv /\ StreamInv /\ DataInv
      /\ OutputsOfThisCall /\ WildWritesHaveCause
      BY DEF RunInv
<1>1. /\ stream # <<>> /\ stream' = Tail(stream)
      /\ UNCHANGED <<engine, cuda, context, call, answer, late>>
      BY DEF Device
<1>w. PICK w : w = Head(stream) OBVIOUS
<1>2. /\ stream' \in Seq(Work) /\ 1 \in Queued /\ w = stream[1] /\ w \in Work
      /\ \A i \in Queued' : i + 1 \in Queued /\ stream'[i] = stream[i + 1]
      BY <1>0, <1>1, <1>w, Shifted
<1>3. RunTypeOK'
  <2>1. memory' \in [staging : [Tensors -> 0 .. MaxCalls], caller : [Outputs -> 0 .. MaxCalls]]
        /\ result' \in [Outputs -> 0 .. MaxCalls] /\ wild' \in BOOLEAN
    <3>0. /\ 0 \in 0 .. MaxCalls /\ call.n \in 0 .. MaxCalls
          /\ memory \in [staging : [Tensors -> 0 .. MaxCalls], caller : [Outputs -> 0 .. MaxCalls]]
          /\ result \in [Outputs -> 0 .. MaxCalls] /\ wild \in BOOLEAN
          BY <1>0, TensorsAssumption DEF RunTypeOK, ACall
    <3>1. CASE w.op = "upload"
      <4>1. memory' = Uploaded(w.tensor, w.n) /\ UNCHANGED <<result, wild>>
            BY <1>w, <3>1 DEF Device
      <4>2. w.n \in 0 .. MaxCalls BY <1>2, <3>1 DEF Work
      <4> QED BY <3>0, <4>1, <4>2 DEF Uploaded, Garbage
    <3>2. CASE w.op = "run"
      <4>1. memory' = Executed(w) /\ UNCHANGED <<result, wild>>
            BY <1>w, <3>2 DEF Device
      <4>2. w.address \in [Tensors -> 0 .. MaxCalls] BY <1>2, <3>2 DEF Work
      <4>3. Computed(w) \in 0 .. MaxCalls
        <5>1. \A n \in ReadBy(w) : n \in 0 .. MaxCalls BY <3>0, <4>2 DEF ReadBy, Tensors
        <5> QED BY <3>0, <5>1 DEF Computed, Garbage
      <4> QED BY <3>0, <4>1, <4>3 DEF Executed
    <3>3. CASE w.op = "download"
      <4>1. /\ memory' = memory
            /\ IF Running(w.n)
               THEN result' = [result EXCEPT ![w.tensor] = memory.staging[w.tensor]] /\ UNCHANGED wild
               ELSE wild' = TRUE /\ UNCHANGED result
            BY <1>w, <3>3 DEF Device
      <4>2. memory.staging[w.tensor] \in 0 .. MaxCalls BY <1>2, <3>0, <3>3 DEF Work
      <4> QED BY <3>0, <4>1, <4>2
    <3> QED BY <1>2, <3>1, <3>2, <3>3 DEF Work
  <2> QED BY <1>0, <1>1, <1>2, <2>1 DEF RunTypeOK
<1>4. CallInv' BY <1>0, <1>1 DEF CallInv
<1>5. EngineInv' BY <1>0, <1>1 DEF EngineInv
<1>6. ContextInv' BY <1>0, <1>1 DEF ContextInv, BoundInputs, BoundOutputs, OnHost, Address
<1>7. StreamInv' BY <1>0, <1>1, <1>2 DEF StreamInv
<1>8. DataInv' BY DeviceKeepsData
<1>9. OutputsOfThisCall' BY <1>0, <1>1 DEF OutputsOfThisCall
<1>10. WildWritesHaveCause'
  <2>1. CASE UNCHANGED wild BY <1>0, <1>1, <2>1 DEF WildWritesHaveCause
  <2>2. CASE w.op = "download" /\ ~Running(w.n)
    <3>1. late \/ (w.n = call.n /\ call.at \in {"download", "synchronize"})
          BY <1>0, <1>2, <2>2 DEF StreamInv
    <3>2. late BY <2>2, <3>1 DEF Running
    <3> QED BY <1>1, <3>2 DEF WildWritesHaveCause
  <2> QED BY <1>w, <2>1, <2>2 DEF Device
<1> QED BY <1>3, <1>4, <1>5, <1>6, <1>7, <1>8, <1>9, <1>10 DEF RunInv
-----------------------------------------------------------------------------
(* The invariant, and what follows from it.                                  *)

LEMMA InitRunInv == RunInit => RunInv
<1> SUFFICES ASSUME RunInit PROVE RunInv OBVIOUS
<1>1. /\ engine = "none" /\ cuda = {} /\ stream = <<>> /\ call = Idle(0)
      /\ context = [address |-> [b \in Tensors |-> Staging], shape |-> [b \in Dynamic |-> 0]]
      /\ memory = [staging |-> [b \in Tensors |-> Garbage], caller |-> NoOutputs]
      /\ result = NoOutputs /\ answer = [ok |-> FALSE, n |-> 0, got |-> NoOutputs]
      /\ late = FALSE /\ wild = FALSE
      BY DEF RunInit
<1>2. 0 \in 0 .. MaxCalls BY TensorsAssumption
<1>3. call \in ACall /\ call.at = "idle" BY <1>1, <1>2, IdleTypes
<1>4. /\ context \in Contexts
      /\ memory \in [staging : [Tensors -> 0 .. MaxCalls], caller : [Outputs -> 0 .. MaxCalls]]
      BY <1>1, <1>2, IdleTypes DEF Contexts, Staging, Garbage
<1>5. RunTypeOK
  <2>1. stream \in Seq(Work) BY <1>1
  <2>2. answer \in [ok : BOOLEAN, n : 0 .. MaxCalls, got : [Outputs -> 0 .. MaxCalls]]
        BY <1>1, <1>2, IdleTypes
  <2>3. result \in [Outputs -> 0 .. MaxCalls] BY <1>1, IdleTypes
  <2> QED BY <1>1, <1>3, <1>4, <2>1, <2>2, <2>3 DEF RunTypeOK, Contexts
<1>6. CallInv /\ EngineInv BY <1>1, <1>3 DEF CallInv, EngineInv
<1>7. ContextInv BY <1>3 DEF ContextInv, BoundInputs, BoundOutputs
<1>8. StreamInv BY <1>1 DEF StreamInv, Queued
<1>9. DataInv BY <1>3 DEF DataInv
<1>10. OutputsOfThisCall /\ WildWritesHaveCause BY <1>1 DEF OutputsOfThisCall, WildWritesHaveCause
<1> QED BY <1>5, <1>6, <1>7, <1>8, <1>9, <1>10 DEF RunInv

LEMMA NextRunInv == RunInv /\ [RunNext]_runVars => RunInv'
<1> SUFFICES ASSUME RunInv, [RunNext]_runVars PROVE RunInv' OBVIOUS
<1>1. CASE Create \/ Call \/ Free BY <1>1, CreateKeepsRunInv, CallKeepsRunInv, FreeKeepsRunInv
<1>2. CASE Step
      BY <1>2, FailuresKeepIInv, DeviceInputKeepsRunInv, HostInputKeepsRunInv, BindOutputKeepsRunInv,
         EnqueueKeepsRunInv, DownloadKeepsRunInv, SynchronizeKeepsRunInv DEF Step
<1>3. CASE Failure BY <1>3, FailuresKeepIInv
<1>4. CASE Device BY <1>4, DeviceKeepsRunInv
<1>5. CASE UNCHANGED runVars
  <2>1. UNCHANGED <<engine, cuda, context, stream, memory, call, result, answer, late, wild>>
        BY <1>5 DEF runVars
  <2>2. RunTypeOK' /\ CallInv' /\ EngineInv' /\ OutputsOfThisCall' /\ WildWritesHaveCause'
        BY <2>1 DEF RunInv, RunTypeOK, CallInv, EngineInv, OutputsOfThisCall, WildWritesHaveCause
  <2>3. ContextInv' /\ StreamInv'
        BY <2>1 DEF RunInv, ContextInv, StreamInv, Queued, BoundInputs, BoundOutputs, OnHost, Address
  <2>4. DataInv'
        BY <2>1 DEF RunInv, DataInv, AllFresh, Fresh, Uploads, Queued, BoundInputs, OnHost,
                    Pending, Ran, ToRun, Downloaded, Address, IsCopy
  <2> QED BY <2>2, <2>3, <2>4 DEF RunInv
<1> QED BY <1>1, <1>2, <1>3, <1>4, <1>5 DEF RunNext

LEMMA RunInvHolds == RunSpec => []RunInv
BY InitRunInv, NextRunInv, PTL DEF RunSpec

(* Every variable keeps its type, whatever fails and whatever is still       *)
(* queued.                                                                   *)
THEOREM RunTypeCorrect == RunSpec => []RunTypeOK
<1>1. RunInv => RunTypeOK BY DEF RunInv
<1> QED BY RunInvHolds, <1>1, PTL

(* sam3_trt_engine_run returns true only with outputs that are all computed  *)
(* from this call's inputs, for any engine and any number of calls that      *)
(* failed before it.                                                         *)
THEOREM OutputsAreOfThisCall == RunSpec => []OutputsOfThisCall
<1>1. RunInv => OutputsOfThisCall BY DEF RunInv
<1> QED BY RunInvHolds, <1>1, PTL

(* The device writes to freed host memory only where a call failed after a   *)
(* download was queued.                                                      *)
THEOREM WildWritesHaveACause == RunSpec => []WildWritesHaveCause
<1>1. RunInv => WildWritesHaveCause BY DEF RunInv
<1> QED BY RunInvHolds, <1>1, PTL

(* The staging of everything that is queued is allocated, and a freed engine *)
(* holds nothing.                                                            *)
THEOREM StagingIsLive == RunSpec => []StagingLives
<1>1. RunInv => StagingLives BY DEF RunInv, EngineInv, StreamInv, StagingLives, Queued
<1> QED BY RunInvHolds, <1>1, PTL

(* What is enqueued has the addresses and shapes of this call only.          *)
THEOREM EnqueueSeesTheCall == RunSpec => EnqueueSeesThisCall
<1> DEFINE A == Enqueue =>
         /\ \A i \in Inputs : context.address[i] = IF call.args[i].via = "device" THEN call.n ELSE Staging
         /\ \A o \in Outputs : context.address[o] = IF o \in call.presets THEN call.n ELSE Staging
         /\ \A d \in Dynamic : context.shape[d] = call.args[d].size
<1>1. RunInv /\ [RunNext]_runVars => [A]_runVars
  <2> SUFFICES ASSUME RunInv, Enqueue PROVE A OBVIOUS
  <2>1. BoundInputs = Inputs /\ BoundOutputs = Outputs
        BY DEF Enqueue, BoundInputs, BoundOutputs
  <2>2. \A b \in Inputs \cup Outputs : context.address[b] = Address(b)
        BY <2>1 DEF RunInv, ContextInv
  <2>3. \A d \in Dynamic : context.shape[d] = call.args[d].size
        BY <2>1, TensorsAssumption DEF RunInv, ContextInv
  <2> QED BY <2>2, <2>3, TensorsAssumption DEF Address, OnHost
<1> QED BY RunInvHolds, <1>1, PTL DEF RunSpec, EnqueueSeesThisCall
=============================================================================
