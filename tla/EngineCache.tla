----------------------------- MODULE EngineCache -----------------------------
(***************************************************************************)
(* The TensorRT engine cache on disk, shared by every process started with *)
(* the same cache directory.  A process hashes the ONNX file into a cache  *)
(* key, loads the file of that key or builds the engine and writes it,     *)
(* and deserializes what it got; it asks once and remembers the outcome.   *)
(* Processes overlap, crash and fail at any of these steps, and nothing    *)
(* locks the file or moves it into place.  Each process stands for one     *)
(* entry of one process's table of engines.                                *)
(***************************************************************************)
EXTENDS Naturals, Sequences, FiniteSets

CONSTANTS
  Procs,
  Paths,     \* ONNX files
  Contents,  \* what an ONNX file may contain
  Patterns,  \* layer-name substrings to pin to FP32
  Requests,  \* what a process may ask for
  Failures,  \* the kinds of failure the environment may exhibit
  None,      \* no file, no engine
  Torn       \* a file that is not one whole engine

FailureKinds == {"build", "load", "write", "crash", "export"}

\* path and precision come from the configuration, fp32Env and rebuild from
\* SAM3_TRT_FP32 and SAM3_TRT_REBUILD.
Request == [path : Paths, fp16 : BOOLEAN, patterns : Seq(Patterns),
            fp32Env : BOOLEAN, rebuild : BOOLEAN]

Engine == [of : Contents, fp16 : BOOLEAN, pins : SUBSET Patterns]

ASSUME RequestsAssumption == Requests \subseteq Request /\ Requests # {}
ASSUME FailuresAssumption == Failures \subseteq FailureKinds
ASSUME NoneAssumption == None \notin Engine /\ Torn \notin Engine /\ None # Torn

VARIABLES
  onnx,    \* the content of every ONNX file
  disk,    \* the cache directory: None, Torn or an engine per key
  proc,    \* where every process is in asking for its engine
  spoiled  \* ghost: keys written last by a failed, crashed or disturbed writer

vars == <<onnx, disk, proc, spoiled>>

-----------------------------------------------------------------------------
(* Keys and engines *)

Fp16(r) == r.fp16 /\ ~r.fp32Env

\* The hashes of the patterns are combined by exclusive or: a pattern counts
\* if it occurs an odd number of times.  (The hashes are taken not to collide.)
Hashed(patterns) ==
  {x \in Patterns : Cardinality({i \in DOMAIN patterns : patterns[i] = x}) % 2 = 1}

Pinned(patterns) == {patterns[i] : i \in DOMAIN patterns}

Key_OfContentOnly(c, r) == [of |-> c, fp16 |-> TRUE, pins |-> {}]
Key(c, r) == [of |-> c, fp16 |-> Fp16(r), pins |-> Hashed(r.patterns)]
Keys == {Key(c, r) : c \in Contents, r \in Requests}

\* The engine TensorRT builds; patterns count only where FP16 is allowed.
Built_PinsAll(c, r) == [of |-> c, fp16 |-> Fp16(r), pins |-> Pinned(r.patterns)]
Built(c, r) ==
  [of |-> c, fp16 |-> Fp16(r), pins |-> IF Fp16(r) THEN Pinned(r.patterns) ELSE {}]

-----------------------------------------------------------------------------
(* One process asking for its engine *)

KeyOf(p) == Key(proc[p].of, proc[p].req)
At(p, pc) == proc[p].pc = pc
Writers(k) == {p \in Procs : At(p, "writing") /\ KeyOf(p) = k}

\* What sam3_get_trt_engine_cached returns, and remembers.
Returns(p, e) == proc' = [proc EXCEPT ![p].pc = "done", ![p].memo = e]

Moves(p, pc, b) == proc' = [proc EXCEPT ![p].pc = pc, ![p].blob = b]

\* The ONNX file is read and hashed.
ReadOnnx(p) ==
  /\ At(p, "idle")
  /\ \E r \in Requests :
       LET asks == [pc |-> "hashed", req |-> r, of |-> onnx[r.path], blob |-> None,
                    built |-> FALSE, memo |-> None]
       IN  \/ proc' = [proc EXCEPT ![p] = asks]
           \/ "build" \in Failures /\ proc' = [proc EXCEPT ![p] = [asks EXCEPT !.pc = "done"]]
  /\ UNCHANGED <<onnx, disk, spoiled>>

\* Any file under the key is a hit, unless it shrinks under the reader.
Hit(p) ==
  /\ At(p, "hashed") /\ ~proc[p].req.rebuild /\ disk[KeyOf(p)] # None
  /\ Moves(p, "loaded", disk[KeyOf(p)])
  /\ UNCHANGED <<onnx, disk, spoiled>>

Miss(p) ==
  /\ At(p, "hashed")
  /\ proc[p].req.rebuild \/ disk[KeyOf(p)] = None \/ Writers(KeyOf(p)) # {}
  /\ Moves(p, "missed", None)
  /\ UNCHANGED <<onnx, disk, spoiled>>

\* The parser opens the ONNX file again.
Build(p) ==
  /\ At(p, "missed")
  /\ proc' = [proc EXCEPT ![p].pc = "built", ![p].built = TRUE,
                          ![p].blob = Built(onnx[proc[p].req.path], proc[p].req)]
  /\ UNCHANGED <<onnx, disk, spoiled>>

BuildFails_Truncates(p) ==
  /\ At(p, "missed") /\ "build" \in Failures
  /\ Returns(p, None)
  /\ disk' = [disk EXCEPT ![KeyOf(p)] = Torn]
  /\ UNCHANGED <<onnx, spoiled>>

BuildFails(p) ==
  /\ At(p, "missed") /\ "build" \in Failures
  /\ Returns(p, None)
  /\ UNCHANGED <<onnx, disk, spoiled>>

\* Opening the cache file for writing truncates it.
OpenCache(p) ==
  /\ At(p, "built")
  /\ Moves(p, "writing", proc[p].blob)
  /\ disk' = [disk EXCEPT ![KeyOf(p)] = Torn]
  /\ spoiled' = IF Writers(KeyOf(p)) = {} THEN spoiled \ {KeyOf(p)}
                                          ELSE spoiled \cup {KeyOf(p)}
  /\ UNCHANGED onnx

OpenFails(p) ==
  /\ At(p, "built") /\ "write" \in Failures
  /\ Moves(p, "loaded", proc[p].blob)
  /\ UNCHANGED <<onnx, disk, spoiled>>

\* Two writers leave the bytes of one of them, or of both: no two builds of an
\* engine need have the same bytes, nor the same length.
WriteCache(p) ==
  /\ At(p, "writing")
  /\ Moves(p, "loaded", proc[p].blob)
  /\ \E e \in {proc[p].blob} \cup (IF KeyOf(p) \in spoiled THEN {Torn} ELSE {}) :
       disk' = [disk EXCEPT ![KeyOf(p)] = e]
  /\ UNCHANGED <<onnx, spoiled>>

WriteFails_Rereads(p) ==
  /\ At(p, "writing") /\ "write" \in Failures
  /\ Moves(p, "loaded", Torn)
  /\ disk' = [disk EXCEPT ![KeyOf(p)] = Torn]
  /\ spoiled' = spoiled \cup {KeyOf(p)}
  /\ UNCHANGED onnx

\* A failed write leaves what it wrote; the process goes on with its own engine.
WriteFails(p) ==
  /\ At(p, "writing") /\ "write" \in Failures
  /\ Moves(p, "loaded", proc[p].blob)
  /\ disk' = [disk EXCEPT ![KeyOf(p)] = Torn]
  /\ spoiled' = spoiled \cup {KeyOf(p)}
  /\ UNCHANGED onnx

Deserialize_Unchecked(p) ==
  /\ At(p, "loaded")
  /\ Returns(p, proc[p].blob)
  /\ UNCHANGED <<onnx, disk, spoiled>>

\* sam3_trt_engine_create: a torn engine does not deserialize.
Deserialize(p) ==
  /\ At(p, "loaded")
  /\ \/ Returns(p, IF proc[p].blob = Torn THEN None ELSE proc[p].blob)
     \/ "load" \in Failures /\ Returns(p, None)
  /\ UNCHANGED <<onnx, disk, spoiled>>

-----------------------------------------------------------------------------
(* The environment *)

NotAsking == [pc |-> "idle", req |-> CHOOSE r \in Requests : TRUE,
              of |-> None, blob |-> None, built |-> FALSE, memo |-> None]

\* A process ends, or dies on the way, and another takes its place.
Exit(p) ==
  /\ At(p, "done") \/ (~At(p, "idle") /\ "crash" \in Failures)
  /\ proc' = [proc EXCEPT ![p] = NotAsking]
  /\ spoiled' = IF At(p, "writing") THEN spoiled \cup {KeyOf(p)} ELSE spoiled
  /\ UNCHANGED <<onnx, disk>>

\* The models are exported again, while nobody builds from them if exporting
\* is the offline step it is meant to be.
Export(f, c) ==
  /\ "export" \in Failures
       \/ \A p \in Procs : proc[p].req.path = f => proc[p].pc \notin {"hashed", "missed"}
  /\ onnx' = [onnx EXCEPT ![f] = c]
  /\ UNCHANGED <<disk, proc, spoiled>>

-----------------------------------------------------------------------------
Init ==
  /\ onnx \in [Paths -> Contents]
  /\ disk = [k \in Keys |-> None]
  /\ proc = [p \in Procs |-> NotAsking]
  /\ spoiled = {}

Asks(p) ==
  \/ ReadOnnx(p) \/ Hit(p) \/ Miss(p) \/ Build(p) \/ BuildFails(p) \/ OpenCache(p)
  \/ OpenFails(p) \/ WriteCache(p) \/ WriteFails(p) \/ Deserialize(p)

Next ==
  \/ \E p \in Procs : Asks(p) \/ Exit(p)
  \/ \E f \in Paths, c \in Contents : Export(f, c)

Spec == Init /\ [][Next]_vars

-----------------------------------------------------------------------------
(* Properties *)

Entry == [pc : {"idle", "hashed", "missed", "built", "writing", "loaded", "done"},
          req : Requests, of : Contents \cup {None}, blob : Engine \cup {None, Torn},
          built : BOOLEAN, memo : Engine \cup {None}]

\* The type of every variable.
TypeOK ==
  /\ onnx \in [Paths -> Contents]
  /\ disk \in [Keys -> Engine \cup {None, Torn}]
  /\ proc \in [Procs -> Entry]
  /\ spoiled \subseteq Keys

\* What the properties below presuppose: no pattern is given twice, and no
\* model is exported while an engine is being built from it.
Distinct(s) == \A i, j \in DOMAIN s : s[i] = s[j] => i = j
ProperUse == "export" \notin Failures /\ \A r \in Requests : Distinct(r.patterns)

\* An engine found under a key was built from that ONNX content with that
\* precision, whoever wrote it and whatever became of the writer.
CacheFaithful ==
  ProperUse =>
    \A k \in Keys : disk[k] \in Engine =>
      disk[k] = [of |-> k.of, fp16 |-> k.fp16, pins |-> IF k.fp16 THEN k.pins ELSE {}]

\* A process never runs an engine of another content or precision than those
\* it asked for.
MemoAsAsked ==
  ProperUse =>
    \A p \in Procs : At(p, "done") /\ proc[p].memo # None =>
      proc[p].memo = Built(proc[p].of, proc[p].req)

\* A process that built its engine runs it, whatever others do to the file and
\* whether or not it could be written.
OwnBuildServes ==
  \A p \in Procs : At(p, "done") /\ proc[p].built /\ "load" \notin Failures =>
    proc[p].memo # None

\* A cache file is left torn only by a write that failed, a writer that
\* crashed, or two that wrote it at once.
TornHasCause ==
  \A k \in Keys : disk[k] = Torn /\ Writers(k) = {} => k \in spoiled

=============================================================================
