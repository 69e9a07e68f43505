---------------------------- MODULE ModelRegistry ----------------------------
(***************************************************************************)
(* One process that loads, uses and frees models in any order.  A model    *)
(* shares three process-wide variables with every other: the registered    *)
(* GPU backend, the TensorRT configuration and the table of engines.       *)
(* The module follows who sets them, in which order, and what a model's    *)
(* inference call finds in them; Session follows what one call does with   *)
(* its state, under globals that stand still.                              *)
(***************************************************************************)
EXTENDS FiniteSets

CONSTANTS
  Models,   \* one name per call of sam3_load_model
  Names,    \* the ONNX-path variables that name an engine: encoder, pcs, pvs, ...
  PcsNames, \* those whose precision is configurable
  Files,    \* ONNX files
  Precisions,
  Env,      \* the SAM3_TRT_* environment variables, as a configuration
  Params,   \* the sam3_params loads are called with
  None      \* nullptr, or an empty string

Config == [enabled : BOOLEAN, skip : BOOLEAN,
           onnx : [Names -> Files \cup {None}], precision : Precisions \cup {None}]
Param == [useGpu : BOOLEAN, sidecar : BOOLEAN, trt : Config]

ASSUME NamesAssumption ==
  /\ PcsNames \subseteq Names
  /\ None \notin Models \cup Files \cup Precisions
ASSUME ParamsAssumption == Env \in Config /\ Params \subseteq Param

VARIABLES
  model,   \* every model: its phase, its backend, its weights, its parameters
  gpu,     \* g_gpu_backend: the model whose backend it is, or None
  cfg,     \* g_trt_cfg
  engine,  \* sam3_get_trt_engine_cached's table: no entry or one per name
  answer,  \* how the last inference call was served
  served,  \* ghost: how each was served since the last load or free
  lastGpu  \* ghost: the last model that registered a GPU backend

vars == <<model, gpu, cfg, engine, answer, served, lastGpu>>

-----------------------------------------------------------------------------
(* Configuration *)

\* The struct wins, field by field, when it is enabled.
Value_EnvWins(own, env) == IF env # None THEN env ELSE own
Value(own, env) == IF cfg.enabled /\ own # None THEN own ELSE env

sam3_trt_enabled == cfg.enabled \/ Env.enabled

Onnx(n) == Value(cfg.onnx[n], Env.onnx[n])

\* Only the text head's precision can be chosen; the others have their own.
Precision(n) == IF n \in PcsNames THEN Value(cfg.precision, Env.precision) ELSE None

Missing == [onnx |-> None, precision |-> None]

Built_Swapped(n) == IF Onnx(n) = None THEN {}
                    ELSE {[onnx |-> Precision(n), precision |-> Onnx(n)]}

Built(n) == IF Onnx(n) = None THEN {}
            ELSE {[onnx |-> Onnx(n), precision |-> Precision(n)]}

\* What a call that asks for n may find: the table's entry if there is one, a
\* remembered failure included; else what building it now yields.
EngineResults_Retries(n) ==
  IF engine[n] \notin {{}, {Missing}} THEN engine[n] ELSE {Missing} \cup Built(n)

EngineResults(n) == IF engine[n] # {} THEN engine[n] ELSE {Missing} \cup Built(n)

-----------------------------------------------------------------------------
(* Loading and freeing *)

\* Where a load ends: before the backend, with the backend initialised, with
\* the configuration captured, or at the end.
Stops == {"header", "context", "weights", "done"}

\* runtime data is refused unless TensorRT is enabled.
Refused(p) == p.sidecar /\ ~(p.trt.enabled \/ Env.enabled)

TrtOnlyWeights(p) == p.sidecar \/ Env.skip \/ (p.trt.enabled /\ p.trt.skip)

NoAnswer == [of |-> None, name |-> None, path |-> "none", engine |-> Missing]

Unserved == [m \in Models |-> [n \in Names |-> NoAnswer]]

Register(m) == gpu' = m

sam3_load_model(m, p) ==
  /\ model[m].phase = "none"
  /\ \E stop \in Stops, onGpu \in BOOLEAN :
       /\ Refused(p) => stop = "header"
       /\ onGpu => p.useGpu /\ stop # "header"
       /\ model' = [model EXCEPT ![m] =
            [phase |-> IF stop = "done" THEN "loaded" ELSE "failed", onGpu |-> onGpu,
             skip |-> TrtOnlyWeights(p), trt |-> p.trt]]
       /\ IF onGpu THEN Register(m) /\ lastGpu' = m ELSE UNCHANGED <<gpu, lastGpu>>
       /\ cfg' = IF stop \in {"weights", "done"} THEN p.trt ELSE cfg
  /\ answer' = NoAnswer
  /\ served' = Unserved
  /\ UNCHANGED engine

Unregister_Always(m) == None
Unregister_Never(m) == gpu
Unregister(m) == IF gpu = m THEN None ELSE gpu

sam3_free_model(m) ==
  /\ model[m].phase = "loaded"
  /\ gpu' = Unregister(m)
  /\ model' = [model EXCEPT ![m].phase = "freed"]
  /\ answer' = NoAnswer
  /\ served' = Unserved
  /\ UNCHANGED <<cfg, engine, lastGpu>>

-----------------------------------------------------------------------------
(* Inference: which path serves a call *)

\* The graphs are lowered for the GPU only while some GPU is registered; an
\* unlowered graph has operations the GPU backend does not implement.
Fallback(m) == IF model[m].skip THEN "refused"
               ELSE IF model[m].onGpu /\ gpu = None THEN "unsupported" ELSE "ggml"

TakesTrt(m) == sam3_trt_enabled /\ gpu = m

Serves(m, n, path, e) ==
  /\ answer' = [of |-> m, name |-> n, path |-> path, engine |-> e]
  /\ served' = [served EXCEPT ![m][n] = answer']
  /\ UNCHANGED <<model, gpu, cfg, lastGpu>>

\* One encode, text prompt or point prompt of a state of model m.
Infer(m, n) ==
  /\ model[m].phase = "loaded"
  /\ \/ ~TakesTrt(m) /\ Serves(m, n, Fallback(m), Missing) /\ UNCHANGED engine
     \/ /\ TakesTrt(m)
        /\ \E e \in EngineResults(n) :
             /\ engine' = [engine EXCEPT ![n] = {e}]
             /\ Serves(m, n, IF e = Missing THEN Fallback(m) ELSE "trt", e)

-----------------------------------------------------------------------------
Disabled == [enabled |-> FALSE, skip |-> TRUE, onnx |-> [n \in Names |-> None],
             precision |-> None]

Init ==
  /\ model = [m \in Models |-> [phase |-> "none", onGpu |-> FALSE, skip |-> FALSE,
                                trt |-> Disabled]]
  /\ gpu = None
  /\ cfg = Disabled
  /\ engine = [n \in Names |-> {}]
  /\ answer = NoAnswer
  /\ served = Unserved
  /\ lastGpu = None

Next ==
  \/ \E m \in Models, p \in Params : sam3_load_model(m, p)
  \/ \E m \in Models : sam3_free_model(m)
  \/ \E m \in Models, n \in Names : Infer(m, n)

Spec == Init /\ [][Next]_vars

-----------------------------------------------------------------------------
(* Properties *)

Engine == [onnx : Files \cup {None}, precision : Precisions \cup {None}]
Answer == [of : Models \cup {None}, name : Names \cup {None},
           path : {"none", "trt", "ggml", "refused", "unsupported"}, engine : Engine]

\* The type of every variable.
TypeOK ==
  /\ model \in [Models -> [phase : {"none", "loaded", "failed", "freed"},
                           onGpu : BOOLEAN, skip : BOOLEAN, trt : Config]]
  /\ gpu \in Models \cup {None}
  /\ cfg \in Config
  /\ engine \in [Names -> SUBSET Engine]
  /\ answer \in Answer
  /\ served \in [Models -> [Names -> Answer]]
  /\ lastGpu \in Models \cup {None}

\* g_gpu_backend always names a GPU backend that exists and is not freed,
\* however loads, failed loads and frees interleave.
RegistrationLive ==
  gpu # None => model[gpu].phase \in {"loaded", "failed"} /\ model[gpu].onGpu

\* A loaded GPU model stays the registered one until another GPU load: loading
\* or freeing CPU models, freeing older GPU models, failing early change nothing.
RegistrationKept ==
  \A m \in Models : model[m].phase = "loaded" /\ model[m].onGpu /\ lastGpu = m => gpu = m

\* Between a load or free and the next, a call is always served the same way:
\* by the same path and the same engine.  Session's constant deployment is this.
DeploymentFixed ==
  [][\A m \in Models, n \in Names :
       answer'.of = m /\ answer'.name = n /\ served[m][n] # NoAnswer
         => answer' = served[m][n]]_vars

\* The engine a configuration asks for under the name n.
AskedFor(c, n) ==
  LET Own(own, env) == IF c.enabled /\ own # None THEN own ELSE env
  IN  [onnx |-> Own(c.onnx[n], Env.onnx[n]),
       precision |-> IF n \in PcsNames THEN Own(c.precision, Env.precision) ELSE None]

ServedAsAsked ==
  answer.path = "trt" => answer.engine = AskedFor(model[answer.of].trt, answer.name)

\* A process that loads all its models with one TensorRT configuration gets
\* that configuration's engines.
UniformConfigServed ==
  (\A k, m \in Models : {model[k].phase, model[m].phase} \subseteq {"loaded", "failed", "freed"}
                          => model[k].trt = model[m].trt)
    => ServedAsAsked

=============================================================================
