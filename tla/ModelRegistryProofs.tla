------------------------- MODULE ModelRegistryProofs -------------------------
(***************************************************************************)
(* The registration, the engine table and the way calls are served, proved *)
(* for any number of models, names, files and parameters.                  *)
(***************************************************************************)
EXTENDS ModelRegistry, TLAPS

Attempted == {m \in Models : model[m].phase # "none"}

\* The configuration in force is that of some load, once a load has succeeded.
CfgFromLoad ==
  \A m \in Models : model[m].phase \in {"loaded", "freed"}
                      => \E k \in Attempted : cfg = model[k].trt

\* An engine in the table is what some load's configuration asks for.
EnginesFromLoads ==
  \A n \in Names : \A e \in engine[n] :
    e = Missing \/ \E k \in Attempted : e = AskedFor(model[k].trt, n)

\* What Infer(m, n) would answer now, when the table has its entry.
Expected(m, n, e) ==
  /\ e.of = m /\ e.name = n
  /\ ~TakesTrt(m) => e.path = Fallback(m) /\ e.engine = Missing
  /\ TakesTrt(m) => /\ engine[n] = {e.engine}
                    /\ e.path = IF e.engine = Missing THEN Fallback(m) ELSE "trt"

\* A remembered answer is what asking again would yield.
ServedExpected ==
  \A m \in Models, n \in Names :
    served[m][n] # NoAnswer => Expected(m, n, served[m][n])

\* A call served by TensorRT used the table's engine.
AnswerFromTable ==
  answer.path = "trt" =>
    /\ answer.of \in Models /\ answer.name \in Names
    /\ answer.of \in Attempted
    /\ answer.engine \in engine[answer.name] \ {Missing}

IInv ==
  /\ TypeOK
  /\ RegistrationLive
  /\ RegistrationKept
  /\ CfgFromLoad
  /\ EnginesFromLoads
  /\ ServedExpected
  /\ AnswerFromTable

-----------------------------------------------------------------------------
\* Constants and the two records that stand for nothing have their types.
LEMMA BaseTypes ==
  /\ Disabled \in Config
  /\ Missing \in Engine
  /\ NoAnswer \in Answer
  /\ Unserved \in [Models -> [Names -> Answer]]
BY NamesAssumption
   DEF Disabled, Config, Missing, Engine, NoAnswer, Answer, Unserved

\* The configuration's engine for n, read through Value, is the one asked for.
LEMMA BuiltIsAskedFor ==
  ASSUME TypeOK, NEW n \in Names, NEW e \in Built(n)
  PROVE  e = AskedFor(cfg, n) /\ e \in Engine /\ e # Missing
<1>1. cfg \in Config /\ Env \in Config
  BY ParamsAssumption DEF TypeOK
<1>2. e = [onnx |-> Onnx(n), precision |-> Precision(n)] /\ Onnx(n) # None
  BY DEF Built
<1>3. e = AskedFor(cfg, n)
  BY <1>2 DEF AskedFor, Onnx, Precision, Value
<1>4. Onnx(n) \in Files \cup {None} /\ Precision(n) \in Precisions \cup {None}
  BY <1>1 DEF Onnx, Precision, Value, Config
<1>5. e \in Engine /\ e # Missing
  BY <1>2, <1>4 DEF Engine, Missing
<1>6. QED
  BY <1>3, <1>5

\* A new process satisfies the invariant.
LEMMA InitIInv == Init => IInv
<1>1. SUFFICES ASSUME Init PROVE IInv
  OBVIOUS
<1>2. TypeOK
  BY <1>1, BaseTypes DEF Init, TypeOK
<1>3. RegistrationLive /\ RegistrationKept /\ CfgFromLoad /\ EnginesFromLoads
  BY <1>1 DEF Init, RegistrationLive, RegistrationKept, CfgFromLoad, EnginesFromLoads
<1>4. ServedExpected
  BY <1>1 DEF Init, ServedExpected, Unserved
<1>5. AnswerFromTable
  BY <1>1 DEF Init, AnswerFromTable, NoAnswer
<1>6. QED
  BY <1>2, <1>3, <1>4, <1>5 DEF IInv

\* A load that ends anywhere, on either backend, preserves the invariant.
LEMMA LoadIInv ==
  ASSUME IInv, NEW m \in Models, NEW p \in Params, sam3_load_model(m, p)
  PROVE  IInv'
<1>1. PICK stop \in Stops, onGpu \in BOOLEAN :
        /\ Refused(p) => stop = "header"
        /\ onGpu => p.useGpu /\ stop # "header"
        /\ model' = [model EXCEPT ![m] =
             [phase |-> IF stop = "done" THEN "loaded" ELSE "failed", onGpu |-> onGpu,
              skip |-> TrtOnlyWeights(p), trt |-> p.trt]]
        /\ IF onGpu THEN Register(m) /\ lastGpu' = m ELSE UNCHANGED <<gpu, lastGpu>>
        /\ cfg' = IF stop \in {"weights", "done"} THEN p.trt ELSE cfg
  BY DEF sam3_load_model
<1>2. /\ model[m].phase = "none" /\ answer' = NoAnswer /\ served' = Unserved
      /\ engine' = engine
  BY DEF sam3_load_model
<1>3. p \in Param /\ Env \in Config
  BY ParamsAssumption
<1>4. TypeOK /\ RegistrationLive /\ RegistrationKept /\ CfgFromLoad /\ EnginesFromLoads
  BY DEF IInv
<1>5. TrtOnlyWeights(p) \in BOOLEAN
  BY <1>3 DEF TrtOnlyWeights, Param, Config
<1>6. TypeOK'
  BY <1>1, <1>2, <1>3, <1>4, <1>5, BaseTypes DEF TypeOK, Register, Param
<1>7. /\ \A k \in Models \ {m} : model'[k] = model[k]
      /\ model'[m].phase \in {"loaded", "failed"}
      /\ model'[m].onGpu = onGpu /\ model'[m].trt = p.trt
      /\ model'[m].phase = "loaded" => stop = "done"
  BY <1>1, <1>4 DEF TypeOK
<1>8. None \notin Models
  BY NamesAssumption
<1>9. RegistrationLive'
  <2>1. CASE onGpu
    BY <1>1, <1>7, <2>1 DEF RegistrationLive, Register
  <2>2. CASE ~onGpu
    BY <1>1, <1>2, <1>4, <1>7, <2>2 DEF RegistrationLive, TypeOK
  <2>3. QED
    BY <2>1, <2>2
<1>10. RegistrationKept'
  BY <1>1, <1>2, <1>4, <1>7, <1>8 DEF RegistrationKept, Register
<1>11. Attempted \cup {m} \subseteq Attempted' /\ m \notin Attempted
  BY <1>2, <1>7 DEF Attempted
<1>12. CfgFromLoad'
  <2>1. CASE stop \in {"weights", "done"}
    BY <1>1, <1>7, <1>11, <2>1 DEF CfgFromLoad
  <2>2. CASE stop \notin {"weights", "done"}
    BY <1>1, <1>4, <1>7, <1>11, <2>2 DEF CfgFromLoad, Attempted
  <2>3. QED
    BY <2>1, <2>2
<1>13. EnginesFromLoads'
  <2>1. \A k \in Attempted : k \in Attempted' /\ model'[k].trt = model[k].trt
    BY <1>7, <1>11 DEF Attempted
  <2>2. QED
    BY <1>2, <1>4, <2>1 DEF EnginesFromLoads, AskedFor, Missing
<1>14. ServedExpected'
  BY <1>2 DEF ServedExpected, Unserved, NoAnswer, Missing
<1>15. AnswerFromTable'
  BY <1>2 DEF AnswerFromTable, NoAnswer
<1>16. QED
  BY <1>6, <1>9, <1>10, <1>12, <1>13, <1>14, <1>15 DEF IInv

\* Freeing a model unregisters it and no other.
LEMMA FreeIInv ==
  ASSUME IInv, NEW m \in Models, sam3_free_model(m)
  PROVE  IInv'
<1>1. /\ model[m].phase = "loaded" /\ gpu' = Unregister(m)
      /\ model' = [model EXCEPT ![m].phase = "freed"]
      /\ answer' = NoAnswer /\ served' = Unserved
      /\ UNCHANGED <<cfg, engine, lastGpu>>
  BY DEF sam3_free_model
<1>2. TypeOK /\ RegistrationLive /\ RegistrationKept /\ CfgFromLoad /\ EnginesFromLoads
  BY DEF IInv
<1>3. TypeOK'
  BY <1>1, <1>2, BaseTypes DEF TypeOK, Unregister
<1>4. /\ \A k \in Models \ {m} : model'[k] = model[k]
      /\ model'[m].phase = "freed" /\ model'[m].trt = model[m].trt
  BY <1>1, <1>2 DEF TypeOK
<1>5. RegistrationLive'
  BY <1>1, <1>2, <1>4 DEF RegistrationLive, TypeOK, Unregister
<1>6. RegistrationKept'
  BY <1>1, <1>2, <1>4 DEF RegistrationKept, Unregister
<1>7. /\ Attempted' = Attempted
      /\ \A k \in Models : model'[k].trt = model[k].trt
  BY <1>1, <1>4 DEF Attempted
<1>8. CfgFromLoad'
  BY <1>1, <1>2, <1>4, <1>7 DEF CfgFromLoad, Attempted
<1>9. EnginesFromLoads'
  BY <1>1, <1>2, <1>7 DEF EnginesFromLoads, AskedFor, Missing, Attempted
<1>10. ServedExpected' /\ AnswerFromTable'
  BY <1>1 DEF ServedExpected, Unserved, AnswerFromTable, NoAnswer, Missing
<1>11. QED
  BY <1>3, <1>5, <1>6, <1>8, <1>9, <1>10 DEF IInv

\* Serving a call, by any path, preserves the invariant.
LEMMA InferIInv ==
  ASSUME IInv, NEW m \in Models, NEW n \in Names, Infer(m, n)
  PROVE  IInv'
<1> DEFINE Served(path, e) == [of |-> m, name |-> n, path |-> path, engine |-> e]
<1>1. TypeOK /\ RegistrationLive /\ RegistrationKept /\ CfgFromLoad /\ EnginesFromLoads
        /\ ServedExpected
  BY DEF IInv
<1>2. model[m].phase = "loaded" /\ UNCHANGED <<model, gpu, cfg, lastGpu>>
  BY DEF Infer, Serves
<1>3. PICK e \in Engine, path \in {"trt", "ggml", "refused", "unsupported"} :
        /\ answer' = Served(path, e)
        /\ served' = [served EXCEPT ![m][n] = Served(path, e)]
        /\ \/ /\ ~TakesTrt(m) /\ e = Missing /\ path = Fallback(m) /\ engine' = engine
           \/ /\ TakesTrt(m) /\ e \in EngineResults(n)
              /\ engine' = [engine EXCEPT ![n] = {e}]
              /\ path = IF e = Missing THEN Fallback(m) ELSE "trt"
  <2>1. Fallback(m) \in {"trt", "ggml", "refused", "unsupported"}
    BY DEF Fallback
  <2>2. CASE ~TakesTrt(m)
    <3>1. answer' = Served(Fallback(m), Missing)
            /\ served' = [served EXCEPT ![m][n] = Served(Fallback(m), Missing)]
            /\ engine' = engine
      BY <2>2 DEF Infer, Serves
    <3>2. QED
      BY <2>1, <2>2, <3>1, BaseTypes
  <2>3. CASE TakesTrt(m)
    <3>1. PICK e \in EngineResults(n) :
            /\ engine' = [engine EXCEPT ![n] = {e}]
            /\ Serves(m, n, IF e = Missing THEN Fallback(m) ELSE "trt", e)
      BY <2>3 DEF Infer
    <3>2. e \in Engine
      BY <1>1, <3>1, BaseTypes, BuiltIsAskedFor DEF EngineResults, TypeOK
    <3>3. QED
      BY <2>1, <2>3, <3>1, <3>2 DEF Serves
  <2>4. QED
    BY <2>2, <2>3
<1>4. Served(path, e) \in Answer
  BY <1>3 DEF Answer
<1>5. TypeOK'
  BY <1>1, <1>2, <1>3, <1>4 DEF TypeOK
<1>6. RegistrationLive' /\ RegistrationKept' /\ CfgFromLoad'
  BY <1>1, <1>2 DEF RegistrationLive, RegistrationKept, CfgFromLoad, Attempted
<1>7. Attempted' = Attempted /\ m \in Attempted
  BY <1>2 DEF Attempted
<1>8. PICK l \in Attempted : cfg = model[l].trt
  BY <1>1, <1>2 DEF CfgFromLoad
<1>9. EnginesFromLoads'
  <2>1. ASSUME TakesTrt(m), e \in EngineResults(n)
        PROVE  e = Missing \/ \E j \in Attempted : e = AskedFor(model[j].trt, n)
    <3>1. CASE e \in engine[n]
      BY <1>1, <3>1 DEF EnginesFromLoads
    <3>2. CASE e \in Built(n)
      BY <1>1, <1>8, <3>2, BuiltIsAskedFor
    <3>3. QED
      BY <2>1, <3>1, <3>2 DEF EngineResults
  <2>2. ASSUME NEW j \in Names, NEW f \in engine'[j]
        PROVE  f = Missing \/ \E i \in Attempted : f = AskedFor(model[i].trt, j)
    <3>1. CASE f \in engine[j]
      BY <1>1, <3>1 DEF EnginesFromLoads
    <3>2. CASE f \notin engine[j]
      <4>1. TakesTrt(m) /\ e \in EngineResults(n) /\ j = n /\ f = e
        BY <1>1, <1>3, <3>2 DEF TypeOK
      <4>2. QED
        BY <2>1, <4>1
    <3>3. QED
      BY <3>1, <3>2
  <2>3. QED
    BY <1>2, <1>7, <2>2 DEF EnginesFromLoads, AskedFor, Missing
<1>10. ServedExpected'
  <2>1. SUFFICES ASSUME NEW k \in Models, NEW j \in Names, served'[k][j] # NoAnswer
                 PROVE  Expected(k, j, served[k][j])'
    BY DEF ServedExpected, NoAnswer, Missing
  <2>2. TakesTrt(k)' = TakesTrt(k) /\ Fallback(k)' = Fallback(k)
    BY <1>2 DEF TakesTrt, sam3_trt_enabled, Fallback
  <2>3. CASE k = m /\ j = n
    <3>1. served'[k][j] = Served(path, e)
      BY <1>1, <1>3, <2>3 DEF TypeOK
    <3>2. TakesTrt(m) => engine'[n] = {e}
      BY <1>1, <1>3 DEF TypeOK
    <3>3. QED
      BY <1>3, <2>2, <2>3, <3>1, <3>2 DEF Expected, Missing
  <2>4. CASE ~(k = m /\ j = n)
    <3>1. served'[k][j] = served[k][j] /\ Expected(k, j, served[k][j])
      BY <1>1, <1>3, <2>1, <2>4 DEF TypeOK, ServedExpected
    <3>2. TakesTrt(k) => engine'[j] = engine[j]
      <4>1. ASSUME TakesTrt(k), j = n, TakesTrt(m) PROVE e \in engine[n]
        BY <3>1, <4>1, <1>3 DEF Expected, EngineResults
      <4>2. ASSUME TakesTrt(k), j = n, TakesTrt(m) PROVE engine'[j] = engine[j]
        <5>1. engine[n] = {served[k][j].engine}
          BY <3>1, <4>2 DEF Expected
        <5>2. engine[n] = {e}
          BY <4>1, <4>2, <5>1
        <5>3. engine'[n] = {e}
          BY <1>1, <1>3, <4>2 DEF TypeOK
        <5>4. QED
          BY <4>2, <5>2, <5>3
      <4>3. QED
        BY <1>1, <1>3, <4>2 DEF TypeOK
    <3>3. QED
      BY <2>2, <3>1, <3>2 DEF Expected, Missing
  <2>5. QED
    BY <2>3, <2>4
<1>11. AnswerFromTable'
  <2>1. ASSUME path = "trt" PROVE e # Missing /\ engine' = [engine EXCEPT ![n] = {e}]
    BY <1>3, <2>1 DEF Fallback
  <2>2. QED
    BY <1>1, <1>3, <1>7, <2>1 DEF AnswerFromTable, TypeOK, Missing
<1>12. QED
  BY <1>5, <1>6, <1>9, <1>10, <1>11 DEF IInv

\* A step that changes nothing.
LEMMA StutterIInv == IInv /\ UNCHANGED vars => IInv'
BY DEF IInv, TypeOK, RegistrationLive, RegistrationKept, CfgFromLoad, EnginesFromLoads,
       ServedExpected, AnswerFromTable, Attempted, Expected, TakesTrt, sam3_trt_enabled,
       Fallback, AskedFor, Missing, NoAnswer, vars

-----------------------------------------------------------------------------
\* The strengthened invariant holds in every process.
THEOREM Invariance == Spec => []IInv
<1>1. IInv /\ [Next]_vars => IInv'
  BY LoadIInv, FreeIInv, InferIInv, StutterIInv DEF Next
<1>2. QED
  BY <1>1, InitIInv, PTL DEF Spec

\* Every variable keeps its type.
THEOREM TypeCorrect == Spec => []TypeOK
<1>1. IInv => TypeOK
  BY DEF IInv
<1>2. QED
  BY <1>1, Invariance, PTL

\* g_gpu_backend never names a freed backend, nor one that is not a GPU's.
THEOREM RegistrationIsLive == Spec => []RegistrationLive
<1>1. IInv => RegistrationLive
  BY DEF IInv
<1>2. QED
  BY <1>1, Invariance, PTL

\* Only another GPU load takes a loaded GPU model's registration from it.
THEOREM RegistrationIsKept == Spec => []RegistrationKept
<1>1. IInv => RegistrationKept
  BY DEF IInv
<1>2. QED
  BY <1>1, Invariance, PTL

\* One configuration for all loads: the engines that serve are its engines.
THEOREM UniformConfigIsServed == Spec => []UniformConfigServed
<1>1. IInv => UniformConfigServed
  <2>1. SUFFICES ASSUME IInv, answer.path = "trt",
                        \A k, m \in Models :
                          {model[k].phase, model[m].phase} \subseteq {"loaded", "failed", "freed"}
                            => model[k].trt = model[m].trt
                 PROVE  answer.engine = AskedFor(model[answer.of].trt, answer.name)
    BY DEF UniformConfigServed, ServedAsAsked
  <2>2. /\ answer.name \in Names /\ answer.of \in Attempted
        /\ answer.engine \in engine[answer.name] \ {Missing}
    BY <2>1 DEF IInv, AnswerFromTable
  <2>3. PICK k \in Attempted : answer.engine = AskedFor(model[k].trt, answer.name)
    BY <2>1, <2>2 DEF IInv, EnginesFromLoads
  <2>4. model[k].trt = model[answer.of].trt
    BY <2>1, <2>2 DEF Attempted, IInv, TypeOK
  <2>5. QED
    BY <2>3, <2>4
<1>2. QED
  BY <1>1, Invariance, PTL

\* Globals that stand still serve a call the same way every time: the ground
\* of Session's constant deployment.
THEOREM DeploymentIsFixed == Spec => DeploymentFixed
<1> DEFINE Repeats == \A m \in Models, n \in Names :
             answer'.of = m /\ answer'.name = n /\ served[m][n] # NoAnswer
               => answer' = served[m][n]
<1>1. IInv /\ IInv' /\ [Next]_vars => [Repeats]_vars
  <2>1. SUFFICES ASSUME IInv, Next, NEW m \in Models, NEW n \in Names,
                        answer'.of = m, answer'.name = n, served[m][n] # NoAnswer
                 PROVE  answer' = served[m][n]
    BY DEF Repeats
  <2>2. NoAnswer.of = None /\ None \notin Models
    BY NamesAssumption DEF NoAnswer
  <2>3. PICK k \in Models, j \in Names : Infer(k, j)
    BY <2>1, <2>2 DEF Next, sam3_load_model, sam3_free_model
  <2>4. k = m /\ j = n
    BY <2>1, <2>3 DEF Infer, Serves
  <2>5. Expected(m, n, served[m][n]) /\ served[m][n] \in Answer
    BY <2>1 DEF IInv, ServedExpected, TypeOK
  <2>6. CASE ~TakesTrt(m)
    <3>1. answer' = [of |-> m, name |-> n, path |-> Fallback(m), engine |-> Missing]
      BY <2>3, <2>4, <2>6 DEF Infer, Serves
    <3>2. QED
      BY <2>5, <2>6, <3>1 DEF Expected, Answer
  <2>7. CASE TakesTrt(m)
    <3>1. PICK e \in EngineResults(n) :
            answer' = [of |-> m, name |-> n, engine |-> e,
                       path |-> IF e = Missing THEN Fallback(m) ELSE "trt"]
      BY <2>3, <2>4, <2>7 DEF Infer, Serves
    <3>2. e = served[m][n].engine
      BY <2>5, <2>7, <3>1 DEF Expected, EngineResults
    <3>3. QED
      BY <2>5, <2>7, <3>1, <3>2 DEF Expected, Answer
  <2>8. QED
    BY <2>6, <2>7
<1>2. QED
  BY <1>1, Invariance, PTL DEF Spec, DeploymentFixed
=============================================================================
