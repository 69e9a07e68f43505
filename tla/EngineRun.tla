----------------------------- MODULE EngineRun -----------------------------
(***************************************************************************)
(* One TensorRT engine and the calls of sam3_trt_engine_run on it: binding *)
(* of inputs and outputs, staging buffers allocated at their first use,    *)
(* and copies and the execution itself, which are queued on a CUDA stream  *)
(* that the device works off while the call goes on.                       *)
(*                                                                         *)
(* Every call has a number, which stands for the data of its inputs.  A    *)
(* run whose inputs all held the data of one call yields that number.      *)
(***************************************************************************)
EXTENDS Naturals, Sequences, FiniteSets, SequencesExt

CONSTANTS InputOrder,   \* the engine's inputs, and
          OutputOrder,  \* its outputs, in its order
          Dynamic,      \* the inputs with a dynamic shape
          MaxElems,     \* their profile's maximum, and the size of the others
          Arguments,    \* what callers come with, for every input
          MaxCalls      \* bound: calls per engine

Inputs == ToSet(InputOrder)
Outputs == ToSet(OutputOrder)
Tensors == Inputs \cup Outputs

(* A caller's input: given at all, on the device or on the host, with a      *)
(* number of elements, and with dims or without.                             *)
Argument == [via : {"missing", "device", "host"}, size : Nat, dims : BOOLEAN]

ASSUME TensorsAssumption ==
    /\ InputOrder \in Seq(Inputs) \ {<<>>} /\ OutputOrder \in Seq(Outputs) \ {<<>>}
    /\ Inputs \cap Outputs = {} /\ Dynamic \subseteq Inputs
    /\ MaxElems \in Nat /\ MaxCalls \in Nat
    /\ \A a \in Arguments : a \in [Inputs -> Argument]

Garbage == 0        \* what no call asked for
Staging == 0        \* an address: the engine's own buffer; others are the
                    \* caller's, by the number of the call
VARIABLES engine,   \* "none", "ready", "refused" or "freed"
          cuda,     \* what CUDA has allocated: "stream", and tensors' staging
          context,  \* the execution context: addresses and shapes set last
          stream,   \* the work queued on the stream
          memory,   \* device memory: staging, and the caller's output buffers
          call,     \* where the call is, its number and its arguments
          result,   \* the call's vectors for downloaded outputs
          answer,   \* what the last call returned
          late,     \* a call failed after its first download
          wild      \* the device has written to host memory that was freed
runVars == <<engine, cuda, context, stream, memory, call, result, answer, late, wild>>

-----------------------------------------------------------------------------
NoOutputs == [o \in Outputs |-> Garbage]
NoArguments == [i \in Inputs |-> [via |-> "missing", size |-> 0, dims |-> FALSE]]

Idle(n) == [at |-> "idle", n |-> n, k |-> 1, args |-> NoArguments, presets |-> {}]
Loop == IF call.at = "inputs" THEN InputOrder ELSE OutputOrder
Binding == Loop[call.k]
After == [inputs |-> "outputs", outputs |-> "enqueue", download |-> "synchronize"]
NextTensor ==
    IF call.k < Len(Loop) THEN [call EXCEPT !.k = @ + 1]
    ELSE [call EXCEPT !.k = 1, !.at = After[@]]

Fail ==
    /\ call' = Idle(call.n)
    /\ answer' = [ok |-> FALSE, n |-> call.n, got |-> NoOutputs]
    /\ late' = (late \/ call.at \in {"download", "synchronize"})

-----------------------------------------------------------------------------
(* sam3_trt_engine_create: the stream is there before the tensors' types are *)
(* looked at, and nothing destroys it when one is not supported.             *)
Create ==
    /\ engine = "none"
    /\ \/ engine' = "ready" /\ cuda' = {"stream"}
       \/ engine' = "refused" /\ cuda' \in {{}, {"stream"}}
    /\ UNCHANGED <<context, stream, memory, call, result, answer, late, wild>>

Call ==
    /\ engine = "ready" /\ call.at = "idle" /\ call.n < MaxCalls
    /\ \E args \in Arguments, presets \in SUBSET Outputs :
          call' = [at |-> "inputs", n |-> call.n + 1, k |-> 1, args |-> args, presets |-> presets]
    /\ result' = NoOutputs
    /\ memory' = [memory EXCEPT !.caller = NoOutputs]
    /\ UNCHANGED <<engine, cuda, context, stream, answer, late, wild>>

(* The shape that the context has for b from here on, or had.                *)
Shaped(b, arg) ==
    IF b \in Dynamic THEN [context EXCEPT !.shape[b] = arg.size] ELSE context

RefusedInput(b, arg) ==
    \/ arg.via = "missing"
    \/ b \in Dynamic /\ (~arg.dims \/ arg.size > MaxElems)

InputRefused ==
    /\ call.at = "inputs"
    /\ RefusedInput(Binding, call.args[Binding])
    /\ Fail
    /\ UNCHANGED <<engine, cuda, context, stream, memory, result, wild>>

(* TensorRT rejects the shape.                                               *)
ShapeRejected ==
    /\ call.at = "inputs" /\ Binding \in Dynamic
    /\ ~RefusedInput(Binding, call.args[Binding])
    /\ Fail
    /\ UNCHANGED <<engine, cuda, context, stream, memory, result, wild>>

DeviceInput ==
    /\ call.at = "inputs"
    /\ LET b == Binding  arg == call.args[b] IN
       /\ ~RefusedInput(b, arg) /\ arg.via = "device"
       /\ context' = [Shaped(b, arg) EXCEPT !.address[b] = call.n]
    /\ call' = NextTensor
    /\ UNCHANGED <<engine, cuda, stream, memory, result, answer, late, wild>>

Allocate(b) == cuda' = cuda \cup {b}
Bound_Once(b, c) == IF b \in cuda THEN c ELSE [c EXCEPT !.address[b] = Staging]
Bound(b, c) == [c EXCEPT !.address[b] = Staging]

Fits(b, arg) == b \in Dynamic \/ arg.size = MaxElems

HostInput ==
    /\ call.at = "inputs"
    /\ LET b == Binding  arg == call.args[b] IN
       /\ ~RefusedInput(b, arg) /\ arg.via = "host" /\ Fits(b, arg)
       /\ Allocate(b)
       /\ context' = Bound(b, Shaped(b, arg))
       /\ stream' = Append(stream, [op |-> "upload", tensor |-> b, n |-> call.n])
    /\ call' = NextTensor
    /\ UNCHANGED <<engine, memory, result, answer, late, wild>>

(* A vector of the wrong size is refused when all but the copy is done.      *)
HostInputMisfits ==
    /\ call.at = "inputs"
    /\ LET b == Binding  arg == call.args[b] IN
       /\ ~RefusedInput(b, arg) /\ arg.via = "host" /\ ~Fits(b, arg)
       /\ Allocate(b)
       /\ context' = Bound(b, Shaped(b, arg))
    /\ Fail
    /\ UNCHANGED <<engine, stream, memory, result, wild>>

(* No memory; or no copy, after the allocation.                              *)
HostInputFails ==
    /\ call.at = "inputs"
    /\ LET b == Binding  arg == call.args[b] IN
       /\ ~RefusedInput(b, arg) /\ arg.via = "host"
       /\ \/ b \notin cuda /\ cuda' = cuda /\ context' = Shaped(b, arg)
          \/ Fits(b, arg) /\ Allocate(b) /\ context' = Bound(b, Shaped(b, arg))
    /\ Fail
    /\ UNCHANGED <<engine, stream, memory, result, wild>>

BindOutput ==
    /\ call.at = "outputs"
    /\ IF Binding \in call.presets
       THEN UNCHANGED cuda /\ context' = [context EXCEPT !.address[Binding] = call.n]
       ELSE Allocate(Binding) /\ context' = Bound(Binding, context)
    /\ call' = NextTensor
    /\ UNCHANGED <<engine, stream, memory, result, answer, late, wild>>

BindOutputFails ==
    /\ call.at = "outputs" /\ Binding \notin call.presets \cup cuda
    /\ Fail
    /\ UNCHANGED <<engine, cuda, context, stream, memory, result, wild>>

Enqueue ==
    /\ call.at = "enqueue"
    /\ stream' = Append(stream, [op |-> "run", address |-> context.address, shape |-> context.shape])
    /\ call' = [call EXCEPT !.at = "download"]
    /\ UNCHANGED <<engine, cuda, context, memory, result, answer, late, wild>>

EnqueueFails ==
    /\ call.at = "enqueue"
    /\ Fail
    /\ UNCHANGED <<engine, cuda, context, stream, memory, result, wild>>

Download ==
    /\ call.at = "download"
    /\ stream' = IF Binding \in call.presets THEN stream
                 ELSE Append(stream, [op |-> "download", tensor |-> Binding, n |-> call.n])
    /\ call' = NextTensor
    /\ UNCHANGED <<engine, cuda, context, memory, result, answer, late, wild>>

DownloadFails ==
    /\ call.at = "download" /\ Binding \notin call.presets
    /\ Fail
    /\ UNCHANGED <<engine, cuda, context, stream, memory, result, wild>>

(* What the caller's outputs hold then: what was downloaded, and what is in  *)
(* the caller's own buffers.                                                 *)
Materialized ==
    [o \in Outputs |-> IF o \in call.presets THEN memory.caller[o] ELSE result[o]]

Succeed ==
    /\ call' = Idle(call.n)
    /\ answer' = [ok |-> TRUE, n |-> call.n, got |-> Materialized]
    /\ UNCHANGED late

Synchronize_Never ==
    /\ call.at = "synchronize"
    /\ Succeed
    /\ UNCHANGED <<engine, cuda, context, stream, memory, result, wild>>

Synchronize_AwaitsEveryOutput ==
    /\ call.at = "synchronize"
    /\ stream = <<>> /\ \A o \in Outputs : result[o] # Garbage
    /\ Succeed
    /\ UNCHANGED <<engine, cuda, context, stream, memory, result, wild>>

Synchronize ==
    /\ call.at = "synchronize"
    /\ stream = <<>>
    /\ Succeed
    /\ UNCHANGED <<engine, cuda, context, stream, memory, result, wild>>

SynchronizeFails ==
    /\ call.at = "synchronize"
    /\ Fail
    /\ UNCHANGED <<engine, cuda, context, stream, memory, result, wild>>

-----------------------------------------------------------------------------
(* The device: the stream's work in its order.  A vector of call n is there  *)
(* while the call runs; the caller's inputs and the downloads of a call that *)
(* failed are freed when it returns.                                         *)
Running(n) == call.at # "idle" /\ call.n = n

Uploaded(b, n) == [memory EXCEPT !.staging[b] = IF Running(n) THEN n ELSE Garbage]

ReadBy(run) == {IF run.address[i] = Staging THEN memory.staging[i] ELSE run.address[i] : i \in Inputs}
Computed(run) == IF \E n \in ReadBy(run) : ReadBy(run) = {n}
                 THEN CHOOSE n \in ReadBy(run) : TRUE ELSE Garbage

Executed(run) ==
    [staging |-> [b \in Tensors |-> IF b \in Outputs /\ run.address[b] = Staging
                                    THEN Computed(run) ELSE memory.staging[b]],
     caller |-> [o \in Outputs |-> IF run.address[o] = call.n /\ call.n > 0 THEN Computed(run)
                                   ELSE memory.caller[o]]]

Device ==
    /\ stream # <<>> /\ stream' = Tail(stream)
    /\ LET w == Head(stream) IN
       \/ /\ w.op = "upload" /\ memory' = Uploaded(w.tensor, w.n)
          /\ UNCHANGED <<result, wild>>
       \/ /\ w.op = "run" /\ memory' = Executed(w)
          /\ UNCHANGED <<result, wild>>
       \/ /\ w.op = "download"
          /\ IF Running(w.n)
             THEN result' = [result EXCEPT ![w.tensor] = memory.staging[w.tensor]] /\ UNCHANGED wild
             ELSE wild' = TRUE /\ UNCHANGED result
          /\ UNCHANGED memory
    /\ UNCHANGED <<engine, cuda, context, call, answer, late>>

(* sam3_trt_engine_free. Freeing waits for the device.                       *)
Released_StagingOnly == cuda \cap {"stream"}
Released == {}
Free ==
    /\ engine = "ready" /\ call.at = "idle" /\ stream = <<>>
    /\ engine' = "freed" /\ cuda' = Released
    /\ UNCHANGED <<context, stream, memory, call, result, answer, late, wild>>

-----------------------------------------------------------------------------
(* What a call does, and the ways CUDA or TensorRT may fail it.              *)
Step ==
    \/ InputRefused \/ DeviceInput \/ HostInput \/ HostInputMisfits
    \/ BindOutput \/ Enqueue \/ Download \/ Synchronize
Failure ==
    \/ ShapeRejected \/ HostInputFails \/ BindOutputFails \/ EnqueueFails
    \/ DownloadFails \/ SynchronizeFails

RunInit ==
    /\ engine = "none" /\ cuda = {} /\ stream = <<>>
    /\ context = [address |-> [b \in Tensors |-> Staging], shape |-> [b \in Dynamic |-> 0]]
    /\ memory = [staging |-> [b \in Tensors |-> Garbage],
                 caller |-> NoOutputs]
    /\ call = Idle(0) /\ result = NoOutputs
    /\ answer = [ok |-> FALSE, n |-> 0, got |-> NoOutputs]
    /\ late = FALSE /\ wild = FALSE
RunNext == Create \/ Call \/ Step \/ Failure \/ Device \/ Free

(* The call runs on, failing or not, and the device works its stream off.    *)
RunSpec == RunInit /\ [][RunNext]_runVars /\ WF_runVars(Step) /\ WF_runVars(Device)

-----------------------------------------------------------------------------
(* Every variable keeps its type.                                            *)
Work == [op : {"upload", "download"}, tensor : Tensors, n : 1 .. MaxCalls]
        \cup [op : {"run"}, address : [Tensors -> 0 .. MaxCalls], shape : [Dynamic -> Nat]]
ACall ==
    [at : {"idle", "inputs", "outputs", "enqueue", "download", "synchronize"}, n : 0 .. MaxCalls,
     k : Nat \ {0}, args : [Inputs -> Argument], presets : SUBSET Outputs]
RunTypeOK ==
    /\ engine \in {"none", "ready", "refused", "freed"}
    /\ cuda \subseteq Tensors \cup {"stream"}
    /\ context \in [address : [Tensors -> 0 .. MaxCalls], shape : [Dynamic -> Nat]]
    /\ stream \in Seq(Work)
    /\ memory \in [staging : [Tensors -> 0 .. MaxCalls],
                   caller : [Outputs -> 0 .. MaxCalls]]
    /\ call \in ACall
    /\ result \in [Outputs -> 0 .. MaxCalls]
    /\ answer \in [ok : BOOLEAN, n : 0 .. MaxCalls, got : [Outputs -> 0 .. MaxCalls]]
    /\ late \in BOOLEAN /\ wild \in BOOLEAN

(* A call that returns true has every output, in its vectors and in the      *)
(* caller's own buffers, computed from the inputs of that call and no other, *)
(* whatever earlier calls left queued, bound or staged when they failed:     *)
(* "every output must be materialized before returning".                     *)
OutputsOfThisCall ==
    answer.ok => \A o \in Outputs : answer.got[o] = answer.n

(* What runs is what this call bound: an input or output keeps no address    *)
(* and no shape from an earlier call, though the context remembers both.     *)
EnqueueSeesThisCall ==
    [][Enqueue =>
         /\ \A i \in Inputs : context.address[i] = IF call.args[i].via = "device" THEN call.n ELSE Staging
         /\ \A o \in Outputs : context.address[o] = IF o \in call.presets THEN call.n ELSE Staging
         /\ \A d \in Dynamic : context.shape[d] = call.args[d].size]_runVars

(* Staging that the device is about to use is allocated, and it was freed    *)
(* with the stream, or leaked only by a creation that failed.                *)
StagingLives ==
    /\ \A i \in 1 .. Len(stream) :
          /\ stream[i].op \in {"upload", "download"} => stream[i].tensor \in cuda
          /\ stream[i].op = "run" =>
                \A b \in Tensors : stream[i].address[b] = Staging => b \in cuda
    /\ engine = "freed" => cuda = {} /\ stream = <<>>
    /\ stream # <<>> => "stream" \in cuda

(* The device writes to host memory that was freed only after a call failed  *)
(* between its first download and the end of its synchronization             *)
(* (trt_runtime.cpp:242): no other failure leaves a download behind.         *)
WildWritesHaveCause == wild => late

(* Every call returns, also one that waits for what failed calls queued.     *)
CallsReturn == call.at = "inputs" ~> call.at = "idle"
=============================================================================
