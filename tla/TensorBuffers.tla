----------------------------- MODULE TensorBuffers -----------------------------
(***************************************************************************)
(* From the layers of a model to the buffers that its operators run on.    *)
(*                                                                         *)
(* The layers become operators (create_operators_from_layers), with those  *)
(* of tensor parallelism between them; these a graph, and the graph a list *)
(* of operators again: sorted once when the result of the search is        *)
(* serialised (graph_optimize_task), and once when it is turned back into  *)
(* operators (convert_graph_to_operators).                                 *)
(* InferenceManager then gives every tensor a buffer, reusing the buffers  *)
(* no later operator reads, decides which gradients an operator resets and *)
(* which it adds to, and fuses operators.  inference runs the operators in *)
(* order, peft_bwd in the reverse order.                                   *)
(*                                                                         *)
(* A buffer holds the name of the tensor written last, and, for the        *)
(* gradient, the set of the operator inputs whose gradients it sums.  Of   *)
(* the shards only the way a tensor is split is kept.  There is one        *)
(* data-parallel replica; OP_WEIGHT operators are left out.                *)
(***************************************************************************)
EXTENDS Integers, SequencesExt

CONSTANT Models         \* layers, parallelism, fusion, finetuning or not

\* What the builders of FFModel ensure of the layers of a model.  A layer has a
\* name of its own and an output, and only the input layers have no inputs; its
\* inputs are outputs of layers before it.  add_lora_layer adapts the output of a
\* dense layer that has no adapter yet, and gives the adapter the transformer layer
\* of that.
ModelAssumption ==
    \A m \in Models :
        /\ m.layers \in Seq(Range(m.layers))
        /\ \A i \in DOMAIN m.layers :
              LET l == m.layers[i]
                  OutputOf(t, k) == t \in { m.layers[k].name } \X DOMAIN m.layers[k].shapes
              IN  /\ \A k \in DOMAIN m.layers : m.layers[k].name = l.name => k = i
                  /\ l.shapes \in Seq(Range(l.shapes)) \ { <<>> }
                  /\ l.inputs \in Seq(Range(l.inputs))
                  /\ l.op_type # "INPUT" => l.inputs # <<>>
                  /\ \A j \in DOMAIN l.inputs : \E k \in 1 .. i - 1 : OutputOf(l.inputs[j], k)
                  /\ l.op_type = "LORA" =>
                        /\ Len(l.inputs) = 2 /\ Len(l.shapes) = 1
                        /\ \E k \in 1 .. i - 1 :
                              /\ OutputOf(l.inputs[2], k)
                              /\ m.layers[k].op_type = "LINEAR"
                              /\ m.layers[k].transformer_layer_id = l.transformer_layer_id
                        /\ \A k \in DOMAIN m.layers :
                              m.layers[k].op_type = "LORA" /\ m.layers[k].inputs[2] = l.inputs[2]
                                 => k = i

ASSUME ModelAssumption

VARIABLES
    model,
    phase,              \* what the program is doing
    op,                 \* the operators, by name
    parallel_tensor,    \* tensors_to_parallel_tensors
    before_allreduce,   \* op_before_allreduce_tensors_to_parallel_tensors
    queue, index,       \* a breadth-first pass over the graph
    serialized,         \* the operators in the order of the first pass
    operators,          \* in order, as groups: a fused operator is a group of several
    tensor_buffer,      \* per tensor that has one, its buffer
    machine_view,       \* per buffer, the pipeline stage it was created for
    reset_input_grads,
    at,                 \* the layer being created, the operator allocated or run
    data, grads         \* per buffer

createVars == << op, parallel_tensor, before_allreduce >>
graphVars == << queue, index, serialized >>
bufferVars == << tensor_buffer, machine_view >>
runVars == << at, data, grads >>
vars == << model, phase, createVars, graphVars, operators, bufferVars, reset_input_grads, runVars >>

-----------------------------------------------------------------------------
(* From layers to operators.  An input of a layer is <<layer, output>>, one *)
(* of an operator <<operator, output>>, where an operator is named by its   *)
(* layer and what it does for it.                                           *)

Layers == model.layers
TensorParallel == model.tensor_parallelism_degree > 1

\* The layers right before layer i are of these types, the nearest one first.
Preceded(i, types) ==
    i > Len(types) /\ \A k \in DOMAIN types : Layers[i - k].op_type = types[k]

is_mlp_block(i) ==
    \/ Preceded(i, << "RELU", "LINEAR" >>)
    \/ Preceded(i, << "LINEAR" >>) /\ Layers[i - 1].activation = "RELU"

Attentions == {"INC_MULTIHEAD_SELF_ATTENTION", "TREE_INC_MULTIHEAD_SELF_ATTENTION"}

need_to_add_allreduce(i) ==
    /\ TensorParallel
    /\ \/ Layers[i].op_type \in Attentions
       \/ /\ Layers[i].op_type = "LINEAR"
          /\ \/ is_mlp_block(i)
             \/ Preceded(i, << "GELU", "LINEAR" >>)
             \/ Preceded(i, << "EW_MUL", "EW_MUL", "SIGMOID", "LINEAR", "LINEAR" >>)
             \/ Preceded(i, << "SIGMOID_SILU_MULTI", "LINEAR", "LINEAR" >>)

need_to_add_parallel_identity(i) ==
    /\ TensorParallel
    /\ Layers[i].op_type \in {"RMS_NORM", "RESIDUAL_RMS_NORM", "LAYERNORM", "RESIDUAL_LAYERNORM"}
    /\ i \in 3 .. Len(Layers) - 1
    /\ Layers[i + 1].op_type \in
          Attentions \cup {"LINEAR", "SPEC_INC_MULTIHEAD_SELF_ATTENTION"}

need_to_add_combine(i) ==
    LET isArgMax(k) == Layers[k].op_type \in {"ARGMAX", "ARG_TOPK"}
    IN  /\ TensorParallel /\ Len(Layers) > 2
        /\ \/ i = Len(Layers) - 1 /\ Layers[i].op_type = "SOFTMAX" /\ isArgMax(i + 1)
           \/ i = Len(Layers) /\ isArgMax(i) /\ Layers[i - 1].op_type # "SOFTMAX"

\* How an output is split over the shards, from how the inputs are.  A partial
\* sum has the shape of a replicated tensor, and the code tells them apart
\* nowhere.  Linear swaps the degrees of the channel and the replica dimension.
Sharding(t) == op[t[1]].sharding[t[2]]
OutputSharding(type, inputs) ==
    IF ~TensorParallel \/ inputs = <<>> THEN "replicated"
    ELSE CASE type = "LINEAR" -> IF inputs[1] = "partitioned" THEN "partial" ELSE "partitioned"
           [] type \in Attentions -> "partial"
           [] type = "LORA" -> inputs[2]
           [] type = "ALLREDUCE" -> "replicated"
           [] type = "COMBINE" -> "combined"
           [] OTHER -> IF "partial" \in Range(inputs) THEN "partial" ELSE inputs[1]

\* The operator of layer i itself, over the given tensors.
LayerOperator(i, inputs, shardings) ==
    [name |-> << Layers[i].name, "op" >>, op_type |-> Layers[i].op_type,
     transformer_layer_id |-> Layers[i].transformer_layer_id,
     inputs |-> inputs, shapes |-> Layers[i].shapes,
     sharding |-> [k \in DOMAIN Layers[i].shapes |->
                      OutputSharding(Layers[i].op_type, shardings)]]

\* A parallel operator over output k of operator o, added for layer i.  It has no
\* layer of its own, and runs where the operator before it does.
ParallelOp(type, i, o, k) ==
    [name |-> << Layers[i].name, type >>, op_type |-> type,
     transformer_layer_id |-> o.transformer_layer_id,
     inputs |-> << << o.name, k >> >>, shapes |-> << o.shapes[k] >>,
     sharding |-> << OutputSharding(type, << o.sharding[k] >>) >>]

\* The operators of layer i: a Combine before its own, an AllReduce or a
\* ParallelIdentity behind the last output of it.
NewOperators(i) ==
    LET l == Layers[i]
        From(t) == IF l.op_type = "LORA" /\ t \in DOMAIN before_allreduce
                   THEN before_allreduce[t] ELSE parallel_tensor[t]
        inputs == [j \in DOMAIN l.inputs |-> From(l.inputs[j])]
        before == IF need_to_add_combine(i)
                  THEN << ParallelOp("COMBINE", i, op[inputs[1][1]], inputs[1][2]) >> ELSE <<>>
        own == IF before = <<>>
               THEN LayerOperator(i, inputs, [j \in DOMAIN inputs |-> Sharding(inputs[j])])
               ELSE LayerOperator(i, << << before[1].name, 1 >> >>, before[1].sharding)
        after == IF need_to_add_allreduce(i)
                 THEN << ParallelOp("ALLREDUCE", i, own, 1) >>
                 ELSE IF need_to_add_parallel_identity(i)
                 THEN << ParallelOp("PARALLEL_IDENTITY", i, own, Len(l.shapes)) >>
                 ELSE <<>>
    IN  before \o << own >> \o after

\* An adapter is moved before the AllReduce of its layer.
Pushed(new) ==
    LET groups == [k \in DOMAIN new |-> << new[k].name >>]
    IN  IF /\ Last(new).op_type = "LORA" /\ operators # <<>>
           /\ op[Last(operators)[1]].op_type = "ALLREDUCE"
        THEN InsertAt(operators, Len(operators), groups[1])
        ELSE operators \o groups

CreateOperator ==
    /\ phase = "create"
    /\ at <= Len(Layers)
    /\ LET l == Layers[at]
           new == NewOperators(at)
           outputs == { << l.name, k >> : k \in DOMAIN l.shapes }
           own == << l.name, "op" >>
           last == IF Last(new).name = own THEN << own, Len(l.shapes) >> ELSE << Last(new).name, 1 >>
       IN  /\ op' = [n \in DOMAIN op \cup { o.name : o \in Range(new) } |->
                        IF n \in DOMAIN op THEN op[n]
                        ELSE CHOOSE o \in Range(new) : o.name = n]
           /\ operators' = Pushed(new)
           /\ parallel_tensor' = [t \in DOMAIN parallel_tensor \cup outputs |->
                 IF t \notin outputs THEN parallel_tensor[t]
                 ELSE IF t[2] = Len(l.shapes) THEN last ELSE << own, t[2] >>]
           /\ before_allreduce' =
                 IF Last(new).op_type = "ALLREDUCE"
                 THEN [t \in DOMAIN before_allreduce \cup outputs |->
                          IF t \in outputs THEN << own, t[2] >> ELSE before_allreduce[t]]
                 ELSE before_allreduce
    /\ at' = at + 1
    /\ UNCHANGED << model, phase, graphVars, bufferVars, reset_input_grads, data, grads >>

-----------------------------------------------------------------------------
(* The operators.                                                          *)

Names == DOMAIN op
Position(seq, x) == CHOOSE i \in DOMAIN seq : seq[i] = x

Inputs(l) == op[l].inputs
Outputs(l) == { << l, i >> : i \in DOMAIN op[l].shapes }
Tensors == UNION { Outputs(l) : l \in Names }
Sources == { l \in Names : Inputs(l) = <<>> }
Flat == FlattenSeq(operators)

Shape(t) == << op[t[1]].shapes[t[2]],
               IF Sharding(t) = "partial" THEN "replicated" ELSE Sharding(t) >>

\* LoraLinear::map_output_tensors: the output is in the region of the second
\* input, that is of the output of the layer that it adapts.
InPlaceInput(l) == IF op[l].op_type = "LORA" THEN 2 ELSE 0
Region(t) == IF InPlaceInput(t[1]) = 0 THEN t ELSE Inputs(t[1])[InPlaceInput(t[1])]

IsResidualNorm(l) ==
    op[l].op_type \in {"RESIDUAL_RMS_NORM", "RESIDUAL_LAYERNORM",
                          "ADD_BIAS_RESIDUAL_LAYERNORM"}

\* Inputs are on the first stage.  A stage has the same number of layers.
Stage(l) ==
    IF op[l].op_type = "INPUT" THEN 0
    ELSE op[l].transformer_layer_id
           \div (model.last_transformer_layer_id \div model.pipeline_parallelism_degree + 1)

-----------------------------------------------------------------------------
(* Sorting the graph.                                                      *)

\* The inputs of the operators, each as an edge of the graph.
InEdges(m) == { << m, j >> : j \in DOMAIN Inputs(m) }
Edges == UNION { InEdges(m) : m \in Names }
OutEdges(n) == { e \in Edges : Inputs(e[1])[e[2]][1] = n }

\* The nodes whose last in-edge is the one from n.
BecomeReady(n) ==
    LET done == ToSet(SubSeq(queue, 1, index))
    IN  { e[1] : e \in OutEdges(n) } \cap
        { m \in Names \ ToSet(queue) :
            \A j \in DOMAIN Inputs(m) : Inputs(m)[j][1] \in done }

\* The edges of a node are a hash set.  One of two edges is iterated in the
\* reverse of the order they were inserted in; in what order a larger one is
\* depends on the hash values.  The edges are inserted node by node, in the
\* order of the operators and in that of the first pass.
InsertedOrder == IF phase = "serialize" THEN Flat ELSE serialized
Iterations(n) ==
    { s \in SetToSeqs(BecomeReady(n)) :
        Cardinality(OutEdges(n)) <= 2 =>
            \A i \in 1 .. Len(s) - 1 :
                Position(InsertedOrder, s[i]) > Position(InsertedOrder, s[i + 1]) }

OperatorsCreated ==
    /\ phase = "create"
    /\ at > Len(Layers)
    /\ phase' = "serialize"
    /\ queue' \in SetToSeqs(Sources)
    /\ at' = 1
    /\ parallel_tensor' = <<>> /\ before_allreduce' = <<>>
    /\ UNCHANGED << model, op, index, serialized, operators, bufferVars,
                    reset_input_grads, data, grads >>

Visit ==
    /\ phase \in {"serialize", "convert"}
    /\ index <= Len(queue)
    /\ \E s \in Iterations(queue[index]) : queue' = queue \o s
    /\ index' = index + 1
    /\ UNCHANGED << model, phase, createVars, serialized, operators, bufferVars,
                    reset_input_grads, runVars >>

Serialized ==
    /\ phase = "serialize"
    /\ index > Len(queue)
    /\ serialized' = queue
    /\ operators' = <<>>
    /\ queue' \in SetToSeqs(Sources)
    /\ index' = 1
    /\ phase' = "convert"
    /\ UNCHANGED << model, createVars, bufferVars, reset_input_grads, runVars >>

Converted ==
    /\ phase = "convert"
    /\ index > Len(queue)
    /\ operators' = [i \in DOMAIN queue |-> << queue[i] >>]
    /\ phase' = "allocate"
    /\ queue' = <<>> /\ index' = 1 /\ serialized' = <<>>
    /\ UNCHANGED << model, createVars, bufferVars, reset_input_grads, runVars >>

-----------------------------------------------------------------------------
(* Buffers.                                                                *)

Reads(l) == { Inputs(l)[j] : j \in DOMAIN Inputs(l) }
BuffersOf(ts) == { tensor_buffer[t] : t \in ts \cap DOMAIN tensor_buffer }

\* The tensors the output of operator l shares its region with.
SharesRegion(l, t) == { u \in Reads(l) : Region(u) = Region(t) }

\* Mutation: the pipeline stages are not compared.
Reusable_AnyStage(l, t) ==
    { tensor_buffer[u] : u \in { v \in DOMAIN tensor_buffer : Shape(v) = Shape(t) } }
        \ BuffersOf(Outputs(l) \cup UNION { Reads(Flat[i]) : i \in at .. Len(Flat) })

\* Mutation: only this operator and the next one are looked at.
Reusable_NextOnly(l, t) ==
    { tensor_buffer[u] : u \in { v \in DOMAIN tensor_buffer :
                                    /\ Shape(v) = Shape(t)
                                    /\ machine_view[tensor_buffer[v]] = Stage(l) } }
        \ BuffersOf(Outputs(l) \cup UNION { Reads(Flat[i]) : i \in (at .. at + 1) \cap DOMAIN Flat })

\* Mutation: the earlier outputs of the operator are not looked at.
Reusable_OutputsIgnored(l, t) ==
    { tensor_buffer[u] : u \in { v \in DOMAIN tensor_buffer :
                                    /\ Shape(v) = Shape(t)
                                    /\ machine_view[tensor_buffer[v]] = Stage(l) } }
        \ BuffersOf(UNION { Reads(Flat[i]) : i \in at .. Len(Flat) })

\* The buffers of the tensors of the same shape and stage that neither this
\* operator nor a later one uses.
Reusable(l, t) ==
    { tensor_buffer[u] : u \in { v \in DOMAIN tensor_buffer :
                                    /\ Shape(v) = Shape(t)
                                    /\ machine_view[tensor_buffer[v]] = Stage(l) } }
        \ BuffersOf(Outputs(l) \cup UNION { Reads(Flat[i]) : i \in at .. Len(Flat) })

UseBuffer(t, b) == tensor_buffer' = [u \in {t} \cup DOMAIN tensor_buffer |->
                                        IF u = t THEN b ELSE tensor_buffer[u]]
NextOutput(l) == << l, Cardinality(Outputs(l) \cap DOMAIN tensor_buffer) + 1 >>

\* One output of one operator.
AllocateOutput ==
    /\ phase = "allocate"
    /\ at <= Len(Flat)
    /\ LET l == Flat[at]  t == NextOutput(l)
       IN  /\ \/ /\ SharesRegion(l, t) # {}
                 /\ \E u \in SharesRegion(l, t) : UseBuffer(t, tensor_buffer[u])
                 /\ UNCHANGED machine_view
              \/ /\ SharesRegion(l, t) = {}
                 /\ \E b \in Reusable(l, t) : UseBuffer(t, b)
                 /\ UNCHANGED machine_view
              \/ /\ SharesRegion(l, t) = {} /\ Reusable(l, t) = {}
                 /\ UseBuffer(t, Len(machine_view) + 1)
                 /\ machine_view' = Append(machine_view, Stage(l))
           /\ at' = IF t[2] = Len(op[l].shapes) THEN at + 1 ELSE at
    /\ UNCHANGED << model, phase, createVars, graphVars, operators, reset_input_grads, data, grads >>

-----------------------------------------------------------------------------
(* Which gradients are reset.  The operators are gone through backwards.   *)

Seen(l, i) ==
    { Region(t) : t \in UNION { Reads(Flat[k]) : k \in Position(Flat, l) + 1 .. Len(Flat) } }
        \cup { Region(Inputs(l)[j]) : j \in 1 .. i - 1 }

\* Mutation: a residual norm treats its first input like any other operator.
ResetsInput_PlainNorm(l, i) == Region(Inputs(l)[i]) \notin Seen(l, i)

ResetsInput(l, i) ==
    /\ Region(Inputs(l)[i]) \notin Seen(l, i)
    /\ i = 1 /\ IsResidualNorm(l) => Region(<< l, 1 >>) \notin Seen(l, i)

\* What an earlier batch left in a buffer.
Stale == <<>>
Leftover(x) == [b \in DOMAIN machine_view |-> x]

CheckResets ==
    /\ phase = "allocate"
    /\ at > Len(Flat)
    /\ reset_input_grads' = [l \in Names |-> [i \in DOMAIN Inputs(l) |-> ResetsInput(l, i)]]
    /\ at' = 1
    /\ data' = Leftover(Stale) /\ grads' = Leftover({Stale})
    /\ phase' = IF model.perform_fusion THEN "fuse" ELSE "forward"
    /\ UNCHANGED << model, createVars, graphVars, operators, bufferVars >>

-----------------------------------------------------------------------------
(* FFModel::apply_fusion.  An operator joins the first one of its stage at *)
(* or after the last of its producers, one operator at a time.             *)

NeverFused(g) == op[g[1]].op_type \in {"INPUT", "COMBINE"}
Producers(g) == { t[1] : t \in UNION { Reads(l) : l \in ToSet(g) } } \ ToSet(g)
Start(l) ==
    Max({1} \cup { i \in 1 .. l - 1 :
                      ToSet(operators[i]) \cap Producers(operators[l]) # {} })
\* A machine view is the devices of a stage, or one of them for what is on one
\* shard: the output of Combine and what is computed from it.
MachineView(l) == << Stage(l), op[l].sharding[1] = "combined" >>
\* has_inplace_output is false of all operators here, an adapter included.
FusesWith(l) ==
    { i \in Start(l) .. l - 1 : /\ MachineView(operators[i][1]) = MachineView(operators[l][1])
                                /\ ~NeverFused(operators[i]) }
\* The last operator is never fused.
Fusable == { l \in 2 .. Len(operators) - 1 : ~NeverFused(operators[l]) /\ FusesWith(l) # {} }

ApplyFusion ==
    /\ phase = "fuse"
    /\ Fusable # {}
    /\ LET l == Min(Fusable)  i == Min(FusesWith(l))
       IN  operators' = RemoveAt([operators EXCEPT ![i] = @ \o operators[l]], l)
    /\ UNCHANGED << model, phase, createVars, graphVars, bufferVars, reset_input_grads, runVars >>

FusionEnds ==
    /\ phase = "fuse"
    /\ Fusable = {}
    /\ phase' = "forward"
    /\ UNCHANGED << model, createVars, graphVars, operators, bufferVars, reset_input_grads, runVars >>

-----------------------------------------------------------------------------
(* Running the operators.                                                  *)

Inference ==
    /\ phase = "forward"
    /\ at <= Len(Flat)
    /\ data' = [b \in DOMAIN data |->
                  LET written == { t \in Outputs(Flat[at]) : tensor_buffer[t] = b }
                  IN  IF written = {} THEN data[b] ELSE CHOOSE t \in written : TRUE]
    /\ at' = at + 1
    /\ UNCHANGED << model, phase, createVars, graphVars, operators, bufferVars, reset_input_grads, grads >>

\* The last operator, an ARGMAX, has no backward pass.
EndOfForward ==
    /\ phase = "forward"
    /\ at > Len(Flat)
    /\ phase' = IF model.finetune THEN "backward" ELSE "forward"
    /\ at' = IF model.finetune THEN Len(Flat) - 1 ELSE 1
    /\ data' = IF model.finetune THEN data ELSE Leftover(Stale)
    /\ UNCHANGED << model, createVars, graphVars, operators, bufferVars, reset_input_grads, grads >>

\* The inputs whose gradient the backward kernel of an operator writes.  That
\* of the second input of LORA is the gradient of its output, left as it is.
WritesGrad(l) ==
    CASE op[l].op_type \in {"INPUT", "EMBEDDING", "ARGMAX"} -> {}
      [] op[l].op_type = "LORA" -> {1}
      [] OTHER -> DOMAIN Inputs(l)

\* The outputs whose gradient it reads.  Only RESIDUAL_RMS_NORM passes on the
\* gradient of the sum, its first output, and writes rather than adds.  Of the
\* parallel operators, Combine always adds and the others always write.
PassesResidual(l) == op[l].op_type = "RESIDUAL_RMS_NORM"
ReadsGrad(l) ==
    CASE op[l].op_type \in {"INPUT", "EMBEDDING", "SOFTMAX", "ARGMAX"} -> {}
      [] PassesResidual(l) -> IF reset_input_grads[l][1] THEN {2} ELSE {1, 2}
      [] IsResidualNorm(l) /\ ~PassesResidual(l) -> {2}
      [] OTHER -> {1}

AddsTo(l, i) ==
    \/ op[l].op_type = "COMBINE"
    \/ /\ ~reset_input_grads[l][i]
       /\ op[l].op_type \notin {"ALLREDUCE", "PARALLEL_IDENTITY"}
       /\ ~(i = 1 /\ PassesResidual(l))
GradAfter(l, i) ==
    (IF AddsTo(l, i) THEN grads[tensor_buffer[Inputs(l)[i]]] ELSE {}) \cup {<< l, i >>}

PeftBwd ==
    /\ phase = "backward"
    /\ at >= 1
    /\ LET l == Flat[at]
       IN  grads' = [b \in DOMAIN grads |->
               LET written == { i \in WritesGrad(l) : tensor_buffer[Inputs(l)[i]] = b }
               IN  IF written = {} THEN grads[b]
                   ELSE UNION { GradAfter(l, i) : i \in written }]
    /\ at' = at - 1
    /\ UNCHANGED << model, phase, createVars, graphVars, operators, bufferVars, reset_input_grads, data >>

EndOfBackward ==
    /\ phase = "backward"
    /\ at = 0
    /\ phase' = "forward"
    /\ at' = 1
    /\ data' = Leftover(Stale) /\ grads' = Leftover({Stale})
    /\ UNCHANGED << model, createVars, graphVars, operators, bufferVars, reset_input_grads >>

Init ==
    /\ model \in Models
    /\ phase = "create"
    /\ op = <<>> /\ parallel_tensor = <<>> /\ before_allreduce = <<>>
    /\ queue = <<>> /\ index = 1
    /\ serialized = <<>> /\ operators = <<>>
    /\ tensor_buffer = [t \in {} |-> 0] /\ machine_view = <<>>
    /\ reset_input_grads = << >>
    /\ at = 1
    /\ data = <<>> /\ grads = <<>>

Next ==
    \/ CreateOperator \/ OperatorsCreated
    \/ Visit \/ Serialized \/ Converted
    \/ AllocateOutput \/ CheckResets
    \/ ApplyFusion \/ FusionEnds
    \/ Inference \/ EndOfForward
    \/ PeftBwd \/ EndOfBackward

Spec == Init /\ [][Next]_vars

-----------------------------------------------------------------------------
(* Properties.                                                             *)

\* The variables have their types, and every tensor allocated before the
\* operator at hand has a buffer of its stage.
BufferTypeOK ==
    /\ phase \in {"create", "serialize", "convert", "allocate", "fuse", "forward", "backward"}
    /\ Range(queue) \subseteq Names /\ IsInjective(queue)
    /\ Range(serialized) \subseteq Names /\ IsInjective(serialized)
    /\ Range(Flat) \subseteq Names /\ IsInjective(Flat)
    /\ phase \notin {"create", "convert"} => Range(Flat) = Names
    /\ DOMAIN tensor_buffer \subseteq Tensors
    /\ \A t \in DOMAIN tensor_buffer :
          /\ tensor_buffer[t] \in DOMAIN machine_view
          /\ machine_view[tensor_buffer[t]] = Stage(t[1])
    /\ phase \in {"fuse", "forward", "backward"} => DOMAIN tensor_buffer = Tensors

\* The adapters of the layer that a tensor comes from: they update it in place.
Adapters(t) == { l \in Names : InPlaceInput(l) # 0 /\ Inputs(l)[InPlaceInput(l)] = t }

\* An operator that runs finds in the buffer of every input the tensor of that
\* input, updated by its adapter: no tensor has been overwritten since, the
\* producer has run, also after fusion moved operators.  It is the sum over the
\* shards, but for an AllReduce and an adapter, which add to it (model.cc:
\* 3413-3441, inference_manager.cc:169-213, 419-464; add_lora_layer inserts an
\* adapter right after its layer).
ForwardReads ==
    phase = "forward" /\ at <= Len(Flat) =>
        LET l == Flat[at]
        IN  \A j \in DOMAIN Inputs(l) :
                LET t == Inputs(l)[j]
                    adapters == Adapters(t) \ {l}
                IN  /\ Sharding(t) = "partial" => op[l].op_type \in {"ALLREDUCE", "LORA"}
                    /\ data[tensor_buffer[t]] =
                           IF adapters = {} THEN t ELSE << CHOOSE a \in adapters : TRUE, 1 >>

\* The operator inputs whose gradients make up the gradient of a tensor.
Contributors(t) ==
    { c \in Edges :
        c[2] \in WritesGrad(c[1]) /\ Region(Inputs(c[1])[c[2]]) = Region(t) }

\* An operator that runs backwards reads the gradient of each of its outputs
\* that has one, when the buffer holds the sum over all the operators that use
\* that output, and nothing that is left from another tensor or another batch
\* (inference_manager.cc:257-282, 486-512).
BackwardReads ==
    phase = "backward" /\ at >= 1 =>
        LET l == Flat[at]
        IN  op[l].op_type \notin {"INPUT", "EMBEDDING"} =>
                \A t \in Outputs(l) :
                    IF t[2] \in ReadsGrad(l)
                    THEN /\ Contributors(t) # {}
                         /\ grads[tensor_buffer[t]] = Contributors(t)
                    ELSE Contributors(t) = {}

\* An operator never gets an output in the buffer of one of its inputs or of
\* another output, unless it works in place (inference_manager.cc:179-195).
OutputsApart ==
    \A t \in DOMAIN tensor_buffer :
        \A u \in (Outputs(t[1]) \cup Reads(t[1])) \ {t} :
            u \in DOMAIN tensor_buffer /\ Region(u) # Region(t) =>
                tensor_buffer[u] # tensor_buffer[t]

\* An adapter runs before the operators that read the layer it adapts, as where
\* create_operators_from_layers moves it before an AllReduce (model.cc:3626).
AdaptersBeforeReaders ==
    phase = "allocate" =>
        \A l \in Names : \A j \in DOMAIN Inputs(l) :
            \A a \in Adapters(Inputs(l)[j]) \ {l} : Position(Flat, a) < Position(Flat, l)

=============================================================================
