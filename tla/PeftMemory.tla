------------------------------ MODULE PeftMemory ------------------------------
(***************************************************************************)
(* The two arenas that a device keeps for finetuning.                      *)
(*                                                                         *)
(* Weights (PEFTWeightAllocator): LoraLinear::init_task takes, per layer   *)
(* and adapter, the weights A and B from one end (local), and for an       *)
(* adapter that is trained, the gradients and the momentum of A and B,     *)
(* those that the shards must sum from the other end (sync).  What is      *)
(* synchronised of an adapter is one range: get_sync_weights_ptr_and_size. *)
(*                                                                         *)
(* Activations (MemoryAllocator): an operator takes a buffer when it first *)
(* saves an activation for the backward pass, and another one when a       *)
(* request with a longer max_sequence_length comes; none is given back.    *)
(***************************************************************************)
EXTENDS Integers, Sequences, FiniteSets, Functions

CONSTANTS
    Layers,             \* LoraLinear operators of the device
    Adapters,           \* PEFTModelID: the keys of peft_configs
    Buffers,            \* activation buffers of the operators
    Lengths,            \* max_sequence_length of the requests
    Configs             \* what a device may be set up with

MemoryAssumption ==
    /\ IsFiniteSet(Layers) /\ IsFiniteSet(Adapters)
    /\ Lengths \subseteq Nat
    /\ \A c \in Configs :
          /\ c.peft_weight_reserve_space_size \in Nat \ {0}
          /\ c.peft_activation_reserve_space_size \in Nat
          /\ c.trainable \subseteq Adapters /\ c.momentum \subseteq Adapters
          /\ c.replicated \subseteq Layers
          /\ c.w0_size \in [Adapters -> Nat \ {0}]
          /\ c.w1_size \in [Adapters -> Nat \ {0}]
          /\ c.activation_size \in [Buffers -> [Lengths -> Nat \ {0}]]

ASSUME MemoryAssumption

VARIABLES
    config,
    pending,            \* <<layer, adapter>> whose weights are not allocated
    work,               \* allocations that the running init task still makes
    sync_offset, local_offset,
    sync_weights,       \* per adapter, its range; the adapters it is set for
    weights,            \* the pointers of model_state
    instance_allocated_size,
    buffer,             \* per activation buffer, its place; size 0 before
    aborted             \* an assertion has failed

weightVars == << pending, work, sync_offset, local_offset, sync_weights, weights >>
activationVars == << instance_allocated_size, buffer >>
vars == << config, weightVars, activationVars, aborted >>

WeightSpace == config.peft_weight_reserve_space_size

Parts == {"w0", "w1", "w0_grad", "w1_grad", "w0_v_values", "w1_v_values"}

Init ==
    /\ config \in Configs
    /\ pending = Layers \X Adapters
    /\ work = <<>>
    /\ sync_offset = 0
    /\ local_offset = WeightSpace
    /\ sync_weights = [a \in {} |-> [offset |-> 0, size |-> 0]]
    /\ weights = {}
    /\ instance_allocated_size = 0
    /\ buffer = [b \in Buffers |-> [offset |-> 0, size |-> 0]]
    /\ aborted = FALSE

\* What init_task allocates for an adapter.  If the input is replicated, it is
\* the gradient of A that is summed over the shards, else that of B.
Allocations(l, a) ==
    LET Alloc(part, sync, size) ==
            [layer |-> l, adapter |-> a, part |-> part, sync |-> sync,
             size |-> size]
        w0 == config.w0_size[a]
        w1 == config.w1_size[a]
        replicated == l \in config.replicated
    IN  << Alloc("w0", FALSE, w0), Alloc("w1", FALSE, w1) >>
        \o (IF a \in config.trainable
            THEN << Alloc("w0_grad", replicated, w0),
                    Alloc("w1_grad", ~replicated, w1) >> ELSE <<>>)
        \o (IF a \in config.trainable \cap config.momentum
            THEN << Alloc("w0_v_values", replicated, w0),
                    Alloc("w1_v_values", ~replicated, w1) >> ELSE <<>>)

\* The next adapter of an init task.  The device runs one task after another, in
\* any order of the layers; the order of the adapters is that of a hash table.
BeginAdapter(l, a) ==
    /\ work = <<>> /\ ~aborted
    /\ << l, a >> \in pending
    /\ \A m \in Layers \ {l} :
          \/ \A b \in Adapters : << m, b >> \in pending
          \/ \A b \in Adapters : << m, b >> \notin pending
    /\ pending' = pending \ {<< l, a >>}
    /\ work' = Allocations(l, a)
    /\ UNCHANGED << config, sync_offset, local_offset, sync_weights, weights,
                    activationVars, aborted >>

\* Where an allocation ends up.
Block(r, offset) ==
    [layer |-> r.layer, adapter |-> r.adapter, part |-> r.part,
     sync |-> r.sync, offset |-> offset, size |-> r.size]

\* Mutants: the assertion compiled out; made of the start of the arena, not of the
\* other end; made with the size counted twice.
LocalFits_Unchecked(r) == TRUE
LocalFits_FromBase(r) == 0 < local_offset - r.size
LocalFits_Twice(r) == sync_offset < local_offset - 2 * r.size

\* allocate_local_weights_untyped, and its assertion.
LocalFits(r) == sync_offset < local_offset - r.size
AllocateLocal ==
    /\ work # <<>> /\ ~aborted
    /\ LET r == Head(work)
       IN  /\ ~r.sync /\ LocalFits(r)
           /\ local_offset' = local_offset - r.size
           /\ weights' = weights \cup {Block(r, local_offset')}
    /\ work' = Tail(work)
    /\ UNCHANGED << config, pending, sync_offset, sync_weights, activationVars,
                    aborted >>

\* Mutant: the assertion compiled out.
Consecutive_Unchecked(a) == TRUE

\* allocate_sync_weights_untyped, and its two assertions.
Consecutive(a) ==
    a \in DOMAIN sync_weights =>
        sync_offset = sync_weights[a].offset + sync_weights[a].size
SyncFits(r) == sync_offset + r.size < local_offset
SyncRange(r) ==
    IF r.adapter \in DOMAIN sync_weights
    THEN [offset |-> sync_weights[r.adapter].offset,
          size |-> sync_weights[r.adapter].size + r.size]
    ELSE [offset |-> sync_offset, size |-> r.size]
AllocateSync ==
    /\ work # <<>> /\ ~aborted
    /\ LET r == Head(work)
       IN  /\ r.sync /\ Consecutive(r.adapter) /\ SyncFits(r)
           /\ sync_offset' = sync_offset + r.size
           /\ sync_weights' =
                 [a \in DOMAIN sync_weights \cup {r.adapter} |->
                     IF a = r.adapter THEN SyncRange(r) ELSE sync_weights[a]]
           /\ weights' = weights \cup {Block(r, sync_offset)}
    /\ work' = Tail(work)
    /\ UNCHANGED << config, pending, local_offset, activationVars, aborted >>

WeightAssertionFails ==
    /\ work # <<>> /\ ~aborted
    /\ LET r == Head(work)
       IN  IF r.sync THEN ~(Consecutive(r.adapter) /\ SyncFits(r))
           ELSE ~LocalFits(r)
    /\ aborted' = TRUE
    /\ UNCHANGED << config, weightVars, activationVars >>

(***************************************************************************)
(* Activations: the inference task of an operator whose batch holds a      *)
(* finetuning row, once all init tasks have run.                           *)
(***************************************************************************)
Initialised == pending = {} /\ work = <<>> /\ ~aborted

Needed(b, len) == config.activation_size[b][len]
ActivationFits(b, len) ==
    instance_allocated_size + Needed(b, len)
        <= config.peft_activation_reserve_space_size

\* Mutant: the buffer grows where it is.
Grown_InPlace(b, len) ==
    [offset |-> IF buffer[b].size = 0 THEN instance_allocated_size
                ELSE buffer[b].offset, size |-> Needed(b, len)]

\* The buffer of an operator after it has saved an activation.
Grown(b, len) == [offset |-> instance_allocated_size, size |-> Needed(b, len)]

SaveActivation(b, len) ==
    /\ Initialised
    /\ Needed(b, len) > buffer[b].size
    /\ ActivationFits(b, len)
    /\ buffer' = [buffer EXCEPT ![b] = Grown(b, len)]
    /\ instance_allocated_size' = instance_allocated_size + Needed(b, len)
    /\ UNCHANGED << config, weightVars, aborted >>

ActivationAssertionFails(b, len) ==
    /\ Initialised
    /\ Needed(b, len) > buffer[b].size
    /\ ~ActivationFits(b, len)
    /\ aborted' = TRUE
    /\ UNCHANGED << config, weightVars, activationVars >>

Next ==
    \/ \E l \in Layers, a \in Adapters : BeginAdapter(l, a)
    \/ AllocateLocal
    \/ AllocateSync
    \/ WeightAssertionFails
    \/ \E b \in Buffers, len \in Lengths :
          SaveActivation(b, len) \/ ActivationAssertionFails(b, len)

Spec == Init /\ [][Next]_vars

-----------------------------------------------------------------------------
(***************************************************************************)
(* Properties                                                              *)
(***************************************************************************)

Bytes(offset, size) == offset .. offset + size - 1
Cells(b) == Bytes(b.offset, b.size)

Place == [offset : Nat, size : Nat]
Request == [layer : Layers, adapter : Adapters, part : Parts, sync : BOOLEAN,
            size : Nat \ {0}]
WeightBlock == [layer : Layers, adapter : Adapters, part : Parts,
                sync : BOOLEAN, offset : Nat, size : Nat \ {0}]

\* Types of the state.
MemoryTypeOK ==
    /\ config \in Configs
    /\ pending \subseteq Layers \X Adapters
    /\ work \in Seq(Request)
    /\ sync_offset \in Nat
    /\ local_offset \in Nat
    /\ DOMAIN sync_weights \subseteq Adapters
    /\ \A a \in DOMAIN sync_weights : sync_weights[a] \in Place
    /\ weights \subseteq WeightBlock
    /\ instance_allocated_size \in Nat
    /\ buffer \in [Buffers -> Place]
    /\ aborted \in BOOLEAN

\* The two ends never meet: no two weights, gradients or momentum values share
\* a byte, and all are inside the arena, although one lock per allocation is all
\* that the layers' tasks and the adapters have in common.
WeightsDisjoint ==
    /\ \A b \in weights : Cells(b) \subseteq Bytes(0, WeightSpace)
    /\ \A b, c \in weights : b # c => Cells(b) \cap Cells(c) = {}

\* What get_sync_weights_ptr_and_size returns for an adapter is all of what its
\* layers synchronise, and nothing else.
SyncRangeIsTheAdapters ==
    \A a \in DOMAIN sync_weights :
        Cells(sync_weights[a])
            = UNION {Cells(b) : b \in {w \in weights : w.sync /\ w.adapter = a}}

\* An operator's activation buffer is inside the arena and no other operator's,
\* whatever the order in which requests of different lengths made them grow.
ActivationsDisjoint ==
    /\ \A b \in Buffers :
          Cells(buffer[b]) \subseteq Bytes(0, instance_allocated_size)
    /\ instance_allocated_size <= config.peft_activation_reserve_space_size
    /\ \A b, c \in Buffers :
          b # c => Cells(buffer[b]) \cap Cells(buffer[c]) = {}

\* The bytes that a layer needs for an adapter: A and B, and as much again for
\* their gradients, and for their momentum.
AdapterSize(a) ==
    LET both == config.w0_size[a] + config.w1_size[a]
    IN  both + (IF a \in config.trainable THEN both ELSE 0)
             + (IF a \in config.trainable \cap config.momentum THEN both ELSE 0)

\* The bytes that all layers and adapters need.
Sizes == [p \in Layers \X Adapters |-> AdapterSize(p[2])]
Demand == SumFunction(Sizes)

\* Start-up fails only for want of space: a device whose arena is larger than the
\* demand gets all its weights, in whatever order its tasks run.  "Assert that
\* sync weights for each PEFT model is consecutive" (peft_weight_allocator.h:35)
\* is what init_task, layer after layer, is said to give.
AbortsOnlyWhenFull == aborted /\ work # <<>> => Demand >= WeightSpace

\* The same for a device where one adapter at most is trained, or that has one
\* layer: there the consecutiveness that is asserted does hold.
AbortsOnlyWhenFullOrShared ==
    \/ Cardinality(config.trainable) > 1 /\ Cardinality(Layers) > 1
    \/ AbortsOnlyWhenFull

=============================================================================
