----------------------------- MODULE MCPeftMemory -----------------------------
(* Instances of PeftMemory for TLC. *)
EXTENDS PeftMemory

\* Per device: the arena, the adapters that are trained, with momentum, and the
\* layers whose input is replicated.  The sizes of A and B differ.
Device(space, trainable, momentum, replicated) ==
    [peft_weight_reserve_space_size |-> space,
     peft_activation_reserve_space_size |-> 12,
     trainable |-> trainable, momentum |-> momentum, replicated |-> replicated,
     w0_size |-> [a \in Adapters |-> 2], w1_size |-> [a \in Adapters |-> 1],
     activation_size |-> [b \in Buffers |-> [len \in Lengths |->
                             IF b = "softmax" THEN len * len ELSE len]]]

MCConfigs ==
    { Device(space, trainable, momentum, replicated) :
        space \in {12, 18, 19, 24, 25, 40},
        trainable \in SUBSET Adapters,
        momentum \in {{}, Adapters},
        replicated \in SUBSET Layers }

=============================================================================
