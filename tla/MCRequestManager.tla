-------------------------- MODULE MCRequestManager --------------------------
(***************************************************************************)
(* Instances of RequestManager for TLC.                                    *)
(***************************************************************************)
EXTENDS RequestRefinement

P(size, eos, limit) == [size |-> size, eos |-> eos, max_sequence_length |-> limit]

F(dataset, gas, steps) ==
    [dataset |-> dataset, gradient_accumulation_steps |-> gas,
     max_training_steps |-> steps]

\* A short prompt that decodes for a while, and one longer than a batch.
MCPrompts == {P(1, FALSE, 4), P(5, FALSE, 6)}

\* The same, a long prompt that ends in EOS, one that reaches its limit before
\* the model has seen it all, and one that is refused.
MCAllPrompts == MCPrompts \cup {P(5, TRUE, 6), P(4, FALSE, 2), P(6, FALSE, 6)}

\* A short prompt, and one that takes at least two batches with its BOS token.
MCPeftPrompts == {P(1, FALSE, 4), P(5, FALSE, 7)}

\* Two entries, of one and of two tokens; the weights are updated every other
\* step.
MCFinetunings == {F(<< 1, 2 >>, 2, 4)}

NoFinetunings == {}
=============================================================================
