--------------------------- MODULE MCLoraTraining ---------------------------
(***************************************************************************)
(* Instances of LoraTraining for TLC.                                      *)
(***************************************************************************)
EXTENDS LoraTraining

\* A prompt of one token that decodes once.
MCPrompts == {[size |-> 1, eos |-> FALSE, max_sequence_length |-> 3]}

\* Two entries, of two and of three tokens; the weights are updated every other
\* step.
MCFinetunings == {[dataset |-> << 2, 3 >>, gradient_accumulation_steps |-> 2,
                   max_training_steps |-> 4]}

\* The hypotheses of the theorem EntriesAlwaysWhole, of these prompts and entries.
ASSUME InstanceFits == /\ \A p \in Prompts : Bos + p.size > 0
                       /\ EntriesFit(1)
=============================================================================
