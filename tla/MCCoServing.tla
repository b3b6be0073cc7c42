----------------------------- MODULE MCCoServing -----------------------------
(***************************************************************************)
(* Instances of CoServing for TLC.                                         *)
(***************************************************************************)
EXTENDS CoServing, TLC

CONSTANTS t1, t2

P(size, eos, limit) == [size |-> size, eos |-> eos, max_sequence_length |-> limit]

F(dataset, gas, steps) ==
    [dataset |-> dataset, gradient_accumulation_steps |-> gas,
     max_training_steps |-> steps]

short == P(1, FALSE, 3)
long  == P(4, FALSE, 5)
tune  == F(<< 1, 2 >>, 1, 2)

MCPrompts     == {short, long}
MCFinetunings == {tune}

\* A call with prompts, one of which is longer than a batch, then a call with
\* finetuning requests only.
InTurn == t1 :> << << short, long >>, << tune, tune >> >> @@ t2 :> << >>

\* Two threads with inference requests.
TwoClients == t1 :> << << short, long >> >> @@ t2 :> << << short >> >>

MCWorkloads == {InTurn, TwoClients}

\* One call with an inference request and two finetuning requests.
MixedWorkload == {t1 :> << << short, tune, tune >> >> @@ t2 :> << >>}
=============================================================================
