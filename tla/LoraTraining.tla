---------------------------- MODULE LoraTraining ----------------------------
(***************************************************************************)
(* The training of a LoRA layer on the finetuning rows that the request    *)
(* manager schedules: the forward pass saves the activations of the row's  *)
(* tokens in buffers of the layer, the backward pass computes gradients    *)
(* from them, and updates and saves the weights as the optimizer tasks of  *)
(* the batch say.  All finetuning requests train the same adapter.         *)
(*                                                                         *)
(* The serving loop launches the backward pass of a batch and does not     *)
(* wait for it.  Legion orders tasks by the regions they use, and the      *)
(* buffers are in no region: only when the layer is fused with the last    *)
(* softmax, whose forward pass writes the gradient the backward pass       *)
(* reads, does the next forward pass of the layer wait for it.             *)
(***************************************************************************)
EXTENDS RequestManager

CONSTANTS Fused,        \* one FusedOp holds the layer and the last softmax
          MaxBackward   \* bound: backward passes outstanding at a time

ASSUME TrainingAssumption == Fused \in BOOLEAN /\ MaxBackward \in Nat \ {0}

VARIABLES
    activation,   \* per row of the layer's activation buffers, its token
    output_grad,  \* per row of the gradients the logits' linear layer writes,
                  \* its token
    backward,     \* the backward passes launched that have not run, in order
    gradient,     \* what the weight gradients have accumulated
    weights,      \* the gradients the weights were updated with, in order
    saved         \* per request, the updates in the weights it saved last

training == << activation, output_grad, backward, gradient, weights, saved >>
trainvars == << vars, training >>

\* A token of a training step.
Token == [request_guid : Guid, step : Nat, depth : Nat]
NoToken == [request_guid |-> NoGuid, step |-> 0, depth |-> 0]

\* The finetuning row of a batch and the training step it is for.
Chunk == [info : PerRequestInfo, step : Nat]

\* Mutation: tokens are counted from one.
ChunkToken_FromOne(c, j) ==
    [request_guid |-> c.info.request_guid, step |-> c.step,
     depth |-> c.info.first_token_depth_in_request + j - 1]

\* The j-th token of a chunk.
ChunkToken(c, j) ==
    [request_guid |-> c.info.request_guid, step |-> c.step,
     depth |-> c.info.first_token_depth_in_request + j]

TrainingInit ==
    /\ Init
    /\ activation = [s \in Slot |-> NoToken]
    /\ output_grad = [s \in Slot |-> NoToken]
    /\ backward = << >>
    /\ gradient = << >>
    /\ weights = << >>
    /\ saved = [g \in Guid |-> 0]

-----------------------------------------------------------------------------
\* The buffers after the activations of the chunk's tokens are copied to them.
SaveActivations(c) ==
    [s \in Slot |-> IF s < c.info.num_tokens_in_batch THEN ChunkToken(c, s)
                                                      ELSE activation[s]]

\* The forward pass: the model runs on the batch, and its backward pass is
\* launched.  A backward pass without finetuning tokens does nothing.
Launched ==
    IF PeftEnabled => old_bc.request_completed[PeftRow]
    THEN UNCHANGED << activation, backward >>
    ELSE LET info == old_bc.requestsInfo[PeftRow]
             c    == [info |-> info,
                      step |-> all_requests[info.request_guid].completed_training_steps]
         IN  /\ activation' = SaveActivations(c)
             /\ backward' = Append(backward, c)

\* Mutation: the fused operator does not write the gradient of the softmax.
Forward_Unordered ==
    /\ Inference
    /\ Len(backward) < MaxBackward
    /\ Launched
    /\ UNCHANGED << output_grad, gradient, weights, saved >>

Forward ==
    /\ Inference
    /\ Fused => backward = << >>
    /\ Len(backward) < MaxBackward
    /\ Launched
    /\ UNCHANGED << output_grad, gradient, weights, saved >>

\* The linear layer of the logits writes the gradients of the chunk's tokens
\* where they are in the batch.
GradientRows(c) ==
    LET first == c.info.first_token_offset_in_batch
    IN  [s \in Slot |->
            IF first <= s /\ s < first + c.info.num_tokens_in_batch
            THEN ChunkToken(c, s - first) ELSE output_grad[s]]

\* The gradient of the chunk: each of its tokens, with the activation and the
\* output gradient it is computed from.  The norm between the two layers, and
\* this layer, take the gradients from the first row on.
ChunkGradient(c) ==
    [j \in 1 .. c.info.num_tokens_in_batch |->
        [token |-> ChunkToken(c, j - 1), activation |-> activation[j - 1],
         output_grad |-> output_grad'[j - 1]]]

\* Mutation: the weights are saved before they are updated.
Backward_SavesFirst ==
    /\ backward # << >>
    /\ LET c     == Head(backward)
           tasks == c.info.optimizer_tasks
       IN  /\ c.info.first_token_depth_in_request = 0
           /\ output_grad' = GradientRows(c)
           /\ gradient' = (IF tasks.reset_gradients_to_zero THEN << >> ELSE gradient)
                             \o ChunkGradient(c)
           /\ weights' = IF tasks.update_weights THEN Append(weights, gradient')
                                                 ELSE weights
           /\ saved' = IF tasks.save_updated_weights
                       THEN [saved EXCEPT ![c.info.request_guid] = Len(weights)]
                       ELSE saved
    /\ backward' = Tail(backward)
    /\ UNCHANGED << vars, activation >>

\* The backward pass of the oldest batch.  Attention asserts that the tokens of
\* the chunk are all the tokens of the entry so far.
Backward ==
    /\ backward # << >>
    /\ LET c     == Head(backward)
           tasks == c.info.optimizer_tasks
       IN  /\ c.info.first_token_depth_in_request = 0
           /\ output_grad' = GradientRows(c)
           /\ gradient' = (IF tasks.reset_gradients_to_zero THEN << >> ELSE gradient)
                             \o ChunkGradient(c)
           /\ weights' = IF tasks.update_weights THEN Append(weights, gradient')
                                                 ELSE weights
           /\ saved' = IF tasks.save_updated_weights
                       THEN [saved EXCEPT ![c.info.request_guid] = Len(weights')]
                       ELSE saved
    /\ backward' = Tail(backward)
    /\ UNCHANGED << vars, activation >>

Serve == Forward \/ (PrepareNextBatch /\ UNCHANGED training)

TrainingNext == Serve \/ Backward \/ (Client /\ UNCHANGED training)

TrainingSpec == TrainingInit /\ [][TrainingNext]_trainvars

\* The serving loop runs on, and Legion runs every backward pass launched.
FairTraining ==
    /\ TrainingSpec
    /\ WF_trainvars(Serve)
    /\ WF_trainvars(Backward)

-----------------------------------------------------------------------------
\* Type invariant.
GradientRow == [token : Token, activation : Token \cup {NoToken},
                output_grad : Token \cup {NoToken}]

TrainingTypeOK ==
    /\ activation \in [Slot -> Token \cup {NoToken}]
    /\ output_grad \in [Slot -> Token \cup {NoToken}]
    /\ backward \in Seq(Chunk)
    /\ gradient \in Seq(GradientRow)
    /\ weights \in Seq(Seq(GradientRow))
    /\ saved \in [Guid -> Nat]

\* Those of the first n updates that were made for request g.
UpdatesOf(g, n) == {i \in 1 .. n : weights[i][1].token.request_guid = g}

\* The tokens of the training steps first .. last of request g, which finetunes f.
StepTokens(g, f, first, last) ==
    {t \in [request_guid : {g}, step : first .. last, depth : 0 .. MaxSeqLen] :
        t.depth < f.dataset[1 + (t.step % Len(f.dataset))]}

\* The tokens of the k-th group of gradient_accumulation_steps entries.
Window(g, k) ==
    LET f == all_requests[g].finetuning
        n == f.gradient_accumulation_steps
    IN  StepTokens(g, f, (k - 1) * n, k * n - 1)

\* "Update weights every gradient_accumulation_steps": the k-th update of a
\* request is made with the gradients of all tokens of its k-th group of
\* entries, each once, and of no other token, whatever requests and interrupted
\* requests came before.
UpdatesUseWindows ==
    \A i \in DOMAIN weights :
        LET g      == weights[i][1].token.request_guid
            window == Window(g, Cardinality(UpdatesOf(g, i)))
        IN  /\ Len(weights[i]) = Cardinality(window)
            /\ {weights[i][j].token : j \in DOMAIN weights[i]} = window

\* "Save updated weights only in the very last training step": the weights a
\* request saves contain all its updates, and it saves them only after its last
\* step.
SavedWeightsComplete ==
    \A g \in Guid : saved[g] > 0 =>
        LET f == all_requests[g].finetuning
        IN  Cardinality(UpdatesOf(g, saved[g]))
              = f.max_training_steps \div f.gradient_accumulation_steps

\* "Currently assume we are calculating gradients for all tokens of a request":
\* what it takes is that no finetuning row of a batch leaves tokens of its entry to
\* the next batch, whatever inference rows it shares the batch with.
EntriesWhole ==
    step # "schedule" /\ PeftEnabled /\ PeftRow \in ActiveRow(old_bc) =>
        EndDepth(old_bc, PeftRow)
            = EntrySize(all_requests[old_bc.requestsInfo[PeftRow].request_guid])

\* What keeps the entries whole: no prompt that is accepted is longer than L, and
\* every entry that is accepted fits in a batch with L tokens in every inference
\* row.
EntriesFit(L) ==
    /\ \A p \in Prompts : p.size < MaxSeqLen => Bos + p.size <= L
    /\ \A f \in Finetunings : \A e \in DOMAIN f.dataset :
          f.dataset[e] <= MaxSeqLen => f.dataset[e] + inference_batch_size * L <= MaxTokens

\* "Copy query to m->query_activation_buffer if we need to compute PEFT
\* backward": the backward pass of a batch uses the activations its own forward
\* pass saved.
OwnActivations ==
    \A j \in DOMAIN gradient : gradient[j].activation = gradient[j].token

\* "update input_grad_ptr and output_grad_ptr offset": the backward pass uses the
\* output gradients of the tokens it is for, which lie past the rows of the
\* inference tokens of the batch.
OwnOutputGradients ==
    \A j \in DOMAIN gradient : gradient[j].output_grad = gradient[j].token

\* Every request that has taken all its training steps gets its weights saved,
\* although its result is published before the last backward pass.
TrainedIsSaved ==
    \A g \in Guid :
        /\ IsFinetuning(g) /\ Completed(g)
        /\ all_requests[g].completed_training_steps
             = all_requests[g].finetuning.max_training_steps
        ~> saved[g] > 0
=============================================================================
