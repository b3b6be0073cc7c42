--------------------------- MODULE RequestManager ---------------------------
(***************************************************************************)
(* The request manager of FlexFlow Serve (src/src/runtime/                 *)
(* request_manager.cc) in incremental decoding with PEFT co-serving: the   *)
(* registration of inference and finetuning requests, and                  *)
(* prepare_next_batch, which turns the last batch and its inference result *)
(* into the next batch.                                                    *)
(*                                                                         *)
(* A client registers while the server holds no lock; prepare_next_batch   *)
(* holds request_queue_mutex from Append to SchedulePeft and is split at   *)
(* its loops, so that inference_finished, which no lock protects, may      *)
(* change between its two reads.  A failed assert stops the server: it is  *)
(* the guard of the action that reaches it.                                *)
(*                                                                         *)
(* Token values are abstracted to whether the last one is EOS, a dataset   *)
(* to the sizes of its entries, a published result to its length.          *)
(***************************************************************************)
EXTENDS Integers, Sequences, FiniteSets

CONSTANTS MaxRequests,     \* max_requests_per_batch()
          MaxTokens,       \* get_max_tokens_per_batch()
          MaxSeqLen,       \* get_max_sequence_length()
          PeftEnabled,     \* enable_peft_finetuning
          Bos,             \* 1 if a BOS token is put before every prompt, else 0
          NumGuids,        \* bound: registrations (a guid is a counter value)
          Prompts,         \* the inference requests clients submit
          Finetunings      \* the finetuning requests clients submit

inference_batch_size == IF PeftEnabled THEN MaxRequests - 1 ELSE MaxRequests

Row      == 0 .. MaxRequests - 1
InfrRow  == 0 .. inference_batch_size - 1
PeftRow  == inference_batch_size
Slot     == 0 .. MaxTokens - 1
Guid     == 1 .. NumGuids
NoGuid   == 0                     \* INVALID_GUID

\* An encoded prompt: its size, whether its last token is EOS, and the
\* max_sequence_length asked for.
Prompt == [size : Nat, eos : BOOLEAN, max_sequence_length : Nat]

\* A finetuning request: the sizes of its dataset entries (BOS included), and
\* its steps, with gradient_accumulation_steps = -1 replaced by dataset.size().
Finetuning == [dataset : Seq(Nat), gradient_accumulation_steps : Nat \ {0},
               max_training_steps : Nat \ {0}]

ASSUME ConstantsAssumption ==
    /\ MaxRequests \in Nat \ {0}
    /\ MaxTokens \in Nat \ {0}
    /\ MaxSeqLen \in Nat \ {0}
    /\ PeftEnabled \in BOOLEAN
    /\ Bos \in {0, 1}
    /\ NumGuids \in Nat
    /\ Prompts \subseteq Prompt
    /\ Finetunings \subseteq Finetuning
    \* get_num_ssms() = 0 and dataset.size() > 0, asserted at run time
    /\ \A f \in Finetunings : f.dataset # << >>

VARIABLES
    next_available_guid, all_requests,
    pending_infr_request_queue, pending_peft_request_queue,
    request_to_promise, request_generation_results, num_processed_requests,
    inference_finished,
    step,      \* where the server is: "inference", "result", or a loop of
               \* prepare_next_batch: "carry", "admit", "peft", "schedule"
    row,       \* the loop index i of prepare_next_batch
    old_bc,    \* the last batch
    new_bc,    \* the batch under construction
    result,    \* the slots of old_bc whose next token is EOS
    key_cache  \* per row, whose prefix the KV cache holds and how long it is

registry == << next_available_guid, all_requests, pending_infr_request_queue,
               pending_peft_request_queue >>
outcome  == << request_to_promise, request_generation_results,
               num_processed_requests >>
batch    == << step, row, old_bc, new_bc, result, key_cache >>
vars     == << registry, outcome, inference_finished, batch >>

-----------------------------------------------------------------------------
Smaller(a, b) == IF a <= b THEN a ELSE b

OptimizerTasks == [reset_gradients_to_zero : BOOLEAN, update_weights : BOOLEAN,
                   save_updated_weights : BOOLEAN]

NoOptimizerTasks == [reset_gradients_to_zero |-> FALSE, update_weights |-> FALSE,
                     save_updated_weights |-> FALSE]

\* Mutation: the gradients are reset one step late.
set_optimizer_tasks_ResetLate(max_training_steps, completed_training_steps, gas) ==
    [reset_gradients_to_zero |-> \/ completed_training_steps = 0
                                 \/ (completed_training_steps % gas) = 1,
     update_weights          |-> ((completed_training_steps + 1) % gas) = 0,
     save_updated_weights    |-> completed_training_steps = max_training_steps - 1]

\* Mutation: the weights are saved after a step that is never taken.
set_optimizer_tasks_SaveLate(max_training_steps, completed_training_steps, gas) ==
    [reset_gradients_to_zero |-> \/ completed_training_steps = 0
                                 \/ (completed_training_steps % gas) = 0,
     update_weights          |-> ((completed_training_steps + 1) % gas) = 0,
     save_updated_weights    |-> completed_training_steps = max_training_steps]

set_optimizer_tasks(max_training_steps, completed_training_steps, gas) ==
    [reset_gradients_to_zero |-> \/ completed_training_steps = 0
                                 \/ (completed_training_steps % gas) = 0,
     update_weights          |-> ((completed_training_steps + 1) % gas) = 0,
     save_updated_weights    |-> completed_training_steps = max_training_steps - 1]

PerRequestInfo ==
    [request_guid : Guid \cup {NoGuid},
     first_token_depth_in_request : Nat, first_token_offset_in_batch : Nat,
     num_tokens_in_batch : Int, max_sequence_length : Nat,
     prompt_phase : BOOLEAN, peft_bwd : BOOLEAN,
     optimizer_tasks : OptimizerTasks]

NoRequestInfo ==
    [request_guid |-> NoGuid,
     first_token_depth_in_request |-> 0, first_token_offset_in_batch |-> 0,
     num_tokens_in_batch |-> 0, max_sequence_length |-> 0,
     prompt_phase |-> FALSE, peft_bwd |-> FALSE,
     optimizer_tasks |-> NoOptimizerTasks]

\* BatchConfig.  batch_config_request_id is the compact list of the active
\* inference rows, of which num_active_req entries are filled.
BatchConfig ==
    [num_tokens : Nat, num_peft_tokens : Nat, num_generation_tokens : Nat,
     request_completed : [Row -> BOOLEAN], requestsInfo : [Row -> PerRequestInfo],
     tokensInfo : [Slot -> [request_index : Row, abs_depth_in_request : Nat]],
     num_active_req : Nat, batch_config_request_id : [Row -> Row]]

EmptyBatch ==
    [num_tokens |-> 0, num_peft_tokens |-> 0, num_generation_tokens |-> 0,
     request_completed |-> [r \in Row |-> TRUE],
     requestsInfo |-> [r \in Row |-> NoRequestInfo],
     tokensInfo |-> [s \in Slot |-> [request_index |-> 0,
                                     abs_depth_in_request |-> 0]],
     num_active_req |-> 0, batch_config_request_id |-> [r \in Row |-> 0]]

\* Mutation: the depths of a later chunk start at 0 again.
WriteTokens_FromZero(tokensInfo, num_tokens, r, info) ==
    [s \in Slot |->
        IF num_tokens <= s /\ s < num_tokens + info.num_tokens_in_batch
        THEN [request_index |-> r, abs_depth_in_request |-> s - num_tokens]
        ELSE tokensInfo[s]]

\* The loops that write tokensInfo[num_tokens++] for the tokens of row r.
WriteTokens(tokensInfo, num_tokens, r, info) ==
    [s \in Slot |->
        IF num_tokens <= s /\ s < num_tokens + info.num_tokens_in_batch
        THEN [request_index |-> r,
              abs_depth_in_request |->
                  info.first_token_depth_in_request + (s - num_tokens)]
        ELSE tokensInfo[s]]

Written(info) == IF info.num_tokens_in_batch > 0 THEN info.num_tokens_in_batch ELSE 0

\* Mutation: the info goes to the row's place in the compact list.
PutRow_InfoAtListIndex(bc, r, info, decoding) ==
    [bc EXCEPT
        !.request_completed[r] = FALSE,
        !.requestsInfo[bc.num_active_req] = info,
        !.num_active_req = @ + 1,
        !.batch_config_request_id[bc.num_active_req] = r,
        !.num_generation_tokens = IF decoding THEN @ + 1 ELSE @,
        !.tokensInfo = WriteTokens(@, bc.num_tokens, r, info),
        !.num_tokens = @ + Written(info)]

\* Mutation: the rows are packed, although their caches do not move.
PutRow_Packed(bc, r, info, decoding) ==
    LET k == bc.num_active_req
    IN  [bc EXCEPT
           !.request_completed[k] = FALSE,
           !.requestsInfo[k] = info,
           !.num_active_req = @ + 1,
           !.batch_config_request_id[k] = k,
           !.num_generation_tokens = IF decoding THEN @ + 1 ELSE @,
           !.tokensInfo = WriteTokens(@, bc.num_tokens, k, info),
           !.num_tokens = @ + Written(info)]

\* Put an inference row in the batch: its info, its entry in the compact list
\* and its tokens.
PutRow(bc, r, info, decoding) ==
    [bc EXCEPT
        !.request_completed[r] = FALSE,
        !.requestsInfo[r] = info,
        !.num_active_req = @ + 1,
        !.batch_config_request_id[bc.num_active_req] = r,
        !.num_generation_tokens = IF decoding THEN @ + 1 ELSE @,
        !.tokensInfo = WriteTokens(@, bc.num_tokens, r, info),
        !.num_tokens = @ + Written(info)]

\* Put the finetuning row in the batch.
PutPeftRow(bc, info) ==
    [bc EXCEPT
        !.request_completed[PeftRow] = FALSE,
        !.requestsInfo[PeftRow] = info,
        !.tokensInfo = WriteTokens(@, bc.num_tokens, PeftRow, info),
        !.num_tokens = @ + Written(info),
        !.num_peft_tokens = @ + Written(info)]

-----------------------------------------------------------------------------
\* The fields of Request that the properties tell apart; tokens is
\* tokens.size() and eos says whether tokens.back() is the EOS token.
Request ==
    [req_type : {"NONE", "REQ_INFERENCE", "REQ_FINETUNING"},
     status : {"PENDING", "COMPLETED"},
     tokens : Nat, initial_len : Nat, eos : BOOLEAN, max_sequence_length : Nat,
     finetuning : Finetunings \cup {<< >>},
     completed_training_steps : Nat, dataset_entry_processed_tokens : Nat,
     finetuning_losses : Nat]

NoRequest ==
    [req_type |-> "NONE", status |-> "PENDING",
     tokens |-> 0, initial_len |-> 0, eos |-> FALSE, max_sequence_length |-> 0,
     finetuning |-> << >>, completed_training_steps |-> 0,
     dataset_entry_processed_tokens |-> 0, finetuning_losses |-> 0]

IsFinetuning(g) == all_requests[g].req_type = "REQ_FINETUNING"
IsInference(g)  == all_requests[g].req_type = "REQ_INFERENCE"
Completed(g)    == all_requests[g].status = "COMPLETED"

\* The size of dataset entry completed_training_steps % dataset.size().
EntrySize(r) ==
    r.finetuning.dataset[1 + (r.completed_training_steps % Len(r.finetuning.dataset))]

Init ==
    /\ next_available_guid = 1
    /\ all_requests = [g \in Guid |-> NoRequest]
    /\ pending_infr_request_queue = << >>
    /\ pending_peft_request_queue = << >>
    /\ request_to_promise = [g \in Guid |-> "none"]
    /\ request_generation_results = [g \in Guid |-> 0]
    /\ num_processed_requests = 0
    /\ inference_finished = FALSE
    /\ step = "result"
    /\ row = 0
    /\ old_bc = EmptyBatch
    /\ new_bc = EmptyBatch
    /\ result = {}
    /\ key_cache = [r \in Row |-> [request_guid |-> NoGuid, depth |-> 0]]

-----------------------------------------------------------------------------
\* Registration, by any client thread.

\* request_queue_mutex is free.
LockFree == step \in {"inference", "result"}

\* The guid is consumed even when the request is refused.
Refuse ==
    /\ next_available_guid' = next_available_guid + 1
    /\ UNCHANGED << all_requests, pending_infr_request_queue,
                    pending_peft_request_queue, outcome, inference_finished,
                    batch >>

register_new_request(prompt) ==
    /\ LockFree
    /\ next_available_guid <= NumGuids
    /\ LET g == next_available_guid IN
       IF prompt.size >= MaxSeqLen
       THEN Refuse
       ELSE /\ next_available_guid' = g + 1
            /\ all_requests' = [all_requests EXCEPT ![g] =
                   [NoRequest EXCEPT !.req_type = "REQ_INFERENCE",
                                     !.tokens = Bos + prompt.size,
                                     !.initial_len = Bos + prompt.size,
                                     !.eos = prompt.eos,
                                     !.max_sequence_length = prompt.max_sequence_length]]
            /\ pending_infr_request_queue' = Append(pending_infr_request_queue, g)
            /\ request_to_promise' = [request_to_promise EXCEPT ![g] = "pending"]
            /\ request_generation_results' =
                   [request_generation_results EXCEPT ![g] = Bos + prompt.size]
            /\ UNCHANGED << pending_peft_request_queue, num_processed_requests,
                            inference_finished, batch >>

register_new_peft_request(f) ==
    /\ LockFree
    /\ PeftEnabled
    /\ next_available_guid <= NumGuids
    /\ LET g == next_available_guid IN
       IF \E e \in DOMAIN f.dataset : f.dataset[e] > MaxSeqLen
       THEN Refuse
       ELSE /\ f.gradient_accumulation_steps <= f.max_training_steps
            /\ next_available_guid' = g + 1
            /\ all_requests' = [all_requests EXCEPT ![g] =
                   [NoRequest EXCEPT !.req_type = "REQ_FINETUNING",
                                     !.finetuning = f]]
            /\ pending_peft_request_queue' = Append(pending_peft_request_queue, g)
            /\ request_to_promise' = [request_to_promise EXCEPT ![g] = "pending"]
            /\ UNCHANGED << pending_infr_request_queue, request_generation_results,
                            num_processed_requests, inference_finished, batch >>

\* FFModel::generate writes the flag with no lock held.
set_inference_finished(finished) ==
    /\ inference_finished' = finished
    /\ UNCHANGED << registry, outcome, batch >>

-----------------------------------------------------------------------------
\* The model run on the batch: it writes the keys of every token of the batch
\* in the cache of the token's row and yields one token per slot.

\* Slot s holds the last token of an inference request, so that the token the
\* model yields for it is appended to the request.
Yields(bc, s) ==
    LET t == bc.tokensInfo[s]
        g == bc.requestsInfo[t.request_index].request_guid
    IN  /\ s < bc.num_tokens
        /\ IsInference(g)
        /\ t.abs_depth_in_request + 1 >= all_requests[g].tokens

\* The prefix of the row's cache after num_tokens_in_batch tokens are written
\* from first_token_depth_in_request on.
CacheAfter(cache, info) ==
    LET first == info.first_token_depth_in_request
    IN  [request_guid |-> info.request_guid,
         depth |-> IF \/ first = 0
                      \/ /\ cache.request_guid = info.request_guid
                         /\ first <= cache.depth
                   THEN first + Written(info)
                   ELSE 0]

Inference ==
    /\ step = "inference"
    /\ \E eos \in SUBSET {s \in Slot : Yields(old_bc, s)} : result' = eos
    /\ key_cache' = [r \in Row |-> IF old_bc.request_completed[r]
                                   THEN key_cache[r]
                                   ELSE CacheAfter(key_cache[r], old_bc.requestsInfo[r])]
    /\ step' = "result"
    /\ UNCHANGED << registry, outcome, inference_finished, row, old_bc, new_bc >>

-----------------------------------------------------------------------------
\* prepare_next_batch.

\* Step 1: append the tokens the model yielded.
AppendTokens ==
    /\ step = "result"
    /\ \A s \in Slot : Yields(old_bc, s) =>
           LET t == old_bc.tokensInfo[s]
               g == old_bc.requestsInfo[t.request_index].request_guid
           IN  t.abs_depth_in_request + 1 = all_requests[g].tokens
    /\ LET SlotsOf(g) ==
               {s \in Slot : /\ Yields(old_bc, s)
                             /\ g = old_bc.requestsInfo[
                                      old_bc.tokensInfo[s].request_index].request_guid}
       IN  all_requests' =
             [g \in Guid |->
                IF SlotsOf(g) = {} THEN all_requests[g]
                ELSE [all_requests[g] EXCEPT !.tokens = @ + 1,
                                             !.eos = SlotsOf(g) \subseteq result]]
    /\ step' = "carry"
    /\ row' = 0
    /\ new_bc' = EmptyBatch
    /\ UNCHANGED << next_available_guid, pending_infr_request_queue,
                    pending_peft_request_queue, outcome, inference_finished,
                    old_bc, result, key_cache >>

\* Mutation: the limit may be exceeded by one.
check_inf_req_completion_OffByOne(bc, i) ==
    LET request == all_requests[bc.requestsInfo[i].request_guid]
    IN  \/ request.tokens > bc.requestsInfo[i].max_sequence_length
        \/ request.eos

check_inf_req_completion(bc, i) ==
    LET request == all_requests[bc.requestsInfo[i].request_guid]
    IN  \/ request.tokens >= bc.requestsInfo[i].max_sequence_length
        \/ request.eos

\* trigger_request_completion_future and what goes with it: the result has n
\* tokens or losses.  A promise can be set once.
Publish(g, n) ==
    /\ request_to_promise[g] = "pending"
    /\ request_to_promise' = [request_to_promise EXCEPT ![g] = "set"]
    /\ request_generation_results' = [request_generation_results EXCEPT ![g] = n]
    /\ num_processed_requests' = num_processed_requests + 1

NextRow == row' = row + 1

\* Step 2, iteration i: the inference requests of the last batch.
OldRow(i) ==
    /\ step = "carry"
    /\ i = row /\ i \in InfrRow
    /\ ~old_bc.request_completed[i]
    /\ old_bc.requestsInfo[i].num_tokens_in_batch > 0
    /\ LET info == old_bc.requestsInfo[i]
       IN  /\ IsInference(info.request_guid)
           /\ info.first_token_depth_in_request + info.num_tokens_in_batch
                < all_requests[info.request_guid].tokens

CarrySkip(i) ==
    /\ step = "carry"
    /\ i = row /\ i \in InfrRow
    /\ old_bc.request_completed[i]
    /\ NextRow
    /\ UNCHANGED << registry, outcome, inference_finished, step, old_bc, new_bc,
                    result, key_cache >>

CompleteRequest(i) ==
    /\ OldRow(i)
    /\ check_inf_req_completion(old_bc, i)
    /\ LET g == old_bc.requestsInfo[i].request_guid
       IN  /\ all_requests' = [all_requests EXCEPT ![g].status = "COMPLETED"]
           /\ Publish(g, all_requests[g].tokens)
    /\ NextRow
    /\ UNCHANGED << next_available_guid, pending_infr_request_queue,
                    pending_peft_request_queue, inference_finished, step, old_bc,
                    new_bc, result, key_cache >>

\* The rows from i on whose request goes on in the next batch.
Continuing(i) ==
    {ii \in InfrRow : /\ ii >= i
                      /\ ~old_bc.request_completed[ii]
                      /\ ~check_inf_req_completion(old_bc, ii)}

\* Mutation: the row after this one is forgotten.
space_for_incr_dec_requests_OffByOne(i) == Cardinality(Continuing(i + 2))

\* Mutation: space is kept for the rows that are free or have completed, too.
space_for_incr_dec_requests_All(i) == inference_batch_size - (i + 1)

\* A prompt leaves a slot to every later row whose request goes on.
space_for_incr_dec_requests(i) == Cardinality(Continuing(i + 1))

\* Mutation: the next chunk skips a token.
CarriedInfo_SkipsOne(i, n, prompt_phase) ==
    [old_bc.requestsInfo[i] EXCEPT
        !.first_token_depth_in_request = @ + old_bc.requestsInfo[i].num_tokens_in_batch + 1,
        !.first_token_offset_in_batch = new_bc.num_tokens,
        !.num_tokens_in_batch = n,
        !.prompt_phase = prompt_phase]

\* The info of row i in the next batch, with n tokens.
CarriedInfo(i, n, prompt_phase) ==
    [old_bc.requestsInfo[i] EXCEPT
        !.first_token_depth_in_request = @ + old_bc.requestsInfo[i].num_tokens_in_batch,
        !.first_token_offset_in_batch = new_bc.num_tokens,
        !.num_tokens_in_batch = n,
        !.prompt_phase = prompt_phase]

\* The tokens of row i's request that no batch has held yet.
Unprocessed(i) ==
    LET info == old_bc.requestsInfo[i]
    IN  all_requests[info.request_guid].tokens
          - (info.first_token_depth_in_request + info.num_tokens_in_batch)

CarryDecoding(i) ==
    /\ OldRow(i)
    /\ ~check_inf_req_completion(old_bc, i)
    /\ Unprocessed(i) = 1
    /\ new_bc' = PutRow(new_bc, i, CarriedInfo(i, 1, FALSE), TRUE)
    /\ NextRow
    /\ UNCHANGED << registry, outcome, inference_finished, step, old_bc, result,
                    key_cache >>

CarryPrompt(i) ==
    /\ OldRow(i)
    /\ ~check_inf_req_completion(old_bc, i)
    /\ Unprocessed(i) # 1
    /\ old_bc.requestsInfo[i].prompt_phase
    /\ LET space == MaxTokens - new_bc.num_tokens - space_for_incr_dec_requests(i)
           n     == Smaller(space, Unprocessed(i))
       IN  new_bc' = PutRow(new_bc, i, CarriedInfo(i, n, TRUE), FALSE)
    /\ NextRow
    /\ UNCHANGED << registry, outcome, inference_finished, step, old_bc, result,
                    key_cache >>

CarryDone ==
    /\ step = "carry"
    /\ row = inference_batch_size
    /\ step' = "admit"
    /\ row' = 0
    /\ UNCHANGED << registry, outcome, inference_finished, old_bc, new_bc, result,
                    key_cache >>

\* Mutation: a row in use is overwritten.
CanAdmit_AnyRow(i) ==
    /\ pending_infr_request_queue # << >>
    /\ new_bc.num_tokens < MaxTokens

\* Mutation: a prompt is admitted only if it fits as a whole.
CanAdmit_WholePrompt(i) ==
    /\ new_bc.request_completed[i]
    /\ pending_infr_request_queue # << >>
    /\ new_bc.num_tokens + all_requests[Head(pending_infr_request_queue)].tokens
         <= MaxTokens

\* Step 3, iteration i: the pending inference requests.
CanAdmit(i) ==
    /\ new_bc.request_completed[i]
    /\ pending_infr_request_queue # << >>
    /\ new_bc.num_tokens < MaxTokens

AdmitSkip(i) ==
    /\ step = "admit"
    /\ i = row /\ i \in InfrRow
    /\ ~CanAdmit(i)
    /\ NextRow
    /\ UNCHANGED << registry, outcome, inference_finished, step, old_bc, new_bc,
                    result, key_cache >>

AdmitRequest(i) ==
    /\ step = "admit"
    /\ i = row /\ i \in InfrRow
    /\ CanAdmit(i)
    /\ LET g    == Head(pending_infr_request_queue)
           info == [NoRequestInfo EXCEPT
                      !.request_guid = g,
                      !.first_token_offset_in_batch = new_bc.num_tokens,
                      !.num_tokens_in_batch =
                          Smaller(MaxTokens - new_bc.num_tokens, all_requests[g].tokens),
                      !.max_sequence_length = all_requests[g].max_sequence_length,
                      !.prompt_phase = TRUE]
       IN  /\ IsInference(g)
           /\ new_bc' = PutRow(new_bc, i, info, FALSE)
    /\ pending_infr_request_queue' = Tail(pending_infr_request_queue)
    /\ NextRow
    /\ UNCHANGED << next_available_guid, all_requests, pending_peft_request_queue,
                    outcome, inference_finished, step, old_bc, result, key_cache >>

AdmitDone ==
    /\ step = "admit"
    /\ row = inference_batch_size
    /\ step' = "peft"
    /\ row' = 0
    /\ UNCHANGED << registry, outcome, inference_finished, old_bc, new_bc, result,
                    key_cache >>

\* Mutation: what is left of an entry is computed after the step is counted.
Trained_StepFirst(request, info) ==
    LET processed == request.dataset_entry_processed_tokens + info.num_tokens_in_batch
        finished  == info.first_token_depth_in_request + info.num_tokens_in_batch
                       = EntrySize(request)
        next      == [request EXCEPT !.completed_training_steps = @ + 1]
    IN  [request EXCEPT
           !.finetuning_losses = @ + 1,
           !.completed_training_steps = IF finished THEN @ + 1 ELSE @,
           !.dataset_entry_processed_tokens =
               IF finished THEN processed - EntrySize(next) ELSE processed]

\* Mutation: an entry counts as finished only if one batch held it all.
Trained_WholeOnly(request, info) ==
    LET finished == info.num_tokens_in_batch = EntrySize(request)
    IN  [request EXCEPT
           !.finetuning_losses = @ + 1,
           !.completed_training_steps = IF finished THEN @ + 1 ELSE @,
           !.dataset_entry_processed_tokens =
               IF finished THEN 0 ELSE @ + info.num_tokens_in_batch]

\* The finetuning row of the last batch: its tokens are trained on.
Trained(request, info) ==
    LET processed == request.dataset_entry_processed_tokens + info.num_tokens_in_batch
        finished  == info.first_token_depth_in_request + info.num_tokens_in_batch
                       = EntrySize(request)
    IN  [request EXCEPT
           !.finetuning_losses = @ + 1,
           !.completed_training_steps = IF finished THEN @ + 1 ELSE @,
           !.dataset_entry_processed_tokens = IF finished THEN 0 ELSE processed]

\* The assertions on the finetuning row of the last batch.
TrainAsserts(info) ==
    LET g       == info.request_guid
        request == all_requests[g]
        end     == info.first_token_depth_in_request + info.num_tokens_in_batch
    IN  /\ info.num_tokens_in_batch > 0
        /\ IsFinetuning(g)
        /\ end = EntrySize(request) =>
               request.dataset_entry_processed_tokens + info.num_tokens_in_batch = end
        /\ Trained(request, info).completed_training_steps
               <= request.finetuning.max_training_steps

TrainRow ==
    /\ step = "peft"
    /\ PeftEnabled /\ ~old_bc.request_completed[PeftRow]
    /\ LET info    == old_bc.requestsInfo[PeftRow]
           g       == info.request_guid
           trained == Trained(all_requests[g], info)
       IN  /\ TrainAsserts(info)
           /\ IF \/ trained.completed_training_steps = trained.finetuning.max_training_steps
                 \/ inference_finished
              THEN /\ all_requests' = [all_requests EXCEPT
                          ![g] = [trained EXCEPT !.status = "COMPLETED"]]
                   /\ Publish(g, trained.finetuning_losses)
              ELSE /\ all_requests' = [all_requests EXCEPT ![g] = trained]
                   /\ UNCHANGED outcome
    /\ step' = "schedule"
    /\ UNCHANGED << next_available_guid, pending_infr_request_queue,
                    pending_peft_request_queue, inference_finished, row, old_bc,
                    new_bc, result, key_cache >>

TrainSkip ==
    /\ step = "peft"
    /\ PeftEnabled => old_bc.request_completed[PeftRow]
    /\ step' = "schedule"
    /\ UNCHANGED << registry, outcome, inference_finished, row, old_bc, new_bc,
                    result, key_cache >>

\* Step 4: drop the finetuning requests that have completed.
PopPeft ==
    /\ step = "schedule"
    /\ pending_peft_request_queue # << >>
    /\ Completed(Head(pending_peft_request_queue))
    /\ pending_peft_request_queue' = Tail(pending_peft_request_queue)
    /\ UNCHANGED << next_available_guid, all_requests, pending_infr_request_queue,
                    outcome, inference_finished, batch >>

\* Then launch the batch, with a finetuning row if there is work and space.
PeftReady ==
    /\ pending_peft_request_queue # << >>
    /\ ~inference_finished

\* Mutation: the tokens of an entry that are already processed are forgotten.
num_peft_tokens_WholeEntry(request) ==
    Smaller(EntrySize(request), MaxTokens - new_bc.num_tokens)

\* Mutation: a slot is kept for every inference row, in use or not.
num_peft_tokens_RowsKept(request) ==
    Smaller(EntrySize(request) - request.dataset_entry_processed_tokens,
            MaxTokens - new_bc.num_tokens - inference_batch_size)

num_peft_tokens(request) ==
    Smaller(EntrySize(request) - request.dataset_entry_processed_tokens,
            MaxTokens - new_bc.num_tokens)

\* The assertions of step 4 and of set_optimizer_tasks.
PeftAsserts(request, tasks) ==
    /\ request.completed_training_steps < request.finetuning.max_training_steps
    /\ request.dataset_entry_processed_tokens <= EntrySize(request)
    /\ num_peft_tokens(request) > 0 /\ tasks.save_updated_weights
          => tasks.update_weights

Launch(bc) ==
    /\ old_bc' = bc
    /\ new_bc' = EmptyBatch
    /\ result' = {}
    /\ step' = "inference"
    /\ UNCHANGED << registry, outcome, inference_finished, row, key_cache >>

SchedulePeft ==
    /\ step = "schedule"
    /\ PeftReady
    /\ LET g       == Head(pending_peft_request_queue)
           request == all_requests[g]
           n       == num_peft_tokens(request)
           tasks   == set_optimizer_tasks(
                          request.finetuning.max_training_steps,
                          request.completed_training_steps,
                          request.finetuning.gradient_accumulation_steps)
           info    == [NoRequestInfo EXCEPT
                         !.request_guid = g,
                         !.first_token_depth_in_request =
                             request.dataset_entry_processed_tokens,
                         !.first_token_offset_in_batch = new_bc.num_tokens,
                         !.num_tokens_in_batch = n,
                         !.max_sequence_length = request.max_sequence_length,
                         !.peft_bwd = TRUE,
                         !.optimizer_tasks = tasks]
       IN  /\ ~Completed(g)
           /\ PeftAsserts(request, tasks)
           /\ Launch(IF n > 0 THEN PutPeftRow(new_bc, info) ELSE new_bc)

ScheduleNone ==
    /\ step = "schedule"
    /\ pending_peft_request_queue # << >>
          => ~Completed(Head(pending_peft_request_queue))
    /\ ~PeftReady
    /\ Launch(new_bc)

-----------------------------------------------------------------------------
PrepareNextBatch ==
    \/ AppendTokens
    \/ \E i \in InfrRow : \/ CarrySkip(i) \/ CompleteRequest(i)
                          \/ CarryDecoding(i) \/ CarryPrompt(i)
                          \/ AdmitSkip(i) \/ AdmitRequest(i)
    \/ CarryDone \/ AdmitDone
    \/ TrainRow \/ TrainSkip \/ PopPeft \/ SchedulePeft \/ ScheduleNone

Server == Inference \/ PrepareNextBatch

Client ==
    \/ \E prompt \in Prompts : register_new_request(prompt)
    \/ \E f \in Finetunings : register_new_peft_request(f)
    \/ \E finished \in BOOLEAN : set_inference_finished(finished)

Next == Server \/ Client

Spec == Init /\ [][Next]_vars

\* The serving loop runs on: background_serving_task loops until the server is
\* terminated, and Legion runs every task whose futures are ready.
FairSpec == Spec /\ WF_vars(Server)

-----------------------------------------------------------------------------
\* Type invariant.
TypeOK ==
    /\ next_available_guid \in 1 .. NumGuids + 1
    /\ all_requests \in [Guid -> Request]
    /\ pending_infr_request_queue \in Seq(Guid)
    /\ pending_peft_request_queue \in Seq(Guid)
    /\ request_to_promise \in [Guid -> {"none", "pending", "set"}]
    /\ request_generation_results \in [Guid -> Nat]
    /\ num_processed_requests \in Nat
    /\ inference_finished \in BOOLEAN
    /\ step \in {"inference", "result", "carry", "admit", "peft", "schedule"}
    /\ row \in 0 .. MaxRequests
    /\ old_bc \in BatchConfig
    /\ new_bc \in BatchConfig
    /\ result \subseteq Slot
    /\ key_cache \in [Row -> [request_guid : Guid \cup {NoGuid}, depth : Nat]]

ActiveRow(bc) == {r \in Row : ~bc.request_completed[r]}

GuidOf(bc, r) == bc.requestsInfo[r].request_guid

\* The number of tokens of row r's request that precede its next chunk.
EndDepth(bc, r) == bc.requestsInfo[r].first_token_depth_in_request
                     + bc.requestsInfo[r].num_tokens_in_batch

\* The model has not yet answered for old_bc, or its answer is not yet applied.
InFlight == step \in {"inference", "result"}

\* A launched batch never exceeds the token budget, and none of its rows is
\* empty, although a prompt cut to the budget leaves room for every decoding
\* request at a higher index.
BatchFits ==
    /\ old_bc.num_tokens <= MaxTokens
    /\ \A r \in ActiveRow(old_bc) : old_bc.requestsInfo[r].num_tokens_in_batch > 0

\* The inductive form of BatchFits: it holds of the batch under construction
\* too, a batch has at most as many inference rows as tokens, and while the rows
\* are carried over, every row still to come has a slot left.
BatchWithin(bc) ==
    /\ bc.num_tokens <= MaxTokens
    /\ \A r \in ActiveRow(bc) : bc.requestsInfo[r].num_tokens_in_batch > 0
    /\ Cardinality(ActiveRow(bc) \cap InfrRow) <= bc.num_tokens

RoomForCarried ==
    step = "carry" => new_bc.num_tokens + Cardinality(Continuing(row)) <= MaxTokens

\* The queues hold registered requests of their kind.
QueuesWellFormed ==
    /\ \A k \in DOMAIN pending_infr_request_queue :
          LET g == pending_infr_request_queue[k]
          IN  g < next_available_guid /\ IsInference(g)
    /\ \A k \in DOMAIN pending_peft_request_queue :
          LET g == pending_peft_request_queue[k]
          IN  g < next_available_guid /\ IsFinetuning(g)
    /\ \A g \in Guid : IsFinetuning(g) =>
          PeftEnabled /\ all_requests[g].finetuning \in Finetunings

\* Every row of a batch serves a registered request.
RowsRegistered(bc) ==
    \A r \in ActiveRow(bc) : GuidOf(bc, r) \in Guid

QueuedNonEmpty ==
    \A k \in DOMAIN pending_infr_request_queue :
        all_requests[pending_infr_request_queue[k]].tokens > 0

CapacityInvariant ==
    /\ TypeOK
    /\ QueuesWellFormed
    /\ RowsRegistered(old_bc)
    /\ RowsRegistered(new_bc)
    /\ QueuedNonEmpty
    /\ BatchWithin(old_bc)
    /\ BatchWithin(new_bc)
    /\ RoomForCarried

\* The slots of tokensInfo and the rows of requestsInfo describe the same
\* tokens: every row owns the contiguous slots its offset and count say, and
\* every slot lies in its row, at the depth the row says.
SlotsMatchRows ==
    /\ \A r \in ActiveRow(old_bc) :
          LET info == old_bc.requestsInfo[r]
          IN  /\ info.first_token_offset_in_batch + info.num_tokens_in_batch
                   <= old_bc.num_tokens
              /\ \A j \in 0 .. info.num_tokens_in_batch - 1 :
                    old_bc.tokensInfo[info.first_token_offset_in_batch + j]
                      = [request_index |-> r,
                         abs_depth_in_request |->
                             info.first_token_depth_in_request + j]
    /\ \A s \in Slot : s < old_bc.num_tokens =>
          LET r    == old_bc.tokensInfo[s].request_index
              info == old_bc.requestsInfo[r]
          IN  /\ r \in ActiveRow(old_bc)
              /\ info.first_token_offset_in_batch <= s
              /\ s < info.first_token_offset_in_batch + info.num_tokens_in_batch

\* check_batch: "ensure there is no more than one incomplete prompt".
IncompletePrompt(bc) ==
    {r \in ActiveRow(bc) \cap InfrRow : /\ bc.requestsInfo[r].prompt_phase
                                        /\ EndDepth(bc, r) < all_requests[GuidOf(bc, r)].tokens}

OneIncompletePrompt ==
    InFlight => \A r1, r2 \in IncompletePrompt(old_bc) : r1 = r2

\* Every row serves a request of the row's kind that is still pending, and no
\* request is served by two rows; the finetuning row serves the oldest pending
\* finetuning request.
RowsServePending ==
    InFlight =>
      /\ \A r \in ActiveRow(old_bc) :
            /\ GuidOf(old_bc, r) \in Guid
            /\ ~Completed(GuidOf(old_bc, r))
            /\ r \in InfrRow => IsInference(GuidOf(old_bc, r))
            /\ r \notin InfrRow =>
                  /\ IsFinetuning(GuidOf(old_bc, r))
                  /\ pending_peft_request_queue # << >>
                  /\ GuidOf(old_bc, r) = Head(pending_peft_request_queue)
      /\ \A r1, r2 \in ActiveRow(old_bc) :
            GuidOf(old_bc, r1) = GuidOf(old_bc, r2) => r1 = r2

\* Where a pending inference request can be: in the queue, in a row of the last
\* batch that prepare_next_batch has not reached, or in a row of the next one.
Places(g) ==
    {<< "queue", k >> : k \in {k \in DOMAIN pending_infr_request_queue :
                                 pending_infr_request_queue[k] = g}}
    \cup {<< "old", r >> : r \in {r \in ActiveRow(old_bc) \cap InfrRow :
                                    /\ GuidOf(old_bc, r) = g
                                    /\ \/ InFlight
                                       \/ step = "carry" /\ r >= row}}
    \cup {<< "new", r >> : r \in {r \in ActiveRow(new_bc) \cap InfrRow :
                                    GuidOf(new_bc, r) = g}}

\* No inference request is ever lost or served twice: it is pending in exactly
\* one place until it completes, and then in none.
NoRequestLost ==
    \A g \in Guid : IsInference(g) =>
        Cardinality(Places(g)) = IF Completed(g) THEN 0 ELSE 1

\* When a batch is given to the model, the row of every request whose batch
\* does not start at its first token holds, in the KV cache, all the tokens
\* before it, written for this very request: no row is reused too early and no
\* depth is skipped.
KvCachePrefix ==
    step = "inference" =>
        \A r \in ActiveRow(old_bc) :
            LET first == old_bc.requestsInfo[r].first_token_depth_in_request
            IN  first > 0 => /\ key_cache[r].request_guid = GuidOf(old_bc, r)
                             /\ key_cache[r].depth = first

\* inc_multihead_self_attention.cu computes "attention score for generation
\* tokens" for slot k and row batch_config_request_id[k], for every
\* k < num_generation_tokens: these must be the decoding rows and their slots.
GenerationTokensFirst ==
    \A k \in 0 .. old_bc.num_generation_tokens - 1 :
        LET r == old_bc.batch_config_request_id[k]
        IN  /\ ~old_bc.requestsInfo[r].prompt_phase
            /\ old_bc.tokensInfo[k].request_index = r

\* The finetuning row goes on where the last one of its dataset entry stopped,
\* never past the entry's end and never past the last training step.
FinetuningResumes ==
    PeftEnabled /\ InFlight /\ ~old_bc.request_completed[PeftRow] =>
        LET info    == old_bc.requestsInfo[PeftRow]
            request == all_requests[info.request_guid]
        IN  /\ info.first_token_depth_in_request = request.dataset_entry_processed_tokens
            /\ EndDepth(old_bc, PeftRow) <= EntrySize(request)
            /\ request.completed_training_steps < request.finetuning.max_training_steps

\* A token is appended to a request only when its row of the KV cache holds all
\* the tokens the request had, each written at its depth for this very request,
\* whatever chunks and batches they went through.
GeneratedFromWholePrefix ==
    [][\A g \in Guid :
         IsInference(g) /\ all_requests'[g].tokens > all_requests[g].tokens =>
             \E r \in InfrRow : key_cache[r] = [request_guid |-> g,
                                                depth |-> all_requests[g].tokens]]_vars

\* Every registered inference request completes.
InferenceCompletes ==
    \A g \in Guid : IsInference(g) ~> Completed(g)

\* Every registered finetuning request completes, as long as no client reports
\* that inference has finished.
FinetuningCompletes ==
    \A g \in Guid : IsFinetuning(g) ~> Completed(g) \/ inference_finished
=============================================================================
