----------------------- MODULE RequestManager_proofs -----------------------
(***************************************************************************)
(* Proofs about RequestManager: type correctness, the capacity of the      *)
(* batches prepare_next_batch builds, and where the requests are.          *)
(***************************************************************************)
EXTENDS RequestManager, FiniteSetTheorems, TLAPS

\* Every prompt encodes to at least one token.
NonEmptyPrompts == \A p \in Prompts : Bos + p.size > 0

TypeInvariant ==
    /\ TypeOK
    /\ QueuesWellFormed
    /\ RowsRegistered(old_bc)
    /\ RowsRegistered(new_bc)

-----------------------------------------------------------------------------
(* The operators that build a batch. *)

\* The inference rows are rows, and the finetuning row is another one.
LEMMA RowSubsets ==
    /\ InfrRow \subseteq Row
    /\ PeftEnabled => PeftRow \in Row /\ PeftRow \notin InfrRow
    /\ inference_batch_size \in 0 .. MaxRequests
BY ConstantsAssumption DEF InfrRow, Row, PeftRow, inference_batch_size

\* The number of slots a row takes is a natural number.
LEMMA WrittenNat ==
    ASSUME NEW info \in PerRequestInfo
    PROVE  Written(info) \in Nat
BY DEF Written, PerRequestInfo

\* Writing the tokens of a row keeps the type of tokensInfo.
LEMMA WriteTokensType ==
    ASSUME NEW tokensInfo \in [Slot -> [request_index : Row, abs_depth_in_request : Nat]],
           NEW num_tokens \in Nat, NEW r \in Row, NEW info \in PerRequestInfo
    PROVE  WriteTokens(tokensInfo, num_tokens, r, info)
               \in [Slot -> [request_index : Row, abs_depth_in_request : Nat]]
<1> SUFFICES ASSUME NEW s \in Slot
             PROVE  WriteTokens(tokensInfo, num_tokens, r, info)[s]
                        \in [request_index : Row, abs_depth_in_request : Nat]
    BY DEF WriteTokens
<1>1. s \in Nat /\ info.first_token_depth_in_request \in Nat
    BY DEF Slot, PerRequestInfo
<1>2. num_tokens <= s => info.first_token_depth_in_request + (s - num_tokens) \in Nat
    BY <1>1
<1> QED BY <1>1, <1>2 DEF WriteTokens

\* The empty batch is a batch.
LEMMA EmptyBatchType == EmptyBatch \in BatchConfig
<1>1. 0 \in Row
    BY ConstantsAssumption DEF Row
<1>2. NoRequestInfo \in PerRequestInfo
    BY DEF NoRequestInfo, PerRequestInfo, NoOptimizerTasks, OptimizerTasks
<1> QED BY <1>1, <1>2 DEF EmptyBatch, BatchConfig

\* Putting an inference row in a batch gives a batch.
LEMMA PutRowType ==
    ASSUME NEW bc \in BatchConfig, NEW r \in Row, NEW info \in PerRequestInfo,
           NEW decoding \in BOOLEAN
    PROVE  PutRow(bc, r, info, decoding) \in BatchConfig
<1>1. WriteTokens(bc.tokensInfo, bc.num_tokens, r, info)
          \in [Slot -> [request_index : Row, abs_depth_in_request : Nat]]
    BY WriteTokensType DEF BatchConfig
<1>2. bc.num_tokens + Written(info) \in Nat
    BY WrittenNat DEF BatchConfig
<1>3. [bc.request_completed EXCEPT ![r] = FALSE] \in [Row -> BOOLEAN]
    BY DEF BatchConfig
<1>4. [bc.requestsInfo EXCEPT ![r] = info] \in [Row -> PerRequestInfo]
    BY DEF BatchConfig
<1>5. [bc.batch_config_request_id EXCEPT ![bc.num_active_req] = r] \in [Row -> Row]
    BY DEF BatchConfig
<1>6. bc.num_active_req + 1 \in Nat
      /\ (IF decoding THEN bc.num_generation_tokens + 1
                      ELSE bc.num_generation_tokens) \in Nat
    BY DEF BatchConfig
<1> QED BY <1>1, <1>2, <1>3, <1>4, <1>5, <1>6 DEF PutRow, BatchConfig

\* Putting the finetuning row in a batch gives a batch.
LEMMA PutPeftRowType ==
    ASSUME PeftEnabled, NEW bc \in BatchConfig, NEW info \in PerRequestInfo
    PROVE  PutPeftRow(bc, info) \in BatchConfig
<1> PeftRow \in Row
    BY RowSubsets
<1>1. WriteTokens(bc.tokensInfo, bc.num_tokens, PeftRow, info)
          \in [Slot -> [request_index : Row, abs_depth_in_request : Nat]]
    BY WriteTokensType DEF BatchConfig
<1>2. bc.num_tokens + Written(info) \in Nat
      /\ bc.num_peft_tokens + Written(info) \in Nat
    BY WrittenNat DEF BatchConfig
<1>3. [bc.request_completed EXCEPT ![PeftRow] = FALSE] \in [Row -> BOOLEAN]
    BY DEF BatchConfig
<1>4. [bc.requestsInfo EXCEPT ![PeftRow] = info] \in [Row -> PerRequestInfo]
    BY DEF BatchConfig
<1> QED BY <1>1, <1>2, <1>3, <1>4 DEF PutPeftRow, BatchConfig

-----------------------------------------------------------------------------
(* Type correctness. *)

\* The type invariant holds initially.
LEMMA InitTypeInvariant == Init => TypeInvariant
<1> SUFFICES ASSUME Init PROVE TypeInvariant
    OBVIOUS
<1>1. EmptyBatch \in BatchConfig
    BY EmptyBatchType
<1>2. NoRequest \in Request
    BY DEF NoRequest, Request
<1>3. all_requests \in [Guid -> Request] /\ old_bc \in BatchConfig /\ new_bc \in BatchConfig
    BY <1>1, <1>2 DEF Init
<1>4. next_available_guid \in 1 .. NumGuids + 1 /\ row \in 0 .. MaxRequests
    BY ConstantsAssumption DEF Init
<1>5. /\ request_to_promise \in [Guid -> {"none", "pending", "set"}]
      /\ request_generation_results \in [Guid -> Nat]
      /\ key_cache \in [Row -> [request_guid : Guid \cup {NoGuid}, depth : Nat]]
    BY DEF Init
<1>6. /\ pending_infr_request_queue \in Seq(Guid)
      /\ pending_peft_request_queue \in Seq(Guid)
    BY DEF Init
<1>7. /\ num_processed_requests \in Nat
      /\ inference_finished \in BOOLEAN
      /\ step \in {"inference", "result", "carry", "admit", "peft", "schedule"}
      /\ result \subseteq Slot
    BY DEF Init
<1>8. TypeOK
    BY <1>3, <1>4, <1>5, <1>6, <1>7 DEF TypeOK
<1>9. QueuesWellFormed
    BY DEF Init, QueuesWellFormed, IsFinetuning, NoRequest, Guid
<1>10. RowsRegistered(old_bc) /\ RowsRegistered(new_bc)
    BY DEF Init, RowsRegistered, ActiveRow, EmptyBatch
<1> QED BY <1>8, <1>9, <1>10 DEF TypeInvariant

\* The fields of a request that a step may change keep their types.
LEMMA TokenAppendedType ==
    ASSUME NEW r \in Request, NEW t \in Nat, NEW e \in BOOLEAN
    PROVE  [r EXCEPT !.tokens = t, !.eos = e] \in Request
BY DEF Request

\* Completing a request changes its status only.
LEMMA CompletedType ==
    ASSUME NEW r \in Request
    PROVE  /\ [r EXCEPT !.status = "COMPLETED"] \in Request
           /\ [r EXCEPT !.status = "COMPLETED"].req_type = r.req_type
           /\ [r EXCEPT !.status = "COMPLETED"].finetuning = r.finetuning
           /\ [r EXCEPT !.status = "COMPLETED"].tokens = r.tokens
           /\ [r EXCEPT !.status = "COMPLETED"].eos = r.eos
BY DEF Request

\* Training on a row changes the training counters only.
LEMMA TrainedType ==
    ASSUME NEW r \in Request, NEW info \in PerRequestInfo, info.num_tokens_in_batch > 0
    PROVE  /\ Trained(r, info) \in Request
           /\ Trained(r, info).req_type = r.req_type
           /\ Trained(r, info).finetuning = r.finetuning
           /\ Trained(r, info).tokens = r.tokens
           /\ Trained(r, info).eos = r.eos
<1> DEFINE processed == r.dataset_entry_processed_tokens + info.num_tokens_in_batch
           finished  == info.first_token_depth_in_request + info.num_tokens_in_batch
                          = EntrySize(r)
           steps     == IF finished THEN r.completed_training_steps + 1
                                    ELSE r.completed_training_steps
           left      == IF finished THEN 0 ELSE processed
           losses    == r.finetuning_losses + 1
<1>1. processed \in Nat /\ losses \in Nat /\ r.completed_training_steps + 1 \in Nat
      /\ r.completed_training_steps \in Nat
    BY DEF Request, PerRequestInfo
<1>2. steps \in Nat /\ left \in Nat
    BY <1>1
<1>3. Trained(r, info) = [r EXCEPT !.finetuning_losses = losses,
                                   !.completed_training_steps = steps,
                                   !.dataset_entry_processed_tokens = left]
    BY DEF Trained
<1> HIDE DEF steps, left, losses, processed, finished
<1> QED BY <1>1, <1>2, <1>3 DEF Request

\* A request that is rewritten keeps the queues well formed if it keeps its
\* kind and its dataset.
LEMMA QueuesKept ==
    ASSUME QueuesWellFormed, TypeOK,
           next_available_guid' = next_available_guid,
           pending_infr_request_queue' = pending_infr_request_queue,
           pending_peft_request_queue' = pending_peft_request_queue,
           \A g \in Guid : /\ all_requests'[g].req_type = all_requests[g].req_type
                           /\ all_requests'[g].finetuning = all_requests[g].finetuning
    PROVE  QueuesWellFormed'
<1>1. \A k \in DOMAIN pending_infr_request_queue : pending_infr_request_queue[k] \in Guid
    BY DEF TypeOK
<1>2. \A k \in DOMAIN pending_peft_request_queue : pending_peft_request_queue[k] \in Guid
    BY DEF TypeOK
<1> QED BY <1>1, <1>2 DEF QueuesWellFormed, IsInference, IsFinetuning

\* The tail of a queue holds what the queue held.
LEMMA TailWellFormed ==
    ASSUME NEW S, NEW q \in Seq(S), q # << >>
    PROVE  /\ Tail(q) \in Seq(S)
           /\ \A k \in DOMAIN Tail(q) : k + 1 \in DOMAIN q /\ Tail(q)[k] = q[k + 1]
           /\ Head(q) \in S
           /\ 1 \in DOMAIN q /\ Head(q) = q[1]
OBVIOUS

\* Adding a row for a registered request keeps the rows registered.
LEMMA PutRowRegistered ==
    ASSUME NEW bc \in BatchConfig, RowsRegistered(bc), NEW r \in Row,
           NEW info \in PerRequestInfo, info.request_guid \in Guid,
           NEW decoding \in BOOLEAN
    PROVE  RowsRegistered(PutRow(bc, r, info, decoding))
<1> DEFINE new == PutRow(bc, r, info, decoding)
<1>1. /\ new.request_completed = [bc.request_completed EXCEPT ![r] = FALSE]
      /\ new.requestsInfo = [bc.requestsInfo EXCEPT ![r] = info]
    BY DEF PutRow, BatchConfig
<1>2. SUFFICES ASSUME NEW q \in ActiveRow(new)
               PROVE  GuidOf(new, q) \in Guid
    BY DEF RowsRegistered
<1> HIDE DEF new
<1>3. CASE q = r
    BY <1>1, <1>3 DEF GuidOf, BatchConfig
<1>4. CASE q # r
  <2>1. q \in ActiveRow(bc)
      BY <1>1, <1>2, <1>4 DEF ActiveRow, BatchConfig
  <2>2. GuidOf(new, q) = GuidOf(bc, q)
      BY <1>1, <1>4, <2>1 DEF GuidOf, ActiveRow, BatchConfig
  <2> QED BY <2>1, <2>2 DEF RowsRegistered
<1> QED BY <1>3, <1>4

\* The same for the finetuning row.
LEMMA PutPeftRowRegistered ==
    ASSUME PeftEnabled, NEW bc \in BatchConfig, RowsRegistered(bc),
           NEW info \in PerRequestInfo, info.request_guid \in Guid
    PROVE  RowsRegistered(PutPeftRow(bc, info))
<1> PeftRow \in Row
    BY RowSubsets
<1> DEFINE new == PutPeftRow(bc, info)
<1>1. /\ new.request_completed = [bc.request_completed EXCEPT ![PeftRow] = FALSE]
      /\ new.requestsInfo = [bc.requestsInfo EXCEPT ![PeftRow] = info]
    BY DEF PutPeftRow, BatchConfig
<1>2. SUFFICES ASSUME NEW q \in ActiveRow(new)
               PROVE  GuidOf(new, q) \in Guid
    BY DEF RowsRegistered
<1> HIDE DEF new
<1>3. CASE q = PeftRow
    BY <1>1, <1>3 DEF GuidOf, BatchConfig
<1>4. CASE q # PeftRow
  <2>1. q \in ActiveRow(bc)
      BY <1>1, <1>2, <1>4 DEF ActiveRow, BatchConfig
  <2>2. GuidOf(new, q) = GuidOf(bc, q)
      BY <1>1, <1>4, <2>1 DEF GuidOf, ActiveRow, BatchConfig
  <2> QED BY <2>1, <2>2 DEF RowsRegistered
<1> QED BY <1>3, <1>4

\* The empty batch has no active row.
LEMMA EmptyBatchRegistered == RowsRegistered(EmptyBatch)
BY DEF RowsRegistered, ActiveRow, EmptyBatch

\* The rows that go on are finitely many.
LEMMA ContinuingFinite ==
    ASSUME NEW i
    PROVE  IsFiniteSet(Continuing(i)) /\ Cardinality(Continuing(i)) \in Nat
<1>1. inference_batch_size - 1 \in Int
    BY RowSubsets, ConstantsAssumption
<1>2. IsFiniteSet(InfrRow)
    BY <1>1, FS_Interval, 0 \in Int DEF InfrRow
<1>3. Continuing(i) \in SUBSET InfrRow
    BY DEF Continuing
<1> QED BY <1>2, <1>3, FS_Subset, FS_CardinalityType

\* What a row that is being carried over is.
LEMMA OldRowType ==
    ASSUME TypeInvariant, NEW i, OldRow(i)
    PROVE  /\ i \in InfrRow /\ i \in Row /\ i = row /\ row + 1 \in 0 .. MaxRequests
           /\ old_bc.requestsInfo[i] \in PerRequestInfo
           /\ GuidOf(old_bc, i) \in Guid
           /\ all_requests[GuidOf(old_bc, i)] \in Request
           /\ EndDepth(old_bc, i) \in Nat
           /\ Unprocessed(i) \in Int /\ Unprocessed(i) > 0
<1>1. i \in InfrRow /\ i \in Row /\ i = row /\ i \in ActiveRow(old_bc)
    BY RowSubsets DEF OldRow, ActiveRow
<1>2. row + 1 \in 0 .. MaxRequests
    BY <1>1, RowSubsets, ConstantsAssumption DEF InfrRow
<1>3. old_bc.requestsInfo[i] \in PerRequestInfo
    BY <1>1 DEF TypeInvariant, TypeOK, BatchConfig
<1>4. GuidOf(old_bc, i) \in Guid
    BY <1>1 DEF TypeInvariant, RowsRegistered
<1>5. all_requests[GuidOf(old_bc, i)] \in Request
    BY <1>4 DEF TypeInvariant, TypeOK
<1>6. /\ old_bc.requestsInfo[i].num_tokens_in_batch > 0
      /\ EndDepth(old_bc, i) < all_requests[GuidOf(old_bc, i)].tokens
    BY DEF OldRow, EndDepth, GuidOf
<1>7. EndDepth(old_bc, i) \in Nat
    BY <1>3, <1>6 DEF EndDepth, PerRequestInfo
<1>8. Unprocessed(i) = all_requests[GuidOf(old_bc, i)].tokens - EndDepth(old_bc, i)
    BY DEF Unprocessed, EndDepth, GuidOf
<1>9. all_requests[GuidOf(old_bc, i)].tokens \in Nat
    BY <1>5 DEF Request
<1> QED BY <1>1, <1>2, <1>3, <1>4, <1>5, <1>6, <1>7, <1>8, <1>9

\* The info of a row that is carried over is a PerRequestInfo.
LEMMA CarriedInfoType ==
    ASSUME TypeInvariant, NEW i, OldRow(i), NEW n \in Int, NEW p \in BOOLEAN
    PROVE  /\ CarriedInfo(i, n, p) \in PerRequestInfo
           /\ CarriedInfo(i, n, p).request_guid = GuidOf(old_bc, i)
           /\ CarriedInfo(i, n, p).num_tokens_in_batch = n
<1>1. old_bc.requestsInfo[i] \in PerRequestInfo
      /\ old_bc.requestsInfo[i].first_token_depth_in_request
           + old_bc.requestsInfo[i].num_tokens_in_batch \in Nat
    BY OldRowType DEF EndDepth
<1>2. new_bc.num_tokens \in Nat
    BY DEF TypeInvariant, TypeOK, BatchConfig
<1> QED BY <1>1, <1>2 DEF CarriedInfo, PerRequestInfo, GuidOf

\* Steps that touch neither the registry nor the batches.
LEMMA StutterTypeInvariant ==
    ASSUME TypeInvariant, UNCHANGED << registry, outcome, old_bc, new_bc >>,
           inference_finished' \in BOOLEAN,
           step' \in {"inference", "result", "carry", "admit", "peft", "schedule"},
           row' \in 0 .. MaxRequests, result' \subseteq Slot,
           key_cache' \in [Row -> [request_guid : Guid \cup {NoGuid}, depth : Nat]]
    PROVE  TypeInvariant'
BY DEF TypeInvariant, TypeOK, QueuesWellFormed, RowsRegistered, ActiveRow, GuidOf,
       IsInference, IsFinetuning, registry, outcome

\* The model keeps the type invariant.
LEMMA InferenceTypeInvariant ==
    ASSUME TypeInvariant, Inference
    PROVE  TypeInvariant'
<1>1. result' \subseteq Slot
    BY DEF Inference
<1>2. ASSUME NEW r \in Row, ~old_bc.request_completed[r]
      PROVE  CacheAfter(key_cache[r], old_bc.requestsInfo[r])
               \in [request_guid : Guid \cup {NoGuid}, depth : Nat]
  <2>1. old_bc.requestsInfo[r] \in PerRequestInfo
      BY DEF TypeInvariant, TypeOK, BatchConfig
  <2>2. old_bc.requestsInfo[r].first_token_depth_in_request
          + Written(old_bc.requestsInfo[r]) \in Nat
      BY <2>1, WrittenNat DEF PerRequestInfo
  <2> QED BY <2>1, <2>2 DEF CacheAfter, PerRequestInfo
<1>3. key_cache' \in [Row -> [request_guid : Guid \cup {NoGuid}, depth : Nat]]
    BY <1>2 DEF Inference, TypeInvariant, TypeOK
<1> QED BY <1>1, <1>3, StutterTypeInvariant DEF Inference, TypeInvariant, TypeOK

\* Registering an inference request keeps the type invariant.
LEMMA RegisterTypeInvariant ==
    ASSUME TypeInvariant, NEW prompt \in Prompts, register_new_request(prompt)
    PROVE  TypeInvariant'
<1> DEFINE g == next_available_guid
           request == [NoRequest EXCEPT
                         !.req_type = "REQ_INFERENCE", !.tokens = Bos + prompt.size,
                         !.initial_len = Bos + prompt.size, !.eos = prompt.eos,
                         !.max_sequence_length = prompt.max_sequence_length]
<1>1. /\ g \in Guid /\ g + 1 \in 1 .. NumGuids + 1
      /\ next_available_guid' = g + 1
    BY ConstantsAssumption DEF register_new_request, Refuse, TypeInvariant, TypeOK, Guid
<1>2. CASE prompt.size >= MaxSeqLen
  <2>1. UNCHANGED << all_requests, pending_infr_request_queue,
                     pending_peft_request_queue, outcome, inference_finished, batch >>
      BY <1>2 DEF register_new_request, Refuse
  <2>2. TypeOK'
      BY <1>1, <2>1 DEF TypeInvariant, TypeOK, outcome, batch
  <2>3. ASSUME NEW h \in Guid, h < next_available_guid
        PROVE  h < next_available_guid'
      BY <1>1, <2>3 DEF Guid
  <2>4. /\ \A k \in DOMAIN pending_infr_request_queue : pending_infr_request_queue[k] \in Guid
        /\ \A k \in DOMAIN pending_peft_request_queue : pending_peft_request_queue[k] \in Guid
      BY DEF TypeInvariant, TypeOK
  <2>5. QueuesWellFormed'
      BY <2>1, <2>3, <2>4 DEF TypeInvariant, QueuesWellFormed, IsInference, IsFinetuning
  <2> QED BY <2>1, <2>2, <2>5 DEF TypeInvariant, RowsRegistered, ActiveRow, GuidOf, batch
<1>3. CASE ~(prompt.size >= MaxSeqLen)
  <2>1. /\ all_requests' = [all_requests EXCEPT ![g] = request]
        /\ pending_infr_request_queue' = Append(pending_infr_request_queue, g)
        /\ request_to_promise' = [request_to_promise EXCEPT ![g] = "pending"]
        /\ request_generation_results' =
               [request_generation_results EXCEPT ![g] = Bos + prompt.size]
        /\ UNCHANGED << pending_peft_request_queue, num_processed_requests,
                        inference_finished, batch >>
      BY <1>3 DEF register_new_request
  <2>2. Bos + prompt.size \in Nat /\ prompt.eos \in BOOLEAN
        /\ prompt.max_sequence_length \in Nat
      BY ConstantsAssumption DEF Prompt
  <2>3. request \in Request /\ request.req_type = "REQ_INFERENCE"
      BY <2>2 DEF NoRequest, Request
  <2> HIDE DEF request
  <2>4. all_requests' \in [Guid -> Request]
      BY <2>1, <2>3 DEF TypeInvariant, TypeOK
  <2>5. pending_infr_request_queue' \in Seq(Guid)
      BY <1>1, <2>1 DEF TypeInvariant, TypeOK
  <2>6. TypeOK'
      BY <1>1, <2>1, <2>2, <2>4, <2>5 DEF TypeInvariant, TypeOK, batch
  <2>7. ASSUME NEW h \in Guid, h # g
        PROVE  all_requests'[h] = all_requests[h]
      BY <2>1, <2>7 DEF TypeInvariant, TypeOK
  <2>8. all_requests'[g] = request
      BY <1>1, <2>1 DEF TypeInvariant, TypeOK
  <2>9. QueuesWellFormed'
    <3>1. ASSUME NEW k \in DOMAIN pending_infr_request_queue'
          PROVE  /\ pending_infr_request_queue'[k] < next_available_guid'
                 /\ all_requests'[pending_infr_request_queue'[k]].req_type
                      = "REQ_INFERENCE"
      <4>1. CASE k \in DOMAIN pending_infr_request_queue
        <5>1. pending_infr_request_queue'[k] = pending_infr_request_queue[k]
              /\ pending_infr_request_queue[k] \in Guid
              /\ pending_infr_request_queue[k] < g
            BY <2>1, <4>1 DEF TypeInvariant, TypeOK, QueuesWellFormed
        <5> QED BY <1>1, <2>7, <4>1, <5>1
                DEF TypeInvariant, QueuesWellFormed, IsInference, Guid
      <4>2. CASE k \notin DOMAIN pending_infr_request_queue
        <5>1. pending_infr_request_queue'[k] = g
            BY <2>1, <4>2 DEF TypeInvariant, TypeOK
        <5> QED BY <1>1, <2>3, <2>8, <5>1 DEF Guid
      <4> QED BY <4>1, <4>2
    <3>2. ASSUME NEW k \in DOMAIN pending_peft_request_queue'
          PROVE  /\ pending_peft_request_queue'[k] < next_available_guid'
                 /\ all_requests'[pending_peft_request_queue'[k]].req_type
                      = "REQ_FINETUNING"
      <4>1. pending_peft_request_queue'[k] = pending_peft_request_queue[k]
            /\ pending_peft_request_queue[k] \in Guid
            /\ pending_peft_request_queue[k] < g
          BY <2>1 DEF TypeInvariant, TypeOK, QueuesWellFormed
      <4> QED BY <1>1, <2>1, <2>7, <4>1
              DEF TypeInvariant, QueuesWellFormed, IsFinetuning, Guid
    <3>3. ASSUME NEW h \in Guid, all_requests'[h].req_type = "REQ_FINETUNING"
          PROVE  PeftEnabled /\ all_requests'[h].finetuning \in Finetunings
        BY <2>3, <2>7, <2>8, <3>3 DEF TypeInvariant, QueuesWellFormed, IsFinetuning
    <3> QED BY <3>1, <3>2, <3>3 DEF QueuesWellFormed, IsInference, IsFinetuning
  <2> QED BY <2>1, <2>6, <2>9 DEF TypeInvariant, RowsRegistered, ActiveRow, GuidOf, batch
<1> QED BY <1>2, <1>3

\* Registering a finetuning request keeps the type invariant.
LEMMA RegisterPeftTypeInvariant ==
    ASSUME TypeInvariant, NEW f \in Finetunings, register_new_peft_request(f)
    PROVE  TypeInvariant'
<1> DEFINE g == next_available_guid
           request == [NoRequest EXCEPT !.req_type = "REQ_FINETUNING",
                                        !.finetuning = f]
           refused == \E e \in DOMAIN f.dataset : f.dataset[e] > MaxSeqLen
<1>1. /\ g \in Guid /\ g + 1 \in 1 .. NumGuids + 1
      /\ next_available_guid' = g + 1
  <2>1. g <= NumGuids /\ next_available_guid' = g + 1
      BY DEF register_new_peft_request, Refuse
  <2>2. g \in 1 .. NumGuids + 1
      BY DEF TypeInvariant, TypeOK
  <2> HIDE DEF g
  <2> QED BY <2>1, <2>2, ConstantsAssumption DEF Guid
<1>2. ASSUME NEW h \in Guid, h < next_available_guid
      PROVE  h < next_available_guid'
    BY <1>1, <1>2 DEF Guid
<1>3. /\ \A k \in DOMAIN pending_infr_request_queue : pending_infr_request_queue[k] \in Guid
      /\ \A k \in DOMAIN pending_peft_request_queue : pending_peft_request_queue[k] \in Guid
    BY DEF TypeInvariant, TypeOK
<1>4. CASE refused
  <2>1. UNCHANGED << all_requests, pending_infr_request_queue,
                     pending_peft_request_queue, outcome, inference_finished, batch >>
      BY <1>4 DEF register_new_peft_request, Refuse
  <2>2. TypeOK'
      BY <1>1, <2>1 DEF TypeInvariant, TypeOK, outcome, batch
  <2>3. QueuesWellFormed'
      BY <1>2, <1>3, <2>1 DEF TypeInvariant, QueuesWellFormed, IsInference, IsFinetuning
  <2> QED BY <2>1, <2>2, <2>3 DEF TypeInvariant, RowsRegistered, ActiveRow, GuidOf, batch
<1>5. CASE ~refused
  <2>1. /\ all_requests' = [all_requests EXCEPT ![g] = request]
        /\ pending_peft_request_queue' = Append(pending_peft_request_queue, g)
        /\ request_to_promise' = [request_to_promise EXCEPT ![g] = "pending"]
        /\ UNCHANGED << pending_infr_request_queue, request_generation_results,
                        num_processed_requests, inference_finished, batch >>
      BY <1>5 DEF register_new_peft_request
  <2>2. request \in Request /\ request.req_type = "REQ_FINETUNING"
        /\ request.finetuning = f
      BY DEF NoRequest, Request
  <2> HIDE DEF request
  <2>3. all_requests' \in [Guid -> Request]
      BY <2>1, <2>2 DEF TypeInvariant, TypeOK
  <2>4. pending_peft_request_queue' \in Seq(Guid)
      BY <1>1, <2>1 DEF TypeInvariant, TypeOK
  <2>5. TypeOK'
      BY <1>1, <2>1, <2>3, <2>4 DEF TypeInvariant, TypeOK, batch
  <2>6. ASSUME NEW h \in Guid, h # g
        PROVE  all_requests'[h] = all_requests[h]
      BY <2>1, <2>6 DEF TypeInvariant, TypeOK
  <2>7. all_requests'[g] = request
      BY <1>1, <2>1 DEF TypeInvariant, TypeOK
  <2>8. ASSUME NEW k \in DOMAIN pending_infr_request_queue
        PROVE  /\ pending_infr_request_queue[k] < next_available_guid'
               /\ all_requests'[pending_infr_request_queue[k]].req_type = "REQ_INFERENCE"
    <3>1. pending_infr_request_queue[k] \in Guid /\ pending_infr_request_queue[k] < g
        BY <1>3 DEF TypeInvariant, QueuesWellFormed
    <3> QED BY <1>1, <1>2, <2>6, <3>1
            DEF TypeInvariant, QueuesWellFormed, IsInference, Guid
  <2>9. ASSUME NEW k \in DOMAIN pending_peft_request_queue'
        PROVE  /\ pending_peft_request_queue'[k] < next_available_guid'
               /\ all_requests'[pending_peft_request_queue'[k]].req_type = "REQ_FINETUNING"
    <3>1. CASE k \in DOMAIN pending_peft_request_queue
      <4>1. /\ pending_peft_request_queue'[k] = pending_peft_request_queue[k]
            /\ pending_peft_request_queue[k] \in Guid
            /\ pending_peft_request_queue[k] < g
          BY <1>3, <2>1, <3>1 DEF TypeInvariant, TypeOK, QueuesWellFormed
      <4> QED BY <1>1, <2>6, <3>1, <4>1
              DEF TypeInvariant, QueuesWellFormed, IsFinetuning, Guid
    <3>2. CASE k \notin DOMAIN pending_peft_request_queue
      <4>1. pending_peft_request_queue'[k] = g
          BY <2>1, <3>2 DEF TypeInvariant, TypeOK
      <4> QED BY <1>1, <2>2, <2>7, <4>1 DEF Guid
    <3> QED BY <3>1, <3>2
  <2>10. ASSUME NEW h \in Guid, all_requests'[h].req_type = "REQ_FINETUNING"
         PROVE  PeftEnabled /\ all_requests'[h].finetuning \in Finetunings
      BY <2>2, <2>6, <2>7, <2>10 DEF register_new_peft_request, TypeInvariant, QueuesWellFormed, IsFinetuning
  <2>11. QueuesWellFormed'
      BY <2>1, <2>8, <2>9, <2>10 DEF QueuesWellFormed, IsInference, IsFinetuning
  <2> QED BY <2>1, <2>5, <2>11 DEF TypeInvariant, RowsRegistered, ActiveRow, GuidOf, batch
<1> QED BY <1>4, <1>5

\* AppendTokens gives a request at most one more token.
LEMMA AppendTokensRequest ==
    ASSUME TypeInvariant, AppendTokens, NEW g \in Guid
    PROVE  /\ all_requests'[g] \in Request
           /\ all_requests'[g].req_type = all_requests[g].req_type
           /\ all_requests'[g].finetuning = all_requests[g].finetuning
           /\ all_requests'[g].status = all_requests[g].status
           /\ all_requests'[g].tokens >= all_requests[g].tokens
<1> DEFINE slots == {s \in Slot : /\ Yields(old_bc, s)
                                  /\ g = old_bc.requestsInfo[
                                           old_bc.tokensInfo[s].request_index].request_guid}
           ends  == slots \subseteq result
<1>1. all_requests[g] \in Request
    BY DEF TypeInvariant, TypeOK
<1>2. all_requests'[g] = IF slots = {} THEN all_requests[g]
                         ELSE [all_requests[g] EXCEPT !.tokens = @ + 1, !.eos = ends]
    BY DEF AppendTokens
<1>3. ends \in BOOLEAN
    OBVIOUS
<1> HIDE DEF slots, ends
<1>4. CASE slots = {}
  <2>1. all_requests'[g] = all_requests[g]
      BY <1>2, <1>4
  <2> QED BY <1>1, <2>1 DEF Request
<1>5. CASE slots # {}
  <2> DEFINE t == all_requests[g].tokens + 1
  <2>1. all_requests'[g] = [all_requests[g] EXCEPT !.tokens = t, !.eos = ends]
      BY <1>2, <1>5
  <2>2. all_requests[g].tokens \in Nat /\ t \in Nat /\ t >= all_requests[g].tokens
      BY <1>1 DEF Request
  <2> HIDE DEF t
  <2>3. all_requests'[g] \in Request
    <3>1. t \in Nat
        BY <2>2
    <3>2. [all_requests[g] EXCEPT !.tokens = t, !.eos = ends] \in Request
        BY <1>1, <1>3, <3>1, TokenAppendedType
    <3> QED BY <2>1, <3>2
  <2>4. all_requests'[g].tokens = t
      BY <1>1, <2>1 DEF Request
  <2>5. /\ all_requests'[g].req_type = all_requests[g].req_type
        /\ all_requests'[g].finetuning = all_requests[g].finetuning
        /\ all_requests'[g].status = all_requests[g].status
      BY <1>1, <2>1 DEF Request
  <2> QED BY <2>2, <2>3, <2>4, <2>5
<1> QED BY <1>4, <1>5

\* Step 1 keeps the type invariant.
LEMMA AppendTokensTypeInvariant ==
    ASSUME TypeInvariant, AppendTokens
    PROVE  TypeInvariant'
<1>1. all_requests' \in [Guid -> Request]
  <2>1. all_requests' = [g \in Guid |-> all_requests'[g]]
      BY DEF AppendTokens
  <2> QED BY <2>1, AppendTokensRequest
<1>2. new_bc' \in BatchConfig /\ RowsRegistered(new_bc)'
    BY EmptyBatchType, EmptyBatchRegistered
    DEF AppendTokens, RowsRegistered, ActiveRow, GuidOf
<1>3. row' \in 0 .. MaxRequests
  <2>1. row' = 0
      BY DEF AppendTokens
  <2> QED BY <2>1, ConstantsAssumption
<1>4. step' \in {"inference", "result", "carry", "admit", "peft", "schedule"}
    BY DEF AppendTokens
<1>5. TypeOK'
    BY <1>1, <1>2, <1>3, <1>4 DEF AppendTokens, TypeInvariant, TypeOK, outcome
<1>6. QueuesWellFormed'
    BY AppendTokensRequest, QueuesKept DEF AppendTokens, TypeInvariant
<1>7. RowsRegistered(old_bc)'
    BY DEF AppendTokens, TypeInvariant, RowsRegistered, ActiveRow, GuidOf
<1> QED BY <1>2, <1>5, <1>6, <1>7 DEF TypeInvariant
\* A step that changes only the row index and the new batch keeps the type
\* invariant if the new batch is well formed.
LEMMA RowStepTypeInvariant ==
    ASSUME TypeInvariant, row \in InfrRow, row' = row + 1,
           UNCHANGED << registry, outcome, inference_finished, step, old_bc, result,
                        key_cache >>,
           new_bc' \in BatchConfig, RowsRegistered(new_bc)'
    PROVE  TypeInvariant'
<1>1. row' \in 0 .. MaxRequests
    BY RowSubsets, ConstantsAssumption DEF InfrRow
<1> QED BY <1>1 DEF TypeInvariant, TypeOK, QueuesWellFormed, RowsRegistered, ActiveRow,
                    GuidOf, IsInference, IsFinetuning, registry, outcome

\* Skipping a row keeps the type invariant.
LEMMA CarrySkipTypeInvariant ==
    ASSUME TypeInvariant, NEW i \in InfrRow, CarrySkip(i) \/ AdmitSkip(i)
    PROVE  TypeInvariant'
<1>1. /\ row \in InfrRow /\ row' = row + 1 /\ new_bc' = new_bc
      /\ UNCHANGED << registry, outcome, inference_finished, step, old_bc, result,
                      key_cache >>
    BY DEF CarrySkip, AdmitSkip, NextRow
<1>2. new_bc' \in BatchConfig /\ RowsRegistered(new_bc)'
    BY <1>1 DEF TypeInvariant, TypeOK, RowsRegistered, ActiveRow, GuidOf
<1> QED BY <1>1, <1>2, RowStepTypeInvariant

\* A row that is carried over goes into the new batch with its next chunk.
LEMMA CarryStep ==
    ASSUME TypeInvariant, NEW i \in InfrRow, CarryDecoding(i) \/ CarryPrompt(i)
    PROVE  /\ row = i /\ row' = row + 1 /\ step = "carry" /\ OldRow(i)
           /\ ~check_inf_req_completion(old_bc, i)
           /\ UNCHANGED << registry, outcome, inference_finished, step, old_bc, result,
                           key_cache >>
           /\ \E n \in Int, p, d \in BOOLEAN :
                  new_bc' = PutRow(new_bc, i, CarriedInfo(i, n, p), d)
<1>1. /\ row = i /\ row' = row + 1 /\ step = "carry" /\ OldRow(i)
      /\ ~check_inf_req_completion(old_bc, i)
      /\ UNCHANGED << registry, outcome, inference_finished, step, old_bc, result,
                      key_cache >>
    BY DEF CarryDecoding, CarryPrompt, NextRow, OldRow
<1>2. CASE CarryDecoding(i)
  <2>1. new_bc' = PutRow(new_bc, i, CarriedInfo(i, 1, FALSE), TRUE)
      BY <1>2 DEF CarryDecoding
  <2>2. \E n \in Int, p, d \in BOOLEAN : new_bc' = PutRow(new_bc, i, CarriedInfo(i, n, p), d)
    <3> WITNESS 1 \in Int, FALSE \in BOOLEAN, TRUE \in BOOLEAN
    <3> QED BY <2>1
  <2> QED BY <1>1, <2>2
<1>3. CASE CarryPrompt(i)
  <2> DEFINE n == Smaller(MaxTokens - new_bc.num_tokens
                              - space_for_incr_dec_requests(i), Unprocessed(i))
  <2>1. new_bc.num_tokens \in Int /\ space_for_incr_dec_requests(i) \in Int
      BY ContinuingFinite DEF TypeInvariant, TypeOK, BatchConfig,
                              space_for_incr_dec_requests
  <2>2. n \in Int
      BY <1>1, <2>1, OldRowType, ConstantsAssumption DEF Smaller
  <2>3. new_bc' = PutRow(new_bc, i, CarriedInfo(i, n, TRUE), FALSE)
      BY <1>3 DEF CarryPrompt
  <2> HIDE DEF n
  <2>4. \E m \in Int, p, d \in BOOLEAN : new_bc' = PutRow(new_bc, i, CarriedInfo(i, m, p), d)
      BY <2>2, <2>3
  <2> QED BY <1>1, <2>4
<1> QED BY <1>2, <1>3

\* Carrying a row over keeps the type invariant.
LEMMA CarryTypeInvariant ==
    ASSUME TypeInvariant, NEW i \in InfrRow, CarryDecoding(i) \/ CarryPrompt(i)
    PROVE  TypeInvariant'
<1>1. /\ row \in InfrRow /\ row' = row + 1 /\ OldRow(i)
      /\ UNCHANGED << registry, outcome, inference_finished, step, old_bc, result,
                      key_cache >>
    BY CarryStep
<1>2. PICK n \in Int, p \in BOOLEAN, d \in BOOLEAN :
          new_bc' = PutRow(new_bc, i, CarriedInfo(i, n, p), d)
    BY CarryStep
<1>3. CarriedInfo(i, n, p) \in PerRequestInfo /\ CarriedInfo(i, n, p).request_guid \in Guid
    BY <1>1, CarriedInfoType, OldRowType
<1>4. i \in Row /\ new_bc \in BatchConfig /\ RowsRegistered(new_bc)
    BY RowSubsets DEF TypeInvariant, TypeOK
<1>5. new_bc' \in BatchConfig
    BY <1>2, <1>3, <1>4, PutRowType
<1>6. RowsRegistered(PutRow(new_bc, i, CarriedInfo(i, n, p), d))
    BY <1>3, <1>4, PutRowRegistered
<1>7. RowsRegistered(new_bc)'
    BY <1>2, <1>6 DEF RowsRegistered, ActiveRow, GuidOf
<1> QED BY <1>1, <1>5, <1>7, RowStepTypeInvariant

\* Completing a request and publishing its result.
LEMMA PublishTypeInvariant ==
    ASSUME TypeInvariant, NEW g \in Guid, NEW r \in Request, NEW n \in Nat,
           r.req_type = all_requests[g].req_type,
           r.finetuning = all_requests[g].finetuning,
           all_requests' = [all_requests EXCEPT ![g] = r],
           Publish(g, n) \/ UNCHANGED outcome,
           UNCHANGED << next_available_guid, pending_infr_request_queue,
                        pending_peft_request_queue, inference_finished, old_bc,
                        new_bc, result, key_cache >>,
           step' \in {"inference", "result", "carry", "admit", "peft", "schedule"},
           row' \in 0 .. MaxRequests
    PROVE  TypeInvariant'
<1>1. all_requests' \in [Guid -> Request]
    BY DEF TypeInvariant, TypeOK
<1>2. /\ request_to_promise' \in [Guid -> {"none", "pending", "set"}]
      /\ request_generation_results' \in [Guid -> Nat]
      /\ num_processed_requests' \in Nat
  <2>1. CASE Publish(g, n)
    <3>1. request_to_promise' = [request_to_promise EXCEPT ![g] = "set"]
          /\ request_generation_results' = [request_generation_results EXCEPT ![g] = n]
          /\ num_processed_requests' = num_processed_requests + 1
        BY <2>1 DEF Publish
    <3>2. request_to_promise' \in [Guid -> {"none", "pending", "set"}]
        BY <3>1 DEF TypeInvariant, TypeOK
    <3>3. request_generation_results' \in [Guid -> Nat]
        BY <3>1 DEF TypeInvariant, TypeOK
    <3>4. num_processed_requests' \in Nat
        BY <3>1 DEF TypeInvariant, TypeOK
    <3> QED BY <3>2, <3>3, <3>4
  <2>2. CASE UNCHANGED outcome
      BY <2>2 DEF TypeInvariant, TypeOK, outcome
  <2> QED BY <2>1, <2>2
<1>3. TypeOK'
    BY <1>1, <1>2 DEF TypeInvariant, TypeOK
<1>4. \A h \in Guid : /\ all_requests'[h].req_type = all_requests[h].req_type
                      /\ all_requests'[h].finetuning = all_requests[h].finetuning
    BY DEF TypeInvariant, TypeOK
<1>5. QueuesWellFormed'
    BY <1>4, QueuesKept DEF TypeInvariant
<1> QED BY <1>3, <1>5 DEF TypeInvariant, RowsRegistered, ActiveRow, GuidOf

\* Completing an inference request keeps the type invariant.
LEMMA CompleteRequestTypeInvariant ==
    ASSUME TypeInvariant, NEW i \in InfrRow, CompleteRequest(i)
    PROVE  TypeInvariant'
<1> DEFINE g == GuidOf(old_bc, i)
           r == [all_requests[g] EXCEPT !.status = "COMPLETED"]
<1>1. OldRow(i)
    BY DEF CompleteRequest
<1>2. g \in Guid /\ all_requests[g] \in Request /\ row + 1 \in 0 .. MaxRequests
    BY <1>1, OldRowType
<1>3. /\ all_requests' = [all_requests EXCEPT ![g].status = "COMPLETED"]
      /\ Publish(g, all_requests[g].tokens)
      /\ UNCHANGED << next_available_guid, pending_infr_request_queue,
                      pending_peft_request_queue, inference_finished, old_bc,
                      new_bc, result, key_cache >>
      /\ step' = step /\ row' = row + 1
    BY DEF CompleteRequest, NextRow, GuidOf
<1>4. /\ r \in Request /\ r.req_type = all_requests[g].req_type
      /\ r.finetuning = all_requests[g].finetuning
    BY <1>2, CompletedType
<1>5. all_requests' = [all_requests EXCEPT ![g] = r]
    BY <1>3
<1>6. all_requests[g].tokens \in Nat
    BY <1>2 DEF Request
<1>7. step' \in {"inference", "result", "carry", "admit", "peft", "schedule"}
    BY <1>3 DEF TypeInvariant, TypeOK
<1> HIDE DEF g, r
<1> QED BY <1>2, <1>3, <1>4, <1>5, <1>6, <1>7, PublishTypeInvariant

\* Training on the finetuning row keeps the type invariant.
LEMMA TrainRowTypeInvariant ==
    ASSUME TypeInvariant, TrainRow
    PROVE  TypeInvariant'
<1> DEFINE info    == old_bc.requestsInfo[PeftRow]
           g       == info.request_guid
           trained == Trained(all_requests[g], info)
           done    == [trained EXCEPT !.status = "COMPLETED"]
<1>1. /\ info.num_tokens_in_batch > 0 /\ PeftRow \in ActiveRow(old_bc) /\ PeftRow \in Row
    BY RowSubsets DEF TrainRow, TrainAsserts, ActiveRow
<1>2. info \in PerRequestInfo /\ g \in Guid /\ all_requests[g] \in Request
    BY <1>1 DEF TypeInvariant, TypeOK, BatchConfig, RowsRegistered, GuidOf
<1>3. /\ trained \in Request
      /\ trained.req_type = all_requests[g].req_type
      /\ trained.finetuning = all_requests[g].finetuning
    BY <1>1, <1>2, TrainedType
<1>4. /\ \/ /\ all_requests' = [all_requests EXCEPT ![g] = done]
            /\ Publish(g, trained.finetuning_losses)
         \/ /\ all_requests' = [all_requests EXCEPT ![g] = trained]
            /\ UNCHANGED outcome
      /\ UNCHANGED << next_available_guid, pending_infr_request_queue,
                      pending_peft_request_queue, inference_finished, old_bc,
                      new_bc, result, key_cache >>
      /\ step' = "schedule" /\ row' = row
    BY DEF TrainRow
<1> HIDE DEF trained, g, info
<1>5. /\ done \in Request
      /\ done.req_type = all_requests[g].req_type
      /\ done.finetuning = all_requests[g].finetuning
    BY <1>3, CompletedType
<1>6. trained.finetuning_losses \in Nat
    BY <1>3 DEF Request
<1>7. step' \in {"inference", "result", "carry", "admit", "peft", "schedule"}
      /\ row' \in 0 .. MaxRequests
    BY <1>4 DEF TypeInvariant, TypeOK
<1> HIDE DEF done
<1>8. CASE all_requests' = [all_requests EXCEPT ![g] = done]
           /\ Publish(g, trained.finetuning_losses)
    BY <1>2, <1>4, <1>5, <1>6, <1>7, <1>8, PublishTypeInvariant
<1>9. CASE all_requests' = [all_requests EXCEPT ![g] = trained] /\ UNCHANGED outcome
    BY <1>2, <1>3, <1>4, <1>6, <1>7, <1>9, PublishTypeInvariant
<1> QED BY <1>4, <1>8, <1>9

\* The row of an admitted request: the first tokens of the head of the queue, as
\* many as fit.
LEMMA AdmitChunk ==
    ASSUME TypeInvariant, NEW i \in InfrRow, AdmitRequest(i)
    PROVE  LET q == pending_infr_request_queue IN
           /\ q \in Seq(Guid) /\ q # << >> /\ q' = Tail(q)
           /\ i = row /\ row' = row + 1 /\ step = "admit"
           /\ new_bc.num_tokens < MaxTokens /\ i \notin ActiveRow(new_bc)
           /\ UNCHANGED << next_available_guid, all_requests, pending_peft_request_queue,
                           outcome, inference_finished, step, old_bc, result, key_cache >>
           /\ \E info \in PerRequestInfo :
                /\ new_bc' = PutRow(new_bc, i, info, FALSE)
                /\ info.request_guid = Head(q) /\ Head(q) \in Guid
                /\ info.first_token_depth_in_request = 0
                /\ info.first_token_offset_in_batch = new_bc.num_tokens
                /\ info.num_tokens_in_batch = Smaller(MaxTokens - new_bc.num_tokens,
                                                      all_requests[Head(q)].tokens)
                /\ info.prompt_phase
                /\ info.max_sequence_length = all_requests[Head(q)].max_sequence_length
<1> DEFINE q    == pending_infr_request_queue
           g    == Head(q)
           size == Smaller(MaxTokens - new_bc.num_tokens, all_requests[g].tokens)
           info == [NoRequestInfo EXCEPT
                      !.request_guid = g,
                      !.first_token_offset_in_batch = new_bc.num_tokens,
                      !.num_tokens_in_batch = size,
                      !.max_sequence_length = all_requests[g].max_sequence_length,
                      !.prompt_phase = TRUE]
<1>1. /\ new_bc' = PutRow(new_bc, i, info, FALSE)
      /\ q' = Tail(q) /\ q # << >>
      /\ i = row /\ row' = row + 1 /\ step = "admit"
      /\ new_bc.num_tokens < MaxTokens /\ i \notin ActiveRow(new_bc)
      /\ UNCHANGED << next_available_guid, all_requests, pending_peft_request_queue,
                      outcome, inference_finished, step, old_bc, result, key_cache >>
    BY DEF AdmitRequest, NextRow, CanAdmit, ActiveRow
<1>2. q \in Seq(Guid) /\ new_bc \in BatchConfig
    BY DEF TypeInvariant, TypeOK
<1>3. g \in Guid
    BY <1>1, <1>2, TailWellFormed
<1> HIDE DEF g
<1>4. all_requests[g] \in Request
    BY <1>3 DEF TypeInvariant, TypeOK
<1>5. /\ new_bc.num_tokens \in Nat /\ all_requests[g].tokens \in Nat
      /\ all_requests[g].max_sequence_length \in Nat
    BY <1>2, <1>4 DEF BatchConfig, Request
<1>6. size \in Int
    BY <1>5, ConstantsAssumption DEF Smaller
<1> HIDE DEF size
<1>7. /\ info \in PerRequestInfo /\ info.request_guid = g
      /\ info.first_token_depth_in_request = 0
      /\ info.first_token_offset_in_batch = new_bc.num_tokens
      /\ info.num_tokens_in_batch = size
      /\ info.prompt_phase
      /\ info.max_sequence_length = all_requests[g].max_sequence_length
    BY <1>3, <1>5, <1>6 DEF NoRequestInfo, PerRequestInfo, NoOptimizerTasks, OptimizerTasks
<1> HIDE DEF info
<1> QED BY <1>1, <1>2, <1>3, <1>7 DEF g, size

\* Admitting a request keeps the type invariant.
LEMMA AdmitRequestTypeInvariant ==
    ASSUME TypeInvariant, NEW i \in InfrRow, AdmitRequest(i)
    PROVE  TypeInvariant'
<1> DEFINE q == pending_infr_request_queue
<1>1. /\ q' = Tail(q) /\ q # << >> /\ q \in Seq(Guid)
      /\ i = row /\ row' = row + 1
      /\ UNCHANGED << next_available_guid, all_requests, pending_peft_request_queue,
                      outcome, inference_finished, step, old_bc, result, key_cache >>
    BY AdmitChunk
<1>2. PICK info \in PerRequestInfo :
          new_bc' = PutRow(new_bc, i, info, FALSE) /\ info.request_guid \in Guid
    BY AdmitChunk
<1>3. new_bc \in BatchConfig /\ i \in Row
    BY RowSubsets DEF TypeInvariant, TypeOK
<1>4. /\ Tail(q) \in Seq(Guid)
      /\ \A k \in DOMAIN Tail(q) : k + 1 \in DOMAIN q /\ Tail(q)[k] = q[k + 1]
    BY <1>1, TailWellFormed
<1>5. PutRow(new_bc, i, info, FALSE) \in BatchConfig
    BY <1>3, PutRowType
<1>6. RowsRegistered(PutRow(new_bc, i, info, FALSE))
    BY <1>2, <1>3, PutRowRegistered DEF TypeInvariant
<1>7. row' \in 0 .. MaxRequests
    BY <1>1, RowSubsets, ConstantsAssumption DEF InfrRow
<1>8. TypeOK'
    BY <1>1, <1>2, <1>4, <1>5, <1>7 DEF TypeInvariant, TypeOK, outcome
<1>9. RowsRegistered(old_bc)' /\ RowsRegistered(new_bc)'
    BY <1>1, <1>2, <1>6 DEF TypeInvariant, RowsRegistered, ActiveRow, GuidOf
<1>10. QueuesWellFormed'
    BY <1>1, <1>4 DEF TypeInvariant, QueuesWellFormed, IsInference, IsFinetuning
<1> QED BY <1>8, <1>9, <1>10 DEF TypeInvariant

\* Dropping a completed finetuning request keeps the type invariant.
LEMMA PopPeftTypeInvariant ==
    ASSUME TypeInvariant, PopPeft
    PROVE  TypeInvariant'
<1> DEFINE q == pending_peft_request_queue
<1>1. /\ q' = Tail(q) /\ q # << >>
      /\ UNCHANGED << next_available_guid, all_requests, pending_infr_request_queue,
                      outcome, inference_finished, batch >>
    BY DEF PopPeft
<1>2. q \in Seq(Guid)
    BY DEF TypeInvariant, TypeOK
<1>3. /\ Tail(q) \in Seq(Guid)
      /\ \A k \in DOMAIN Tail(q) : k + 1 \in DOMAIN q /\ Tail(q)[k] = q[k + 1]
    BY <1>1, <1>2, TailWellFormed
<1>4. TypeOK'
    BY <1>1, <1>3 DEF TypeInvariant, TypeOK, outcome, batch
<1>5. QueuesWellFormed'
    BY <1>1, <1>3 DEF TypeInvariant, QueuesWellFormed, IsInference, IsFinetuning
<1> QED BY <1>1, <1>4, <1>5 DEF TypeInvariant, RowsRegistered, ActiveRow, GuidOf, batch

\* Launching a well-formed batch.
LEMMA LaunchTypeInvariant ==
    ASSUME TypeInvariant, NEW bc \in BatchConfig, RowsRegistered(bc), Launch(bc)
    PROVE  TypeInvariant'
<1>1. /\ old_bc' = bc /\ new_bc' = EmptyBatch /\ result' = {} /\ step' = "inference"
      /\ UNCHANGED << registry, outcome, inference_finished, row, key_cache >>
    BY DEF Launch
<1>2. TypeOK'
    BY <1>1, EmptyBatchType DEF TypeInvariant, TypeOK, registry, outcome
<1>3. RowsRegistered(old_bc)'
    BY <1>1 DEF RowsRegistered, ActiveRow, GuidOf
<1>4. RowsRegistered(new_bc)'
    BY <1>1, EmptyBatchRegistered DEF RowsRegistered, ActiveRow, GuidOf
<1>5. QueuesWellFormed'
    BY <1>1 DEF TypeInvariant, QueuesWellFormed, IsInference, IsFinetuning, registry
<1> QED BY <1>2, <1>3, <1>4, <1>5 DEF TypeInvariant

\* The head of the finetuning queue, and the size of its next chunk.
LEMMA PeftHead ==
    ASSUME TypeInvariant, PeftReady
    PROVE  LET g == Head(pending_peft_request_queue)
           IN  /\ g \in Guid /\ all_requests[g] \in Request /\ IsFinetuning(g)
               /\ PeftEnabled /\ all_requests[g].finetuning \in Finetunings
               /\ EntrySize(all_requests[g]) \in Nat
               /\ num_peft_tokens(all_requests[g]) \in Int
               /\ num_peft_tokens(all_requests[g]) <= MaxTokens - new_bc.num_tokens
<1> DEFINE q == pending_peft_request_queue
           g == Head(q)
           r == all_requests[g]
           d == r.finetuning.dataset
<1>1. q \in Seq(Guid) /\ q # << >>
    BY DEF PeftReady, TypeInvariant, TypeOK
<1>2. g \in Guid /\ 1 \in DOMAIN q /\ g = q[1]
    BY <1>1, TailWellFormed
<1>3. r \in Request
    BY <1>2 DEF TypeInvariant, TypeOK
<1>4. IsFinetuning(g) /\ PeftEnabled /\ r.finetuning \in Finetunings
    BY <1>2 DEF TypeInvariant, QueuesWellFormed, IsFinetuning
<1>5. d \in Seq(Nat) /\ d # << >>
    BY <1>4, ConstantsAssumption DEF Finetuning
<1>6. r.completed_training_steps \in Nat /\ r.dataset_entry_processed_tokens \in Nat
    BY <1>3 DEF Request
<1>7. 1 + (r.completed_training_steps % Len(d)) \in 1 .. Len(d)
  <2>1. Len(d) \in Nat /\ Len(d) > 0
      BY <1>5
  <2>2. (r.completed_training_steps % Len(d)) \in 0 .. Len(d) - 1
      BY <1>6, <2>1
  <2> QED BY <2>1, <2>2
<1>8. EntrySize(r) \in Nat
  <2>1. \A k \in 1 .. Len(d) : d[k] \in Nat
      BY <1>5
  <2>2. EntrySize(r) = d[1 + (r.completed_training_steps % Len(d))]
      BY Zenon DEF EntrySize
  <2> QED BY <1>7, <2>1, <2>2
<1>9. new_bc.num_tokens \in Nat
    BY DEF TypeInvariant, TypeOK, BatchConfig
<1>10. /\ num_peft_tokens(r) \in Int
       /\ num_peft_tokens(r) <= MaxTokens - new_bc.num_tokens
    BY <1>6, <1>8, <1>9, ConstantsAssumption DEF num_peft_tokens, Smaller
<1> QED BY <1>2, <1>3, <1>4, <1>8, <1>10

\* The finetuning row of the next batch, if it has any tokens: the next tokens of
\* the dataset entry of the head of the queue.
LEMMA PeftChunk ==
    ASSUME TypeInvariant, SchedulePeft
    PROVE  LET g == Head(pending_peft_request_queue)
               n == num_peft_tokens(all_requests[g])
           IN  /\ step = "schedule" /\ PeftReady /\ ~Completed(g)
               /\ all_requests[g].completed_training_steps
                    < all_requests[g].finetuning.max_training_steps
               /\ \/ n <= 0 /\ Launch(new_bc)
                  \/ /\ n > 0
                     /\ \E info \in PerRequestInfo :
                          /\ Launch(PutPeftRow(new_bc, info))
                          /\ info.request_guid = g
                          /\ info.first_token_depth_in_request
                               = all_requests[g].dataset_entry_processed_tokens
                          /\ info.first_token_offset_in_batch = new_bc.num_tokens
                          /\ info.num_tokens_in_batch = n
<1> DEFINE g       == Head(pending_peft_request_queue)
           request == all_requests[g]
           n       == num_peft_tokens(request)
           tasks   == set_optimizer_tasks(
                          request.finetuning.max_training_steps,
                          request.completed_training_steps,
                          request.finetuning.gradient_accumulation_steps)
           info    == [NoRequestInfo EXCEPT
                         !.request_guid = g,
                         !.first_token_depth_in_request =
                             request.dataset_entry_processed_tokens,
                         !.first_token_offset_in_batch = new_bc.num_tokens,
                         !.num_tokens_in_batch = n,
                         !.max_sequence_length = request.max_sequence_length,
                         !.peft_bwd = TRUE,
                         !.optimizer_tasks = tasks]
<1>1. /\ step = "schedule" /\ PeftReady /\ ~Completed(g)
      /\ request.completed_training_steps < request.finetuning.max_training_steps
      /\ Launch(IF n > 0 THEN PutPeftRow(new_bc, info) ELSE new_bc)
    BY DEF SchedulePeft, PeftAsserts
<1>2. g \in Guid /\ request \in Request /\ n \in Int
    BY <1>1, PeftHead
<1>3. tasks \in OptimizerTasks
    BY DEF set_optimizer_tasks, OptimizerTasks
<1>4. /\ request.dataset_entry_processed_tokens \in Nat
      /\ request.max_sequence_length \in Nat
    BY <1>2 DEF Request
<1>5. new_bc.num_tokens \in Nat
    BY DEF TypeInvariant, TypeOK, BatchConfig
<1> HIDE DEF n, tasks, request, g
<1>6. /\ info \in PerRequestInfo /\ info.request_guid = g
      /\ info.first_token_depth_in_request = request.dataset_entry_processed_tokens
      /\ info.first_token_offset_in_batch = new_bc.num_tokens
      /\ info.num_tokens_in_batch = n
    BY <1>2, <1>3, <1>4, <1>5 DEF NoRequestInfo, PerRequestInfo
<1> HIDE DEF info
<1>7. CASE n > 0
    BY <1>1, <1>6, <1>7 DEF n, request, g
<1>8. CASE ~(n > 0)
    BY <1>1, <1>2, <1>8 DEF n, request, g
<1> QED BY <1>7, <1>8

\* Scheduling the finetuning row keeps the type invariant.
LEMMA SchedulePeftTypeInvariant ==
    ASSUME TypeInvariant, SchedulePeft
    PROVE  TypeInvariant'
<1> DEFINE g == Head(pending_peft_request_queue)
<1>1. PeftReady
    BY PeftChunk
<1>2. g \in Guid /\ PeftEnabled
    BY <1>1, PeftHead
<1>3. new_bc \in BatchConfig /\ RowsRegistered(new_bc)
    BY DEF TypeInvariant, TypeOK
<1>4. CASE Launch(new_bc)
    BY <1>3, <1>4, LaunchTypeInvariant
<1>5. CASE \E info \in PerRequestInfo :
             Launch(PutPeftRow(new_bc, info)) /\ info.request_guid = g
  <2>1. PICK info \in PerRequestInfo :
            Launch(PutPeftRow(new_bc, info)) /\ info.request_guid = g
      BY <1>5
  <2>2. PutPeftRow(new_bc, info) \in BatchConfig
        /\ RowsRegistered(PutPeftRow(new_bc, info))
      BY <1>2, <1>3, <2>1, PutPeftRowType, PutPeftRowRegistered
  <2> QED BY <2>1, <2>2, LaunchTypeInvariant
<1> QED BY <1>4, <1>5, PeftChunk

\* Launching a batch without a finetuning row keeps the type invariant.
LEMMA ScheduleNoneTypeInvariant ==
    ASSUME TypeInvariant, ScheduleNone
    PROVE  TypeInvariant'
<1>1. new_bc \in BatchConfig /\ RowsRegistered(new_bc) /\ Launch(new_bc)
    BY DEF ScheduleNone, TypeInvariant, TypeOK
<1> QED BY <1>1, LaunchTypeInvariant

\* The ends of the loops, the absence of a finetuning row, and the flag.
LEMMA ControlTypeInvariant ==
    ASSUME TypeInvariant,
           CarryDone \/ AdmitDone \/ TrainSkip
             \/ (\E finished \in BOOLEAN : set_inference_finished(finished))
    PROVE  TypeInvariant'
<1>1. /\ row \in 0 .. MaxRequests /\ 0 \in 0 .. MaxRequests /\ result \subseteq Slot
      /\ inference_finished \in BOOLEAN
      /\ step \in {"inference", "result", "carry", "admit", "peft", "schedule"}
      /\ key_cache \in [Row -> [request_guid : Guid \cup {NoGuid}, depth : Nat]]
    BY ConstantsAssumption DEF TypeInvariant, TypeOK
<1>2. CASE CarryDone
    BY <1>1, <1>2, StutterTypeInvariant DEF CarryDone
<1>3. CASE AdmitDone
    BY <1>1, <1>3, StutterTypeInvariant DEF AdmitDone
<1>4. CASE TrainSkip
    BY <1>1, <1>4, StutterTypeInvariant DEF TrainSkip
<1>5. CASE \E finished \in BOOLEAN : set_inference_finished(finished)
    BY <1>1, <1>5, StutterTypeInvariant DEF set_inference_finished, batch
<1> QED BY <1>2, <1>3, <1>4, <1>5

\* A step of the request manager, one lemma for each action.
LEMMA NextTypeInvariant ==
    ASSUME TypeInvariant, [Next]_vars
    PROVE  TypeInvariant'
<1>1. ASSUME NEW prompt \in Prompts, register_new_request(prompt)
      PROVE  TypeInvariant'
    BY <1>1, RegisterTypeInvariant
<1>2. ASSUME NEW f \in Finetunings, register_new_peft_request(f)
      PROVE  TypeInvariant'
    BY <1>2, RegisterPeftTypeInvariant
<1>3. CASE Inference
    BY <1>3, InferenceTypeInvariant
<1>4. CASE AppendTokens
    BY <1>4, AppendTokensTypeInvariant
<1>5. ASSUME NEW i \in InfrRow,
             CarrySkip(i) \/ CompleteRequest(i) \/ CarryDecoding(i) \/ CarryPrompt(i)
               \/ AdmitSkip(i) \/ AdmitRequest(i)
      PROVE  TypeInvariant'
    BY <1>5, CarrySkipTypeInvariant, CompleteRequestTypeInvariant, CarryTypeInvariant,
       AdmitRequestTypeInvariant
<1>6. CASE CarryDone \/ AdmitDone \/ TrainSkip
             \/ (\E finished \in BOOLEAN : set_inference_finished(finished))
    BY <1>6, ControlTypeInvariant
<1>7. CASE TrainRow
    BY <1>7, TrainRowTypeInvariant
<1>8. CASE PopPeft
    BY <1>8, PopPeftTypeInvariant
<1>9. CASE SchedulePeft
    BY <1>9, SchedulePeftTypeInvariant
<1>10. CASE ScheduleNone
    BY <1>10, ScheduleNoneTypeInvariant
<1>11. CASE UNCHANGED vars
    BY <1>11 DEF vars, registry, outcome, batch, TypeInvariant, TypeOK, QueuesWellFormed,
                 RowsRegistered, ActiveRow, GuidOf, IsInference, IsFinetuning
<1> QED
    BY <1>1, <1>2, <1>3, <1>4, <1>5, <1>6, <1>7, <1>8, <1>9, <1>10, <1>11
    DEF Next, Server, Client, PrepareNextBatch

\* The variables keep their types, and with them the queues and the batches name
\* registered requests only: no step of registration or of prepare_next_batch
\* produces a row index, a slot, a guid or a count out of range.
THEOREM TypeCorrect == Spec => []TypeInvariant
<1>1. Init => TypeInvariant
    BY InitTypeInvariant
<1>2. TypeInvariant /\ [Next]_vars => TypeInvariant'
    BY NextTypeInvariant
<1> QED BY <1>1, <1>2, PTL DEF Spec

\* Type correctness of the request manager: registration and every loop of
\* prepare_next_batch keep every variable, the two batches included, in its type.
THEOREM TypeSafe == Spec => []TypeOK
<1>1. TypeInvariant => TypeOK
    BY DEF TypeInvariant
<1> QED BY <1>1, TypeCorrect, PTL

-----------------------------------------------------------------------------
(* The capacity of a batch. *)

\* A batch has finitely many active inference rows.
LEMMA InfrRowsFinite ==
    ASSUME NEW S, S \subseteq InfrRow
    PROVE  IsFiniteSet(S) /\ Cardinality(S) \in Nat
<1>1. inference_batch_size - 1 \in Int
    BY RowSubsets, ConstantsAssumption
<1>2. IsFiniteSet(InfrRow)
    BY <1>1, FS_Interval, 0 \in Int DEF InfrRow
<1> QED BY <1>2, FS_Subset, FS_CardinalityType

\* The empty batch is within the budget.
LEMMA EmptyBatchWithin == BatchWithin(EmptyBatch)
<1>1. ActiveRow(EmptyBatch) = {} /\ EmptyBatch.num_tokens = 0
    BY DEF ActiveRow, EmptyBatch
<1>2. Cardinality(ActiveRow(EmptyBatch) \cap InfrRow) = 0
  <2>1. ActiveRow(EmptyBatch) \cap InfrRow = {}
      BY <1>1
  <2> QED BY <2>1, FS_EmptySet
<1> QED BY <1>1, <1>2, ConstantsAssumption DEF BatchWithin

\* An inference row with at least one token, for which there is room, keeps a
\* batch within its bounds: one more row costs at least one more token.
LEMMA PutRowWithin ==
    ASSUME NEW bc \in BatchConfig, BatchWithin(bc), NEW r \in InfrRow,
           NEW info \in PerRequestInfo, NEW decoding \in BOOLEAN,
           info.num_tokens_in_batch > 0,
           bc.num_tokens + info.num_tokens_in_batch <= MaxTokens
    PROVE  /\ BatchWithin(PutRow(bc, r, info, decoding))
           /\ PutRow(bc, r, info, decoding).num_tokens
                = bc.num_tokens + info.num_tokens_in_batch
<1> DEFINE new == PutRow(bc, r, info, decoding)
           old_rows == ActiveRow(bc) \cap InfrRow
           new_rows == ActiveRow(new) \cap InfrRow
<1>1. /\ new.request_completed = [bc.request_completed EXCEPT ![r] = FALSE]
      /\ new.requestsInfo = [bc.requestsInfo EXCEPT ![r] = info]
      /\ new.num_tokens = bc.num_tokens + Written(info)
    BY DEF PutRow, BatchConfig
<1>2. Written(info) = info.num_tokens_in_batch
    BY DEF Written
<1> HIDE DEF new
<1>3. r \in Row /\ bc.num_tokens \in Nat /\ info.num_tokens_in_batch \in Int
    BY RowSubsets DEF BatchConfig, PerRequestInfo
<1>4. new_rows \subseteq old_rows \cup {r}
    BY <1>1 DEF ActiveRow, BatchConfig
<1>5. IsFiniteSet(old_rows) /\ Cardinality(old_rows) \in Nat
      /\ IsFiniteSet(new_rows) /\ Cardinality(new_rows) \in Nat
    BY InfrRowsFinite
<1>6. Cardinality(new_rows) <= Cardinality(old_rows) + 1
  <2>1. IsFiniteSet(old_rows \cup {r})
        /\ Cardinality(old_rows \cup {r}) <= Cardinality(old_rows) + 1
    <3>1. CASE r \in old_rows
      <4>1. old_rows \cup {r} = old_rows
          BY <3>1
      <4>2. Cardinality(old_rows) <= Cardinality(old_rows) + 1
          BY <1>5
      <4> HIDE DEF old_rows
      <4> QED BY <1>5, <4>1, <4>2, Zenon
    <3>2. CASE r \notin old_rows
      <4>1. Cardinality(old_rows \cup {r}) = Cardinality(old_rows) + 1
            /\ IsFiniteSet(old_rows \cup {r})
          BY <1>5, <3>2, FS_AddElement
      <4> QED BY <1>5, <4>1
    <3> QED BY <3>1, <3>2
  <2>2. Cardinality(new_rows) <= Cardinality(old_rows \cup {r})
      BY <1>4, <2>1, FS_Subset
  <2>3. Cardinality(old_rows \cup {r}) \in Nat
      BY <2>1, FS_CardinalityType
  <2> QED BY <1>5, <2>1, <2>2, <2>3
<1>7. ASSUME NEW q \in ActiveRow(new)
      PROVE  new.requestsInfo[q].num_tokens_in_batch > 0
  <2>1. CASE q = r
      BY <1>1, <1>3, <2>1 DEF BatchConfig
  <2>2. CASE q # r
    <3>1. q \in ActiveRow(bc) /\ new.requestsInfo[q] = bc.requestsInfo[q]
        BY <1>1, <1>7, <2>2 DEF ActiveRow, BatchConfig
    <3> QED BY <3>1 DEF BatchWithin
  <2> QED BY <2>1, <2>2
<1>8. Cardinality(old_rows) <= bc.num_tokens
    BY DEF BatchWithin
<1>9. Cardinality(new_rows) <= new.num_tokens
    BY <1>1, <1>2, <1>3, <1>5, <1>6, <1>8
<1>10. new.num_tokens <= MaxTokens
    BY <1>1, <1>2
<1> QED BY <1>1, <1>2, <1>7, <1>9, <1>10 DEF BatchWithin, new

\* The same for the finetuning row, which is no inference row.
LEMMA PutPeftRowWithin ==
    ASSUME PeftEnabled, NEW bc \in BatchConfig, BatchWithin(bc),
           NEW info \in PerRequestInfo, info.num_tokens_in_batch > 0,
           bc.num_tokens + info.num_tokens_in_batch <= MaxTokens
    PROVE  BatchWithin(PutPeftRow(bc, info))
<1> DEFINE new == PutPeftRow(bc, info)
<1>1. /\ new.request_completed = [bc.request_completed EXCEPT ![PeftRow] = FALSE]
      /\ new.requestsInfo = [bc.requestsInfo EXCEPT ![PeftRow] = info]
      /\ new.num_tokens = bc.num_tokens + Written(info)
    BY DEF PutPeftRow, BatchConfig
<1>2. Written(info) = info.num_tokens_in_batch
    BY DEF Written
<1> HIDE DEF new
<1>3. PeftRow \in Row /\ PeftRow \notin InfrRow
      /\ bc.num_tokens \in Nat /\ info.num_tokens_in_batch \in Int
    BY RowSubsets DEF BatchConfig, PerRequestInfo
<1>4. ActiveRow(new) \cap InfrRow = ActiveRow(bc) \cap InfrRow
    BY <1>1, <1>3 DEF ActiveRow, BatchConfig
<1>5. ASSUME NEW q \in ActiveRow(new)
      PROVE  new.requestsInfo[q].num_tokens_in_batch > 0
  <2>1. CASE q = PeftRow
      BY <1>1, <1>3, <2>1 DEF BatchConfig
  <2>2. CASE q # PeftRow
    <3>1. q \in ActiveRow(bc) /\ new.requestsInfo[q] = bc.requestsInfo[q]
        BY <1>1, <1>5, <2>2 DEF ActiveRow, BatchConfig
    <3> QED BY <3>1 DEF BatchWithin
  <2> QED BY <2>1, <2>2
<1>6. Cardinality(ActiveRow(bc) \cap InfrRow) \in Nat
    BY InfrRowsFinite
<1>7. Cardinality(ActiveRow(new) \cap InfrRow) <= new.num_tokens
  <2>1. Cardinality(ActiveRow(bc) \cap InfrRow) <= bc.num_tokens
      BY DEF BatchWithin
  <2>2. Cardinality(ActiveRow(new) \cap InfrRow) <= bc.num_tokens
      BY <1>4, <2>1
  <2>3. Cardinality(ActiveRow(new) \cap InfrRow) \in Nat
      BY <1>4, <1>6
  <2> HIDE DEF new
  <2> QED BY <1>1, <1>2, <1>3, <2>2, <2>3
<1> QED BY <1>1, <1>2, <1>5, <1>7 DEF BatchWithin, new

\* Reaching row i of the loop leaves one row less to come if it goes on, and as
\* many if it does not.
LEMMA ContinuingStep ==
    ASSUME NEW i \in InfrRow
    PROVE  /\ OldRow(i) /\ ~check_inf_req_completion(old_bc, i) =>
                 Cardinality(Continuing(i)) = Cardinality(Continuing(i + 1)) + 1
           /\ old_bc.request_completed[i] \/ check_inf_req_completion(old_bc, i) =>
                 Continuing(i + 1) = Continuing(i)
<1>1. \A j \in InfrRow : j >= i <=> j = i \/ j >= i + 1
    BY RowSubsets, ConstantsAssumption DEF InfrRow
<1>2. ASSUME OldRow(i), ~check_inf_req_completion(old_bc, i)
      PROVE  Cardinality(Continuing(i)) = Cardinality(Continuing(i + 1)) + 1
  <2>1. Continuing(i) = Continuing(i + 1) \cup {i} /\ i \notin Continuing(i + 1)
    <3>1. ~(i >= i + 1) /\ i >= i
        BY RowSubsets, ConstantsAssumption DEF InfrRow
    <3> QED BY <1>1, <1>2, <3>1 DEF Continuing, OldRow
  <2>2. IsFiniteSet(Continuing(i + 1))
      BY ContinuingFinite
  <2> QED BY <2>1, <2>2, FS_AddElement
<1>3. ASSUME old_bc.request_completed[i] \/ check_inf_req_completion(old_bc, i)
      PROVE  Continuing(i + 1) = Continuing(i)
    BY <1>1, <1>3 DEF Continuing
<1> QED BY <1>2, <1>3

\* What CapacityInvariant adds to TypeInvariant.
Within ==
    /\ QueuedNonEmpty
    /\ BatchWithin(old_bc)
    /\ BatchWithin(new_bc)
    /\ RoomForCarried

\* The queued requests stay non-empty if no request in the queue loses tokens.
LEMMA QueuedKept ==
    ASSUME TypeInvariant, QueuedNonEmpty,
           pending_infr_request_queue' = pending_infr_request_queue,
           \A g \in Guid : all_requests[g].tokens > 0 => all_requests'[g].tokens > 0
    PROVE  QueuedNonEmpty'
<1>1. \A k \in DOMAIN pending_infr_request_queue : pending_infr_request_queue[k] \in Guid
    BY DEF TypeInvariant, TypeOK
<1> QED BY <1>1 DEF QueuedNonEmpty

\* A step that leaves the batches and the loop alone keeps them within the
\* budget.
LEMMA BatchesKept ==
    ASSUME Within, UNCHANGED << old_bc, new_bc >>
    PROVE  BatchWithin(old_bc)' /\ BatchWithin(new_bc)'
BY DEF Within, BatchWithin, ActiveRow

\* Outside the loop over the old rows no room need be left for them.
LEMMA NoRoomNeeded ==
    ASSUME step' # "carry"
    PROVE  RoomForCarried'
BY DEF RoomForCarried

\* Registering an inference request, not an empty one, keeps the capacity part.
LEMMA RegisterWithin ==
    ASSUME NonEmptyPrompts, TypeInvariant, Within,
           NEW prompt \in Prompts, register_new_request(prompt)
    PROVE  Within'
<1> DEFINE g == next_available_guid
<1>1. LockFree /\ UNCHANGED batch
    BY DEF register_new_request, Refuse
<1>2. BatchWithin(old_bc)' /\ BatchWithin(new_bc)' /\ RoomForCarried'
    BY <1>1, BatchesKept, NoRoomNeeded DEF batch, LockFree
<1>3. CASE prompt.size >= MaxSeqLen
  <2>1. UNCHANGED << all_requests, pending_infr_request_queue >>
      BY <1>3 DEF register_new_request, Refuse
  <2> QED BY <1>2, <2>1, QueuedKept DEF Within
<1>4. CASE ~(prompt.size >= MaxSeqLen)
  <2>1. g \in Guid
      BY ConstantsAssumption DEF register_new_request, TypeInvariant, TypeOK, Guid
  <2>2. /\ pending_infr_request_queue' = Append(pending_infr_request_queue, g)
        /\ \A h \in Guid : h # g => all_requests'[h] = all_requests[h]
        /\ all_requests'[g].tokens = Bos + prompt.size
    <3>1. all_requests \in [Guid -> Request]
        BY DEF TypeInvariant, TypeOK
    <3> DEFINE r == [NoRequest EXCEPT !.req_type = "REQ_INFERENCE",
                                      !.tokens = Bos + prompt.size,
                                      !.initial_len = Bos + prompt.size,
                                      !.eos = prompt.eos,
                                      !.max_sequence_length = prompt.max_sequence_length]
    <3>2. all_requests' = [all_requests EXCEPT ![g] = r]
        BY <1>4 DEF register_new_request
    <3>3. pending_infr_request_queue' = Append(pending_infr_request_queue, g)
        BY <1>4 DEF register_new_request
    <3>4. r.tokens = Bos + prompt.size
        BY DEF NoRequest
    <3> HIDE DEF r
    <3> QED BY <2>1, <3>1, <3>2, <3>3, <3>4
  <2>3. ASSUME NEW k \in DOMAIN pending_infr_request_queue'
        PROVE  all_requests'[pending_infr_request_queue'[k]].tokens > 0
    <3>1. CASE k \in DOMAIN pending_infr_request_queue
      <4>1. /\ pending_infr_request_queue'[k] = pending_infr_request_queue[k]
            /\ pending_infr_request_queue[k] \in Guid
            /\ pending_infr_request_queue[k] < g
            /\ all_requests[pending_infr_request_queue[k]].tokens > 0
          BY <2>2, <3>1 DEF TypeInvariant, TypeOK, QueuesWellFormed, Within, QueuedNonEmpty
      <4> QED BY <2>1, <2>2, <4>1 DEF Guid
    <3>2. CASE k \notin DOMAIN pending_infr_request_queue
      <4>1. pending_infr_request_queue'[k] = g
          BY <2>2, <3>2 DEF TypeInvariant, TypeOK
      <4>2. Bos + prompt.size > 0
          BY DEF NonEmptyPrompts
      <4> QED BY <2>2, <4>1, <4>2
    <3> QED BY <3>1, <3>2
  <2> QED BY <1>2, <2>3 DEF Within, QueuedNonEmpty
<1> QED BY <1>3, <1>4

\* Registering a finetuning request keeps the capacity part.
LEMMA RegisterPeftWithin ==
    ASSUME TypeInvariant, Within, NEW f \in Finetunings, register_new_peft_request(f)
    PROVE  Within'
<1> DEFINE g == next_available_guid
<1>1. LockFree /\ UNCHANGED << batch, pending_infr_request_queue >>
    BY DEF register_new_peft_request, Refuse
<1>2. BatchWithin(old_bc)' /\ BatchWithin(new_bc)' /\ RoomForCarried'
    BY <1>1, BatchesKept, NoRoomNeeded DEF batch, LockFree
<1>3. ASSUME NEW k \in DOMAIN pending_infr_request_queue
      PROVE  all_requests'[pending_infr_request_queue[k]].tokens > 0
  <2>1. /\ pending_infr_request_queue[k] \in Guid
        /\ pending_infr_request_queue[k] < g
        /\ all_requests[pending_infr_request_queue[k]].tokens > 0
        /\ g \in Nat
      BY DEF TypeInvariant, TypeOK, QueuesWellFormed, Within, QueuedNonEmpty
  <2>2. \A h \in Guid : h # g => all_requests'[h] = all_requests[h]
      BY DEF register_new_peft_request, Refuse, TypeInvariant, TypeOK
  <2> QED BY <2>1, <2>2 DEF Guid
<1> QED BY <1>1, <1>2, <1>3 DEF Within, QueuedNonEmpty

\* Step 1 keeps the capacity part, and leaves room for every row it carries over.
LEMMA AppendTokensWithin ==
    ASSUME TypeInvariant, Within, AppendTokens
    PROVE  Within'
<1>1. /\ old_bc' = old_bc /\ new_bc' = EmptyBatch /\ row' = 0
      /\ pending_infr_request_queue' = pending_infr_request_queue
    BY DEF AppendTokens
<1>2. BatchWithin(old_bc)' /\ BatchWithin(new_bc)'
    BY <1>1, EmptyBatchWithin DEF Within, BatchWithin, ActiveRow
<1>3. QueuedNonEmpty'
  <2>1. ASSUME NEW g \in Guid, all_requests[g].tokens > 0
        PROVE  all_requests'[g].tokens > 0
    <3>1. all_requests[g].tokens \in Nat /\ all_requests'[g].tokens \in Nat
        BY AppendTokensRequest DEF TypeInvariant, TypeOK, Request
    <3> QED BY <2>1, <3>1, AppendTokensRequest
  <2> QED BY <1>1, <2>1, QueuedKept DEF Within
<1>4. RoomForCarried'
  <2> DEFINE rows == ActiveRow(old_bc) \cap InfrRow
             left == Continuing(0)'
  <2>1. left \subseteq rows
      BY <1>1, RowSubsets DEF Continuing, ActiveRow
  <2>2. IsFiniteSet(rows) /\ Cardinality(rows) \in Nat
      BY InfrRowsFinite
  <2>3. Cardinality(left) <= Cardinality(rows) /\ Cardinality(left) \in Nat
      BY <2>1, <2>2, FS_Subset, FS_CardinalityType
  <2>4. Cardinality(rows) <= old_bc.num_tokens /\ old_bc.num_tokens <= MaxTokens
      BY DEF Within, BatchWithin
  <2>5. old_bc.num_tokens \in Nat
      BY DEF TypeInvariant, TypeOK, BatchConfig
  <2>6. new_bc'.num_tokens = 0
      BY <1>1 DEF EmptyBatch
  <2> HIDE DEF rows, left
  <2>7. 0 + Cardinality(left) <= MaxTokens
      BY <2>2, <2>3, <2>4, <2>5, ConstantsAssumption
  <2>8. new_bc'.num_tokens + Cardinality(Continuing(row))' <= MaxTokens
      BY <1>1, <2>6, <2>7 DEF left
  <2> QED BY <2>8 DEF RoomForCarried
<1> QED BY <1>2, <1>3, <1>4 DEF Within

\* A row that is skipped, or whose request completes, leaves the capacity part as
\* it is.
LEMMA RowStepWithin ==
    ASSUME TypeInvariant, Within, NEW i \in InfrRow,
           CarrySkip(i) \/ CompleteRequest(i) \/ AdmitSkip(i)
    PROVE  Within'
<1>1. UNCHANGED << old_bc, new_bc, pending_infr_request_queue, step >>
      /\ row = i /\ row' = i + 1
    BY DEF CarrySkip, CompleteRequest, AdmitSkip, OldRow, NextRow, registry
<1>2. \A g \in Guid : /\ all_requests'[g].tokens = all_requests[g].tokens
                      /\ all_requests'[g].eos = all_requests[g].eos
  <2>1. CASE CarrySkip(i) \/ AdmitSkip(i)
      BY <2>1 DEF CarrySkip, AdmitSkip, registry
  <2>2. CASE CompleteRequest(i)
    <3>1. OldRow(i)
        BY <2>2 DEF CompleteRequest
    <3> DEFINE g == GuidOf(old_bc, i)
    <3>2. g \in Guid /\ all_requests[g] \in Request
        BY <3>1, OldRowType
    <3>3. all_requests' = [all_requests EXCEPT
                             ![g] = [all_requests[g] EXCEPT !.status = "COMPLETED"]]
        BY <2>2 DEF CompleteRequest, GuidOf
    <3> HIDE DEF g
    <3> QED BY <3>2, <3>3, CompletedType DEF TypeInvariant, TypeOK
  <2> QED BY <2>1, <2>2
<1>3. QueuedNonEmpty'
    BY <1>1, <1>2, QueuedKept DEF Within
<1>4. RoomForCarried'
  <2> SUFFICES ASSUME step = "carry"
               PROVE  RoomForCarried'
      BY <1>1 DEF RoomForCarried
  <2>1. old_bc.request_completed[i] \/ check_inf_req_completion(old_bc, i)
      BY DEF CarrySkip, CompleteRequest, AdmitSkip
  <2>2. Continuing(i + 1) = Continuing(i)
      BY <2>1, ContinuingStep
  <2>3. ASSUME NEW ii \in InfrRow, ~old_bc.request_completed[ii]
        PROVE  check_inf_req_completion(old_bc, ii)' = check_inf_req_completion(old_bc, ii)
    <3>1. GuidOf(old_bc, ii) \in Guid
        BY <2>3, RowSubsets DEF TypeInvariant, RowsRegistered, ActiveRow
    <3> QED BY <1>1, <1>2, <3>1 DEF check_inf_req_completion, GuidOf
  <2>4. Continuing(row)' = Continuing(i + 1)
      BY <1>1, <2>3 DEF Continuing
  <2>5. new_bc.num_tokens + Cardinality(Continuing(i)) <= MaxTokens
      BY <1>1 DEF Within, RoomForCarried
  <2> QED BY <1>1, <2>2, <2>4, <2>5 DEF RoomForCarried
<1> QED BY <1>1, <1>3, <1>4, BatchesKept DEF Within

\* The next chunk of a row that is carried over is not empty and leaves a slot to
\* every row to come; a chunk that is not all that is left takes every other slot.
LEMMA CarryChunk ==
    ASSUME TypeInvariant, Within, NEW i \in InfrRow, CarryDecoding(i) \/ CarryPrompt(i)
    PROVE  \E n \in Int, p, d \in BOOLEAN :
              /\ new_bc' = PutRow(new_bc, i, CarriedInfo(i, n, p), d)
              /\ n > 0 /\ n <= Unprocessed(i)
              /\ new_bc.num_tokens + n + Cardinality(Continuing(i + 1)) <= MaxTokens
              /\ n < Unprocessed(i) =>
                   p /\ new_bc.num_tokens + n + Cardinality(Continuing(i + 1)) = MaxTokens
<1> DEFINE later == Cardinality(Continuing(i + 1))
<1>1. /\ OldRow(i) /\ ~check_inf_req_completion(old_bc, i)
      /\ row = i /\ step = "carry"
    BY CarryStep
<1>2. new_bc.num_tokens \in Nat /\ later \in Nat
    BY ContinuingFinite DEF TypeInvariant, TypeOK, BatchConfig
<1>3. new_bc.num_tokens + later + 1 <= MaxTokens
  <2>1. new_bc.num_tokens + Cardinality(Continuing(i)) <= MaxTokens
      BY <1>1 DEF Within, RoomForCarried
  <2>2. Cardinality(Continuing(i)) = later + 1
      BY <1>1, ContinuingStep
  <2> HIDE DEF later
  <2> QED BY <1>2, <2>1, <2>2, ConstantsAssumption
<1>4. Unprocessed(i) \in Int /\ Unprocessed(i) > 0
    BY <1>1, OldRowType
<1>5. CASE CarryDecoding(i)
  <2>1. new_bc' = PutRow(new_bc, i, CarriedInfo(i, 1, FALSE), TRUE) /\ Unprocessed(i) = 1
      BY <1>5 DEF CarryDecoding
  <2>2. 1 > 0 /\ new_bc.num_tokens + 1 + later <= MaxTokens
    <3> HIDE DEF later
    <3> QED BY <1>2, <1>3, ConstantsAssumption
  <2> WITNESS 1 \in Int, FALSE \in BOOLEAN, TRUE \in BOOLEAN
  <2> QED BY <2>1, <2>2
<1>6. CASE CarryPrompt(i)
  <2> DEFINE n == Smaller(MaxTokens - new_bc.num_tokens - later, Unprocessed(i))
  <2>1. new_bc' = PutRow(new_bc, i, CarriedInfo(i, n, TRUE), FALSE)
      BY <1>6 DEF CarryPrompt, space_for_incr_dec_requests
  <2>2. /\ n \in Int /\ n > 0 /\ n <= Unprocessed(i)
        /\ new_bc.num_tokens + n + later <= MaxTokens
        /\ n < Unprocessed(i) => new_bc.num_tokens + n + later = MaxTokens
    <3> DEFINE free == MaxTokens - new_bc.num_tokens - later
               left == Unprocessed(i)
    <3>1. free \in Int /\ free >= 1 /\ new_bc.num_tokens + free + later = MaxTokens
      <4> HIDE DEF later
      <4> QED BY <1>2, <1>3, ConstantsAssumption
    <3> HIDE DEF free, later, left
    <3>2. left \in Int /\ left > 0
        BY <1>4 DEF left
    <3>3. \/ Smaller(free, left) = free /\ free <= left
          \/ Smaller(free, left) = left /\ left < free
        BY <3>1, <3>2 DEF Smaller
    <3>4. n = Smaller(free, left)
        BY DEF free, left
    <3> HIDE DEF n
    <3>5. /\ n \in Int /\ n > 0 /\ n <= left
          /\ new_bc.num_tokens + n + later <= MaxTokens
          /\ n < left => new_bc.num_tokens + n + later = MaxTokens
        BY <1>2, <3>1, <3>2, <3>3, <3>4, ConstantsAssumption
    <3> QED BY <3>5 DEF left
  <2> HIDE DEF n, later
  <2> n \in Int
      BY <2>2
  <2> WITNESS n \in Int, TRUE \in BOOLEAN, FALSE \in BOOLEAN
  <2> QED BY <2>1, <2>2 DEF later
<1> QED BY <1>5, <1>6

\* The room left for a row is enough for its token, and what a prompt may take
\* beyond it leaves the room of the rows after it untouched.
LEMMA CarryWithin ==
    ASSUME TypeInvariant, Within, NEW i \in InfrRow, CarryDecoding(i) \/ CarryPrompt(i)
    PROVE  Within'
<1> DEFINE later == Cardinality(Continuing(i + 1))
<1>1. /\ OldRow(i) /\ row' = i + 1 /\ UNCHANGED << registry, step, old_bc >>
    BY CarryStep
<1>2. new_bc.num_tokens \in Nat /\ later \in Nat /\ new_bc \in BatchConfig
    BY ContinuingFinite DEF TypeInvariant, TypeOK, BatchConfig
<1>3. PICK n \in Int, p \in BOOLEAN, d \in BOOLEAN :
          /\ new_bc' = PutRow(new_bc, i, CarriedInfo(i, n, p), d)
          /\ n > 0 /\ new_bc.num_tokens + n + later <= MaxTokens
    BY CarryChunk
<1>4. CarriedInfo(i, n, p) \in PerRequestInfo
      /\ CarriedInfo(i, n, p).num_tokens_in_batch = n
    BY <1>1, CarriedInfoType
<1>5. new_bc.num_tokens + n <= MaxTokens
  <2> HIDE DEF later
  <2> QED BY <1>2, <1>3, ConstantsAssumption
<1>6. /\ BatchWithin(PutRow(new_bc, i, CarriedInfo(i, n, p), d))
      /\ PutRow(new_bc, i, CarriedInfo(i, n, p), d).num_tokens = new_bc.num_tokens + n
    BY <1>2, <1>3, <1>4, <1>5, PutRowWithin DEF Within
<1>7. BatchWithin(new_bc)' /\ new_bc'.num_tokens = new_bc.num_tokens + n
    BY <1>3, <1>6 DEF BatchWithin, ActiveRow
<1>8. BatchWithin(old_bc)'
    BY <1>1 DEF Within, BatchWithin, ActiveRow
<1>9. QueuedNonEmpty'
    BY <1>1, QueuedKept DEF Within, registry
<1>10. Continuing(row)' = Continuing(i + 1)
    BY <1>1 DEF Continuing, check_inf_req_completion, registry
<1>11. RoomForCarried'
    BY <1>3, <1>7, <1>10 DEF RoomForCarried
<1> QED BY <1>7, <1>8, <1>9, <1>11 DEF Within

\* Admitting a request keeps the capacity part.
LEMMA AdmitRequestWithin ==
    ASSUME TypeInvariant, Within, NEW i \in InfrRow, AdmitRequest(i)
    PROVE  Within'
<1> DEFINE q == pending_infr_request_queue
           g == Head(q)
<1>1. /\ q' = Tail(q) /\ q # << >> /\ q \in Seq(Guid)
      /\ new_bc.num_tokens < MaxTokens /\ step = "admit"
      /\ UNCHANGED << all_requests, step, old_bc >>
    BY AdmitChunk
<1>2. PICK info \in PerRequestInfo :
          /\ new_bc' = PutRow(new_bc, i, info, FALSE)
          /\ info.num_tokens_in_batch = Smaller(MaxTokens - new_bc.num_tokens,
                                                all_requests[g].tokens)
    BY AdmitChunk
<1>3. /\ g \in Guid /\ 1 \in DOMAIN q /\ g = q[1]
      /\ \A k \in DOMAIN Tail(q) : k + 1 \in DOMAIN q /\ Tail(q)[k] = q[k + 1]
    BY <1>1, TailWellFormed
<1>4. all_requests[g].tokens > 0
    BY <1>3 DEF Within, QueuedNonEmpty
<1> HIDE DEF g
<1>5. new_bc \in BatchConfig /\ new_bc.num_tokens \in Nat /\ all_requests[g].tokens \in Nat
    BY <1>3 DEF BatchConfig, TypeInvariant, TypeOK, Request
<1>6. info.num_tokens_in_batch > 0
      /\ new_bc.num_tokens + info.num_tokens_in_batch <= MaxTokens
    BY <1>1, <1>2, <1>4, <1>5, ConstantsAssumption DEF Smaller
<1>7. BatchWithin(PutRow(new_bc, i, info, FALSE))
    BY <1>5, <1>6, PutRowWithin DEF Within
<1>8. BatchWithin(old_bc)' /\ BatchWithin(new_bc)'
    BY <1>1, <1>2, <1>7 DEF Within, BatchWithin, ActiveRow
<1>9. QueuedNonEmpty'
    BY <1>1, <1>3 DEF Within, QueuedNonEmpty
<1> QED BY <1>1, <1>8, <1>9, NoRoomNeeded DEF Within

\* Training on the finetuning row keeps the capacity part.
LEMMA TrainRowWithin ==
    ASSUME TypeInvariant, Within, TrainRow
    PROVE  Within'
<1> DEFINE info    == old_bc.requestsInfo[PeftRow]
           g       == info.request_guid
           trained == Trained(all_requests[g], info)
<1>1. info.num_tokens_in_batch > 0 /\ PeftRow \in ActiveRow(old_bc) /\ PeftRow \in Row
    BY RowSubsets DEF TrainRow, TrainAsserts, ActiveRow
<1>2. info \in PerRequestInfo /\ g \in Guid /\ all_requests[g] \in Request
    BY <1>1 DEF TypeInvariant, TypeOK, BatchConfig, RowsRegistered, GuidOf
<1>3. trained \in Request /\ trained.tokens = all_requests[g].tokens
    BY <1>1, <1>2, TrainedType
<1>4. \/ all_requests' = [all_requests EXCEPT ![g] = [trained EXCEPT !.status = "COMPLETED"]]
      \/ all_requests' = [all_requests EXCEPT ![g] = trained]
    BY DEF TrainRow
<1>5. UNCHANGED << old_bc, new_bc, pending_infr_request_queue >> /\ step' = "schedule"
    BY DEF TrainRow
<1> HIDE DEF trained, g, info
<1>6. [trained EXCEPT !.status = "COMPLETED"].tokens = all_requests[g].tokens
    BY <1>3, CompletedType
<1>7. \A h \in Guid : all_requests'[h].tokens = all_requests[h].tokens
    BY <1>2, <1>3, <1>4, <1>6 DEF TypeInvariant, TypeOK
<1> QED BY <1>5, <1>7, QueuedKept, BatchesKept, NoRoomNeeded DEF Within

\* Launching a batch within the budget keeps the capacity part.
LEMMA LaunchWithin ==
    ASSUME TypeInvariant, Within, NEW bc \in BatchConfig, BatchWithin(bc), Launch(bc)
    PROVE  Within'
<1>1. /\ old_bc' = bc /\ new_bc' = EmptyBatch /\ step' = "inference"
      /\ UNCHANGED registry
    BY DEF Launch
<1>2. BatchWithin(old_bc)' /\ BatchWithin(new_bc)'
    BY <1>1, EmptyBatchWithin DEF BatchWithin, ActiveRow
<1> QED BY <1>1, <1>2, QueuedKept, NoRoomNeeded DEF Within, registry

\* Scheduling the finetuning row keeps the capacity part.
LEMMA SchedulePeftWithin ==
    ASSUME TypeInvariant, Within, SchedulePeft
    PROVE  Within'
<1> DEFINE n == num_peft_tokens(all_requests[Head(pending_peft_request_queue)])
<1>1. PeftReady
    BY PeftChunk
<1>2. n \in Int /\ PeftEnabled /\ n <= MaxTokens - new_bc.num_tokens
    BY <1>1, PeftHead
<1>3. new_bc \in BatchConfig /\ BatchWithin(new_bc) /\ new_bc.num_tokens \in Nat
    BY DEF TypeInvariant, TypeOK, BatchConfig, Within
<1>4. CASE Launch(new_bc)
    BY <1>3, <1>4, LaunchWithin
<1>5. CASE n > 0 /\ \E info \in PerRequestInfo :
             Launch(PutPeftRow(new_bc, info)) /\ info.num_tokens_in_batch = n
  <2>1. PICK info \in PerRequestInfo :
            Launch(PutPeftRow(new_bc, info)) /\ info.num_tokens_in_batch = n
      BY <1>5
  <2> HIDE DEF n
  <2>2. new_bc.num_tokens + n <= MaxTokens
      BY <1>2, <1>3, ConstantsAssumption
  <2>3. PutPeftRow(new_bc, info) \in BatchConfig /\ BatchWithin(PutPeftRow(new_bc, info))
      BY <1>2, <1>3, <1>5, <2>1, <2>2, PutPeftRowType, PutPeftRowWithin
  <2> QED BY <2>1, <2>3, LaunchWithin
<1> QED BY <1>4, <1>5, PeftChunk

\* Every step keeps the capacity part.
LEMMA NextWithin ==
    ASSUME NonEmptyPrompts, TypeInvariant, Within, [Next]_vars
    PROVE  Within'
<1>1. ASSUME NEW prompt \in Prompts, register_new_request(prompt)
      PROVE  Within'
    BY <1>1, RegisterWithin
<1>2. ASSUME NEW f \in Finetunings, register_new_peft_request(f)
      PROVE  Within'
    BY <1>2, RegisterPeftWithin
<1>3. CASE AppendTokens
    BY <1>3, AppendTokensWithin
<1>4. ASSUME NEW i \in InfrRow,
             CarrySkip(i) \/ CompleteRequest(i) \/ CarryDecoding(i) \/ CarryPrompt(i)
               \/ AdmitSkip(i) \/ AdmitRequest(i)
      PROVE  Within'
    BY <1>4, RowStepWithin, CarryWithin, AdmitRequestWithin
<1>5. CASE TrainRow
    BY <1>5, TrainRowWithin
<1>6. CASE SchedulePeft
    BY <1>6, SchedulePeftWithin
<1>7. CASE ScheduleNone
  <2>1. new_bc \in BatchConfig /\ BatchWithin(new_bc) /\ Launch(new_bc)
      BY <1>7 DEF ScheduleNone, TypeInvariant, TypeOK, Within
  <2> QED BY <2>1, LaunchWithin
<1>8. CASE Inference \/ CarryDone \/ AdmitDone \/ TrainSkip \/ PopPeft
  <2>1. UNCHANGED << all_requests, pending_infr_request_queue, old_bc, new_bc >>
        /\ step' # "carry"
      BY <1>8 DEF Inference, CarryDone, AdmitDone, TrainSkip, PopPeft, registry, batch
  <2> QED BY <2>1, QueuedKept, BatchesKept, NoRoomNeeded DEF Within
<1>9. CASE (\E finished \in BOOLEAN : set_inference_finished(finished)) \/ UNCHANGED vars
  <2>1. UNCHANGED << all_requests, pending_infr_request_queue, old_bc, new_bc, step, row >>
      BY <1>9 DEF set_inference_finished, vars, registry, batch
  <2>2. RoomForCarried'
      BY <2>1 DEF Within, RoomForCarried, Continuing, check_inf_req_completion
  <2> QED BY <2>1, <2>2, QueuedKept, BatchesKept DEF Within
<1> QED
    BY <1>1, <1>2, <1>3, <1>4, <1>5, <1>6, <1>7, <1>8, <1>9
    DEF Next, Server, Client, PrepareNextBatch

\* The capacity part holds initially.
LEMMA InitWithin == Init => Within
<1> SUFFICES ASSUME Init PROVE Within
    OBVIOUS
<1>1. QueuedNonEmpty /\ RoomForCarried
    BY DEF Init, QueuedNonEmpty, RoomForCarried
<1>2. BatchWithin(old_bc) /\ BatchWithin(new_bc)
    BY EmptyBatchWithin DEF Init
<1> QED BY <1>1, <1>2 DEF Within

\* If every prompt has a token, the inductive invariant of the batch's capacity
\* holds.
THEOREM CapacityInvariantHolds ==
    ASSUME NonEmptyPrompts
    PROVE  Spec => []CapacityInvariant
<1>1. Init => TypeInvariant /\ Within
    BY InitTypeInvariant, InitWithin
<1>2. (TypeInvariant /\ Within) /\ [Next]_vars => (TypeInvariant /\ Within)'
    BY NextTypeInvariant, NextWithin
<1>3. TypeInvariant /\ Within => CapacityInvariant
    BY DEF TypeInvariant, Within, CapacityInvariant
<1> QED BY <1>1, <1>2, <1>3, PTL DEF Spec

\* If every prompt has a token, no batch that prepare_next_batch launches exceeds
\* the token budget and none of its rows is empty, for every number of rows, every
\* budget and every interleaving of registrations: the room a prompt leaves to
\* the later rows is enough.
THEOREM BatchAlwaysFits ==
    ASSUME NonEmptyPrompts
    PROVE  Spec => []BatchFits
<1>1. CapacityInvariant => BatchFits
    BY DEF CapacityInvariant, BatchWithin, BatchFits
<1> QED BY <1>1, CapacityInvariantHolds, PTL

-----------------------------------------------------------------------------
(* Where the requests are: no inference request is lost or served twice, every  *)
(* row of a batch serves a pending request of its kind, and a finetuning row    *)
(* goes on where the last one stopped.                                          *)

queue      == pending_infr_request_queue
peft_queue == pending_peft_request_queue

\* An inference request that has not completed.
Waiting(g) == IsInference(g) /\ ~Completed(g)

\* The inference rows of the last batch that prepare_next_batch has not reached,
\* and those of the next batch: with the queue, the places of NoRequestLost.
OldRows == {r \in ActiveRow(old_bc) \cap InfrRow :
               InFlight \/ (step = "carry" /\ r >= row)}
NewRows == ActiveRow(new_bc) \cap InfrRow

\* No two places hold the same request,
PlacesDistinct ==
    /\ \A k, l \in DOMAIN queue : queue[k] = queue[l] => k = l
    /\ \A r, s \in OldRows : GuidOf(old_bc, r) = GuidOf(old_bc, s) => r = s
    /\ \A r, s \in NewRows : GuidOf(new_bc, r) = GuidOf(new_bc, s) => r = s
    /\ \A k \in DOMAIN queue, r \in OldRows : queue[k] # GuidOf(old_bc, r)
    /\ \A k \in DOMAIN queue, r \in NewRows : queue[k] # GuidOf(new_bc, r)
    /\ \A r \in OldRows, s \in NewRows : GuidOf(old_bc, r) # GuidOf(new_bc, s)

\* every place holds a request that waits,
PlacesWaiting ==
    /\ \A k \in DOMAIN queue : Waiting(queue[k])
    /\ \A r \in OldRows : Waiting(GuidOf(old_bc, r))
    /\ \A r \in NewRows : Waiting(GuidOf(new_bc, r))

\* and every request that waits has a place.
Placed(g) ==
    \/ \E k \in DOMAIN queue : queue[k] = g
    \/ \E r \in OldRows : GuidOf(old_bc, r) = g
    \/ \E r \in NewRows : GuidOf(new_bc, r) = g

WaitingPlaced == \A g \in Guid : Waiting(g) => Placed(g)

\* A guid that has not been given out names no request.
UnusedGuids ==
    \A g \in Guid : g >= next_available_guid => all_requests[g].req_type = "NONE"

\* The next batch is empty until prepare_next_batch starts; its rows are
\* inference rows, in the loop over the old rows those already reached.
UnderConstruction ==
    /\ InFlight => ActiveRow(new_bc) = {}
    /\ ActiveRow(new_bc) \subseteq InfrRow
    /\ step = "carry" => \A r \in ActiveRow(new_bc) : r < row

\* Until its tokens are trained on, the finetuning row of the last batch holds
\* the next tokens of the head of the finetuning queue.
FinetuningRow ==
    step # "schedule" /\ PeftEnabled /\ PeftRow \in ActiveRow(old_bc) =>
        LET info    == old_bc.requestsInfo[PeftRow]
            g       == GuidOf(old_bc, PeftRow)
            request == all_requests[g]
        IN  /\ peft_queue # << >> /\ g = Head(peft_queue)
            /\ ~Completed(g)
            /\ info.first_token_depth_in_request = request.dataset_entry_processed_tokens
            /\ EndDepth(old_bc, PeftRow) <= EntrySize(request)
            /\ request.completed_training_steps < request.finetuning.max_training_steps

PlacesInvariant == PlacesDistinct /\ PlacesWaiting /\ WaitingPlaced

RowsInvariant ==
    /\ PlacesInvariant
    /\ UnusedGuids
    /\ UnderConstruction
    /\ FinetuningRow

-----------------------------------------------------------------------------
(* What the steps do to the rows and to the requests. *)

\* Putting a row in a batch makes it active, and leaves the other rows alone.
LEMMA PutRowRows ==
    ASSUME NEW bc \in BatchConfig, NEW r \in Row, NEW info \in PerRequestInfo,
           NEW decoding \in BOOLEAN
    PROVE  LET new == PutRow(bc, r, info, decoding)
           IN  /\ ActiveRow(new) = ActiveRow(bc) \cup {r}
               /\ new.requestsInfo[r] = info
               /\ \A q \in Row : q # r => new.requestsInfo[q] = bc.requestsInfo[q]
               /\ new.num_tokens = bc.num_tokens + Written(info)
               /\ new.tokensInfo = WriteTokens(bc.tokensInfo, bc.num_tokens, r, info)
<1> DEFINE new == PutRow(bc, r, info, decoding)
<1>1. /\ new.request_completed = [bc.request_completed EXCEPT ![r] = FALSE]
      /\ new.requestsInfo = [bc.requestsInfo EXCEPT ![r] = info]
      /\ new.num_tokens = bc.num_tokens + Written(info)
      /\ new.tokensInfo = WriteTokens(bc.tokensInfo, bc.num_tokens, r, info)
    BY DEF PutRow, BatchConfig
<1> HIDE DEF new
<1>2. ActiveRow(new) = ActiveRow(bc) \cup {r}
    BY <1>1 DEF ActiveRow, BatchConfig
<1>3. /\ new.requestsInfo[r] = info
      /\ \A q \in Row : q # r => new.requestsInfo[q] = bc.requestsInfo[q]
    BY <1>1 DEF BatchConfig
<1> QED BY <1>1, <1>2, <1>3 DEF new

\* The same for the finetuning row.
LEMMA PutPeftRowRows ==
    ASSUME PeftEnabled, NEW bc \in BatchConfig, NEW info \in PerRequestInfo
    PROVE  LET new == PutPeftRow(bc, info)
           IN  /\ ActiveRow(new) = ActiveRow(bc) \cup {PeftRow}
               /\ new.requestsInfo[PeftRow] = info
               /\ \A q \in Row : q # PeftRow => new.requestsInfo[q] = bc.requestsInfo[q]
               /\ new.num_tokens = bc.num_tokens + Written(info)
               /\ new.tokensInfo = WriteTokens(bc.tokensInfo, bc.num_tokens, PeftRow, info)
<1> DEFINE new == PutPeftRow(bc, info)
<1>1. /\ new.request_completed = [bc.request_completed EXCEPT ![PeftRow] = FALSE]
      /\ new.requestsInfo = [bc.requestsInfo EXCEPT ![PeftRow] = info]
      /\ new.num_tokens = bc.num_tokens + Written(info)
      /\ new.tokensInfo = WriteTokens(bc.tokensInfo, bc.num_tokens, PeftRow, info)
    BY DEF PutPeftRow, BatchConfig
<1> HIDE DEF new
<1>2. PeftRow \in Row
    BY RowSubsets
<1>3. ActiveRow(new) = ActiveRow(bc) \cup {PeftRow}
    BY <1>1, <1>2 DEF ActiveRow, BatchConfig
<1>4. /\ new.requestsInfo[PeftRow] = info
      /\ \A q \in Row : q # PeftRow => new.requestsInfo[q] = bc.requestsInfo[q]
    BY <1>1, <1>2 DEF BatchConfig
<1> QED BY <1>1, <1>3, <1>4 DEF new

\* A row that is no inference row is the finetuning row.
LEMMA OtherRow ==
    ASSUME NEW r \in Row, r \notin InfrRow
    PROVE  PeftEnabled /\ r = PeftRow
BY ConstantsAssumption DEF Row, InfrRow, PeftRow, inference_batch_size

\* The rows and the queues name requests.
LEMMA GuidTypes ==
    ASSUME TypeInvariant
    PROVE  /\ \A r \in OldRows : GuidOf(old_bc, r) \in Guid
           /\ \A r \in NewRows : GuidOf(new_bc, r) \in Guid
           /\ queue \in Seq(Guid) /\ peft_queue \in Seq(Guid)
           /\ \A k \in DOMAIN queue : queue[k] \in Guid /\ queue[k] < next_available_guid
           /\ \A k \in DOMAIN peft_queue :
                  peft_queue[k] \in Guid /\ peft_queue[k] < next_available_guid
           /\ next_available_guid \in Nat
BY DEF TypeInvariant, TypeOK, RowsRegistered, OldRows, NewRows, QueuesWellFormed, queue,
       peft_queue

\* A queue to which an element is appended holds it in a place of its own.
LEMMA AppendFacts ==
    ASSUME NEW S, NEW q \in Seq(S), NEW e \in S
    PROVE  /\ DOMAIN Append(q, e) = DOMAIN q \cup {Len(q) + 1}
           /\ Len(q) + 1 \notin DOMAIN q
           /\ \A k \in DOMAIN q : Append(q, e)[k] = q[k]
           /\ Append(q, e)[Len(q) + 1] = e
OBVIOUS

\* The tail of a queue holds the rest of it, one place further on.
LEMMA TailFacts ==
    ASSUME NEW S, NEW q \in Seq(S), q # << >>
    PROVE  /\ \A k \in DOMAIN Tail(q) : k + 1 \in DOMAIN q /\ Tail(q)[k] = q[k + 1]
           /\ \A k \in DOMAIN q : k # 1 => k - 1 \in DOMAIN Tail(q) /\ Tail(q)[k - 1] = q[k]
           /\ 1 \in DOMAIN q /\ Head(q) = q[1]
           /\ \A k \in DOMAIN q : k \in Nat \ {0}
           /\ \A k \in DOMAIN Tail(q) : k \in Nat \ {0}
OBVIOUS

-----------------------------------------------------------------------------
(* Every inference request that waits is in exactly one place. *)

\* A step that leaves the places and the requests that wait alone.
LEMMA PlacesKept ==
    ASSUME TypeInvariant, PlacesInvariant,
           queue' = queue, OldRows' = OldRows, NewRows' = NewRows,
           \A r \in OldRows : GuidOf(old_bc', r) = GuidOf(old_bc, r),
           \A r \in NewRows : GuidOf(new_bc', r) = GuidOf(new_bc, r),
           \A g \in Guid : Waiting(g)' <=> Waiting(g)
    PROVE  PlacesInvariant'
<1>1. PlacesDistinct'
    BY DEF PlacesInvariant, PlacesDistinct, GuidOf
<1>2. PlacesWaiting'
  <2>1. ASSUME NEW k \in DOMAIN queue
        PROVE  Waiting(queue[k])'
      BY GuidTypes DEF PlacesInvariant, PlacesWaiting, Waiting, IsInference, Completed
  <2>2. ASSUME NEW r \in OldRows
        PROVE  Waiting(GuidOf(old_bc, r))'
      BY GuidTypes DEF PlacesInvariant, PlacesWaiting, Waiting, IsInference, Completed
  <2>3. ASSUME NEW r \in NewRows
        PROVE  Waiting(GuidOf(new_bc, r))'
      BY GuidTypes DEF PlacesInvariant, PlacesWaiting, Waiting, IsInference, Completed
  <2> QED BY <2>1, <2>2, <2>3 DEF PlacesWaiting
<1>3. ASSUME NEW g \in Guid, Waiting(g)'
      PROVE  Placed(g)'
  <2>1. Placed(g)
      BY <1>3 DEF PlacesInvariant, WaitingPlaced, Waiting, IsInference, Completed
  <2> QED BY <2>1 DEF Placed, GuidOf
<1> QED BY <1>1, <1>2, <1>3 DEF PlacesInvariant, WaitingPlaced

\* What a registration does: the request of the next guid is new, and waits in
\* the queue of its kind.
LEMMA RegisterFacts ==
    ASSUME TypeInvariant, NEW prompt \in Prompts, register_new_request(prompt)
    PROVE  LET g == next_available_guid IN
           /\ g \in Guid /\ g' = g + 1 /\ InFlight
           /\ UNCHANGED << peft_queue, inference_finished, batch >>
           /\ \A h \in Guid : h # g => all_requests'[h] = all_requests[h]
           /\ \/ UNCHANGED << all_requests, queue, outcome >>
              \/ /\ queue' = Append(queue, g)
                 /\ all_requests'[g] = [NoRequest EXCEPT !.req_type = "REQ_INFERENCE",
                                     !.tokens = Bos + prompt.size,
                                     !.initial_len = Bos + prompt.size,
                                     !.eos = prompt.eos,
                                     !.max_sequence_length = prompt.max_sequence_length]
                 /\ request_to_promise' = [request_to_promise EXCEPT ![g] = "pending"]
                 /\ request_generation_results' =
                       [request_generation_results EXCEPT ![g] = Bos + prompt.size]
                 /\ num_processed_requests' = num_processed_requests
<1> DEFINE g == next_available_guid
           request == [NoRequest EXCEPT !.req_type = "REQ_INFERENCE",
                                     !.tokens = Bos + prompt.size,
                                     !.initial_len = Bos + prompt.size,
                                     !.eos = prompt.eos,
                                     !.max_sequence_length = prompt.max_sequence_length]
<1>1. g \in Guid /\ g' = g + 1 /\ InFlight
    BY ConstantsAssumption DEF register_new_request, Refuse, LockFree, InFlight,
                               TypeInvariant, TypeOK, Guid
<1>2. UNCHANGED << peft_queue, inference_finished, batch >>
    BY DEF register_new_request, Refuse, peft_queue
<1>3. CASE prompt.size >= MaxSeqLen
  <2>1. UNCHANGED << all_requests, queue, outcome >>
      BY <1>3 DEF register_new_request, Refuse, queue
  <2> QED BY <1>1, <1>2, <2>1
<1>4. CASE ~(prompt.size >= MaxSeqLen)
  <2>1. /\ all_requests' = [all_requests EXCEPT ![g] = request]
        /\ queue' = Append(queue, g)
        /\ request_to_promise' = [request_to_promise EXCEPT ![g] = "pending"]
        /\ request_generation_results' =
              [request_generation_results EXCEPT ![g] = Bos + prompt.size]
        /\ num_processed_requests' = num_processed_requests
      BY <1>4 DEF register_new_request, queue
  <2> HIDE DEF request
  <2>2. all_requests'[g] = request /\ \A h \in Guid : h # g => all_requests'[h] = all_requests[h]
      BY <1>1, <2>1 DEF TypeInvariant, TypeOK
  <2> QED BY <1>1, <1>2, <2>1, <2>2 DEF request
<1> QED BY <1>3, <1>4

\* The same for a finetuning request.
LEMMA RegisterPeftFacts ==
    ASSUME TypeInvariant, NEW f \in Finetunings, register_new_peft_request(f)
    PROVE  LET g == next_available_guid IN
           /\ g \in Guid /\ g' = g + 1 /\ InFlight
           /\ UNCHANGED << queue, inference_finished, batch >>
           /\ \A h \in Guid : h # g => all_requests'[h] = all_requests[h]
           /\ \/ UNCHANGED << all_requests, peft_queue, outcome >>
              \/ /\ peft_queue' = Append(peft_queue, g)
                 /\ all_requests'[g] = [NoRequest EXCEPT !.req_type = "REQ_FINETUNING",
                                                         !.finetuning = f]
                 /\ request_to_promise' = [request_to_promise EXCEPT ![g] = "pending"]
                 /\ UNCHANGED << request_generation_results, num_processed_requests >>
<1> DEFINE g == next_available_guid
           request == [NoRequest EXCEPT !.req_type = "REQ_FINETUNING", !.finetuning = f]
           refused == \E e \in DOMAIN f.dataset : f.dataset[e] > MaxSeqLen
<1>1. g \in Guid /\ g' = g + 1 /\ InFlight
    BY ConstantsAssumption DEF register_new_peft_request, Refuse, LockFree, InFlight,
                               TypeInvariant, TypeOK, Guid
<1>2. UNCHANGED << queue, inference_finished, batch >>
    BY DEF register_new_peft_request, Refuse, queue
<1>3. CASE refused
  <2>1. UNCHANGED << all_requests, peft_queue, outcome >>
      BY <1>3 DEF register_new_peft_request, Refuse, peft_queue
  <2> QED BY <1>1, <1>2, <2>1
<1>4. CASE ~refused
  <2>1. /\ all_requests' = [all_requests EXCEPT ![g] = request]
        /\ peft_queue' = Append(peft_queue, g)
        /\ request_to_promise' = [request_to_promise EXCEPT ![g] = "pending"]
        /\ UNCHANGED << request_generation_results, num_processed_requests >>
      BY <1>4 DEF register_new_peft_request, peft_queue
  <2> HIDE DEF request
  <2>2. all_requests'[g] = request /\ \A h \in Guid : h # g => all_requests'[h] = all_requests[h]
      BY <1>1, <2>1 DEF TypeInvariant, TypeOK
  <2> QED BY <1>1, <1>2, <2>1, <2>2 DEF request
<1> QED BY <1>3, <1>4

\* A registration keeps the places: the new request, whose guid nothing names
\* yet, waits in the queue.
LEMMA RegisterPlaces ==
    ASSUME TypeInvariant, PlacesInvariant, UnusedGuids,
           NEW prompt \in Prompts, register_new_request(prompt)
    PROVE  PlacesInvariant'
<1>0. PICK g \in Guid : g = next_available_guid
    BY RegisterFacts
<1>1. UNCHANGED batch /\ \A h \in Guid : h # g => all_requests'[h] = all_requests[h]
    BY <1>0, RegisterFacts
<1>2. /\ OldRows' = OldRows /\ NewRows' = NewRows
      /\ \A r \in OldRows : GuidOf(old_bc', r) = GuidOf(old_bc, r)
      /\ \A r \in NewRows : GuidOf(new_bc', r) = GuidOf(new_bc, r)
    BY <1>1 DEF OldRows, NewRows, ActiveRow, InFlight, batch
<1>3. CASE UNCHANGED << all_requests, queue >>
  <2>1. \A h \in Guid : Waiting(h)' <=> Waiting(h)
      BY <1>3 DEF Waiting, IsInference, Completed
  <2> QED BY <1>2, <1>3, <2>1, PlacesKept
<1>4. CASE queue' = Append(queue, g) /\ all_requests'[g].req_type = "REQ_INFERENCE"
           /\ all_requests'[g].status = "PENDING"
  <2> DEFINE e == Len(queue) + 1
  <2>1. /\ DOMAIN queue' = DOMAIN queue \cup {e} /\ e \notin DOMAIN queue
        /\ \A k \in DOMAIN queue : queue'[k] = queue[k]
        /\ queue'[e] = g
      BY <1>1, <1>4, AppendFacts, GuidTypes
  <2> HIDE DEF e
  <2>2. /\ Waiting(g)' /\ ~Waiting(g)
        /\ \A h \in Guid : h # g => (Waiting(h)' <=> Waiting(h))
    <3>1. ~Waiting(g)
        BY <1>0 DEF UnusedGuids, Waiting, IsInference, Guid
    <3> QED BY <1>1, <1>4, <3>1 DEF Waiting, IsInference, Completed
  <2>3. /\ \A k \in DOMAIN queue : queue[k] # g
        /\ \A r \in OldRows : GuidOf(old_bc, r) # g
        /\ \A r \in NewRows : GuidOf(new_bc, r) # g
      BY <2>2 DEF PlacesInvariant, PlacesWaiting
  <2>4. PlacesDistinct'
      BY <1>2, <2>1, <2>3 DEF PlacesInvariant, PlacesDistinct, GuidOf
  <2>5. PlacesWaiting'
    <3>1. ASSUME NEW k \in DOMAIN queue'
          PROVE  Waiting(queue[k])'
        BY <2>1, <2>2, <2>3, GuidTypes
        DEF PlacesInvariant, PlacesWaiting, Waiting, IsInference, Completed
    <3>2. ASSUME NEW r \in OldRows
          PROVE  Waiting(GuidOf(old_bc, r))'
        BY <1>2, <2>2, <2>3, GuidTypes
        DEF PlacesInvariant, PlacesWaiting, Waiting, IsInference, Completed
    <3>3. ASSUME NEW r \in NewRows
          PROVE  Waiting(GuidOf(new_bc, r))'
        BY <1>2, <2>2, <2>3, GuidTypes
        DEF PlacesInvariant, PlacesWaiting, Waiting, IsInference, Completed
    <3> QED BY <1>2, <3>1, <3>2, <3>3 DEF PlacesWaiting
  <2>6. ASSUME NEW h \in Guid, Waiting(h)'
        PROVE  Placed(h)'
    <3>1. CASE h = g
        BY <2>1, <3>1 DEF Placed
    <3>2. CASE h # g
      <4>1. Placed(h)
          BY <2>2, <2>6, <3>2 DEF PlacesInvariant, WaitingPlaced, Waiting, IsInference, Completed
      <4> QED BY <1>2, <2>1, <4>1 DEF Placed, GuidOf
    <3> QED BY <3>1, <3>2
  <2> QED BY <2>4, <2>5, <2>6 DEF PlacesInvariant, WaitingPlaced
<1>5. CASE /\ queue' = Append(queue, g)
           /\ all_requests'[g] = [NoRequest EXCEPT !.req_type = "REQ_INFERENCE",
                                     !.tokens = Bos + prompt.size,
                                     !.initial_len = Bos + prompt.size,
                                     !.eos = prompt.eos,
                                     !.max_sequence_length = prompt.max_sequence_length]
  <2>1. all_requests'[g].req_type = "REQ_INFERENCE" /\ all_requests'[g].status = "PENDING"
      BY <1>5 DEF NoRequest
  <2> QED BY <1>4, <1>5, <2>1
<1> QED BY <1>0, <1>3, <1>5, RegisterFacts

\* A finetuning request waits in none of these places.
LEMMA RegisterPeftPlaces ==
    ASSUME TypeInvariant, PlacesInvariant, UnusedGuids,
           NEW f \in Finetunings, register_new_peft_request(f)
    PROVE  PlacesInvariant'
<1> DEFINE g == next_available_guid
<1>1. /\ g \in Guid /\ UNCHANGED << batch, queue >>
      /\ \A h \in Guid : h # g => all_requests'[h] = all_requests[h]
    BY RegisterPeftFacts
<1>2. /\ OldRows' = OldRows /\ NewRows' = NewRows
      /\ \A r \in OldRows : GuidOf(old_bc', r) = GuidOf(old_bc, r)
      /\ \A r \in NewRows : GuidOf(new_bc', r) = GuidOf(new_bc, r)
    BY <1>1 DEF OldRows, NewRows, ActiveRow, InFlight, batch
<1>3. all_requests'[g] = all_requests[g] \/ all_requests'[g].req_type = "REQ_FINETUNING"
    BY RegisterPeftFacts DEF NoRequest
<1>4. all_requests[g].req_type = "NONE"
    BY <1>1 DEF UnusedGuids, Guid
<1>5. \A h \in Guid : Waiting(h)' <=> Waiting(h)
    BY <1>1, <1>3, <1>4 DEF Waiting, IsInference, Completed
<1> QED BY <1>1, <1>2, <1>5, PlacesKept

\* Passing row i of the loop over the old rows removes it from the places.
LEMMA RowPassed ==
    ASSUME NEW i \in InfrRow, step = "carry", row = i, row' = i + 1,
           UNCHANGED << step, old_bc >>
    PROVE  /\ OldRows' = OldRows \ {i}
           /\ \A r : GuidOf(old_bc', r) = GuidOf(old_bc, r)
           /\ i \in ActiveRow(old_bc) => i \in OldRows
<1>1. \A r \in InfrRow : r \in Int
    BY RowSubsets, ConstantsAssumption DEF InfrRow
<1>2. \A r \in InfrRow : r >= i + 1 <=> r >= i /\ r # i
    BY <1>1
<1>3. ~InFlight /\ ~InFlight' /\ i >= i
    BY <1>1 DEF InFlight
<1>4. ActiveRow(old_bc)' = ActiveRow(old_bc)
    BY DEF ActiveRow
<1>5. OldRows' = OldRows \ {i}
    BY <1>2, <1>3, <1>4 DEF OldRows
<1> QED BY <1>3, <1>5 DEF OldRows

\* A request that completes leaves its place and no longer waits.
LEMMA CompletePlaces ==
    ASSUME TypeInvariant, PlacesInvariant, NEW i \in InfrRow, CompleteRequest(i)
    PROVE  PlacesInvariant'
<1>1. OldRow(i)
    BY DEF CompleteRequest
<1>2. PICK g \in Guid : g = GuidOf(old_bc, i)
    BY <1>1, OldRowType
<1>3. /\ all_requests' = [all_requests EXCEPT ![g].status = "COMPLETED"]
      /\ step = "carry" /\ row = i /\ row' = i + 1
      /\ UNCHANGED << pending_infr_request_queue, step, old_bc, new_bc >>
    BY <1>1, <1>2 DEF CompleteRequest, NextRow, GuidOf, OldRow
<1>4. /\ OldRows' = OldRows \ {i} /\ i \in OldRows
      /\ \A r : GuidOf(old_bc', r) = GuidOf(old_bc, r)
    BY <1>1, <1>3, RowPassed, RowSubsets DEF OldRow, ActiveRow
<1>5. NewRows' = NewRows /\ \A r : GuidOf(new_bc', r) = GuidOf(new_bc, r)
    BY <1>3 DEF NewRows, ActiveRow, GuidOf
<1>6. queue' = queue
    BY <1>3 DEF queue
<1>7. /\ ~Waiting(g)'
      /\ \A h \in Guid : h # g => (Waiting(h)' <=> Waiting(h))
  <2>1. /\ all_requests'[g].status = "COMPLETED"
        /\ \A h \in Guid : h # g => all_requests'[h] = all_requests[h]
      BY <1>3, CompletedType DEF TypeInvariant, TypeOK
  <2> QED BY <2>1 DEF Waiting, IsInference, Completed
<1>8. /\ \A k \in DOMAIN queue : queue[k] # g
      /\ \A r \in OldRows' : GuidOf(old_bc, r) # g
      /\ \A r \in NewRows : GuidOf(new_bc, r) # g
    BY <1>2, <1>4 DEF PlacesInvariant, PlacesDistinct
<1>9. PlacesDistinct'
    BY <1>4, <1>5, <1>6 DEF PlacesInvariant, PlacesDistinct, GuidOf
<1>10. PlacesWaiting'
  <2>1. ASSUME NEW k \in DOMAIN queue
        PROVE  Waiting(queue[k])'
      BY <1>6, <1>7, <1>8, GuidTypes
      DEF PlacesInvariant, PlacesWaiting, Waiting, IsInference, Completed
  <2>2. ASSUME NEW r \in OldRows'
        PROVE  Waiting(GuidOf(old_bc, r))'
      BY <1>4, <1>7, <1>8, GuidTypes
      DEF PlacesInvariant, PlacesWaiting, Waiting, IsInference, Completed
  <2>3. ASSUME NEW r \in NewRows
        PROVE  Waiting(GuidOf(new_bc, r))'
      BY <1>5, <1>7, <1>8, GuidTypes
      DEF PlacesInvariant, PlacesWaiting, Waiting, IsInference, Completed
  <2> QED BY <1>5, <1>6, <2>1, <2>2, <2>3 DEF PlacesWaiting
<1>11. ASSUME NEW h \in Guid, Waiting(h)'
       PROVE  Placed(h)'
  <2>1. h # g
      BY <1>7, <1>11
  <2>2. Placed(h)
      BY <1>7, <1>11, <2>1 DEF PlacesInvariant, WaitingPlaced, Waiting, IsInference, Completed
  <2> QED BY <1>2, <1>4, <1>5, <1>6, <2>1, <2>2 DEF Placed, GuidOf
<1> QED BY <1>9, <1>10, <1>11 DEF PlacesInvariant, WaitingPlaced

\* A request that is carried over moves from its old row to the same row of the
\* next batch.
LEMMA CarryPlaces ==
    ASSUME TypeInvariant, PlacesInvariant, UnderConstruction, NEW i \in InfrRow,
           CarryDecoding(i) \/ CarryPrompt(i)
    PROVE  PlacesInvariant'
<1>1. /\ OldRow(i) /\ step = "carry" /\ row = i /\ row' = i + 1
      /\ UNCHANGED << all_requests, pending_infr_request_queue, step, old_bc >>
    BY CarryStep DEF registry
<1>2. PICK n \in Int, p \in BOOLEAN, d \in BOOLEAN :
          new_bc' = PutRow(new_bc, i, CarriedInfo(i, n, p), d)
    BY CarryStep
<1>3. PICK g \in Guid : g = GuidOf(old_bc, i)
    BY <1>1, OldRowType
<1>4. CarriedInfo(i, n, p) \in PerRequestInfo /\ CarriedInfo(i, n, p).request_guid = g
    BY <1>1, <1>3, CarriedInfoType, OldRowType DEF GuidOf
<1>5. /\ OldRows' = OldRows \ {i} /\ i \in OldRows
      /\ \A r : GuidOf(old_bc', r) = GuidOf(old_bc, r)
    BY <1>1, RowPassed, RowSubsets DEF OldRow, ActiveRow
<1>6. /\ NewRows' = NewRows \cup {i} /\ i \notin NewRows
      /\ GuidOf(new_bc', i) = g
      /\ \A r \in NewRows : GuidOf(new_bc', r) = GuidOf(new_bc, r)
  <2>1. i \in Row /\ new_bc \in BatchConfig
      BY RowSubsets DEF TypeInvariant, TypeOK
  <2>2. /\ ActiveRow(new_bc') = ActiveRow(new_bc) \cup {i}
        /\ new_bc'.requestsInfo[i] = CarriedInfo(i, n, p)
        /\ \A q \in Row : q # i => new_bc'.requestsInfo[q] = new_bc.requestsInfo[q]
      BY <1>2, <1>4, <2>1, PutRowRows
  <2>3. NewRows' = ActiveRow(new_bc') \cap InfrRow
      BY DEF NewRows, ActiveRow
  <2>4. i \notin ActiveRow(new_bc)
      BY <1>1, <2>1 DEF UnderConstruction, Row
  <2> QED BY <1>4, <2>2, <2>3, <2>4, RowSubsets DEF NewRows, GuidOf
<1>7. queue' = queue /\ \A h \in Guid : Waiting(h)' <=> Waiting(h)
    BY <1>1 DEF queue, Waiting, IsInference, Completed
<1>8. /\ \A k \in DOMAIN queue : queue[k] # g
      /\ \A r \in OldRows' : GuidOf(old_bc, r) # g
      /\ \A r \in NewRows : GuidOf(new_bc, r) # g
      /\ Waiting(g)
    BY <1>3, <1>5 DEF PlacesInvariant, PlacesDistinct, PlacesWaiting
<1>9. PlacesDistinct'
    BY <1>5, <1>6, <1>7, <1>8 DEF PlacesInvariant, PlacesDistinct, GuidOf
<1>10. PlacesWaiting'
  <2>1. ASSUME NEW k \in DOMAIN queue
        PROVE  Waiting(queue[k])'
      BY <1>7, GuidTypes DEF PlacesInvariant, PlacesWaiting, Waiting, IsInference, Completed
  <2>2. ASSUME NEW r \in OldRows'
        PROVE  Waiting(GuidOf(old_bc, r))'
      BY <1>5, <1>7, GuidTypes DEF PlacesInvariant, PlacesWaiting, Waiting, IsInference, Completed
  <2>3. ASSUME NEW r \in NewRows'
        PROVE  Waiting(GuidOf(new_bc, r))'
      BY <1>6, <1>7, <1>8, GuidTypes
      DEF PlacesInvariant, PlacesWaiting, Waiting, IsInference, Completed
  <2> QED BY <1>7, <2>1, <2>2, <2>3 DEF PlacesWaiting
<1>11. ASSUME NEW h \in Guid, Waiting(h)'
       PROVE  Placed(h)'
  <2>1. Placed(h)
      BY <1>7, <1>11 DEF PlacesInvariant, WaitingPlaced, Waiting, IsInference, Completed
  <2> QED BY <1>3, <1>5, <1>6, <1>7, <2>1 DEF Placed, GuidOf
<1> QED BY <1>9, <1>10, <1>11 DEF PlacesInvariant, WaitingPlaced

\* A request that is admitted moves from the head of the queue to a free row.
LEMMA AdmitPlaces ==
    ASSUME TypeInvariant, PlacesInvariant, NEW i \in InfrRow, AdmitRequest(i)
    PROVE  PlacesInvariant'
<1>1. /\ queue \in Seq(Guid) /\ queue # << >> /\ queue' = Tail(queue)
      /\ step = "admit" /\ i \notin ActiveRow(new_bc)
      /\ UNCHANGED << all_requests, step, old_bc >>
    BY AdmitChunk DEF queue
<1>2. PICK info \in PerRequestInfo, d \in BOOLEAN :
          new_bc' = PutRow(new_bc, i, info, d) /\ info.request_guid = Head(queue)
    BY AdmitChunk DEF queue
<1>3. /\ \A k \in DOMAIN Tail(queue) : k + 1 \in DOMAIN queue /\ queue'[k] = queue[k + 1]
      /\ \A k \in DOMAIN queue : k # 1 => k - 1 \in DOMAIN queue' /\ queue'[k - 1] = queue[k]
      /\ 1 \in DOMAIN queue /\ Head(queue) = queue[1]
      /\ \A k \in DOMAIN Tail(queue) : k \in Nat \ {0}
    BY <1>1, TailFacts
<1>4. PICK g \in Guid : g = Head(queue)
    BY <1>3, GuidTypes
<1>5. /\ NewRows' = NewRows \cup {i} /\ i \notin NewRows
      /\ GuidOf(new_bc', i) = g
      /\ \A r \in NewRows : GuidOf(new_bc', r) = GuidOf(new_bc, r)
  <2>1. i \in Row /\ new_bc \in BatchConfig
      BY RowSubsets DEF TypeInvariant, TypeOK
  <2>2. /\ ActiveRow(new_bc') = ActiveRow(new_bc) \cup {i}
        /\ new_bc'.requestsInfo[i] = info
        /\ \A q \in Row : q # i => new_bc'.requestsInfo[q] = new_bc.requestsInfo[q]
      BY <1>2, <2>1, PutRowRows
  <2>3. NewRows' = ActiveRow(new_bc') \cap InfrRow
      BY DEF NewRows, ActiveRow
  <2> QED BY <1>1, <1>2, <1>4, <2>2, <2>3, RowSubsets DEF NewRows, GuidOf
<1>6. OldRows = {} /\ OldRows' = {}
    BY <1>1 DEF OldRows, InFlight
<1>7. \A h \in Guid : Waiting(h)' <=> Waiting(h)
    BY <1>1 DEF Waiting, IsInference, Completed
<1>8. /\ \A k \in DOMAIN queue' : queue'[k] # g
      /\ \A r \in NewRows : GuidOf(new_bc, r) # g
      /\ Waiting(g)
  <2>1. ASSUME NEW k \in DOMAIN queue'
        PROVE  queue'[k] # g
    <3>1. k + 1 \in DOMAIN queue /\ queue'[k] = queue[k + 1] /\ k + 1 # 1
        BY <1>1, <1>3, <2>1
    <3> QED BY <1>3, <1>4, <3>1 DEF PlacesInvariant, PlacesDistinct
  <2> QED BY <1>3, <1>4, <2>1 DEF PlacesInvariant, PlacesDistinct, PlacesWaiting
<1>9. PlacesDistinct'
  <2>1. ASSUME NEW k \in DOMAIN queue', NEW l \in DOMAIN queue', queue'[k] = queue'[l]
        PROVE  k = l
    <3>1. /\ k + 1 \in DOMAIN queue /\ queue'[k] = queue[k + 1]
          /\ l + 1 \in DOMAIN queue /\ queue'[l] = queue[l + 1]
          /\ k \in Nat /\ l \in Nat
        BY <1>1, <1>3, <2>1
    <3>2. k + 1 = l + 1
        BY <2>1, <3>1 DEF PlacesInvariant, PlacesDistinct
    <3> QED BY <3>1, <3>2
  <2>2. ASSUME NEW k \in DOMAIN queue', NEW r \in NewRows
        PROVE  queue'[k] # GuidOf(new_bc, r)
      BY <1>1, <1>3 DEF PlacesInvariant, PlacesDistinct
  <2>3. \A r, s \in NewRows : GuidOf(new_bc, r) = GuidOf(new_bc, s) => r = s
      BY DEF PlacesInvariant, PlacesDistinct
  <2>4. \A r, s \in NewRows' : GuidOf(new_bc', r) = GuidOf(new_bc', s) => r = s
      BY <1>5, <1>8, <2>3
  <2>5. \A k \in DOMAIN queue', r \in NewRows' : queue'[k] # GuidOf(new_bc', r)
      BY <1>5, <1>8, <2>2
  <2> QED BY <1>6, <2>1, <2>4, <2>5 DEF PlacesDistinct, GuidOf
<1>10. PlacesWaiting'
  <2>1. ASSUME NEW k \in DOMAIN queue'
        PROVE  Waiting(queue[k])'
    <3>1. k + 1 \in DOMAIN queue /\ queue'[k] = queue[k + 1]
        BY <1>1, <1>3
    <3>2. queue[k + 1] \in Guid /\ Waiting(queue[k + 1])
        BY <3>1, GuidTypes DEF PlacesInvariant, PlacesWaiting
    <3> QED BY <1>7, <3>1, <3>2 DEF Waiting, IsInference, Completed
  <2>2. ASSUME NEW r \in NewRows'
        PROVE  Waiting(GuidOf(new_bc, r))'
      BY <1>5, <1>7, <1>8, GuidTypes
      DEF PlacesInvariant, PlacesWaiting, Waiting, IsInference, Completed
  <2> QED BY <1>6, <2>1, <2>2 DEF PlacesWaiting
<1>11. ASSUME NEW h \in Guid, Waiting(h)'
       PROVE  Placed(h)'
  <2>1. Placed(h)
      BY <1>7, <1>11 DEF PlacesInvariant, WaitingPlaced, Waiting, IsInference, Completed
  <2>2. CASE \E k \in DOMAIN queue : queue[k] = h
    <3>1. PICK k \in DOMAIN queue : queue[k] = h
        BY <2>2
    <3>2. CASE k = 1
        BY <1>3, <1>4, <1>5, <3>1, <3>2 DEF Placed, GuidOf
    <3>3. CASE k # 1
        BY <1>3, <3>1, <3>3 DEF Placed
    <3> QED BY <3>2, <3>3
  <2>3. CASE \E r \in NewRows : GuidOf(new_bc, r) = h
      BY <1>5, <2>3 DEF Placed, GuidOf
  <2> QED BY <1>6, <2>1, <2>2, <2>3 DEF Placed
<1> QED BY <1>9, <1>10, <1>11 DEF PlacesInvariant, WaitingPlaced

\* Launching a batch makes the rows of the next batch those of the last one.
LEMMA LaunchPlaces ==
    ASSUME TypeInvariant, PlacesInvariant, step = "schedule",
           NEW bc, Launch(bc), ActiveRow(bc) \cap InfrRow = NewRows,
           \A r \in NewRows : GuidOf(bc, r) = GuidOf(new_bc, r)
    PROVE  PlacesInvariant'
<1>1. /\ old_bc' = bc /\ new_bc' = EmptyBatch /\ step' = "inference"
      /\ UNCHANGED registry
    BY DEF Launch
<1>2. /\ OldRows = {} /\ OldRows' = NewRows /\ NewRows' = {}
      /\ \A r \in NewRows : GuidOf(old_bc', r) = GuidOf(new_bc, r)
    BY <1>1 DEF OldRows, NewRows, InFlight, ActiveRow, EmptyBatch
<1>3. queue' = queue /\ \A h \in Guid : Waiting(h)' <=> Waiting(h)
    BY <1>1 DEF queue, Waiting, IsInference, Completed, registry
<1>4. PlacesDistinct'
    BY <1>2, <1>3 DEF PlacesInvariant, PlacesDistinct, GuidOf
<1>5. PlacesWaiting'
  <2>1. ASSUME NEW k \in DOMAIN queue
        PROVE  Waiting(queue[k])'
      BY <1>3, GuidTypes DEF PlacesInvariant, PlacesWaiting, Waiting, IsInference, Completed
  <2>2. ASSUME NEW r \in NewRows
        PROVE  Waiting(GuidOf(old_bc, r))'
      BY <1>2, <1>3, GuidTypes DEF PlacesInvariant, PlacesWaiting, Waiting, IsInference, Completed
  <2> QED BY <1>2, <1>3, <2>1, <2>2 DEF PlacesWaiting
<1>6. ASSUME NEW h \in Guid, Waiting(h)'
      PROVE  Placed(h)'
  <2>1. Placed(h)
      BY <1>3, <1>6 DEF PlacesInvariant, WaitingPlaced, Waiting, IsInference, Completed
  <2> QED BY <1>2, <1>3, <2>1 DEF Placed, GuidOf
<1> QED BY <1>4, <1>5, <1>6 DEF PlacesInvariant, WaitingPlaced

\* The batch that is launched: the next batch, with the finetuning row if its
\* request has tokens left and there is room.
LEMMA LaunchFacts ==
    ASSUME TypeInvariant, UnderConstruction, SchedulePeft \/ ScheduleNone
    PROVE  /\ step = "schedule"
           /\ \E bc \in BatchConfig :
                /\ Launch(bc)
                /\ ActiveRow(bc) \cap InfrRow = NewRows
                /\ \A r \in InfrRow : bc.requestsInfo[r] = new_bc.requestsInfo[r]
                /\ PeftEnabled /\ PeftRow \in ActiveRow(bc) =>
                     LET info    == bc.requestsInfo[PeftRow]
                         g       == Head(peft_queue)
                         request == all_requests[g]
                     IN  /\ peft_queue # << >> /\ g \in Guid /\ info \in PerRequestInfo
                         /\ ~Completed(g) /\ info.request_guid = g
                         /\ info.first_token_depth_in_request
                              = request.dataset_entry_processed_tokens
                         /\ info.first_token_depth_in_request + info.num_tokens_in_batch
                              <= EntrySize(request)
                         /\ request.completed_training_steps
                              < request.finetuning.max_training_steps
<1>1. step = "schedule"
    BY DEF SchedulePeft, ScheduleNone
<1>2. new_bc \in BatchConfig /\ ActiveRow(new_bc) \cap InfrRow = NewRows
      /\ ActiveRow(new_bc) \subseteq InfrRow
    BY DEF TypeInvariant, TypeOK, NewRows, UnderConstruction
<1>3. PeftEnabled => PeftRow \in Row /\ PeftRow \notin InfrRow
    BY RowSubsets
<1>4. CASE Launch(new_bc)
  <2>1. ~(PeftEnabled /\ PeftRow \in ActiveRow(new_bc))
      BY <1>2, <1>3
  <2> QED BY <1>1, <1>2, <1>4, <2>1
<1>5. CASE SchedulePeft /\ ~Launch(new_bc)
  <2> DEFINE g       == Head(peft_queue)
             request == all_requests[g]
             n       == num_peft_tokens(request)
  <2>1. /\ peft_queue # << >> /\ ~Completed(g)
        /\ request.completed_training_steps < request.finetuning.max_training_steps
      BY <1>5, PeftChunk DEF PeftReady, peft_queue
  <2>2. PICK info \in PerRequestInfo :
            /\ Launch(PutPeftRow(new_bc, info))
            /\ info.request_guid = g
            /\ info.first_token_depth_in_request = request.dataset_entry_processed_tokens
            /\ info.num_tokens_in_batch = n
      BY <1>5, PeftChunk DEF peft_queue
  <2>3. /\ g \in Guid /\ request \in Request /\ PeftEnabled
        /\ EntrySize(request) \in Nat
      BY <1>5, PeftHead, PeftChunk DEF peft_queue
  <2>4. request.dataset_entry_processed_tokens + n <= EntrySize(request)
    <3>1. n <= EntrySize(request) - request.dataset_entry_processed_tokens /\ n \in Int
      <4>1. request.dataset_entry_processed_tokens \in Nat /\ new_bc.num_tokens \in Nat
          BY <1>2, <2>3 DEF Request, BatchConfig
      <4> HIDE DEF g, request
      <4> QED BY <2>3, <4>1, ConstantsAssumption DEF num_peft_tokens, Smaller
    <3>2. request.dataset_entry_processed_tokens \in Nat
        BY <2>3 DEF Request
    <3> HIDE DEF n, request
    <3> QED BY <2>3, <3>1, <3>2
  <2> DEFINE bc == PutPeftRow(new_bc, info)
  <2>5. /\ bc \in BatchConfig
        /\ ActiveRow(bc) = ActiveRow(new_bc) \cup {PeftRow}
        /\ bc.requestsInfo[PeftRow] = info
        /\ \A q \in Row : q # PeftRow => bc.requestsInfo[q] = new_bc.requestsInfo[q]
      BY <1>2, <2>3, PutPeftRowRows, PutPeftRowType
  <2> HIDE DEF g, request, n, bc
  <2>6. ActiveRow(bc) \cap InfrRow = NewRows
      BY <1>2, <1>3, <2>3, <2>5
  <2>7. \A r \in InfrRow : bc.requestsInfo[r] = new_bc.requestsInfo[r]
      BY <1>3, <2>3, <2>5, RowSubsets
  <2> QED BY <1>1, <2>1, <2>2, <2>3, <2>4, <2>5, <2>6, <2>7 DEF bc, g, request
<1>6. CASE ScheduleNone
    BY <1>4, <1>6 DEF ScheduleNone
<1> QED BY <1>4, <1>5, <1>6

\* AppendTokens changes the requests that a slot yields a token for, which are
\* inference requests.
LEMMA AppendTokensOther ==
    ASSUME AppendTokens, NEW g \in Guid,
           ~IsInference(g) \/ ~\E s \in Slot :
               /\ Yields(old_bc, s)
               /\ g = GuidOf(old_bc, old_bc.tokensInfo[s].request_index)
    PROVE  all_requests'[g] = all_requests[g]
<1> DEFINE slots == {s \in Slot : /\ Yields(old_bc, s)
                                  /\ g = old_bc.requestsInfo[
                                           old_bc.tokensInfo[s].request_index].request_guid}
<1>1. slots = {}
    BY DEF Yields, GuidOf
<1>2. all_requests'[g] = IF slots = {} THEN all_requests[g]
                         ELSE [all_requests[g] EXCEPT !.tokens = @ + 1,
                                                      !.eos = slots \subseteq result]
    BY DEF AppendTokens
<1> QED BY <1>1, <1>2

\* What training changes: the request of the finetuning row.
LEMMA TrainFacts ==
    ASSUME TypeInvariant, TrainRow
    PROVE  LET info == old_bc.requestsInfo[PeftRow]
               g    == GuidOf(old_bc, PeftRow)
           IN  /\ PeftEnabled /\ PeftRow \in Row /\ PeftRow \in ActiveRow(old_bc)
               /\ info \in PerRequestInfo /\ info.num_tokens_in_batch > 0
               /\ g \in Guid /\ all_requests[g] \in Request /\ IsFinetuning(g)
               /\ \A h \in Guid : h # g => all_requests'[h] = all_requests[h]
               /\ \/ /\ all_requests'[g]
                          = [Trained(all_requests[g], info) EXCEPT !.status = "COMPLETED"]
                     /\ Publish(g, Trained(all_requests[g], info).finetuning_losses)
                  \/ /\ all_requests'[g] = Trained(all_requests[g], info)
                     /\ UNCHANGED outcome
               /\ all_requests'[g] \in Request
               /\ all_requests'[g].req_type = all_requests[g].req_type
               /\ all_requests'[g].finetuning = all_requests[g].finetuning
               /\ all_requests'[g].tokens = all_requests[g].tokens
               /\ step = "peft" /\ step' = "schedule"
               /\ UNCHANGED << next_available_guid, pending_infr_request_queue,
                               pending_peft_request_queue, inference_finished, row,
                               old_bc, new_bc, result, key_cache >>
<1> DEFINE info    == old_bc.requestsInfo[PeftRow]
           g       == info.request_guid
           trained == Trained(all_requests[g], info)
<1>1. /\ info.num_tokens_in_batch > 0 /\ PeftRow \in ActiveRow(old_bc) /\ PeftRow \in Row
      /\ PeftEnabled /\ IsFinetuning(g)
    BY RowSubsets DEF TrainRow, TrainAsserts, ActiveRow
<1>2. info \in PerRequestInfo /\ g \in Guid /\ all_requests[g] \in Request
    BY <1>1 DEF TypeInvariant, TypeOK, BatchConfig, RowsRegistered, GuidOf
<1>3. /\ \/ /\ all_requests' = [all_requests EXCEPT
                                  ![g] = [trained EXCEPT !.status = "COMPLETED"]]
            /\ Publish(g, trained.finetuning_losses)
         \/ /\ all_requests' = [all_requests EXCEPT ![g] = trained]
            /\ UNCHANGED outcome
      /\ step = "peft" /\ step' = "schedule"
      /\ UNCHANGED << next_available_guid, pending_infr_request_queue,
                      pending_peft_request_queue, inference_finished, row,
                      old_bc, new_bc, result, key_cache >>
    BY DEF TrainRow
<1>4. /\ trained \in Request
      /\ trained.req_type = all_requests[g].req_type
      /\ trained.finetuning = all_requests[g].finetuning
      /\ trained.tokens = all_requests[g].tokens
    BY <1>1, <1>2, TrainedType
<1> HIDE DEF trained
<1>5. /\ \A h \in Guid : h # g => all_requests'[h] = all_requests[h]
      /\ \/ /\ all_requests'[g] = [trained EXCEPT !.status = "COMPLETED"]
            /\ Publish(g, trained.finetuning_losses)
         \/ /\ all_requests'[g] = trained
            /\ UNCHANGED outcome
    BY <1>2, <1>3 DEF TypeInvariant, TypeOK
<1>6. GuidOf(old_bc, PeftRow) = g
    BY DEF GuidOf
<1> HIDE DEF g, info
<1>7. /\ all_requests'[g] \in Request
      /\ all_requests'[g].req_type = all_requests[g].req_type
      /\ all_requests'[g].finetuning = all_requests[g].finetuning
      /\ all_requests'[g].tokens = all_requests[g].tokens
    BY <1>5, <1>4, CompletedType
<1> QED BY <1>1, <1>2, <1>3, <1>5, <1>6, <1>7 DEF trained, info

\* Every step keeps the places.
LEMMA NextPlaces ==
    ASSUME TypeInvariant, RowsInvariant, [Next]_vars
    PROVE  PlacesInvariant'
<1>0. PlacesInvariant /\ UnusedGuids /\ UnderConstruction
    BY DEF RowsInvariant
<1>1. ASSUME NEW prompt \in Prompts, register_new_request(prompt)
      PROVE  PlacesInvariant'
    BY <1>0, <1>1, RegisterPlaces
<1>2. ASSUME NEW f \in Finetunings, register_new_peft_request(f)
      PROVE  PlacesInvariant'
    BY <1>0, <1>2, RegisterPeftPlaces
<1>3. ASSUME NEW i \in InfrRow, CompleteRequest(i)
      PROVE  PlacesInvariant'
    BY <1>0, <1>3, CompletePlaces
<1>4. ASSUME NEW i \in InfrRow, CarryDecoding(i) \/ CarryPrompt(i)
      PROVE  PlacesInvariant'
    BY <1>0, <1>4, CarryPlaces
<1>5. ASSUME NEW i \in InfrRow, AdmitRequest(i)
      PROVE  PlacesInvariant'
    BY <1>0, <1>5, AdmitPlaces
<1>6. CASE SchedulePeft \/ ScheduleNone
  <2>1. PICK bc \in BatchConfig :
            /\ Launch(bc) /\ ActiveRow(bc) \cap InfrRow = NewRows
            /\ \A r \in InfrRow : bc.requestsInfo[r] = new_bc.requestsInfo[r]
      BY <1>0, <1>6, LaunchFacts
  <2>2. \A r \in NewRows : GuidOf(bc, r) = GuidOf(new_bc, r)
      BY <2>1 DEF NewRows, GuidOf
  <2>3. step = "schedule"
      BY <1>6 DEF SchedulePeft, ScheduleNone
  <2> QED BY <1>0, <2>1, <2>2, <2>3, LaunchPlaces
<1>7. CASE AppendTokens
  <2>1. /\ old_bc' = old_bc /\ new_bc' = EmptyBatch /\ step = "result" /\ step' = "carry"
        /\ row' = 0 /\ pending_infr_request_queue' = pending_infr_request_queue
      BY <1>7 DEF AppendTokens
  <2>2. \A r \in InfrRow : r >= 0
      BY RowSubsets, ConstantsAssumption DEF InfrRow
  <2>3. OldRows' = OldRows /\ NewRows = {} /\ NewRows' = {}
      BY <1>0, <2>1, <2>2 DEF OldRows, NewRows, InFlight, ActiveRow, EmptyBatch,
                              UnderConstruction
  <2>4. \A h \in Guid : Waiting(h)' <=> Waiting(h)
      BY <1>7, AppendTokensRequest DEF Waiting, IsInference, Completed
  <2> QED BY <1>0, <2>1, <2>3, <2>4, PlacesKept DEF queue, GuidOf
<1>8. CASE TrainRow
  <2>1. OldRows' = OldRows /\ NewRows' = NewRows
      BY <1>8, TrainFacts DEF OldRows, NewRows, ActiveRow, InFlight
  <2>2. PICK g \in Guid :
            /\ IsFinetuning(g)
            /\ \A h \in Guid : h # g => all_requests'[h] = all_requests[h]
            /\ all_requests'[g].req_type = all_requests[g].req_type
      BY <1>8, TrainFacts
  <2>3. \A h \in Guid : Waiting(h)' <=> Waiting(h)
      BY <2>2 DEF Waiting, IsInference, IsFinetuning, Completed
  <2>4. UNCHANGED << old_bc, new_bc, queue >>
      BY <1>8, TrainFacts DEF queue
  <2> QED BY <1>0, <2>1, <2>3, <2>4, PlacesKept DEF GuidOf
<1>9. ASSUME NEW i \in InfrRow, CarrySkip(i) \/ AdmitSkip(i)
      PROVE  PlacesInvariant'
  <2>1. /\ UNCHANGED << all_requests, pending_infr_request_queue, step, old_bc, new_bc >>
        /\ row = i /\ row' = i + 1
      BY <1>9 DEF CarrySkip, AdmitSkip, NextRow, registry
  <2>2. OldRows' = OldRows
    <3>1. CASE CarrySkip(i)
      <4>1. step = "carry" /\ i \notin OldRows
          BY <3>1 DEF CarrySkip, OldRows, ActiveRow
      <4> QED BY <2>1, <4>1, RowPassed
    <3>2. CASE AdmitSkip(i)
        BY <2>1, <3>2 DEF AdmitSkip, OldRows, InFlight
    <3> QED BY <1>9, <3>1, <3>2
  <2>3. NewRows' = NewRows /\ queue' = queue /\ \A h \in Guid : Waiting(h)' <=> Waiting(h)
      BY <2>1 DEF NewRows, ActiveRow, queue, Waiting, IsInference, Completed
  <2> QED BY <1>0, <2>1, <2>2, <2>3, PlacesKept DEF GuidOf
<1>10. CASE \/ Inference \/ CarryDone \/ AdmitDone \/ TrainSkip \/ PopPeft
            \/ (\E finished \in BOOLEAN : set_inference_finished(finished))
            \/ UNCHANGED vars
  <2>1. UNCHANGED << all_requests, pending_infr_request_queue, old_bc, new_bc >>
      BY <1>10 DEF Inference, CarryDone, AdmitDone, TrainSkip, PopPeft,
                   set_inference_finished, vars, registry, batch
  <2>2. OldRows' = OldRows
    <3>1. CASE CarryDone
      <4>1. \A r \in InfrRow : ~(r >= inference_batch_size)
          BY RowSubsets, ConstantsAssumption DEF InfrRow
      <4> QED BY <3>1, <4>1 DEF CarryDone, OldRows, InFlight
    <3>2. CASE Inference \/ AdmitDone \/ TrainSkip \/ PopPeft
        BY <3>2 DEF Inference, AdmitDone, TrainSkip, PopPeft, OldRows, InFlight,
                    ActiveRow, batch
    <3>3. CASE \/ (\E finished \in BOOLEAN : set_inference_finished(finished))
               \/ UNCHANGED vars
        BY <3>3 DEF set_inference_finished, vars, batch, OldRows, InFlight, ActiveRow
    <3> QED BY <1>10, <3>1, <3>2, <3>3
  <2>3. NewRows' = NewRows /\ queue' = queue /\ \A h \in Guid : Waiting(h)' <=> Waiting(h)
      BY <2>1 DEF NewRows, ActiveRow, queue, Waiting, IsInference, Completed
  <2> QED BY <1>0, <2>1, <2>2, <2>3, PlacesKept DEF GuidOf
<1> QED
    BY <1>1, <1>2, <1>3, <1>4, <1>5, <1>6, <1>7, <1>8, <1>9, <1>10
    DEF Next, Server, Client, PrepareNextBatch

-----------------------------------------------------------------------------
(* The rest of the invariant. *)

\* Only a registration changes the kind of a request, that of the guid it takes.
LEMMA NextKind ==
    ASSUME TypeInvariant, [Next]_vars, NEW g \in Guid
    PROVE  /\ next_available_guid' >= next_available_guid
           /\ \/ all_requests'[g].req_type = all_requests[g].req_type
              \/ g < next_available_guid'
<1>0. next_available_guid \in Nat
    BY DEF TypeInvariant, TypeOK
<1>1. ASSUME NEW prompt \in Prompts, register_new_request(prompt)
      PROVE  /\ next_available_guid' = next_available_guid + 1
             /\ g = next_available_guid \/ all_requests'[g] = all_requests[g]
    BY <1>1, RegisterFacts
<1>2. ASSUME NEW f \in Finetunings, register_new_peft_request(f)
      PROVE  /\ next_available_guid' = next_available_guid + 1
             /\ g = next_available_guid \/ all_requests'[g] = all_requests[g]
    BY <1>2, RegisterPeftFacts
<1>3. CASE AppendTokens
  <2>1. next_available_guid' = next_available_guid
      BY <1>3 DEF AppendTokens
  <2>2. all_requests'[g].req_type = all_requests[g].req_type
      BY <1>3, AppendTokensRequest
  <2> QED BY <1>0, <2>1, <2>2
<1>4. ASSUME NEW i \in InfrRow, CompleteRequest(i)
      PROVE  /\ next_available_guid' = next_available_guid
             /\ all_requests'[g].req_type = all_requests[g].req_type
  <2>1. OldRow(i) /\ next_available_guid' = next_available_guid
      BY <1>4 DEF CompleteRequest
  <2>2. PICK h \in Guid : h = GuidOf(old_bc, i)
      BY <2>1, OldRowType
  <2>3. all_requests' = [all_requests EXCEPT
                           ![h] = [all_requests[h] EXCEPT !.status = "COMPLETED"]]
      BY <1>4, <2>2 DEF CompleteRequest, GuidOf
  <2> QED BY <2>1, <2>3, CompletedType DEF TypeInvariant, TypeOK
<1>5. CASE TrainRow
    BY <1>0, <1>5, TrainFacts
<1>6. ASSUME NEW i \in InfrRow, CarryDecoding(i) \/ CarryPrompt(i) \/ AdmitRequest(i)
      PROVE  UNCHANGED << next_available_guid, all_requests >>
    BY <1>6 DEF CarryDecoding, CarryPrompt, AdmitRequest, registry
<1>7. CASE \/ Inference \/ CarryDone \/ AdmitDone \/ TrainSkip \/ PopPeft
           \/ SchedulePeft \/ ScheduleNone
           \/ (\E i \in InfrRow : CarrySkip(i) \/ AdmitSkip(i))
           \/ (\E finished \in BOOLEAN : set_inference_finished(finished))
           \/ UNCHANGED vars
  <2>1. UNCHANGED << next_available_guid, all_requests >>
      BY <1>7 DEF Inference, CarryDone, AdmitDone, TrainSkip, PopPeft, SchedulePeft,
                  ScheduleNone, Launch, CarrySkip, AdmitSkip, set_inference_finished,
                  vars, registry
  <2> QED BY <1>0, <2>1
<1> QED
    BY <1>0, <1>1, <1>2, <1>3, <1>4, <1>5, <1>6, <1>7
    DEF Next, Server, Client, PrepareNextBatch, Guid

\* A guid stays unused until a registration takes it.
LEMMA NextUnused ==
    ASSUME TypeInvariant, UnusedGuids, [Next]_vars
    PROVE  UnusedGuids'
<1> SUFFICES ASSUME NEW g \in Guid, g >= next_available_guid'
             PROVE  all_requests'[g].req_type = "NONE"
    BY DEF UnusedGuids
<1>1. next_available_guid \in Nat /\ next_available_guid' \in Nat /\ g \in Nat
    BY NextTypeInvariant DEF TypeInvariant, TypeOK, Guid
<1>2. /\ next_available_guid' >= next_available_guid
      /\ all_requests'[g].req_type = all_requests[g].req_type
    BY <1>1, NextKind
<1> QED BY <1>1, <1>2 DEF UnusedGuids

\* The rows of the next batch are filled in the order of the loops.
LEMMA NextUnderConstruction ==
    ASSUME TypeInvariant, UnderConstruction, [Next]_vars
    PROVE  UnderConstruction'
<1>1. CASE AppendTokens \/ SchedulePeft \/ ScheduleNone
  <2>1. new_bc' = EmptyBatch
      BY <1>1 DEF AppendTokens, SchedulePeft, ScheduleNone, Launch
  <2>2. ActiveRow(new_bc') = {}
      BY <2>1 DEF ActiveRow, EmptyBatch
  <2> QED BY <2>2 DEF UnderConstruction, ActiveRow
<1>2. ASSUME NEW i \in InfrRow,
             CarryDecoding(i) \/ CarryPrompt(i) \/ AdmitRequest(i)
      PROVE  UnderConstruction'
  <2>1. /\ row = i /\ row' = row + 1 /\ step' = step
        /\ \E info \in PerRequestInfo, d \in BOOLEAN : new_bc' = PutRow(new_bc, i, info, d)
    <3>1. CASE AdmitRequest(i)
        BY <3>1, AdmitChunk
    <3>2. CASE CarryDecoding(i) \/ CarryPrompt(i)
      <4>1. PICK n \in Int, p, d \in BOOLEAN :
                new_bc' = PutRow(new_bc, i, CarriedInfo(i, n, p), d)
          BY <3>2, CarryStep
      <4>2. CarriedInfo(i, n, p) \in PerRequestInfo
          BY <3>2, CarryStep, CarriedInfoType
      <4>3. row = i /\ row' = row + 1 /\ step' = step
          BY <3>2, CarryStep
      <4> HIDE DEF CarriedInfo
      <4> QED BY <4>1, <4>2, <4>3
    <3> QED BY <1>2, <3>1, <3>2
  <2>2. new_bc \in BatchConfig /\ i \in Row /\ i \in Int
      BY RowSubsets, ConstantsAssumption DEF TypeInvariant, TypeOK, InfrRow
  <2>3. ActiveRow(new_bc') = ActiveRow(new_bc) \cup {i}
      BY <2>1, <2>2, PutRowRows
  <2>4. ~InFlight'
      BY <1>2, <2>1 DEF CarryDecoding, CarryPrompt, OldRow, AdmitRequest, InFlight
  <2>5. ASSUME step' = "carry", NEW r \in ActiveRow(new_bc')
        PROVE  r < row'
    <3>1. CASE r = i
        BY <2>1, <2>2, <3>1
    <3>2. CASE r # i
      <4>1. r < row /\ r \in Int
          BY <2>1, <2>3, <2>5, <3>2, RowSubsets, ConstantsAssumption
          DEF UnderConstruction, InfrRow
      <4> QED BY <2>1, <2>2, <4>1
    <3> QED BY <3>1, <3>2
  <2>6. ActiveRow(new_bc') \subseteq InfrRow
      BY <2>3 DEF UnderConstruction
  <2> QED BY <2>4, <2>5, <2>6 DEF UnderConstruction, ActiveRow
<1>3. ASSUME NEW i \in InfrRow, CarrySkip(i) \/ CompleteRequest(i) \/ AdmitSkip(i)
      PROVE  UnderConstruction'
  <2>1. /\ UNCHANGED << step, new_bc >> /\ row = i /\ row' = i + 1
      BY <1>3 DEF CarrySkip, CompleteRequest, OldRow, AdmitSkip, NextRow
  <2>2. \A r \in InfrRow : r < row => r < row'
      BY <2>1, RowSubsets, ConstantsAssumption DEF InfrRow
  <2> QED BY <2>1, <2>2 DEF UnderConstruction, ActiveRow, InFlight
<1>4. CASE \/ Inference \/ CarryDone \/ AdmitDone \/ TrainRow \/ TrainSkip \/ PopPeft
           \/ (\E prompt \in Prompts : register_new_request(prompt))
           \/ (\E f \in Finetunings : register_new_peft_request(f))
           \/ (\E finished \in BOOLEAN : set_inference_finished(finished))
           \/ UNCHANGED vars
  <2>1. /\ new_bc' = new_bc
        /\ InFlight' => InFlight
        /\ step' = "carry" => step = "carry" /\ row' = row
      BY <1>4 DEF Inference, CarryDone, AdmitDone, TrainRow, TrainSkip, PopPeft,
                  register_new_request, register_new_peft_request, Refuse,
                  set_inference_finished, vars, batch, InFlight
  <2> QED BY <2>1 DEF UnderConstruction, ActiveRow
<1> QED
    BY <1>1, <1>2, <1>3, <1>4 DEF Next, Server, Client, PrepareNextBatch

\* The finetuning row stays the next tokens of the head of the finetuning queue.
LEMMA NextFinetuningRow ==
    ASSUME TypeInvariant, RowsInvariant, [Next]_vars
    PROVE  FinetuningRow'
<1>0. FinetuningRow /\ UnusedGuids /\ UnderConstruction
    BY DEF RowsInvariant
<1> SUFFICES ASSUME step' # "schedule", PeftEnabled, (PeftRow \in ActiveRow(old_bc))'
             PROVE  FinetuningRow'
    BY DEF FinetuningRow
<1>1. CASE SchedulePeft \/ ScheduleNone
  <2>1. PICK bc \in BatchConfig :
            /\ Launch(bc)
            /\ PeftEnabled /\ PeftRow \in ActiveRow(bc) =>
                 LET info    == bc.requestsInfo[PeftRow]
                     g       == Head(peft_queue)
                     request == all_requests[g]
                 IN  /\ peft_queue # << >> /\ g \in Guid
                     /\ ~Completed(g) /\ info.request_guid = g
                     /\ info.first_token_depth_in_request
                          = request.dataset_entry_processed_tokens
                     /\ info.first_token_depth_in_request + info.num_tokens_in_batch
                          <= EntrySize(request)
                     /\ request.completed_training_steps
                          < request.finetuning.max_training_steps
      BY <1>0, <1>1, LaunchFacts
  <2>2. old_bc' = bc /\ peft_queue' = peft_queue /\ all_requests' = all_requests
      BY <2>1 DEF Launch, registry, peft_queue
  <2>3. PeftRow \in ActiveRow(bc)
      BY <2>2 DEF ActiveRow
  <2> QED BY <2>1, <2>2, <2>3 DEF FinetuningRow, GuidOf, EndDepth, Completed
<1>2. CASE ~(SchedulePeft \/ ScheduleNone)
  <2>1. old_bc' = old_bc /\ step # "schedule"
      BY <1>2 DEF Next, Server, Client, PrepareNextBatch, Inference, AppendTokens, CarrySkip,
                  CompleteRequest, CarryDecoding, CarryPrompt, CarryDone, AdmitSkip,
                  AdmitRequest, AdmitDone, TrainRow, TrainSkip, PopPeft,
                  register_new_request, register_new_peft_request, Refuse,
                  set_inference_finished, vars, batch
  <2>2. PeftRow \in ActiveRow(old_bc) /\ PeftRow \in Row
      BY <2>1, RowSubsets DEF ActiveRow
  <2>3. PICK g \in Guid : g = GuidOf(old_bc, PeftRow)
      BY <2>2 DEF TypeInvariant, RowsRegistered
  <2>4. /\ peft_queue # << >> /\ g = Head(peft_queue) /\ ~Completed(g)
        /\ peft_queue \in Seq(Guid) /\ IsFinetuning(g) /\ g < next_available_guid
    <3>1. peft_queue # << >> /\ g = Head(peft_queue) /\ ~Completed(g)
        BY <1>0, <2>1, <2>2, <2>3 DEF FinetuningRow
    <3>2. peft_queue \in Seq(Guid)
        BY GuidTypes
    <3>3. 1 \in DOMAIN peft_queue /\ g = peft_queue[1]
        BY <3>1, <3>2, TailFacts
    <3> QED BY <3>1, <3>2, <3>3 DEF TypeInvariant, QueuesWellFormed, peft_queue
  <2>5. peft_queue' # << >> /\ g = Head(peft_queue')
        /\ all_requests'[g] = all_requests[g]
    <3>1. CASE UNCHANGED << all_requests, peft_queue >>
        BY <2>4, <3>1
    <3>2. CASE \E prompt \in Prompts : register_new_request(prompt)
      <4>1. PICK prompt \in Prompts : register_new_request(prompt)
          BY <3>2
      <4>2. g # next_available_guid
          BY <2>4, GuidTypes DEF Guid
      <4>3. peft_queue' = peft_queue
          BY <4>1, RegisterFacts
      <4>4. all_requests'[g] = all_requests[g]
          BY <4>1, <4>2, RegisterFacts
      <4> QED BY <2>4, <4>3, <4>4
    <3>3. CASE \E f \in Finetunings : register_new_peft_request(f)
      <4>1. PICK f \in Finetunings : register_new_peft_request(f)
          BY <3>3
      <4>2. peft_queue' = peft_queue \/ peft_queue' = Append(peft_queue, next_available_guid)
          BY <4>1, RegisterPeftFacts
      <4>3. g # next_available_guid
          BY <2>4, GuidTypes DEF Guid
      <4>4. next_available_guid \in Guid /\ all_requests'[g] = all_requests[g]
          BY <4>1, <4>3, RegisterPeftFacts
      <4> QED BY <2>4, <4>2, <4>4
    <3>4. CASE AppendTokens
      <4>1. peft_queue' = peft_queue
          BY <3>4 DEF AppendTokens, peft_queue
      <4>2. all_requests'[g] = all_requests[g]
          BY <2>4, <3>4, AppendTokensOther DEF IsFinetuning, IsInference
      <4> QED BY <2>4, <4>1, <4>2
    <3>5. ASSUME NEW i \in InfrRow, CompleteRequest(i)
          PROVE  peft_queue' = peft_queue /\ all_requests'[g] = all_requests[g]
      <4>1. OldRow(i) /\ peft_queue' = peft_queue
          BY <3>5 DEF CompleteRequest, peft_queue
      <4>2. /\ IsInference(GuidOf(old_bc, i))
            /\ all_requests' = [all_requests EXCEPT
                                  ![GuidOf(old_bc, i)].status = "COMPLETED"]
          BY <3>5, <4>1 DEF CompleteRequest, OldRow, GuidOf
      <4> QED BY <2>4, <4>1, <4>2 DEF IsInference, IsFinetuning, TypeInvariant, TypeOK
    <3>6. CASE \/ Inference \/ CarryDone \/ AdmitDone \/ TrainSkip \/ UNCHANGED vars
               \/ (\E i \in InfrRow : \/ CarrySkip(i) \/ CarryDecoding(i) \/ CarryPrompt(i)
                                      \/ AdmitSkip(i) \/ AdmitRequest(i))
               \/ (\E finished \in BOOLEAN : set_inference_finished(finished))
        BY <3>1, <3>6 DEF Inference, CarryDone, AdmitDone, TrainSkip, CarrySkip, CarryDecoding,
                   CarryPrompt, AdmitSkip, AdmitRequest, set_inference_finished, vars,
                   registry, peft_queue
    <3>7. ~TrainRow /\ ~PopPeft
        BY <2>1 DEF TrainRow, PopPeft
    <3> QED BY <1>2, <2>4, <3>2, <3>3, <3>4, <3>5, <3>6, <3>7
            DEF Next, Server, Client, PrepareNextBatch
  <2> QED BY <1>0, <2>1, <2>2, <2>3, <2>4, <2>5 DEF FinetuningRow, GuidOf, EndDepth, Completed
<1> QED BY <1>1, <1>2

-----------------------------------------------------------------------------
(* The theorems. *)

\* No place, no request, no row: the invariant holds initially.
LEMMA InitRows == Init => RowsInvariant
<1> SUFFICES ASSUME Init PROVE RowsInvariant
    OBVIOUS
<1>1. ActiveRow(old_bc) = {} /\ ActiveRow(new_bc) = {} /\ queue = << >>
    BY DEF Init, ActiveRow, EmptyBatch, queue
<1>2. \A g \in Guid : all_requests[g].req_type = "NONE"
    BY DEF Init, NoRequest
<1>3. PlacesInvariant
    BY <1>1, <1>2 DEF PlacesInvariant, PlacesDistinct, PlacesWaiting, WaitingPlaced, OldRows,
                      NewRows, Waiting, IsInference
<1> QED BY <1>1, <1>2, <1>3 DEF RowsInvariant, UnusedGuids, UnderConstruction, FinetuningRow

\* Every step keeps it.
LEMMA NextRows ==
    ASSUME TypeInvariant, RowsInvariant, [Next]_vars
    PROVE  RowsInvariant'
<1>1. UnusedGuids /\ UnderConstruction
    BY DEF RowsInvariant
<1> QED BY <1>1, NextPlaces, NextUnused, NextUnderConstruction, NextFinetuningRow
        DEF RowsInvariant

\* The inductive invariant of the places and the rows holds of every behaviour.
THEOREM RowsInvariantHolds == Spec => [](TypeInvariant /\ RowsInvariant)
<1>1. Init => TypeInvariant /\ RowsInvariant
    BY InitTypeInvariant, InitRows
<1>2. (TypeInvariant /\ RowsInvariant) /\ [Next]_vars => (TypeInvariant /\ RowsInvariant)'
    BY NextTypeInvariant, NextRows
<1> QED BY <1>1, <1>2, PTL DEF Spec

\* Every inference request is, until it completes, in exactly one of the queue,
\* the rows of the last batch still to be carried over and the rows of the next
\* one, and then in none: for every number of rows, token budget and dataset,
\* whatever is registered while the model runs, none is lost or served twice.
THEOREM NoRequestIsLost == Spec => []NoRequestLost
<1>1. ASSUME TypeInvariant, RowsInvariant
      PROVE  NoRequestLost
  <2> SUFFICES ASSUME NEW g \in Guid, IsInference(g)
               PROVE  Cardinality(Places(g)) = IF Completed(g) THEN 0 ELSE 1
      BY DEF NoRequestLost
  <2> DEFINE InQueue == {k \in DOMAIN queue : queue[k] = g}
             InOld   == {r \in OldRows : GuidOf(old_bc, r) = g}
             InNew   == {r \in NewRows : GuidOf(new_bc, r) = g}
  <2>1. Places(g) = {<< "queue", k >> : k \in InQueue} \cup {<< "old", r >> : r \in InOld}
                      \cup {<< "new", r >> : r \in InNew}
    <3>1. InOld = {r \in ActiveRow(old_bc) \cap InfrRow :
                       /\ GuidOf(old_bc, r) = g
                       /\ \/ InFlight
                          \/ step = "carry" /\ r >= row}
        BY Zenon DEF OldRows
    <3>2. InNew = {r \in ActiveRow(new_bc) \cap InfrRow : GuidOf(new_bc, r) = g}
        BY DEF NewRows
    <3> QED BY <3>1, <3>2, Zenon DEF Places, queue
  <2>2. CASE Completed(g)
    <3>1. InQueue = {} /\ InOld = {} /\ InNew = {}
        BY <1>1, <2>2 DEF RowsInvariant, PlacesInvariant, PlacesWaiting, Waiting
    <3>2. Places(g) = {}
        BY <2>1, <3>1
    <3> QED BY <2>2, <3>2, FS_EmptySet
  <2>3. CASE ~Completed(g)
    <3>1. Placed(g)
        BY <1>1, <2>3 DEF RowsInvariant, PlacesInvariant, WaitingPlaced, Waiting
    <3>2. PlacesDistinct
        BY <1>1 DEF RowsInvariant, PlacesInvariant
    <3>3. /\ \A k : {<< "queue", j >> : j \in {k}} = {<< "queue", k >>}
          /\ \A k : {<< "old", r >> : r \in {k}} = {<< "old", k >>}
          /\ \A k : {<< "new", r >> : r \in {k}} = {<< "new", k >>}
          /\ {<< "queue", j >> : j \in {}} = {}
          /\ {<< "old", r >> : r \in {}} = {}
          /\ {<< "new", r >> : r \in {}} = {}
        OBVIOUS
    <3>4. \E p : Places(g) = {p}
      <4>1. CASE \E k \in DOMAIN queue : queue[k] = g
        <5>1. PICK k \in DOMAIN queue : queue[k] = g
            BY <4>1
        <5>2. InQueue = {k} /\ InOld = {} /\ InNew = {}
            BY <3>2, <5>1 DEF PlacesDistinct
        <5>3. Places(g) = {<< "queue", k >>}
          <6> HIDE DEF InQueue, InOld, InNew
          <6>1. Places(g) = {<< "queue", k >>} \cup {} \cup {}
              BY <2>1, <3>3, <5>2, Zenon
          <6> QED BY <6>1
        <5> QED BY <5>3
      <4>2. CASE \E r \in OldRows : GuidOf(old_bc, r) = g
        <5>1. PICK r \in OldRows : GuidOf(old_bc, r) = g
            BY <4>2
        <5>2. InQueue = {} /\ InOld = {r} /\ InNew = {}
            BY <3>2, <5>1 DEF PlacesDistinct
        <5>3. Places(g) = {<< "old", r >>}
          <6> HIDE DEF InQueue, InOld, InNew
          <6>1. Places(g) = {} \cup {<< "old", r >>} \cup {}
              BY <2>1, <3>3, <5>2, Zenon
          <6> QED BY <6>1
        <5> QED BY <5>3
      <4>3. CASE \E r \in NewRows : GuidOf(new_bc, r) = g
        <5>1. PICK r \in NewRows : GuidOf(new_bc, r) = g
            BY <4>3
        <5>2. InQueue = {} /\ InOld = {} /\ InNew = {r}
            BY <3>2, <5>1 DEF PlacesDistinct
        <5>3. Places(g) = {<< "new", r >>}
          <6> HIDE DEF InQueue, InOld, InNew
          <6>1. Places(g) = {} \cup {} \cup {<< "new", r >>}
              BY <2>1, <3>3, <5>2, Zenon
          <6> QED BY <6>1
        <5> QED BY <5>3
      <4> QED BY <3>1, <4>1, <4>2, <4>3 DEF Placed
    <3> QED BY <2>3, <3>4, FS_Singleton
  <2> QED BY <2>2, <2>3
<1> QED BY <1>1, RowsInvariantHolds, PTL

\* The rows invariant says that the rows serve the requests they should.
LEMMA RowsServe ==
    ASSUME TypeInvariant, RowsInvariant
    PROVE  RowsServePending
<1> SUFFICES ASSUME InFlight
             PROVE  RowsServePending
    BY DEF RowsServePending
<1>1. ASSUME NEW r \in ActiveRow(old_bc)
      PROVE  GuidOf(old_bc, r) \in Guid
    BY DEF TypeInvariant, RowsRegistered
<1>2. ASSUME NEW r \in ActiveRow(old_bc), r \in InfrRow
      PROVE  r \in OldRows /\ IsInference(GuidOf(old_bc, r)) /\ ~Completed(GuidOf(old_bc, r))
    BY <1>2 DEF OldRows, RowsInvariant, PlacesInvariant, PlacesWaiting, Waiting
<1>3. ASSUME NEW r \in ActiveRow(old_bc), r \notin InfrRow
      PROVE  /\ r = PeftRow /\ IsFinetuning(GuidOf(old_bc, r))
             /\ ~Completed(GuidOf(old_bc, r)) /\ pending_peft_request_queue # << >>
             /\ GuidOf(old_bc, r) = Head(pending_peft_request_queue)
  <2>1. PeftEnabled /\ r = PeftRow
      BY <1>3, OtherRow DEF ActiveRow
  <2>2. step # "schedule"
      BY DEF InFlight
  <2>3. /\ peft_queue # << >> /\ GuidOf(old_bc, r) = Head(peft_queue)
        /\ ~Completed(GuidOf(old_bc, r))
      BY <2>1, <2>2 DEF RowsInvariant, FinetuningRow
  <2>4. IsFinetuning(Head(peft_queue))
    <3>1. 1 \in DOMAIN peft_queue /\ Head(peft_queue) = peft_queue[1]
        BY <2>3, GuidTypes, TailFacts
    <3> QED BY <3>1 DEF TypeInvariant, QueuesWellFormed, peft_queue
  <2> QED BY <2>1, <2>3, <2>4 DEF peft_queue
<1>4. ASSUME NEW r1 \in ActiveRow(old_bc), NEW r2 \in ActiveRow(old_bc),
             GuidOf(old_bc, r1) = GuidOf(old_bc, r2)
      PROVE  r1 = r2
  <2>1. r1 \in InfrRow <=> r2 \in InfrRow
      BY <1>2, <1>3, <1>4 DEF IsInference, IsFinetuning
  <2>2. CASE r1 \in InfrRow
      BY <1>2, <1>4, <2>1, <2>2 DEF RowsInvariant, PlacesInvariant, PlacesDistinct
  <2>3. CASE r1 \notin InfrRow
      BY <1>3, <2>1, <2>3
  <2> QED BY <2>2, <2>3
<1> QED BY <1>1, <1>2, <1>3, <1>4 DEF RowsServePending

\* The rows of the batch the model runs on serve distinct pending requests, the
\* inference rows inference requests and the finetuning row the oldest finetuning
\* request that has not completed.
THEOREM RowsAlwaysServePending == Spec => []RowsServePending
BY RowsServe, RowsInvariantHolds, PTL

\* The finetuning row of a batch holds the tokens of the current dataset entry
\* from where the last one stopped, never past the entry's end and never after
\* the last training step, whatever chunks the token budget leaves.
THEOREM FinetuningAlwaysResumes == Spec => []FinetuningResumes
<1>1. RowsInvariant => FinetuningResumes
  <2> SUFFICES ASSUME RowsInvariant, PeftEnabled, InFlight,
                      ~old_bc.request_completed[PeftRow]
               PROVE  FinetuningResumes
      BY DEF FinetuningResumes
  <2>1. PeftRow \in ActiveRow(old_bc) /\ step # "schedule"
      BY RowSubsets DEF ActiveRow, InFlight
  <2> QED BY <2>1 DEF RowsInvariant, FinetuningRow, FinetuningResumes, GuidOf
<1> QED BY <1>1, RowsInvariantHolds, PTL
=============================================================================
