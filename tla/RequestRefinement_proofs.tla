---------------------- MODULE RequestRefinement_proofs ----------------------
(***************************************************************************)
(* Proofs about RequestRefinement: every step of the request manager is a  *)
(* step of RequestService, or changes nothing the clients can see.         *)
(***************************************************************************)
EXTENDS RequestBatch_proofs, RequestRefinement

-----------------------------------------------------------------------------
(* The inductive invariant. *)

\* A promise is set exactly when its request is completed, and only requests
\* that were accepted complete.
PromisesKept ==
    \A g \in Guid :
        /\ request_to_promise[g] = "set" <=> Completed(g)
        /\ all_requests[g].req_type = "NONE" => ~Completed(g)

\* A request in the queue has no token but its prompt's.
QueuedPrompts ==
    \A k \in DOMAIN queue :
        all_requests[queue[k]].tokens = all_requests[queue[k]].initial_len

\* Rows carry the limits of their requests ...
Limits(bc, rows, requests) ==
    \A r \in rows : bc.requestsInfo[r].max_sequence_length
                      = requests[GuidOf(bc, r)].max_sequence_length

\* ... and a request is given to the model only if it is not over, or has no
\* token but its prompt's.
GoesOn(bc, rows, requests) ==
    \A r \in rows :
        LET q == requests[GuidOf(bc, r)]
        IN  \/ q.tokens < q.max_sequence_length /\ ~q.eos
            \/ q.tokens = q.initial_len

RequestsInvariant ==
    /\ PromisesKept
    /\ QueuedPrompts
    /\ Limits(old_bc, OldRows, all_requests)
    /\ Limits(new_bc, NewRows, all_requests)
    /\ InFlight => GoesOn(old_bc, OldRows, all_requests)
    /\ GoesOn(new_bc, NewRows, all_requests)

RefinementInvariant == SlotsAndRows /\ RequestsInvariant

\* The promises are kept by registration ...
LEMMA RegisterPromises ==
    ASSUME TypeInvariant, UnusedGuids, PromisesKept,
           (\E prompt \in Prompts : register_new_request(prompt))
             \/ \E f \in Finetunings : register_new_peft_request(f)
    PROVE  PromisesKept'
<1> DEFINE g == next_available_guid
<1>1. g \in Guid /\ \A h \in Guid : h # g => all_requests'[h] = all_requests[h]
    BY RegisterFacts, RegisterPeftFacts
<1>2. \/ UNCHANGED << all_requests, outcome >>
      \/ /\ all_requests'[g].req_type # "NONE" /\ all_requests'[g].status = "PENDING"
         /\ request_to_promise' = [request_to_promise EXCEPT ![g] = "pending"]
  <2>1. ASSUME NEW prompt \in Prompts, register_new_request(prompt)
        PROVE  <1>2!1 \/ <1>2!2
    <3>1. CASE all_requests'[g] = [NoRequest EXCEPT !.req_type = "REQ_INFERENCE",
                                     !.tokens = Bos + prompt.size,
                                     !.initial_len = Bos + prompt.size,
                                     !.eos = prompt.eos,
                                     !.max_sequence_length = prompt.max_sequence_length]
      <4>1. all_requests'[g].req_type # "NONE" /\ all_requests'[g].status = "PENDING"
          BY <3>1 DEF NoRequest
      <4> QED BY <2>1, <4>1, RegisterFacts
    <3> QED BY <2>1, <3>1, RegisterFacts
  <2>2. ASSUME NEW f \in Finetunings, register_new_peft_request(f)
        PROVE  <1>2!1 \/ <1>2!2
    <3>1. CASE all_requests'[g] = [NoRequest EXCEPT !.req_type = "REQ_FINETUNING",
                                                    !.finetuning = f]
      <4>1. all_requests'[g].req_type # "NONE" /\ all_requests'[g].status = "PENDING"
          BY <3>1 DEF NoRequest
      <4> QED BY <2>2, <4>1, RegisterPeftFacts
    <3> QED BY <2>2, <3>1, RegisterPeftFacts
  <2> QED BY <2>1, <2>2
<1>3. request_to_promise \in [Guid -> {"none", "pending", "set"}]
    BY DEF TypeInvariant, TypeOK
<1> QED BY <1>1, <1>2, <1>3 DEF PromisesKept, Completed, outcome

\* ... and by completion.
LEMMA PublishPromises ==
    ASSUME TypeInvariant, PromisesKept, NEW g \in Guid, NEW n, Publish(g, n),
           all_requests'[g].status = "COMPLETED", all_requests[g].req_type # "NONE",
           all_requests'[g].req_type = all_requests[g].req_type,
           \A h \in Guid : h # g => all_requests'[h] = all_requests[h]
    PROVE  PromisesKept'
<1>1. request_to_promise \in [Guid -> {"none", "pending", "set"}]
    BY DEF TypeInvariant, TypeOK
<1>2. request_to_promise' = [request_to_promise EXCEPT ![g] = "set"]
    BY DEF Publish
<1> QED BY <1>1, <1>2 DEF PromisesKept, Completed

\* What a step that completes a request of a row does.
LEMMA CompleteFacts ==
    ASSUME TypeInvariant, NEW i \in InfrRow, CompleteRequest(i)
    PROVE  LET g == GuidOf(old_bc, i)
           IN  /\ g \in Guid /\ all_requests[g] \in Request /\ IsInference(g)
               /\ step = "carry" /\ i \in OldRows
               /\ check_inf_req_completion(old_bc, i)
               /\ all_requests' = [all_requests EXCEPT ![g] =
                                       [all_requests[g] EXCEPT !.status = "COMPLETED"]]
               /\ Publish(g, all_requests[g].tokens)
               /\ UNCHANGED << next_available_guid, queue, peft_queue, step, old_bc, new_bc >>
<1>1. OldRow(i) /\ GuidOf(old_bc, i) \in Guid
    BY OldRowType DEF CompleteRequest
<1>2. all_requests[GuidOf(old_bc, i)] \in Request
    BY <1>1 DEF TypeInvariant, TypeOK
<1>3. IsInference(GuidOf(old_bc, i)) /\ step = "carry" /\ i = row /\ i \in ActiveRow(old_bc)
    BY <1>1, RowSubsets DEF OldRow, GuidOf, ActiveRow
<1>4. i \in OldRows
    BY <1>3, RowSubsets DEF OldRows, InfrRow
<1> QED BY <1>1, <1>2, <1>3, <1>4 DEF CompleteRequest, GuidOf, queue, peft_queue

\* The promises stay kept.
LEMMA NextPromises ==
    ASSUME TypeInvariant, UnusedGuids, PromisesKept, [Next]_vars
    PROVE  PromisesKept'
<1>1. CASE UNCHANGED << all_requests, outcome >>
    BY <1>1 DEF PromisesKept, Completed, outcome
<1>2. CASE (\E prompt \in Prompts : register_new_request(prompt))
             \/ \E f \in Finetunings : register_new_peft_request(f)
    BY <1>2, RegisterPromises
<1>3. CASE AppendTokens
  <2>1. UNCHANGED outcome
      BY <1>3 DEF AppendTokens
  <2>2. \A g \in Guid : /\ all_requests'[g].req_type = all_requests[g].req_type
                        /\ all_requests'[g].status = all_requests[g].status
      BY <1>3, AppendTokensRequest
  <2> QED BY <2>1, <2>2 DEF PromisesKept, Completed, outcome
<1>4. ASSUME NEW i \in InfrRow, CompleteRequest(i)
      PROVE  PromisesKept'
  <2> DEFINE g == GuidOf(old_bc, i)
  <2>1. /\ g \in Guid /\ all_requests[g] \in Request /\ IsInference(g)
        /\ all_requests' = [all_requests EXCEPT ![g] =
                                [all_requests[g] EXCEPT !.status = "COMPLETED"]]
        /\ Publish(g, all_requests[g].tokens)
      BY <1>4, CompleteFacts
  <2>2. all_requests \in [Guid -> Request]
      BY DEF TypeInvariant, TypeOK
  <2> HIDE DEF g
  <2>3. /\ all_requests'[g].status = "COMPLETED"
        /\ all_requests'[g].req_type = all_requests[g].req_type
        /\ \A h \in Guid : h # g => all_requests'[h] = all_requests[h]
      BY <2>1, <2>2 DEF Request
  <2> QED BY <2>1, <2>3, PublishPromises DEF IsInference
<1>5. CASE TrainRow
  <2> DEFINE info    == old_bc.requestsInfo[PeftRow]
             g       == GuidOf(old_bc, PeftRow)
             trained == Trained(all_requests[g], info)
  <2>1. /\ g \in Guid /\ all_requests[g] \in Request /\ IsFinetuning(g)
        /\ info \in PerRequestInfo /\ info.num_tokens_in_batch > 0
        /\ \A h \in Guid : h # g => all_requests'[h] = all_requests[h]
        /\ all_requests'[g].req_type = all_requests[g].req_type
        /\ \/ /\ all_requests'[g] = [trained EXCEPT !.status = "COMPLETED"]
              /\ Publish(g, trained.finetuning_losses)
           \/ /\ all_requests'[g] = trained
              /\ UNCHANGED outcome
      BY <1>5, TrainFacts
  <2>2. trained \in Request /\ trained.status = all_requests[g].status
    <3>1. trained \in Request
        BY <2>1, TrainedType
    <3>2. trained.status = all_requests[g].status
        BY <2>1 DEF Trained, Request
    <3> QED BY <3>1, <3>2
  <2> HIDE DEF g, trained
  <2>3. CASE /\ all_requests'[g] = [trained EXCEPT !.status = "COMPLETED"]
             /\ Publish(g, trained.finetuning_losses)
    <3>1. all_requests'[g].status = "COMPLETED"
        BY <2>2, <2>3 DEF Request
    <3> QED BY <2>1, <2>3, <3>1, PublishPromises DEF IsFinetuning
  <2>4. CASE all_requests'[g] = trained /\ UNCHANGED outcome
    <3>1. \A h \in Guid : /\ all_requests'[h].req_type = all_requests[h].req_type
                          /\ all_requests'[h].status = all_requests[h].status
        BY <2>1, <2>2, <2>4
    <3> QED BY <2>4, <3>1 DEF PromisesKept, Completed, outcome
  <2> QED BY <2>1, <2>3, <2>4
<1>6. CASE Inference \/ CarryDone \/ AdmitDone \/ TrainSkip \/ PopPeft \/ SchedulePeft
             \/ ScheduleNone
    BY <1>1, <1>6 DEF Inference, CarryDone, AdmitDone, TrainSkip, PopPeft, SchedulePeft,
                      ScheduleNone, Launch, registry
<1>7. CASE \E i \in InfrRow : \/ CarrySkip(i) \/ CarryDecoding(i) \/ CarryPrompt(i)
                              \/ AdmitSkip(i) \/ AdmitRequest(i)
    BY <1>1, <1>7 DEF CarrySkip, CarryDecoding, CarryPrompt, AdmitSkip, AdmitRequest,
                      registry
<1>8. CASE \E finished \in BOOLEAN : set_inference_finished(finished)
    BY <1>1, <1>8 DEF set_inference_finished, registry
<1>9. CASE UNCHANGED vars
    BY <1>1, <1>9 DEF vars, registry
<1> QED BY <1>2, <1>3, <1>4, <1>5, <1>6, <1>7, <1>8, <1>9
        DEF Next, Server, PrepareNextBatch, Client

\* The slots whose tokens are appended to request g.
Given(g) == {s \in Slot : /\ Yields(old_bc, s)
                          /\ g = GuidOf(old_bc, old_bc.tokensInfo[s].request_index)}

\* What appending tokens does to a request.
LEMMA AppendedRequest ==
    ASSUME AppendTokens, NEW g \in Guid
    PROVE  all_requests'[g] =
               IF Given(g) = {} THEN all_requests[g]
               ELSE [all_requests[g] EXCEPT !.tokens = @ + 1,
                                            !.eos = Given(g) \subseteq result]
BY DEF AppendTokens, Given, GuidOf

\* The limit and the size of the prompt of an accepted request never change.
LEMMA NextLimit ==
    ASSUME TypeInvariant, UnusedGuids, [Next]_vars, NEW g \in Guid, IsInference(g)
    PROVE  /\ all_requests'[g].max_sequence_length = all_requests[g].max_sequence_length
           /\ all_requests'[g].initial_len = all_requests[g].initial_len
<1>1. CASE UNCHANGED all_requests
    BY <1>1
<1>2. g # next_available_guid
  <2>1. g = next_available_guid => all_requests[g].req_type = "NONE"
      BY GuidTypes DEF UnusedGuids
  <2> QED BY <2>1 DEF IsInference
<1>3. ASSUME NEW prompt \in Prompts, register_new_request(prompt)
      PROVE  all_requests'[g] = all_requests[g]
    BY <1>2, <1>3, RegisterFacts
<1>4. ASSUME NEW f \in Finetunings, register_new_peft_request(f)
      PROVE  all_requests'[g] = all_requests[g]
    BY <1>2, <1>4, RegisterPeftFacts
<1>5. all_requests \in [Guid -> Request]
    BY DEF TypeInvariant, TypeOK
<1>6. ASSUME NEW i \in InfrRow, CompleteRequest(i)
      PROVE  /\ all_requests'[g].max_sequence_length = all_requests[g].max_sequence_length
             /\ all_requests'[g].initial_len = all_requests[g].initial_len
  <2>1. PICK h \in Guid : all_requests' = [all_requests EXCEPT ![h] =
                              [all_requests[h] EXCEPT !.status = "COMPLETED"]]
      BY <1>6, CompleteFacts
  <2> QED BY <1>5, <2>1 DEF Request
<1>7. CASE TrainRow
  <2>1. g # GuidOf(old_bc, PeftRow)
      BY <1>7, TrainFacts DEF IsInference, IsFinetuning
  <2> QED BY <1>7, <2>1, TrainFacts
<1>8. CASE AppendTokens
  <2>1. PICK t, e : \/ all_requests'[g] = all_requests[g]
                    \/ all_requests'[g] = [all_requests[g] EXCEPT !.tokens = t, !.eos = e]
    <3> DEFINE t == all_requests[g].tokens + 1
               e == Given(g) \subseteq result
    <3>1. all_requests'[g] = IF Given(g) = {} THEN all_requests[g]
                             ELSE [all_requests[g] EXCEPT !.tokens = t, !.eos = e]
        BY <1>8, AppendedRequest
    <3> HIDE DEF t, e
    <3>2. \/ all_requests'[g] = all_requests[g]
          \/ all_requests'[g] = [all_requests[g] EXCEPT !.tokens = t, !.eos = e]
        BY <3>1
    <3> QED BY <3>2
  <2> QED BY <1>5, <2>1 DEF Request
<1>9. CASE Inference \/ CarryDone \/ AdmitDone \/ TrainSkip \/ PopPeft \/ SchedulePeft
             \/ ScheduleNone
    BY <1>1, <1>9 DEF Inference, CarryDone, AdmitDone, TrainSkip, PopPeft, SchedulePeft,
                      ScheduleNone, Launch, registry
<1>10. CASE \E i \in InfrRow : \/ CarrySkip(i) \/ CarryDecoding(i) \/ CarryPrompt(i)
                               \/ AdmitSkip(i) \/ AdmitRequest(i)
    BY <1>1, <1>10 DEF CarrySkip, CarryDecoding, CarryPrompt, AdmitSkip, AdmitRequest,
                       registry
<1>11. CASE \E finished \in BOOLEAN : set_inference_finished(finished)
    BY <1>1, <1>11 DEF set_inference_finished, registry
<1>12. CASE UNCHANGED vars
    BY <1>1, <1>12 DEF vars, registry
<1> QED BY <1>3, <1>4, <1>6, <1>7, <1>8, <1>9, <1>10, <1>11, <1>12
        DEF Next, Server, PrepareNextBatch, Client

\* A request of the queue has no row: it gets no token.
LEMMA QueuedUntouched ==
    ASSUME SlotsAndRows, AppendTokens, NEW k \in DOMAIN queue
    PROVE  all_requests'[queue[k]] = all_requests[queue[k]]
<1>1. queue[k] \in Guid /\ step = "result"
    BY GuidTypes, AppendTokensControl DEF SlotsAndRows
<1>2. ASSUME NEW s \in Given(queue[k])
      PROVE  FALSE
  <2>1. s \in Slot /\ Yields(old_bc, s)
        /\ queue[k] = GuidOf(old_bc, old_bc.tokensInfo[s].request_index)
      BY DEF Given
  <2>2. old_bc.tokensInfo[s].request_index \in OldRows
      BY <1>1, <2>1, YieldingSlot
  <2> QED BY <2>1, <2>2 DEF SlotsAndRows, RowsInvariant, PlacesInvariant, PlacesDistinct
<1>3. Given(queue[k]) = {}
    BY <1>2
<1> QED BY <1>1, <1>3, AppendedRequest

\* The queue holds no generated token.
LEMMA NextQueuedPrompts ==
    ASSUME SlotsAndRows, QueuedPrompts, [Next]_vars
    PROVE  QueuedPrompts'
<1> USE DEF SlotsAndRows
<1>1. queue \in Seq(Guid) /\ \A k \in DOMAIN queue : queue[k] \in Guid /\ IsInference(queue[k])
    BY GuidTypes DEF TypeInvariant, QueuesWellFormed, queue
<1>2. \A k \in DOMAIN queue :
          all_requests'[queue[k]].tokens = all_requests'[queue[k]].initial_len
  <2>1. CASE AppendTokens
      BY <2>1, QueuedUntouched DEF QueuedPrompts
  <2>2. CASE ~AppendTokens
      BY <1>1, <2>2, NextTokens, NextLimit DEF QueuedPrompts, RowsInvariant
  <2> QED BY <2>1, <2>2
<1>3. CASE UNCHANGED queue
    BY <1>2, <1>3 DEF QueuedPrompts
<1>4. ASSUME NEW prompt \in Prompts, register_new_request(prompt)
      PROVE  QueuedPrompts'
  <2> DEFINE g == next_available_guid
  <2>1. CASE UNCHANGED queue
      BY <1>3, <2>1
  <2>2. CASE /\ queue' = Append(queue, g)
             /\ all_requests'[g] = [NoRequest EXCEPT !.req_type = "REQ_INFERENCE",
                                     !.tokens = Bos + prompt.size,
                                     !.initial_len = Bos + prompt.size,
                                     !.eos = prompt.eos,
                                     !.max_sequence_length = prompt.max_sequence_length]
    <3>1. g \in Guid
        BY <1>4, RegisterFacts
    <3>2. all_requests'[g].tokens = all_requests'[g].initial_len
        BY <2>2 DEF NoRequest
    <3> HIDE DEF g
    <3>3. /\ DOMAIN queue' = DOMAIN queue \cup {Len(queue) + 1}
          /\ \A k \in DOMAIN queue : queue'[k] = queue[k]
          /\ queue'[Len(queue) + 1] = g
        BY <1>1, <2>2, <3>1, AppendFacts
    <3> QED BY <1>2, <3>2, <3>3 DEF QueuedPrompts
  <2> QED BY <1>4, <2>1, <2>2, RegisterFacts
<1>5. ASSUME NEW i \in InfrRow, AdmitRequest(i)
      PROVE  QueuedPrompts'
  <2>1. queue # << >> /\ queue' = Tail(queue)
      BY <1>5, AdmitChunk DEF queue
  <2>2. \A k \in DOMAIN Tail(queue) : k + 1 \in DOMAIN queue /\ Tail(queue)[k] = queue[k + 1]
      BY <1>1, <2>1, TailFacts
  <2> QED BY <1>2, <2>1, <2>2 DEF QueuedPrompts
<1>6. CASE \E f \in Finetunings : register_new_peft_request(f)
    BY <1>3, <1>6, RegisterPeftFacts
<1>7. CASE Inference \/ AppendTokens \/ CarryDone \/ AdmitDone \/ TrainRow \/ TrainSkip
             \/ PopPeft \/ SchedulePeft \/ ScheduleNone
    BY <1>3, <1>7 DEF Inference, AppendTokens, CarryDone, AdmitDone, TrainRow, TrainSkip,
                      PopPeft, SchedulePeft, ScheduleNone, Launch, registry, queue
<1>8. CASE \E i \in InfrRow : \/ CarrySkip(i) \/ CompleteRequest(i) \/ CarryDecoding(i)
                              \/ CarryPrompt(i) \/ AdmitSkip(i)
    BY <1>3, <1>8 DEF CarrySkip, CompleteRequest, CarryDecoding, CarryPrompt, AdmitSkip,
                      registry, queue
<1>9. CASE (\E finished \in BOOLEAN : set_inference_finished(finished)) \/ UNCHANGED vars
    BY <1>3, <1>9 DEF set_inference_finished, vars, registry, queue
<1> QED BY <1>4, <1>5, <1>6, <1>7, <1>8, <1>9
        DEF Next, Server, PrepareNextBatch, Client

\* A row that is kept keeps its limit.
LEMMA LimitsKept ==
    ASSUME NEW bc, NEW rows, NEW requests, Limits(bc, rows, requests),
           NEW bc1, NEW rows1, NEW requests1, rows1 \subseteq rows,
           \A r \in rows1 :
               /\ bc1.requestsInfo[r] = bc.requestsInfo[r]
               /\ requests1[GuidOf(bc, r)].max_sequence_length
                    = requests[GuidOf(bc, r)].max_sequence_length
    PROVE  Limits(bc1, rows1, requests1)
BY DEF Limits, GuidOf

\* A row that is kept still goes on.
LEMMA GoesOnKept ==
    ASSUME NEW bc, NEW rows, NEW requests, GoesOn(bc, rows, requests),
           NEW bc1, NEW rows1, NEW requests1, rows1 \subseteq rows,
           \A r \in rows1 :
               /\ bc1.requestsInfo[r] = bc.requestsInfo[r]
               /\ requests1[GuidOf(bc, r)].tokens = requests[GuidOf(bc, r)].tokens
               /\ requests1[GuidOf(bc, r)].eos = requests[GuidOf(bc, r)].eos
               /\ requests1[GuidOf(bc, r)].initial_len = requests[GuidOf(bc, r)].initial_len
               /\ requests1[GuidOf(bc, r)].max_sequence_length
                    = requests[GuidOf(bc, r)].max_sequence_length
    PROVE  GoesOn(bc1, rows1, requests1)
BY DEF GoesOn, GuidOf

\* What every step leaves of the requests that have a row.
LEMMA RowsRequests ==
    ASSUME SlotsAndRows, [Next]_vars, NEW g \in Guid,
           (\E r \in OldRows : g = GuidOf(old_bc, r))
             \/ \E r \in NewRows : g = GuidOf(new_bc, r)
    PROVE  /\ IsInference(g)
           /\ all_requests'[g].max_sequence_length = all_requests[g].max_sequence_length
           /\ all_requests'[g].initial_len = all_requests[g].initial_len
           /\ ~AppendTokens => /\ all_requests'[g].tokens = all_requests[g].tokens
                               /\ all_requests'[g].eos = all_requests[g].eos
<1>1. IsInference(g)
    BY DEF SlotsAndRows, RowsInvariant, PlacesInvariant, PlacesWaiting, Waiting
<1>2. TypeInvariant /\ UnusedGuids
    BY DEF SlotsAndRows, RowsInvariant
<1>3. /\ all_requests'[g].max_sequence_length = all_requests[g].max_sequence_length
      /\ all_requests'[g].initial_len = all_requests[g].initial_len
    BY <1>1, <1>2, NextLimit
<1>4. ~AppendTokens => /\ all_requests'[g].tokens = all_requests[g].tokens
                       /\ all_requests'[g].eos = all_requests[g].eos
    BY <1>1, <1>2, NextTokens
<1> QED BY <1>1, <1>3, <1>4

\* How the rows of the two batches change, but for a row added to the new one.
LEMMA RowsSteps ==
    ASSUME SlotsAndRows, [Next]_vars
    PROVE  \/ AppendTokens /\ old_bc' = old_bc /\ OldRows' \subseteq OldRows /\ NewRows' = {}
              /\ ~InFlight'
           \/ /\ ~AppendTokens /\ NewRows' = {}
              /\ OldRows' = NewRows
              /\ \A r \in NewRows : old_bc'.requestsInfo[r] = new_bc.requestsInfo[r]
           \/ /\ ~AppendTokens /\ UNCHANGED << old_bc, new_bc >>
              /\ OldRows' \subseteq OldRows /\ NewRows' = NewRows
              /\ InFlight' => InFlight
           \/ \E i \in InfrRow : CarryDecoding(i) \/ CarryPrompt(i) \/ AdmitRequest(i)
<1>1. CASE AppendTokens
  <2>1. step = "result" /\ step' = "carry" /\ old_bc' = old_bc /\ new_bc' = EmptyBatch
      BY <1>1, AppendTokensControl
  <2>2. OldRows' \subseteq OldRows
      BY <2>1 DEF OldRows, InFlight
  <2>3. NewRows' = {} /\ ~InFlight'
      BY <2>1 DEF NewRows, ActiveRow, EmptyBatch, InFlight
  <2> QED BY <1>1, <2>1, <2>2, <2>3
<1>2. CASE SchedulePeft \/ ScheduleNone
  <2>1. step = "schedule"
      BY <1>2, LaunchFacts DEF SlotsAndRows, RowsInvariant
  <2>2. PICK bc \in BatchConfig :
           /\ Launch(bc)
           /\ ActiveRow(bc) \cap InfrRow = NewRows
           /\ \A r \in InfrRow : bc.requestsInfo[r] = new_bc.requestsInfo[r]
      BY <1>2, LaunchFacts DEF SlotsAndRows, RowsInvariant
  <2>3. old_bc' = bc /\ new_bc' = EmptyBatch /\ step' = "inference"
      BY <2>2 DEF Launch
  <2>4. OldRows' = NewRows
      BY <2>2, <2>3 DEF OldRows, InFlight
  <2>5. NewRows' = {}
      BY <2>3 DEF NewRows, ActiveRow, EmptyBatch
  <2>6. \A r \in NewRows : old_bc'.requestsInfo[r] = new_bc.requestsInfo[r]
      BY <2>2, <2>3 DEF NewRows
  <2>7. ~AppendTokens
      BY <2>1, AppendTokensControl
  <2> QED BY <2>4, <2>5, <2>6, <2>7
<1>3. CASE ~AppendTokens /\ OtherStep
    BY <1>3 DEF OtherStep, NewRows, ActiveRow
<1>4. CASE Inference
  <2>1. UNCHANGED << old_bc, new_bc >> /\ step = "inference" /\ step' = "result"
      BY <1>4 DEF Inference
  <2>2. ~AppendTokens
      BY <2>1, AppendTokensControl
  <2>3. OldRows' \subseteq OldRows /\ InFlight
      BY <2>1 DEF OldRows, InFlight, ActiveRow
  <2> QED BY <2>1, <2>2, <2>3 DEF NewRows, ActiveRow
<1> QED BY <1>1, <1>2, <1>3, <1>4, BatchSteps

\* The rows carry the limits of their requests.
LEMMA NextLimits ==
    ASSUME SlotsAndRows, [Next]_vars,
           Limits(old_bc, OldRows, all_requests), Limits(new_bc, NewRows, all_requests)
    PROVE  /\ Limits(old_bc', OldRows', all_requests')
           /\ Limits(new_bc', NewRows', all_requests')
<1>1. /\ \A r \in OldRows : all_requests'[GuidOf(old_bc, r)].max_sequence_length
                              = all_requests[GuidOf(old_bc, r)].max_sequence_length
      /\ \A r \in NewRows : all_requests'[GuidOf(new_bc, r)].max_sequence_length
                              = all_requests[GuidOf(new_bc, r)].max_sequence_length
    BY RowsRequests, GuidTypes DEF SlotsAndRows
<1>2. CASE old_bc' = old_bc /\ OldRows' \subseteq OldRows /\ NewRows' = {}
  <2>1. Limits(old_bc', OldRows', all_requests')
      BY <1>1, <1>2, LimitsKept
  <2> QED BY <1>2, <2>1 DEF Limits
<1>3. CASE /\ NewRows' = {} /\ OldRows' = NewRows
           /\ \A r \in NewRows : old_bc'.requestsInfo[r] = new_bc.requestsInfo[r]
  <2>1. Limits(old_bc', OldRows', all_requests')
      BY <1>1, <1>3, LimitsKept
  <2> QED BY <1>3, <2>1 DEF Limits
<1>4. CASE UNCHANGED << old_bc, new_bc >> /\ OldRows' \subseteq OldRows /\ NewRows' = NewRows
  <2>1. Limits(old_bc', OldRows', all_requests')
      BY <1>1, <1>4, LimitsKept
  <2>2. Limits(new_bc', NewRows', all_requests')
      BY <1>1, <1>4, LimitsKept
  <2> QED BY <2>1, <2>2
<1>5. ASSUME NEW i \in InfrRow, CarryDecoding(i) \/ CarryPrompt(i) \/ AdmitRequest(i)
      PROVE  /\ Limits(old_bc', OldRows', all_requests')
             /\ Limits(new_bc', NewRows', all_requests')
  <2>1. /\ i \in Row /\ i \notin ActiveRow(new_bc)
        /\ UNCHANGED << old_bc, all_requests, step >>
        /\ NewRows' = NewRows \cup {i}
        /\ \A q \in Row : q # i => new_bc'.requestsInfo[q] = new_bc.requestsInfo[q]
      BY <1>5, NewRowStep
  <2>2. OldRows' \subseteq OldRows
    <3>1. CASE CarryDecoding(i) \/ CarryPrompt(i)
        BY <3>1, CarriedRow
    <3>2. CASE AdmitRequest(i)
        BY <2>1, <3>2, AdmittedRow DEF OldRows, InFlight
    <3> QED BY <1>5, <3>1, <3>2
  <2>3. Limits(old_bc', OldRows', all_requests')
      BY <1>1, <2>1, <2>2, LimitsKept
  <2>4. Limits(new_bc', NewRows, all_requests')
    <3>1. \A r \in NewRows : r \in Row /\ r # i
        BY <2>1 DEF NewRows, ActiveRow
    <3>2. \A r \in NewRows : new_bc'.requestsInfo[r] = new_bc.requestsInfo[r]
        BY <2>1, <3>1
    <3> QED BY <1>1, <2>1, <3>2, LimitsKept
  <2>5. new_bc'.requestsInfo[i].max_sequence_length
          = all_requests[GuidOf(new_bc', i)].max_sequence_length
    <3> USE DEF SlotsAndRows
    <3>1. CASE CarryDecoding(i) \/ CarryPrompt(i)
      <4>1. PICK n \in Int, p, d \in BOOLEAN :
                new_bc' = PutRow(new_bc, i, CarriedInfo(i, n, p), d)
          BY <3>1, CarryStep
      <4>2. OldRow(i) /\ i \in OldRows /\ GuidOf(new_bc', i) = GuidOf(old_bc, i)
          BY <3>1, CarriedRow
      <4>3. CarriedInfo(i, n, p) \in PerRequestInfo /\ new_bc \in BatchConfig
            /\ old_bc.requestsInfo[i] \in PerRequestInfo
          BY <4>2, CarriedInfoType, OldRowType DEF TypeInvariant, TypeOK
      <4>4. new_bc'.requestsInfo[i] = CarriedInfo(i, n, p)
          BY <2>1, <4>1, <4>3, PutRowRows
      <4>5. CarriedInfo(i, n, p).max_sequence_length
              = old_bc.requestsInfo[i].max_sequence_length
          BY <4>3 DEF CarriedInfo, PerRequestInfo
      <4> QED BY <4>2, <4>4, <4>5 DEF Limits
    <3>2. CASE AdmitRequest(i)
      <4>1. PICK info \in PerRequestInfo, d \in BOOLEAN :
                /\ new_bc' = PutRow(new_bc, i, info, d)
                /\ info.max_sequence_length
                     = all_requests[info.request_guid].max_sequence_length
          BY <3>2, AdmitChunk
      <4>2. new_bc'.requestsInfo[i] = info
        <5>1. new_bc \in BatchConfig
            BY DEF TypeInvariant, TypeOK
        <5> QED BY <2>1, <4>1, <5>1, PutRowRows
      <4> QED BY <4>1, <4>2 DEF GuidOf
    <3> QED BY <1>5, <3>1, <3>2
  <2> QED BY <2>1, <2>3, <2>4, <2>5 DEF Limits
<1> QED BY <1>2, <1>3, <1>4, <1>5, RowsSteps

\* A request is given to the model only if it is not over, or has no token but
\* its prompt's.
LEMMA NextGoesOn ==
    ASSUME SlotsAndRows, RequestsInvariant, [Next]_vars
    PROVE  /\ InFlight' => GoesOn(old_bc', OldRows', all_requests')
           /\ GoesOn(new_bc', NewRows', all_requests')
<1> DEFINE Kept(g) == /\ all_requests'[g].tokens = all_requests[g].tokens
                      /\ all_requests'[g].eos = all_requests[g].eos
                      /\ all_requests'[g].initial_len = all_requests[g].initial_len
                      /\ all_requests'[g].max_sequence_length
                           = all_requests[g].max_sequence_length
<1>1. ASSUME ~AppendTokens
      PROVE  /\ \A r \in OldRows : Kept(GuidOf(old_bc, r))
             /\ \A r \in NewRows : Kept(GuidOf(new_bc, r))
    BY <1>1, RowsRequests, GuidTypes DEF SlotsAndRows
<1>2. CASE AppendTokens /\ NewRows' = {} /\ ~InFlight'
    BY <1>2 DEF GoesOn
<1>3. CASE /\ ~AppendTokens /\ NewRows' = {} /\ OldRows' = NewRows
           /\ \A r \in NewRows : old_bc'.requestsInfo[r] = new_bc.requestsInfo[r]
  <2>1. GoesOn(old_bc', OldRows', all_requests')
      BY <1>1, <1>3, GoesOnKept DEF RequestsInvariant
  <2> QED BY <1>3, <2>1 DEF GoesOn
<1>4. CASE /\ ~AppendTokens /\ UNCHANGED << old_bc, new_bc >>
           /\ OldRows' \subseteq OldRows /\ NewRows' = NewRows
           /\ InFlight' => InFlight
  <2>1. InFlight => GoesOn(old_bc', OldRows', all_requests')
      BY <1>1, <1>4, GoesOnKept DEF RequestsInvariant
  <2>2. GoesOn(new_bc', NewRows', all_requests')
      BY <1>1, <1>4, GoesOnKept DEF RequestsInvariant
  <2> QED BY <1>4, <2>1, <2>2
<1>5. ASSUME NEW i \in InfrRow, CarryDecoding(i) \/ CarryPrompt(i) \/ AdmitRequest(i)
      PROVE  ~InFlight' /\ GoesOn(new_bc', NewRows', all_requests')
  <2>1. /\ i \in Row /\ i \notin ActiveRow(new_bc)
        /\ UNCHANGED << old_bc, all_requests, step >>
        /\ NewRows' = NewRows \cup {i}
        /\ \A q \in Row : q # i => new_bc'.requestsInfo[q] = new_bc.requestsInfo[q]
      BY <1>5, NewRowStep
  <2>2. ~InFlight' /\ ~AppendTokens
    <3>1. CASE CarryDecoding(i) \/ CarryPrompt(i)
        BY <2>1, <3>1, CarriedRow, AppendTokensControl DEF InFlight
    <3>2. CASE AdmitRequest(i)
        BY <2>1, <3>2, AdmittedRow, AppendTokensControl DEF InFlight
    <3> QED BY <1>5, <3>1, <3>2
  <2>3. GoesOn(new_bc', NewRows, all_requests')
    <3>1. \A r \in NewRows : r \in Row /\ r # i
        BY <2>1 DEF NewRows, ActiveRow
    <3>2. \A r \in NewRows : new_bc'.requestsInfo[r] = new_bc.requestsInfo[r]
        BY <2>1, <3>1
    <3>3. NewRows \subseteq NewRows
        OBVIOUS
    <3>4. \A r \in NewRows : Kept(GuidOf(new_bc, r))
        BY <1>1, <2>2
    <3> HIDE DEF Kept
    <3>5. \A r \in NewRows : new_bc'.requestsInfo[r] = new_bc.requestsInfo[r]
                             /\ Kept(GuidOf(new_bc, r))
        BY <3>2, <3>4
    <3> QED BY <3>3, <3>5, GoesOnKept DEF RequestsInvariant, Kept
  <2>4. LET q == all_requests[GuidOf(new_bc', i)]
        IN  (q.tokens < q.max_sequence_length /\ ~q.eos) \/ q.tokens = q.initial_len
    <3>1. CASE CarryDecoding(i) \/ CarryPrompt(i)
      <4> DEFINE g == GuidOf(old_bc, i)
      <4>1. /\ OldRow(i) /\ i \in OldRows /\ GuidOf(new_bc', i) = g
            /\ ~check_inf_req_completion(old_bc, i)
          BY <3>1, CarriedRow
      <4>2. all_requests[g] \in Request /\ old_bc.requestsInfo[i] \in PerRequestInfo
          BY <4>1, OldRowType DEF SlotsAndRows
      <4>3. /\ all_requests[g].tokens \in Nat
            /\ old_bc.requestsInfo[i].max_sequence_length \in Nat
          BY <4>2 DEF Request, PerRequestInfo
      <4>4. old_bc.requestsInfo[i].max_sequence_length = all_requests[g].max_sequence_length
          BY <4>1 DEF RequestsInvariant, Limits
      <4>5. /\ ~(all_requests[g].tokens >= old_bc.requestsInfo[i].max_sequence_length)
            /\ ~all_requests[g].eos
          BY <4>1 DEF check_inf_req_completion, GuidOf
      <4> HIDE DEF g
      <4>6. all_requests[g].tokens < all_requests[g].max_sequence_length
          BY <4>3, <4>4, <4>5
      <4> QED BY <4>1, <4>5, <4>6
    <3>2. CASE AdmitRequest(i)
      <4> USE DEF SlotsAndRows
      <4>1. PICK info \in PerRequestInfo, d \in BOOLEAN :
                /\ new_bc' = PutRow(new_bc, i, info, d)
                /\ info.request_guid = Head(queue) /\ queue # << >> /\ queue \in Seq(Guid)
          BY <3>2, AdmitChunk DEF queue
      <4>2. new_bc'.requestsInfo[i] = info
        <5>1. new_bc \in BatchConfig
            BY DEF TypeInvariant, TypeOK
        <5> QED BY <2>1, <4>1, <5>1, PutRowRows
      <4>3. 1 \in DOMAIN queue /\ Head(queue) = queue[1]
          BY <4>1, TailFacts
      <4> QED BY <4>1, <4>2, <4>3 DEF GuidOf, RequestsInvariant, QueuedPrompts
    <3> QED BY <1>5, <3>1, <3>2
  <2> QED BY <2>1, <2>2, <2>3, <2>4 DEF GoesOn
<1> QED BY <1>2, <1>3, <1>4, <1>5, RowsSteps

\* The invariant holds initially ...
LEMMA InitRefinement == Init => RefinementInvariant
<1> SUFFICES ASSUME Init PROVE RequestsInvariant
    BY InitSlotsAndRows DEF RefinementInvariant
<1>1. PromisesKept
    BY DEF Init, PromisesKept, Completed, NoRequest
<1>2. QueuedPrompts
    BY DEF Init, QueuedPrompts, queue
<1>3. OldRows = {} /\ NewRows = {}
    BY DEF Init, OldRows, NewRows, ActiveRow, EmptyBatch
<1> QED BY <1>1, <1>2, <1>3 DEF RequestsInvariant, Limits, GoesOn

\* ... and every step keeps it.
LEMMA NextRefinement ==
    ASSUME NonEmptyPrompts, RefinementInvariant, [Next]_vars
    PROVE  RefinementInvariant'
<1>1. SlotsAndRows'
    BY NextSlotsAndRows DEF RefinementInvariant
<1>2. PromisesKept'
    BY NextPromises DEF RefinementInvariant, SlotsAndRows, RowsInvariant, RequestsInvariant
<1>3. QueuedPrompts'
    BY NextQueuedPrompts DEF RefinementInvariant, RequestsInvariant
<1>4. /\ Limits(old_bc', OldRows', all_requests')
      /\ Limits(new_bc', NewRows', all_requests')
    BY NextLimits DEF RefinementInvariant, RequestsInvariant
<1>5. /\ InFlight' => GoesOn(old_bc', OldRows', all_requests')
      /\ GoesOn(new_bc', NewRows', all_requests')
    BY NextGoesOn DEF RefinementInvariant
<1>6. RequestsInvariant'
    BY <1>2, <1>3, <1>4, <1>5 DEF RequestsInvariant, Limits, GoesOn, GuidOf
<1> QED BY <1>1, <1>6 DEF RefinementInvariant

\* The invariant holds in every reachable state.
THEOREM RefinementInvariantHolds ==
    ASSUME NonEmptyPrompts
    PROVE  Spec => []RefinementInvariant
<1>1. RefinementInvariant /\ [Next]_vars => RefinementInvariant'
    BY NextRefinement
<1> QED BY <1>1, InitRefinement, PTL DEF Spec

-----------------------------------------------------------------------------
(* The steps of the service. *)

\* What the service sees of the requests and of the results.
service_request == [g \in Guid |-> ServiceRequest(all_requests[g])]
service_result ==
    [g \in Guid |-> IF request_to_promise[g] = "set"
                    THEN request_generation_results[g] ELSE 0]

\* The initial states.
LEMMA InitImplements == Init => Service!Init
<1> SUFFICES ASSUME Init PROVE Service!Init
    OBVIOUS
<1>1. ServiceRequest(NoRequest) = Service!NoRequest
    BY DEF ServiceRequest, NoRequest, Service!NoRequest
<1>2. next_available_guid = 1
    BY DEF Init
<1>3. service_request = [g \in Service!Guid |-> Service!NoRequest]
    BY <1>1 DEF Init, service_request, Guid, Service!Guid
<1>4. service_result = [g \in Service!Guid |-> 0]
    BY DEF Init, service_result, Guid, Service!Guid
<1> QED BY <1>2, <1>3, <1>4 DEF Service!Init, service_request, service_result

\* A step that changes no request and no result is not seen.
LEMMA Unseen ==
    ASSUME UNCHANGED << next_available_guid, all_requests, outcome >>
    PROVE  UNCHANGED Service!vars
BY DEF Service!vars, outcome

\* A refused request.
LEMMA RefuseImplements ==
    ASSUME TypeInvariant, next_available_guid \in Guid,
           next_available_guid' = next_available_guid + 1,
           UNCHANGED << all_requests, outcome >>
    PROVE  Service!Refuse
BY DEF Service!Refuse, Service!Guid, Guid, outcome

\* The requests and the results, of which only that of one request changes.
LEMMA OneSeen ==
    ASSUME TypeInvariant, NEW g \in Guid,
           \A h \in Guid : h # g => all_requests'[h] = all_requests[h]
    PROVE  service_request' = [service_request EXCEPT ![g] = ServiceRequest(all_requests'[g])]
BY DEF service_request

\* A request of the service is its fields.
LEMMA SeenFields ==
    ASSUME NEW kind, NEW completed, NEW initial, NEW length, NEW limit, NEW eos,
           NEW steps, NEW max_steps,
           NEW r \in [kind : {kind}, completed : {completed}, initial : {initial},
                      length : {length}, limit : {limit}, eos : {eos},
                      steps : {steps}, max_steps : {max_steps}]
    PROVE  r = [kind |-> kind, completed |-> completed, initial |-> initial,
                length |-> length, limit |-> limit, eos |-> eos,
                steps |-> steps, max_steps |-> max_steps]
OBVIOUS

\* A request that changes ... in its tokens,
LEMMA TokenExcept ==
    ASSUME NEW kind, NEW completed, NEW initial, NEW length, NEW limit, NEW eos,
           NEW steps, NEW max_steps, NEW length1, NEW eos1
    PROVE  [[kind |-> kind, completed |-> completed, initial |-> initial,
                length |-> length, limit |-> limit, eos |-> eos,
                steps |-> steps, max_steps |-> max_steps]
             EXCEPT !.length = length1, !.eos = eos1]
               = [kind |-> kind, completed |-> completed, initial |-> initial,
                  length |-> length1, limit |-> limit, eos |-> eos1,
                  steps |-> steps, max_steps |-> max_steps]
<1> DEFINE r == [kind |-> kind, completed |-> completed, initial |-> initial,
                  length |-> length, limit |-> limit, eos |-> eos,
                  steps |-> steps, max_steps |-> max_steps]
           s == [r EXCEPT !.length = length1, !.eos = eos1]
<1>1. s \in [kind : {kind}, completed : {completed}, initial : {initial},
              length : {length1}, limit : {limit}, eos : {eos1},
              steps : {steps}, max_steps : {max_steps}]
    OBVIOUS
<1> HIDE DEF s
<1>2. s = [kind |-> kind, completed |-> completed, initial |-> initial,
            length |-> length1, limit |-> limit, eos |-> eos1,
            steps |-> steps, max_steps |-> max_steps]
    BY <1>1, SeenFields
<1> QED BY <1>2 DEF s

\* ... in being completed,
LEMMA CompletedExcept ==
    ASSUME NEW kind, NEW completed, NEW initial, NEW length, NEW limit, NEW eos,
           NEW steps, NEW max_steps, NEW completed1
    PROVE  [[kind |-> kind, completed |-> completed, initial |-> initial,
                length |-> length, limit |-> limit, eos |-> eos,
                steps |-> steps, max_steps |-> max_steps]
             EXCEPT !.completed = completed1]
               = [kind |-> kind, completed |-> completed1, initial |-> initial,
                  length |-> length, limit |-> limit, eos |-> eos,
                  steps |-> steps, max_steps |-> max_steps]
<1> DEFINE r == [kind |-> kind, completed |-> completed, initial |-> initial,
                  length |-> length, limit |-> limit, eos |-> eos,
                  steps |-> steps, max_steps |-> max_steps]
           s == [r EXCEPT !.completed = completed1]
<1>1. s \in [kind : {kind}, completed : {completed1}, initial : {initial},
              length : {length}, limit : {limit}, eos : {eos},
              steps : {steps}, max_steps : {max_steps}]
    OBVIOUS
<1> HIDE DEF s
<1>2. s = [kind |-> kind, completed |-> completed1, initial |-> initial,
            length |-> length, limit |-> limit, eos |-> eos,
            steps |-> steps, max_steps |-> max_steps]
    BY <1>1, SeenFields
<1> QED BY <1>2 DEF s

\* ... or in its kind and steps,
LEMMA KindExcept ==
    ASSUME NEW kind, NEW completed, NEW initial, NEW length, NEW limit, NEW eos,
           NEW steps, NEW max_steps, NEW kind1, NEW max_steps1
    PROVE  [[kind |-> kind, completed |-> completed, initial |-> initial,
                length |-> length, limit |-> limit, eos |-> eos,
                steps |-> steps, max_steps |-> max_steps]
             EXCEPT !.kind = kind1, !.max_steps = max_steps1]
               = [kind |-> kind1, completed |-> completed, initial |-> initial,
                  length |-> length, limit |-> limit, eos |-> eos,
                  steps |-> steps, max_steps |-> max_steps1]
<1> DEFINE r == [kind |-> kind, completed |-> completed, initial |-> initial,
                  length |-> length, limit |-> limit, eos |-> eos,
                  steps |-> steps, max_steps |-> max_steps]
           s == [r EXCEPT !.kind = kind1, !.max_steps = max_steps1]
<1>1. s \in [kind : {kind1}, completed : {completed}, initial : {initial},
              length : {length}, limit : {limit}, eos : {eos},
              steps : {steps}, max_steps : {max_steps1}]
    OBVIOUS
<1> HIDE DEF s
<1>2. s = [kind |-> kind1, completed |-> completed, initial |-> initial,
            length |-> length, limit |-> limit, eos |-> eos,
            steps |-> steps, max_steps |-> max_steps1]
    BY <1>1, SeenFields
<1> QED BY <1>2 DEF s

\* ... or in its losses and steps.
LEMMA StepExcept ==
    ASSUME NEW kind, NEW completed, NEW initial, NEW length, NEW limit, NEW eos,
           NEW steps, NEW max_steps, NEW length1, NEW steps1
    PROVE  [[kind |-> kind, completed |-> completed, initial |-> initial,
                length |-> length, limit |-> limit, eos |-> eos,
                steps |-> steps, max_steps |-> max_steps]
             EXCEPT !.length = length1, !.steps = steps1]
               = [kind |-> kind, completed |-> completed, initial |-> initial,
                  length |-> length1, limit |-> limit, eos |-> eos,
                  steps |-> steps1, max_steps |-> max_steps]
<1> DEFINE r == [kind |-> kind, completed |-> completed, initial |-> initial,
                  length |-> length, limit |-> limit, eos |-> eos,
                  steps |-> steps, max_steps |-> max_steps]
           s == [r EXCEPT !.length = length1, !.steps = steps1]
<1>1. s \in [kind : {kind}, completed : {completed}, initial : {initial},
              length : {length1}, limit : {limit}, eos : {eos},
              steps : {steps1}, max_steps : {max_steps}]
    OBVIOUS
<1> HIDE DEF s
<1>2. s = [kind |-> kind, completed |-> completed, initial |-> initial,
            length |-> length1, limit |-> limit, eos |-> eos,
            steps |-> steps1, max_steps |-> max_steps]
    BY <1>1, SeenFields
<1> QED BY <1>2 DEF s

\* An accepted inference request.
LEMMA AcceptImplements ==
    ASSUME RefinementInvariant, NEW prompt \in Prompts, register_new_request(prompt)
    PROVE  Service!Refuse \/ Service!AcceptInference(prompt)
<1> DEFINE g == next_available_guid
           r == [NoRequest EXCEPT !.req_type = "REQ_INFERENCE",
                                     !.tokens = Bos + prompt.size,
                                     !.initial_len = Bos + prompt.size,
                                     !.eos = prompt.eos,
                                     !.max_sequence_length = prompt.max_sequence_length]
           s == [Service!NoRequest EXCEPT
              !.kind = "inference", !.initial = Bos + prompt.size,
              !.length = Bos + prompt.size, !.limit = prompt.max_sequence_length,
              !.eos = prompt.eos]
<1> USE DEF RefinementInvariant, SlotsAndRows
<1>1. /\ g \in Guid /\ g' = g + 1
      /\ \A h \in Guid : h # g => all_requests'[h] = all_requests[h]
    BY RegisterFacts
<1>2. CASE UNCHANGED << all_requests, outcome >>
    BY <1>1, <1>2, RefuseImplements
<1>3. CASE /\ all_requests'[g] = r
           /\ request_to_promise' = [request_to_promise EXCEPT ![g] = "pending"]
           /\ request_generation_results' =
                 [request_generation_results EXCEPT ![g] = Bos + prompt.size]
  <2> DEFINE size == Bos + prompt.size
             seen == [kind |-> "inference", completed |-> FALSE, initial |-> size,
                      length |-> size, limit |-> prompt.max_sequence_length,
                      eos |-> prompt.eos, steps |-> 0, max_steps |-> 0]
  <2>1. ServiceRequest(r) = s
    <3> HIDE DEF size
    <3>1. /\ r.req_type = "REQ_INFERENCE" /\ r.status = "PENDING"
          /\ r.tokens = size /\ r.initial_len = size /\ r.eos = prompt.eos
          /\ r.max_sequence_length = prompt.max_sequence_length
          /\ r.completed_training_steps = 0
        BY DEF NoRequest, size
    <3>2. s = seen
      <4>1. s \in [kind : {"inference"}, completed : {FALSE}, initial : {size},
                   length : {size}, limit : {prompt.max_sequence_length},
                   eos : {prompt.eos}, steps : {0}, max_steps : {0}]
          BY DEF Service!NoRequest, size
      <4> QED BY <4>1, SeenFields
    <3> HIDE DEF r, s
    <3>3. ServiceRequest(r) = seen
        BY <3>1 DEF ServiceRequest
    <3> QED BY <3>2, <3>3
  <2> HIDE DEF r, s, seen
  <2>2. service_request' = [service_request EXCEPT ![g] = s]
      BY <1>1, <1>3, <2>1, OneSeen
  <2>3. request_to_promise[g] # "set"
    <3>1. all_requests[g].req_type = "NONE"
        BY <1>1, GuidTypes DEF RowsInvariant, UnusedGuids
    <3> QED BY <1>1, <3>1 DEF RequestsInvariant, PromisesKept
  <2>4. service_result' = service_result
    <3>1. /\ request_to_promise \in [Guid -> {"none", "pending", "set"}]
          /\ request_generation_results \in [Guid -> Nat]
        BY DEF TypeInvariant, TypeOK
    <3> QED BY <1>3, <2>3, <3>1 DEF service_result
  <2> QED BY <1>1, <2>2, <2>4 DEF Service!AcceptInference, Service!Accept, Service!Guid, Guid,
             service_request, service_result, s
<1> QED BY <1>2, <1>3, RegisterFacts

\* An accepted finetuning request.
LEMMA AcceptPeftImplements ==
    ASSUME RefinementInvariant, NEW f \in Finetunings, register_new_peft_request(f)
    PROVE  Service!Refuse \/ Service!AcceptFinetuning(f)
<1> DEFINE g == next_available_guid
           r == [NoRequest EXCEPT !.req_type = "REQ_FINETUNING", !.finetuning = f]
           s == [Service!NoRequest EXCEPT !.kind = "finetuning",
                                          !.max_steps = f.max_training_steps]
           seen == [kind |-> "finetuning", completed |-> FALSE, initial |-> 0,
                    length |-> 0, limit |-> 0, eos |-> FALSE, steps |-> 0,
                    max_steps |-> f.max_training_steps]
<1> USE DEF RefinementInvariant, SlotsAndRows
<1>1. /\ g \in Guid /\ g' = g + 1
      /\ \A h \in Guid : h # g => all_requests'[h] = all_requests[h]
    BY RegisterPeftFacts
<1>2. CASE UNCHANGED << all_requests, outcome >>
    BY <1>1, <1>2, RefuseImplements
<1>3. CASE /\ all_requests'[g] = r
           /\ request_to_promise' = [request_to_promise EXCEPT ![g] = "pending"]
           /\ UNCHANGED request_generation_results
  <2>1. ServiceRequest(r) = s
    <3>1. /\ r.req_type = "REQ_FINETUNING" /\ r.status = "PENDING"
          /\ r.finetuning_losses = 0 /\ r.initial_len = 0 /\ r.eos = FALSE
          /\ r.max_sequence_length = 0 /\ r.finetuning = f
          /\ r.completed_training_steps = 0
        BY DEF NoRequest
    <3>2. s = seen
      <4> DEFINE no == FALSE
                 max_steps == f.max_training_steps
      <4>1. s = [[kind |-> "none", completed |-> no, initial |-> 0, length |-> 0,
                  limit |-> 0, eos |-> no, steps |-> 0, max_steps |-> 0]
                    EXCEPT !.kind = "finetuning", !.max_steps = max_steps]
          BY DEF Service!NoRequest
      <4>2. seen = [kind |-> "finetuning", completed |-> no, initial |-> 0, length |-> 0,
                    limit |-> 0, eos |-> no, steps |-> 0, max_steps |-> max_steps]
          OBVIOUS
      <4> HIDE DEF s, seen, no, max_steps
      <4>3. s = [kind |-> "finetuning", completed |-> no, initial |-> 0, length |-> 0,
                 limit |-> 0, eos |-> no, steps |-> 0, max_steps |-> max_steps]
          BY <4>1, KindExcept, Zenon
      <4> QED BY <4>2, <4>3
    <3> HIDE DEF r, s
    <3>3. ServiceRequest(r) = seen
        BY <3>1 DEF ServiceRequest
    <3> QED BY <3>2, <3>3
  <2> HIDE DEF r, s, seen
  <2>2. service_request' = [service_request EXCEPT ![g] = s]
      BY <1>1, <1>3, <2>1, OneSeen
  <2>3. request_to_promise[g] # "set"
    <3>1. all_requests[g].req_type = "NONE"
        BY <1>1, GuidTypes DEF RowsInvariant, UnusedGuids
    <3> QED BY <1>1, <3>1 DEF RequestsInvariant, PromisesKept
  <2>4. service_result' = service_result
    <3>1. request_to_promise \in [Guid -> {"none", "pending", "set"}]
        BY DEF TypeInvariant, TypeOK
    <3> QED BY <1>3, <2>3, <3>1 DEF service_result
  <2> QED BY <1>1, <2>2, <2>4 DEF Service!AcceptFinetuning, Service!Accept, Service!Guid, Guid,
             service_request, service_result, s
<1> QED BY <1>2, <1>3, RegisterPeftFacts

\* What the service sees of an inference request.
LEMMA InferenceSeen ==
    ASSUME NEW r, r.req_type = "REQ_INFERENCE"
    PROVE  ServiceRequest(r) =
               [kind |-> "inference", completed |-> r.status = "COMPLETED",
                initial |-> r.initial_len, length |-> r.tokens,
                limit |-> r.max_sequence_length, eos |-> r.eos,
                steps |-> r.completed_training_steps, max_steps |-> 0]
BY DEF ServiceRequest

\* The fields of one that is not completed.
LEMMA OpenInferenceSeen ==
    ASSUME NEW r, r.req_type = "REQ_INFERENCE", r.status # "COMPLETED"
    PROVE  LET v == ServiceRequest(r)
           IN  /\ v.kind = "inference" /\ v.completed = FALSE
               /\ v.length = r.tokens /\ v.initial = r.initial_len
               /\ v.limit = r.max_sequence_length /\ v.eos = r.eos
<1> DEFINE c == r.status = "COMPLETED"
<1>1. ServiceRequest(r) =
               [kind |-> "inference", completed |-> c,
                initial |-> r.initial_len, length |-> r.tokens,
                limit |-> r.max_sequence_length, eos |-> r.eos,
                steps |-> r.completed_training_steps, max_steps |-> 0]
    BY InferenceSeen
<1>2. c = FALSE
    OBVIOUS
<1> HIDE DEF c
<1> QED BY <1>1, <1>2

\* What it sees of a finetuning request.
LEMMA FinetuningSeen ==
    ASSUME NEW r, r.req_type = "REQ_FINETUNING"
    PROVE  ServiceRequest(r) =
               [kind |-> "finetuning", completed |-> r.status = "COMPLETED",
                initial |-> r.initial_len, length |-> r.finetuning_losses,
                limit |-> r.max_sequence_length, eos |-> r.eos,
                steps |-> r.completed_training_steps,
                max_steps |-> r.finetuning.max_training_steps]
BY DEF ServiceRequest

\* It sees a token appended ...
LEMMA TokenSeen ==
    ASSUME NEW r \in Request, r.req_type = "REQ_INFERENCE", NEW e \in BOOLEAN
    PROVE  ServiceRequest([r EXCEPT !.tokens = @ + 1, !.eos = e])
               = [ServiceRequest(r) EXCEPT !.length = @ + 1, !.eos = e]
<1> DEFINE t == [r EXCEPT !.tokens = @ + 1, !.eos = e]
           n == r.tokens + 1
           s == [ServiceRequest(r) EXCEPT !.length = @ + 1, !.eos = e]
           c == r.status = "COMPLETED"
<1>1. /\ t.req_type = "REQ_INFERENCE" /\ t.status = r.status
      /\ t.initial_len = r.initial_len /\ t.tokens = n /\ t.eos = e
      /\ t.max_sequence_length = r.max_sequence_length
      /\ t.completed_training_steps = r.completed_training_steps
    BY DEF Request
<1>2. ServiceRequest(r) =
               [kind |-> "inference", completed |-> c,
                initial |-> r.initial_len, length |-> r.tokens,
                limit |-> r.max_sequence_length, eos |-> r.eos,
                steps |-> r.completed_training_steps, max_steps |-> 0]
    BY InferenceSeen
<1> HIDE DEF t, c
<1>3. s = [kind |-> "inference", completed |-> c, initial |-> r.initial_len,
           length |-> n, limit |-> r.max_sequence_length, eos |-> e,
           steps |-> r.completed_training_steps, max_steps |-> 0]
  <2>1. ServiceRequest(r).length = r.tokens
      BY <1>2
  <2>2. s = [ServiceRequest(r) EXCEPT !.length = n, !.eos = e]
      BY <2>1
  <2>3. s = [[kind |-> "inference", completed |-> c,
              initial |-> r.initial_len, length |-> r.tokens,
              limit |-> r.max_sequence_length, eos |-> r.eos,
              steps |-> r.completed_training_steps, max_steps |-> 0]
                EXCEPT !.length = n, !.eos = e]
      BY <1>2, <2>2
  <2> HIDE DEF s, n
  <2> QED BY <2>3, TokenExcept, Zenon
<1> HIDE DEF s, n
<1>4. ServiceRequest(t) = s
  <2>1. ServiceRequest(t) =
               [kind |-> "inference", completed |-> t.status = "COMPLETED",
                initial |-> t.initial_len, length |-> t.tokens,
                limit |-> t.max_sequence_length, eos |-> t.eos,
                steps |-> t.completed_training_steps, max_steps |-> 0]
      BY <1>1, InferenceSeen
  <2>2. (t.status = "COMPLETED") = c
      BY <1>1 DEF c
  <2> QED BY <1>1, <1>3, <2>1, <2>2
<1> QED BY <1>4 DEF t, s

\* ... and a completion.
LEMMA CompletionSeen ==
    ASSUME NEW r \in Request, r.req_type \in {"REQ_INFERENCE", "REQ_FINETUNING"}
    PROVE  ServiceRequest([r EXCEPT !.status = "COMPLETED"])
               = [ServiceRequest(r) EXCEPT !.completed = TRUE]
<1> DEFINE t == [r EXCEPT !.status = "COMPLETED"]
           s == [ServiceRequest(r) EXCEPT !.completed = TRUE]
           c == r.status = "COMPLETED"
<1>1. /\ t.req_type = r.req_type /\ (t.status = "COMPLETED") = TRUE
      /\ t.initial_len = r.initial_len /\ t.tokens = r.tokens /\ t.eos = r.eos
      /\ t.max_sequence_length = r.max_sequence_length
      /\ t.completed_training_steps = r.completed_training_steps
      /\ t.finetuning_losses = r.finetuning_losses /\ t.finetuning = r.finetuning
    BY DEF Request
<1> HIDE DEF t
<1>2. CASE r.req_type = "REQ_INFERENCE"
  <2>1. s = [kind |-> "inference", completed |-> TRUE, initial |-> r.initial_len,
             length |-> r.tokens, limit |-> r.max_sequence_length, eos |-> r.eos,
             steps |-> r.completed_training_steps, max_steps |-> 0]
    <3>1. ServiceRequest(r)
            = [kind |-> "inference", completed |-> c, initial |-> r.initial_len,
               length |-> r.tokens, limit |-> r.max_sequence_length, eos |-> r.eos,
               steps |-> r.completed_training_steps, max_steps |-> 0]
        BY <1>2, InferenceSeen
    <3>2. s = [[kind |-> "inference", completed |-> c, initial |-> r.initial_len,
                length |-> r.tokens, limit |-> r.max_sequence_length, eos |-> r.eos,
                steps |-> r.completed_training_steps, max_steps |-> 0]
                  EXCEPT !.completed = TRUE]
        BY <3>1
    <3> HIDE DEF c, s
    <3> QED BY <3>2, CompletedExcept, Zenon
  <2> HIDE DEF s
  <2>2. ServiceRequest(t) =
               [kind |-> "inference", completed |-> TRUE,
                initial |-> r.initial_len, length |-> r.tokens,
                limit |-> r.max_sequence_length, eos |-> r.eos,
                steps |-> r.completed_training_steps, max_steps |-> 0]
      BY <1>1, <1>2, InferenceSeen
  <2>3. ServiceRequest(t) = s
      BY <2>1, <2>2
  <2> QED BY <2>3 DEF t, s
<1>3. CASE r.req_type = "REQ_FINETUNING"
  <2>1. s = [kind |-> "finetuning", completed |-> TRUE, initial |-> r.initial_len,
             length |-> r.finetuning_losses, limit |-> r.max_sequence_length, eos |-> r.eos,
             steps |-> r.completed_training_steps, max_steps |-> r.finetuning.max_training_steps]
    <3>1. ServiceRequest(r)
            = [kind |-> "finetuning", completed |-> c, initial |-> r.initial_len,
               length |-> r.finetuning_losses, limit |-> r.max_sequence_length, eos |-> r.eos,
               steps |-> r.completed_training_steps, max_steps |-> r.finetuning.max_training_steps]
        BY <1>3, FinetuningSeen
    <3>2. s = [[kind |-> "finetuning", completed |-> c, initial |-> r.initial_len,
                length |-> r.finetuning_losses, limit |-> r.max_sequence_length, eos |-> r.eos,
                steps |-> r.completed_training_steps, max_steps |-> r.finetuning.max_training_steps]
                  EXCEPT !.completed = TRUE]
        BY <3>1
    <3> HIDE DEF c, s
    <3> QED BY <3>2, CompletedExcept, Zenon
  <2> HIDE DEF s
  <2>2. ServiceRequest(t) =
               [kind |-> "finetuning", completed |-> TRUE,
                initial |-> r.initial_len, length |-> r.finetuning_losses,
                limit |-> r.max_sequence_length, eos |-> r.eos,
                steps |-> r.completed_training_steps,
                max_steps |-> r.finetuning.max_training_steps]
    <3>1. ServiceRequest(t) =
                 [kind |-> "finetuning", completed |-> t.status = "COMPLETED",
                  initial |-> t.initial_len, length |-> t.finetuning_losses,
                  limit |-> t.max_sequence_length, eos |-> t.eos,
                  steps |-> t.completed_training_steps,
                  max_steps |-> t.finetuning.max_training_steps]
        BY <1>1, <1>3, FinetuningSeen
    <3> QED BY <1>1, <3>1
  <2>3. ServiceRequest(t) = s
      BY <2>1, <2>2
  <2> QED BY <2>3 DEF t, s
<1> QED BY <1>2, <1>3

\* A request that is not completed is seen so.
LEMMA OpenSeen ==
    ASSUME NEW r, r.req_type = "REQ_FINETUNING", r.status # "COMPLETED"
    PROVE  [ServiceRequest(r) EXCEPT !.completed = FALSE] = ServiceRequest(r)
<1> DEFINE s == [ServiceRequest(r) EXCEPT !.completed = FALSE]
           no == r.status = "COMPLETED"
           yes == FALSE
<1>1. ServiceRequest(r)
        = [kind |-> "finetuning", completed |-> no, initial |-> r.initial_len,
           length |-> r.finetuning_losses, limit |-> r.max_sequence_length,
           eos |-> r.eos, steps |-> r.completed_training_steps,
           max_steps |-> r.finetuning.max_training_steps]
    BY FinetuningSeen
<1>2. no = yes
    OBVIOUS
<1>3. s = [[kind |-> "finetuning", completed |-> no, initial |-> r.initial_len,
            length |-> r.finetuning_losses, limit |-> r.max_sequence_length,
            eos |-> r.eos, steps |-> r.completed_training_steps,
            max_steps |-> r.finetuning.max_training_steps] EXCEPT !.completed = yes]
    BY <1>1
<1> HIDE DEF s, no, yes
<1>4. s = [kind |-> "finetuning", completed |-> yes, initial |-> r.initial_len,
           length |-> r.finetuning_losses, limit |-> r.max_sequence_length,
           eos |-> r.eos, steps |-> r.completed_training_steps,
           max_steps |-> r.finetuning.max_training_steps]
    BY <1>3, CompletedExcept, Zenon
<1>5. s = ServiceRequest(r)
    BY <1>1, <1>2, <1>4
<1> QED BY <1>5 DEF s

\* What the service sees of the tokens of a row being trained on.
LEMMA TrainedSeen ==
    ASSUME NEW r \in Request, r.req_type = "REQ_FINETUNING", NEW info \in PerRequestInfo
    PROVE  \E finished \in BOOLEAN :
               LET t == Trained(r, info)
                   n == r.completed_training_steps
               IN  /\ t.completed_training_steps = IF finished THEN n + 1 ELSE n
                   /\ t.finetuning_losses = r.finetuning_losses + 1
                   /\ t.finetuning = r.finetuning
                   /\ t.req_type = "REQ_FINETUNING" /\ t.status = r.status
                   /\ ServiceRequest(t)
                        = [ServiceRequest(r) EXCEPT
                             !.length = @ + 1, !.steps = IF finished THEN @ + 1 ELSE @]
<1> DEFINE t        == Trained(r, info)
           finished == info.first_token_depth_in_request + info.num_tokens_in_batch
                         = EntrySize(r)
           steps    == IF finished THEN r.completed_training_steps + 1
                                   ELSE r.completed_training_steps
           losses   == r.finetuning_losses + 1
           c        == r.status = "COMPLETED"
           s        == [ServiceRequest(r) EXCEPT
                          !.length = @ + 1, !.steps = IF finished THEN @ + 1 ELSE @]
<1>1. finished \in BOOLEAN
    OBVIOUS
<1>2. /\ t.completed_training_steps = steps /\ t.finetuning_losses = losses
      /\ t.finetuning = r.finetuning /\ t.req_type = "REQ_FINETUNING"
      /\ t.status = r.status /\ t.initial_len = r.initial_len /\ t.eos = r.eos
      /\ t.max_sequence_length = r.max_sequence_length
  <2> HIDE DEF finished
  <2>1. t = [r EXCEPT !.finetuning_losses = @ + 1,
                  !.completed_training_steps = IF finished THEN @ + 1 ELSE @,
                  !.dataset_entry_processed_tokens =
                     IF finished THEN 0
                     ELSE r.dataset_entry_processed_tokens + info.num_tokens_in_batch]
      BY DEF Trained, finished
  <2> HIDE DEF t
  <2> QED BY <2>1 DEF Request
<1>3. ServiceRequest(r)
        = [kind |-> "finetuning", completed |-> c, initial |-> r.initial_len,
           length |-> r.finetuning_losses, limit |-> r.max_sequence_length,
           eos |-> r.eos, steps |-> r.completed_training_steps,
           max_steps |-> r.finetuning.max_training_steps]
    BY FinetuningSeen
<1> HIDE DEF t, finished, c
<1>4. s = [ServiceRequest(r) EXCEPT !.length = losses, !.steps = steps]
  <2>1. /\ ServiceRequest(r).length = r.finetuning_losses
        /\ ServiceRequest(r).steps = r.completed_training_steps
      BY <1>3
  <2> QED BY <2>1
<1>5. s = [[kind |-> "finetuning", completed |-> c, initial |-> r.initial_len,
            length |-> r.finetuning_losses, limit |-> r.max_sequence_length,
            eos |-> r.eos, steps |-> r.completed_training_steps,
            max_steps |-> r.finetuning.max_training_steps]
              EXCEPT !.length = losses, !.steps = steps]
    BY <1>3, <1>4
<1> HIDE DEF s, steps, losses
<1>6. s = [kind |-> "finetuning", completed |-> c, initial |-> r.initial_len,
           length |-> losses, limit |-> r.max_sequence_length,
           eos |-> r.eos, steps |-> steps,
           max_steps |-> r.finetuning.max_training_steps]
    BY <1>5, StepExcept, Zenon
<1>7. ServiceRequest(t) = s
  <2>1. ServiceRequest(t)
          = [kind |-> "finetuning", completed |-> t.status = "COMPLETED",
             initial |-> t.initial_len, length |-> t.finetuning_losses,
             limit |-> t.max_sequence_length, eos |-> t.eos,
             steps |-> t.completed_training_steps,
             max_steps |-> t.finetuning.max_training_steps]
      BY <1>2, FinetuningSeen
  <2>2. (t.status = "COMPLETED") = c
      BY <1>2 DEF c
  <2> QED BY <1>2, <1>6, <2>1, <2>2
<1>8. WITNESS finished \in BOOLEAN
<1> QED BY <1>2, <1>7 DEF t, s, steps, losses

\* One iteration of the model: the requests that get a token are open, and not
\* over unless it is their first.
LEMMA AppendImplements ==
    ASSUME RefinementInvariant, AppendTokens
    PROVE  \E S \in SUBSET Service!Guid : \E E \in SUBSET S : Service!Generate(S, E)
<1> DEFINE S == {g \in Guid : Given(g) # {}}
           E == {g \in S : Given(g) \subseteq result}
<1> USE DEF RefinementInvariant
<1>1. step = "result" /\ InFlight /\ TypeInvariant
    BY AppendTokensControl DEF SlotsAndRows
<1>2. ASSUME NEW g \in S
      PROVE  /\ g \in Guid /\ IsInference(g) /\ ~Completed(g)
             /\ \/ all_requests[g].tokens < all_requests[g].max_sequence_length
                   /\ ~all_requests[g].eos
                \/ all_requests[g].tokens = all_requests[g].initial_len
  <2>1. PICK s \in Slot : /\ Yields(old_bc, s)
                          /\ g = GuidOf(old_bc, old_bc.tokensInfo[s].request_index)
      BY DEF Given
  <2>2. PICK r \in OldRows : g = GuidOf(old_bc, r) /\ g \in Guid
      BY <1>1, <2>1, YieldingSlot
  <2>3. IsInference(g) /\ ~Completed(g)
      BY <2>2 DEF SlotsAndRows, RowsInvariant, PlacesInvariant, PlacesWaiting, Waiting
  <2>4. GoesOn(old_bc, OldRows, all_requests)
      BY <1>1 DEF RequestsInvariant
  <2> QED BY <2>2, <2>3, <2>4 DEF GoesOn
<1>3. all_requests \in [Guid -> Request]
    BY <1>1 DEF TypeInvariant, TypeOK
<1>4. ASSUME NEW g \in S
      PROVE  /\ service_request[g].kind = "inference"
             /\ ~service_request[g].completed
             /\ ~Service!Over(service_request[g])
                  \/ service_request[g].length = service_request[g].initial
  <2>1. /\ g \in Guid /\ all_requests[g].req_type = "REQ_INFERENCE"
        /\ all_requests[g].status # "COMPLETED" /\ all_requests[g] \in Request
      BY <1>2, <1>3 DEF IsInference, Completed
  <2> DEFINE q == all_requests[g]
             v == ServiceRequest(q)
  <2>2. service_request[g] = v
      BY <2>1 DEF service_request
  <2>3. /\ v.kind = "inference" /\ v.completed = FALSE /\ v.length = q.tokens
        /\ v.initial = q.initial_len /\ v.limit = q.max_sequence_length /\ v.eos = q.eos
      BY <2>1, OpenInferenceSeen
  <2>4. q.tokens \in Nat /\ q.max_sequence_length \in Nat
      BY <2>1 DEF Request
  <2>5. (q.tokens < q.max_sequence_length /\ ~q.eos) \/ q.tokens = q.initial_len
      BY <1>2
  <2> HIDE DEF q, v
  <2>6. ~Service!Over(v) \/ v.length = v.initial
      BY <2>3, <2>4, <2>5 DEF Service!Over
  <2> QED BY <2>2, <2>3, <2>6
<1>5. ASSUME NEW g \in Guid
      PROVE  ServiceRequest(all_requests'[g]) =
                 IF g \in S THEN [service_request[g] EXCEPT !.length = @ + 1, !.eos = g \in E]
                            ELSE service_request[g]
  <2>1. service_request[g] = ServiceRequest(all_requests[g])
      BY DEF service_request
  <2>2. CASE g \notin S
      BY <2>1, <2>2, AppendedRequest
  <2>3. CASE g \in S
    <3> DEFINE e == Given(g) \subseteq result
    <3>1. all_requests'[g] = [all_requests[g] EXCEPT !.tokens = @ + 1, !.eos = e]
        BY <2>3, AppendedRequest
    <3>2. e \in BOOLEAN /\ e = (g \in E)
        BY <2>3
    <3>3. all_requests[g] \in Request /\ all_requests[g].req_type = "REQ_INFERENCE"
        BY <1>2, <1>3, <2>3 DEF IsInference
    <3> HIDE DEF e, S, E
    <3>4. ServiceRequest(all_requests'[g])
            = [ServiceRequest(all_requests[g]) EXCEPT !.length = @ + 1, !.eos = e]
        BY <3>1, <3>2, <3>3, TokenSeen
    <3> QED BY <2>1, <2>3, <3>2, <3>4
  <2> QED BY <2>2, <2>3
<1>6. S \subseteq Guid /\ E \subseteq S
    OBVIOUS
<1> HIDE DEF S, E
<1>7. service_request' =
          [g \in Guid |->
              IF g \in S THEN [service_request[g] EXCEPT !.length = @ + 1, !.eos = g \in E]
                         ELSE service_request[g]]
    BY <1>5 DEF service_request
<1>8. UNCHANGED << next_available_guid, service_result >>
    BY DEF AppendTokens, outcome, service_result
<1>9. Service!Generate(S, E)
    BY <1>4, <1>7, <1>8
    DEF Service!Generate, Service!Open, Service!Guid, Guid, service_request, service_result
<1> QED BY <1>6, <1>9 DEF Service!Guid, Guid

\* A request completed by prepare_next_batch is over, and its result is all its
\* tokens.
LEMMA CompleteImplements ==
    ASSUME RefinementInvariant, NEW i \in InfrRow, CompleteRequest(i)
    PROVE  \E g \in Service!Guid : Service!Complete(g)
<1> USE DEF RefinementInvariant, SlotsAndRows
<1>0. PICK g \in Guid : g = GuidOf(old_bc, i)
    BY CompleteFacts
<1> DEFINE q == all_requests[g]
           v == ServiceRequest(q)
<1>1. /\ g = GuidOf(old_bc, i) /\ q \in Request /\ IsInference(g)
      /\ i \in OldRows
      /\ check_inf_req_completion(old_bc, i)
      /\ all_requests' = [all_requests EXCEPT ![g] = [q EXCEPT !.status = "COMPLETED"]]
      /\ Publish(g, q.tokens)
      /\ UNCHANGED next_available_guid
    BY <1>0, CompleteFacts
<1>2. old_bc.requestsInfo[i].max_sequence_length = q.max_sequence_length
    BY <1>1 DEF RequestsInvariant, Limits
<1>3. q.tokens >= q.max_sequence_length \/ q.eos
    BY <1>1, <1>2 DEF check_inf_req_completion, GuidOf
<1>4. request_to_promise[g] = "pending" /\ ~Completed(g)
    BY <1>1 DEF Publish, RequestsInvariant, PromisesKept
<1>5. all_requests \in [Guid -> Request]
      /\ request_to_promise \in [Guid -> {"none", "pending", "set"}]
      /\ request_generation_results \in [Guid -> Nat]
    BY DEF TypeInvariant, TypeOK
<1>6. service_request[g] = v
    BY <1>1 DEF service_request
<1>7. /\ v.kind = "inference" /\ v.completed = FALSE /\ v.length = q.tokens
      /\ v.limit = q.max_sequence_length /\ v.eos = q.eos
    BY <1>1, <1>4, OpenInferenceSeen DEF IsInference, Completed
<1>8. service_request' = [service_request EXCEPT ![g] = [v EXCEPT !.completed = TRUE]]
  <2>1. all_requests'[g] = [q EXCEPT !.status = "COMPLETED"]
        /\ \A h \in Guid : h # g => all_requests'[h] = all_requests[h]
      BY <1>1, <1>5
  <2>2. ServiceRequest(all_requests'[g]) = [v EXCEPT !.completed = TRUE]
      BY <1>1, <2>1, CompletionSeen DEF IsInference
  <2> QED BY <1>1, <2>1, <2>2, OneSeen
<1>9. service_result' = [service_result EXCEPT ![g] = q.tokens]
    BY <1>1, <1>5 DEF service_result, Publish
<1> HIDE DEF q, v
<1>10. Service!Open(g, "inference")
    BY <1>6, <1>7 DEF Service!Open, service_request
<1>11. Service!Over(service_request[g])
    BY <1>3, <1>6, <1>7 DEF Service!Over
<1>12. service_request' = [service_request EXCEPT ![g].completed = TRUE]
    BY <1>6, <1>8
<1>13. service_result' = [service_result EXCEPT ![g] = service_request[g].length]
    BY <1>6, <1>7, <1>9
<1>14. Service!Complete(g)
    BY <1>1, <1>10, <1>11, <1>12, <1>13 DEF Service!Complete, service_request, service_result
<1> QED BY <1>14 DEF Service!Guid, Guid

\* A row trained on: one more loss, and a step if it ended its entry; the
\* request completes after its last step, or when it is stopped.
LEMMA TrainImplements ==
    ASSUME RefinementInvariant, TrainRow
    PROVE  \E g \in Service!Guid : \E finished, stop \in BOOLEAN :
               Service!Train(g, finished, stop)
<1> USE DEF RefinementInvariant, SlotsAndRows
<1>1. PICK g \in Guid : g = GuidOf(old_bc, PeftRow)
    BY TrainFacts
<1> DEFINE info == old_bc.requestsInfo[PeftRow]
           q    == all_requests[g]
           t    == Trained(q, info)
           v    == ServiceRequest(q)
<1>2. /\ q \in Request /\ info \in PerRequestInfo
      /\ PeftEnabled /\ PeftRow \in ActiveRow(old_bc) /\ step = "peft"
      /\ q.req_type = "REQ_FINETUNING" /\ next_available_guid' = next_available_guid
      /\ \A h \in Guid : h # g => all_requests'[h] = all_requests[h]
    BY <1>1, TrainFacts DEF IsFinetuning
<1>3. q.status # "COMPLETED"
    BY <1>1, <1>2 DEF RowsInvariant, FinetuningRow, Completed
<1>4. /\ t.completed_training_steps <= t.finetuning.max_training_steps
      /\ \/ /\ all_requests'[g] = [t EXCEPT !.status = "COMPLETED"]
            /\ Publish(g, t.finetuning_losses)
         \/ /\ t.completed_training_steps # t.finetuning.max_training_steps
            /\ all_requests'[g] = t
            /\ UNCHANGED outcome
  <2>1. t.finetuning = q.finetuning
      BY <1>2, TrainedSeen
  <2>2. all_requests \in [Guid -> Request]
      BY DEF TypeInvariant, TypeOK
  <2>3. t.completed_training_steps <= q.finetuning.max_training_steps
      BY <1>1 DEF TrainRow, TrainAsserts, GuidOf
  <2>4. \/ /\ all_requests' = [all_requests EXCEPT ![g] = [t EXCEPT !.status = "COMPLETED"]]
           /\ Publish(g, t.finetuning_losses)
        \/ /\ t.completed_training_steps # t.finetuning.max_training_steps
           /\ all_requests' = [all_requests EXCEPT ![g] = t]
           /\ UNCHANGED outcome
      BY <1>1 DEF TrainRow, GuidOf
  <2> HIDE DEF t
  <2> QED BY <2>1, <2>2, <2>3, <2>4
<1>5. t \in Request
  <2>1. info.num_tokens_in_batch > 0
      BY TrainFacts
  <2> QED BY <1>2, <2>1, TrainedType
<1>6. PICK finished \in BOOLEAN :
          /\ t.finetuning = q.finetuning
          /\ t.req_type = "REQ_FINETUNING" /\ t.status = q.status
          /\ t.completed_training_steps = IF finished THEN q.completed_training_steps + 1
                                          ELSE q.completed_training_steps
          /\ t.finetuning_losses = q.finetuning_losses + 1
          /\ ServiceRequest(t) = [v EXCEPT !.length = @ + 1,
                                           !.steps = IF finished THEN @ + 1 ELSE @]
    BY <1>2, TrainedSeen
<1> HIDE DEF t
<1>7. service_request[g] = v
    BY DEF service_request
<1>8. /\ v.kind = "finetuning" /\ v.completed = FALSE
      /\ v.steps = q.completed_training_steps /\ v.length = q.finetuning_losses
      /\ v.max_steps = q.finetuning.max_training_steps
  <2> DEFINE c == q.status = "COMPLETED"
  <2>1. v = [kind |-> "finetuning", completed |-> c,
                initial |-> q.initial_len, length |-> q.finetuning_losses,
                limit |-> q.max_sequence_length, eos |-> q.eos,
                steps |-> q.completed_training_steps,
                max_steps |-> q.finetuning.max_training_steps]
      BY <1>2, FinetuningSeen
  <2>2. c = FALSE
      BY <1>3
  <2> HIDE DEF c, v
  <2> QED BY <2>1, <2>2
<1> DEFINE w == [service_request[g] EXCEPT !.length = @ + 1,
                                          !.steps = IF finished THEN @ + 1 ELSE @]
<1>9. w = ServiceRequest(t)
  <2> HIDE DEF v
  <2> QED BY <1>6, <1>7
<1>10. w.steps = t.completed_training_steps /\ w.length = t.finetuning_losses
       /\ w.max_steps = t.finetuning.max_training_steps
  <2> DEFINE u == ServiceRequest(t)
  <2>1. /\ u.steps = t.completed_training_steps /\ u.length = t.finetuning_losses
        /\ u.max_steps = t.finetuning.max_training_steps
    <3>1. t.req_type = "REQ_FINETUNING"
        BY <1>6
    <3> QED BY <3>1, FinetuningSeen
  <2> HIDE DEF w, u, v
  <2>2. w = u
      BY <1>9 DEF u
  <2> QED BY <2>1, <2>2
<1>11. Service!Open(g, "finetuning")
    BY <1>7, <1>8 DEF Service!Open, service_request
<1>12. request_to_promise \in [Guid -> {"none", "pending", "set"}]
       /\ request_generation_results \in [Guid -> Nat]
    BY DEF TypeInvariant, TypeOK
<1> HIDE DEF w, v
<1>13. CASE /\ all_requests'[g] = [t EXCEPT !.status = "COMPLETED"]
            /\ Publish(g, t.finetuning_losses)
  <2>1. ServiceRequest(all_requests'[g]) = [w EXCEPT !.completed = TRUE]
      BY <1>5, <1>6, <1>9, <1>13, CompletionSeen
  <2>2. service_request' = [service_request EXCEPT ![g] = [w EXCEPT !.completed = TRUE]]
      BY <1>2, <2>1, OneSeen
  <2>3. service_result' = [service_result EXCEPT ![g] = w.length]
      BY <1>10, <1>12, <1>13 DEF service_result, Publish
  <2>4. w.steps <= w.max_steps
      BY <1>4, <1>10
  <2>5. Service!Train(g, finished, TRUE)
      BY <1>2, <1>11, <2>2, <2>3, <2>4 DEF Service!Train, service_request, service_result, w
  <2> QED BY <2>5 DEF Service!Guid, Guid
<1>14. CASE /\ t.completed_training_steps # t.finetuning.max_training_steps
            /\ all_requests'[g] = t
            /\ UNCHANGED outcome
  <2>1. ServiceRequest(all_requests'[g]) = [w EXCEPT !.completed = FALSE]
      BY <1>3, <1>6, <1>9, <1>14, OpenSeen
  <2>2. service_request' = [service_request EXCEPT ![g] = [w EXCEPT !.completed = FALSE]]
      BY <1>2, <2>1, OneSeen
  <2>3. service_result' = service_result
      BY <1>14 DEF service_result, outcome
  <2>4. w.steps <= w.max_steps /\ w.steps # w.max_steps
      BY <1>4, <1>10, <1>14
  <2>5. Service!Train(g, finished, FALSE)
      BY <1>2, <1>11, <2>2, <2>3, <2>4 DEF Service!Train, service_request, service_result, w
  <2> QED BY <2>5 DEF Service!Guid, Guid
<1> QED BY <1>4, <1>13, <1>14

\* Every step of the request manager is a step of the service, or is not seen.
LEMMA NextImplements ==
    ASSUME RefinementInvariant, [Next]_vars
    PROVE  [Service!Next]_Service!vars
<1> USE DEF RefinementInvariant, SlotsAndRows
<1>1. CASE UNCHANGED << next_available_guid, all_requests, outcome >>
    BY <1>1, Unseen
<1>2. ASSUME NEW prompt \in Prompts, register_new_request(prompt)
      PROVE  Service!Next
    BY <1>2, AcceptImplements DEF Service!Next
<1>3. ASSUME NEW f \in Finetunings, register_new_peft_request(f)
      PROVE  Service!Next
    BY <1>3, AcceptPeftImplements DEF Service!Next
<1>4. CASE AppendTokens
    BY <1>4, AppendImplements DEF Service!Next
<1>5. ASSUME NEW i \in InfrRow, CompleteRequest(i)
      PROVE  Service!Next
    BY <1>5, CompleteImplements DEF Service!Next
<1>6. CASE TrainRow
    BY <1>6, TrainImplements DEF Service!Next
<1>7. CASE Inference \/ CarryDone \/ AdmitDone \/ TrainSkip \/ PopPeft \/ SchedulePeft
             \/ ScheduleNone
    BY <1>1, <1>7 DEF Inference, CarryDone, AdmitDone, TrainSkip, PopPeft, SchedulePeft,
                      ScheduleNone, Launch, registry
<1>8. CASE \E i \in InfrRow : \/ CarrySkip(i) \/ CarryDecoding(i) \/ CarryPrompt(i)
                              \/ AdmitSkip(i) \/ AdmitRequest(i)
    BY <1>1, <1>8 DEF CarrySkip, CarryDecoding, CarryPrompt, AdmitSkip, AdmitRequest,
                      registry
<1>9. CASE \E finished \in BOOLEAN : set_inference_finished(finished)
    BY <1>1, <1>9 DEF set_inference_finished, registry
<1>10. CASE UNCHANGED vars
    BY <1>1, <1>10 DEF vars, registry
<1> QED BY <1>2, <1>3, <1>4, <1>5, <1>6, <1>7, <1>8, <1>9, <1>10
        DEF Next, Server, PrepareNextBatch, Client

\* The request manager implements the service: no request gets a token after it
\* is over or completed, none is completed before it is over, or twice, and a
\* published result is the whole request and final.
THEOREM RequestManagerImplementsService ==
    ASSUME NonEmptyPrompts
    PROVE  Spec => ImplementsService
<1>1. RefinementInvariant /\ [Next]_vars => [Service!Next]_Service!vars
    BY NextImplements
<1> QED BY <1>1, InitImplements, RefinementInvariantHolds, PTL
        DEF Spec, ImplementsService, Service!Spec
=============================================================================
