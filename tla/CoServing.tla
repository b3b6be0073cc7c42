------------------------------ MODULE CoServing ------------------------------
(***************************************************************************)
(* The request manager with its client threads and its serving thread.     *)
(*                                                                         *)
(* A client thread calls FFModel::generate again and again: it resets      *)
(* inference_finished, registers its requests, waits for the inference     *)
(* ones, reports that inference has finished and waits for the finetuning  *)
(* ones.  The serving thread (serve_incr_decoding) launches iterations, of *)
(* prepare_next_batch and the model, as long as fewer than MaxPipeline are *)
(* unfinished, until the server is terminated; Legion runs the iterations  *)
(* one after the other, as each needs the futures of the last.             *)
(***************************************************************************)
EXTENDS RequestManager

CONSTANTS Threads,   \* the client threads
          Workloads  \* per thread, its calls of generate: sequences of requests

\* serve_incr_decoding: batch_pipeline.size() >= 4.
MaxPipeline == 4

\* A request of a call is a prompt or a finetuning request.
IsPrompt(r) == "size" \in DOMAIN r

ASSUME WorkloadsAssumption ==
    Workloads \subseteq [Threads -> Seq(Seq(Prompts \cup Finetunings))]

VARIABLES
    calls,        \* the workload of this behaviour
    request_manager_status,
    unfinished,   \* the iterations launched that have not finished
    pc,           \* per thread: "idle", "register", "wait_inf", "wait_peft"
    call,         \* per thread, the call it is in or makes next
    registered,   \* per thread, how many requests of the call it has registered
    inf_guids, peft_guids,  \* per thread, what generate keeps of the call
    got           \* per thread, how many results of the current list it has

server  == << request_manager_status, unfinished >>
locals  == << calls, pc, call, registered, inf_guids, peft_guids, got >>
allvars == << vars, server, locals >>

ServingInit ==
    /\ Init
    /\ calls \in Workloads
    /\ request_manager_status = "INITIALIZED"
    /\ unfinished = 0
    /\ pc = [t \in Threads |-> "idle"]
    /\ call = [t \in Threads |-> 1]
    /\ registered = [t \in Threads |-> 0]
    /\ inf_guids = [t \in Threads |-> << >>]
    /\ peft_guids = [t \in Threads |-> << >>]
    /\ got = [t \in Threads |-> 0]

-----------------------------------------------------------------------------
\* FFModel::generate.

Returned(t) == pc[t] = "idle" /\ call[t] > Len(calls[t])

ResetFlag(t) ==
    /\ pc[t] = "idle" /\ call[t] <= Len(calls[t])
    /\ set_inference_finished(FALSE)
    /\ pc' = [pc EXCEPT ![t] = "register"]
    /\ registered' = [registered EXCEPT ![t] = 0]
    /\ inf_guids' = [inf_guids EXCEPT ![t] = << >>]
    /\ peft_guids' = [peft_guids EXCEPT ![t] = << >>]
    /\ got' = [got EXCEPT ![t] = 0]
    /\ UNCHANGED << call, calls, server >>

\* The guids of the requests that are not refused are kept.
Register(t) ==
    /\ pc[t] = "register"
    /\ registered[t] < Len(calls[t][call[t]])
    /\ LET r == calls[t][call[t]][registered[t] + 1]
           g == next_available_guid
           kept(guids) == IF request_to_promise'[g] = "pending"
                          THEN [guids EXCEPT ![t] = Append(@, g)] ELSE guids
       IN  \/ /\ IsPrompt(r)
              /\ register_new_request(r)
              /\ inf_guids' = kept(inf_guids)
              /\ UNCHANGED peft_guids
           \/ /\ ~IsPrompt(r)
              /\ register_new_peft_request(r)
              /\ peft_guids' = kept(peft_guids)
              /\ UNCHANGED inf_guids
    /\ registered' = [registered EXCEPT ![t] = @ + 1]
    /\ UNCHANGED << pc, call, got, calls, server >>

RegisterDone(t) ==
    /\ pc[t] = "register"
    /\ registered[t] = Len(calls[t][call[t]])
    /\ pc' = [pc EXCEPT ![t] = "wait_inf"]
    /\ UNCHANGED << vars, call, registered, inf_guids, peft_guids, got, calls, server >>

\* get_generation_result: wait for the promise, then read under the mutex.
get_generation_result(t, guids) ==
    /\ got[t] < Len(guids)
    /\ request_to_promise[guids[got[t] + 1]] = "set"
    /\ LockFree
    /\ got' = [got EXCEPT ![t] = @ + 1]
    /\ UNCHANGED << vars, pc, call, registered, inf_guids, peft_guids, calls, server >>

GetResult(t) ==
    \/ pc[t] = "wait_inf" /\ get_generation_result(t, inf_guids[t])
    \/ pc[t] = "wait_peft" /\ get_generation_result(t, peft_guids[t])

\* Mutation: the flag is set even if the call had no inference request.
InferenceDone_Always(t) ==
    /\ pc[t] = "wait_inf"
    /\ got[t] = Len(inf_guids[t])
    /\ set_inference_finished(TRUE)
    /\ pc' = [pc EXCEPT ![t] = "wait_peft"]
    /\ got' = [got EXCEPT ![t] = 0]
    /\ UNCHANGED << call, registered, inf_guids, peft_guids, calls, server >>

InferenceDone(t) ==
    /\ pc[t] = "wait_inf"
    /\ got[t] = Len(inf_guids[t])
    /\ IF inf_guids[t] # << >> THEN set_inference_finished(TRUE) ELSE UNCHANGED vars
    /\ pc' = [pc EXCEPT ![t] = "wait_peft"]
    /\ got' = [got EXCEPT ![t] = 0]
    /\ UNCHANGED << call, registered, inf_guids, peft_guids, calls, server >>

Return(t) ==
    /\ pc[t] = "wait_peft"
    /\ got[t] = Len(peft_guids[t])
    /\ pc' = [pc EXCEPT ![t] = "idle"]
    /\ call' = [call EXCEPT ![t] = @ + 1]
    /\ UNCHANGED << vars, registered, inf_guids, peft_guids, got, calls, server >>

Thread(t) ==
    \/ ResetFlag(t) \/ Register(t) \/ RegisterDone(t) \/ GetResult(t)
    \/ InferenceDone(t) \/ Return(t)

-----------------------------------------------------------------------------
\* The background server.

start_background_server ==
    /\ request_manager_status = "INITIALIZED"
    /\ request_manager_status' = "SERVING"
    /\ UNCHANGED << vars, unfinished, locals >>

\* The main thread stops the server when every client has returned; then
\* serve_incr_decoding launches no more iterations.
terminate_background_server ==
    /\ request_manager_status = "SERVING"
    /\ \A t \in Threads : Returned(t)
    /\ request_manager_status' = "TERMINATED"
    /\ UNCHANGED << vars, unfinished, locals >>

\* Mutation: an iteration is launched only if a request is waiting.
LaunchIteration_OnDemand ==
    /\ request_manager_status = "SERVING"
    /\ unfinished < MaxPipeline
    /\ pending_infr_request_queue # << >>
    /\ unfinished' = unfinished + 1
    /\ UNCHANGED << vars, request_manager_status, locals >>

\* Mutation: one iteration too many.
LaunchIteration_OneMore ==
    /\ request_manager_status = "SERVING"
    /\ unfinished <= MaxPipeline
    /\ unfinished' = unfinished + 1
    /\ UNCHANGED << vars, request_manager_status, locals >>

LaunchIteration ==
    /\ request_manager_status = "SERVING"
    /\ unfinished < MaxPipeline
    /\ unfinished' = unfinished + 1
    /\ UNCHANGED << vars, request_manager_status, locals >>

\* Mutation: the queue of batches loses the finished ones too early.
RunIteration_DropsEarly ==
    /\ unfinished > 0
    /\ PrepareNextBatch \/ Inference
    /\ unfinished' = IF step = "result" THEN unfinished - 1 ELSE unfinished
    /\ UNCHANGED << request_manager_status, locals >>

\* Mutation: the iterations in the pipeline stop when the server does.
RunIteration_StopsAtOnce ==
    /\ unfinished > 0
    /\ request_manager_status = "SERVING"
    /\ \/ PrepareNextBatch /\ UNCHANGED unfinished
       \/ Inference /\ unfinished' = unfinished - 1
    /\ UNCHANGED << request_manager_status, locals >>

\* The oldest unfinished iteration: prepare_next_batch, then the model, whose
\* result ends it.
RunIteration ==
    /\ unfinished > 0
    /\ \/ PrepareNextBatch /\ UNCHANGED unfinished
       \/ Inference /\ unfinished' = unfinished - 1
    /\ UNCHANGED << request_manager_status, locals >>

BackgroundServer == start_background_server \/ LaunchIteration \/ RunIteration

ServingNext ==
    \/ \E t \in Threads : Thread(t)
    \/ BackgroundServer
    \/ terminate_background_server

ServingSpec == ServingInit /\ [][ServingNext]_allvars

\* The serving thread and Legion keep going, and so does every client; a client
\* that waits for request_queue_mutex gets it one of the times it is free, that
\* is, during one of the runs of the model.
FairServing ==
    /\ ServingSpec
    /\ WF_allvars(start_background_server)
    /\ WF_allvars(LaunchIteration)
    /\ WF_allvars(RunIteration)
    /\ \A t \in Threads :
          /\ WF_allvars(ResetFlag(t) \/ RegisterDone(t) \/ InferenceDone(t) \/ Return(t))
          /\ SF_allvars(Register(t) \/ GetResult(t))

-----------------------------------------------------------------------------
ServingTypeOK ==
    /\ request_manager_status \in {"INITIALIZED", "SERVING", "TERMINATED"}
    /\ unfinished \in 0 .. MaxPipeline
    /\ pc \in [Threads -> {"idle", "register", "wait_inf", "wait_peft"}]
    /\ call \in [Threads -> Nat \ {0}]
    /\ registered \in [Threads -> Nat]
    /\ inf_guids \in [Threads -> Seq(Guid)]
    /\ peft_guids \in [Threads -> Seq(Guid)]
    /\ got \in [Threads -> Nat]

\* prepare_next_batch and the model run only within an iteration that has been
\* launched and has not finished: once all have, the mutex is free and no batch
\* is without its result, so that terminating the server strands no step.
NoStepWithoutIteration ==
    unfinished = 0 => step = "result"

\* A finetuning request of a call without inference requests is trained for all
\* its steps: what earlier calls have left in inference_finished does not cut it
\* short.
FinetuningRunsToTheEnd ==
    \A t \in Threads :
        pc[t] = "wait_peft" /\ inf_guids[t] = << >> =>
            \A k \in 1 .. got[t] :
                LET request == all_requests[peft_guids[t][k]]
                IN  request.completed_training_steps
                      = request.finetuning.max_training_steps

\* serve.py's generate, ":return: the generation results": every call of every
\* thread returns.
GenerateReturns == \A t \in Threads : <>[]Returned(t)

\* Once the server is terminated, the iterations already launched finish.
TerminationDrains == request_manager_status = "TERMINATED" ~> unfinished = 0
=============================================================================
