-------------------------- MODULE RequestRefinement --------------------------
(***************************************************************************)
(* The request manager implements RequestService: under the mapping below, *)
(* every step of registration and of prepare_next_batch is a step of the   *)
(* service, or changes nothing the clients can see.                        *)
(***************************************************************************)
EXTENDS RequestManager

\* A request of the manager as the service sees it.
ServiceRequest(r) ==
    [kind      |-> CASE r.req_type = "REQ_INFERENCE" -> "inference"
                     [] r.req_type = "REQ_FINETUNING" -> "finetuning"
                     [] OTHER -> "none",
     completed |-> r.status = "COMPLETED",
     initial   |-> r.initial_len,
     length    |-> IF r.req_type = "REQ_FINETUNING" THEN r.finetuning_losses
                                                    ELSE r.tokens,
     limit     |-> r.max_sequence_length,
     eos       |-> r.eos,
     steps     |-> r.completed_training_steps,
     max_steps |-> IF r.req_type = "REQ_FINETUNING"
                   THEN r.finetuning.max_training_steps ELSE 0]

\* A result counts once its promise is set.
Service ==
    INSTANCE RequestService
    WITH next_guid <- next_available_guid,
         request   <- [g \in Guid |-> ServiceRequest(all_requests[g])],
         result    <- [g \in Guid |-> IF request_to_promise[g] = "set"
                                      THEN request_generation_results[g] ELSE 0]

\* The request manager implements the service: no request gets a token after it
\* is over or completed, none is completed before it is over, or twice, and a
\* published result is the whole request and final.
ImplementsService == Service!Spec
=============================================================================
