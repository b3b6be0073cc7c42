---------------------------- MODULE RequestService ----------------------------
(***************************************************************************)
(* What FlexFlow Serve promises its clients about a request, with no       *)
(* batches, rows, queues or caches: a request is accepted or refused once, *)
(* receives tokens (or losses) one at a time while it is unfinished, and   *)
(* is completed once, when its result is published and final.              *)
(***************************************************************************)
EXTENDS Integers, FiniteSets

CONSTANTS NumGuids,     \* bound: registrations
          Bos,          \* 1 if a BOS token is put before every prompt, else 0
          Prompts,      \* the inference requests clients submit
          Finetunings   \* the finetuning requests clients submit

VARIABLES next_guid,    \* the next guid
          request,      \* per guid, the request
          result        \* per guid, the length of the published result

vars == << next_guid, request, result >>

Guid == 1 .. NumGuids

NoRequest ==
    [kind |-> "none", completed |-> FALSE, initial |-> 0, length |-> 0,
     limit |-> 0, eos |-> FALSE, steps |-> 0, max_steps |-> 0]

Init ==
    /\ next_guid = 1
    /\ request = [g \in Guid |-> NoRequest]
    /\ result = [g \in Guid |-> 0]

Open(g, kind) == request[g].kind = kind /\ ~request[g].completed

\* A request is over when it has all the tokens it asked for, or ends in EOS.
Over(r) == r.length >= r.limit \/ r.eos

Refuse ==
    /\ next_guid \in Guid
    /\ next_guid' = next_guid + 1
    /\ UNCHANGED << request, result >>

Accept(r) ==
    /\ next_guid \in Guid
    /\ next_guid' = next_guid + 1
    /\ request' = [request EXCEPT ![next_guid] = r]
    /\ UNCHANGED result

AcceptInference(p) ==
    Accept([NoRequest EXCEPT
              !.kind = "inference", !.initial = Bos + p.size,
              !.length = Bos + p.size, !.limit = p.max_sequence_length,
              !.eos = p.eos])

AcceptFinetuning(f) ==
    Accept([NoRequest EXCEPT !.kind = "finetuning",
                             !.max_steps = f.max_training_steps])

\* One iteration of the model: each request of S gets a token, EOS for those in
\* E.  A request that is over gets one only if it has not generated any yet.
Generate(S, E) ==
    /\ \A g \in S : /\ Open(g, "inference")
                    /\ ~Over(request[g]) \/ request[g].length = request[g].initial
    /\ request' = [g \in Guid |->
                      IF g \in S THEN [request[g] EXCEPT !.length = @ + 1,
                                                         !.eos = g \in E]
                                 ELSE request[g]]
    /\ UNCHANGED << next_guid, result >>

\* The request is over: its tokens are its result.
Complete(g) ==
    /\ Open(g, "inference")
    /\ Over(request[g])
    /\ request' = [request EXCEPT ![g].completed = TRUE]
    /\ result' = [result EXCEPT ![g] = request[g].length]
    /\ UNCHANGED next_guid

\* One backward pass: one more loss, and a training step if it ends a dataset
\* entry.  The request completes after its last step, or when it is stopped.
Train(g, step, stop) ==
    LET r == [request[g] EXCEPT !.length = @ + 1,
                                !.steps = IF step THEN @ + 1 ELSE @]
    IN  /\ Open(g, "finetuning")
        /\ r.steps <= r.max_steps
        /\ r.steps = r.max_steps => stop
        /\ request' = [request EXCEPT ![g] = [r EXCEPT !.completed = stop]]
        /\ result' = IF stop THEN [result EXCEPT ![g] = r.length] ELSE result
        /\ UNCHANGED next_guid

Next ==
    \/ Refuse
    \/ \E p \in Prompts : AcceptInference(p)
    \/ \E f \in Finetunings : AcceptFinetuning(f)
    \/ \E S \in SUBSET Guid : \E E \in SUBSET S : Generate(S, E)
    \/ \E g \in Guid : Complete(g)
    \/ \E g \in Guid, step, stop \in BOOLEAN : Train(g, step, stop)

Spec == Init /\ [][Next]_vars
=============================================================================
