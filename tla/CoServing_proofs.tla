-------------------------- MODULE CoServing_proofs --------------------------
(***************************************************************************)
(* Proofs about CoServing: the request manager among its clients and its   *)
(* serving thread takes its own steps only, so that what is proved of it   *)
(* holds of the composition; the variables the composition adds keep their *)
(* types; the server does a step of prepare_next_batch or of the model     *)
(* only in a launched iteration; and clients that do not disturb each      *)
(* other get their finetuning requests trained to the end.                 *)
(***************************************************************************)
EXTENDS CoServing, RequestRefinement_proofs

-----------------------------------------------------------------------------
(* The requests of a call. *)

\* A request that has a size is a prompt, and any other a finetuning request.
LEMMA RequestKinds ==
    ASSUME NEW r \in Prompts \cup Finetunings
    PROVE  IF IsPrompt(r) THEN r \in Prompts ELSE r \in Finetunings
<1>1. ASSUME r \in Prompts PROVE IsPrompt(r)
    BY <1>1, ConstantsAssumption DEF IsPrompt, Prompt
<1>2. ASSUME r \in Finetunings PROVE ~IsPrompt(r)
  <2>1. DOMAIN r = {"dataset", "gradient_accumulation_steps", "max_training_steps"}
      BY <1>2, ConstantsAssumption DEF Finetuning
  <2> QED BY <2>1 DEF IsPrompt
<1> QED BY <1>1, <1>2

\* A thread is within its workload: in a call there is, and not past its end.
ThreadsWithinCalls ==
    /\ calls \in Workloads
    /\ pc \in [Threads -> {"idle", "register", "wait_inf", "wait_peft"}]
    /\ call \in [Threads -> Nat \ {0}]
    /\ registered \in [Threads -> Nat]
    /\ \A t \in Threads : pc[t] # "idle" =>
          /\ call[t] <= Len(calls[t])
          /\ registered[t] <= Len(calls[t][call[t]])

\* The requests a call consists of are requests of clients.
LEMMA CallRequests ==
    ASSUME ThreadsWithinCalls, NEW t \in Threads, call[t] <= Len(calls[t])
    PROVE  /\ call[t] \in Nat \ {0} /\ registered[t] \in Nat
           /\ calls[t][call[t]] \in Seq(Prompts \cup Finetunings)
           /\ Len(calls[t][call[t]]) \in Nat
           /\ registered[t] < Len(calls[t][call[t]]) =>
                  calls[t][call[t]][registered[t] + 1] \in Prompts \cup Finetunings
<1>1. calls \in [Threads -> Seq(Seq(Prompts \cup Finetunings))]
    BY WorkloadsAssumption DEF ThreadsWithinCalls
<1>2. calls[t] \in Seq(Seq(Prompts \cup Finetunings))
    BY <1>1
<1>3. call[t] \in Nat \ {0} /\ registered[t] \in Nat
    BY DEF ThreadsWithinCalls
<1>4. call[t] \in 1 .. Len(calls[t])
    BY <1>2, <1>3
<1>5. calls[t][call[t]] \in Seq(Prompts \cup Finetunings)
    BY <1>2, <1>4
<1> DEFINE requests == calls[t][call[t]]
<1>6. ASSUME registered[t] < Len(requests)
      PROVE  requests[registered[t] + 1] \in Prompts \cup Finetunings
  <2>1. registered[t] + 1 \in 1 .. Len(requests)
      BY <1>3, <1>5, <1>6
  <2> HIDE DEF requests
  <2> QED BY <1>5, <2>1 DEF requests
<1> QED BY <1>3, <1>5, <1>6

-----------------------------------------------------------------------------
(* The composition takes steps of the request manager. *)

\* Every thread starts idle, before its first call.
LEMMA InitWithinCalls == ServingInit => ThreadsWithinCalls
<1> SUFFICES ASSUME ServingInit PROVE ThreadsWithinCalls
    OBVIOUS
<1> QED BY DEF ServingInit, ThreadsWithinCalls

\* No step takes a thread out of its workload.
LEMMA NextWithinCalls ==
    ASSUME ThreadsWithinCalls, [ServingNext]_allvars
    PROVE  ThreadsWithinCalls'
<1>1. ASSUME NEW t \in Threads, ResetFlag(t)
      PROVE  ThreadsWithinCalls'
  <2>1. /\ pc' = [pc EXCEPT ![t] = "register"]
        /\ registered' = [registered EXCEPT ![t] = 0]
        /\ call' = call /\ calls' = calls /\ call[t] <= Len(calls[t])
      BY <1>1 DEF ResetFlag
  <2>2. Len(calls[t][call[t]]) \in Nat
      BY <2>1, CallRequests
  <2> QED BY <2>1, <2>2 DEF ThreadsWithinCalls
<1>2. ASSUME NEW t \in Threads, Register(t)
      PROVE  ThreadsWithinCalls'
  <2>1. /\ pc' = pc /\ registered' = [registered EXCEPT ![t] = @ + 1]
        /\ call' = call /\ calls' = calls /\ pc[t] = "register"
        /\ registered[t] < Len(calls[t][call[t]])
      BY <1>2 DEF Register
  <2>2. Len(calls[t][call[t]]) \in Nat /\ registered[t] \in Nat
      BY <2>1, CallRequests DEF ThreadsWithinCalls
  <2> QED BY <2>1, <2>2 DEF ThreadsWithinCalls
<1>3. ASSUME NEW t \in Threads, RegisterDone(t) \/ InferenceDone(t)
      PROVE  ThreadsWithinCalls'
  <2>1. /\ \/ pc' = [pc EXCEPT ![t] = "wait_inf"]
           \/ pc' = [pc EXCEPT ![t] = "wait_peft"]
        /\ call' = call /\ calls' = calls /\ registered' = registered
        /\ pc[t] # "idle"
      BY <1>3 DEF RegisterDone, InferenceDone
  <2> QED BY <2>1 DEF ThreadsWithinCalls
<1>4. ASSUME NEW t \in Threads, Return(t)
      PROVE  ThreadsWithinCalls'
  <2>1. /\ pc' = [pc EXCEPT ![t] = "idle"]
        /\ call' = [call EXCEPT ![t] = @ + 1]
        /\ calls' = calls /\ registered' = registered
      BY <1>4 DEF Return
  <2> QED BY <2>1 DEF ThreadsWithinCalls
<1>5. CASE UNCHANGED << calls, pc, call, registered >>
    BY <1>5 DEF ThreadsWithinCalls
<1>6. ASSUME NEW t \in Threads, GetResult(t)
      PROVE  ThreadsWithinCalls'
    BY <1>5, <1>6 DEF GetResult, get_generation_result
<1>7. CASE BackgroundServer \/ terminate_background_server
    BY <1>5, <1>7 DEF BackgroundServer, start_background_server, LaunchIteration,
                      RunIteration, terminate_background_server, locals
<1>8. CASE UNCHANGED allvars
    BY <1>5, <1>8 DEF allvars, locals
<1> QED BY <1>1, <1>2, <1>3, <1>4, <1>6, <1>7, <1>8 DEF ServingNext, Thread

\* What a thread does to the request manager when it registers a request.
LEMMA RegisterStep ==
    ASSUME ThreadsWithinCalls, NEW t \in Threads, Register(t)
    PROVE  LET r == calls[t][call[t]][registered[t] + 1]
               g == next_available_guid
           IN  \/ /\ r \in Prompts /\ register_new_request(r)
                  /\ inf_guids' = IF request_to_promise'[g] = "pending"
                                  THEN [inf_guids EXCEPT ![t] = Append(@, g)]
                                  ELSE inf_guids
                  /\ peft_guids' = peft_guids
               \/ /\ r \in Finetunings /\ register_new_peft_request(r)
                  /\ peft_guids' = IF request_to_promise'[g] = "pending"
                                   THEN [peft_guids EXCEPT ![t] = Append(@, g)]
                                   ELSE peft_guids
                  /\ inf_guids' = inf_guids
<1> DEFINE r == calls[t][call[t]][registered[t] + 1]
<1>1. r \in Prompts \cup Finetunings
    BY CallRequests DEF Register, ThreadsWithinCalls
<1>2. IF IsPrompt(r) THEN r \in Prompts ELSE r \in Finetunings
    BY <1>1, RequestKinds
<1> QED BY <1>2 DEF Register

\* Every step of a client or of the serving thread is a step of the request
\* manager, or leaves it alone.
LEMMA NextImplementsManager ==
    ASSUME ThreadsWithinCalls, [ServingNext]_allvars
    PROVE  [Next]_vars
<1>1. ASSUME NEW t \in Threads, Register(t)
      PROVE  Client
    BY <1>1, RegisterStep DEF Client
<1>2. ASSUME NEW t \in Threads, ResetFlag(t) \/ InferenceDone(t)
      PROVE  Client \/ UNCHANGED vars
    BY <1>2 DEF Client, ResetFlag, InferenceDone
<1>3. ASSUME NEW t \in Threads, RegisterDone(t) \/ GetResult(t) \/ Return(t)
      PROVE  UNCHANGED vars
    BY <1>3 DEF RegisterDone, GetResult, get_generation_result, Return
<1>4. CASE BackgroundServer \/ terminate_background_server
  <2>1. Server \/ UNCHANGED vars
      BY <1>4 DEF BackgroundServer, start_background_server, LaunchIteration, RunIteration,
                  terminate_background_server, Server
  <2> QED BY <2>1 DEF Next
<1>5. CASE UNCHANGED allvars
    BY <1>5 DEF allvars
<1> QED BY <1>1, <1>2, <1>3, <1>4, <1>5 DEF ServingNext, Thread, Next

\* A thread of generate never goes past the end of a call or of its workload.
THEOREM ThreadsStayWithinCalls == ServingSpec => []ThreadsWithinCalls
<1> QED BY InitWithinCalls, NextWithinCalls, PTL DEF ServingSpec

\* The composition implements the request manager: clients and the serving
\* thread act on it by its own operations only, each when that is enabled.
THEOREM ServingImplementsManager == ServingSpec => Spec
<1>1. ServingInit => Init
    BY DEF ServingInit
<1>2. ThreadsWithinCalls /\ [ServingNext]_allvars => [Next]_vars
    BY NextImplementsManager
<1> QED BY <1>1, <1>2, ThreadsStayWithinCalls, PTL DEF ServingSpec, Spec

\* Hence the clients of the composition get the abstract service.
THEOREM ServingImplementsService ==
    ASSUME NonEmptyPrompts
    PROVE  ServingSpec => ImplementsService
<1> QED BY ServingImplementsManager, RequestManagerImplementsService, PTL

-----------------------------------------------------------------------------
(* Types, and the iterations. *)

\* What the composition adds to ThreadsWithinCalls: the guids a thread keeps are
\* those of registered requests.
ClientLists ==
    /\ ServingTypeOK
    /\ \A t \in Threads :
          /\ \A k \in DOMAIN inf_guids[t] : inf_guids[t][k] < next_available_guid
          /\ \A k \in DOMAIN peft_guids[t] : peft_guids[t][k] < next_available_guid

\* Keeping one more guid in a list of guids.
LEMMA KeptGuid ==
    ASSUME NEW guids \in [Threads -> Seq(Guid)], NEW n \in Nat, n \in Guid,
           NEW t \in Threads,
           \A u \in Threads : \A k \in DOMAIN guids[u] : guids[u][k] < n
    PROVE  LET new == [guids EXCEPT ![t] = Append(@, n)]
           IN  /\ new \in [Threads -> Seq(Guid)]
               /\ \A u \in Threads : \A k \in DOMAIN new[u] : new[u][k] < n + 1
<1> DEFINE new == [guids EXCEPT ![t] = Append(@, n)]
<1>1. Append(guids[t], n) \in Seq(Guid)
    OBVIOUS
<1>2. \A k \in DOMAIN Append(guids[t], n) :
          \/ k \in DOMAIN guids[t] /\ Append(guids[t], n)[k] = guids[t][k]
          \/ Append(guids[t], n)[k] = n
    OBVIOUS
<1>3. /\ new \in [Threads -> Seq(Guid)]
      /\ new[t] = Append(guids[t], n)
      /\ \A u \in Threads \ {t} : new[u] = guids[u]
    BY <1>1
<1>4. ASSUME NEW u \in Threads, NEW k \in DOMAIN new[u]
      PROVE  new[u][k] < n + 1
  <2>1. CASE u = t
    <3>1. \/ k \in DOMAIN guids[t] /\ new[u][k] = guids[t][k]
          \/ new[u][k] = n
        BY <1>2, <1>3, <1>4, <2>1
    <3>2. CASE k \in DOMAIN guids[t] /\ new[u][k] = guids[t][k]
      <4>1. guids[t][k] \in Guid /\ guids[t][k] < n
          BY <3>2
      <4> HIDE DEF new
      <4> QED BY <3>2, <4>1 DEF Guid
    <3>3. CASE new[u][k] = n
      <4> HIDE DEF new
      <4> QED BY <3>3
    <3> QED BY <3>1, <3>2, <3>3
  <2>2. CASE u # t
    <3>1. new[u] = guids[u] /\ k \in DOMAIN guids[u]
        BY <1>3, <1>4, <2>2
    <3>2. guids[u][k] \in Guid /\ guids[u][k] < n
        BY <3>1
    <3>3. new[u][k] = guids[u][k]
        BY <3>1
    <3> HIDE DEF new
    <3> QED BY <3>2, <3>3 DEF Guid
  <2> QED BY <2>1, <2>2
<1> HIDE DEF new
<1> QED BY <1>3, <1>4 DEF new

\* The invariant of the composition holds of its initial states.
LEMMA InitServingTypes == ServingInit => ClientLists
<1> SUFFICES ASSUME ServingInit PROVE ClientLists
    OBVIOUS
<1>1. << >> \in Seq(Guid) /\ DOMAIN << >> = {}
    OBVIOUS
<1>2. 0 \in 0 .. MaxPipeline
    BY DEF MaxPipeline
<1> QED BY <1>1, <1>2 DEF ServingInit, ClientLists, ServingTypeOK

\* A step that leaves the lists of guids alone, or empties one.
LEMMA ListsKept ==
    ASSUME ClientLists,
           next_available_guid' = next_available_guid,
           \/ UNCHANGED << inf_guids, peft_guids >>
           \/ \E t \in Threads : /\ inf_guids' = [inf_guids EXCEPT ![t] = << >>]
                                 /\ peft_guids' = [peft_guids EXCEPT ![t] = << >>],
           /\ request_manager_status' \in {"INITIALIZED", "SERVING", "TERMINATED"}
           /\ unfinished' \in 0 .. MaxPipeline
           /\ pc' \in [Threads -> {"idle", "register", "wait_inf", "wait_peft"}]
           /\ call' \in [Threads -> Nat \ {0}]
           /\ registered' \in [Threads -> Nat]
           /\ got' \in [Threads -> Nat]
    PROVE  ClientLists'
<1>1. CASE UNCHANGED << inf_guids, peft_guids >>
    BY <1>1 DEF ClientLists, ServingTypeOK
<1>2. ASSUME NEW t \in Threads,
             inf_guids' = [inf_guids EXCEPT ![t] = << >>],
             peft_guids' = [peft_guids EXCEPT ![t] = << >>]
      PROVE  ClientLists'
  <2>1. << >> \in Seq(Guid) /\ DOMAIN << >> = {}
      OBVIOUS
  <2>2. /\ inf_guids' \in [Threads -> Seq(Guid)]
        /\ peft_guids' \in [Threads -> Seq(Guid)]
      BY <1>2, <2>1 DEF ClientLists, ServingTypeOK
  <2>3. \A u \in Threads :
            /\ inf_guids'[u] = IF u = t THEN << >> ELSE inf_guids[u]
            /\ peft_guids'[u] = IF u = t THEN << >> ELSE peft_guids[u]
      BY <1>2 DEF ClientLists, ServingTypeOK
  <2>4. ServingTypeOK'
      BY <2>2 DEF ServingTypeOK
  <2>5. \A u \in Threads :
          /\ \A k \in DOMAIN inf_guids'[u] : inf_guids'[u][k] < next_available_guid
          /\ \A k \in DOMAIN peft_guids'[u] : peft_guids'[u][k] < next_available_guid
      BY <2>1, <2>3 DEF ClientLists
  <2> QED BY <2>4, <2>5 DEF ClientLists
<1> QED BY <1>1, <1>2

\* Registering a request, and keeping its guid or not.
LEMMA RegisterServingTypes ==
    ASSUME TypeInvariant, ClientLists, ThreadsWithinCalls,
           NEW t \in Threads, Register(t)
    PROVE  ClientLists'
<1> DEFINE g == next_available_guid
<1>1. g <= NumGuids /\ next_available_guid' = g + 1
    BY RegisterStep DEF register_new_request, register_new_peft_request, Refuse
<1>2. g \in Guid /\ g \in Nat
    BY <1>1, ConstantsAssumption DEF TypeInvariant, TypeOK, Guid
<1>3. /\ UNCHANGED << request_manager_status, unfinished, pc, call, got >>
      /\ registered' = [registered EXCEPT ![t] = @ + 1]
    BY DEF Register, server
<1>4. /\ inf_guids' = inf_guids \/ inf_guids' = [inf_guids EXCEPT ![t] = Append(@, g)]
      /\ peft_guids' = peft_guids \/ peft_guids' = [peft_guids EXCEPT ![t] = Append(@, g)]
    BY RegisterStep
<1>5. /\ inf_guids \in [Threads -> Seq(Guid)]
      /\ peft_guids \in [Threads -> Seq(Guid)]
      /\ \A u \in Threads : \A k \in DOMAIN inf_guids[u] : inf_guids[u][k] < g
      /\ \A u \in Threads : \A k \in DOMAIN peft_guids[u] : peft_guids[u][k] < g
    BY DEF ClientLists, ServingTypeOK
<1>6. ASSUME NEW guids \in [Threads -> Seq(Guid)],
             \A u \in Threads : \A k \in DOMAIN guids[u] : guids[u][k] < g
      PROVE  \A u \in Threads : \A k \in DOMAIN guids[u] : guids[u][k] < g + 1
  <2>1. \A u \in Threads : \A k \in DOMAIN guids[u] : guids[u][k] \in Guid
      OBVIOUS
  <2> QED BY <1>1, <1>2, <1>6, <2>1 DEF Guid
<1>7. /\ inf_guids' \in [Threads -> Seq(Guid)]
      /\ \A u \in Threads : \A k \in DOMAIN inf_guids'[u] : inf_guids'[u][k] < g + 1
  <2>1. CASE inf_guids' = inf_guids
      BY <1>5, <1>6, <2>1
  <2>2. CASE inf_guids' = [inf_guids EXCEPT ![t] = Append(@, g)]
      BY <1>2, <1>5, <2>2, KeptGuid
  <2> QED BY <1>4, <2>1, <2>2
<1>8. /\ peft_guids' \in [Threads -> Seq(Guid)]
      /\ \A u \in Threads : \A k \in DOMAIN peft_guids'[u] : peft_guids'[u][k] < g + 1
  <2>1. CASE peft_guids' = peft_guids
      BY <1>5, <1>6, <2>1
  <2>2. CASE peft_guids' = [peft_guids EXCEPT ![t] = Append(@, g)]
      BY <1>2, <1>5, <2>2, KeptGuid
  <2> QED BY <1>4, <2>1, <2>2
<1>9. registered' \in [Threads -> Nat]
    BY <1>3 DEF ClientLists, ServingTypeOK
<1>10. ServingTypeOK'
    BY <1>3, <1>7, <1>8, <1>9 DEF ClientLists, ServingTypeOK
<1> QED BY <1>1, <1>7, <1>8, <1>10 DEF ClientLists

\* No step disturbs the types of the composition.
LEMMA NextServingTypes ==
    ASSUME TypeInvariant, ClientLists, ThreadsWithinCalls,
           [ServingNext]_allvars
    PROVE  ClientLists'
<1>1. ASSUME NEW t \in Threads, ResetFlag(t)
      PROVE  ClientLists'
  <2>1. /\ pc' = [pc EXCEPT ![t] = "register"]
        /\ registered' = [registered EXCEPT ![t] = 0]
        /\ got' = [got EXCEPT ![t] = 0]
        /\ inf_guids' = [inf_guids EXCEPT ![t] = << >>]
        /\ peft_guids' = [peft_guids EXCEPT ![t] = << >>]
        /\ UNCHANGED << next_available_guid, call, request_manager_status, unfinished >>
      BY <1>1 DEF ResetFlag, set_inference_finished, registry, server
  <2>2. /\ pc' \in [Threads -> {"idle", "register", "wait_inf", "wait_peft"}]
        /\ registered' \in [Threads -> Nat] /\ got' \in [Threads -> Nat]
      BY <2>1 DEF ClientLists, ServingTypeOK
  <2>3. /\ request_manager_status' \in {"INITIALIZED", "SERVING", "TERMINATED"}
        /\ unfinished' \in 0 .. MaxPipeline
        /\ call' \in [Threads -> Nat \ {0}]
      BY <2>1 DEF ClientLists, ServingTypeOK
  <2>4. \E u \in Threads : /\ inf_guids' = [inf_guids EXCEPT ![u] = << >>]
                           /\ peft_guids' = [peft_guids EXCEPT ![u] = << >>]
      BY <2>1
  <2> QED BY <2>1, <2>2, <2>3, <2>4, ListsKept
<1>2. ASSUME NEW t \in Threads, Register(t)
      PROVE  ClientLists'
    BY <1>2, RegisterServingTypes
<1>3. ASSUME NEW t \in Threads,
             RegisterDone(t) \/ GetResult(t) \/ InferenceDone(t) \/ Return(t)
      PROVE  ClientLists'
  <2>1. \/ pc' = pc
        \/ pc' = [pc EXCEPT ![t] = "wait_inf"]
        \/ pc' = [pc EXCEPT ![t] = "wait_peft"]
        \/ pc' = [pc EXCEPT ![t] = "idle"]
      BY <1>3 DEF RegisterDone, GetResult, get_generation_result, InferenceDone, Return
  <2>2. \/ got' = got
        \/ got' = [got EXCEPT ![t] = @ + 1]
        \/ got' = [got EXCEPT ![t] = 0]
      BY <1>3 DEF RegisterDone, GetResult, get_generation_result, InferenceDone, Return
  <2>3. call' = call \/ call' = [call EXCEPT ![t] = @ + 1]
      BY <1>3 DEF RegisterDone, GetResult, get_generation_result, InferenceDone, Return
  <2>4. UNCHANGED << next_available_guid, registered, inf_guids, peft_guids,
                     request_manager_status, unfinished >>
      BY <1>3 DEF RegisterDone, GetResult, get_generation_result, InferenceDone, Return,
                  set_inference_finished, vars, registry, server
  <2>5. pc \in [Threads -> {"idle", "register", "wait_inf", "wait_peft"}]
      BY DEF ClientLists, ServingTypeOK
  <2>6. pc' \in [Threads -> {"idle", "register", "wait_inf", "wait_peft"}]
      BY <2>1, <2>5
  <2>7. got' \in [Threads -> Nat] /\ call' \in [Threads -> Nat \ {0}]
    <3>1. got \in [Threads -> Nat] /\ call \in [Threads -> Nat \ {0}]
        BY DEF ClientLists, ServingTypeOK
    <3>2. got[t] + 1 \in Nat /\ 0 \in Nat /\ call[t] + 1 \in Nat \ {0}
        BY <3>1
    <3>3. got' \in [Threads -> Nat]
        BY <2>2, <3>1, <3>2
    <3>4. call' \in [Threads -> Nat \ {0}]
        BY <2>3, <3>1, <3>2
    <3> QED BY <3>3, <3>4
  <2>8. /\ request_manager_status' \in {"INITIALIZED", "SERVING", "TERMINATED"}
        /\ unfinished' \in 0 .. MaxPipeline
        /\ registered' \in [Threads -> Nat]
      BY <2>4 DEF ClientLists, ServingTypeOK
  <2> QED BY <2>4, <2>6, <2>7, <2>8, ListsKept
<1>4. CASE BackgroundServer \/ terminate_background_server
  <2>1. /\ \/ request_manager_status' = request_manager_status
           \/ request_manager_status' \in {"SERVING", "TERMINATED"}
        /\ \/ unfinished' = unfinished
           \/ unfinished < MaxPipeline /\ unfinished' = unfinished + 1
           \/ unfinished > 0 /\ unfinished' = unfinished - 1
        /\ UNCHANGED << inf_guids, peft_guids, pc, call, registered, got >>
      BY <1>4 DEF BackgroundServer, start_background_server, LaunchIteration,
                  RunIteration, terminate_background_server, locals
  <2>2. next_available_guid' = next_available_guid
      BY <1>4 DEF BackgroundServer, start_background_server, LaunchIteration,
                  RunIteration, terminate_background_server, vars, registry,
                  Inference, PrepareNextBatch, AppendTokens, CarrySkip, CompleteRequest,
                  CarryDecoding, CarryPrompt, AdmitSkip, AdmitRequest, CarryDone,
                  AdmitDone, TrainRow, TrainSkip, PopPeft, SchedulePeft, ScheduleNone,
                  Launch
  <2>3. /\ request_manager_status' \in {"INITIALIZED", "SERVING", "TERMINATED"}
        /\ unfinished' \in 0 .. MaxPipeline
      BY <2>1 DEF ClientLists, ServingTypeOK, MaxPipeline
  <2>4. /\ pc' \in [Threads -> {"idle", "register", "wait_inf", "wait_peft"}]
        /\ call' \in [Threads -> Nat \ {0}]
        /\ registered' \in [Threads -> Nat]
        /\ got' \in [Threads -> Nat]
      BY <2>1 DEF ClientLists, ServingTypeOK
  <2> QED BY <2>1, <2>2, <2>3, <2>4, ListsKept
<1>5. CASE UNCHANGED allvars
    BY <1>5 DEF allvars, locals, server, vars, registry, ClientLists, ServingTypeOK
<1> QED BY <1>1, <1>2, <1>3, <1>4, <1>5 DEF ServingNext, Thread

\* The request manager of the composition keeps its types.
LEMMA ServingKeepsTypes == ServingSpec => []TypeInvariant
<1> QED BY ServingImplementsManager, TypeCorrect, PTL

\* The guids a client keeps are those of requests it has registered, and the
\* serving thread never has more than MaxPipeline iterations unfinished.
THEOREM ServingTypes == ServingSpec => []ServingTypeOK
<1>1. TypeInvariant /\ ClientLists /\ ThreadsWithinCalls /\ [ServingNext]_allvars
        => ClientLists'
    BY NextServingTypes
<1>2. ClientLists => ServingTypeOK
    BY DEF ClientLists
<1> QED BY <1>1, <1>2, InitServingTypes, ServingKeepsTypes, ThreadsStayWithinCalls, PTL
        DEF ServingSpec

\* Only an iteration moves the server between its steps, and it ends with the
\* model's result.
THEOREM NoStepOutsideIterations == ServingSpec => []NoStepWithoutIteration
<1>1. ServingInit => NoStepWithoutIteration
    BY DEF ServingInit, Init, NoStepWithoutIteration
<1>2. ASSUME ServingTypeOK, NoStepWithoutIteration, [ServingNext]_allvars
      PROVE  NoStepWithoutIteration'
  <2>1. ASSUME NEW t \in Threads, Thread(t)
        PROVE  UNCHANGED << step, unfinished >>
    <3>1. CASE Register(t)
        BY <3>1 DEF Register, register_new_request, register_new_peft_request, Refuse,
                    server, batch
    <3>2. CASE ResetFlag(t) \/ InferenceDone(t)
        BY <3>2 DEF ResetFlag, InferenceDone, set_inference_finished, server, vars, batch
    <3>3. CASE RegisterDone(t) \/ GetResult(t) \/ Return(t)
        BY <3>3 DEF RegisterDone, GetResult, get_generation_result, Return, server, vars,
                    batch
    <3> QED BY <2>1, <3>1, <3>2, <3>3 DEF Thread
  <2>2. CASE start_background_server \/ terminate_background_server \/ UNCHANGED allvars
      BY <1>2, <2>2 DEF start_background_server, terminate_background_server, allvars,
                        server, vars, batch, NoStepWithoutIteration
  <2>3. CASE LaunchIteration
    <3>1. unfinished \in 0 .. MaxPipeline /\ unfinished' = unfinished + 1
        BY <1>2, <2>3 DEF LaunchIteration, ServingTypeOK
    <3> QED BY <3>1 DEF NoStepWithoutIteration, MaxPipeline
  <2>4. CASE RunIteration
    <3>1. CASE Inference
        BY <3>1 DEF Inference, NoStepWithoutIteration
    <3>2. CASE unfinished > 0 /\ unfinished' = unfinished
        BY <3>2 DEF NoStepWithoutIteration
    <3> QED BY <2>4, <3>1, <3>2 DEF RunIteration
  <2> QED BY <1>2, <2>1, <2>2, <2>3, <2>4
          DEF ServingNext, BackgroundServer, NoStepWithoutIteration
<1>3. ServingTypeOK /\ NoStepWithoutIteration /\ [ServingNext]_allvars
        => NoStepWithoutIteration'
    BY <1>2
<1> QED BY <1>1, <1>3, ServingTypes, PTL DEF ServingSpec

-----------------------------------------------------------------------------
(* Finetuning requests run to the end, unless another client interferes. *)

\* A client asks for tokens, or trains, in one of its calls.
Asks(requests)   == \E k \in DOMAIN requests : \E j \in DOMAIN requests[k] :
                        IsPrompt(requests[k][j])
Trains(requests) == \E k \in DOMAIN requests : \E j \in DOMAIN requests[k] :
                        ~IsPrompt(requests[k][j])

\* inference_finished is one flag for all clients: no client may ask for tokens
\* while another one trains.
SeparateClients ==
    \A w \in Workloads : \A t, u \in Threads :
        t # u /\ Trains(w[t]) => ~Asks(w[u])

RanToTheEnd(request) ==
    request.completed_training_steps = request.finetuning.max_training_steps

\* The promise of a guid that has not been given out has never been made.
UnusedPromises ==
    \A g \in Guid : g >= next_available_guid => request_to_promise[g] = "none"

\* A finetuning request stays one, its result stays published, and it completes
\* at the end of its training unless the flag is up.
LEMMA FinetuningStep ==
    ASSUME TypeInvariant, UnusedGuids, [Next]_vars, NEW g \in Guid, IsFinetuning(g)
    PROVE  /\ all_requests'[g].req_type = "REQ_FINETUNING"
           /\ request_to_promise[g] = "set" => request_to_promise'[g] = "set"
           /\ /\ ~inference_finished
              /\ Completed(g) => RanToTheEnd(all_requests[g])
              /\ all_requests'[g].status = "COMPLETED"
              => RanToTheEnd(all_requests'[g])
<1>1. /\ all_requests[g] \in Request /\ all_requests[g].req_type = "REQ_FINETUNING"
      /\ request_to_promise \in [Guid -> {"none", "pending", "set"}]
      /\ g \in Nat /\ next_available_guid \in Nat
    BY DEF TypeInvariant, TypeOK, IsFinetuning, Guid
<1> DEFINE Same == /\ all_requests'[g] = all_requests[g]
                   /\ request_to_promise[g] = "set" => request_to_promise'[g] = "set"
<1>2. ASSUME Same
      PROVE  /\ all_requests'[g].req_type = "REQ_FINETUNING"
             /\ request_to_promise[g] = "set" => request_to_promise'[g] = "set"
             /\ /\ ~inference_finished
                /\ Completed(g) => RanToTheEnd(all_requests[g])
                /\ all_requests'[g].status = "COMPLETED"
                => RanToTheEnd(all_requests'[g])
    BY <1>1, <1>2 DEF Completed
<1>3. CASE UNCHANGED << all_requests, outcome >>
    BY <1>2, <1>3 DEF outcome
<1>4. g # next_available_guid
    BY <1>1 DEF UnusedGuids
<1>5. ASSUME NEW prompt \in Prompts, register_new_request(prompt)
      PROVE  Same
    BY <1>1, <1>4, <1>5, RegisterFacts DEF outcome
<1>6. ASSUME NEW f \in Finetunings, register_new_peft_request(f)
      PROVE  Same
    BY <1>1, <1>4, <1>6, RegisterPeftFacts DEF outcome
<1>7. CASE AppendTokens
  <2>1. ~IsInference(g)
      BY <1>1 DEF IsInference
  <2>2. all_requests'[g] = all_requests[g]
      BY <1>7, <2>1, AppendTokensOther
  <2>3. UNCHANGED outcome
      BY <1>7 DEF AppendTokens
  <2> QED BY <1>2, <2>2, <2>3 DEF outcome
<1>8. ASSUME NEW i \in InfrRow, CompleteRequest(i)
      PROVE  Same
  <2>1. PICK h \in Guid : h = GuidOf(old_bc, i)
      BY <1>8, CompleteFacts
  <2>2. /\ IsInference(h)
        /\ all_requests' = [all_requests EXCEPT ![h] =
                                [all_requests[h] EXCEPT !.status = "COMPLETED"]]
        /\ Publish(h, all_requests[h].tokens)
      BY <1>8, <2>1, CompleteFacts
  <2>3. h # g
      BY <1>1, <2>2 DEF IsInference
  <2>4. all_requests \in [Guid -> Request]
      BY DEF TypeInvariant, TypeOK
  <2>5. all_requests'[g] = all_requests[g]
      BY <2>2, <2>3, <2>4
  <2> QED BY <1>1, <2>2, <2>5 DEF Publish
<1>9. ASSUME TrainRow
      PROVE  /\ all_requests'[g].req_type = "REQ_FINETUNING"
             /\ request_to_promise[g] = "set" => request_to_promise'[g] = "set"
             /\ /\ ~inference_finished
                /\ Completed(g) => RanToTheEnd(all_requests[g])
                /\ all_requests'[g].status = "COMPLETED"
                => RanToTheEnd(all_requests'[g])
  <2>1. PICK h \in Guid : h = GuidOf(old_bc, PeftRow)
      BY <1>9, TrainFacts
  <2> DEFINE info    == old_bc.requestsInfo[PeftRow]
             trained == Trained(all_requests[h], info)
             last    == trained.completed_training_steps
                          = trained.finetuning.max_training_steps
  <2>2. /\ info \in PerRequestInfo /\ info.num_tokens_in_batch > 0
        /\ all_requests[h] \in Request
        /\ all_requests'[h].req_type = all_requests[h].req_type
        /\ \A k \in Guid : k # h => all_requests'[k] = all_requests[k]
        /\ \/ /\ all_requests'[h] = [trained EXCEPT !.status = "COMPLETED"]
              /\ Publish(h, trained.finetuning_losses)
           \/ /\ all_requests'[h] = trained
              /\ UNCHANGED outcome
      BY <1>9, <2>1, TrainFacts
  <2>3. request_to_promise[g] = "set" => request_to_promise'[g] = "set"
      BY <1>1, <2>2 DEF Publish, outcome
  <2>4. CASE g # h
      BY <1>2, <2>2, <2>3, <2>4
  <2>5. CASE g = h
    <3>1. trained \in Request /\ trained.finetuning = all_requests[h].finetuning
        BY <2>2, TrainedType
    <3>2. trained.completed_training_steps \in
              {all_requests[h].completed_training_steps,
               all_requests[h].completed_training_steps + 1}
        BY <2>2 DEF Trained, Request
    <3>3. trained.completed_training_steps <= all_requests[h].finetuning.max_training_steps
        BY <1>9, <2>1 DEF TrainRow, TrainAsserts, GuidOf
    <3>4. /\ last \/ inference_finished =>
                 all_requests' = [all_requests EXCEPT
                                    ![h] = [trained EXCEPT !.status = "COMPLETED"]]
          /\ ~(last \/ inference_finished) =>
                 all_requests' = [all_requests EXCEPT ![h] = trained]
        BY <1>9, <2>1 DEF TrainRow, GuidOf
    <3>5. all_requests \in [Guid -> Request]
        BY DEF TypeInvariant, TypeOK
    <3> HIDE DEF trained
    <3>6. CASE last \/ inference_finished
      <4>1. all_requests'[h] = [trained EXCEPT !.status = "COMPLETED"]
          BY <3>4, <3>5, <3>6
      <4>2. /\ all_requests'[h].completed_training_steps = trained.completed_training_steps
            /\ all_requests'[h].finetuning = trained.finetuning
          BY <3>1, <4>1 DEF Request
      <4>3. ~inference_finished => RanToTheEnd(all_requests'[h])
          BY <3>6, <4>2 DEF RanToTheEnd
      <4> QED BY <1>1, <2>2, <2>3, <2>5, <4>3
    <3>7. CASE ~(last \/ inference_finished)
      <4>1. all_requests'[h] = trained
          BY <3>4, <3>5, <3>7
      <4>2. trained.status = all_requests[h].status
          BY <2>2 DEF trained, Trained, Request
      <4>3. ASSUME RanToTheEnd(all_requests[h]) PROVE last
        <5>1. all_requests[h].completed_training_steps \in Nat
            BY <2>2 DEF Request
        <5>2. trained.completed_training_steps \in Nat
            BY <3>1 DEF Request
        <5> QED BY <3>1, <3>2, <3>3, <4>3, <5>1, <5>2 DEF RanToTheEnd
      <4>4. Completed(g) <=> all_requests'[g].status = "COMPLETED"
          BY <2>5, <4>1, <4>2 DEF Completed
      <4>5. all_requests'[g].req_type = "REQ_FINETUNING"
          BY <1>1, <2>2, <2>5
      <4> QED BY <2>3, <2>5, <3>7, <4>3, <4>4, <4>5
    <3> QED BY <3>6, <3>7
  <2> QED BY <2>4, <2>5
<1>10. CASE Inference \/ CarryDone \/ AdmitDone \/ TrainSkip \/ PopPeft \/ SchedulePeft
             \/ ScheduleNone
    BY <1>2, <1>3, <1>10 DEF Inference, CarryDone, AdmitDone, TrainSkip, PopPeft,
                             SchedulePeft, ScheduleNone, Launch, registry
<1>11. CASE \E i \in InfrRow : \/ CarrySkip(i) \/ CarryDecoding(i) \/ CarryPrompt(i)
                               \/ AdmitSkip(i) \/ AdmitRequest(i)
    BY <1>2, <1>3, <1>11 DEF CarrySkip, CarryDecoding, CarryPrompt, AdmitSkip,
                             AdmitRequest, registry
<1>12. CASE \E finished \in BOOLEAN : set_inference_finished(finished)
    BY <1>2, <1>3, <1>12 DEF set_inference_finished, registry
<1>13. CASE UNCHANGED vars
    BY <1>2, <1>3, <1>13 DEF vars, registry
<1> HIDE DEF Same
<1> QED BY <1>2, <1>5, <1>6, <1>7, <1>8, <1>9, <1>10, <1>11, <1>12, <1>13
        DEF Next, Server, PrepareNextBatch, Client

\* Only a registration makes a promise, that of the guid it takes.
LEMMA NextUnusedPromises ==
    ASSUME TypeInvariant, UnusedPromises, [Next]_vars
    PROVE  UnusedPromises'
<1>1. /\ request_to_promise \in [Guid -> {"none", "pending", "set"}]
      /\ next_available_guid \in Nat
    BY DEF TypeInvariant, TypeOK
<1>2. CASE UNCHANGED << next_available_guid, outcome >>
    BY <1>2 DEF UnusedPromises, outcome
<1>3. ASSUME NEW n,
             \/ UNCHANGED request_to_promise
             \/ request_to_promise' = [request_to_promise EXCEPT ![next_available_guid] = n],
             next_available_guid' = next_available_guid + 1
      PROVE  UnusedPromises'
  <2> SUFFICES ASSUME NEW g \in Guid, g >= next_available_guid + 1
               PROVE  request_to_promise'[g] = "none"
      BY <1>3 DEF UnusedPromises
  <2>1. g >= next_available_guid /\ g # next_available_guid
      BY <1>1 DEF Guid
  <2> QED BY <1>1, <1>3, <2>1 DEF UnusedPromises
<1>4. ASSUME NEW prompt \in Prompts, register_new_request(prompt)
      PROVE  UnusedPromises'
    BY <1>3, <1>4, RegisterFacts DEF outcome
<1>5. ASSUME NEW f \in Finetunings, register_new_peft_request(f)
      PROVE  UnusedPromises'
    BY <1>3, <1>5, RegisterPeftFacts DEF outcome
<1>6. ASSUME NEW g \in Guid, NEW n, Publish(g, n), UNCHANGED next_available_guid
      PROVE  UnusedPromises'
    BY <1>1, <1>6 DEF UnusedPromises, Publish
<1>7. ASSUME NEW i \in InfrRow, CompleteRequest(i)
      PROVE  UnusedPromises'
  <2>1. PICK g \in Guid : Publish(g, all_requests[g].tokens)
      BY <1>7, CompleteFacts
  <2>2. UNCHANGED next_available_guid
      BY <1>7, CompleteFacts
  <2> QED BY <1>6, <2>1, <2>2
<1>8. CASE TrainRow
  <2>1. UNCHANGED next_available_guid
      BY <1>8, TrainFacts
  <2>2. CASE UNCHANGED outcome
      BY <1>2, <2>1, <2>2
  <2>3. CASE ~UNCHANGED outcome
    <3>1. PICK g \in Guid : \E n : Publish(g, n)
        BY <1>8, <2>3, TrainFacts
    <3> QED BY <1>6, <2>1, <3>1
  <2> QED BY <2>2, <2>3
<1>9. CASE AppendTokens
  <2>1. UNCHANGED next_available_guid
      BY <1>9, AppendTokensControl
  <2>2. UNCHANGED outcome
      BY <1>9 DEF AppendTokens
  <2> QED BY <1>2, <2>1, <2>2
<1>10. CASE Inference \/ CarryDone \/ AdmitDone \/ TrainSkip \/ PopPeft \/ SchedulePeft
             \/ ScheduleNone
    BY <1>2, <1>10 DEF Inference, CarryDone, AdmitDone, TrainSkip, PopPeft,
                       SchedulePeft, ScheduleNone, Launch, registry
<1>11. CASE \E i \in InfrRow : \/ CarrySkip(i) \/ CarryDecoding(i) \/ CarryPrompt(i)
                               \/ AdmitSkip(i) \/ AdmitRequest(i)
    BY <1>2, <1>11 DEF CarrySkip, CarryDecoding, CarryPrompt, AdmitSkip,
                       AdmitRequest, registry
<1>12. CASE \E finished \in BOOLEAN : set_inference_finished(finished)
    BY <1>2, <1>12 DEF set_inference_finished, registry
<1>13. CASE UNCHANGED vars
    BY <1>2, <1>13 DEF vars, registry
<1> QED BY <1>4, <1>5, <1>7, <1>8, <1>9, <1>10, <1>11, <1>12, <1>13
        DEF Next, Server, PrepareNextBatch, Client

\* What the finetuning requests of a call come to: p, inf, peft and n are the
\* client's place in the call, its two lists and the results it has, and
\* requests its workload.
CallOK(p, inf, peft, n, requests) ==
    /\ inf # << >> => Asks(requests)
    /\ peft # << >> => Trains(requests)
    /\ \A k \in DOMAIN peft : IsFinetuning(peft[k])
    /\ p = "wait_peft" =>
          \A k \in 1 .. n : k \in DOMAIN peft /\ request_to_promise[peft[k]] = "set"
    /\ p # "idle" /\ inf = << >> =>
          /\ Trains(requests) => ~inference_finished
          /\ \A k \in DOMAIN peft : Completed(peft[k]) => RanToTheEnd(all_requests[peft[k]])

ManagerOK == TypeInvariant /\ RowsInvariant /\ PromisesKept /\ UnusedPromises

ClientsOK ==
    \A t \in Threads : CallOK(pc[t], inf_guids[t], peft_guids[t], got[t], calls[t])

\* The request manager does not disturb a call, as long as the flag is down.
LEMMA ManagerStep ==
    ASSUME ManagerOK, [Next]_vars, NEW p, NEW inf, NEW peft \in Seq(Guid), NEW n,
           NEW requests, CallOK(p, inf, peft, n, requests),
           p # "idle" /\ inf = << >> /\ Trains(requests) => ~inference_finished'
    PROVE  CallOK(p, inf, peft, n, requests)'
<1>1. ASSUME NEW k \in DOMAIN peft
      PROVE  /\ all_requests'[peft[k]].req_type = "REQ_FINETUNING"
             /\ request_to_promise[peft[k]] = "set" => request_to_promise'[peft[k]] = "set"
             /\ /\ ~inference_finished
                /\ Completed(peft[k]) => RanToTheEnd(all_requests[peft[k]])
                /\ all_requests'[peft[k]].status = "COMPLETED"
                => RanToTheEnd(all_requests'[peft[k]])
  <2>1. PICK g \in Guid : g = peft[k]
      BY <1>1
  <2>2. IsFinetuning(g) /\ TypeInvariant /\ UnusedGuids
      BY <1>1, <2>1 DEF CallOK, ManagerOK, RowsInvariant
  <2> QED BY <2>1, <2>2, FinetuningStep
<1>2. ASSUME p # "idle", inf = << >>, NEW k \in DOMAIN peft
      PROVE  ~inference_finished
  <2>1. peft # << >>
      BY <1>2
  <2> QED BY <1>2, <2>1 DEF CallOK
<1>3. ASSUME p # "idle", inf = << >>, NEW k \in DOMAIN peft,
             all_requests'[peft[k]].status = "COMPLETED"
      PROVE  RanToTheEnd(all_requests'[peft[k]])
    BY <1>1, <1>2, <1>3 DEF CallOK
<1>4. \A k \in DOMAIN peft : all_requests'[peft[k]].req_type = "REQ_FINETUNING"
    BY <1>1
<1>5. ASSUME p = "wait_peft", NEW k \in 1 .. n
      PROVE  k \in DOMAIN peft /\ request_to_promise'[peft[k]] = "set"
  <2>1. k \in DOMAIN peft /\ request_to_promise[peft[k]] = "set"
      BY <1>5 DEF CallOK
  <2> QED BY <1>1, <2>1
<1> QED BY <1>3, <1>4, <1>5 DEF CallOK, IsFinetuning, Completed

\* The promise a registered finetuning request has been given.
LEMMA PromisedRequest ==
    ASSUME ManagerOK, ThreadsWithinCalls, ClientLists, NEW t \in Threads, Register(t),
           peft_guids' # peft_guids
    PROVE  LET g == next_available_guid
           IN  /\ g \in Guid /\ peft_guids'[t] = Append(peft_guids[t], g)
               /\ all_requests'[g].req_type = "REQ_FINETUNING"
               /\ all_requests'[g].status = "PENDING"
               /\ Trains(calls[t]) /\ inf_guids' = inf_guids
<1> DEFINE g == next_available_guid
           r == calls[t][call[t]][registered[t] + 1]
<1>1. /\ r \in Finetunings /\ register_new_peft_request(r)
      /\ peft_guids' = [peft_guids EXCEPT ![t] = Append(@, g)]
      /\ request_to_promise'[g] = "pending"
      /\ inf_guids' = inf_guids
    BY RegisterStep
<1>2. r \in Prompts \cup Finetunings
    BY <1>1
<1>3. PICK f \in Finetunings : f = r
    BY <1>1
<1>4. register_new_peft_request(f)
    BY <1>1, <1>3
<1>5. Trains(calls[t])
  <2>1. pc[t] = "register" /\ registered[t] < Len(calls[t][call[t]]) /\ ~IsPrompt(r)
    <3>1. pc[t] = "register" /\ registered[t] < Len(calls[t][call[t]])
        BY DEF Register
    <3>2. ~IsPrompt(r)
      <4>1. DOMAIN f = {"dataset", "gradient_accumulation_steps", "max_training_steps"}
          BY ConstantsAssumption DEF Finetuning
      <4> QED BY <1>3, <4>1 DEF IsPrompt
    <3> QED BY <3>1, <3>2
  <2>2. call[t] <= Len(calls[t])
      BY <2>1 DEF ThreadsWithinCalls
  <2>3. /\ call[t] \in Nat \ {0} /\ registered[t] \in Nat
        /\ calls[t][call[t]] \in Seq(Prompts \cup Finetunings)
      BY <2>2, CallRequests
  <2>4. calls[t] \in Seq(Seq(Prompts \cup Finetunings))
      BY WorkloadsAssumption DEF ThreadsWithinCalls
  <2>5. call[t] \in DOMAIN calls[t]
      BY <2>2, <2>3, <2>4
  <2>6. registered[t] + 1 \in DOMAIN calls[t][call[t]]
      BY <2>1, <2>3
  <2> QED BY <2>1, <2>5, <2>6 DEF Trains
<1> HIDE DEF r
<1>6. TypeInvariant /\ UnusedPromises
    BY DEF ManagerOK
<1>7. g \in Guid /\ request_to_promise[g] = "none"
  <2>1. g \in Guid
      BY <1>4, <1>6, RegisterPeftFacts
  <2>2. g \in Nat /\ g >= g
      BY <1>6, <2>1 DEF TypeInvariant, TypeOK
  <2> QED BY <1>6, <2>1, <2>2 DEF UnusedPromises
<1>8. all_requests'[g] = [NoRequest EXCEPT !.req_type = "REQ_FINETUNING", !.finetuning = f]
  <2>1. ~UNCHANGED outcome
      BY <1>1, <1>7 DEF outcome
  <2> QED BY <1>4, <1>6, <2>1, RegisterPeftFacts
<1>9. /\ all_requests'[g].req_type = "REQ_FINETUNING"
      /\ all_requests'[g].status = "PENDING"
    BY <1>8 DEF NoRequest
<1>10. peft_guids'[t] = Append(peft_guids[t], g)
    BY <1>1 DEF ClientLists, ServingTypeOK
<1> QED BY <1>1, <1>5, <1>7, <1>9, <1>10

\* A client that keeps the guid of a prompt asks for tokens.
LEMMA AskedRequest ==
    ASSUME ThreadsWithinCalls, NEW t \in Threads, Register(t), inf_guids' # inf_guids
    PROVE  Asks(calls[t]) /\ peft_guids' = peft_guids
<1> DEFINE r == calls[t][call[t]][registered[t] + 1]
<1>1. r \in Prompts /\ peft_guids' = peft_guids
    BY RegisterStep
<1>2. PICK p \in Prompts : p = r
    BY <1>1
<1>3. IsPrompt(r)
  <2>1. "size" \in DOMAIN p
      BY ConstantsAssumption DEF Prompt
  <2> QED BY <1>2, <2>1 DEF IsPrompt
<1>4. pc[t] = "register" /\ registered[t] < Len(calls[t][call[t]])
    BY DEF Register
<1>5. call[t] <= Len(calls[t])
    BY <1>4 DEF ThreadsWithinCalls
<1>6. /\ call[t] \in Nat \ {0} /\ registered[t] \in Nat
      /\ calls[t][call[t]] \in Seq(Prompts \cup Finetunings)
    BY <1>5, CallRequests
<1>7. calls[t] \in Seq(Seq(Prompts \cup Finetunings))
    BY WorkloadsAssumption DEF ThreadsWithinCalls
<1>8. call[t] \in DOMAIN calls[t]
    BY <1>5, <1>6, <1>7
<1>9. registered[t] + 1 \in DOMAIN calls[t][call[t]]
    BY <1>4, <1>6
<1> QED BY <1>1, <1>3, <1>8, <1>9 DEF Asks

\* What a client does leaves the place of every other client alone.
LEMMA OtherClients ==
    ASSUME ThreadsWithinCalls, ClientLists, NEW t \in Threads, Thread(t),
           NEW u \in Threads, u # t
    PROVE  /\ pc'[u] = pc[u] /\ inf_guids'[u] = inf_guids[u]
           /\ peft_guids'[u] = peft_guids[u] /\ got'[u] = got[u] /\ calls'[u] = calls[u]
<1> USE DEF ClientLists, ServingTypeOK
<1>1. CASE ResetFlag(t)
    BY <1>1 DEF ResetFlag
<1>2. CASE Register(t)
  <2>1. UNCHANGED << pc, got, calls >>
      BY <1>2 DEF Register
  <2>2. /\ inf_guids' = inf_guids \/ \E s : inf_guids' = [inf_guids EXCEPT ![t] = s]
        /\ peft_guids' = peft_guids \/ \E s : peft_guids' = [peft_guids EXCEPT ![t] = s]
      BY <1>2, RegisterStep
  <2> QED BY <2>1, <2>2
<1>3. CASE RegisterDone(t)
    BY <1>3 DEF RegisterDone
<1>4. CASE GetResult(t)
    BY <1>4 DEF GetResult, get_generation_result
<1>5. CASE InferenceDone(t)
    BY <1>5 DEF InferenceDone
<1>6. CASE Return(t)
    BY <1>6 DEF Return
<1> QED BY <1>1, <1>2, <1>3, <1>4, <1>5, <1>6 DEF Thread

\* A client raises the flag only if it has asked for tokens.
LEMMA FlagStep ==
    ASSUME ClientsOK, ThreadsWithinCalls, NEW t \in Threads, Thread(t)
    PROVE  \/ ~inference_finished'
           \/ inference_finished' = inference_finished
           \/ Asks(calls[t])
<1>1. CASE ResetFlag(t)
    BY <1>1 DEF ResetFlag, set_inference_finished
<1>2. CASE Register(t)
    BY <1>2, RegisterStep DEF register_new_request, register_new_peft_request, Refuse
<1>3. CASE RegisterDone(t) \/ GetResult(t) \/ Return(t)
    BY <1>3 DEF RegisterDone, GetResult, get_generation_result, Return, vars
<1>4. CASE InferenceDone(t)
  <2>1. CASE inf_guids[t] # << >>
      BY <2>1 DEF ClientsOK, CallOK
  <2>2. CASE inf_guids[t] = << >>
      BY <1>4, <2>2 DEF InferenceDone, vars
  <2> QED BY <2>1, <2>2
<1> QED BY <1>1, <1>2, <1>3, <1>4 DEF Thread

\* The serving thread never writes the flag, nor the places of the clients.
LEMMA ServerFlag ==
    ASSUME BackgroundServer \/ terminate_background_server \/ UNCHANGED allvars
    PROVE  /\ inference_finished' = inference_finished
           /\ UNCHANGED << pc, inf_guids, peft_guids, got, calls >>
<1>1. UNCHANGED << pc, inf_guids, peft_guids, got, calls >>
    BY DEF BackgroundServer, start_background_server, LaunchIteration, RunIteration,
           terminate_background_server, allvars, locals
<1>2. Inference \/ PrepareNextBatch \/ UNCHANGED vars
    BY DEF BackgroundServer, start_background_server, LaunchIteration, RunIteration,
           terminate_background_server, allvars
<1>3. CASE Inference \/ CarryDone \/ AdmitDone \/ TrainSkip \/ PopPeft \/ SchedulePeft
             \/ ScheduleNone \/ TrainRow \/ UNCHANGED vars
    BY <1>1, <1>3 DEF Inference, CarryDone, AdmitDone, TrainSkip, PopPeft, SchedulePeft,
                      ScheduleNone, TrainRow, Launch, vars
<1>4. CASE \E i \in InfrRow : \/ CarrySkip(i) \/ CarryDecoding(i) \/ CarryPrompt(i)
                              \/ AdmitSkip(i) \/ AdmitRequest(i) \/ CompleteRequest(i)
    BY <1>1, <1>4 DEF CarrySkip, CarryDecoding, CarryPrompt, AdmitSkip, AdmitRequest,
                      CompleteRequest
<1>5. CASE AppendTokens
  <2>1. inference_finished' = inference_finished
      BY <1>5 DEF AppendTokens
  <2> QED BY <1>1, <2>1
<1> QED BY <1>2, <1>3, <1>4, <1>5 DEF PrepareNextBatch

\* A client that registers a request.
LEMMA RegisterCall ==
    ASSUME ManagerOK, ThreadsWithinCalls, ClientLists, [Next]_vars, NEW t \in Threads,
           Register(t), CallOK(pc[t], inf_guids[t], peft_guids[t], got[t], calls[t])
    PROVE  CallOK(pc[t], inf_guids[t], peft_guids[t], got[t], calls[t])'
<1> DEFINE p == pc[t]
           inf == inf_guids[t]
           peft == peft_guids[t]
           n == got[t]
           requests == calls[t]
           g == next_available_guid
<1>1. p = "register" /\ UNCHANGED << pc, got, calls >>
    BY DEF Register
<1>2. inference_finished' = inference_finished
    BY RegisterStep DEF register_new_request, register_new_peft_request, Refuse
<1>3. peft \in Seq(Guid) /\ inf \in Seq(Guid)
    BY DEF ClientLists, ServingTypeOK
<1>4. CallOK(p, inf, peft, n, requests)
    OBVIOUS
<1>5. p # "idle" /\ inf = << >> /\ Trains(requests) => ~inference_finished'
    BY <1>2, <1>4 DEF CallOK
<1>6. PICK p1, inf1, n1, requests1 :
          p1 = p /\ inf1 = inf /\ n1 = n /\ requests1 = requests
    OBVIOUS
<1>7. PICK peft1 \in Seq(Guid) : peft1 = peft
    BY <1>3
<1>8. CallOK(p1, inf1, peft1, n1, requests1)'
    BY <1>4, <1>5, <1>6, <1>7, ManagerStep
<1>9. CASE inf_guids' = inf_guids /\ peft_guids' = peft_guids
    BY <1>1, <1>6, <1>7, <1>8, <1>9
<1>10. CASE inf_guids' # inf_guids
  <2>1. Asks(requests) /\ peft_guids' = peft_guids
      BY <1>10, AskedRequest
  <2>2. \/ inf_guids'[t] = inf
        \/ inf_guids'[t] = Append(inf, g)
      BY RegisterStep DEF ClientLists, ServingTypeOK
  <2>3. CASE inf_guids'[t] = inf
      BY <1>1, <1>6, <1>7, <1>8, <2>1, <2>3
  <2>4. CASE inf_guids'[t] = Append(inf, g)
    <3>1. PICK guids \in Seq(Guid) : guids = inf
        BY <1>3
    <3>2. PICK guid : inf_guids'[t] = Append(guids, guid)
        BY <2>4, <3>1
    <3>3. Len(Append(guids, guid)) = Len(guids) + 1 /\ Len(guids) \in Nat /\ Len(<< >>) = 0
        OBVIOUS
    <3>4. inf_guids'[t] # << >>
        BY <3>2, <3>3
    <3> QED BY <1>1, <1>6, <1>7, <1>8, <2>1, <3>4 DEF CallOK
  <2> QED BY <2>2, <2>3, <2>4
<1>11. CASE peft_guids' # peft_guids
  <2>1. /\ g \in Guid /\ peft_guids'[t] = Append(peft, g)
        /\ all_requests'[g].req_type = "REQ_FINETUNING"
        /\ all_requests'[g].status = "PENDING"
        /\ Trains(requests) /\ inf_guids' = inf_guids
      BY <1>11, PromisedRequest
  <2>2. PICK g1 \in Guid : g1 = g
      BY <2>1
  <2>3. PICK new \in Seq(Guid) : new = Append(peft1, g1)
    <3>1. Append(peft1, g1) \in Seq(Guid)
        OBVIOUS
    <3> QED BY <3>1
  <2>4. /\ peft_guids'[t] = new
        /\ all_requests'[g1].req_type = "REQ_FINETUNING"
        /\ all_requests'[g1].status = "PENDING"
      BY <1>7, <2>1, <2>2, <2>3
  <2>5. \A k \in DOMAIN new : \/ k \in DOMAIN peft1 /\ new[k] = peft1[k]
                              \/ new[k] = g1
      BY <2>3
  <2>6. \A k \in DOMAIN new : all_requests'[new[k]].req_type = "REQ_FINETUNING"
      BY <1>8, <2>4, <2>5 DEF CallOK, IsFinetuning
  <2>7. ASSUME inf1 = << >>
        PROVE  /\ Trains(requests1) => ~inference_finished'
               /\ \A k \in DOMAIN new : all_requests'[new[k]].status = "COMPLETED"
                                          => RanToTheEnd(all_requests'[new[k]])
      BY <1>1, <1>6, <1>8, <2>4, <2>5, <2>7 DEF CallOK, Completed
  <2>8. inf1 # << >> => Asks(requests1)
      BY <1>8 DEF CallOK
  <2>9. CallOK(p1, inf1, new, n1, requests1)'
      BY <1>1, <1>6, <2>1, <2>6, <2>7, <2>8 DEF CallOK, IsFinetuning, Completed
  <2> QED BY <1>1, <1>6, <2>1, <2>4, <2>9
<1> QED BY <1>9, <1>10, <1>11

\* Every other thing a client does.
LEMMA OwnCall ==
    ASSUME ManagerOK, ThreadsWithinCalls, ClientLists, [Next]_vars, NEW t \in Threads,
           Thread(t), CallOK(pc[t], inf_guids[t], peft_guids[t], got[t], calls[t])
    PROVE  CallOK(pc[t], inf_guids[t], peft_guids[t], got[t], calls[t])'
<1> USE DEF ClientLists, ServingTypeOK
<1>1. CASE ResetFlag(t)
  <2>1. /\ pc'[t] = "register" /\ inf_guids'[t] = << >> /\ peft_guids'[t] = << >>
        /\ ~inference_finished'
      BY <1>1 DEF ResetFlag, set_inference_finished
  <2>2. DOMAIN peft_guids'[t] = {}
      BY <2>1
  <2> QED BY <2>1, <2>2 DEF CallOK
<1>2. CASE Register(t)
    BY <1>2, RegisterCall
<1>3. CASE RegisterDone(t)
  <2>1. /\ pc[t] = "register" /\ pc'[t] = "wait_inf"
        /\ UNCHANGED << inf_guids, peft_guids, got, calls, all_requests,
                        request_to_promise, inference_finished >>
      BY <1>3 DEF RegisterDone, vars, registry, outcome
  <2> QED BY <2>1 DEF CallOK, IsFinetuning, Completed
<1>4. CASE GetResult(t)
  <2>1. /\ UNCHANGED << pc, inf_guids, peft_guids, calls, all_requests,
                        request_to_promise, inference_finished >>
        /\ got'[t] = got[t] + 1
        /\ \/ pc[t] = "wait_inf"
           \/ /\ pc[t] = "wait_peft" /\ got[t] < Len(peft_guids[t])
              /\ request_to_promise[peft_guids[t][got[t] + 1]] = "set"
      BY <1>4 DEF GetResult, get_generation_result, vars, registry, outcome
  <2>2. CASE pc[t] = "wait_inf"
      BY <2>1, <2>2 DEF CallOK, IsFinetuning, Completed
  <2>3. CASE pc[t] = "wait_peft"
    <3>1. got[t] \in Nat /\ peft_guids[t] \in Seq(Guid)
        OBVIOUS
    <3>2. got[t] + 1 \in DOMAIN peft_guids[t]
        BY <2>1, <2>3, <3>1
    <3>3. \A k \in 1 .. got[t] + 1 :
              k \in DOMAIN peft_guids[t] /\ request_to_promise[peft_guids[t][k]] = "set"
      <4>1. \A k \in 1 .. got[t] + 1 : k \in 1 .. got[t] \/ k = got[t] + 1
          BY <3>1
      <4> QED BY <2>1, <2>3, <3>2, <4>1 DEF CallOK
    <3> QED BY <2>1, <2>3, <3>3 DEF CallOK, IsFinetuning, Completed
  <2> QED BY <2>1, <2>2, <2>3
<1>5. CASE InferenceDone(t)
  <2>1. /\ pc[t] = "wait_inf" /\ pc'[t] = "wait_peft" /\ got'[t] = 0
        /\ UNCHANGED << inf_guids, peft_guids, calls, all_requests, request_to_promise >>
        /\ inf_guids[t] = << >> => inference_finished' = inference_finished
      BY <1>5 DEF InferenceDone, set_inference_finished, vars, registry, outcome
  <2> QED BY <2>1 DEF CallOK, IsFinetuning, Completed
<1>6. CASE Return(t)
  <2>1. /\ pc'[t] = "idle"
        /\ UNCHANGED << inf_guids, peft_guids, calls, all_requests >>
      BY <1>6 DEF Return, vars, registry
  <2> QED BY <2>1 DEF CallOK, IsFinetuning
<1> QED BY <1>1, <1>2, <1>3, <1>4, <1>5, <1>6 DEF Thread

\* No step ends the training of a client that nobody disturbs.
LEMMA NextClients ==
    ASSUME SeparateClients, ManagerOK, ThreadsWithinCalls, ClientLists, ClientsOK,
           [ServingNext]_allvars
    PROVE  ClientsOK'
<1>1. [Next]_vars
    BY NextImplementsManager
<1> SUFFICES ASSUME NEW u \in Threads
             PROVE  CallOK(pc[u], inf_guids[u], peft_guids[u], got[u], calls[u])'
    BY DEF ClientsOK
<1>2. CallOK(pc[u], inf_guids[u], peft_guids[u], got[u], calls[u])
    BY DEF ClientsOK
<1>3. PICK p, inf, n, requests :
          p = pc[u] /\ inf = inf_guids[u] /\ n = got[u] /\ requests = calls[u]
    OBVIOUS
<1>4. PICK peft \in Seq(Guid) : peft = peft_guids[u]
    BY DEF ClientLists, ServingTypeOK
<1>5. CallOK(p, inf, peft, n, requests)
    BY <1>2, <1>3, <1>4
<1>6. ASSUME p # "idle" /\ inf = << >> /\ Trains(requests) => ~inference_finished',
             /\ pc'[u] = p /\ inf_guids'[u] = inf /\ peft_guids'[u] = peft
             /\ got'[u] = n /\ calls'[u] = requests
      PROVE  CallOK(pc[u], inf_guids[u], peft_guids[u], got[u], calls[u])'
  <2>1. CallOK(p, inf, peft, n, requests)'
      BY <1>1, <1>5, <1>6, ManagerStep
  <2> QED BY <1>6, <2>1
<1>7. ASSUME NEW t \in Threads, Thread(t)
      PROVE  CallOK(pc[u], inf_guids[u], peft_guids[u], got[u], calls[u])'
  <2>1. CASE t = u
      BY <1>1, <1>2, <1>7, <2>1, OwnCall
  <2>2. CASE t # u
    <3>1. /\ pc'[u] = p /\ inf_guids'[u] = inf /\ peft_guids'[u] = peft
          /\ got'[u] = n /\ calls'[u] = requests
        BY <1>3, <1>4, <1>7, <2>2, OtherClients
    <3>2. Trains(requests) => ~Asks(calls[t])
        BY <1>3, <2>2 DEF SeparateClients, ThreadsWithinCalls
    <3>3. p # "idle" /\ inf = << >> /\ Trains(requests) => ~inference_finished'
        BY <1>5, <1>7, <3>2, FlagStep DEF CallOK
    <3> QED BY <1>6, <3>1, <3>3
  <2> QED BY <2>1, <2>2
<1>8. CASE BackgroundServer \/ terminate_background_server \/ UNCHANGED allvars
  <2>1. /\ inference_finished' = inference_finished
        /\ UNCHANGED << pc, inf_guids, peft_guids, got, calls >>
      BY <1>8, ServerFlag
  <2> QED BY <1>3, <1>4, <1>5, <1>6, <2>1 DEF CallOK
<1> QED BY <1>7, <1>8 DEF ServingNext

\* The request manager of the composition keeps its rows and its promises.
LEMMA ManagerKeeps == ServingSpec => []ManagerOK
<1>1. Init => PromisesKept /\ UnusedPromises
    BY DEF Init, PromisesKept, UnusedPromises, Completed, NoRequest
<1>2. ASSUME TypeInvariant, RowsInvariant, PromisesKept, UnusedPromises, [Next]_vars
      PROVE  PromisesKept' /\ UnusedPromises'
    BY <1>2, NextPromises, NextUnusedPromises DEF RowsInvariant
<1>3. TypeInvariant /\ RowsInvariant /\ (PromisesKept /\ UnusedPromises) /\ [Next]_vars
        => (PromisesKept /\ UnusedPromises)'
    BY <1>2
<1>4. Spec => [](PromisesKept /\ UnusedPromises)
    BY <1>1, <1>3, RowsInvariantHolds, PTL DEF Spec
<1>5. TypeInvariant /\ RowsInvariant /\ (PromisesKept /\ UnusedPromises) => ManagerOK
    BY DEF ManagerOK
<1> QED BY <1>4, <1>5, RowsInvariantHolds, ServingImplementsManager, PTL

\* A client that trains gets all the training it asked for, however its calls
\* and the server interleave, unless another client asks for tokens: it is only
\* the flag inference_finished that cuts training short, and only a call with
\* inference requests raises it.
THEOREM TrainingRunsToTheEnd ==
    ASSUME SeparateClients
    PROVE  ServingSpec => []FinetuningRunsToTheEnd
<1>1. ServingInit => ClientsOK
  <2> SUFFICES ASSUME ServingInit PROVE ClientsOK
      OBVIOUS
  <2>1. DOMAIN << >> = {}
      OBVIOUS
  <2> QED BY <2>1 DEF ServingInit, ClientsOK, CallOK
<1>2. ServingInit => ClientLists
    BY InitServingTypes
<1>3. TypeInvariant /\ ClientLists /\ ThreadsWithinCalls /\ [ServingNext]_allvars
        => ClientLists'
    BY NextServingTypes
<1>4. ServingSpec => []ClientLists
    BY <1>2, <1>3, ServingKeepsTypes, ThreadsStayWithinCalls, PTL DEF ServingSpec
<1>5. ManagerOK /\ ThreadsWithinCalls /\ ClientLists /\ ClientsOK /\ [ServingNext]_allvars
        => ClientsOK'
    BY NextClients
<1>6. ASSUME ManagerOK, ClientsOK, ClientLists
      PROVE  FinetuningRunsToTheEnd
  <2> SUFFICES ASSUME NEW t \in Threads, pc[t] = "wait_peft", inf_guids[t] = << >>,
                      NEW k \in 1 .. got[t]
               PROVE  RanToTheEnd(all_requests[peft_guids[t][k]])
      BY DEF FinetuningRunsToTheEnd, RanToTheEnd
  <2>1. CallOK(pc[t], inf_guids[t], peft_guids[t], got[t], calls[t])
      BY <1>6 DEF ClientsOK
  <2>2. k \in DOMAIN peft_guids[t] /\ request_to_promise[peft_guids[t][k]] = "set"
      BY <2>1 DEF CallOK
  <2>3. peft_guids[t][k] \in Guid
      BY <1>6, <2>2 DEF ClientLists, ServingTypeOK
  <2>4. Completed(peft_guids[t][k])
      BY <1>6, <2>2, <2>3 DEF ManagerOK, PromisesKept
  <2> QED BY <2>1, <2>2, <2>4 DEF CallOK
<1>7. ManagerOK /\ ClientsOK /\ ClientLists => FinetuningRunsToTheEnd
    BY <1>6
<1> QED BY <1>1, <1>4, <1>5, <1>7, ManagerKeeps, ThreadsStayWithinCalls, PTL DEF ServingSpec
=============================================================================
