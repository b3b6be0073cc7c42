------------------------ MODULE RequestBatch_proofs ------------------------
(***************************************************************************)
(* Proofs about RequestManager: what the batches hold.  The slots and the  *)
(* rows of a batch describe the same tokens, at most one prompt is         *)
(* incomplete, and the KV cache of a row holds the tokens before those the *)
(* batch gives the model.                                                  *)
(***************************************************************************)
EXTENDS RequestManager_proofs

\* SlotsMatchRows, of any batch.
SlotsMatch(bc) ==
    /\ \A r \in ActiveRow(bc) :
          LET info == bc.requestsInfo[r]
          IN  /\ info.first_token_offset_in_batch + info.num_tokens_in_batch
                   <= bc.num_tokens
              /\ \A j \in 0 .. info.num_tokens_in_batch - 1 :
                    bc.tokensInfo[info.first_token_offset_in_batch + j]
                      = [request_index |-> r,
                         abs_depth_in_request |->
                             info.first_token_depth_in_request + j]
    /\ \A s \in Slot : s < bc.num_tokens =>
          LET r    == bc.tokensInfo[s].request_index
              info == bc.requestsInfo[r]
          IN  /\ r \in ActiveRow(bc)
              /\ info.first_token_offset_in_batch <= s
              /\ s < info.first_token_offset_in_batch + info.num_tokens_in_batch

SlotsInvariant == SlotsMatch(old_bc) /\ SlotsMatch(new_bc)

-----------------------------------------------------------------------------
(* The slots and the rows. *)

\* A row of n tokens, put after the tokens of a batch, keeps slots and rows
\* matched.
LEMMA RowMatches ==
    ASSUME NEW bc \in BatchConfig, NEW new \in BatchConfig, SlotsMatch(bc),
           NEW r \in Row, r \notin ActiveRow(bc), NEW info \in PerRequestInfo,
           info.first_token_offset_in_batch = bc.num_tokens,
           info.num_tokens_in_batch > 0,
           bc.num_tokens + info.num_tokens_in_batch <= MaxTokens,
           ActiveRow(new) = ActiveRow(bc) \cup {r},
           new.requestsInfo[r] = info,
           \A q \in Row : q # r => new.requestsInfo[q] = bc.requestsInfo[q],
           new.num_tokens = bc.num_tokens + Written(info),
           new.tokensInfo = WriteTokens(bc.tokensInfo, bc.num_tokens, r, info)
    PROVE  SlotsMatch(new)
<1> DEFINE n     == info.num_tokens_in_batch
           first == info.first_token_depth_in_request
<1>1. /\ n \in Nat /\ first \in Nat /\ bc.num_tokens \in Nat /\ MaxTokens \in Nat
      /\ new.num_tokens = bc.num_tokens + n
    BY ConstantsAssumption DEF PerRequestInfo, BatchConfig, Written
<1>2. ASSUME NEW s \in Slot
      PROVE  /\ s < bc.num_tokens => new.tokensInfo[s] = bc.tokensInfo[s]
             /\ bc.num_tokens <= s /\ s < bc.num_tokens + n =>
                  new.tokensInfo[s] = [request_index |-> r,
                                       abs_depth_in_request |-> first + (s - bc.num_tokens)]
  <2>1. s \in Nat
      BY DEF Slot
  <2> QED BY <1>1, <2>1 DEF WriteTokens
<1>3. \A s : s \in Slot <=> s \in Nat /\ s < MaxTokens
    BY <1>1 DEF Slot
<1>4. ASSUME NEW q \in ActiveRow(new)
      PROVE  LET k == new.requestsInfo[q]
             IN  /\ k.first_token_offset_in_batch + k.num_tokens_in_batch <= new.num_tokens
                 /\ \A j \in 0 .. k.num_tokens_in_batch - 1 :
                       new.tokensInfo[k.first_token_offset_in_batch + j]
                         = [request_index |-> q,
                            abs_depth_in_request |-> k.first_token_depth_in_request + j]
  <2>1. CASE q = r
    <3>1. ASSUME NEW j \in 0 .. n - 1
          PROVE  new.tokensInfo[bc.num_tokens + j]
                   = [request_index |-> r, abs_depth_in_request |-> first + j]
      <4>1. /\ bc.num_tokens + j \in Slot
            /\ bc.num_tokens <= bc.num_tokens + j /\ bc.num_tokens + j < bc.num_tokens + n
            /\ (bc.num_tokens + j) - bc.num_tokens = j
          BY <1>1, <1>3
      <4> QED BY <1>2, <4>1
    <3> QED BY <1>1, <2>1, <3>1
  <2>2. CASE q # r
    <3> DEFINE k == bc.requestsInfo[q]
    <3>1. q \in ActiveRow(bc) /\ q \in Row /\ new.requestsInfo[q] = k
        BY <1>4, <2>2 DEF ActiveRow
    <3>2. /\ k.first_token_offset_in_batch \in Nat /\ k.num_tokens_in_batch \in Int
          /\ k.first_token_depth_in_request \in Nat
        BY <3>1 DEF BatchConfig, PerRequestInfo
    <3>3. k.first_token_offset_in_batch + k.num_tokens_in_batch <= bc.num_tokens
        BY <3>1 DEF SlotsMatch
    <3>4. ASSUME NEW j \in 0 .. k.num_tokens_in_batch - 1
          PROVE  new.tokensInfo[k.first_token_offset_in_batch + j]
                   = [request_index |-> q,
                      abs_depth_in_request |-> k.first_token_depth_in_request + j]
      <4>1. /\ k.first_token_offset_in_batch + j \in Slot
            /\ k.first_token_offset_in_batch + j < bc.num_tokens
          BY <1>1, <1>3, <3>2, <3>3
      <4>2. bc.tokensInfo[k.first_token_offset_in_batch + j]
              = [request_index |-> q,
                 abs_depth_in_request |-> k.first_token_depth_in_request + j]
          BY <3>1 DEF SlotsMatch
      <4> QED BY <1>2, <4>1, <4>2
    <3>5. k.first_token_offset_in_batch + k.num_tokens_in_batch <= new.num_tokens
        BY <1>1, <3>2, <3>3
    <3> QED BY <3>1, <3>4, <3>5
  <2> QED BY <2>1, <2>2
<1>5. ASSUME NEW s \in Slot, s < new.num_tokens
      PROVE  LET q == new.tokensInfo[s].request_index
                 k == new.requestsInfo[q]
             IN  /\ q \in ActiveRow(new)
                 /\ k.first_token_offset_in_batch <= s
                 /\ s < k.first_token_offset_in_batch + k.num_tokens_in_batch
  <2>1. s \in Nat
      BY <1>3
  <2>2. CASE s < bc.num_tokens
    <3> DEFINE q == bc.tokensInfo[s].request_index
    <3>1. /\ q \in ActiveRow(bc)
          /\ bc.requestsInfo[q].first_token_offset_in_batch <= s
          /\ s < bc.requestsInfo[q].first_token_offset_in_batch
                   + bc.requestsInfo[q].num_tokens_in_batch
        BY <2>2 DEF SlotsMatch
    <3>2. q # r /\ q \in Row
        BY <3>1 DEF ActiveRow
    <3>3. new.tokensInfo[s] = bc.tokensInfo[s]
        BY <1>2, <2>2
    <3> QED BY <3>1, <3>2, <3>3
  <2>3. CASE ~(s < bc.num_tokens)
    <3>1. bc.num_tokens <= s /\ s < bc.num_tokens + n
        BY <1>1, <1>5, <2>1, <2>3
    <3>2. new.tokensInfo[s]
            = [request_index |-> r, abs_depth_in_request |-> first + (s - bc.num_tokens)]
        BY <1>2, <3>1
    <3>3. new.tokensInfo[s].request_index = r
        BY <3>2
    <3>4. /\ r \in ActiveRow(new) /\ new.requestsInfo[r] = info
          /\ info.first_token_offset_in_batch = bc.num_tokens
          /\ s < bc.num_tokens + n
        BY <3>1
    <3> QED BY <3>1, <3>3, <3>4
  <2> QED BY <2>2, <2>3
<1> QED BY <1>4, <1>5 DEF SlotsMatch

\* An empty batch has neither rows nor slots in use.
LEMMA EmptyMatches == SlotsMatch(EmptyBatch)
<1>1. ActiveRow(EmptyBatch) = {}
    BY DEF ActiveRow, EmptyBatch
<1>2. EmptyBatch.num_tokens = 0
    BY DEF EmptyBatch
<1>3. \A s \in Slot : ~(s < 0)
    BY ConstantsAssumption DEF Slot
<1> HIDE DEF EmptyBatch
<1> QED BY <1>1, <1>2, <1>3 DEF SlotsMatch

\* The row that a step of the loops puts in the next batch is free, and its tokens
\* come after those already there and fit.
LEMMA NewRowFits ==
    ASSUME TypeInvariant, Within, UnderConstruction, NEW i \in InfrRow,
           CarryDecoding(i) \/ CarryPrompt(i) \/ AdmitRequest(i)
    PROVE  /\ i \in Row /\ i \notin ActiveRow(new_bc) /\ new_bc \in BatchConfig
           /\ old_bc' = old_bc
           /\ \E info \in PerRequestInfo, d \in BOOLEAN :
                /\ new_bc' = PutRow(new_bc, i, info, d)
                /\ info.first_token_offset_in_batch = new_bc.num_tokens
                /\ info.num_tokens_in_batch > 0
                /\ new_bc.num_tokens + info.num_tokens_in_batch <= MaxTokens
<1>1. i \in Row /\ i \in Int /\ new_bc \in BatchConfig /\ new_bc.num_tokens \in Nat
  <2>1. i \in Row
      BY RowSubsets
  <2>2. i \in Int
      BY <2>1, ConstantsAssumption DEF Row
  <2>3. new_bc \in BatchConfig
      BY DEF TypeInvariant, TypeOK
  <2>4. new_bc.num_tokens \in Nat
      BY <2>3 DEF BatchConfig
  <2> QED BY <2>1, <2>2, <2>3, <2>4
<1>2. CASE CarryDecoding(i) \/ CarryPrompt(i)
  <2>1. OldRow(i) /\ step = "carry" /\ row = i /\ old_bc' = old_bc
      BY <1>2, CarryStep
  <2>2. PICK n \in Int, p, d \in BOOLEAN :
            /\ new_bc' = PutRow(new_bc, i, CarriedInfo(i, n, p), d)
            /\ n > 0
            /\ new_bc.num_tokens + n + Cardinality(Continuing(i + 1)) <= MaxTokens
      BY <1>2, CarryChunk
  <2>3. /\ CarriedInfo(i, n, p) \in PerRequestInfo
        /\ CarriedInfo(i, n, p).num_tokens_in_batch = n
        /\ CarriedInfo(i, n, p).first_token_offset_in_batch = new_bc.num_tokens
    <3>1. old_bc.requestsInfo[i] \in PerRequestInfo
        BY <2>1, OldRowType
    <3>2. /\ CarriedInfo(i, n, p) \in PerRequestInfo
          /\ CarriedInfo(i, n, p).num_tokens_in_batch = n
        BY <2>1, <2>2, CarriedInfoType
    <3>3. CarriedInfo(i, n, p).first_token_offset_in_batch = new_bc.num_tokens
        BY <3>1 DEF CarriedInfo, PerRequestInfo
    <3> QED BY <3>2, <3>3
  <2>4. new_bc.num_tokens + n <= MaxTokens
    <3>1. Cardinality(Continuing(i + 1)) \in Nat
        BY ContinuingFinite
    <3> QED BY <1>1, <2>2, <3>1, ConstantsAssumption
  <2>5. i \notin ActiveRow(new_bc)
      BY <1>1, <2>1 DEF UnderConstruction
  <2> HIDE DEF CarriedInfo
  <2> QED BY <1>1, <2>1, <2>2, <2>3, <2>4, <2>5
<1>3. CASE AdmitRequest(i)
  <2> DEFINE g == Head(pending_infr_request_queue)
  <2>1. /\ pending_infr_request_queue \in Seq(Guid) /\ pending_infr_request_queue # << >>
        /\ new_bc.num_tokens < MaxTokens /\ i \notin ActiveRow(new_bc) /\ old_bc' = old_bc
      BY <1>3, AdmitChunk
  <2>2. PICK info \in PerRequestInfo :
            /\ new_bc' = PutRow(new_bc, i, info, FALSE)
            /\ info.first_token_offset_in_batch = new_bc.num_tokens
            /\ info.num_tokens_in_batch = Smaller(MaxTokens - new_bc.num_tokens,
                                                  all_requests[g].tokens)
      BY <1>3, AdmitChunk
  <2>3. g \in Guid /\ all_requests[g].tokens > 0
    <3>1. 1 \in DOMAIN pending_infr_request_queue /\ g = pending_infr_request_queue[1]
          /\ g \in Guid
        BY <2>1, TailWellFormed
    <3> QED BY <3>1 DEF Within, QueuedNonEmpty
  <2>4. all_requests[g].tokens \in Nat
      BY <2>3 DEF TypeInvariant, TypeOK, Request
  <2> HIDE DEF g
  <2>5. info.num_tokens_in_batch > 0
        /\ new_bc.num_tokens + info.num_tokens_in_batch <= MaxTokens
      BY <1>1, <2>1, <2>2, <2>3, <2>4, ConstantsAssumption DEF Smaller
  <2> QED BY <1>1, <2>1, <2>2, <2>5
<1> QED BY <1>2, <1>3

\* What AppendTokens leaves alone, and where it goes.
LEMMA AppendTokensControl ==
    ASSUME AppendTokens
    PROVE  /\ step = "result" /\ step' = "carry" /\ row' = 0 /\ InFlight /\ ~InFlight'
           /\ new_bc' = EmptyBatch
           /\ UNCHANGED << next_available_guid, peft_queue, old_bc, key_cache >>
<1>1. /\ step = "result" /\ step' = "carry" /\ row' = 0 /\ new_bc' = EmptyBatch
      /\ UNCHANGED << next_available_guid, pending_peft_request_queue, old_bc, key_cache >>
    BY Zenon DEF AppendTokens
<1> QED BY <1>1 DEF InFlight, peft_queue

\* A step that changes no batch and no cache, and reaches no new rows.
OtherStep ==
    /\ UNCHANGED << old_bc, new_bc, key_cache >>
    /\ InFlight' <=> InFlight
    /\ step' = "inference" <=> step = "inference"
    /\ step' = "carry" => step = "carry"
    /\ OldRows' \subseteq OldRows

\* The steps, by what they do to the batches and the cache.
LEMMA BatchSteps ==
    ASSUME [Next]_vars
    PROVE  \/ AppendTokens \/ Inference
           \/ \E i \in InfrRow : CarryDecoding(i) \/ CarryPrompt(i)
           \/ \E i \in InfrRow : AdmitRequest(i)
           \/ SchedulePeft \/ ScheduleNone
           \/ OtherStep
<1>1. ASSUME UNCHANGED batch
      PROVE  OtherStep
  <2>1. UNCHANGED << step, row, old_bc, new_bc, key_cache >>
      BY <1>1 DEF batch
  <2> QED BY <2>1 DEF OtherStep, InFlight, OldRows, ActiveRow, GuidOf
<1>2. ASSUME UNCHANGED << old_bc, new_bc, key_cache >>, ~InFlight, ~InFlight',
             step' # "carry"
      PROVE  OtherStep
    BY <1>2 DEF OtherStep, InFlight, OldRows, ActiveRow
<1>3. CASE CarryDone \/ AdmitDone \/ TrainSkip \/ TrainRow
    BY <1>2, <1>3 DEF CarryDone, AdmitDone, TrainSkip, TrainRow, InFlight
<1>4. CASE PopPeft
    BY <1>1, <1>4 DEF PopPeft
<1>5. ASSUME NEW i \in InfrRow, CarrySkip(i) \/ CompleteRequest(i)
      PROVE  OtherStep
  <2>1. /\ step = "carry" /\ row = i /\ row' = i + 1
        /\ UNCHANGED << step, old_bc, new_bc, key_cache >>
      BY <1>5 DEF CarrySkip, CompleteRequest, OldRow, NextRow
  <2>2. OldRows' = OldRows \ {i}
      BY <2>1, RowPassed
  <2> QED BY <2>1, <2>2 DEF OtherStep, InFlight
<1>6. ASSUME NEW i \in InfrRow, AdmitSkip(i)
      PROVE  OtherStep
    BY <1>2, <1>6 DEF AdmitSkip, InFlight
<1>7. CASE Client
  <2>1. UNCHANGED batch
    <3>1. CASE \E prompt \in Prompts : register_new_request(prompt)
        BY <3>1 DEF register_new_request, Refuse
    <3>2. CASE \E f \in Finetunings : register_new_peft_request(f)
        BY <3>2 DEF register_new_peft_request, Refuse
    <3>3. CASE \E finished \in BOOLEAN : set_inference_finished(finished)
        BY <3>3 DEF set_inference_finished
    <3> QED BY <1>7, <3>1, <3>2, <3>3 DEF Client
  <2> QED BY <1>1, <2>1
<1>8. CASE UNCHANGED vars
    BY <1>1, <1>8 DEF vars
<1> QED BY <1>3, <1>4, <1>5, <1>6, <1>7, <1>8 DEF Next, Server, PrepareNextBatch

\* The batch that is launched is the one under construction, with a finetuning row
\* after its tokens if there is one.
LEMMA LaunchedRow ==
    ASSUME TypeInvariant, UnderConstruction, SchedulePeft \/ ScheduleNone
    PROVE  /\ step = "schedule" /\ step' = "inference" /\ new_bc' = EmptyBatch
           /\ \/ old_bc' = new_bc
              \/ /\ PeftEnabled /\ PeftRow \in Row /\ PeftRow \notin ActiveRow(new_bc)
                 /\ \E info \in PerRequestInfo :
                      /\ old_bc' = PutPeftRow(new_bc, info)
                      /\ info.first_token_offset_in_batch = new_bc.num_tokens
                      /\ info.num_tokens_in_batch > 0
                      /\ new_bc.num_tokens + info.num_tokens_in_batch <= MaxTokens
<1>1. CASE ScheduleNone
    BY <1>1 DEF ScheduleNone, Launch
<1>2. CASE SchedulePeft
  <2> DEFINE g == Head(pending_peft_request_queue)
             n == num_peft_tokens(all_requests[g])
  <2>1. /\ step = "schedule" /\ PeftReady
        /\ \/ n <= 0 /\ Launch(new_bc)
           \/ /\ n > 0
              /\ \E info \in PerRequestInfo :
                   /\ Launch(PutPeftRow(new_bc, info))
                   /\ info.first_token_offset_in_batch = new_bc.num_tokens
                   /\ info.num_tokens_in_batch = n
      BY <1>2, PeftChunk
  <2>2. PeftEnabled /\ n \in Int /\ n <= MaxTokens - new_bc.num_tokens
      BY <2>1, PeftHead
  <2>3. PeftRow \in Row /\ PeftRow \notin ActiveRow(new_bc)
      BY <2>2, RowSubsets DEF UnderConstruction
  <2>4. new_bc.num_tokens \in Nat
      BY DEF TypeInvariant, TypeOK, BatchConfig
  <2> HIDE DEF n
  <2>5. new_bc.num_tokens + n <= MaxTokens
      BY <2>2, <2>4, ConstantsAssumption
  <2>6. CASE Launch(new_bc)
      BY <2>1, <2>6 DEF Launch
  <2>7. ASSUME NEW info \in PerRequestInfo, Launch(PutPeftRow(new_bc, info)), n > 0,
               info.first_token_offset_in_batch = new_bc.num_tokens,
               info.num_tokens_in_batch = n
        PROVE  /\ step' = "inference" /\ new_bc' = EmptyBatch
               /\ old_bc' = PutPeftRow(new_bc, info)
               /\ info.num_tokens_in_batch > 0
               /\ new_bc.num_tokens + info.num_tokens_in_batch <= MaxTokens
      BY <2>5, <2>7 DEF Launch
  <2> QED BY <2>1, <2>2, <2>3, <2>6, <2>7
<1> QED BY <1>1, <1>2

\* The steps keep the slots and the rows of both batches matched.
LEMMA NextSlots ==
    ASSUME TypeInvariant, Within, UnderConstruction, SlotsInvariant, [Next]_vars
    PROVE  SlotsInvariant'
<1>1. new_bc \in BatchConfig /\ TypeInvariant'
    BY NextTypeInvariant DEF TypeInvariant, TypeOK
<1>2. old_bc' \in BatchConfig /\ new_bc' \in BatchConfig
    BY <1>1 DEF TypeInvariant, TypeOK
<1>3. CASE AppendTokens
  <2>1. old_bc' = old_bc /\ new_bc' = EmptyBatch
      BY <1>3, AppendTokensControl
  <2> QED BY <2>1, EmptyMatches DEF SlotsInvariant
<1>4. ASSUME NEW i \in InfrRow, CarryDecoding(i) \/ CarryPrompt(i) \/ AdmitRequest(i)
      PROVE  SlotsInvariant'
  <2>1. /\ i \in Row /\ i \notin ActiveRow(new_bc) /\ old_bc' = old_bc
        /\ \E info \in PerRequestInfo, d \in BOOLEAN :
             /\ new_bc' = PutRow(new_bc, i, info, d)
             /\ info.first_token_offset_in_batch = new_bc.num_tokens
             /\ info.num_tokens_in_batch > 0
             /\ new_bc.num_tokens + info.num_tokens_in_batch <= MaxTokens
      BY <1>4, NewRowFits
  <2>2. PICK info \in PerRequestInfo, d \in BOOLEAN :
             /\ new_bc' = PutRow(new_bc, i, info, d)
             /\ info.first_token_offset_in_batch = new_bc.num_tokens
             /\ info.num_tokens_in_batch > 0
             /\ new_bc.num_tokens + info.num_tokens_in_batch <= MaxTokens
      BY <2>1
  <2>3. /\ ActiveRow(new_bc') = ActiveRow(new_bc) \cup {i}
        /\ new_bc'.requestsInfo[i] = info
        /\ \A q \in Row : q # i => new_bc'.requestsInfo[q] = new_bc.requestsInfo[q]
        /\ new_bc'.num_tokens = new_bc.num_tokens + Written(info)
        /\ new_bc'.tokensInfo = WriteTokens(new_bc.tokensInfo, new_bc.num_tokens, i, info)
      BY <1>1, <2>1, <2>2, PutRowRows
  <2>4. SlotsMatch(new_bc)
      BY DEF SlotsInvariant
  <2>5. SlotsMatch(new_bc')
      BY <1>1, <1>2, <2>1, <2>2, <2>3, <2>4, RowMatches
  <2> QED BY <2>1, <2>5 DEF SlotsInvariant
<1>5. CASE SchedulePeft \/ ScheduleNone
  <2>1. /\ new_bc' = EmptyBatch
        /\ \/ old_bc' = new_bc
           \/ /\ PeftEnabled /\ PeftRow \in Row /\ PeftRow \notin ActiveRow(new_bc)
              /\ \E info \in PerRequestInfo :
                   /\ old_bc' = PutPeftRow(new_bc, info)
                   /\ info.first_token_offset_in_batch = new_bc.num_tokens
                   /\ info.num_tokens_in_batch > 0
                   /\ new_bc.num_tokens + info.num_tokens_in_batch <= MaxTokens
      BY <1>5, LaunchedRow
  <2>2. SlotsMatch(new_bc)
      BY DEF SlotsInvariant
  <2>3. ASSUME PeftEnabled, PeftRow \in Row, PeftRow \notin ActiveRow(new_bc),
               NEW info \in PerRequestInfo, old_bc' = PutPeftRow(new_bc, info),
               info.first_token_offset_in_batch = new_bc.num_tokens,
               info.num_tokens_in_batch > 0,
               new_bc.num_tokens + info.num_tokens_in_batch <= MaxTokens
        PROVE  SlotsMatch(old_bc')
    <3>1. /\ ActiveRow(old_bc') = ActiveRow(new_bc) \cup {PeftRow}
          /\ old_bc'.requestsInfo[PeftRow] = info
          /\ \A q \in Row : q # PeftRow => old_bc'.requestsInfo[q] = new_bc.requestsInfo[q]
          /\ old_bc'.num_tokens = new_bc.num_tokens + Written(info)
          /\ old_bc'.tokensInfo
               = WriteTokens(new_bc.tokensInfo, new_bc.num_tokens, PeftRow, info)
        BY <1>1, <2>3, PutPeftRowRows
    <3> QED BY <1>1, <1>2, <2>2, <2>3, <3>1, RowMatches
  <2>4. SlotsMatch(old_bc')
      BY <2>1, <2>2, <2>3
  <2> QED BY <2>1, <2>4, EmptyMatches DEF SlotsInvariant
<1>6. CASE Inference \/ OtherStep
  <2>1. UNCHANGED << old_bc, new_bc >>
      BY <1>6 DEF Inference, OtherStep
  <2> QED BY <2>1 DEF SlotsInvariant
<1> QED BY <1>3, <1>4, <1>5, <1>6, BatchSteps

\* What the proofs below rest on, together.
SlotsAndRows == TypeInvariant /\ Within /\ RowsInvariant /\ SlotsInvariant

\* They hold at the start,
LEMMA InitSlotsAndRows == Init => SlotsAndRows
<1>1. Init => SlotsInvariant
    BY EmptyMatches DEF Init, SlotsInvariant
<1> QED BY <1>1, InitTypeInvariant, InitWithin, InitRows DEF SlotsAndRows

\* and every step keeps them.
LEMMA NextSlotsAndRows ==
    ASSUME NonEmptyPrompts, SlotsAndRows, [Next]_vars
    PROVE  SlotsAndRows'
BY NextTypeInvariant, NextWithin, NextRows, NextSlots DEF SlotsAndRows, RowsInvariant

\* The slots and the rows of a batch given to the model describe the same tokens.
THEOREM SlotsAlwaysMatchRows ==
    ASSUME NonEmptyPrompts
    PROVE  Spec => []SlotsMatchRows
<1>1. SlotsAndRows /\ [Next]_vars => SlotsAndRows'
    BY NextSlotsAndRows
<1>2. SlotsAndRows => SlotsMatchRows
    BY DEF SlotsAndRows, SlotsInvariant, SlotsMatch, SlotsMatchRows
<1> QED BY <1>1, <1>2, InitSlotsAndRows, PTL DEF Spec

-----------------------------------------------------------------------------
(* The tokens of the requests, and how many of them the rows hold. *)

\* The slots of an active row.
LEMMA SlotOfRow ==
    ASSUME NEW bc, SlotsMatch(bc), NEW r \in ActiveRow(bc),
           NEW j \in 0 .. bc.requestsInfo[r].num_tokens_in_batch - 1,
           NEW s, s = bc.requestsInfo[r].first_token_offset_in_batch + j
    PROVE  /\ bc.tokensInfo[s].request_index = r
           /\ bc.tokensInfo[s].abs_depth_in_request
                = bc.requestsInfo[r].first_token_depth_in_request + j
<1>1. bc.tokensInfo[s] = [request_index |-> r,
                          abs_depth_in_request |->
                              bc.requestsInfo[r].first_token_depth_in_request + j]
    BY DEF SlotsMatch
<1> QED BY <1>1

\* A slot that yields a token lies in an inference row, which ends at or after the
\* request's last token.
LEMMA YieldingSlot ==
    ASSUME SlotsAndRows, step = "result", NEW s \in Slot, Yields(old_bc, s)
    PROVE  LET r == old_bc.tokensInfo[s].request_index
               g == GuidOf(old_bc, r)
           IN  /\ r \in OldRows /\ g \in Guid /\ IsInference(g)
               /\ EndDepth(old_bc, r) >= old_bc.tokensInfo[s].abs_depth_in_request + 1
               /\ EndDepth(old_bc, r) >= all_requests[g].tokens
<1> DEFINE r    == old_bc.tokensInfo[s].request_index
           g    == GuidOf(old_bc, r)
           info == old_bc.requestsInfo[r]
           d    == old_bc.tokensInfo[s].abs_depth_in_request
<1>1. s < old_bc.num_tokens /\ IsInference(g) /\ d + 1 >= all_requests[g].tokens
    BY DEF Yields, GuidOf
<1>2. /\ r \in ActiveRow(old_bc)
      /\ info.first_token_offset_in_batch <= s
      /\ s < info.first_token_offset_in_batch + info.num_tokens_in_batch
    BY <1>1 DEF SlotsAndRows, SlotsInvariant, SlotsMatch
<1>3. r \in Row /\ g \in Guid /\ info \in PerRequestInfo /\ s \in Nat
    BY <1>2 DEF SlotsAndRows, TypeInvariant, TypeOK, BatchConfig, ActiveRow, RowsRegistered,
                Slot
<1>4. r \in OldRows
  <2>1. RowsServePending /\ InFlight
      BY RowsServe DEF SlotsAndRows, InFlight
  <2>2. r \in InfrRow
      BY <1>1, <1>2, <2>1 DEF RowsServePending, IsInference, IsFinetuning
  <2> QED BY <1>2, <2>1, <2>2 DEF OldRows
<1>5. EndDepth(old_bc, r) >= d + 1
  <2> DEFINE j == s - info.first_token_offset_in_batch
  <2>1. /\ info.first_token_offset_in_batch \in Nat /\ info.num_tokens_in_batch \in Int
        /\ info.first_token_depth_in_request \in Nat
      BY <1>3 DEF PerRequestInfo
  <2>2. /\ j \in 0 .. info.num_tokens_in_batch - 1
        /\ info.first_token_offset_in_batch + j = s
    <3> HIDE DEF info
    <3> QED BY <1>2, <1>3, <2>1
  <2>3. d = info.first_token_depth_in_request + j
    <3>1. SlotsMatch(old_bc)
        BY DEF SlotsAndRows, SlotsInvariant
    <3> HIDE DEF j
    <3> QED BY <1>2, <2>2, <3>1, SlotOfRow
  <2>4. EndDepth(old_bc, r) = info.first_token_depth_in_request + info.num_tokens_in_batch
      BY DEF EndDepth
  <2> HIDE DEF d, info, r
  <2> QED BY <1>3, <2>1, <2>2, <2>3, <2>4
<1>6. /\ d \in Nat /\ all_requests[g].tokens \in Nat /\ EndDepth(old_bc, r) \in Int
  <2>1. /\ all_requests[g] \in Request
        /\ old_bc.tokensInfo[s] \in [request_index : Row, abs_depth_in_request : Nat]
      BY <1>3 DEF SlotsAndRows, TypeInvariant, TypeOK, BatchConfig
  <2>2. all_requests[g].tokens \in Nat
      BY <2>1 DEF Request
  <2>3. EndDepth(old_bc, r) \in Int
    <3>1. info.first_token_depth_in_request \in Nat /\ info.num_tokens_in_batch \in Int
        BY <1>3 DEF PerRequestInfo
    <3> QED BY <3>1 DEF EndDepth
  <2> QED BY <2>1, <2>2, <2>3
<1>7. EndDepth(old_bc, r) >= all_requests[g].tokens
  <2> HIDE DEF d, g, r
  <2> QED BY <1>1, <1>5, <1>6
<1> QED BY <1>1, <1>3, <1>4, <1>5, <1>7

\* The last slot of a row that ends at the request's last token yields a token.
LEMMA LastSlotYields ==
    ASSUME SlotsAndRows, InFlight, NEW r \in OldRows,
           EndDepth(old_bc, r) = all_requests[GuidOf(old_bc, r)].tokens
    PROVE  \E s \in Slot : /\ Yields(old_bc, s)
                           /\ old_bc.tokensInfo[s].request_index = r
<1> DEFINE info == old_bc.requestsInfo[r]
           n    == info.num_tokens_in_batch
           off  == info.first_token_offset_in_batch
           s    == off + (n - 1)
<1>1. r \in ActiveRow(old_bc) /\ r \in Row /\ IsInference(GuidOf(old_bc, r))
    BY DEF OldRows, ActiveRow, SlotsAndRows, RowsInvariant, PlacesInvariant, PlacesWaiting,
           Waiting
<1>2. /\ info \in PerRequestInfo /\ n > 0
      /\ old_bc.num_tokens \in Nat /\ old_bc.num_tokens <= MaxTokens
    BY <1>1 DEF SlotsAndRows, TypeInvariant, TypeOK, BatchConfig, Within, BatchWithin
<1>3. off \in Nat /\ n \in Int /\ info.first_token_depth_in_request \in Nat
    BY <1>2 DEF PerRequestInfo
<1>4. off + n <= old_bc.num_tokens /\ SlotsMatch(old_bc)
    BY <1>1 DEF SlotsAndRows, SlotsInvariant, SlotsMatch
<1>5. n - 1 \in 0 .. n - 1 /\ s \in Slot /\ s < old_bc.num_tokens
  <2> HIDE DEF n, off
  <2> QED BY <1>2, <1>3, <1>4, ConstantsAssumption DEF Slot
<1>6. /\ old_bc.tokensInfo[s].request_index = r
      /\ old_bc.tokensInfo[s].abs_depth_in_request
           = info.first_token_depth_in_request + (n - 1)
    BY <1>1, <1>4, <1>5, SlotOfRow
<1>7. EndDepth(old_bc, r) = info.first_token_depth_in_request + n
    BY DEF EndDepth
<1> HIDE DEF s
<1>8. old_bc.tokensInfo[s].abs_depth_in_request + 1 >= all_requests[GuidOf(old_bc, r)].tokens
    BY <1>3, <1>6, <1>7
<1>9. Yields(old_bc, s)
    BY <1>1, <1>5, <1>6, <1>8 DEF Yields, GuidOf
<1> QED BY <1>5, <1>6, <1>9

\* The token appended to a request that a slot yields one for.
LEMMA AppendTokensYields ==
    ASSUME TypeInvariant, AppendTokens, NEW s \in Slot, Yields(old_bc, s),
           NEW g \in Guid, g = GuidOf(old_bc, old_bc.tokensInfo[s].request_index)
    PROVE  /\ all_requests'[g].tokens = all_requests[g].tokens + 1
           /\ old_bc.tokensInfo[s].abs_depth_in_request + 1 = all_requests[g].tokens
<1> DEFINE slots == {t \in Slot : /\ Yields(old_bc, t)
                                  /\ g = old_bc.requestsInfo[
                                           old_bc.tokensInfo[t].request_index].request_guid}
           ends  == slots \subseteq result
<1>1. slots # {}
    BY DEF GuidOf
<1>2. all_requests'[g] = IF slots = {} THEN all_requests[g]
                         ELSE [all_requests[g] EXCEPT !.tokens = @ + 1, !.eos = ends]
    BY DEF AppendTokens
<1> HIDE DEF slots, ends
<1>3. all_requests[g] \in Request
    BY DEF TypeInvariant, TypeOK
<1>4. all_requests'[g].tokens = all_requests[g].tokens + 1
    BY <1>1, <1>2, <1>3 DEF Request
<1>5. old_bc.tokensInfo[s].abs_depth_in_request + 1 = all_requests[g].tokens
    BY DEF AppendTokens, GuidOf
<1> QED BY <1>4, <1>5

\* A row of the last batch that holds its request's last token gets a new one, and
\* no other row does.
LEMMA RowTokens ==
    ASSUME SlotsAndRows, AppendTokens, NEW r \in OldRows
    PROVE  LET g == GuidOf(old_bc, r)
           IN  /\ EndDepth(old_bc, r) = all_requests[g].tokens =>
                    all_requests'[g].tokens = all_requests[g].tokens + 1
               /\ EndDepth(old_bc, r) < all_requests[g].tokens =>
                    all_requests'[g].tokens = all_requests[g].tokens
<1> DEFINE g == GuidOf(old_bc, r)
<1>1. step = "result" /\ InFlight /\ g \in Guid /\ TypeInvariant
    BY GuidTypes, AppendTokensControl DEF SlotsAndRows
<1>2. ASSUME EndDepth(old_bc, r) = all_requests[g].tokens
      PROVE  all_requests'[g].tokens = all_requests[g].tokens + 1
    BY <1>1, <1>2, LastSlotYields, AppendTokensYields
<1>3. ASSUME EndDepth(old_bc, r) < all_requests[g].tokens
      PROVE  all_requests'[g].tokens = all_requests[g].tokens
  <2>1. ASSUME NEW s \in Slot, Yields(old_bc, s),
               g = GuidOf(old_bc, old_bc.tokensInfo[s].request_index)
        PROVE  FALSE
    <3> DEFINE q == old_bc.tokensInfo[s].request_index
    <3>1. q \in OldRows /\ EndDepth(old_bc, q) >= all_requests[g].tokens
        BY <1>1, <2>1, YieldingSlot
    <3>2. q = r
        BY <2>1, <3>1 DEF SlotsAndRows, RowsInvariant, PlacesInvariant, PlacesDistinct
    <3>3. EndDepth(old_bc, r) \in Int /\ all_requests[g].tokens \in Nat
      <4>1. r \in Row /\ old_bc.requestsInfo[r] \in PerRequestInfo
            /\ all_requests[g] \in Request
          BY <1>1 DEF OldRows, ActiveRow, TypeInvariant, TypeOK, BatchConfig
      <4>2. /\ old_bc.requestsInfo[r].first_token_depth_in_request \in Nat
            /\ old_bc.requestsInfo[r].num_tokens_in_batch \in Int
          BY <4>1 DEF PerRequestInfo
      <4>3. all_requests[g].tokens \in Nat
          BY <4>1 DEF Request
      <4> QED BY <4>2, <4>3 DEF EndDepth
    <3> QED BY <1>3, <3>1, <3>2, <3>3
  <2> QED BY <1>1, <2>1, AppendTokensOther
<1> QED BY <1>2, <1>3

\* Only AppendTokens changes the number of tokens of an inference request.
LEMMA NextTokens ==
    ASSUME TypeInvariant, UnusedGuids, [Next]_vars, ~AppendTokens,
           NEW g \in Guid, IsInference(g)
    PROVE  /\ all_requests'[g].tokens = all_requests[g].tokens
           /\ all_requests'[g].eos = all_requests[g].eos
<1>1. CASE UNCHANGED all_requests
    BY <1>1
<1>2. g # next_available_guid
  <2>1. g = next_available_guid => all_requests[g].req_type = "NONE"
      BY GuidTypes DEF UnusedGuids
  <2> QED BY <2>1 DEF IsInference
<1>3. ASSUME NEW prompt \in Prompts, register_new_request(prompt)
      PROVE  all_requests'[g] = all_requests[g]
    BY <1>2, <1>3, RegisterFacts
<1>4. ASSUME NEW f \in Finetunings, register_new_peft_request(f)
      PROVE  all_requests'[g] = all_requests[g]
    BY <1>2, <1>4, RegisterPeftFacts
<1>5. ASSUME NEW i \in InfrRow, CompleteRequest(i)
      PROVE  /\ all_requests'[g].tokens = all_requests[g].tokens
             /\ all_requests'[g].eos = all_requests[g].eos
  <2>1. PICK h \in Guid :
            all_requests' = [all_requests EXCEPT ![h].status = "COMPLETED"]
    <3>1. GuidOf(old_bc, i) \in Guid
        BY <1>5, OldRowType DEF CompleteRequest
    <3> QED BY <1>5, <3>1 DEF CompleteRequest, GuidOf
  <2>2. all_requests \in [Guid -> Request]
      BY DEF TypeInvariant, TypeOK
  <2> QED BY <2>1, <2>2, CompletedType
<1>6. CASE TrainRow
  <2>1. g # GuidOf(old_bc, PeftRow)
      BY <1>6, TrainFacts DEF IsInference, IsFinetuning
  <2> QED BY <1>6, <2>1, TrainFacts
<1>7. CASE Inference \/ CarryDone \/ AdmitDone \/ TrainSkip \/ PopPeft \/ SchedulePeft
             \/ ScheduleNone
    BY <1>1, <1>7 DEF Inference, CarryDone, AdmitDone, TrainSkip, PopPeft, SchedulePeft,
                      ScheduleNone, Launch, registry
<1>8. CASE \E i \in InfrRow : \/ CarrySkip(i) \/ CarryDecoding(i) \/ CarryPrompt(i)
                              \/ AdmitSkip(i) \/ AdmitRequest(i)
    BY <1>1, <1>8 DEF CarrySkip, CarryDecoding, CarryPrompt, AdmitSkip, AdmitRequest,
                      registry
<1>9. CASE \E finished \in BOOLEAN : set_inference_finished(finished)
    BY <1>1, <1>9 DEF set_inference_finished, registry
<1>10. CASE UNCHANGED vars
    BY <1>1, <1>10 DEF vars, registry
<1> QED BY <1>3, <1>4, <1>5, <1>6, <1>7, <1>8, <1>9, <1>10
        DEF Next, Server, PrepareNextBatch, Client

\* What a step of the loops does to the batch under construction.
LEMMA NewRowStep ==
    ASSUME SlotsAndRows, NEW i \in InfrRow,
           CarryDecoding(i) \/ CarryPrompt(i) \/ AdmitRequest(i)
    PROVE  /\ i \in Row /\ i \notin ActiveRow(new_bc)
           /\ UNCHANGED << old_bc, key_cache, all_requests, step, next_available_guid,
                           peft_queue >>
           /\ ActiveRow(new_bc') = ActiveRow(new_bc) \cup {i}
           /\ NewRows' = NewRows \cup {i}
           /\ \A q \in Row : q # i => new_bc'.requestsInfo[q] = new_bc.requestsInfo[q]
           /\ new_bc'.requestsInfo[i] \in PerRequestInfo
           /\ new_bc'.requestsInfo[i].num_tokens_in_batch > 0
           /\ new_bc'.num_tokens
                = new_bc.num_tokens + new_bc'.requestsInfo[i].num_tokens_in_batch
<1>1. /\ i \in Row /\ i \notin ActiveRow(new_bc) /\ new_bc \in BatchConfig
      /\ \E info \in PerRequestInfo, d \in BOOLEAN :
           /\ new_bc' = PutRow(new_bc, i, info, d)
           /\ info.num_tokens_in_batch > 0
    BY NewRowFits DEF SlotsAndRows, RowsInvariant
<1>2. PICK info \in PerRequestInfo, d \in BOOLEAN :
           new_bc' = PutRow(new_bc, i, info, d) /\ info.num_tokens_in_batch > 0
    BY <1>1
<1>3. /\ ActiveRow(new_bc') = ActiveRow(new_bc) \cup {i}
      /\ new_bc'.requestsInfo[i] = info
      /\ \A q \in Row : q # i => new_bc'.requestsInfo[q] = new_bc.requestsInfo[q]
      /\ new_bc'.num_tokens = new_bc.num_tokens + Written(info)
    BY <1>1, <1>2, PutRowRows
<1>4. NewRows' = NewRows \cup {i}
    BY <1>3 DEF NewRows
<1>5. UNCHANGED << old_bc, key_cache, all_requests, step, next_available_guid, peft_queue >>
    BY DEF CarryDecoding, CarryPrompt, AdmitRequest, registry, peft_queue
<1> QED BY <1>1, <1>2, <1>3, <1>4, <1>5 DEF Written

\* The row a request is carried to goes on where the last one ended.  A prompt that
\* is cut again leaves no slot but those of the rows to come.
LEMMA CarriedRow ==
    ASSUME SlotsAndRows, NEW i \in InfrRow, CarryDecoding(i) \/ CarryPrompt(i)
    PROVE  LET info == new_bc'.requestsInfo[i]
               n    == info.num_tokens_in_batch
           IN  /\ step = "carry" /\ OldRow(i) /\ row = i /\ row' = i + 1
               /\ ~check_inf_req_completion(old_bc, i)
               /\ i \in OldRows /\ OldRows' = OldRows \ {i}
               /\ GuidOf(new_bc', i) = GuidOf(old_bc, i)
               /\ info.first_token_depth_in_request = EndDepth(old_bc, i)
               /\ n <= Unprocessed(i)
               /\ n < Unprocessed(i) =>
                    /\ info.prompt_phase
                    /\ new_bc'.num_tokens + Cardinality(Continuing(i + 1)) = MaxTokens
<1>1. /\ i \in Row /\ new_bc \in BatchConfig /\ TypeInvariant /\ Within
      /\ new_bc'.requestsInfo[i].num_tokens_in_batch > 0
      /\ new_bc'.num_tokens
           = new_bc.num_tokens + new_bc'.requestsInfo[i].num_tokens_in_batch
    BY NewRowStep DEF SlotsAndRows, TypeInvariant, TypeOK
<1>2. /\ OldRow(i) /\ row = i /\ row' = i + 1 /\ step = "carry"
      /\ ~check_inf_req_completion(old_bc, i)
      /\ UNCHANGED << step, old_bc >>
    BY <1>1, CarryStep
<1>3. OldRows' = OldRows \ {i} /\ i \in OldRows
    BY <1>1, <1>2, RowPassed DEF OldRow, ActiveRow
<1>4. PICK n \in Int, p \in BOOLEAN, d \in BOOLEAN :
          /\ new_bc' = PutRow(new_bc, i, CarriedInfo(i, n, p), d)
          /\ n > 0 /\ n <= Unprocessed(i)
          /\ n < Unprocessed(i) =>
               p /\ new_bc.num_tokens + n + Cardinality(Continuing(i + 1)) = MaxTokens
    BY <1>1, CarryChunk
<1>5. CarriedInfo(i, n, p) \in PerRequestInfo
    BY <1>1, <1>2, CarriedInfoType
<1>6. new_bc'.requestsInfo[i] = CarriedInfo(i, n, p)
    BY <1>1, <1>4, <1>5, PutRowRows
<1>7. /\ CarriedInfo(i, n, p).num_tokens_in_batch = n
      /\ CarriedInfo(i, n, p).request_guid = GuidOf(old_bc, i)
      /\ CarriedInfo(i, n, p).prompt_phase = p
      /\ CarriedInfo(i, n, p).first_token_depth_in_request = EndDepth(old_bc, i)
  <2>1. old_bc.requestsInfo[i] \in PerRequestInfo
      BY <1>1, <1>2, OldRowType
  <2> QED BY <2>1 DEF CarriedInfo, PerRequestInfo, EndDepth, GuidOf
<1> HIDE DEF CarriedInfo
<1>8. GuidOf(new_bc', i) = GuidOf(old_bc, i)
    BY <1>6, <1>7 DEF GuidOf
<1> QED BY <1>1, <1>2, <1>3, <1>4, <1>6, <1>7, <1>8

\* The row a request is admitted to starts at its first token; a prompt that is cut
\* leaves no slot.
LEMMA AdmittedRow ==
    ASSUME SlotsAndRows, NEW i \in InfrRow, AdmitRequest(i)
    PROVE  LET info == new_bc'.requestsInfo[i]
               n    == info.num_tokens_in_batch
               g    == GuidOf(new_bc', i)
           IN  /\ step = "admit" /\ new_bc.num_tokens < MaxTokens
               /\ g \in Guid /\ info.prompt_phase
               /\ info.first_token_depth_in_request = 0
               /\ n <= all_requests[g].tokens
               /\ n < all_requests[g].tokens => new_bc'.num_tokens = MaxTokens
<1> DEFINE h == Head(pending_infr_request_queue)
<1>1. /\ i \in Row /\ new_bc \in BatchConfig /\ TypeInvariant /\ new_bc.num_tokens \in Nat
      /\ new_bc'.num_tokens
           = new_bc.num_tokens + new_bc'.requestsInfo[i].num_tokens_in_batch
    BY NewRowStep DEF SlotsAndRows, TypeInvariant, TypeOK, BatchConfig
<1>2. step = "admit" /\ new_bc.num_tokens < MaxTokens
    BY <1>1, AdmitChunk
<1>3. PICK info \in PerRequestInfo, d \in BOOLEAN :
           /\ new_bc' = PutRow(new_bc, i, info, d)
           /\ info.request_guid = h /\ h \in Guid
           /\ info.first_token_depth_in_request = 0
           /\ info.num_tokens_in_batch = Smaller(MaxTokens - new_bc.num_tokens,
                                                 all_requests[h].tokens)
           /\ info.prompt_phase
    BY <1>1, AdmitChunk
<1>4. new_bc'.requestsInfo[i] = info
    BY <1>1, <1>3, PutRowRows
<1>5. GuidOf(new_bc', i) = h
    BY <1>3, <1>4 DEF GuidOf
<1>6. all_requests[h].tokens \in Nat
    BY <1>1, <1>3 DEF TypeInvariant, TypeOK, Request
<1> HIDE DEF h
<1>7. /\ info.num_tokens_in_batch <= all_requests[h].tokens
      /\ info.num_tokens_in_batch < all_requests[h].tokens =>
           new_bc.num_tokens + info.num_tokens_in_batch = MaxTokens
    BY <1>1, <1>3, <1>6, ConstantsAssumption DEF Smaller
<1> QED BY <1>1, <1>2, <1>3, <1>4, <1>5, <1>7

\* A row never holds more tokens than its request has, and all of them unless it is
\* a prompt.
Depths(bc, rows, requests) ==
    \A r \in rows :
        LET tokens == requests[GuidOf(bc, r)].tokens
        IN  /\ EndDepth(bc, r) <= tokens
            /\ ~bc.requestsInfo[r].prompt_phase => EndDepth(bc, r) = tokens

DepthsInvariant ==
    /\ InFlight => Depths(old_bc, OldRows, all_requests)
    /\ Depths(new_bc, NewRows, all_requests)

\* The depths of rows that do not change.
LEMMA DepthsKept ==
    ASSUME NEW bc, NEW rows, NEW requests, Depths(bc, rows, requests),
           NEW bc1, NEW rows1, NEW requests1, rows1 \subseteq rows,
           \A r \in rows1 :
               /\ bc1.requestsInfo[r] = bc.requestsInfo[r]
               /\ requests1[GuidOf(bc, r)].tokens = requests[GuidOf(bc, r)].tokens
    PROVE  Depths(bc1, rows1, requests1)
BY DEF Depths, EndDepth, GuidOf

\* The tokens of the requests in the rows.
LEMMA RowsTokens ==
    ASSUME SlotsAndRows, [Next]_vars, ~AppendTokens
    PROVE  /\ \A r \in OldRows : LET g == GuidOf(old_bc, r) IN
                /\ g \in Guid /\ IsInference(g)
                /\ all_requests'[g].tokens = all_requests[g].tokens
                /\ all_requests'[g].eos = all_requests[g].eos
           /\ \A r \in NewRows : LET g == GuidOf(new_bc, r) IN
                /\ g \in Guid /\ IsInference(g)
                /\ all_requests'[g].tokens = all_requests[g].tokens
<1>1. TypeInvariant /\ UnusedGuids
    BY DEF SlotsAndRows, RowsInvariant
<1>2. /\ \A r \in OldRows : GuidOf(old_bc, r) \in Guid /\ IsInference(GuidOf(old_bc, r))
      /\ \A r \in NewRows : GuidOf(new_bc, r) \in Guid /\ IsInference(GuidOf(new_bc, r))
    BY <1>1, GuidTypes
    DEF SlotsAndRows, RowsInvariant, PlacesInvariant, PlacesWaiting, Waiting
<1> QED BY <1>1, <1>2, NextTokens

\* The steps keep the depths.
LEMMA NextDepths ==
    ASSUME SlotsAndRows, DepthsInvariant, [Next]_vars
    PROVE  DepthsInvariant'
<1> SUFFICES /\ InFlight' => Depths(old_bc', OldRows', all_requests')
             /\ Depths(new_bc', NewRows', all_requests')
    BY DEF DepthsInvariant, Depths, EndDepth, GuidOf
<1>1. CASE AppendTokens
  <2>1. ~InFlight' /\ new_bc' = EmptyBatch
      BY <1>1, AppendTokensControl
  <2>2. NewRows' = {}
      BY <2>1 DEF NewRows, ActiveRow, EmptyBatch
  <2> QED BY <2>1, <2>2 DEF Depths
<1>2. ASSUME NEW i \in InfrRow, CarryDecoding(i) \/ CarryPrompt(i) \/ AdmitRequest(i)
      PROVE  /\ ~InFlight'
             /\ Depths(new_bc', NewRows', all_requests')
  <2>1. /\ i \in Row /\ i \notin ActiveRow(new_bc)
        /\ UNCHANGED << all_requests, step >>
        /\ NewRows' = NewRows \cup {i}
        /\ \A q \in Row : q # i => new_bc'.requestsInfo[q] = new_bc.requestsInfo[q]
        /\ new_bc'.requestsInfo[i] \in PerRequestInfo
      BY <1>2, NewRowStep
  <2>2. Depths(new_bc', NewRows, all_requests')
    <3>1. \A r \in NewRows : r \in Row /\ r # i
        BY <2>1 DEF NewRows, ActiveRow
    <3>2. \A r \in NewRows : new_bc'.requestsInfo[r] = new_bc.requestsInfo[r]
        BY <2>1, <3>1
    <3> QED BY <2>1, <3>2, DepthsKept DEF DepthsInvariant
  <2> DEFINE g      == GuidOf(new_bc', i)
             info   == new_bc'.requestsInfo[i]
             tokens == all_requests'[g].tokens
  <2>3. ~InFlight' /\ EndDepth(new_bc', i) <= tokens
        /\ (~info.prompt_phase => EndDepth(new_bc', i) = tokens)
    <3>1. CASE CarryDecoding(i) \/ CarryPrompt(i)
      <4>1. /\ step = "carry" /\ OldRow(i) /\ g = GuidOf(old_bc, i)
            /\ info.first_token_depth_in_request = EndDepth(old_bc, i)
            /\ info.num_tokens_in_batch <= Unprocessed(i)
            /\ info.num_tokens_in_batch < Unprocessed(i) => info.prompt_phase
          BY <3>1, CarriedRow
      <4>2. /\ EndDepth(old_bc, i) \in Nat /\ Unprocessed(i) \in Int
            /\ all_requests[g] \in Request
          BY <4>1, OldRowType DEF SlotsAndRows
      <4>3. Unprocessed(i) = tokens - EndDepth(old_bc, i)
          BY <2>1, <4>1 DEF Unprocessed, EndDepth, GuidOf
      <4>4. EndDepth(new_bc', i) = EndDepth(old_bc, i) + info.num_tokens_in_batch
          BY <4>1 DEF EndDepth
      <4>5. info.num_tokens_in_batch \in Int /\ tokens \in Nat
          BY <2>1, <4>2 DEF PerRequestInfo, Request
      <4>6. ~InFlight'
          BY <2>1, <4>1 DEF InFlight
      <4> HIDE DEF info, tokens
      <4> QED BY <4>1, <4>2, <4>3, <4>4, <4>5, <4>6
    <3>2. CASE AdmitRequest(i)
      <4>1. /\ step = "admit" /\ info.prompt_phase
            /\ info.first_token_depth_in_request = 0
            /\ info.num_tokens_in_batch <= all_requests[g].tokens
          BY <3>2, AdmittedRow
      <4>2. EndDepth(new_bc', i) = info.num_tokens_in_batch
        <5>1. info.num_tokens_in_batch \in Int
            BY <2>1 DEF PerRequestInfo
        <5> QED BY <4>1, <5>1 DEF EndDepth
      <4> QED BY <2>1, <4>1, <4>2 DEF InFlight
    <3> QED BY <1>2, <3>1, <3>2
  <2> QED BY <2>1, <2>2, <2>3 DEF Depths
<1>3. CASE SchedulePeft \/ ScheduleNone
  <2>1. PICK bc \in BatchConfig :
           /\ Launch(bc)
           /\ ActiveRow(bc) \cap InfrRow = NewRows
           /\ \A r \in InfrRow : bc.requestsInfo[r] = new_bc.requestsInfo[r]
      BY <1>3, LaunchFacts DEF SlotsAndRows, RowsInvariant
  <2>2. old_bc' = bc /\ new_bc' = EmptyBatch /\ step' = "inference"
        /\ all_requests' = all_requests
      BY <2>1 DEF Launch, registry
  <2>3. OldRows' = NewRows
      BY <2>1, <2>2 DEF OldRows, InFlight
  <2>4. Depths(old_bc', OldRows', all_requests')
    <3>1. \A r \in NewRows : bc.requestsInfo[r] = new_bc.requestsInfo[r]
        BY <2>1 DEF NewRows
    <3> QED BY <2>2, <2>3, <3>1, DepthsKept DEF DepthsInvariant
  <2>5. NewRows' = {}
      BY <2>2 DEF NewRows, ActiveRow, EmptyBatch
  <2> QED BY <2>4, <2>5 DEF Depths
<1>4. CASE (Inference \/ OtherStep) /\ ~AppendTokens
  <2>1. UNCHANGED << old_bc, new_bc >> /\ OldRows' \subseteq OldRows
        /\ (InFlight' => InFlight)
      BY <1>4 DEF Inference, OtherStep, InFlight, OldRows
  <2>2. NewRows' = NewRows
      BY <2>1 DEF NewRows
  <2>3. /\ \A r \in OldRows : LET g == GuidOf(old_bc, r) IN
                all_requests'[g].tokens = all_requests[g].tokens
        /\ \A r \in NewRows : LET g == GuidOf(new_bc, r) IN
                all_requests'[g].tokens = all_requests[g].tokens
      BY <1>4, RowsTokens
  <2>4. Depths(new_bc', NewRows', all_requests')
      BY <2>1, <2>2, <2>3, DepthsKept DEF DepthsInvariant
  <2>5. InFlight => Depths(old_bc', OldRows', all_requests')
      BY <2>1, <2>3, DepthsKept DEF DepthsInvariant
  <2> QED BY <2>1, <2>4, <2>5
<1> QED BY <1>1, <1>2, <1>3, <1>4, BatchSteps

-----------------------------------------------------------------------------
(* At most one prompt is incomplete. *)

\* IncompletePrompt, with the requests as a parameter.
Incomplete(bc, requests) ==
    {r \in ActiveRow(bc) \cap InfrRow :
        /\ bc.requestsInfo[r].prompt_phase
        /\ EndDepth(bc, r) < requests[GuidOf(bc, r)].tokens}

\* The old rows still to come that have more than one token left.
LongRows == {r \in OldRows : Unprocessed(r) # 1}

\* The slots kept for the old rows still to come.
Reserved == IF step = "carry" THEN Cardinality(Continuing(row)) ELSE 0

\* A batch has at most one incomplete prompt.  While the old rows are carried over,
\* either the incomplete prompt is still to come or it is in the next batch; and once
\* it is there, the next batch has only the slots left that it keeps for the others.
IncompleteInvariant ==
    /\ InFlight => \A r, s \in Incomplete(old_bc, all_requests) : r = s
    /\ \A r, s \in Incomplete(new_bc, all_requests) : r = s
    /\ step = "carry" =>
         /\ \A r, s \in LongRows : r = s
         /\ LongRows # {} => Incomplete(new_bc, all_requests) = {}
    /\ Incomplete(new_bc, all_requests) # {} => new_bc.num_tokens + Reserved = MaxTokens

\* The rows of a batch that do not change stay complete or incomplete.
LEMMA IncompleteKept ==
    ASSUME NEW bc, NEW bc1, NEW requests, NEW requests1,
           NEW r \in ActiveRow(bc) \cap ActiveRow(bc1),
           bc1.requestsInfo[r] = bc.requestsInfo[r],
           requests1[GuidOf(bc, r)].tokens = requests[GuidOf(bc, r)].tokens
    PROVE  r \in Incomplete(bc1, requests1) <=> r \in Incomplete(bc, requests)
BY DEF Incomplete, EndDepth, GuidOf

\* While the old rows are carried over, those that go on are still the same.
LEMMA ContinuingKept ==
    ASSUME SlotsAndRows, [Next]_vars, ~AppendTokens, step = "carry", old_bc' = old_bc,
           NEW i \in Nat, i >= row
    PROVE  Continuing(i)' = Continuing(i)
<1>1. row \in Nat /\ \A ii \in InfrRow : ii \in Int
    BY ConstantsAssumption, RowSubsets DEF SlotsAndRows, TypeInvariant, TypeOK, InfrRow
<1>2. ASSUME NEW ii \in InfrRow, ii >= i, ~old_bc.request_completed[ii]
      PROVE  check_inf_req_completion(old_bc, ii)' <=> check_inf_req_completion(old_bc, ii)
  <2>1. ii \in OldRows
    <3>1. ii >= row
        BY <1>1, <1>2
    <3> QED BY <1>2, <3>1, RowSubsets DEF OldRows, ActiveRow
  <2>2. /\ all_requests'[GuidOf(old_bc, ii)].tokens = all_requests[GuidOf(old_bc, ii)].tokens
        /\ all_requests'[GuidOf(old_bc, ii)].eos = all_requests[GuidOf(old_bc, ii)].eos
      BY <2>1, RowsTokens
  <2> QED BY <2>2 DEF check_inf_req_completion, GuidOf
<1> QED BY <1>2 DEF Continuing

\* The steps that change no batch keep the slots that are kept.
LEMMA ReservedKept ==
    ASSUME SlotsAndRows, [Next]_vars, ~AppendTokens, OtherStep
    PROVE  Reserved' = Reserved
<1>1. CASE step # "carry"
    BY <1>1 DEF Reserved, OtherStep
<1>2. CASE step = "carry"
  <2>1. ASSUME UNCHANGED << step, row >>
        PROVE  Reserved' = Reserved
    <3>1. PICK i \in Nat : i = row
        BY DEF SlotsAndRows, TypeInvariant, TypeOK
    <3>2. i >= row /\ Continuing(row) = Continuing(i) /\ Continuing(row)' = Continuing(i)'
        BY <2>1, <3>1
    <3>3. Continuing(i)' = Continuing(i)
        BY <1>2, <3>2, ContinuingKept DEF OtherStep
    <3> QED BY <1>2, <2>1, <3>2, <3>3 DEF Reserved
  <2>2. ASSUME NEW i \in InfrRow, CarrySkip(i) \/ CompleteRequest(i)
        PROVE  Reserved' = Reserved
    <3>1. row = i /\ row' = i + 1 /\ step' = step /\ i \in Int
        BY <2>2, RowSubsets, ConstantsAssumption
        DEF CarrySkip, CompleteRequest, OldRow, NextRow, InfrRow
    <3>2. Continuing(i + 1) = Continuing(i)
        BY <2>2, ContinuingStep DEF CarrySkip, CompleteRequest
    <3>3. i + 1 \in Nat /\ i + 1 >= row
        BY <3>1 DEF SlotsAndRows, TypeInvariant, TypeOK
    <3>4. Continuing(i + 1)' = Continuing(i + 1)
        BY <1>2, <3>3, ContinuingKept DEF OtherStep
    <3>5. Continuing(row)' = Continuing(i + 1)'
        BY <3>1
    <3> QED BY <1>2, <3>1, <3>2, <3>4, <3>5 DEF Reserved
  <2>3. ASSUME NEW i \in InfrRow, CarryDecoding(i) \/ CarryPrompt(i)
        PROVE  FALSE
    <3>1. i \notin ActiveRow(new_bc) /\ i \in ActiveRow(new_bc')
        BY <2>3, NewRowStep
    <3> QED BY <3>1 DEF OtherStep
  <2>4. CASE CarryDone
    <3>1. row = inference_batch_size /\ step' = "admit"
        BY <2>4 DEF CarryDone
    <3>2. Continuing(row) = {}
        BY <3>1, RowSubsets, ConstantsAssumption DEF Continuing, InfrRow
    <3> QED BY <1>2, <3>1, <3>2, FS_EmptySet DEF Reserved
  <2>5. CASE \E finished \in BOOLEAN : set_inference_finished(finished)
      BY <2>1, <2>5 DEF set_inference_finished, batch
  <2>6. CASE UNCHANGED vars
      BY <2>1, <2>6 DEF vars, batch
  <2>7. /\ ~Inference /\ ~AdmitDone /\ ~TrainRow /\ ~TrainSkip /\ ~PopPeft
        /\ ~SchedulePeft /\ ~ScheduleNone
        /\ \A i \in InfrRow : ~AdmitSkip(i) /\ ~AdmitRequest(i)
        /\ \A prompt \in Prompts : ~register_new_request(prompt)
        /\ \A f \in Finetunings : ~register_new_peft_request(f)
      BY <1>2 DEF Inference, AdmitDone, TrainRow, TrainSkip, PopPeft, SchedulePeft,
                  ScheduleNone, AdmitSkip, AdmitRequest, register_new_request,
                  register_new_peft_request, LockFree
  <2> QED BY <2>2, <2>3, <2>4, <2>5, <2>6, <2>7 DEF Next, Server, PrepareNextBatch, Client
<1> QED BY <1>1, <1>2

\* After AppendTokens, an old row with more than one token left is the incomplete
\* prompt of the last batch.
LEMMA AppendTokensLong ==
    ASSUME SlotsAndRows, DepthsInvariant, AppendTokens
    PROVE  LongRows' \subseteq Incomplete(old_bc, all_requests)
<1> SUFFICES ASSUME NEW r \in LongRows'
             PROVE  r \in Incomplete(old_bc, all_requests)
    OBVIOUS
<1> DEFINE g      == GuidOf(old_bc, r)
           tokens == all_requests[g].tokens
           info   == old_bc.requestsInfo[r]
<1>1. InFlight /\ old_bc' = old_bc /\ TypeInvariant
    BY AppendTokensControl DEF SlotsAndRows
<1>2. r \in OldRows
    BY <1>1 DEF LongRows, OldRows
<1>3. r \in ActiveRow(old_bc) /\ r \in InfrRow /\ r \in Row
    BY <1>2 DEF OldRows, ActiveRow
<1>4. info \in PerRequestInfo /\ g \in Guid
    BY <1>1, <1>2, <1>3, GuidTypes DEF TypeInvariant, TypeOK, BatchConfig
<1>5. tokens \in Nat
    BY <1>1, <1>4 DEF TypeInvariant, TypeOK, Request
<1>6. EndDepth(old_bc, r) \in Int
    BY <1>4 DEF PerRequestInfo, EndDepth
<1>7. /\ EndDepth(old_bc, r) <= tokens
      /\ ~info.prompt_phase => EndDepth(old_bc, r) = tokens
    BY <1>1, <1>2 DEF DepthsInvariant, Depths
<1>8. EndDepth(old_bc, r) # tokens
  <2>1. SUFFICES ASSUME EndDepth(old_bc, r) = tokens
                 PROVE  FALSE
      OBVIOUS
  <2>2. all_requests'[g].tokens = tokens + 1
      BY <1>2, <2>1, RowTokens
  <2>3. Unprocessed(r)' = all_requests'[g].tokens - EndDepth(old_bc, r)
      BY <1>1 DEF Unprocessed, EndDepth, GuidOf
  <2>4. Unprocessed(r)' = 1
    <3> HIDE DEF tokens
    <3> QED BY <1>5, <2>1, <2>2, <2>3
  <2> QED BY <2>4 DEF LongRows
<1>9. EndDepth(old_bc, r) < tokens
  <2> HIDE DEF tokens
  <2> QED BY <1>5, <1>6, <1>7, <1>8
<1> QED BY <1>3, <1>7, <1>8, <1>9 DEF Incomplete

\* A row that is carried over keeps the incomplete prompts as they should be.
LEMMA CarryIncomplete ==
    ASSUME SlotsAndRows, IncompleteInvariant, NEW i \in InfrRow,
           CarryDecoding(i) \/ CarryPrompt(i)
    PROVE  LET new == Incomplete(new_bc', all_requests')
           IN  /\ \A r, s \in new : r = s
               /\ \A r, s \in LongRows' : r = s
               /\ LongRows' # {} => new = {}
               /\ new # {} => new_bc'.num_tokens + Reserved' = MaxTokens
<1> DEFINE new    == Incomplete(new_bc', all_requests')
           old    == Incomplete(new_bc, all_requests)
           info   == new_bc'.requestsInfo[i]
           n      == info.num_tokens_in_batch
           later  == Cardinality(Continuing(i + 1))
           tokens == all_requests[GuidOf(old_bc, i)].tokens
<1>1. /\ i \in Row /\ i \notin ActiveRow(new_bc)
      /\ UNCHANGED << old_bc, all_requests, step >>
      /\ ActiveRow(new_bc') = ActiveRow(new_bc) \cup {i}
      /\ \A q \in Row : q # i => new_bc'.requestsInfo[q] = new_bc.requestsInfo[q]
      /\ info \in PerRequestInfo /\ n > 0
      /\ new_bc'.num_tokens = new_bc.num_tokens + n
    BY NewRowStep
<1>2. /\ step = "carry" /\ OldRow(i) /\ row = i /\ row' = i + 1
      /\ ~check_inf_req_completion(old_bc, i)
      /\ i \in OldRows /\ OldRows' = OldRows \ {i}
      /\ GuidOf(new_bc', i) = GuidOf(old_bc, i)
      /\ info.first_token_depth_in_request = EndDepth(old_bc, i)
      /\ n <= Unprocessed(i)
      /\ n < Unprocessed(i) => new_bc'.num_tokens + later = MaxTokens
    BY CarriedRow
<1>3. /\ TypeInvariant /\ new_bc.num_tokens \in Nat /\ n \in Int /\ later \in Nat
      /\ Unprocessed(i) \in Int /\ EndDepth(old_bc, i) \in Nat /\ tokens \in Nat
      /\ MaxTokens \in Nat
  <2>1. TypeInvariant /\ new_bc.num_tokens \in Nat
      BY DEF SlotsAndRows, TypeInvariant, TypeOK, BatchConfig
  <2>2. /\ Unprocessed(i) \in Int /\ EndDepth(old_bc, i) \in Nat
        /\ all_requests[GuidOf(old_bc, i)] \in Request
      BY <1>2, <2>1, OldRowType
  <2>3. n \in Int /\ later \in Nat /\ tokens \in Nat /\ MaxTokens \in Nat
      BY <1>1, <2>2, ContinuingFinite, ConstantsAssumption DEF PerRequestInfo, Request
  <2> QED BY <2>1, <2>2, <2>3
<1>4. new \ {i} = old
  <2>1. i \notin old
      BY <1>1 DEF Incomplete
  <2>2. ASSUME NEW r \in ActiveRow(new_bc)
        PROVE  r \in new <=> r \in old
    <3>1. r \in Row /\ r # i
        BY <1>1, <2>2 DEF ActiveRow
    <3>2. r \in ActiveRow(new_bc) \cap ActiveRow(new_bc')
        BY <1>1, <2>2
    <3> QED BY <1>1, <3>1, <3>2, IncompleteKept
  <2>3. \A r : r \in old => r \in ActiveRow(new_bc)
      BY DEF Incomplete
  <2>4. \A r : r \in new => r \in ActiveRow(new_bc) \cup {i}
      BY <1>1 DEF Incomplete
  <2> HIDE DEF new, old
  <2> QED BY <2>1, <2>2, <2>3, <2>4
<1>5. Unprocessed(i) = tokens - EndDepth(old_bc, i)
    BY DEF Unprocessed, EndDepth, GuidOf
<1>6. i \in new => n < Unprocessed(i)
  <2>1. EndDepth(new_bc', i) = EndDepth(old_bc, i) + n
      BY <1>2 DEF EndDepth
  <2>2. i \in new => EndDepth(old_bc, i) + n < tokens
      BY <1>1, <1>2, <2>1 DEF Incomplete
  <2> HIDE DEF new, n, tokens
  <2> QED BY <1>3, <1>5, <2>2
<1>7. \A r \in LongRows' : r \in LongRows /\ r # i
  <2>1. \A r : Unprocessed(r)' = Unprocessed(r)
      BY <1>1 DEF Unprocessed
  <2> QED BY <1>2, <2>1 DEF LongRows
<1>8. Reserved' = later /\ Reserved = Cardinality(Continuing(i))
  <2>1. \A r : check_inf_req_completion(old_bc, r)' <=> check_inf_req_completion(old_bc, r)
      BY <1>1 DEF check_inf_req_completion
  <2>2. Continuing(row)' = Continuing(i + 1)
      BY <1>1, <1>2, <2>1 DEF Continuing
  <2> QED BY <1>1, <1>2, <2>2 DEF Reserved
<1>9. Cardinality(Continuing(i)) = later + 1
    BY <1>2, ContinuingStep
<1>10. /\ \A r, s \in old : r = s
       /\ \A r, s \in LongRows : r = s
       /\ LongRows # {} => old = {}
       /\ old # {} => new_bc.num_tokens + (later + 1) = MaxTokens
    BY <1>2, <1>8, <1>9 DEF IncompleteInvariant
<1> HIDE DEF new, old, n, later, tokens
<1>11. CASE i \in new
  <2>1. Unprocessed(i) # 1
      BY <1>1, <1>3, <1>6, <1>11
  <2>2. i \in LongRows
      BY <1>2, <2>1 DEF LongRows
  <2>3. old = {} /\ LongRows' = {}
      BY <1>7, <1>10, <2>2
  <2>4. new = {i}
      BY <1>4, <1>11, <2>3
  <2>5. new_bc'.num_tokens + Reserved' = MaxTokens
      BY <1>2, <1>6, <1>8, <1>11 DEF later, n
  <2> QED BY <2>3, <2>4, <2>5 DEF new
<1>12. CASE i \notin new
  <2>1. new = old
      BY <1>4, <1>12
  <2>2. LongRows' # {} => new = {}
      BY <1>7, <1>10, <2>1
  <2>3. ASSUME new # {}
        PROVE  new_bc'.num_tokens + Reserved' = MaxTokens
    <3>1. Unprocessed(i) = 1
        BY <1>2, <1>10, <2>1, <2>3 DEF LongRows
    <3>2. n = 1
        BY <1>1, <1>2, <1>3, <3>1 DEF n
    <3>3. new_bc.num_tokens + (later + 1) = MaxTokens
        BY <1>10, <2>1, <2>3
    <3>4. new_bc'.num_tokens = new_bc.num_tokens + 1
        BY <1>1, <3>2 DEF n
    <3> QED BY <1>3, <1>8, <3>3, <3>4
  <2> QED BY <1>7, <1>10, <2>1, <2>2, <2>3 DEF new
<1> QED BY <1>11, <1>12

\* The incomplete prompts of batches that do not change.
LEMMA OtherIncomplete ==
    ASSUME SlotsAndRows, [Next]_vars, ~AppendTokens, UNCHANGED << old_bc, new_bc >>
    PROVE  /\ InFlight => Incomplete(old_bc', all_requests') = Incomplete(old_bc, all_requests)
           /\ Incomplete(new_bc', all_requests') = Incomplete(new_bc, all_requests)
           /\ \A r \in OldRows : Unprocessed(r)' = Unprocessed(r)
<1>1. /\ \A r \in OldRows :
            all_requests'[GuidOf(old_bc, r)].tokens = all_requests[GuidOf(old_bc, r)].tokens
      /\ \A r \in NewRows :
            all_requests'[GuidOf(new_bc, r)].tokens = all_requests[GuidOf(new_bc, r)].tokens
    BY RowsTokens
<1>2. ASSUME InFlight
      PROVE  Incomplete(old_bc', all_requests') = Incomplete(old_bc, all_requests)
    BY <1>1, <1>2 DEF Incomplete, OldRows, EndDepth
<1>3. Incomplete(new_bc', all_requests') = Incomplete(new_bc, all_requests)
    BY <1>1 DEF Incomplete, NewRows, EndDepth
<1>4. \A r \in OldRows : Unprocessed(r)' = Unprocessed(r)
    BY <1>1 DEF Unprocessed, GuidOf
<1> QED BY <1>2, <1>3, <1>4

\* The steps keep the incomplete prompts as they should be.
LEMMA NextIncomplete ==
    ASSUME SlotsAndRows, DepthsInvariant, IncompleteInvariant, [Next]_vars
    PROVE  IncompleteInvariant'
<1> DEFINE old == Incomplete(old_bc', all_requests')
           new == Incomplete(new_bc', all_requests')
<1> SUFFICES /\ InFlight' => \A r, s \in old : r = s
             /\ \A r, s \in new : r = s
             /\ step' = "carry" =>
                  /\ \A r, s \in LongRows' : r = s
                  /\ LongRows' # {} => new = {}
             /\ new # {} => new_bc'.num_tokens + Reserved' = MaxTokens
    BY DEF IncompleteInvariant, Incomplete, EndDepth, GuidOf
<1>1. CASE AppendTokens
  <2>1. /\ step' = "carry" /\ new_bc' = EmptyBatch /\ InFlight /\ ~InFlight'
      BY <1>1, AppendTokensControl
  <2>2. new = {}
      BY <2>1 DEF Incomplete, ActiveRow, EmptyBatch
  <2>3. \A r, s \in Incomplete(old_bc, all_requests) : r = s
      BY <2>1 DEF IncompleteInvariant
  <2>4. LongRows' \subseteq Incomplete(old_bc, all_requests)
      BY <1>1, AppendTokensLong
  <2> HIDE DEF new
  <2> QED BY <2>1, <2>2, <2>3, <2>4
<1>2. ASSUME NEW i \in InfrRow, CarryDecoding(i) \/ CarryPrompt(i)
      PROVE  /\ ~InFlight'
             /\ \A r, s \in new : r = s
             /\ \A r, s \in LongRows' : r = s
             /\ LongRows' # {} => new = {}
             /\ new # {} => new_bc'.num_tokens + Reserved' = MaxTokens
  <2>1. ~InFlight'
      BY <1>2, CarriedRow, NewRowStep DEF InFlight
  <2> QED BY <1>2, <2>1, CarryIncomplete
<1>3. ASSUME NEW i \in InfrRow, AdmitRequest(i)
      PROVE  /\ ~InFlight' /\ step' # "carry"
             /\ \A r, s \in new : r = s
             /\ new # {} => new_bc'.num_tokens + Reserved' = MaxTokens
  <2> DEFINE info == new_bc'.requestsInfo[i]
             n    == info.num_tokens_in_batch
             g    == GuidOf(new_bc', i)
  <2>1. /\ UNCHANGED << all_requests, step >>
        /\ i \in Row /\ i \notin ActiveRow(new_bc)
        /\ ActiveRow(new_bc') = ActiveRow(new_bc) \cup {i}
        /\ \A q \in Row : q # i => new_bc'.requestsInfo[q] = new_bc.requestsInfo[q]
        /\ info \in PerRequestInfo
        /\ new_bc'.num_tokens = new_bc.num_tokens + n
      BY <1>3, NewRowStep
  <2>2. /\ step = "admit" /\ new_bc.num_tokens < MaxTokens
        /\ info.first_token_depth_in_request = 0
        /\ n < all_requests[g].tokens => new_bc'.num_tokens = MaxTokens
      BY <1>3, AdmittedRow
  <2>3. new_bc.num_tokens \in Nat /\ n \in Int /\ MaxTokens \in Nat
      BY <2>1, ConstantsAssumption
      DEF SlotsAndRows, TypeInvariant, TypeOK, BatchConfig, PerRequestInfo
  <2>4. Reserved' = 0 /\ Reserved = 0
      BY <2>1, <2>2 DEF Reserved
  <2>5. Incomplete(new_bc, all_requests) = {}
    <3>1. new_bc.num_tokens + 0 # MaxTokens
        BY <2>2, <2>3
    <3> QED BY <2>4, <3>1 DEF IncompleteInvariant
  <2>6. new \subseteq {i}
    <3>1. ASSUME NEW r \in new, r # i
          PROVE  FALSE
      <4>1. r \in ActiveRow(new_bc')
          BY <3>1 DEF Incomplete
      <4>2. r \in ActiveRow(new_bc) \cap ActiveRow(new_bc') /\ r \in Row
          BY <2>1, <3>1, <4>1 DEF ActiveRow
      <4>3. r \in Incomplete(new_bc, all_requests)
          BY <2>1, <3>1, <4>2, IncompleteKept
      <4> QED BY <2>5, <4>3
    <3> HIDE DEF new
    <3> QED BY <3>1
  <2>7. ASSUME i \in new
        PROVE  new_bc'.num_tokens = MaxTokens
    <3>1. EndDepth(new_bc', i) = n
        BY <2>2, <2>3 DEF EndDepth
    <3>2. EndDepth(new_bc', i) < all_requests[g].tokens
        BY <2>1, <2>7 DEF Incomplete
    <3> QED BY <2>2, <3>1, <3>2
  <2>8. new_bc'.num_tokens = MaxTokens => new_bc'.num_tokens + Reserved' = MaxTokens
      BY <2>3, <2>4
  <2>9. ~InFlight' /\ step' # "carry"
      BY <2>1, <2>2 DEF InFlight
  <2> HIDE DEF new
  <2> QED BY <2>6, <2>7, <2>8, <2>9
<1>4. CASE SchedulePeft \/ ScheduleNone
  <2>1. PICK bc \in BatchConfig :
           /\ Launch(bc)
           /\ ActiveRow(bc) \cap InfrRow = NewRows
           /\ \A r \in InfrRow : bc.requestsInfo[r] = new_bc.requestsInfo[r]
      BY <1>4, LaunchFacts DEF SlotsAndRows, RowsInvariant
  <2>2. old_bc' = bc /\ new_bc' = EmptyBatch /\ step' = "inference"
        /\ all_requests' = all_requests
      BY <2>1 DEF Launch, registry
  <2>3. new = {}
      BY <2>2 DEF Incomplete, ActiveRow, EmptyBatch
  <2>4. old = Incomplete(new_bc, all_requests)
      BY <2>1, <2>2 DEF Incomplete, NewRows, EndDepth, GuidOf
  <2> HIDE DEF new, old
  <2> QED BY <2>2, <2>3, <2>4 DEF IncompleteInvariant
<1>5. CASE (Inference \/ OtherStep) /\ ~AppendTokens
  <2>1. /\ UNCHANGED << old_bc, new_bc >> /\ OldRows' \subseteq OldRows
        /\ (InFlight' => InFlight) /\ (step' = "carry" => step = "carry")
      BY <1>5 DEF Inference, OtherStep, InFlight, OldRows
  <2>2. /\ InFlight => old = Incomplete(old_bc, all_requests)
        /\ new = Incomplete(new_bc, all_requests)
        /\ \A r \in OldRows : Unprocessed(r)' = Unprocessed(r)
      BY <1>5, <2>1, OtherIncomplete
  <2>3. LongRows' \subseteq LongRows
      BY <2>1, <2>2 DEF LongRows
  <2>4. Reserved' = Reserved
    <3>1. CASE Inference
        BY <3>1 DEF Inference, Reserved
    <3> QED BY <1>5, <3>1, ReservedKept
  <2> HIDE DEF new, old
  <2> QED BY <2>1, <2>2, <2>3, <2>4 DEF IncompleteInvariant
<1> HIDE DEF new, old
<1> QED BY <1>1, <1>2, <1>3, <1>4, <1>5, BatchSteps DEF CarryDecoding, CarryPrompt, OldRow

\* What the proofs below rest on, together.
BatchInvariant == SlotsAndRows /\ DepthsInvariant /\ IncompleteInvariant

\* It holds at the start,
LEMMA InitBatch == Init => BatchInvariant
<1> SUFFICES ASSUME Init PROVE BatchInvariant
    OBVIOUS
<1>1. /\ ActiveRow(EmptyBatch) = {} /\ old_bc = EmptyBatch /\ new_bc = EmptyBatch
      /\ step = "result"
    BY DEF ActiveRow, EmptyBatch, Init
<1>2. OldRows = {} /\ NewRows = {}
    BY <1>1 DEF OldRows, NewRows
<1>3. Incomplete(old_bc, all_requests) = {} /\ Incomplete(new_bc, all_requests) = {}
    BY <1>1 DEF Incomplete
<1>4. SlotsAndRows
    BY InitSlotsAndRows
<1> QED BY <1>1, <1>2, <1>3, <1>4
        DEF BatchInvariant, DepthsInvariant, Depths, IncompleteInvariant

\* and every step keeps it.
LEMMA NextBatch ==
    ASSUME NonEmptyPrompts, BatchInvariant, [Next]_vars
    PROVE  BatchInvariant'
BY NextSlotsAndRows, NextDepths, NextIncomplete DEF BatchInvariant

\* The batches stay as the invariant says.
THEOREM BatchInvariantHolds ==
    ASSUME NonEmptyPrompts
    PROVE  Spec => []BatchInvariant
<1>1. BatchInvariant /\ [Next]_vars => BatchInvariant'
    BY NextBatch
<1> QED BY <1>1, InitBatch, PTL DEF Spec

\* No batch given to the model has more than one incomplete prompt, which check_batch
\* asserts: the prompt that is cut takes all the slots that are not kept for the rows
\* that go on, so that neither another prompt nor a pending request gets one.
THEOREM AtMostOneIncompletePrompt ==
    ASSUME NonEmptyPrompts
    PROVE  Spec => []OneIncompletePrompt
<1>1. BatchInvariant => OneIncompletePrompt
  <2>1. IncompletePrompt(old_bc) = Incomplete(old_bc, all_requests)
      BY DEF IncompletePrompt, Incomplete
  <2> QED BY <2>1 DEF BatchInvariant, IncompleteInvariant, OneIncompletePrompt
<1> QED BY <1>1, BatchInvariantHolds, PTL

-----------------------------------------------------------------------------
(* The KV cache. *)

\* The cache holds the tokens of every row, up to the row's last one,
HoldsRows(bc, cache) ==
    \A r \in ActiveRow(bc) :
        cache[r] = [request_guid |-> GuidOf(bc, r), depth |-> EndDepth(bc, r)]

\* or those before the row's first one.
HoldsPrefixes(bc, cache) ==
    \A r \in ActiveRow(bc) :
        LET first == bc.requestsInfo[r].first_token_depth_in_request
        IN  first > 0 => cache[r] = [request_guid |-> GuidOf(bc, r), depth |-> first]

\* Until the model has run on the last batch the cache holds what precedes its rows,
\* then the rows themselves; what is carried to the next batch follows on from them.
CacheInvariant ==
    /\ step # "inference" => HoldsRows(old_bc, key_cache)
    /\ step = "inference" => HoldsPrefixes(old_bc, key_cache)
    /\ HoldsPrefixes(new_bc, key_cache)

processed(g) == all_requests[g].dataset_entry_processed_tokens

\* Only the oldest finetuning request can be in the middle of a dataset entry, and
\* when it is in no row its row of the cache holds what it has processed, so that a
\* batch without room for it loses nothing.
FinetuningCache ==
    /\ \A k, l \in DOMAIN peft_queue : peft_queue[k] = peft_queue[l] => k = l
    /\ \A k \in DOMAIN peft_queue : k # 1 => processed(peft_queue[k]) = 0
    /\ PeftEnabled /\ peft_queue # << >>
          /\ (step = "schedule" \/ PeftRow \notin ActiveRow(old_bc)) =>
         LET g == Head(peft_queue)
         IN  processed(g) > 0 =>
                 key_cache[PeftRow] = [request_guid |-> g, depth |-> processed(g)]

\* A model run turns what precedes the rows into the rows.
LEMMA InferenceCache ==
    ASSUME TypeInvariant, Within, Inference, HoldsPrefixes(old_bc, key_cache)
    PROVE  HoldsRows(old_bc, key_cache')
<1> SUFFICES ASSUME NEW r \in ActiveRow(old_bc)
             PROVE  key_cache'[r] = [request_guid |-> GuidOf(old_bc, r),
                                     depth |-> EndDepth(old_bc, r)]
    BY DEF HoldsRows
<1> DEFINE info  == old_bc.requestsInfo[r]
           first == info.first_token_depth_in_request
           n     == info.num_tokens_in_batch
<1>1. r \in Row /\ ~old_bc.request_completed[r]
    BY DEF ActiveRow
<1>2. key_cache'[r] = CacheAfter(key_cache[r], info)
    BY <1>1 DEF Inference
<1>3. info \in PerRequestInfo /\ n > 0
    BY <1>1 DEF TypeInvariant, TypeOK, BatchConfig, Within, BatchWithin
<1>4. first \in Nat /\ n \in Int
    BY <1>3 DEF PerRequestInfo
<1>5. Written(info) = n
    BY <1>3 DEF Written
<1>6. first > 0 => key_cache[r] = [request_guid |-> info.request_guid, depth |-> first]
    BY DEF HoldsPrefixes, GuidOf
<1>7. first > 0 => key_cache[r].request_guid = info.request_guid /\ first <= key_cache[r].depth
    BY <1>4, <1>6
<1>8. CacheAfter(key_cache[r], info) = [request_guid |-> info.request_guid,
                                        depth |-> first + n]
  <2>1. first = 0 \/ (key_cache[r].request_guid = info.request_guid
                        /\ first <= key_cache[r].depth)
      BY <1>4, <1>7
  <2> QED BY <1>5, <2>1 DEF CacheAfter
<1> QED BY <1>2, <1>8 DEF GuidOf, EndDepth

\* The steps keep the cache as it should be for the rows.
LEMMA NextCache ==
    ASSUME SlotsAndRows, CacheInvariant, FinetuningCache, [Next]_vars
    PROVE  CacheInvariant'
<1> SUFFICES /\ step' # "inference" => HoldsRows(old_bc', key_cache')
             /\ step' = "inference" => HoldsPrefixes(old_bc', key_cache')
             /\ HoldsPrefixes(new_bc', key_cache')
    BY DEF CacheInvariant, HoldsRows, HoldsPrefixes, EndDepth, GuidOf
<1>1. TypeInvariant /\ Within /\ UnderConstruction
    BY DEF SlotsAndRows, RowsInvariant
<1>2. HoldsPrefixes(EmptyBatch, key_cache)
  <2>1. ActiveRow(EmptyBatch) = {}
      BY DEF ActiveRow, EmptyBatch
  <2> QED BY <2>1 DEF HoldsPrefixes
<1>3. CASE AppendTokens
  <2>1. /\ step = "result" /\ step' = "carry" /\ new_bc' = EmptyBatch
        /\ UNCHANGED << old_bc, key_cache >>
      BY <1>3, AppendTokensControl
  <2> QED BY <1>2, <2>1 DEF CacheInvariant
<1>4. CASE Inference
  <2>1. step = "inference" /\ step' = "result" /\ UNCHANGED << old_bc, new_bc >>
      BY <1>4 DEF Inference
  <2>2. HoldsRows(old_bc', key_cache')
      BY <1>1, <1>4, <2>1, InferenceCache DEF CacheInvariant
  <2>3. ActiveRow(new_bc) = {}
      BY <1>1, <2>1 DEF UnderConstruction, InFlight
  <2> QED BY <2>1, <2>2, <2>3 DEF HoldsPrefixes
<1>5. ASSUME NEW i \in InfrRow, CarryDecoding(i) \/ CarryPrompt(i) \/ AdmitRequest(i)
      PROVE  /\ UNCHANGED << step, old_bc, key_cache >> /\ step # "inference"
             /\ HoldsPrefixes(new_bc', key_cache')
  <2> DEFINE first == new_bc'.requestsInfo[i].first_token_depth_in_request
  <2>1. /\ UNCHANGED << step, old_bc, key_cache >> /\ i \notin ActiveRow(new_bc)
        /\ ActiveRow(new_bc') = ActiveRow(new_bc) \cup {i}
        /\ \A q \in Row : q # i => new_bc'.requestsInfo[q] = new_bc.requestsInfo[q]
        /\ i \in Row
      BY <1>5, NewRowStep
  <2>2. /\ step # "inference"
        /\ first > 0 => key_cache[i] = [request_guid |-> GuidOf(new_bc', i), depth |-> first]
    <3>1. CASE AdmitRequest(i)
      <4>1. first = 0 /\ step = "admit"
          BY <3>1, AdmittedRow
      <4> QED BY <4>1
    <3>2. CASE CarryDecoding(i) \/ CarryPrompt(i)
      <4>1. /\ step = "carry" /\ i \in OldRows
            /\ GuidOf(new_bc', i) = GuidOf(old_bc, i)
            /\ first = EndDepth(old_bc, i)
          BY <3>2, CarriedRow
      <4>2. i \in ActiveRow(old_bc)
          BY <4>1 DEF OldRows
      <4> QED BY <4>1, <4>2 DEF CacheInvariant, HoldsRows
    <3> QED BY <1>5, <3>1, <3>2
  <2>3. ASSUME NEW r \in ActiveRow(new_bc)
        PROVE  new_bc'.requestsInfo[r] = new_bc.requestsInfo[r]
      BY <2>1 DEF ActiveRow
  <2> HIDE DEF first
  <2>4. HoldsPrefixes(new_bc, key_cache)
      BY DEF CacheInvariant
  <2> QED BY <2>1, <2>2, <2>3, <2>4 DEF HoldsPrefixes, GuidOf, first
<1>6. CASE SchedulePeft \/ ScheduleNone
  <2>1. PICK bc \in BatchConfig :
           /\ Launch(bc)
           /\ ActiveRow(bc) \cap InfrRow = NewRows
           /\ \A r \in InfrRow : bc.requestsInfo[r] = new_bc.requestsInfo[r]
           /\ PeftEnabled /\ PeftRow \in ActiveRow(bc) =>
                LET info == bc.requestsInfo[PeftRow]
                    g    == Head(peft_queue)
                IN  /\ peft_queue # << >> /\ info.request_guid = g
                    /\ info.first_token_depth_in_request = processed(g)
      BY <1>1, <1>6, LaunchFacts DEF processed
  <2>2. /\ old_bc' = bc /\ new_bc' = EmptyBatch /\ step' = "inference"
        /\ key_cache' = key_cache
      BY <2>1 DEF Launch
  <2>3. step = "schedule"
      BY <1>1, <1>6, LaunchFacts
  <2>4. ASSUME NEW r \in ActiveRow(bc),
               bc.requestsInfo[r].first_token_depth_in_request > 0
        PROVE  key_cache[r] = [request_guid |-> GuidOf(bc, r),
                               depth |-> bc.requestsInfo[r].first_token_depth_in_request]
    <3>1. CASE r \in InfrRow
      <4>1. r \in ActiveRow(new_bc) /\ bc.requestsInfo[r] = new_bc.requestsInfo[r]
          BY <2>1, <3>1 DEF NewRows
      <4> QED BY <2>4, <4>1 DEF CacheInvariant, HoldsPrefixes, GuidOf
    <3>2. CASE r \notin InfrRow
      <4>1. PeftEnabled /\ r = PeftRow
          BY <3>2, OtherRow DEF ActiveRow
      <4> DEFINE g == Head(peft_queue)
      <4>2. /\ peft_queue # << >> /\ bc.requestsInfo[r].request_guid = g
            /\ bc.requestsInfo[r].first_token_depth_in_request = processed(g)
          BY <2>1, <4>1
      <4>3. key_cache[PeftRow] = [request_guid |-> g, depth |-> processed(g)]
          BY <2>3, <2>4, <4>1, <4>2 DEF FinetuningCache
      <4> QED BY <4>1, <4>2, <4>3 DEF GuidOf
    <3> QED BY <3>1, <3>2
  <2> QED BY <1>2, <2>2, <2>4 DEF HoldsPrefixes
<1>7. CASE OtherStep
    BY <1>7 DEF OtherStep, CacheInvariant
<1> QED BY <1>3, <1>4, <1>5, <1>6, <1>7, BatchSteps DEF CacheInvariant

\* Only training changes how much of its dataset entry a finetuning request has
\* processed.
LEMMA NextProcessed ==
    ASSUME TypeInvariant, UnusedGuids, [Next]_vars, ~TrainRow,
           NEW g \in Guid, IsFinetuning(g)
    PROVE  all_requests'[g].dataset_entry_processed_tokens = processed(g)
<1>1. CASE UNCHANGED all_requests
    BY <1>1 DEF processed
<1>2. g # next_available_guid
  <2>1. g = next_available_guid => all_requests[g].req_type = "NONE"
      BY GuidTypes DEF UnusedGuids
  <2> QED BY <2>1 DEF IsFinetuning
<1>3. ASSUME NEW prompt \in Prompts, register_new_request(prompt)
      PROVE  all_requests'[g] = all_requests[g]
    BY <1>2, <1>3, RegisterFacts
<1>4. ASSUME NEW f \in Finetunings, register_new_peft_request(f)
      PROVE  all_requests'[g] = all_requests[g]
    BY <1>2, <1>4, RegisterPeftFacts
<1>5. ASSUME NEW i \in InfrRow, CompleteRequest(i)
      PROVE  all_requests'[g] = all_requests[g]
  <2> DEFINE h == GuidOf(old_bc, i)
  <2>1. h \in Guid /\ IsInference(h)
      BY <1>5, OldRowType DEF CompleteRequest, OldRow, GuidOf
  <2>2. all_requests' = [all_requests EXCEPT ![h].status = "COMPLETED"]
      BY <1>5 DEF CompleteRequest, GuidOf
  <2>3. g # h
      BY <2>1 DEF IsFinetuning, IsInference
  <2> HIDE DEF h
  <2> QED BY <2>2, <2>3 DEF TypeInvariant, TypeOK
<1>6. CASE AppendTokens
  <2>1. ~IsInference(g)
      BY DEF IsInference, IsFinetuning
  <2> QED BY <1>6, <2>1, AppendTokensOther DEF processed
<1>7. CASE Inference \/ CarryDone \/ AdmitDone \/ TrainSkip \/ PopPeft \/ SchedulePeft
             \/ ScheduleNone
    BY <1>1, <1>7 DEF Inference, CarryDone, AdmitDone, TrainSkip, PopPeft, SchedulePeft,
                      ScheduleNone, Launch, registry
<1>8. CASE \E i \in InfrRow : \/ CarrySkip(i) \/ CarryDecoding(i) \/ CarryPrompt(i)
                              \/ AdmitSkip(i) \/ AdmitRequest(i)
    BY <1>1, <1>8 DEF CarrySkip, CarryDecoding, CarryPrompt, AdmitSkip, AdmitRequest,
                      registry
<1>9. CASE \E finished \in BOOLEAN : set_inference_finished(finished)
    BY <1>1, <1>9 DEF set_inference_finished, registry
<1>10. CASE UNCHANGED vars
    BY <1>1, <1>10 DEF vars, registry
<1> QED BY <1>3, <1>4, <1>5, <1>6, <1>7, <1>8, <1>9, <1>10
        DEF Next, Server, PrepareNextBatch, Client, processed

\* The finetuning queue holds finetuning requests.
LEMMA PeftQueueKind ==
    ASSUME TypeInvariant, NEW k \in DOMAIN peft_queue
    PROVE  /\ peft_queue[k] \in Guid /\ IsFinetuning(peft_queue[k])
           /\ peft_queue[k] < next_available_guid
           /\ peft_queue # << >> /\ 1 \in DOMAIN peft_queue
           /\ Head(peft_queue) = peft_queue[1]
<1>1. peft_queue \in Seq(Guid) /\ peft_queue # << >>
    BY GuidTypes
<1>2. 1 \in DOMAIN peft_queue /\ Head(peft_queue) = peft_queue[1]
    BY <1>1, TailFacts
<1>3. IsFinetuning(peft_queue[k])
    BY DEF TypeInvariant, QueuesWellFormed, peft_queue
<1> QED BY <1>1, <1>2, <1>3, GuidTypes

\* A step that changes neither the queue nor what is processed, and gives up the
\* finetuning row only when its cache holds what is processed.
LEMMA FinetuningCacheKept ==
    ASSUME TypeInvariant, UnusedGuids, FinetuningCache, [Next]_vars, ~TrainRow,
           peft_queue' = peft_queue,
           step' = "schedule" \/ PeftRow \notin ActiveRow(old_bc') =>
               /\ step = "schedule" \/ PeftRow \notin ActiveRow(old_bc)
               /\ PeftEnabled => key_cache'[PeftRow] = key_cache[PeftRow]
    PROVE  FinetuningCache'
<1>1. ASSUME NEW k \in DOMAIN peft_queue
      PROVE  all_requests'[peft_queue[k]].dataset_entry_processed_tokens
               = processed(peft_queue[k])
    BY PeftQueueKind, NextProcessed
<1>2. peft_queue # << >> => 1 \in DOMAIN peft_queue /\ Head(peft_queue) = peft_queue[1]
    BY GuidTypes, TailFacts
<1>3. ASSUME NEW k \in DOMAIN peft_queue', k # 1
      PROVE  all_requests'[peft_queue'[k]].dataset_entry_processed_tokens = 0
    BY <1>1, <1>3 DEF FinetuningCache
<1>4. ASSUME PeftEnabled, peft_queue # << >>,
             step' = "schedule" \/ PeftRow \notin ActiveRow(old_bc'),
             all_requests'[Head(peft_queue)].dataset_entry_processed_tokens > 0
      PROVE  key_cache'[PeftRow]
               = [request_guid |-> Head(peft_queue),
                  depth |-> all_requests'[Head(peft_queue)].dataset_entry_processed_tokens]
    BY <1>1, <1>2, <1>4 DEF FinetuningCache
<1> QED BY <1>3, <1>4 DEF FinetuningCache, processed, ActiveRow

\* A finetuning request is put at the end of the queue with nothing processed.
LEMMA RegisterPeftCache ==
    ASSUME TypeInvariant, UnusedGuids, FinetuningCache, [Next]_vars, ~TrainRow,
           NEW f \in Finetunings, register_new_peft_request(f)
    PROVE  FinetuningCache'
<1>1. PICK g \in Guid : g = next_available_guid
    BY RegisterPeftFacts
<1>2. /\ UNCHANGED batch
      /\ \/ UNCHANGED peft_queue
         \/ /\ peft_queue' = Append(peft_queue, g)
            /\ all_requests'[g] = [NoRequest EXCEPT !.req_type = "REQ_FINETUNING",
                                                    !.finetuning = f]
    BY <1>1, RegisterPeftFacts
<1>3. UNCHANGED << step, old_bc, key_cache >>
    BY <1>2 DEF batch
<1>4. CASE UNCHANGED peft_queue
    BY <1>3, <1>4, FinetuningCacheKept
<1>5. CASE /\ peft_queue' = Append(peft_queue, g)
           /\ all_requests'[g] = [NoRequest EXCEPT !.req_type = "REQ_FINETUNING",
                                                   !.finetuning = f]
  <2> DEFINE last == Len(peft_queue) + 1
  <2>1. peft_queue \in Seq(Guid)
      BY GuidTypes
  <2>2. /\ DOMAIN peft_queue' = DOMAIN peft_queue \cup {last}
        /\ last \notin DOMAIN peft_queue
        /\ \A k \in DOMAIN peft_queue : peft_queue'[k] = peft_queue[k]
        /\ peft_queue'[last] = g
      BY <1>5, <2>1, AppendFacts
  <2>3. all_requests'[g].dataset_entry_processed_tokens = 0
      BY <1>5 DEF NoRequest
  <2>4. ASSUME NEW k \in DOMAIN peft_queue
        PROVE  /\ peft_queue[k] # g
               /\ all_requests'[peft_queue[k]].dataset_entry_processed_tokens
                    = processed(peft_queue[k])
    <3>1. peft_queue[k] \in Guid /\ IsFinetuning(peft_queue[k]) /\ peft_queue[k] < g
        BY <1>1, PeftQueueKind
    <3>2. ~(g < g)
        BY DEF Guid
    <3> QED BY <3>1, <3>2, NextProcessed
  <2>5. CASE peft_queue = << >>
    <3>1. last = 1 /\ Head(peft_queue') = g
        BY <1>5, <2>1, <2>5, TailFacts
    <3>2. DOMAIN peft_queue = {}
        BY <2>5
    <3> HIDE DEF last
    <3>3. \A k \in DOMAIN peft_queue' : k = 1
        BY <2>2, <3>1, <3>2
    <3> QED BY <2>3, <3>1, <3>3 DEF FinetuningCache, processed
  <2>6. CASE peft_queue # << >>
    <3>1. Head(peft_queue') = Head(peft_queue) /\ 1 \in DOMAIN peft_queue
          /\ Head(peft_queue) = peft_queue[1]
      <4>1. 1 \in DOMAIN peft_queue /\ Head(peft_queue) = peft_queue[1]
          BY <2>1, <2>6, TailFacts
      <4>2. Head(peft_queue') = peft_queue'[1]
          BY <1>5, <2>1
      <4> QED BY <2>2, <4>1, <4>2
    <3>2. all_requests'[Head(peft_queue)].dataset_entry_processed_tokens
            = processed(Head(peft_queue))
        BY <2>4, <3>1
    <3> HIDE DEF last
    <3>3. \A k, l \in DOMAIN peft_queue' : peft_queue'[k] = peft_queue'[l] => k = l
        BY <2>2, <2>4 DEF FinetuningCache
    <3>4. ASSUME NEW k \in DOMAIN peft_queue', k # 1
          PROVE  all_requests'[peft_queue'[k]].dataset_entry_processed_tokens = 0
      <4>1. CASE k = last
          BY <2>2, <2>3, <4>1
      <4>2. CASE k \in DOMAIN peft_queue
          BY <2>2, <2>4, <3>4, <4>2 DEF FinetuningCache
      <4> QED BY <2>2, <4>1, <4>2
    <3> QED BY <1>3, <2>6, <3>1, <3>2, <3>3, <3>4 DEF FinetuningCache, processed
  <2> QED BY <2>5, <2>6
<1> QED BY <1>2, <1>4, <1>5

\* Dropping the head leaves a head with nothing processed.
LEMMA PopPeftCache ==
    ASSUME TypeInvariant, FinetuningCache, PopPeft
    PROVE  FinetuningCache'
<1>1. /\ peft_queue # << >> /\ peft_queue' = Tail(peft_queue)
      /\ UNCHANGED << all_requests, key_cache >>
    BY DEF PopPeft, peft_queue, batch
<1>2. peft_queue \in Seq(Guid)
    BY GuidTypes
<1>3. /\ \A k \in DOMAIN Tail(peft_queue) :
            k + 1 \in DOMAIN peft_queue /\ Tail(peft_queue)[k] = peft_queue[k + 1]
      /\ \A k \in DOMAIN Tail(peft_queue) : k \in Nat \ {0}
    BY <1>1, <1>2, TailFacts
<1>4. ASSUME NEW k \in DOMAIN peft_queue'
      PROVE  /\ k + 1 # 1 /\ k + 1 \in DOMAIN peft_queue
             /\ peft_queue'[k] = peft_queue[k + 1]
             /\ processed(peft_queue[k + 1]) = 0
  <2>1. k + 1 # 1 /\ k + 1 \in DOMAIN peft_queue /\ peft_queue'[k] = peft_queue[k + 1]
      BY <1>1, <1>3
  <2> QED BY <2>1 DEF FinetuningCache
<1>5. \A k, l \in DOMAIN peft_queue' : peft_queue'[k] = peft_queue'[l] => k = l
  <2>1. \A k, l \in DOMAIN peft_queue' : k + 1 = l + 1 => k = l
      BY <1>1, <1>3
  <2> QED BY <1>4, <2>1 DEF FinetuningCache
<1>6. peft_queue' # << >> =>
          all_requests'[Head(peft_queue')].dataset_entry_processed_tokens = 0
  <2>1. peft_queue' # << >> =>
            1 \in DOMAIN peft_queue' /\ Head(peft_queue') = peft_queue'[1]
    <3>1. peft_queue' \in Seq(Guid)
        BY <1>1, <1>2, TailWellFormed
    <3> QED BY <3>1, TailFacts
  <2> QED BY <1>1, <1>4, <2>1 DEF processed
<1>7. \A k \in DOMAIN peft_queue' :
          all_requests'[peft_queue'[k]].dataset_entry_processed_tokens = 0
    BY <1>1, <1>4 DEF processed
<1> QED BY <1>5, <1>6, <1>7 DEF FinetuningCache, processed

\* What training leaves of a dataset entry: nothing at its end, else what the row and
\* those before it have processed.
LEMMA TrainedProcessed ==
    ASSUME NEW r \in Request, NEW info \in PerRequestInfo
    PROVE  LET n == r.dataset_entry_processed_tokens + info.num_tokens_in_batch
           IN  /\ Trained(r, info).dataset_entry_processed_tokens \in {0, n}
               /\ [Trained(r, info) EXCEPT !.status = "COMPLETED"]
                      .dataset_entry_processed_tokens \in {0, n}
<1> DEFINE n        == r.dataset_entry_processed_tokens + info.num_tokens_in_batch
           finished == info.first_token_depth_in_request + info.num_tokens_in_batch
                         = EntrySize(r)
           steps    == IF finished THEN r.completed_training_steps + 1
                       ELSE r.completed_training_steps
           left     == IF finished THEN 0 ELSE n
           losses   == r.finetuning_losses + 1
<1>1. Trained(r, info) = [r EXCEPT !.finetuning_losses = losses,
                                   !.completed_training_steps = steps,
                                   !.dataset_entry_processed_tokens = left]
    BY DEF Trained
<1>2. left \in {0, n}
    OBVIOUS
<1> HIDE DEF left, steps, losses
<1>3. Trained(r, info).dataset_entry_processed_tokens = left
    BY <1>1 DEF Request
<1>4. [Trained(r, info) EXCEPT !.status = "COMPLETED"].dataset_entry_processed_tokens = left
    BY <1>1 DEF Request
<1> QED BY <1>2, <1>3, <1>4

\* Training goes on in the row's cache.
LEMMA TrainRowCache ==
    ASSUME SlotsAndRows, CacheInvariant, FinetuningCache, TrainRow
    PROVE  FinetuningCache'
<1>1. PICK g \in Guid : g = GuidOf(old_bc, PeftRow)
    BY TrainFacts DEF SlotsAndRows
<1> DEFINE info == old_bc.requestsInfo[PeftRow]
           r    == all_requests[g]
<1>2. /\ PeftEnabled /\ PeftRow \in ActiveRow(old_bc)
      /\ info \in PerRequestInfo /\ r \in Request
      /\ \A h \in Guid : h # g => all_requests'[h] = all_requests[h]
      /\ \/ all_requests'[g] = [Trained(r, info) EXCEPT !.status = "COMPLETED"]
         \/ all_requests'[g] = Trained(r, info)
      /\ step = "peft"
      /\ UNCHANGED << pending_peft_request_queue, old_bc, key_cache >>
    BY <1>1, TrainFacts DEF SlotsAndRows
<1>3. /\ peft_queue # << >> /\ g = Head(peft_queue)
      /\ info.first_token_depth_in_request = processed(g)
    BY <1>1, <1>2 DEF SlotsAndRows, RowsInvariant, FinetuningRow, processed
<1>4. key_cache[PeftRow] = [request_guid |-> g, depth |-> EndDepth(old_bc, PeftRow)]
    BY <1>1, <1>2 DEF CacheInvariant, HoldsRows
<1>5. all_requests'[g].dataset_entry_processed_tokens
        \in {0, processed(g) + info.num_tokens_in_batch}
    BY <1>2, TrainedProcessed DEF processed
<1>6. EndDepth(old_bc, PeftRow) = processed(g) + info.num_tokens_in_batch
    BY <1>3 DEF EndDepth
<1>7. 1 \in DOMAIN peft_queue /\ g = peft_queue[1]
    BY <1>3, GuidTypes, TailFacts DEF SlotsAndRows
<1>8. ASSUME NEW k \in DOMAIN peft_queue, k # 1
      PROVE  all_requests'[peft_queue[k]].dataset_entry_processed_tokens = 0
  <2>1. peft_queue[k] \in Guid /\ peft_queue[k] # g
      BY <1>7, <1>8, GuidTypes DEF SlotsAndRows, FinetuningCache
  <2> QED BY <1>2, <1>8, <2>1 DEF FinetuningCache, processed
<1>9. peft_queue' = peft_queue
    BY <1>2 DEF peft_queue
<1>10. all_requests'[g].dataset_entry_processed_tokens > 0 =>
           key_cache'[PeftRow]
             = [request_guid |-> g,
                depth |-> all_requests'[g].dataset_entry_processed_tokens]
  <2>1. ~(0 > 0)
      OBVIOUS
  <2> QED BY <1>2, <1>4, <1>5, <1>6, <2>1
<1>11. Head(peft_queue') = g
    BY <1>3, <1>9
<1> HIDE DEF info, r
<1> QED BY <1>8, <1>9, <1>10, <1>11 DEF FinetuningCache, processed

\* The steps keep the cache of the finetuning row.
LEMMA NextFinetuningCache ==
    ASSUME SlotsAndRows, CacheInvariant, FinetuningCache, [Next]_vars
    PROVE  FinetuningCache'
<1>1. TypeInvariant /\ UnusedGuids
    BY DEF SlotsAndRows, RowsInvariant
<1>2. CASE TrainRow
    BY <1>2, TrainRowCache
<1>3. CASE PopPeft
    BY <1>1, <1>3, PopPeftCache
<1> SUFFICES ASSUME ~TrainRow, ~PopPeft
             PROVE  FinetuningCache'
    BY <1>2, <1>3
<1>4. ASSUME NEW f \in Finetunings, register_new_peft_request(f)
      PROVE  FinetuningCache'
    BY <1>1, <1>4, RegisterPeftCache
<1>5. ASSUME UNCHANGED << peft_queue, old_bc, key_cache >>,
             step' = "schedule" => step = "schedule"
      PROVE  FinetuningCache'
    BY <1>1, <1>5, FinetuningCacheKept
<1>6. CASE AppendTokens
    BY <1>5, <1>6, AppendTokensControl
<1>7. CASE Inference
  <2>1. step' = "result" /\ UNCHANGED << peft_queue, old_bc >>
      BY <1>7 DEF Inference, registry, peft_queue
  <2>2. ASSUME PeftEnabled, PeftRow \notin ActiveRow(old_bc)
        PROVE  key_cache'[PeftRow] = key_cache[PeftRow]
    <3>1. PeftRow \in Row /\ old_bc.request_completed[PeftRow]
        BY <2>2, RowSubsets DEF ActiveRow
    <3> QED BY <1>7, <3>1 DEF Inference
  <2> QED BY <1>1, <2>1, <2>2, FinetuningCacheKept
<1>8. ASSUME NEW i \in InfrRow,
             CarryDecoding(i) \/ CarryPrompt(i) \/ AdmitRequest(i)
      PROVE  FinetuningCache'
  <2>1. UNCHANGED << peft_queue, old_bc, key_cache, step >>
      BY <1>8, NewRowStep
  <2> QED BY <1>5, <2>1
<1>9. ASSUME NEW i \in InfrRow, CarrySkip(i) \/ CompleteRequest(i) \/ AdmitSkip(i)
      PROVE  FinetuningCache'
    BY <1>5, <1>9 DEF CarrySkip, CompleteRequest, AdmitSkip, registry, peft_queue
<1>10. CASE SchedulePeft \/ ScheduleNone
  <2>1. /\ step = "schedule" /\ step' = "inference"
        /\ UNCHANGED << peft_queue, key_cache >>
      BY <1>10 DEF SchedulePeft, ScheduleNone, Launch, registry, peft_queue
  <2> QED BY <1>1, <2>1, FinetuningCacheKept
<1>11. CASE CarryDone \/ AdmitDone
    BY <1>5, <1>11 DEF CarryDone, AdmitDone, registry, peft_queue
<1>12. CASE TrainSkip
  <2>1. PeftRow \notin ActiveRow(old_bc)
    <3>1. ~PeftEnabled => PeftRow \notin Row
        BY ConstantsAssumption DEF PeftRow, Row, inference_batch_size
    <3> QED BY <1>12, <3>1 DEF TrainSkip, ActiveRow
  <2>2. UNCHANGED << peft_queue, old_bc, key_cache >>
      BY <1>12 DEF TrainSkip, registry, peft_queue
  <2> QED BY <1>1, <2>1, <2>2, FinetuningCacheKept
<1>13. ASSUME UNCHANGED << peft_queue, batch >>
       PROVE  FinetuningCache'
    BY <1>5, <1>13 DEF batch
<1>14. ASSUME NEW prompt \in Prompts, register_new_request(prompt)
       PROVE  FinetuningCache'
    BY <1>1, <1>13, <1>14, RegisterFacts
<1>15. CASE \E finished \in BOOLEAN : set_inference_finished(finished)
    BY <1>13, <1>15 DEF set_inference_finished, registry, peft_queue
<1>16. CASE UNCHANGED vars
    BY <1>13, <1>16 DEF vars, registry, peft_queue
<1> QED BY <1>4, <1>6, <1>7, <1>8, <1>9, <1>10, <1>11, <1>12, <1>14, <1>15, <1>16
        DEF Next, Server, PrepareNextBatch, Client

\* The cache invariant, with what it rests on.
ServingInvariant == BatchInvariant /\ CacheInvariant /\ FinetuningCache

\* It holds at the start,
LEMMA InitServing == Init => ServingInvariant
<1> SUFFICES ASSUME Init PROVE ServingInvariant
    OBVIOUS
<1>1. /\ ActiveRow(EmptyBatch) = {} /\ old_bc = EmptyBatch /\ new_bc = EmptyBatch
      /\ peft_queue = << >>
    BY DEF ActiveRow, EmptyBatch, Init, peft_queue
<1>2. CacheInvariant
    BY <1>1 DEF CacheInvariant, HoldsRows, HoldsPrefixes
<1>3. FinetuningCache
    BY <1>1 DEF FinetuningCache
<1> QED BY <1>2, <1>3, InitBatch DEF ServingInvariant

\* and every step keeps it.
LEMMA NextServing ==
    ASSUME NonEmptyPrompts, ServingInvariant, [Next]_vars
    PROVE  ServingInvariant'
BY NextBatch, NextCache, NextFinetuningCache DEF ServingInvariant, BatchInvariant

\* The invariant of the batches and of the cache.
THEOREM ServingInvariantHolds ==
    ASSUME NonEmptyPrompts
    PROVE  Spec => []ServingInvariant
<1>1. ServingInvariant /\ [Next]_vars => ServingInvariant'
    BY NextServing
<1> QED BY <1>1, InitServing, PTL DEF Spec

\* When the model runs on a batch, the cache of every row that does not start at its
\* request's first token holds exactly the tokens before it, of this request: whatever
\* rows were reused and however prompts and dataset entries were cut.
THEOREM KvCacheAlwaysPrefix ==
    ASSUME NonEmptyPrompts
    PROVE  Spec => []KvCachePrefix
<1>1. ServingInvariant => KvCachePrefix
  <2> SUFFICES ASSUME ServingInvariant, step = "inference", NEW r \in ActiveRow(old_bc),
                      old_bc.requestsInfo[r].first_token_depth_in_request > 0
               PROVE  /\ key_cache[r].request_guid = GuidOf(old_bc, r)
                      /\ key_cache[r].depth
                           = old_bc.requestsInfo[r].first_token_depth_in_request
      BY DEF KvCachePrefix
  <2>1. key_cache[r] = [request_guid |-> GuidOf(old_bc, r),
                        depth |-> old_bc.requestsInfo[r].first_token_depth_in_request]
      BY DEF ServingInvariant, CacheInvariant, HoldsPrefixes
  <2> QED BY <2>1
<1> QED BY <1>1, ServingInvariantHolds, PTL

\* A step that appends a token to a request finds all the request's tokens in the
\* cache of one of its rows.
LEMMA AppendedFromCache ==
    ASSUME ServingInvariant, [Next]_vars, NEW g \in Guid, IsInference(g),
           all_requests'[g].tokens > all_requests[g].tokens
    PROVE  \E r \in InfrRow : key_cache[r] = [request_guid |-> g,
                                              depth |-> all_requests[g].tokens]
<1>1. SlotsAndRows /\ TypeInvariant /\ UnusedGuids
    BY DEF ServingInvariant, BatchInvariant, SlotsAndRows, RowsInvariant
<1>2. all_requests[g].tokens \in Nat
    BY <1>1 DEF TypeInvariant, TypeOK, Request
<1>3. AppendTokens
    BY <1>1, <1>2, NextTokens
<1>4. step = "result" /\ InFlight
    BY <1>3, AppendTokensControl
<1>5. PICK s \in Slot :
          /\ Yields(old_bc, s)
          /\ g = GuidOf(old_bc, old_bc.tokensInfo[s].request_index)
    BY <1>2, <1>3, AppendTokensOther
<1> DEFINE r == old_bc.tokensInfo[s].request_index
<1>6. r \in OldRows /\ EndDepth(old_bc, r) >= all_requests[g].tokens
    BY <1>1, <1>4, <1>5, YieldingSlot
<1>7. EndDepth(old_bc, r) <= all_requests[g].tokens
    BY <1>4, <1>5, <1>6 DEF ServingInvariant, BatchInvariant, DepthsInvariant, Depths
<1>8. r \in InfrRow /\ r \in ActiveRow(old_bc)
    BY <1>6 DEF OldRows
<1>9. EndDepth(old_bc, r) = all_requests[g].tokens
  <2>1. old_bc.requestsInfo[r] \in PerRequestInfo
      BY <1>1, <1>8, RowSubsets DEF TypeInvariant, TypeOK, BatchConfig
  <2>2. EndDepth(old_bc, r) \in Int
      BY <2>1 DEF PerRequestInfo, EndDepth
  <2> HIDE DEF r
  <2> QED BY <1>2, <1>6, <1>7, <2>2
<1>10. key_cache[r] = [request_guid |-> GuidOf(old_bc, r), depth |-> EndDepth(old_bc, r)]
    BY <1>4, <1>8 DEF ServingInvariant, CacheInvariant, HoldsRows
<1> QED BY <1>5, <1>8, <1>9, <1>10

\* Every generated token is computed from the whole prefix of its request, whatever
\* chunks, rows and batches it went through.
THEOREM AlwaysGeneratedFromWholePrefix ==
    ASSUME NonEmptyPrompts
    PROVE  Spec => GeneratedFromWholePrefix
<1>1. ServingInvariant /\ [Next]_vars =>
        [\A g \in Guid :
           IsInference(g) /\ all_requests'[g].tokens > all_requests[g].tokens =>
             \E r \in InfrRow : key_cache[r] = [request_guid |-> g,
                                                depth |-> all_requests[g].tokens]]_vars
    BY AppendedFromCache
<1> QED BY <1>1, ServingInvariantHolds, PTL DEF Spec, GeneratedFromWholePrefix
=============================================================================
