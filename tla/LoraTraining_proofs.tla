------------------------- MODULE LoraTraining_proofs -------------------------
(***************************************************************************)
(* Proofs about LoraTraining: the training beside the request manager      *)
(* takes the manager's own steps only, its buffers keep their types, when  *)
(* the layer is fused with the softmax every backward pass uses the        *)
(* activations of its own forward pass, and as long as no finetuning row   *)
(* is cut short every update is made with the gradients of its own group   *)
(* of dataset entries.  No row is cut short if every entry fits in a batch *)
(* beside the longest prompts.                                             *)
(***************************************************************************)
EXTENDS LoraTraining, RequestBatch_proofs

-----------------------------------------------------------------------------
(* The composition takes steps of the request manager. *)

\* Every step of the training composition is a step of the request manager, or
\* leaves it alone: the backward passes write none of its state.
LEMMA TrainingStep == [TrainingNext]_trainvars => [Next]_vars
BY DEF TrainingNext, Serve, Forward, Backward, trainvars, Next, Server

\* The composition implements the request manager.
THEOREM TrainingImplementsManager == TrainingSpec => Spec
<1>1. TrainingInit => Init
    BY DEF TrainingInit
<1> QED BY <1>1, TrainingStep, PTL DEF TrainingSpec, Spec

-----------------------------------------------------------------------------
(* The finetuning row of a batch. *)

\* The finetuning row of a launched batch holds tokens, and as many as follow
\* its offset in the batch at most.
FinetuningFits ==
    PeftEnabled /\ PeftRow \in ActiveRow(old_bc) =>
        LET info == old_bc.requestsInfo[PeftRow]
        IN  /\ info.num_tokens_in_batch \in 1 .. MaxTokens
            /\ info.first_token_offset_in_batch + info.num_tokens_in_batch <= MaxTokens

\* A finetuning row is scheduled with at most the tokens the batch has left.
LEMMA ScheduleFits ==
    ASSUME TypeInvariant, UnderConstruction, SchedulePeft
    PROVE  FinetuningFits'
<1> DEFINE g == Head(pending_peft_request_queue)
           n == num_peft_tokens(all_requests[g])
<1>1. n \in Int /\ n <= MaxTokens - new_bc.num_tokens
    BY PeftChunk, PeftHead
<1>2. new_bc \in BatchConfig /\ new_bc.num_tokens \in Nat /\ MaxTokens \in Nat
    BY ConstantsAssumption DEF TypeInvariant, TypeOK, BatchConfig
<1>3. CASE n <= 0 /\ Launch(new_bc)
  <2>1. old_bc' = new_bc
      BY <1>3 DEF Launch
  <2>2. PeftEnabled => PeftRow \notin ActiveRow(new_bc)
      BY RowSubsets DEF UnderConstruction
  <2> QED BY <2>1, <2>2 DEF FinetuningFits, ActiveRow
<1>4. ASSUME NEW info \in PerRequestInfo, n > 0, Launch(PutPeftRow(new_bc, info)),
             info.first_token_offset_in_batch = new_bc.num_tokens,
             info.num_tokens_in_batch = n
      PROVE  FinetuningFits'
  <2>1. old_bc' = PutPeftRow(new_bc, info)
      BY <1>4 DEF Launch
  <2>2. ASSUME PeftEnabled PROVE old_bc'.requestsInfo[PeftRow] = info
      BY <1>2, <2>1, <2>2, RowSubsets DEF PutPeftRow, BatchConfig
  <2>3. info.num_tokens_in_batch \in 1 .. MaxTokens
      BY <1>1, <1>2, <1>4
  <2>4. info.first_token_offset_in_batch + info.num_tokens_in_batch <= MaxTokens
      BY <1>1, <1>2, <1>4
  <2> QED BY <2>2, <2>3, <2>4 DEF FinetuningFits
<1>5. \/ n <= 0 /\ Launch(new_bc)
      \/ \E info \in PerRequestInfo :
              /\ n > 0 /\ Launch(PutPeftRow(new_bc, info))
              /\ info.first_token_offset_in_batch = new_bc.num_tokens
              /\ info.num_tokens_in_batch = n
    BY PeftChunk
<1> QED BY <1>3, <1>4, <1>5

\* No other step launches a batch with a finetuning row.
LEMMA NextFits ==
    ASSUME TypeInvariant, UnderConstruction, FinetuningFits, [Next]_vars
    PROVE  FinetuningFits'
<1>1. CASE old_bc' = old_bc
    BY <1>1 DEF FinetuningFits, ActiveRow
<1>2. CASE SchedulePeft
    BY <1>2, ScheduleFits
<1>3. CASE ScheduleNone
  <2>1. old_bc' = new_bc
      BY <1>3 DEF ScheduleNone, Launch
  <2>2. PeftEnabled => PeftRow \notin ActiveRow(new_bc)
      BY RowSubsets DEF UnderConstruction
  <2> QED BY <2>1, <2>2 DEF FinetuningFits, ActiveRow
<1>4. CASE Inference \/ CarryDone \/ AdmitDone \/ TrainSkip \/ TrainRow \/ PopPeft
    BY <1>1, <1>4 DEF Inference, CarryDone, AdmitDone, TrainSkip, TrainRow, PopPeft, batch
<1>5. CASE \E i \in InfrRow : \/ CarrySkip(i) \/ CarryDecoding(i) \/ CarryPrompt(i)
                              \/ AdmitSkip(i) \/ AdmitRequest(i) \/ CompleteRequest(i)
    BY <1>1, <1>5 DEF CarrySkip, CarryDecoding, CarryPrompt, AdmitSkip, AdmitRequest,
                      CompleteRequest
<1>6. CASE AppendTokens
  <2>1. old_bc' = old_bc
      BY <1>6 DEF AppendTokens
  <2> QED BY <1>1, <2>1
<1>7. CASE Client \/ UNCHANGED vars
    BY <1>1, <1>7 DEF Client, register_new_request, register_new_peft_request, Refuse,
                      set_inference_finished, vars, batch
<1> QED BY <1>2, <1>3, <1>4, <1>5, <1>6, <1>7 DEF Next, Server, PrepareNextBatch

\* The finetuning row of a batch fits in it: its tokens are rows of the buffers.
THEOREM FinetuningAlwaysFits == Spec => [](TypeInvariant /\ FinetuningFits)
<1>1. Init => FinetuningFits
    BY DEF Init, FinetuningFits, ActiveRow, EmptyBatch
<1>2. ASSUME TypeInvariant, RowsInvariant, FinetuningFits, [Next]_vars
      PROVE  FinetuningFits'
    BY <1>2, NextFits DEF RowsInvariant
<1>3. TypeInvariant /\ RowsInvariant /\ FinetuningFits /\ [Next]_vars => FinetuningFits'
    BY <1>2
<1> QED BY <1>1, <1>3, RowsInvariantHolds, PTL DEF Spec

-----------------------------------------------------------------------------
(* The buffers of the layer. *)

\* A chunk that the backward pass can be launched for.
Trainable(c) ==
    /\ c \in Chunk
    /\ c.info.request_guid \in Guid
    /\ c.info.num_tokens_in_batch \in 1 .. MaxTokens

BuffersInvariant ==
    /\ TrainingTypeOK
    /\ \A k \in DOMAIN backward : Trainable(backward[k])

\* The buffers hold the activations of a chunk.
HeldFor(c) ==
    \A s \in Slot : s < c.info.num_tokens_in_batch => activation[s] = ChunkToken(c, s)

\* A fused layer has at most one backward pass outstanding, and its buffers
\* hold the activations of that pass.
ActivationsHeld ==
    Fused =>
        /\ Len(backward) <= 1
        /\ \A k \in DOMAIN backward : HeldFor(backward[k])

\* The tokens of a chunk.
LEMMA ChunkTokenType ==
    ASSUME NEW c, Trainable(c), NEW j \in Nat
    PROVE  ChunkToken(c, j) \in Token
BY DEF Trainable, Chunk, PerRequestInfo, ChunkToken, Token

\* The rows of the buffers that the j-th token of a chunk takes.
LEMMA ChunkSlots ==
    ASSUME NEW c, Trainable(c), NEW j \in 1 .. c.info.num_tokens_in_batch
    PROVE  j - 1 \in Slot /\ j - 1 \in Nat /\ j - 1 < c.info.num_tokens_in_batch
BY ConstantsAssumption DEF Trainable, Slot

\* A function on 1 .. n is a sequence.
LEMMA FunctionIsSeq ==
    ASSUME NEW S, NEW n \in Nat, NEW f \in [1 .. n -> S]
    PROVE  f \in Seq(S) /\ DOMAIN f = 1 .. n
OBVIOUS

\* A sequence to which an element is appended is one.
LEMMA AppendType ==
    ASSUME NEW S, NEW q \in Seq(S), NEW e \in S
    PROVE  Append(q, e) \in Seq(S)
OBVIOUS

\* What the parts of a sum of sequences satisfy, the sum satisfies.
LEMMA ConcatParts ==
    ASSUME NEW S, NEW p \in Seq(S), NEW q \in Seq(S)
    PROVE  /\ p \o q \in Seq(S)
           /\ \A j \in DOMAIN (p \o q) :
                 \/ j \in DOMAIN p /\ (p \o q)[j] = p[j]
                 \/ \E k \in DOMAIN q : (p \o q)[j] = q[k]
<1>1. p \o q \in Seq(S) /\ DOMAIN (p \o q) = 1 .. Len(p) + Len(q)
    OBVIOUS
<1>2. ASSUME NEW j \in 1 .. Len(p) + Len(q)
      PROVE  \/ j \in DOMAIN p /\ (p \o q)[j] = p[j]
             \/ \E k \in DOMAIN q : (p \o q)[j] = q[k]
  <2>1. CASE j <= Len(p)
      BY <2>1
  <2>2. CASE j > Len(p)
    <3>1. j - Len(p) \in DOMAIN q /\ (p \o q)[j] = q[j - Len(p)]
        BY <2>2
    <3> QED BY <3>1
  <2> QED BY <2>1, <2>2
<1> QED BY <1>1, <1>2

\* The buffers start empty.
LEMMA InitBuffers == TrainingInit => BuffersInvariant /\ ActivationsHeld /\ OwnActivations
<1> SUFFICES ASSUME TrainingInit
             PROVE  BuffersInvariant /\ ActivationsHeld /\ OwnActivations
    OBVIOUS
<1>1. DOMAIN << >> = {} /\ Len(<< >>) = 0
    OBVIOUS
<1> QED BY <1>1 DEF TrainingInit, BuffersInvariant, TrainingTypeOK, ActivationsHeld,
                    OwnActivations

\* What the forward pass does to the buffers: nothing, if the batch has no
\* finetuning row, and else the row's chunk is saved and its backward pass
\* launched.
LEMMA ForwardChunk ==
    ASSUME TypeInvariant, FinetuningFits, Forward
    PROVE  /\ UNCHANGED << output_grad, gradient, weights, saved >>
           /\ Fused => backward = << >>
           /\ \/ UNCHANGED << activation, backward >>
              \/ \E c : /\ Trainable(c)
                        /\ activation' = SaveActivations(c)
                        /\ backward' = Append(backward, c)
<1>1. /\ Launched /\ UNCHANGED << output_grad, gradient, weights, saved >>
      /\ Fused => backward = << >>
    BY DEF Forward
<1>2. CASE PeftEnabled => old_bc.request_completed[PeftRow]
    BY <1>1, <1>2 DEF Launched
<1>3. CASE PeftEnabled /\ ~old_bc.request_completed[PeftRow]
  <2> DEFINE info == old_bc.requestsInfo[PeftRow]
             c    == [info |-> info,
                      step |-> all_requests[info.request_guid].completed_training_steps]
  <2>1. PeftRow \in Row /\ PeftRow \in ActiveRow(old_bc)
      BY <1>3, RowSubsets DEF ActiveRow
  <2>2. info \in PerRequestInfo /\ info.request_guid \in Guid
      BY <2>1 DEF TypeInvariant, TypeOK, BatchConfig, RowsRegistered, GuidOf
  <2>3. info.num_tokens_in_batch \in 1 .. MaxTokens
      BY <1>3, <2>1 DEF FinetuningFits
  <2>4. all_requests[info.request_guid].completed_training_steps \in Nat
      BY <2>2 DEF TypeInvariant, TypeOK, Request
  <2>5. activation' = SaveActivations(c) /\ backward' = Append(backward, c)
      BY <1>1, <1>3 DEF Launched
  <2>6. Trainable(c)
      BY <2>2, <2>3, <2>4 DEF Trainable, Chunk
  <2> QED BY <1>1, <2>5, <2>6
<1> QED BY <1>2, <1>3

\* The forward pass keeps the buffers.
LEMMA ForwardBuffers ==
    ASSUME TypeInvariant, FinetuningFits, BuffersInvariant, ActivationsHeld, Forward
    PROVE  BuffersInvariant' /\ ActivationsHeld'
<1>1. /\ UNCHANGED << output_grad, gradient, weights, saved >>
      /\ Fused => backward = << >>
    BY ForwardChunk
<1>2. CASE UNCHANGED << activation, backward >>
    BY <1>1, <1>2 DEF BuffersInvariant, TrainingTypeOK, ActivationsHeld
<1>3. ASSUME NEW c, Trainable(c), activation' = SaveActivations(c),
             backward' = Append(backward, c)
      PROVE  BuffersInvariant' /\ ActivationsHeld'
  <2>1. activation' \in [Slot -> Token \cup {NoToken}]
    <3>1. \A s \in Slot : s \in Nat
        BY DEF Slot
    <3>2. \A s \in Slot : ChunkToken(c, s) \in Token
        BY <1>3, <3>1, ChunkTokenType
    <3> QED BY <1>3, <3>2 DEF SaveActivations, BuffersInvariant, TrainingTypeOK
  <2>2. backward \in Seq(Chunk) /\ c \in Chunk
      BY <1>3 DEF BuffersInvariant, TrainingTypeOK, Trainable
  <2>3. /\ Append(backward, c) \in Seq(Chunk)
        /\ \A k \in DOMAIN Append(backward, c) :
              \/ k \in DOMAIN backward /\ Append(backward, c)[k] = backward[k]
              \/ Append(backward, c)[k] = c
      BY <2>2
  <2>4. \A k \in DOMAIN backward' : Trainable(backward'[k])
      BY <1>3, <2>3 DEF BuffersInvariant
  <2>5. BuffersInvariant'
      BY <1>1, <1>3, <2>1, <2>3, <2>4 DEF BuffersInvariant, TrainingTypeOK
  <2>6. HeldFor(c)'
      BY <1>3 DEF HeldFor, SaveActivations
  <2>7. ASSUME Fused
        PROVE  Len(backward') <= 1 /\ \A k \in DOMAIN backward' : backward'[k] = c
    <3>1. backward' = Append(<< >>, c)
        BY <1>1, <1>3, <2>7
    <3> QED BY <3>1, <2>3
  <2>8. ASSUME Fused, NEW k \in DOMAIN backward'
        PROVE  HeldFor(backward[k])'
    <3>1. backward'[k] = c
        BY <2>7, <2>8
    <3> QED BY <2>6, <3>1, Zenon DEF HeldFor
  <2>9. ActivationsHeld'
      BY <2>7, <2>8 DEF ActivationsHeld
  <2> QED BY <2>5, <2>9
<1> QED BY <1>2, <1>3, ForwardChunk

\* What the backward pass does to the buffers.
LEMMA BackwardChunk ==
    ASSUME Backward
    PROVE  LET c     == Head(backward)
               tasks == c.info.optimizer_tasks
           IN  /\ backward # << >> /\ backward' = Tail(backward)
               /\ output_grad' = GradientRows(c)
               /\ gradient' = (IF tasks.reset_gradients_to_zero THEN << >> ELSE gradient)
                                 \o ChunkGradient(c)
               /\ \/ weights' = Append(weights, gradient')
                  \/ weights' = weights
               /\ \/ saved' = [saved EXCEPT ![c.info.request_guid] = Len(weights')]
                  \/ saved' = saved
               /\ UNCHANGED << vars, activation >>
BY DEF Backward

\* The oldest backward pass is for a chunk.
LEMMA HeadTrainable ==
    ASSUME BuffersInvariant, backward # << >>
    PROVE  /\ Trainable(Head(backward)) /\ Head(backward) = backward[1]
           /\ 1 \in DOMAIN backward
<1>1. backward \in Seq(Chunk)
    BY DEF BuffersInvariant, TrainingTypeOK
<1>2. 1 \in DOMAIN backward /\ Head(backward) = backward[1]
    BY <1>1
<1> QED BY <1>2 DEF BuffersInvariant

\* The gradients of a chunk are rows.
LEMMA ChunkGradientType ==
    ASSUME NEW c, Trainable(c), activation \in [Slot -> Token \cup {NoToken}],
           output_grad' \in [Slot -> Token \cup {NoToken}]
    PROVE  /\ ChunkGradient(c) \in Seq(GradientRow)
           /\ DOMAIN ChunkGradient(c) = 1 .. c.info.num_tokens_in_batch
<1> DEFINE n == c.info.num_tokens_in_batch
<1>1. n \in Nat
    BY ConstantsAssumption DEF Trainable
<1>2. ASSUME NEW j \in 1 .. n
      PROVE  [token |-> ChunkToken(c, j - 1), activation |-> activation[j - 1],
              output_grad |-> output_grad'[j - 1]] \in GradientRow
  <2>1. j - 1 \in Slot /\ j - 1 \in Nat
      BY ChunkSlots
  <2>2. ChunkToken(c, j - 1) \in Token
      BY <2>1, ChunkTokenType
  <2> QED BY <2>1, <2>2 DEF GradientRow
<1>3. ChunkGradient(c) \in [1 .. n -> GradientRow]
    BY <1>2, Zenon DEF ChunkGradient
<1> QED BY <1>1, <1>3, FunctionIsSeq

\* The backward pass keeps the buffers.
LEMMA BackwardBuffers ==
    ASSUME BuffersInvariant, ActivationsHeld, Backward
    PROVE  BuffersInvariant' /\ ActivationsHeld'
<1> PICK c : c = Head(backward)
    OBVIOUS
<1>1. /\ backward # << >> /\ backward' = Tail(backward) /\ activation' = activation
      /\ output_grad' = GradientRows(c)
      /\ \E kept \in {<< >>, gradient} : gradient' = kept \o ChunkGradient(c)
      /\ weights' = Append(weights, gradient') \/ weights' = weights
      /\ saved' = [saved EXCEPT ![c.info.request_guid] = Len(weights')] \/ saved' = saved
    BY BackwardChunk
<1>2. Trainable(c)
    BY <1>1, HeadTrainable
<1>3. output_grad' \in [Slot -> Token \cup {NoToken}]
  <2> DEFINE first == c.info.first_token_offset_in_batch
  <2>1. ASSUME NEW s \in Slot, first <= s
        PROVE  ChunkToken(c, s - first) \in Token
    <3>1. s - first \in Nat
        BY <1>2, <2>1 DEF Slot, Trainable, Chunk, PerRequestInfo
    <3> QED BY <1>2, <3>1, ChunkTokenType
  <2>2. output_grad \in [Slot -> Token \cup {NoToken}]
      BY DEF BuffersInvariant, TrainingTypeOK
  <2> QED BY <1>1, <2>1, <2>2 DEF GradientRows
<1>4. gradient' \in Seq(GradientRow)
  <2>1. activation \in [Slot -> Token \cup {NoToken}]
      BY DEF BuffersInvariant, TrainingTypeOK
  <2>2. ChunkGradient(c) \in Seq(GradientRow)
      BY <1>2, <1>3, <2>1, ChunkGradientType
  <2>3. gradient \in Seq(GradientRow) /\ << >> \in Seq(GradientRow)
      BY DEF BuffersInvariant, TrainingTypeOK
  <2> QED BY <1>1, <2>2, <2>3, ConcatParts
<1>5. weights' \in Seq(Seq(GradientRow))
  <2>1. weights \in Seq(Seq(GradientRow))
      BY DEF BuffersInvariant, TrainingTypeOK
  <2>2. Append(weights, gradient') \in Seq(Seq(GradientRow))
      BY <1>4, <2>1, AppendType
  <2> QED BY <1>1, <2>1, <2>2
<1>6. saved' \in [Guid -> Nat]
  <2>1. Len(weights') \in Nat
      BY <1>5
  <2>2. saved \in [Guid -> Nat]
      BY DEF BuffersInvariant, TrainingTypeOK
  <2> QED BY <1>1, <2>1, <2>2
<1>7. backward \in Seq(Chunk)
    BY DEF BuffersInvariant, TrainingTypeOK
<1>8. /\ backward' \in Seq(Chunk) /\ Len(backward') = Len(backward) - 1
      /\ \A k \in DOMAIN backward' :
            k + 1 \in DOMAIN backward /\ backward'[k] = backward[k + 1]
    BY <1>1, <1>7
<1>9. \A k \in DOMAIN backward' : Trainable(backward'[k])
    BY <1>8 DEF BuffersInvariant
<1>10. activation' \in [Slot -> Token \cup {NoToken}]
    BY <1>1 DEF BuffersInvariant, TrainingTypeOK
<1>11. BuffersInvariant'
    BY <1>3, <1>4, <1>5, <1>6, <1>8, <1>9, <1>10 DEF BuffersInvariant, TrainingTypeOK
<1>12. ASSUME Fused PROVE Len(backward') <= 1 /\ DOMAIN backward' = {}
  <2>1. Len(backward) <= 1
      BY <1>12 DEF ActivationsHeld
  <2> QED BY <1>7, <1>8, <2>1
<1>13. ActivationsHeld'
    BY <1>12 DEF ActivationsHeld
<1> QED BY <1>11, <1>13

\* When the layer is fused, the gradients are computed from the activations the
\* forward pass of the same chunk saved.
LEMMA BackwardOwn ==
    ASSUME Fused, BuffersInvariant, ActivationsHeld, OwnActivations, Backward,
           BuffersInvariant'
    PROVE  OwnActivations'
<1> PICK c : c = Head(backward)
    OBVIOUS
<1> PICK own : own = ChunkGradient(c)
    OBVIOUS
<1>1. backward # << >> /\ \E kept \in {<< >>, gradient} : gradient' = kept \o own
    BY BackwardChunk
<1>2. Trainable(c) /\ HeldFor(c)
    BY <1>1, HeadTrainable DEF ActivationsHeld
<1>3. own \in Seq(GradientRow) /\ DOMAIN own = 1 .. c.info.num_tokens_in_batch
    BY <1>2, ChunkGradientType DEF BuffersInvariant, TrainingTypeOK
<1>4. ASSUME NEW j \in DOMAIN own PROVE own[j].activation = own[j].token
  <2>1. j \in 1 .. c.info.num_tokens_in_batch
      BY <1>3
  <2>2. own[j].token = ChunkToken(c, j - 1) /\ own[j].activation = activation[j - 1]
      BY <2>1 DEF ChunkGradient
  <2>3. j - 1 \in Slot /\ j - 1 < c.info.num_tokens_in_batch
      BY <1>2, <2>1, ChunkSlots
  <2> QED BY <1>2, <2>2, <2>3 DEF HeldFor
<1>5. PICK kept \in {<< >>, gradient} : gradient' = kept \o own
    BY <1>1
<1>6. /\ kept \in Seq(GradientRow)
      /\ \A j \in DOMAIN kept : kept[j].activation = kept[j].token
    BY <1>5 DEF OwnActivations, BuffersInvariant, TrainingTypeOK
<1>7. \A j \in DOMAIN gradient' : gradient'[j].activation = gradient'[j].token
    BY <1>3, <1>4, <1>5, <1>6, ConcatParts
<1> QED BY <1>7 DEF OwnActivations

\* Every step of the composition keeps the buffers.
LEMMA TrainingBuffers ==
    ASSUME TypeInvariant, FinetuningFits, BuffersInvariant, ActivationsHeld,
           [TrainingNext]_trainvars
    PROVE  BuffersInvariant' /\ ActivationsHeld'
<1>1. CASE Forward
    BY <1>1, ForwardBuffers
<1>2. CASE Backward
    BY <1>2, BackwardBuffers
<1>3. CASE UNCHANGED training
    BY <1>3 DEF training, BuffersInvariant, TrainingTypeOK, ActivationsHeld, HeldFor
<1> QED BY <1>1, <1>2, <1>3 DEF TrainingNext, Serve, trainvars

\* The buffers of the layer keep their invariant.
THEOREM BuffersInvariantHolds == TrainingSpec => [](BuffersInvariant /\ ActivationsHeld)
<1>1. TrainingInit => BuffersInvariant /\ ActivationsHeld
    BY InitBuffers
<1>2. TypeInvariant /\ FinetuningFits /\ BuffersInvariant /\ ActivationsHeld
      /\ [TrainingNext]_trainvars => BuffersInvariant' /\ ActivationsHeld'
    BY TrainingBuffers
<1> QED BY <1>1, <1>2, TrainingImplementsManager, FinetuningAlwaysFits, PTL
        DEF TrainingSpec

\* The variables of the training keep their types.
THEOREM TrainingTypes == TrainingSpec => []TrainingTypeOK
<1>1. BuffersInvariant => TrainingTypeOK
    BY DEF BuffersInvariant
<1> QED BY <1>1, BuffersInvariantHolds, PTL

\* When one operator holds the layer and the last softmax, the backward pass of
\* a batch uses the activations its own forward pass saved: the next forward
\* pass waits for it, and no other pass writes the buffers.
THEOREM ActivationsAreOwn ==
    ASSUME Fused
    PROVE  TrainingSpec => []OwnActivations
<1>1. TrainingInit => OwnActivations
    BY InitBuffers
<1>2. ASSUME BuffersInvariant, ActivationsHeld, BuffersInvariant', OwnActivations,
             [TrainingNext]_trainvars
      PROVE  OwnActivations'
  <2>1. CASE Backward
      BY <1>2, <2>1, BackwardOwn
  <2>2. CASE UNCHANGED gradient
      BY <2>2, <1>2 DEF OwnActivations
  <2> QED BY <1>2, <2>1, <2>2 DEF TrainingNext, Serve, Forward, training, trainvars
<1>3. /\ BuffersInvariant /\ ActivationsHeld /\ BuffersInvariant' /\ OwnActivations
      /\ [TrainingNext]_trainvars
      => OwnActivations'
    BY <1>2
<1> QED BY <1>1, <1>3, BuffersInvariantHolds, PTL DEF TrainingSpec

-----------------------------------------------------------------------------
(* Groups of steps: arithmetic, and the tokens of consecutive steps. *)

LEMMA TimesMono ==
    ASSUME NEW n \in Nat, NEW a \in Int, NEW b \in Int, a <= b
    PROVE  a * n <= b * n
OBVIOUS

LEMMA TimesNext ==
    ASSUME NEW n \in Nat, NEW a \in Int
    PROVE  (a + 1) * n = a * n + n /\ (a - 1) * n = a * n - n /\ a * n \in Int
OBVIOUS

LEMMA TimesNat ==
    ASSUME NEW n \in Nat, NEW a \in Nat
    PROVE  a * n \in Nat
OBVIOUS

LEMMA DivMod ==
    ASSUME NEW n \in Nat \ {0}, NEW s \in Nat
    PROVE  /\ s \div n \in Nat /\ s % n \in 0 .. n - 1
           /\ s = (s \div n) * n + (s % n)
OBVIOUS

\* Step s lies in the group after the first u groups of n steps.
InGroup(n, u, s) ==
    n \in Nat \ {0} /\ u \in Nat /\ s \in Nat /\ u * n <= s /\ s < (u + 1) * n

\* The quotient is u, and the remainder is zero at the first step of the group only.
LEMMA StepInGroup ==
    ASSUME NEW n, NEW u, NEW s, InGroup(n, u, s)
    PROVE  s \div n = u /\ ((s % n) = 0 <=> s = u * n)
<1> DEFINE q == s \div n
           r == s % n
<1>0. n \in Nat \ {0} /\ u \in Nat /\ s \in Nat /\ u * n <= s /\ s < (u + 1) * n
    BY DEF InGroup
<1>1. q \in Nat /\ r \in 0 .. n - 1 /\ s = q * n + r
    BY <1>0, DivMod
<1>2. (u + 1) * n = u * n + n /\ u * n \in Int /\ (q + 1) * n = q * n + n /\ q * n \in Int
    BY <1>0, <1>1, TimesNext
<1> HIDE DEF q, r
<1>3. q + 1 <= u => (q + 1) * n <= u * n
    BY <1>0, <1>1, TimesMono
<1>4. u + 1 <= q => (u + 1) * n <= q * n
    BY <1>0, <1>1, TimesMono
<1>5. ~(q + 1 <= u) /\ ~(u + 1 <= q)
    BY <1>0, <1>1, <1>2, <1>3, <1>4
<1>6. q = u
    BY <1>0, <1>1, <1>5
<1>7. r = 0 <=> s = u * n
    BY <1>0, <1>1, <1>2, <1>6
<1> QED BY <1>6, <1>7 DEF q, r

\* Step s is the last of the group after u updates: the next one is the first of
\* the group after it.
LastOfGroup(n, u, s) ==
    /\ s + 1 = (u + 1) * n
    /\ InGroup(n, u + 1, s + 1)
    /\ (s + 1) \div n = u + 1

\* The weights are updated at the last step of a group.
UpdateStep(n, s) == ((s + 1) % n) = 0

LEMMA GroupEnds ==
    ASSUME NEW n, NEW u, NEW s, InGroup(n, u, s), UpdateStep(n, s)
    PROVE  LastOfGroup(n, u, s)
<1> PICK v \in Nat : v = u + 1
    BY DEF InGroup
<1> PICK t \in Nat : t = s + 1
    BY DEF InGroup
<1>1. n \in Nat \ {0} /\ u \in Nat /\ s \in Nat /\ u * n <= s /\ s < v * n
    BY DEF InGroup
<1>2. v * n = u * n + n /\ (v + 1) * n = v * n + n /\ u * n \in Int /\ v * n \in Int
    BY <1>1, TimesNext
<1>3. CASE t = v * n
  <2>1. InGroup(n, v, t)
      BY <1>1, <1>2, <1>3 DEF InGroup
  <2>2. t \div n = v
      BY <2>1, StepInGroup
  <2> QED BY <1>3, <2>1, <2>2 DEF LastOfGroup
<1>4. CASE t # v * n
  <2>1. InGroup(n, u, t) /\ t # u * n
      BY <1>1, <1>2, <1>4 DEF InGroup
  <2>2. (t % n) # 0
      BY <2>1, StepInGroup
  <2> QED BY <2>2 DEF UpdateStep
<1> QED BY <1>3, <1>4

\* The step after any other is in the group, and not its first.
LEMMA GroupGoesOn ==
    ASSUME NEW n, NEW u, NEW s, InGroup(n, u, s), ((s + 1) % n) # 0
    PROVE  InGroup(n, u, s + 1) /\ s + 1 # u * n
<1> PICK v \in Nat : v = u + 1
    BY DEF InGroup
<1> PICK t \in Nat : t = s + 1
    BY DEF InGroup
<1>1. n \in Nat \ {0} /\ u \in Nat /\ s \in Nat /\ u * n <= s /\ s < v * n
    BY DEF InGroup
<1>2. v * n = u * n + n /\ (v + 1) * n = v * n + n /\ u * n \in Int /\ v * n \in Int
    BY <1>1, TimesNext
<1>3. CASE t = v * n
  <2>1. InGroup(n, v, t)
      BY <1>1, <1>2, <1>3 DEF InGroup
  <2>2. (t % n) = 0
      BY <1>3, <2>1, StepInGroup
  <2> QED BY <2>2
<1>4. CASE t # v * n
    BY <1>1, <1>2, <1>4 DEF InGroup
<1> QED BY <1>3, <1>4

\* The size of the entry that step k of f trains on.
EntryAt(f, k) == f.dataset[1 + (k % Len(f.dataset))]

\* The tokens of steps.
LEMMA StepTokensMember ==
    ASSUME NEW g, NEW f, NEW first, NEW last, NEW t
    PROVE  t \in StepTokens(g, f, first, last) <=>
               \E k \in first .. last, d \in 0 .. MaxSeqLen :
                  /\ t = [request_guid |-> g, step |-> k, depth |-> d]
                  /\ d < EntryAt(f, k)
<1>1. ASSUME t \in StepTokens(g, f, first, last)
      PROVE  \E k \in first .. last, d \in 0 .. MaxSeqLen :
                  /\ t = [request_guid |-> g, step |-> k, depth |-> d]
                  /\ d < EntryAt(f, k)
  <2>1. /\ t \in [request_guid : {g}, step : first .. last, depth : 0 .. MaxSeqLen]
        /\ t.depth < EntryAt(f, t.step)
      BY <1>1 DEF StepTokens, EntryAt
  <2>2. /\ t = [request_guid |-> g, step |-> t.step, depth |-> t.depth]
        /\ t.step \in first .. last /\ t.depth \in 0 .. MaxSeqLen
      BY <2>1
  <2> QED BY <2>1, <2>2
<1>2. ASSUME NEW k \in first .. last, NEW d \in 0 .. MaxSeqLen, d < EntryAt(f, k),
             t = [request_guid |-> g, step |-> k, depth |-> d]
      PROVE  t \in StepTokens(g, f, first, last)
  <2>1. /\ t \in [request_guid : {g}, step : first .. last, depth : 0 .. MaxSeqLen]
        /\ t.depth < EntryAt(f, t.step)
      BY <1>2
  <2> QED BY <2>1 DEF StepTokens, EntryAt
<1> QED BY <1>1, <1>2

LEMMA StepTokensOf ==
    ASSUME NEW g, NEW f, NEW first, NEW last
    PROVE  \A t \in StepTokens(g, f, first, last) : t.request_guid = g
<1> SUFFICES ASSUME NEW t \in StepTokens(g, f, first, last) PROVE t.request_guid = g
    OBVIOUS
<1>1. t \in [request_guid : {g}, step : first .. last, depth : 0 .. MaxSeqLen]
    BY Zenon DEF StepTokens
<1> QED BY <1>1

\* The rows of s are for the tokens of the steps first .. last of request g, each
\* once.
Holds(s, g, f, first, last) ==
    /\ \A i, j \in DOMAIN s : s[i].token = s[j].token => i = j
    /\ {s[j].token : j \in DOMAIN s} = StepTokens(g, f, first, last)

\* A row for each token of an entry, in order.
LEMMA HoldsEntry ==
    ASSUME NEW s, NEW g, NEW f, NEW k \in Nat, NEW m \in Nat,
           m = EntryAt(f, k), m <= MaxSeqLen, DOMAIN s = 1 .. m,
           \A j \in 1 .. m : s[j].token = [request_guid |-> g, step |-> k, depth |-> j - 1]
    PROVE  Holds(s, g, f, k, k)
<1>0. ASSUME NEW j \in 1 .. m PROVE s[j].token.depth = j - 1
  <2>1. s[j].token = [request_guid |-> g, step |-> k, depth |-> j - 1]
      OBVIOUS
  <2> QED BY <2>1
<1>1. \A i, j \in DOMAIN s : s[i].token = s[j].token => i = j
  <2> SUFFICES ASSUME NEW i \in 1 .. m, NEW j \in 1 .. m, s[i].token = s[j].token
               PROVE  i = j
      OBVIOUS
  <2>1. s[i].token.depth = i - 1
      BY <1>0
  <2>2. s[j].token.depth = j - 1
      BY <1>0
  <2> QED BY <2>1, <2>2
<1>2. ASSUME NEW j \in DOMAIN s PROVE s[j].token \in StepTokens(g, f, k, k)
  <2>1. j - 1 \in 0 .. MaxSeqLen /\ j - 1 < EntryAt(f, k) /\ k \in k .. k
      BY ConstantsAssumption
  <2>2. s[j].token = [request_guid |-> g, step |-> k, depth |-> j - 1]
      OBVIOUS
  <2> QED BY <2>1, <2>2, StepTokensMember
<1>3. ASSUME NEW t \in StepTokens(g, f, k, k) PROVE \E j \in DOMAIN s : s[j].token = t
  <2>1. PICK l \in k .. k, d \in 0 .. MaxSeqLen :
            t = [request_guid |-> g, step |-> l, depth |-> d] /\ d < EntryAt(f, l)
      BY StepTokensMember
  <2>2. l = k
      OBVIOUS
  <2>3. d + 1 \in 1 .. m /\ d + 1 - 1 = d
      BY <2>1, <2>2, ConstantsAssumption
  <2>4. s[d + 1].token = t
      BY <2>1, <2>2, <2>3
  <2> QED BY <2>3, <2>4
<1> QED BY <1>1, <1>2, <1>3 DEF Holds

\* The rows of one step behind those of the steps before it.
LEMMA HoldsSum ==
    ASSUME NEW S, NEW p \in Seq(S), NEW q \in Seq(S), NEW g, NEW f,
           NEW a \in Int, NEW b \in Int, a <= b,
           Holds(p, g, f, a, b - 1), Holds(q, g, f, b, b)
    PROVE  Holds(p \o q, g, f, a, b)
<1> DEFINE s == p \o q
<1>1. /\ \A j \in DOMAIN s : \/ j \in DOMAIN p /\ s[j] = p[j]
                             \/ j - Len(p) \in DOMAIN q /\ s[j] = q[j - Len(p)]
      /\ \A j \in DOMAIN p : j \in DOMAIN s /\ s[j] = p[j]
      /\ \A j \in DOMAIN q : j + Len(p) \in DOMAIN s /\ s[j + Len(p)] = q[j]
      /\ Len(p) \in Nat /\ DOMAIN s \subseteq Nat /\ DOMAIN q \subseteq Nat
  <2>1. DOMAIN s = 1 .. Len(p) + Len(q) /\ DOMAIN p = 1 .. Len(p) /\ DOMAIN q = 1 .. Len(q)
      OBVIOUS
  <2>2. ASSUME NEW j \in DOMAIN p PROVE s[j] = p[j]
      BY <2>1
  <2>3. ASSUME NEW j \in DOMAIN s, j \notin DOMAIN p
        PROVE  j - Len(p) \in DOMAIN q /\ s[j] = q[j - Len(p)]
      BY <2>1, <2>3
  <2>4. ASSUME NEW j \in DOMAIN q
        PROVE  j + Len(p) \in DOMAIN s /\ s[j + Len(p)] = q[j]
      BY <2>1
  <2> QED BY <2>1, <2>2, <2>3, <2>4
<1> HIDE DEF s
<1>2. \A j \in DOMAIN p : \E k \in a .. b - 1, d \in 0 .. MaxSeqLen :
            p[j].token = [request_guid |-> g, step |-> k, depth |-> d] /\ d < EntryAt(f, k)
  <2>1. \A j \in DOMAIN p : p[j].token \in StepTokens(g, f, a, b - 1)
      BY DEF Holds
  <2> QED BY <2>1, StepTokensMember
<1>3. \A j \in DOMAIN q : \E k \in b .. b, d \in 0 .. MaxSeqLen :
            q[j].token = [request_guid |-> g, step |-> k, depth |-> d] /\ d < EntryAt(f, k)
  <2>1. \A j \in DOMAIN q : q[j].token \in StepTokens(g, f, b, b)
      BY DEF Holds
  <2> QED BY <2>1, StepTokensMember
<1>4. ASSUME NEW i \in DOMAIN p, NEW j \in DOMAIN q PROVE p[i].token # q[j].token
  <2>1. PICK k \in a .. b - 1, d \in 0 .. MaxSeqLen :
            p[i].token = [request_guid |-> g, step |-> k, depth |-> d]
      BY <1>2
  <2>2. PICK l \in b .. b, e \in 0 .. MaxSeqLen :
            q[j].token = [request_guid |-> g, step |-> l, depth |-> e]
      BY <1>3
  <2>3. k # l
      OBVIOUS
  <2>4. p[i].token.step = k /\ q[j].token.step = l
      BY <2>1, <2>2
  <2> QED BY <2>3, <2>4
<1>5. ASSUME NEW i \in DOMAIN s, NEW j \in DOMAIN s, s[i].token = s[j].token
      PROVE  i = j
  <2>1. CASE i \in DOMAIN p /\ s[i] = p[i] /\ j \in DOMAIN p /\ s[j] = p[j]
      BY <1>5, <2>1 DEF Holds
  <2>2. CASE /\ i - Len(p) \in DOMAIN q /\ s[i] = q[i - Len(p)]
             /\ j - Len(p) \in DOMAIN q /\ s[j] = q[j - Len(p)]
    <3>1. i - Len(p) = j - Len(p)
        BY <1>5, <2>2 DEF Holds
    <3>2. i \in Nat /\ j \in Nat /\ Len(p) \in Nat
        BY <1>1
    <3> QED BY <3>1, <3>2
  <2>3. CASE i \in DOMAIN p /\ s[i] = p[i] /\ j - Len(p) \in DOMAIN q /\ s[j] = q[j - Len(p)]
      BY <1>4, <1>5, <2>3
  <2>4. CASE i - Len(p) \in DOMAIN q /\ s[i] = q[i - Len(p)] /\ j \in DOMAIN p /\ s[j] = p[j]
      BY <1>4, <1>5, <2>4
  <2> QED BY <1>1, <2>1, <2>2, <2>3, <2>4
<1>6. ASSUME NEW j \in DOMAIN s PROVE s[j].token \in StepTokens(g, f, a, b)
  <2>1. CASE j \in DOMAIN p /\ s[j] = p[j]
    <3>1. PICK k \in a .. b - 1, d \in 0 .. MaxSeqLen :
              p[j].token = [request_guid |-> g, step |-> k, depth |-> d] /\ d < EntryAt(f, k)
        BY <1>2, <2>1
    <3>2. k \in a .. b
        OBVIOUS
    <3> QED BY <2>1, <3>1, <3>2, StepTokensMember
  <2>2. CASE j - Len(p) \in DOMAIN q /\ s[j] = q[j - Len(p)]
    <3>1. PICK k \in b .. b, d \in 0 .. MaxSeqLen :
              /\ q[j - Len(p)].token = [request_guid |-> g, step |-> k, depth |-> d]
              /\ d < EntryAt(f, k)
        BY <1>3, <2>2
    <3>2. k \in a .. b
        OBVIOUS
    <3> QED BY <2>2, <3>1, <3>2, StepTokensMember
  <2> QED BY <1>1, <2>1, <2>2
<1>7. ASSUME NEW t \in StepTokens(g, f, a, b) PROVE \E j \in DOMAIN s : s[j].token = t
  <2>1. PICK k \in a .. b, d \in 0 .. MaxSeqLen :
            t = [request_guid |-> g, step |-> k, depth |-> d] /\ d < EntryAt(f, k)
      BY StepTokensMember
  <2>2. CASE k = b
    <3>1. k \in b .. b
        BY <2>2
    <3>2. t \in StepTokens(g, f, b, b)
        BY <2>1, <3>1, StepTokensMember
    <3>3. PICK j \in DOMAIN q : q[j].token = t
        BY <3>2 DEF Holds
    <3> QED BY <1>1, <3>3
  <2>3. CASE k # b
    <3>1. k \in a .. b - 1
        BY <2>3
    <3>2. t \in StepTokens(g, f, a, b - 1)
        BY <2>1, <3>1, StepTokensMember
    <3>3. PICK j \in DOMAIN p : p[j].token = t
        BY <3>2 DEF Holds
    <3> QED BY <1>1, <3>3
  <2> QED BY <2>2, <2>3
<1>8. Holds(s, g, f, a, b)
    BY <1>5, <1>6, <1>7 DEF Holds
<1> QED BY <1>8 DEF s

\* There are as many rows as tokens.
LEMMA HoldsSize ==
    ASSUME NEW s \in Seq(GradientRow), NEW g, NEW f, NEW a, NEW b, Holds(s, g, f, a, b)
    PROVE  Len(s) = Cardinality(StepTokens(g, f, a, b))
<1> DEFINE tokens == StepTokens(g, f, a, b)
           h == [j \in 1 .. Len(s) |-> s[j].token]
<1>1. /\ Len(s) \in Nat /\ DOMAIN s = 1 .. Len(s)
      /\ \A i, j \in 1 .. Len(s) : s[i].token = s[j].token => i = j
      /\ {s[j].token : j \in 1 .. Len(s)} = tokens
    BY DEF Holds
<1>2. h \in Bijection(1 .. Len(s), tokens)
  <2>1. /\ h \in [1 .. Len(s) -> tokens]
        /\ \A i, j \in 1 .. Len(s) : h[i] = h[j] => i = j
        /\ \A t \in tokens : \E j \in 1 .. Len(s) : h[j] = t
    <3> HIDE DEF tokens
    <3> QED BY <1>1
  <2> HIDE DEF h, tokens
  <2> QED BY <2>1 DEF Bijection, Injection, Surjection, IsInjective
<1>3. ExistsBijection(1 .. Len(s), tokens)
    BY <1>2 DEF ExistsBijection
<1> QED BY <1>1, <1>3, FS_CountingElements

-----------------------------------------------------------------------------
(* The order of the training steps: in the order of the guids, each request   *)
(* from its first step on.                                                    *)

\* The step that comes after the one of a chunk.
After(c) == [guid |-> c.info.request_guid, next |-> c.step + 1]

\* The request the gradient's last token is of, and the step after its own.
LastDone ==
    IF gradient = << >> THEN [guid |-> NoGuid, next |-> 0]
    ELSE LET t == gradient[Len(gradient)].token
         IN  [guid |-> t.request_guid, next |-> t.step + 1]

LastLaunched == IF backward = << >> THEN LastDone ELSE After(backward[Len(backward)])

\* A chunk is of the next step of the request of the last chunk, or of the first
\* step of a later request.
Follows(c, last) ==
    \/ c.info.request_guid = last.guid /\ c.step = last.next
    \/ c.info.request_guid > last.guid /\ c.step = 0

\* A chunk that is a whole entry, with the optimizer tasks of its step; the
\* weights are saved only after an update.
WholeChunk(c) ==
    LET f     == all_requests[c.info.request_guid].finetuning
        tasks == c.info.optimizer_tasks
    IN  /\ Trainable(c)
        /\ IsFinetuning(c.info.request_guid)
        /\ c.info.first_token_depth_in_request = 0
        /\ c.info.num_tokens_in_batch = EntryAt(f, c.step)
        /\ tasks = set_optimizer_tasks(f.max_training_steps, c.step,
                                       f.gradient_accumulation_steps)
        /\ tasks.save_updated_weights => tasks.update_weights

\* The backward passes are launched in order.
LaunchOrder ==
    \A k \in DOMAIN backward :
        /\ WholeChunk(backward[k])
        /\ k = 1 => Follows(backward[k], LastDone)
        /\ k > 1 => Follows(backward[k], After(backward[k - 1]))

\* The finetuning row's backward pass is launched, and its step not yet counted.
Awaited ==
    /\ PeftEnabled /\ PeftRow \in ActiveRow(old_bc)
    /\ step \in {"result", "carry", "admit", "peft"}

\* The queue is in the order of the guids, from the last request launched on.
QueueOrder(last) ==
    /\ \A k, l \in DOMAIN peft_queue : k < l => peft_queue[k] < peft_queue[l]
    /\ \A k \in DOMAIN peft_queue : last.guid <= peft_queue[k]

\* The steps counted are those launched, the awaited one excepted.
StepsTaken(last) ==
    /\ last.guid # NoGuid =>
          LET done == all_requests[last.guid].completed_training_steps
          IN  /\ last.guid \in Guid /\ IsFinetuning(last.guid)
              /\ last.next = IF Awaited THEN done + 1 ELSE done
    /\ Awaited => GuidOf(old_bc, PeftRow) = last.guid
    /\ \A g \in Guid : IsFinetuning(g) =>
          /\ all_requests[g].dataset_entry_processed_tokens = 0
          /\ g > last.guid => all_requests[g].completed_training_steps = 0

\* No entry of an accepted dataset is longer than a sequence can be.
EntriesAccepted ==
    \A g \in Guid : IsFinetuning(g) =>
        LET dataset == all_requests[g].finetuning.dataset
        IN  \A e \in DOMAIN dataset : dataset[e] <= MaxSeqLen

\* The optimizer tasks of a launched row are those of its request's next step.
RowTasks ==
    step # "schedule" /\ PeftEnabled /\ PeftRow \in ActiveRow(old_bc) =>
        LET info  == old_bc.requestsInfo[PeftRow]
            r     == all_requests[info.request_guid]
            tasks == info.optimizer_tasks
        IN  /\ tasks = set_optimizer_tasks(r.finetuning.max_training_steps,
                                           r.completed_training_steps,
                                           r.finetuning.gradient_accumulation_steps)
            /\ tasks.save_updated_weights => tasks.update_weights

\* A step that changes neither the queue of the finetuning requests nor one of them.
FinetuningKept ==
    /\ peft_queue' = peft_queue
    /\ \A g \in Guid :
          /\ IsFinetuning(g)' <=> IsFinetuning(g)
          /\ IsFinetuning(g) => all_requests'[g] = all_requests[g]

\* A finetuning request of f enters.
Registered(f) ==
    LET g == next_available_guid
    IN  /\ g \in Guid
        /\ peft_queue' = Append(peft_queue, g)
        /\ all_requests'[g] = [NoRequest EXCEPT !.req_type = "REQ_FINETUNING",
                                                !.finetuning = f]
        /\ \A h \in Guid : h # g => all_requests'[h] = all_requests[h]
        /\ \A e \in DOMAIN f.dataset : f.dataset[e] <= MaxSeqLen
        /\ UNCHANGED batch

\* A registration of a finetuning request that is not refused.
LEMMA RegisterPeftStep ==
    ASSUME TypeInvariant, UnusedGuids, NEW f \in Finetunings, register_new_peft_request(f)
    PROVE  FinetuningKept \/ Registered(f)
<1> PICK g : g = next_available_guid
    OBVIOUS
<1>1. g \in Guid /\ UNCHANGED batch
    BY RegisterPeftFacts
<1>2. CASE \E e \in DOMAIN f.dataset : f.dataset[e] > MaxSeqLen
  <2>1. UNCHANGED << all_requests, peft_queue >>
      BY <1>2 DEF register_new_peft_request, Refuse, peft_queue
  <2> QED BY <2>1 DEF FinetuningKept, IsFinetuning
<1>3. CASE ~\E e \in DOMAIN f.dataset : f.dataset[e] > MaxSeqLen
  <2>1. /\ peft_queue' = Append(peft_queue, g)
        /\ all_requests' = [all_requests EXCEPT ![g] =
               [NoRequest EXCEPT !.req_type = "REQ_FINETUNING", !.finetuning = f]]
      BY <1>3 DEF register_new_peft_request, peft_queue
  <2>2. /\ all_requests'[g]
              = [NoRequest EXCEPT !.req_type = "REQ_FINETUNING", !.finetuning = f]
        /\ \A h \in Guid : h # g => all_requests'[h] = all_requests[h]
      BY <1>1, <2>1 DEF TypeInvariant, TypeOK
  <2>3. f.dataset \in Seq(Nat) /\ MaxSeqLen \in Nat
      BY ConstantsAssumption DEF Finetuning
  <2>4. \A e \in DOMAIN f.dataset : f.dataset[e] <= MaxSeqLen
      BY <1>3, <2>3
  <2> QED BY <1>1, <2>1, <2>2, <2>4 DEF Registered
<1> QED BY <1>2, <1>3

\* What the steps of the manager do to the finetuning requests.
LEMMA FinetuningStep ==
    ASSUME TypeInvariant, UnusedGuids, [Next]_vars
    PROVE  \/ FinetuningKept \/ TrainRow \/ PopPeft
           \/ \E f \in Finetunings : Registered(f)
<1>1. ASSUME UNCHANGED << all_requests, peft_queue >> PROVE FinetuningKept
    BY <1>1 DEF FinetuningKept, IsFinetuning
<1>2. ASSUME NEW prompt \in Prompts, register_new_request(prompt)
      PROVE  FinetuningKept
  <2> PICK g : g = next_available_guid
      OBVIOUS
  <2>1. /\ UNCHANGED peft_queue
        /\ \/ UNCHANGED all_requests
           \/ \E request : /\ all_requests' = [all_requests EXCEPT ![g] = request]
                           /\ request.req_type = "REQ_INFERENCE"
    <3>1. CASE prompt.size >= MaxSeqLen
        BY <1>2, <3>1 DEF register_new_request, Refuse, peft_queue
    <3>2. CASE ~(prompt.size >= MaxSeqLen)
      <4>1. PICK request :
                request = [NoRequest EXCEPT !.req_type = "REQ_INFERENCE",
                                     !.tokens = Bos + prompt.size,
                                     !.initial_len = Bos + prompt.size,
                                     !.eos = prompt.eos,
                                     !.max_sequence_length = prompt.max_sequence_length]
          OBVIOUS
      <4>2. request.req_type = "REQ_INFERENCE"
          BY <4>1 DEF NoRequest
      <4>3. UNCHANGED peft_queue /\ all_requests' = [all_requests EXCEPT ![g] = request]
          BY <1>2, <3>2, <4>1 DEF register_new_request, peft_queue
      <4> QED BY <4>2, <4>3
    <3> QED BY <3>1, <3>2
  <2>2. ASSUME NEW request, all_requests' = [all_requests EXCEPT ![g] = request],
               request.req_type = "REQ_INFERENCE"
        PROVE  FinetuningKept
    <3>1. g \in Guid
        BY <1>2, RegisterFacts
    <3>2. all_requests[g].req_type = "NONE"
        BY <3>1 DEF UnusedGuids, Guid
    <3>3. /\ all_requests'[g].req_type = "REQ_INFERENCE"
          /\ \A h \in Guid : h # g => all_requests'[h] = all_requests[h]
        BY <2>2, <3>1 DEF TypeInvariant, TypeOK
    <3> QED BY <2>1, <3>2, <3>3 DEF FinetuningKept, IsFinetuning
  <2> QED BY <1>1, <2>1, <2>2
<1>3. CASE AppendTokens
  <2>1. peft_queue' = peft_queue
      BY <1>3 DEF AppendTokens, peft_queue
  <2>2. \A g \in Guid : all_requests'[g].req_type = all_requests[g].req_type
      BY <1>3, AppendTokensRequest
  <2>3. \A g \in Guid : IsFinetuning(g) => all_requests'[g] = all_requests[g]
      BY <1>3, AppendTokensOther DEF IsFinetuning, IsInference
  <2> QED BY <2>1, <2>2, <2>3 DEF FinetuningKept, IsFinetuning
<1>4. ASSUME NEW i \in InfrRow, CompleteRequest(i)
      PROVE  FinetuningKept
  <2>1. OldRow(i) /\ peft_queue' = peft_queue
      BY <1>4 DEF CompleteRequest, peft_queue
  <2>2. PICK h \in Guid : h = GuidOf(old_bc, i)
      BY <2>1, OldRowType
  <2>3. IsInference(h)
      BY <2>1, <2>2 DEF OldRow, GuidOf
  <2>4. all_requests' = [all_requests EXCEPT
                           ![h] = [all_requests[h] EXCEPT !.status = "COMPLETED"]]
      BY <1>4, <2>2 DEF CompleteRequest, GuidOf
  <2>5. all_requests[h] \in Request /\ all_requests \in [Guid -> Request]
      BY DEF TypeInvariant, TypeOK
  <2>6. /\ all_requests'[h].req_type = all_requests[h].req_type
        /\ \A g \in Guid : g # h => all_requests'[g] = all_requests[g]
      BY <2>4, <2>5, CompletedType
  <2> QED BY <2>1, <2>3, <2>6 DEF FinetuningKept, IsFinetuning, IsInference
<1>5. CASE \/ Inference \/ CarryDone \/ AdmitDone \/ TrainSkip \/ SchedulePeft \/ ScheduleNone
           \/ (\E i \in InfrRow : \/ CarrySkip(i) \/ CarryDecoding(i) \/ CarryPrompt(i)
                                  \/ AdmitSkip(i) \/ AdmitRequest(i))
           \/ (\E finished \in BOOLEAN : set_inference_finished(finished))
           \/ UNCHANGED vars
  <2>1. UNCHANGED << all_requests, peft_queue >>
      BY <1>5 DEF Inference, CarryDone, AdmitDone, TrainSkip, SchedulePeft, ScheduleNone,
                  Launch, CarrySkip, CarryDecoding, CarryPrompt, AdmitSkip, AdmitRequest,
                  set_inference_finished, vars, registry, peft_queue
  <2> QED BY <1>1, <2>1
<1> QED BY <1>2, <1>3, <1>4, <1>5, RegisterPeftStep DEF Next, Server, Client, PrepareNextBatch

\* What a registered finetuning request is to train never changes.
LEMMA FinetuningPersists ==
    ASSUME TypeInvariant, UnusedGuids, [Next]_vars, NEW g \in Guid, IsFinetuning(g)
    PROVE  IsFinetuning(g)' /\ all_requests'[g].finetuning = all_requests[g].finetuning
<1>1. CASE FinetuningKept
    BY <1>1 DEF FinetuningKept
<1>2. CASE TrainRow
  <2>1. PICK h : h = GuidOf(old_bc, PeftRow)
      OBVIOUS
  <2>2. /\ g # h => all_requests'[g] = all_requests[g]
        /\ g = h => /\ all_requests'[g].req_type = all_requests[g].req_type
                    /\ all_requests'[g].finetuning = all_requests[g].finetuning
      BY <1>2, <2>1, TrainFacts
  <2> QED BY <2>2 DEF IsFinetuning
<1>3. CASE PopPeft
    BY <1>3 DEF PopPeft, IsFinetuning
<1>4. ASSUME NEW f \in Finetunings, Registered(f)
      PROVE  all_requests'[g] = all_requests[g]
  <2>1. next_available_guid \in Guid
      BY <1>4 DEF Registered
  <2>2. all_requests[next_available_guid].req_type = "NONE"
      BY <2>1 DEF UnusedGuids, Guid
  <2>3. g # next_available_guid
      BY <2>2 DEF IsFinetuning
  <2> QED BY <1>4, <2>3 DEF Registered
<1> QED BY <1>1, <1>2, <1>3, <1>4, FinetuningStep DEF IsFinetuning

-----------------------------------------------------------------------------
(* The manager keeps the order while no backward pass is launched. *)

\* The steps the server takes between two launches, and the clients'.
ManagerStep == PrepareNextBatch \/ Client \/ UNCHANGED vars

LEMMA ManagerNext == ManagerStep => [Next]_vars
BY DEF ManagerStep, Next, Server

\* A step that the finetuning row waits for is awaited until it is counted.
LEMMA AwaitedKept ==
    ASSUME ManagerStep, ~TrainRow
    PROVE  (Awaited' <=> Awaited) /\ (Awaited => old_bc' = old_bc)
<1>1. CASE old_bc' = old_bc /\ step' = step
    BY <1>1 DEF Awaited, ActiveRow
<1>2. CASE AppendTokens \/ CarryDone \/ AdmitDone
  <2>1. AppendTokens => step = "result" /\ step' = "carry" /\ old_bc' = old_bc
      BY DEF AppendTokens
  <2>2. CarryDone => step = "carry" /\ step' = "admit" /\ old_bc' = old_bc
      BY DEF CarryDone
  <2>3. AdmitDone => step = "admit" /\ step' = "peft" /\ old_bc' = old_bc
      BY DEF AdmitDone
  <2> QED BY <1>2, <2>1, <2>2, <2>3 DEF Awaited, ActiveRow
<1>3. CASE TrainSkip
  <2>1. PeftEnabled => PeftRow \notin ActiveRow(old_bc)
      BY <1>3 DEF TrainSkip, ActiveRow
  <2>2. old_bc' = old_bc
      BY <1>3 DEF TrainSkip
  <2> QED BY <2>1, <2>2 DEF Awaited, ActiveRow
<1>4. CASE SchedulePeft \/ ScheduleNone
  <2>1. step = "schedule" /\ step' = "inference"
      BY <1>4 DEF SchedulePeft, ScheduleNone, Launch
  <2> QED BY <2>1 DEF Awaited
<1>5. CASE \/ \E i \in InfrRow : \/ CarrySkip(i) \/ CompleteRequest(i) \/ CarryDecoding(i)
                                 \/ CarryPrompt(i) \/ AdmitSkip(i) \/ AdmitRequest(i)
           \/ PopPeft \/ UNCHANGED vars
    BY <1>1, <1>5 DEF CarrySkip, CompleteRequest, CarryDecoding, CarryPrompt, AdmitSkip,
                      AdmitRequest, PopPeft, vars, batch
<1>6. CASE Client
  <2>1. UNCHANGED batch
    <3>1. \A prompt : register_new_request(prompt) => UNCHANGED batch
        BY DEF register_new_request, Refuse
    <3>2. \A f : register_new_peft_request(f) => UNCHANGED batch
        BY DEF register_new_peft_request, Refuse
    <3>3. \A finished : set_inference_finished(finished) => UNCHANGED batch
        BY DEF set_inference_finished
    <3> QED BY <1>6, <3>1, <3>2, <3>3 DEF Client
  <2> QED BY <1>1, <2>1 DEF batch
<1> QED BY <1>2, <1>3, <1>4, <1>5, <1>6 DEF ManagerStep, PrepareNextBatch

\* The order, for the last chunk launched.
Order(last) == QueueOrder(last) /\ StepsTaken(last) /\ EntriesAccepted

Last == [guid : Nat, next : Nat]

\* Steps that do not touch the finetuning requests.
LEMMA KeptOrder ==
    ASSUME NEW last, Order(last), ManagerStep, ~TrainRow, FinetuningKept
    PROVE  Order(last)'
<1>1. QueueOrder(last)'
    BY DEF Order, QueueOrder, FinetuningKept
<1>2. /\ Awaited' <=> Awaited
      /\ Awaited => GuidOf(old_bc, PeftRow)' = GuidOf(old_bc, PeftRow)
    BY AwaitedKept DEF GuidOf
<1>3. StepsTaken(last)'
    BY <1>2 DEF Order, StepsTaken, FinetuningKept
<1>4. EntriesAccepted'
    BY DEF Order, EntriesAccepted, FinetuningKept
<1> QED BY <1>1, <1>3, <1>4 DEF Order

\* A request leaves the queue.
LEMMA PopOrder ==
    ASSUME TypeInvariant, NEW last, Order(last), PopPeft
    PROVE  Order(last)'
<1>1. /\ peft_queue # << >> /\ peft_queue' = Tail(peft_queue) /\ peft_queue \in Seq(Guid)
      /\ UNCHANGED << all_requests, batch >>
    BY GuidTypes DEF PopPeft, peft_queue
<1>2. \A k \in DOMAIN peft_queue' : k + 1 \in DOMAIN peft_queue
                                    /\ peft_queue'[k] = peft_queue[k + 1] /\ k \in Nat
    BY <1>1, TailFacts
<1>3. ASSUME NEW k \in DOMAIN peft_queue', NEW l \in DOMAIN peft_queue', k < l
      PROVE  peft_queue'[k] < peft_queue'[l]
  <2>1. k + 1 < l + 1
      BY <1>2, <1>3
  <2> QED BY <1>2, <2>1 DEF Order, QueueOrder
<1>4. QueueOrder(last)'
    BY <1>2, <1>3 DEF Order, QueueOrder
<1>5. (Awaited' <=> Awaited) /\ old_bc' = old_bc
    BY <1>1 DEF batch, Awaited, ActiveRow
<1>6. StepsTaken(last)' /\ EntriesAccepted'
    BY <1>1, <1>5 DEF Order, StepsTaken, EntriesAccepted, GuidOf, IsFinetuning
<1> QED BY <1>4, <1>6 DEF Order

\* A request enters, with a larger guid than all before it.
LEMMA RegisterOrder ==
    ASSUME TypeInvariant, UnusedGuids, NEW last \in Last, Order(last),
           NEW f \in Finetunings, Registered(f)
    PROVE  Order(last)'
<1> PICK g \in Guid : g = next_available_guid
    BY DEF Registered
<1>1. /\ peft_queue' = Append(peft_queue, g) /\ peft_queue \in Seq(Guid)
      /\ \A k \in DOMAIN peft_queue : peft_queue[k] < g
      /\ g \in Nat /\ g > 0
    BY GuidTypes DEF Registered, Guid
<1>2. /\ all_requests'[g].req_type = "REQ_FINETUNING"
      /\ all_requests'[g].finetuning = f
      /\ all_requests'[g].completed_training_steps = 0
      /\ all_requests'[g].dataset_entry_processed_tokens = 0
    BY DEF Registered, NoRequest
<1>3. \A h \in Guid : h # g => all_requests'[h] = all_requests[h]
    BY DEF Registered
<1>4. \A e \in DOMAIN f.dataset : f.dataset[e] <= MaxSeqLen
    BY DEF Registered
<1>5. ~IsFinetuning(g)
    BY DEF UnusedGuids, IsFinetuning, Guid
<1>6. last.guid # g /\ last.guid < g
  <2>1. CASE last.guid = NoGuid
      BY <1>1, <2>1 DEF NoGuid
  <2>2. CASE last.guid # NoGuid
    <3>1. last.guid \in Guid /\ IsFinetuning(last.guid)
        BY <2>2 DEF Order, StepsTaken
    <3> QED BY <3>1 DEF UnusedGuids, IsFinetuning, Guid
  <2> QED BY <2>1, <2>2
<1>7. QueueOrder(last)'
  <2>1. /\ DOMAIN peft_queue' = DOMAIN peft_queue \cup {Len(peft_queue) + 1}
        /\ \A k \in DOMAIN peft_queue : peft_queue'[k] = peft_queue[k]
        /\ peft_queue'[Len(peft_queue) + 1] = g
        /\ \A k \in DOMAIN peft_queue : k < Len(peft_queue) + 1
        /\ Len(peft_queue) \in Nat /\ DOMAIN peft_queue \subseteq Nat
      BY <1>1, AppendFacts
  <2>2. ASSUME NEW k \in DOMAIN peft_queue', NEW l \in DOMAIN peft_queue', k < l
        PROVE  peft_queue'[k] < peft_queue'[l]
    <3>1. k \in DOMAIN peft_queue
        BY <2>1, <2>2
    <3> QED BY <1>1, <2>1, <2>2, <3>1 DEF Order, QueueOrder
  <2>3. ASSUME NEW k \in DOMAIN peft_queue' PROVE last.guid <= peft_queue'[k]
      BY <1>1, <1>6, <2>1, <2>3 DEF Order, QueueOrder, Last
  <2> QED BY <2>2, <2>3 DEF QueueOrder
<1>8. (Awaited' <=> Awaited) /\ old_bc' = old_bc
    BY DEF Registered, batch, Awaited, ActiveRow
<1>9. StepsTaken(last)'
    BY <1>2, <1>3, <1>5, <1>6, <1>8 DEF Order, StepsTaken, GuidOf, IsFinetuning
<1>10. EntriesAccepted'
    BY <1>2, <1>3, <1>4 DEF Order, EntriesAccepted, IsFinetuning
<1> QED BY <1>7, <1>9, <1>10 DEF Order

\* The step of a row that is a whole entry is counted, and the next entry starts.
LEMMA TrainedEntry ==
    ASSUME TypeInvariant, EntriesWhole, TrainRow
    PROVE  LET g == GuidOf(old_bc, PeftRow)
           IN  /\ all_requests'[g].completed_training_steps
                     = all_requests[g].completed_training_steps + 1
               /\ all_requests'[g].dataset_entry_processed_tokens = 0
<1> PICK g : g = GuidOf(old_bc, PeftRow)
    OBVIOUS
<1> PICK info : info = old_bc.requestsInfo[PeftRow]
    OBVIOUS
<1>1. /\ PeftEnabled /\ PeftRow \in ActiveRow(old_bc) /\ step = "peft"
      /\ g \in Guid /\ all_requests[g] \in Request
    BY TrainFacts DEF TrainRow
<1>2. \/ all_requests'[g] = [Trained(all_requests[g], info) EXCEPT !.status = "COMPLETED"]
      \/ all_requests'[g] = Trained(all_requests[g], info)
    BY TrainFacts
<1>3. info.first_token_depth_in_request + info.num_tokens_in_batch
          = EntrySize(all_requests[g])
    BY <1>1 DEF EntriesWhole, EndDepth, GuidOf
<1> PICK trained : trained = Trained(all_requests[g], info)
    OBVIOUS
<1>4. /\ DOMAIN trained = DOMAIN all_requests[g]
      /\ trained.completed_training_steps = all_requests[g].completed_training_steps + 1
      /\ trained.dataset_entry_processed_tokens = 0
    BY <1>1, <1>3 DEF Trained, Request
<1> QED BY <1>1, <1>2, <1>4 DEF Request

\* A step is counted when its row, which is a whole entry, has been trained on.
LEMMA TrainOrder ==
    ASSUME TypeInvariant, EntriesWhole, NEW last \in Last, Order(last), TrainRow
    PROVE  Order(last)'
<1> PICK g : g = GuidOf(old_bc, PeftRow)
    OBVIOUS
<1>1. /\ PeftEnabled /\ PeftRow \in ActiveRow(old_bc) /\ step = "peft" /\ step' = "schedule"
      /\ g \in Guid /\ all_requests[g] \in Request /\ IsFinetuning(g)
      /\ peft_queue' = peft_queue /\ old_bc' = old_bc
    BY TrainFacts DEF peft_queue
<1>2. \A h \in Guid : h # g => all_requests'[h] = all_requests[h]
    BY TrainFacts
<1>3. /\ all_requests'[g].req_type = all_requests[g].req_type
      /\ all_requests'[g].finetuning = all_requests[g].finetuning
    BY TrainFacts
<1>4. /\ all_requests'[g].completed_training_steps
             = all_requests[g].completed_training_steps + 1
      /\ all_requests'[g].dataset_entry_processed_tokens = 0
    BY TrainedEntry
<1>5. Awaited /\ ~Awaited'
    BY <1>1 DEF Awaited
<1>6. last.guid = g /\ g # NoGuid
    BY <1>1, <1>5 DEF Order, StepsTaken, Guid, NoGuid
<1>7. QueueOrder(last)'
    BY <1>1 DEF Order, QueueOrder
<1>8. last.next = all_requests'[g].completed_training_steps
    BY <1>4, <1>5, <1>6 DEF Order, StepsTaken
<1>9. ASSUME NEW h \in Guid, IsFinetuning(h)'
       PROVE  /\ all_requests'[h].dataset_entry_processed_tokens = 0
              /\ h > last.guid => all_requests'[h].completed_training_steps = 0
  <2>1. CASE h = g
      BY <1>4, <1>6, <2>1 DEF Guid
  <2>2. CASE h # g
      BY <1>2, <1>9, <2>2 DEF Order, StepsTaken, IsFinetuning
  <2> QED BY <2>1, <2>2
<1>10. StepsTaken(last)'
    BY <1>1, <1>3, <1>5, <1>6, <1>8, <1>9 DEF StepsTaken, IsFinetuning
<1>11. EntriesAccepted'
    BY <1>1, <1>2, <1>3 DEF Order, EntriesAccepted, IsFinetuning
<1> QED BY <1>7, <1>10, <1>11 DEF Order

\* Every step of the manager but the model run keeps the order.
LEMMA ManagerOrder ==
    ASSUME TypeInvariant, UnusedGuids, EntriesWhole, NEW last \in Last, Order(last),
           ManagerStep
    PROVE  Order(last)'
<1>1. \/ FinetuningKept \/ TrainRow \/ PopPeft
      \/ \E f \in Finetunings : Registered(f)
    BY ManagerNext, FinetuningStep
<1> QED BY <1>1, KeptOrder, PopOrder, RegisterOrder, TrainOrder

-----------------------------------------------------------------------------
(* What the training side keeps: the launches in order, and the gradients and *)
(* the updates of the steps done.                                             *)

\* The gradient holds the tokens of the steps done since the last update of
\* their request, or, right after an update, those of the update.
Accumulated ==
    gradient # << >> =>
        LET g == LastDone.guid
            h == LastDone.next
            f == all_requests[g].finetuning
            n == f.gradient_accumulation_steps
            u == Cardinality(UpdatesOf(g, Len(weights)))
        IN  /\ g \in Guid /\ IsFinetuning(g)
            /\ InGroup(n, u, h)
            /\ Holds(gradient, g, f, IF h = u * n THEN (u - 1) * n ELSE u * n, h - 1)

\* The updates are of requests no later than that of the last step done.
UpdatesMade ==
    \A i \in DOMAIN weights :
        LET g == weights[i][1].token.request_guid
        IN  g \in Guid /\ IsFinetuning(g) /\ g <= LastDone.guid

\* The weights are saved for the finetuning requests, as they were at some update.
SavesMade ==
    \A g \in Guid : saved[g] <= Len(weights) /\ (saved[g] > 0 => IsFinetuning(g))

WindowsInvariant ==
    /\ Order(LastLaunched) /\ RowTasks
    /\ LaunchOrder /\ Accumulated
    /\ UpdatesMade /\ UpdatesUseWindows
    /\ SavesMade /\ SavedWeightsComplete

\* The last step done and the last step launched.
LEMMA LastTypes ==
    ASSUME BuffersInvariant
    PROVE  LastDone \in Last /\ LastLaunched \in Last
<1>1. LastDone \in Last
  <2>1. CASE gradient = << >>
      BY <2>1 DEF LastDone, Last, NoGuid
  <2>2. CASE gradient # << >>
    <3>1. gradient \in Seq(GradientRow)
        BY DEF BuffersInvariant, TrainingTypeOK
    <3>2. gradient[Len(gradient)] \in GradientRow
        BY <2>2, <3>1
    <3>3. PICK t \in Token : t = gradient[Len(gradient)].token
        BY <3>2 DEF GradientRow
    <3>4. t.request_guid \in Nat /\ t.step + 1 \in Nat
        BY <3>3 DEF Token, Guid
    <3> QED BY <2>2, <3>3, <3>4 DEF LastDone, Last
  <2> QED BY <2>1, <2>2
<1>2. CASE backward = << >>
    BY <1>1, <1>2 DEF LastLaunched
<1>3. CASE backward # << >>
  <2>1. backward \in Seq(Chunk)
      BY DEF BuffersInvariant, TrainingTypeOK
  <2>2. Len(backward) \in DOMAIN backward
      BY <1>3, <2>1
  <2>3. PICK c : c = backward[Len(backward)] /\ Trainable(c)
      BY <2>2 DEF BuffersInvariant
  <2>4. c.info.request_guid \in Nat /\ c.step + 1 \in Nat
      BY <2>3 DEF Trainable, Chunk, Guid
  <2> QED BY <1>1, <1>3, <2>3, <2>4 DEF LastLaunched, After, Last
<1> QED BY <1>1, <1>2, <1>3

\* Until its step is counted, the request of the finetuning row stays as it is.
LEMMA FinetuningRowKept ==
    ASSUME TypeInvariant, RowsInvariant, [Next]_vars, ~(SchedulePeft \/ ScheduleNone),
           step' # "schedule", PeftEnabled, (PeftRow \in ActiveRow(old_bc))'
    PROVE  LET g == GuidOf(old_bc, PeftRow)
           IN  /\ old_bc' = old_bc /\ step # "schedule" /\ PeftRow \in ActiveRow(old_bc)
               /\ g \in Guid /\ IsFinetuning(g)
               /\ all_requests'[g] = all_requests[g]
<1>1. UnusedGuids
    BY DEF RowsInvariant
<1>2. old_bc' = old_bc /\ step # "schedule"
    BY Zenon
       DEF Next, Server, Client, PrepareNextBatch, Inference, AppendTokens, CarrySkip,
                CompleteRequest, CarryDecoding, CarryPrompt, CarryDone, AdmitSkip,
                AdmitRequest, AdmitDone, TrainRow, TrainSkip, PopPeft,
                register_new_request, register_new_peft_request, Refuse,
                set_inference_finished, vars, batch
<1>3. PeftRow \in ActiveRow(old_bc) /\ PeftRow \in Row
    BY <1>2, RowSubsets DEF ActiveRow
<1>4. PICK g \in Guid : g = GuidOf(old_bc, PeftRow)
    BY <1>3 DEF TypeInvariant, RowsRegistered
<1>5. IsFinetuning(g)
  <2>1. peft_queue # << >> /\ g = Head(peft_queue) /\ peft_queue \in Seq(Guid)
      BY <1>2, <1>3, <1>4, GuidTypes DEF RowsInvariant, FinetuningRow
  <2>2. 1 \in DOMAIN peft_queue /\ g = peft_queue[1]
      BY <2>1, TailFacts
  <2> QED BY <2>2 DEF TypeInvariant, QueuesWellFormed, peft_queue
<1>6. ~TrainRow
    BY DEF TrainRow
<1>7. all_requests'[g] = all_requests[g]
  <2>1. CASE PopPeft
      BY <2>1 DEF PopPeft
  <2>2. ASSUME NEW f \in Finetunings, Registered(f)
        PROVE  all_requests'[g] = all_requests[g]
    <3>1. next_available_guid \in Guid
        BY <2>2 DEF Registered
    <3>2. all_requests[next_available_guid].req_type = "NONE"
        BY <1>1, <3>1 DEF UnusedGuids, Guid
    <3>3. g # next_available_guid
        BY <1>5, <3>2 DEF IsFinetuning
    <3> QED BY <2>2, <3>3 DEF Registered
  <2> QED BY <1>1, <1>5, <1>6, <2>1, <2>2, FinetuningStep DEF FinetuningKept
<1> QED BY <1>2, <1>3, <1>4, <1>5, <1>7

\* The row that is launched has the tasks of its request's next step.
LEMMA NextRowTasks ==
    ASSUME TypeInvariant, RowsInvariant, RowTasks, [Next]_vars
    PROVE  RowTasks'
<1>0. UnderConstruction
    BY DEF RowsInvariant
<1> SUFFICES ASSUME step' # "schedule", PeftEnabled, (PeftRow \in ActiveRow(old_bc))'
             PROVE  RowTasks'
    BY DEF RowTasks
<1>1. CASE ScheduleNone
  <2>1. old_bc' = new_bc
      BY <1>1 DEF ScheduleNone, Launch
  <2>2. PeftRow \notin ActiveRow(new_bc)
      BY <1>0, RowSubsets DEF UnderConstruction
  <2> QED BY <2>1, <2>2 DEF ActiveRow
<1>2. CASE SchedulePeft
  <2> DEFINE g       == Head(pending_peft_request_queue)
             request == all_requests[g]
             n       == num_peft_tokens(request)
             tasks   == set_optimizer_tasks(request.finetuning.max_training_steps,
                                            request.completed_training_steps,
                                            request.finetuning.gradient_accumulation_steps)
             info    == [NoRequestInfo EXCEPT
                           !.request_guid = g,
                           !.first_token_depth_in_request =
                               request.dataset_entry_processed_tokens,
                           !.first_token_offset_in_batch = new_bc.num_tokens,
                           !.num_tokens_in_batch = n,
                           !.max_sequence_length = request.max_sequence_length,
                           !.peft_bwd = TRUE,
                           !.optimizer_tasks = tasks]
  <2>1. /\ PeftAsserts(request, tasks)
        /\ Launch(IF n > 0 THEN PutPeftRow(new_bc, info) ELSE new_bc)
      BY <1>2 DEF SchedulePeft
  <2>2. info.request_guid = g /\ info.optimizer_tasks = tasks
      BY DEF NoRequestInfo
  <2> HIDE DEF info, n, tasks
  <2>3. n > 0
    <3>1. PeftRow \notin ActiveRow(new_bc)
        BY <1>0, RowSubsets DEF UnderConstruction
    <3> QED BY <2>1, <3>1 DEF Launch, ActiveRow
  <2>4. old_bc' = PutPeftRow(new_bc, info) /\ all_requests' = all_requests
      BY <2>1, <2>3 DEF Launch, registry
  <2>5. old_bc'.requestsInfo[PeftRow] = info
      BY <2>4, RowSubsets DEF PutPeftRow, TypeInvariant, TypeOK, BatchConfig
  <2>6. tasks.save_updated_weights => tasks.update_weights
      BY <2>1, <2>3 DEF PeftAsserts, n
  <2>7. all_requests'[g] = request
      BY <2>4
  <2> HIDE DEF g
  <2> QED BY <2>2, <2>5, <2>6, <2>7 DEF RowTasks, tasks
<1>3. CASE ~(SchedulePeft \/ ScheduleNone)
    BY <1>3, FinetuningRowKept DEF RowTasks, GuidOf
<1> QED BY <1>1, <1>2, <1>3

\* What the training side says of the requests is of what they are to train.
Done == Accumulated /\ UpdatesMade /\ UpdatesUseWindows /\ SavesMade /\ SavedWeightsComplete

\* Steps that change neither the gradients nor the weights.
LEMMA DoneKept ==
    ASSUME TypeInvariant, UnusedGuids, [Next]_vars, Done,
           UNCHANGED << gradient, weights, saved >>
    PROVE  Done'
<1>1. \A g \in Guid : IsFinetuning(g) =>
          IsFinetuning(g)' /\ all_requests'[g].finetuning = all_requests[g].finetuning
    BY FinetuningPersists
<1>2. LastDone' = LastDone
    BY DEF LastDone
<1>3. \A g, n : UpdatesOf(g, n)' = UpdatesOf(g, n)
    BY DEF UpdatesOf
<1>4. UpdatesMade'
    BY <1>1, <1>2 DEF Done, UpdatesMade
<1>5. Accumulated'
    BY <1>1, <1>2, <1>3 DEF Done, Accumulated
<1>6. UpdatesUseWindows'
  <2> SUFFICES ASSUME NEW i \in DOMAIN weights
               PROVE  LET g      == weights[i][1].token.request_guid
                          window == Window(g, Cardinality(UpdatesOf(g, i)))'
                      IN  /\ Len(weights[i]) = Cardinality(window)
                          /\ {weights[i][j].token : j \in DOMAIN weights[i]} = window
      BY <1>3 DEF UpdatesUseWindows
  <2> PICK g : g = weights[i][1].token.request_guid
      OBVIOUS
  <2>1. all_requests'[g].finetuning = all_requests[g].finetuning
      BY <1>1 DEF Done, UpdatesMade
  <2>2. \A k : Window(g, k)' = Window(g, k)
      BY <2>1 DEF Window
  <2> QED BY <1>3, <2>2 DEF Done, UpdatesUseWindows
<1>7. SavesMade'
    BY <1>1 DEF Done, SavesMade
<1>8. SavedWeightsComplete'
    BY <1>1, <1>3 DEF Done, SavesMade, SavedWeightsComplete
<1> QED BY <1>4, <1>5, <1>6, <1>7, <1>8 DEF Done

\* The chunks that wait for their backward pass stay as they are.
LEMMA ChunkKept ==
    ASSUME TypeInvariant, UnusedGuids, [Next]_vars, NEW c, WholeChunk(c)
    PROVE  WholeChunk(c)'
<1> PICK g : g = c.info.request_guid
    OBVIOUS
<1>1. g \in Guid /\ IsFinetuning(g)
    BY DEF WholeChunk, Trainable
<1>2. IsFinetuning(g)' /\ all_requests'[g].finetuning = all_requests[g].finetuning
    BY <1>1, FinetuningPersists
<1> QED BY <1>2 DEF WholeChunk, Trainable

\* Every step but the forward and the backward pass.
LEMMA ManagerWindows ==
    ASSUME TypeInvariant, RowsInvariant, BuffersInvariant, EntriesWhole, WindowsInvariant,
           ManagerStep, UNCHANGED training
    PROVE  WindowsInvariant'
<1>0. UnusedGuids /\ [Next]_vars
    BY ManagerNext DEF RowsInvariant
<1>1. UNCHANGED << backward, gradient, weights, saved >>
    BY DEF training
<1>2. LastDone' = LastDone /\ LastLaunched' = LastLaunched
    BY <1>1 DEF LastDone, LastLaunched
<1>3. Order(LastLaunched)'
  <2> PICK last \in Last : last = LastLaunched
      BY LastTypes
  <2>1. Order(last)'
      BY <1>0, ManagerOrder DEF WindowsInvariant
  <2>2. LastLaunched' = last
      BY <1>2
  <2> QED BY <2>1, <2>2 DEF Order, QueueOrder, StepsTaken
<1>4. RowTasks'
    BY <1>0, NextRowTasks DEF WindowsInvariant
<1>5. LaunchOrder'
  <2> SUFFICES ASSUME NEW k \in DOMAIN backward
               PROVE  /\ WholeChunk(backward[k])'
                      /\ k = 1 => Follows(backward[k], LastDone)
                      /\ k > 1 => Follows(backward[k], After(backward[k - 1]))
      BY <1>1, <1>2 DEF LaunchOrder
  <2> PICK c : c = backward[k]
      OBVIOUS
  <2>1. WholeChunk(c)'
      BY <1>0, ChunkKept DEF WindowsInvariant, LaunchOrder
  <2>2. WholeChunk(backward[k])'
      BY <1>1, <2>1 DEF WholeChunk, Trainable
  <2> QED BY <2>2 DEF WindowsInvariant, LaunchOrder
<1>6. Done'
    BY <1>0, <1>1, DoneKept DEF WindowsInvariant, Done
<1> QED BY <1>3, <1>4, <1>5, <1>6 DEF WindowsInvariant, Done

\* The chunk that the forward pass launches: the next step of the request at the
\* head of the queue.
LEMMA ForwardLaunch ==
    ASSUME TypeInvariant, RowsInvariant, FinetuningFits, BuffersInvariant, EntriesWhole,
           WindowsInvariant, Forward, PeftEnabled, ~old_bc.request_completed[PeftRow]
    PROVE  \E c : /\ backward' = Append(backward, c)
                  /\ WholeChunk(c) /\ Follows(c, LastLaunched)
                  /\ peft_queue # << >> /\ c.info.request_guid = Head(peft_queue)
                  /\ c.info.request_guid = GuidOf(old_bc, PeftRow)
                  /\ c.step = all_requests[c.info.request_guid].completed_training_steps
<1> PICK last \in Last : last = LastLaunched
    BY LastTypes
<1> PICK info : info = old_bc.requestsInfo[PeftRow]
    OBVIOUS
<1> PICK g : g = info.request_guid
    OBVIOUS
<1> PICK c : c = [info |-> info, step |-> all_requests[g].completed_training_steps]
    OBVIOUS
<1>1. /\ backward' = Append(backward, c) /\ step = "inference"
    BY DEF Forward, Launched, Inference
<1>2. PeftRow \in Row /\ PeftRow \in ActiveRow(old_bc) /\ ~Awaited
    BY <1>1, RowSubsets DEF ActiveRow, Awaited
<1>3. info \in PerRequestInfo /\ g \in Guid /\ g = GuidOf(old_bc, PeftRow)
    BY <1>2 DEF TypeInvariant, TypeOK, BatchConfig, RowsRegistered, GuidOf
<1>4. /\ peft_queue # << >> /\ g = Head(peft_queue)
      /\ info.first_token_depth_in_request = all_requests[g].dataset_entry_processed_tokens
    BY <1>1, <1>2, <1>3 DEF RowsInvariant, FinetuningRow
<1>5. 1 \in DOMAIN peft_queue /\ g = peft_queue[1]
    BY <1>4, GuidTypes, TailFacts
<1>6. IsFinetuning(g) /\ all_requests[g] \in Request
    BY <1>3, <1>5 DEF TypeInvariant, TypeOK, QueuesWellFormed, peft_queue
<1>7. info.first_token_depth_in_request = 0
    BY <1>3, <1>4, <1>6 DEF WindowsInvariant, Order, StepsTaken
<1>8. info.num_tokens_in_batch = EntrySize(all_requests[g])
  <2>1. info.first_token_depth_in_request + info.num_tokens_in_batch
          = EntrySize(all_requests[g])
      BY <1>1, <1>2 DEF EntriesWhole, EndDepth
  <2>2. info.num_tokens_in_batch \in Int
      BY <1>3 DEF PerRequestInfo
  <2> QED BY <1>7, <2>1, <2>2
<1>9. info.num_tokens_in_batch \in 1 .. MaxTokens
    BY <1>2 DEF FinetuningFits
<1>10. /\ info.optimizer_tasks
            = set_optimizer_tasks(all_requests[g].finetuning.max_training_steps,
                                  all_requests[g].completed_training_steps,
                                  all_requests[g].finetuning.gradient_accumulation_steps)
       /\ info.optimizer_tasks.save_updated_weights => info.optimizer_tasks.update_weights
    BY <1>1, <1>2 DEF WindowsInvariant, RowTasks
<1>11. c \in Chunk /\ c.info = info /\ c.step = all_requests[g].completed_training_steps
    BY <1>3, <1>6 DEF Chunk, Request
<1>12. WholeChunk(c)
    BY <1>3, <1>6, <1>7, <1>8, <1>9, <1>10, <1>11
    DEF WholeChunk, Trainable, EntrySize, EntryAt
<1>13. Follows(c, last)
  <2>1. last.guid <= g
      BY <1>5 DEF WindowsInvariant, Order, QueueOrder
  <2>2. last.guid \in Nat /\ g \in Nat /\ g > 0
      BY <1>3 DEF Last, Guid
  <2>3. CASE last.guid = g
      BY <1>2, <1>11, <2>2, <2>3 DEF WindowsInvariant, Order, StepsTaken, Follows, NoGuid
  <2>4. CASE last.guid # g
    <3>1. g > last.guid
        BY <2>1, <2>2, <2>4
    <3> QED BY <1>3, <1>6, <1>11, <3>1 DEF WindowsInvariant, Order, StepsTaken, Follows
  <2> QED BY <2>3, <2>4
<1> QED BY <1>1, <1>3, <1>4, <1>11, <1>12, <1>13

\* A chunk launched behind the others keeps the order of the launches.
LEMMA AppendLaunch ==
    ASSUME TypeInvariant, RowsInvariant, BuffersInvariant, LaunchOrder, [Next]_vars,
           NEW c, backward' = Append(backward, c), WholeChunk(c), Follows(c, LastLaunched),
           UNCHANGED gradient
    PROVE  LaunchOrder' /\ LastLaunched' = After(c)
<1>0. \A d : WholeChunk(d) => WholeChunk(d)'
    BY ChunkKept DEF RowsInvariant
<1>1. LastDone' = LastDone
    BY DEF LastDone
<1>2. backward \in Seq(Chunk) /\ c \in Chunk
    BY DEF BuffersInvariant, TrainingTypeOK, WholeChunk, Trainable
<1>3. /\ backward' \in Seq(Chunk) /\ backward' # << >> /\ Len(backward) \in Nat
      /\ Len(backward') = Len(backward) + 1 /\ backward'[Len(backward')] = c
      /\ DOMAIN backward = 1 .. Len(backward)
      /\ \A k \in DOMAIN backward' : \/ k \in DOMAIN backward
                                     \/ k = Len(backward) + 1
      /\ \A k \in 1 .. Len(backward) : backward'[k] = backward[k]
    BY <1>2
<1>4. LastLaunched' = After(c)
    BY <1>3 DEF LastLaunched, After
<1>5. ASSUME NEW k \in DOMAIN backward'
      PROVE  \E d : /\ d = backward'[k] /\ WholeChunk(d)
                    /\ k = 1 => Follows(d, LastDone)
                    /\ k > 1 => Follows(d, After(backward'[k - 1]))
  <2>1. CASE k \in DOMAIN backward
    <3>1. k > 1 => backward'[k - 1] = backward[k - 1]
        BY <1>3, <2>1
    <3> QED BY <1>3, <2>1, <3>1 DEF LaunchOrder
  <2>2. CASE k = Len(backward) + 1
    <3>1. backward'[k] = c
        BY <1>3, <2>2
    <3>2. k = 1 => LastLaunched = LastDone
        BY <1>2, <2>2 DEF LastLaunched
    <3>3. k > 1 => /\ backward # << >> /\ Len(backward) \in 1 .. Len(backward)
                   /\ k - 1 = Len(backward)
        BY <1>3, <2>2
    <3>4. k > 1 => LastLaunched = After(backward'[k - 1])
        BY <1>3, <3>3 DEF LastLaunched
    <3> QED BY <3>1, <3>2, <3>4
  <2> QED BY <1>3, <2>1, <2>2
<1>6. LaunchOrder'
  <2> SUFFICES ASSUME NEW k \in DOMAIN backward'
               PROVE  /\ WholeChunk(backward[k])'
                      /\ k = 1 => Follows(backward'[k], LastDone')
                      /\ k > 1 => Follows(backward'[k], After(backward'[k - 1]))
      BY DEF LaunchOrder, Follows, After
  <2>1. PICK d : /\ d = backward'[k] /\ WholeChunk(d)
                 /\ k = 1 => Follows(d, LastDone)
                 /\ k > 1 => Follows(d, After(backward'[k - 1]))
      BY <1>5
  <2>2. WholeChunk(d)'
      BY <1>0, <2>1
  <2>3. WholeChunk(backward[k])'
      BY <2>1, <2>2, Zenon DEF WholeChunk, Trainable, IsFinetuning
  <2> QED BY <1>1, <2>1, <2>3
<1> QED BY <1>4, <1>6

\* The forward pass.
LEMMA ForwardWindows ==
    ASSUME TypeInvariant, RowsInvariant, FinetuningFits, BuffersInvariant, EntriesWhole,
           WindowsInvariant, Forward
    PROVE  WindowsInvariant'
<1>0. UnusedGuids /\ [Next]_vars
    BY DEF RowsInvariant, Forward, Next, Server
<1>1. /\ UNCHANGED << gradient, weights, saved >>
      /\ UNCHANGED << all_requests, peft_queue, old_bc >>
      /\ step = "inference" /\ step' = "result"
    BY DEF Forward, Inference, registry, peft_queue
<1>2. RowTasks' /\ Done'
    BY <1>0, <1>1, NextRowTasks, DoneKept DEF WindowsInvariant, Done
<1>3. LastDone' = LastDone
    BY <1>1 DEF LastDone
<1> PICK last \in Last : last = LastLaunched
    BY LastTypes
<1>4. Order(last) /\ LaunchOrder
    BY DEF WindowsInvariant
<1>5. ASSUME PeftEnabled => old_bc.request_completed[PeftRow]
      PROVE  WindowsInvariant'
  <2>1. backward' = backward
      BY <1>5 DEF Forward, Launched
  <2>2. LastLaunched' = last
      BY <1>3, <2>1 DEF LastLaunched
  <2>3. ~Awaited /\ ~Awaited'
      BY <1>1, <1>5 DEF Awaited, ActiveRow
  <2>4. Order(last)'
      BY <1>1, <1>4, <2>3 DEF Order, QueueOrder, StepsTaken, EntriesAccepted, IsFinetuning
  <2>5. Order(LastLaunched)'
      BY <2>2, <2>4 DEF Order, QueueOrder, StepsTaken
  <2>6. LaunchOrder'
      BY <1>1, <1>3, <1>4, <2>1 DEF LaunchOrder, WholeChunk, Trainable, IsFinetuning
  <2> QED BY <1>2, <2>5, <2>6 DEF WindowsInvariant, Done
<1>6. ASSUME PeftEnabled, ~old_bc.request_completed[PeftRow]
      PROVE  WindowsInvariant'
  <2>1. PICK c : /\ backward' = Append(backward, c)
                 /\ WholeChunk(c) /\ Follows(c, last)
                 /\ peft_queue # << >> /\ c.info.request_guid = Head(peft_queue)
                 /\ c.info.request_guid = GuidOf(old_bc, PeftRow)
                 /\ c.step = all_requests[c.info.request_guid].completed_training_steps
      BY <1>6, ForwardLaunch
  <2> PICK g : g = c.info.request_guid
      OBVIOUS
  <2>2. LaunchOrder' /\ LastLaunched' = After(c)
      BY <1>0, <1>1, <1>4, <2>1, AppendLaunch
  <2> PICK next : next = After(c)
      OBVIOUS
  <2>3. /\ next.guid = g /\ next.next = all_requests[g].completed_training_steps + 1
        /\ g \in Guid /\ IsFinetuning(g) /\ g = peft_queue[1] /\ 1 \in DOMAIN peft_queue
        /\ last.guid <= g /\ last.guid \in Nat
    <3>1. g = peft_queue[1] /\ 1 \in DOMAIN peft_queue
        BY <2>1, GuidTypes, TailFacts
    <3> QED BY <1>4, <2>1, <3>1
            DEF After, WholeChunk, Trainable, Order, QueueOrder, Last
  <2>4. QueueOrder(next)'
    <3>1. \A k \in DOMAIN peft_queue : k \in Nat \ {0} /\ peft_queue[k] \in Nat
        BY GuidTypes, TailFacts DEF Guid
    <3>2. \A k \in DOMAIN peft_queue : g <= peft_queue[k]
        BY <1>4, <2>3, <3>1 DEF Order, QueueOrder
    <3> QED BY <1>1, <1>4, <2>3, <3>2 DEF Order, QueueOrder
  <2>5. Awaited'
      BY <1>1, <1>6, RowSubsets DEF Awaited, ActiveRow
  <2>6. ASSUME NEW h \in Guid, IsFinetuning(h)
        PROVE  /\ all_requests[h].dataset_entry_processed_tokens = 0
               /\ h > g => all_requests[h].completed_training_steps = 0
    <3>1. h > g => h > last.guid
        BY <2>3 DEF Guid
    <3> QED BY <1>4, <2>6, <3>1 DEF Order, StepsTaken
  <2>7. StepsTaken(next)'
      BY <1>1, <2>1, <2>3, <2>5, <2>6 DEF StepsTaken, GuidOf, IsFinetuning
  <2>8. Order(next)'
      BY <1>1, <1>4, <2>4, <2>7 DEF Order, EntriesAccepted, IsFinetuning
  <2>9. Order(LastLaunched)'
      BY <2>2, <2>8 DEF Order, QueueOrder, StepsTaken
  <2> QED BY <1>2, <2>2, <2>9 DEF WindowsInvariant, Done
<1> QED BY <1>5, <1>6

-----------------------------------------------------------------------------
(* The backward pass: the gradients it adds, and the updates it makes.        *)

\* What the request of a chunk is to train.
LEMMA ChunkFinetuning ==
    ASSUME TypeInvariant, NEW c, WholeChunk(c)
    PROVE  LET f == all_requests[c.info.request_guid].finetuning
           IN  /\ c.info.request_guid \in Guid /\ c.step \in Nat
               /\ f.gradient_accumulation_steps \in Nat \ {0}
               /\ f.max_training_steps \in Nat \ {0}
               /\ f.dataset \in Seq(Nat) /\ f.dataset # << >>
<1> PICK g \in Guid : g = c.info.request_guid /\ IsFinetuning(g)
    BY DEF WholeChunk, Trainable
<1> PICK f \in Finetunings : f = all_requests[g].finetuning
    BY DEF TypeInvariant, QueuesWellFormed
<1>1. f \in Finetuning /\ f.dataset # << >>
    BY ConstantsAssumption
<1>2. c.step \in Nat
    BY DEF WholeChunk, Trainable, Chunk
<1> QED BY <1>1, <1>2 DEF Finetuning

\* The optimizer tasks of a chunk, for n steps per update and m steps in all.
LEMMA ChunkTasks ==
    ASSUME NEW c, WholeChunk(c), NEW n, NEW m, NEW s, s = c.step,
           n = all_requests[c.info.request_guid].finetuning.gradient_accumulation_steps,
           m = all_requests[c.info.request_guid].finetuning.max_training_steps
    PROVE  /\ c.info.optimizer_tasks.reset_gradients_to_zero <=> (s = 0 \/ (s % n) = 0)
           /\ c.info.optimizer_tasks.update_weights <=> ((s + 1) % n) = 0
           /\ c.info.optimizer_tasks.save_updated_weights <=> s = m - 1
<1>1. c.info.optimizer_tasks = set_optimizer_tasks(m, s, n)
    BY DEF WholeChunk
<1> DEFINE reset  == s = 0 \/ (s % n) = 0
           update == ((s + 1) % n) = 0
           save   == s = m - 1
           tasks  == [reset_gradients_to_zero |-> reset, update_weights |-> update,
                      save_updated_weights |-> save]
<1>2. c.info.optimizer_tasks = tasks
    BY <1>1 DEF set_optimizer_tasks
<1>3. reset \in BOOLEAN /\ update \in BOOLEAN /\ save \in BOOLEAN
    OBVIOUS
<1> HIDE DEF reset, update, save
<1>4. /\ tasks.reset_gradients_to_zero = reset /\ tasks.update_weights = update
      /\ tasks.save_updated_weights = save
    OBVIOUS
<1>5. /\ tasks.reset_gradients_to_zero <=> reset
      /\ tasks.update_weights <=> update
      /\ tasks.save_updated_weights <=> save
    BY <1>3, <1>4
<1> QED BY <1>2, <1>5 DEF reset, update, save

\* The updates made are finitely many.
LEMMA UpdatesFinite ==
    ASSUME NEW g, NEW n \in Nat
    PROVE  IsFiniteSet(UpdatesOf(g, n)) /\ Cardinality(UpdatesOf(g, n)) \in Nat
<1>1. UpdatesOf(g, n) \subseteq 1 .. n /\ IsFiniteSet(1 .. n)
    BY FS_Interval DEF UpdatesOf
<1>2. IsFiniteSet(UpdatesOf(g, n))
    BY <1>1, FS_Subset
<1> QED BY <1>2, FS_CardinalityType

\* The step of the oldest chunk lies in the group after the updates its request
\* has had.
LEMMA ChunkGroup ==
    ASSUME TypeInvariant, BuffersInvariant, Accumulated, UpdatesMade,
           NEW c, WholeChunk(c), Follows(c, LastDone)
    PROVE  LET g == c.info.request_guid
           IN  InGroup(all_requests[g].finetuning.gradient_accumulation_steps,
                       Cardinality(UpdatesOf(g, Len(weights))), c.step)
<1> PICK g \in Guid : g = c.info.request_guid
    BY ChunkFinetuning
<1> PICK n \in Nat \ {0} : n = all_requests[g].finetuning.gradient_accumulation_steps
    BY ChunkFinetuning
<1> PICK u : u = Cardinality(UpdatesOf(g, Len(weights)))
    OBVIOUS
<1> PICK last \in Last : last = LastDone
    BY LastTypes
<1>1. CASE g = last.guid /\ c.step = last.next
  <2>1. gradient # << >>
      BY <1>1 DEF LastDone, Guid, NoGuid
  <2> QED BY <1>1, <2>1 DEF Accumulated
<1>2. CASE g > last.guid /\ c.step = 0
  <2>1. weights \in Seq(Seq(GradientRow))
      BY DEF BuffersInvariant, TrainingTypeOK
  <2>2. DOMAIN weights = 1 .. Len(weights)
      BY <2>1
  <2>3. ASSUME NEW i \in 1 .. Len(weights) PROVE weights[i][1].token.request_guid # g
    <3> PICK h : h = weights[i][1].token.request_guid
        OBVIOUS
    <3>1. h \in Guid /\ h <= last.guid
        BY <2>2 DEF UpdatesMade
    <3> QED BY <1>2, <3>1 DEF Guid, Last
  <2>4. UpdatesOf(g, Len(weights)) = {}
      BY <2>3 DEF UpdatesOf
  <2>5. u = 0
      BY <2>4, FS_EmptySet
  <2>6. 0 * n = 0 /\ (0 + 1) * n = n
      OBVIOUS
  <2> QED BY <1>2, <2>5, <2>6 DEF InGroup
<1> QED BY <1>1, <1>2 DEF Follows

\* The gradient that is kept holds the tokens of the group's earlier steps.
LEMMA KeptTokens ==
    ASSUME TypeInvariant, BuffersInvariant, Accumulated, UpdatesMade,
           NEW c, WholeChunk(c), Follows(c, LastDone), NEW kept,
           kept = IF c.info.optimizer_tasks.reset_gradients_to_zero THEN << >> ELSE gradient
    PROVE  LET g == c.info.request_guid
               f == all_requests[g].finetuning
               u == Cardinality(UpdatesOf(g, Len(weights)))
           IN  Holds(kept, g, f, u * f.gradient_accumulation_steps, c.step - 1)
<1> PICK g \in Guid : g = c.info.request_guid
    BY ChunkFinetuning
<1> PICK f : f = all_requests[g].finetuning
    OBVIOUS
<1> PICK n \in Nat \ {0} : n = f.gradient_accumulation_steps
    BY ChunkFinetuning
<1> PICK u : u = Cardinality(UpdatesOf(g, Len(weights)))
    OBVIOUS
<1> PICK s \in Nat : s = c.step
    BY ChunkFinetuning
<1>1. InGroup(n, u, s)
    BY ChunkGroup
<1>2. (s % n) = 0 <=> s = u * n
    BY <1>1, StepInGroup
<1>3. u \in Nat /\ u * n \in Nat /\ (s = 0 => s = u * n)
  <2>1. u \in Nat /\ u * n <= s
      BY <1>1 DEF InGroup
  <2>2. u * n \in Nat
      BY <2>1, TimesNat
  <2> QED BY <2>1, <2>2
<1>4. c.info.optimizer_tasks.reset_gradients_to_zero <=> s = u * n
  <2>1. c.info.optimizer_tasks.reset_gradients_to_zero <=> (s = 0 \/ (s % n) = 0)
      BY ChunkTasks
  <2> QED BY <1>2, <1>3, <2>1
<1>5. CASE s = u * n
  <2>1. kept = << >>
      BY <1>4, <1>5
  <2>2. StepTokens(g, f, s, s - 1) = {}
    <3>1. s .. (s - 1) = {}
        OBVIOUS
    <3> QED BY <3>1, StepTokensMember
  <2>3. Holds(<< >>, g, f, s, s - 1)
      BY <2>2 DEF Holds
  <2> QED BY <1>5, <2>1, <2>3, Zenon
<1>6. CASE s # u * n
  <2>1. kept = gradient /\ s # 0
      BY <1>3, <1>4, <1>6
  <2>2. g = LastDone.guid /\ s = LastDone.next
      BY <2>1 DEF Follows
  <2>3. gradient # << >>
      BY <2>2 DEF LastDone, Guid, NoGuid
  <2>4. Holds(gradient, g, f, IF s = u * n THEN (u - 1) * n ELSE u * n, s - 1)
      BY <2>2, <2>3 DEF Accumulated
  <2> QED BY <1>6, <2>1, <2>4
<1> QED BY <1>5, <1>6

\* The gradient that is added holds the tokens of the chunk's step.
LEMMA OwnTokens ==
    ASSUME TypeInvariant, BuffersInvariant, BuffersInvariant', EntriesAccepted,
           NEW c, WholeChunk(c), NEW own, own = ChunkGradient(c)
    PROVE  LET g == c.info.request_guid
               m == c.info.num_tokens_in_batch
           IN  /\ Holds(own, g, all_requests[g].finetuning, c.step, c.step)
               /\ own \in Seq(GradientRow) /\ Len(own) = m /\ m \in Nat \ {0}
               /\ own[m].token.request_guid = g /\ own[m].token.step = c.step
<1> PICK g \in Guid : g = c.info.request_guid
    BY ChunkFinetuning
<1> PICK f : f = all_requests[g].finetuning
    OBVIOUS
<1> PICK k \in Nat : k = c.step
    BY ChunkFinetuning
<1> PICK m : m = c.info.num_tokens_in_batch
    OBVIOUS
<1>1. m \in Nat \ {0} /\ m = EntryAt(f, k) /\ c.info.first_token_depth_in_request = 0
  <2>1. m \in 1 .. MaxTokens
      BY Zenon DEF WholeChunk, Trainable
  <2>2. m \in Nat \ {0}
      BY <2>1, ConstantsAssumption
  <2> QED BY <2>2, Zenon DEF WholeChunk
<1>2. m <= MaxSeqLen
  <2>1. f.dataset \in Seq(Nat) /\ f.dataset # << >>
      BY ChunkFinetuning
  <2>2. Len(f.dataset) \in Nat \ {0} /\ DOMAIN f.dataset = 1 .. Len(f.dataset)
      BY <2>1
  <2>3. (k % Len(f.dataset)) \in 0 .. Len(f.dataset) - 1
      BY <2>2, DivMod
  <2>4. 1 + (k % Len(f.dataset)) \in DOMAIN f.dataset
      BY <2>2, <2>3
  <2>5. IsFinetuning(g)
      BY DEF WholeChunk
  <2> QED BY <1>1, <2>4, <2>5 DEF EntriesAccepted, EntryAt
<1>3. own \in Seq(GradientRow) /\ DOMAIN own = 1 .. m
  <2>1. Trainable(c)
      BY DEF WholeChunk
  <2>2. /\ activation \in [Slot -> Token \cup {NoToken}]
        /\ output_grad' \in [Slot -> Token \cup {NoToken}]
      BY DEF BuffersInvariant, TrainingTypeOK
  <2> QED BY <2>1, <2>2, ChunkGradientType
<1>4. ASSUME NEW j \in 1 .. m
      PROVE  own[j].token = [request_guid |-> g, step |-> k, depth |-> j - 1]
  <2>1. own[j].token = ChunkToken(c, j - 1)
      BY DEF ChunkGradient
  <2>2. 0 + (j - 1) = j - 1
      BY <1>1
  <2> QED BY <1>1, <2>1, <2>2 DEF ChunkToken
<1>5. Holds(own, g, f, k, k)
    BY <1>1, <1>2, <1>3, <1>4, HoldsEntry
<1>6. m \in 1 .. m /\ Len(own) = m
    BY <1>1, <1>3
<1>7. own[m].token = [request_guid |-> g, step |-> k, depth |-> m - 1]
    BY <1>4, <1>6
<1>8. own[m].token.request_guid = g /\ own[m].token.step = k
    BY <1>7
<1> QED BY <1>1, <1>3, <1>5, <1>6, <1>8

\* A gradient that is not empty ends as another one does.
EndsAs(r, q) == r # << >> /\ 1 \in DOMAIN r /\ r[Len(r)] = q[Len(q)]

LEMMA LastOfConcat ==
    ASSUME NEW p \in Seq(GradientRow), NEW q \in Seq(GradientRow), q # << >>
    PROVE  EndsAs(p \o q, q)
BY DEF EndsAs

\* The gradient after the backward pass holds the tokens of its group's steps up
\* to its own.
LEMMA GradientTokens ==
    ASSUME TypeInvariant, BuffersInvariant, BuffersInvariant', EntriesAccepted, Accumulated,
           UpdatesMade, NEW c, WholeChunk(c), Follows(c, LastDone),
           gradient' = (IF c.info.optimizer_tasks.reset_gradients_to_zero
                        THEN << >> ELSE gradient) \o ChunkGradient(c)
    PROVE  LET g == c.info.request_guid
               f == all_requests[g].finetuning
               u == Cardinality(UpdatesOf(g, Len(weights)))
           IN  /\ Holds(gradient', g, f, u * f.gradient_accumulation_steps, c.step)
               /\ gradient' # << >> /\ gradient'[1].token.request_guid = g
               /\ LastDone' = After(c)
<1> PICK g \in Guid : g = c.info.request_guid
    BY ChunkFinetuning
<1> PICK f : f = all_requests[g].finetuning
    OBVIOUS
<1> PICK n \in Nat \ {0} : n = f.gradient_accumulation_steps
    BY ChunkFinetuning
<1> PICK u : u = Cardinality(UpdatesOf(g, Len(weights)))
    OBVIOUS
<1> PICK s \in Nat : s = c.step
    BY ChunkFinetuning
<1> PICK m : m = c.info.num_tokens_in_batch
    OBVIOUS
<1> PICK kept :
        kept = IF c.info.optimizer_tasks.reset_gradients_to_zero THEN << >> ELSE gradient
    OBVIOUS
<1> PICK own : own = ChunkGradient(c)
    OBVIOUS
<1>1. Holds(kept, g, f, u * n, s - 1)
    BY KeptTokens
<1>2. /\ Holds(own, g, f, s, s)
      /\ own \in Seq(GradientRow) /\ Len(own) = m /\ m \in Nat \ {0}
      /\ own[m].token.request_guid = g /\ own[m].token.step = s
    BY OwnTokens
<1>3. kept \in Seq(GradientRow) /\ gradient' = kept \o own
    BY DEF BuffersInvariant, TrainingTypeOK
<1>4. InGroup(n, u, s)
    BY ChunkGroup
<1>a. PICK a : a = u * n
    OBVIOUS
<1>5. a \in Int /\ a <= s
  <2>1. u \in Nat /\ n \in Nat /\ u * n <= s
      BY <1>4 DEF InGroup
  <2>2. u * n \in Nat
      BY <2>1, TimesNat
  <2>3. a \in Nat /\ a <= s
      BY <1>a, <2>1, <2>2, Zenon
  <2>4. a \in Int
      BY <2>3
  <2> QED BY <2>3, <2>4, Zenon
<1>6. Holds(gradient', g, f, a, s)
  <2>1. Holds(kept, g, f, a, s - 1) /\ Holds(own, g, f, s, s)
      BY <1>1, <1>2, <1>a, Zenon
  <2>2. kept \in Seq(GradientRow) /\ own \in Seq(GradientRow) /\ s \in Int
    <3>1. s \in Int
        OBVIOUS
    <3> QED BY <1>2, <1>3, <3>1, Zenon
  <2>3. Holds(kept \o own, g, f, a, s)
      BY <1>5, <2>1, <2>2, HoldsSum, Zenon
  <2> QED BY <1>3, <2>3
<1>7. /\ gradient' # << >> /\ 1 \in DOMAIN gradient'
      /\ gradient'[Len(gradient')] = own[m]
  <2>1. kept \in Seq(GradientRow)
      BY <1>3, Zenon
  <2>2. own \in Seq(GradientRow) /\ Len(own) = m /\ m # 0
      BY <1>2
  <2>3. own # << >>
      BY <2>2
  <2>4. EndsAs(kept \o own, own)
      BY <2>1, <2>2, <2>3, LastOfConcat
  <2>5. EndsAs(gradient', own)
      BY <1>3, <2>4, Zenon
  <2> QED BY <2>2, <2>5, Zenon DEF EndsAs
<1>8. gradient'[1].token.request_guid = g
  <2>1. gradient'[1].token \in StepTokens(g, f, a, s)
      BY <1>6, <1>7 DEF Holds
  <2>2. \A t \in StepTokens(g, f, a, s) : t.request_guid = g
      BY StepTokensOf
  <2> QED BY <2>1, <2>2
<1>9. LastDone' = After(c)
    BY <1>2, <1>7 DEF LastDone, After
<1> QED BY <1>a, <1>6, <1>7, <1>8, <1>9

\* The updates of the requests after one more update, for request g.
LEMMA UpdatesGrow ==
    ASSUME BuffersInvariant, NEW g, NEW e, weights' = Append(weights, e),
           e[1].token.request_guid = g
    PROVE  /\ Len(weights') = Len(weights) + 1 /\ Len(weights) \in Nat
           /\ DOMAIN weights = 1 .. Len(weights)
           /\ DOMAIN weights' = 1 .. Len(weights')
           /\ weights'[Len(weights')] = e
           /\ \A i \in 1 .. Len(weights) : weights'[i] = weights[i]
           /\ \A h : \A n \in 1 .. Len(weights) : UpdatesOf(h, n)' = UpdatesOf(h, n)
           /\ Cardinality(UpdatesOf(g, Len(weights))')
                = Cardinality(UpdatesOf(g, Len(weights))) + 1
           /\ \A h : h # g => UpdatesOf(h, Len(weights))' = UpdatesOf(h, Len(weights))
<1> PICK l \in Nat : l = Len(weights)
    BY DEF BuffersInvariant, TrainingTypeOK
<1>1. /\ Len(weights') = l + 1 /\ DOMAIN weights = 1 .. l
      /\ DOMAIN weights' = 1 .. l + 1 /\ weights'[l + 1] = e
      /\ \A i \in 1 .. l : weights'[i] = weights[i]
    BY DEF BuffersInvariant, TrainingTypeOK
<1>2. ASSUME NEW h, NEW n \in 1 .. l PROVE UpdatesOf(h, n)' = UpdatesOf(h, n)
  <2>1. \A i \in 1 .. n : weights'[i] = weights[i]
      BY <1>1
  <2> QED BY <2>1 DEF UpdatesOf
<1> DEFINE made(h) == {i \in 1 .. l : weights[i][1].token.request_guid = h}
<1>3. \A h : UpdatesOf(h, l) = made(h)
    BY DEF UpdatesOf
<1>4. \A h : UpdatesOf(h, Len(weights))'
          = {i \in 1 .. l + 1 : weights'[i][1].token.request_guid = h}
    BY <1>1 DEF UpdatesOf
<1>5. UpdatesOf(g, Len(weights))' = made(g) \cup {l + 1}
    BY <1>1, <1>4
<1>6. \A h : h # g => UpdatesOf(h, Len(weights))' = made(h)
    BY <1>1, <1>4
<1>7. IsFiniteSet(made(g)) /\ l + 1 \notin made(g)
  <2>1. IsFiniteSet(UpdatesOf(g, l))
      BY UpdatesFinite
  <2>2. made(g) = UpdatesOf(g, l)
      BY <1>3
  <2>3. l + 1 \notin made(g)
      OBVIOUS
  <2> HIDE DEF made
  <2> QED BY <2>1, <2>2, <2>3
<1>8. Cardinality(made(g) \cup {l + 1}) = Cardinality(made(g)) + 1
    BY <1>7, FS_AddElement
<1> QED BY <1>1, <1>2, <1>3, <1>5, <1>6, <1>8

\* The tail of a queue is empty when it has one element.
LEMMA TailEmpty ==
    ASSUME NEW S, NEW q \in Seq(S), q # << >>
    PROVE  Tail(q) = << >> => Len(q) = 1
<1>1. Len(q) \in Nat /\ Len(q) # 0 /\ DOMAIN Tail(q) = 1 .. (Len(q) - 1)
    OBVIOUS
<1>2. Len(q) # 1 => 1 \in DOMAIN Tail(q)
  <2> PICK n \in Nat : n = Len(q)
      BY <1>1
  <2>1. n # 0 /\ n # 1 => 1 \in 1 .. (n - 1)
      OBVIOUS
  <2> QED BY <1>1, <2>1, Zenon
<1>3. DOMAIN << >> = {}
    OBVIOUS
<1> QED BY <1>1, <1>2, <1>3, Zenon

\* The oldest chunk leaves: it is the last step done, and what was launched last
\* stays.
LEMMA TailLaunch ==
    ASSUME BuffersInvariant, LaunchOrder, backward # << >>, backward' = Tail(backward),
           LastDone' = After(backward[1]), UNCHANGED vars
    PROVE  LaunchOrder' /\ LastLaunched' = LastLaunched
<1>1. backward \in Seq(Chunk)
    BY DEF BuffersInvariant, TrainingTypeOK
<1>2. /\ backward' \in Seq(Chunk) /\ Len(backward') = Len(backward) - 1
      /\ Len(backward) \in Nat \ {0} /\ DOMAIN backward = 1 .. Len(backward)
      /\ DOMAIN backward' = 1 .. Len(backward')
      /\ \A k \in DOMAIN backward' :
            k + 1 \in DOMAIN backward /\ backward'[k] = backward[k + 1] /\ k \in Nat \ {0}
    BY <1>1
<1>3. LastLaunched' = LastLaunched
  <2>1. CASE backward' = << >>
    <3>1. Len(backward) = 1
        BY <1>1, <2>1, TailEmpty
    <3> QED BY <2>1, <3>1 DEF LastLaunched
  <2>2. CASE backward' # << >>
    <3>1. Len(backward') \in DOMAIN backward'
        BY <1>2, <2>2
    <3>2. backward'[Len(backward')] = backward[Len(backward)]
        BY <1>2, <3>1
    <3> QED BY <2>2, <3>2 DEF LastLaunched, After
  <2> QED BY <2>1, <2>2
<1>4. \A d : WholeChunk(d) => WholeChunk(d)'
    BY DEF WholeChunk, Trainable, IsFinetuning, vars, registry
<1>5. ASSUME NEW k \in DOMAIN backward'
      PROVE  /\ WholeChunk(backward[k])'
             /\ k = 1 => Follows(backward'[k], LastDone')
             /\ k > 1 => Follows(backward'[k], After(backward'[k - 1]))
  <2> PICK d : d = backward'[k]
      OBVIOUS
  <2>1. k + 1 \in DOMAIN backward /\ d = backward[k + 1] /\ k + 1 > 1 /\ (k + 1) - 1 = k
      BY <1>2
  <2>2. WholeChunk(d) /\ Follows(d, After(backward[k]))
      BY <2>1 DEF LaunchOrder
  <2>3. k > 1 => backward'[k - 1] = backward[k]
    <3>1. k > 1 => k - 1 \in DOMAIN backward' /\ (k - 1) + 1 = k
        BY <1>2
    <3> QED BY <1>2, <3>1
  <2>4. WholeChunk(d)'
      BY <1>4, <2>2
  <2>5. WholeChunk(backward[k])'
      BY <2>4, Zenon DEF WholeChunk, Trainable, IsFinetuning
  <2> QED BY <2>2, <2>3, <2>5
<1>6. LaunchOrder'
    BY <1>5 DEF LaunchOrder, Follows, After
<1> QED BY <1>3, <1>6

\* The backward pass of the oldest chunk, with what it does to the weights.
BackwardOf(c) ==
    LET tasks == c.info.optimizer_tasks
    IN  /\ gradient' = (IF tasks.reset_gradients_to_zero THEN << >> ELSE gradient)
                           \o ChunkGradient(c)
        /\ weights' = IF tasks.update_weights THEN Append(weights, gradient') ELSE weights
        /\ saved' = IF tasks.save_updated_weights
                    THEN [saved EXCEPT ![c.info.request_guid] = Len(weights')]
                    ELSE saved
        /\ UNCHANGED vars

\* The backward pass of a step that is not the last of its group.
LEMMA DoneAdds ==
    ASSUME TypeInvariant, BuffersInvariant, BuffersInvariant', EntriesAccepted, Done,
           NEW c, WholeChunk(c), Follows(c, LastDone), BackwardOf(c),
           ~c.info.optimizer_tasks.update_weights
    PROVE  Done'
<1> PICK g \in Guid : g = c.info.request_guid
    BY ChunkFinetuning
<1> PICK f : f = all_requests[g].finetuning
    OBVIOUS
<1> PICK n \in Nat \ {0} : n = f.gradient_accumulation_steps
    BY ChunkFinetuning
<1> PICK u : u = Cardinality(UpdatesOf(g, Len(weights)))
    OBVIOUS
<1> PICK s \in Nat : s = c.step
    BY ChunkFinetuning
<1> PICK last \in Last : last = LastDone
    BY LastTypes
<1>a. PICK a : a = u * n
    OBVIOUS
<1> PICK h : h = s + 1
    OBVIOUS
<1>1. UNCHANGED << weights, saved >> /\ UNCHANGED all_requests
  <2>1. ~c.info.optimizer_tasks.save_updated_weights
      BY DEF WholeChunk
  <2> QED BY <2>1 DEF BackwardOf, vars, registry
<1>2. /\ Holds(gradient', g, f, a, s)
      /\ gradient' # << >> /\ LastDone' = After(c)
    BY <1>a, GradientTokens DEF Done, BackwardOf
<1>3. InGroup(n, u, s)
    BY ChunkGroup DEF Done
<1>4. c.info.optimizer_tasks.update_weights <=> ((s + 1) % n) = 0
    BY ChunkTasks
<1>5. InGroup(n, u, h) /\ h # u * n /\ h - 1 = s
  <2>1. InGroup(n, u, s + 1) /\ s + 1 # u * n
      BY <1>3, <1>4, GroupGoesOn
  <2>2. h - 1 = s
      OBVIOUS
  <2> QED BY <2>1, <2>2, Zenon
<1>6. \A k, m : UpdatesOf(k, m)' = UpdatesOf(k, m)
    BY <1>1 DEF UpdatesOf
<1>7. LastDone'.guid = g /\ LastDone'.next = h /\ IsFinetuning(g)
    BY <1>2 DEF After, WholeChunk
<1>8. Accumulated'
  <2>1. Holds(gradient', g, f, IF h = u * n THEN (u - 1) * n ELSE u * n, h - 1)
      BY <1>2, <1>5, <1>a, Zenon
  <2> QED BY <1>1, <1>5, <1>6, <1>7, <2>1 DEF Accumulated, IsFinetuning
<1>9. last.guid <= g
    BY DEF Follows, Guid, Last
<1>10. UpdatesMade'
  <2> SUFFICES ASSUME NEW i \in DOMAIN weights, NEW k, k = weights[i][1].token.request_guid
               PROVE  k \in Guid /\ IsFinetuning(k) /\ k <= g
      BY <1>1, <1>7 DEF UpdatesMade, IsFinetuning
  <2>1. k \in Guid /\ IsFinetuning(k) /\ k <= last.guid
      BY DEF Done, UpdatesMade
  <2> QED BY <1>9, <2>1 DEF Guid, Last
<1>11. UpdatesUseWindows'
  <2>1. \A k, m : Window(k, m)' = Window(k, m)
      BY <1>1, Zenon DEF Window
  <2>2. weights' = weights /\ UpdatesUseWindows
      BY <1>1 DEF Done
  <2> QED BY <1>6, <2>1, <2>2 DEF UpdatesUseWindows
<1>12. SavesMade' /\ SavedWeightsComplete'
    BY <1>1, <1>6 DEF Done, SavesMade, SavedWeightsComplete, IsFinetuning
<1> QED BY <1>8, <1>10, <1>11, <1>12 DEF Done

\* The gradients of an update are those of some tokens, each once.
Exactly(update, tokens) ==
    /\ Len(update) = Cardinality(tokens)
    /\ {update[j].token : j \in DOMAIN update} = tokens

\* The backward pass of the last step of a group: the weights are updated with
\* the gradients of the group's tokens, and if the step is the request's last one
\* they are saved after that update.
LEMMA DoneUpdates ==
    ASSUME TypeInvariant, BuffersInvariant, BuffersInvariant', EntriesAccepted, Done,
           NEW c, WholeChunk(c), Follows(c, LastDone), BackwardOf(c),
           c.info.optimizer_tasks.update_weights
    PROVE  Done'
<1> PICK g \in Guid : g = c.info.request_guid
    BY ChunkFinetuning
<1> PICK f : f = all_requests[g].finetuning
    OBVIOUS
<1> PICK n \in Nat \ {0} : n = f.gradient_accumulation_steps
    BY ChunkFinetuning
<1> PICK m \in Nat \ {0} : m = f.max_training_steps
    BY ChunkFinetuning
<1> PICK u : u = Cardinality(UpdatesOf(g, Len(weights)))
    OBVIOUS
<1> PICK s \in Nat : s = c.step
    BY ChunkFinetuning
<1> PICK last \in Last : last = LastDone
    BY LastTypes
<1> PICK l \in Nat : l = Len(weights)
    BY DEF BuffersInvariant, TrainingTypeOK
<1> PICK e : e = gradient'
    OBVIOUS
<1> PICK v : v = u + 1
    OBVIOUS
<1>a. PICK a : a = u * n
    OBVIOUS
<1>1. weights' = Append(weights, e) /\ UNCHANGED all_requests
    BY DEF BackwardOf, vars, registry
<1>2. /\ Holds(e, g, f, a, s)
      /\ e # << >> /\ e[1].token.request_guid = g /\ LastDone' = After(c)
    BY <1>a, GradientTokens DEF Done, BackwardOf
<1>3. InGroup(n, u, s)
    BY ChunkGroup DEF Done
<1>4. UpdateStep(n, s)
  <2>1. c.info.optimizer_tasks.update_weights <=> ((s + 1) % n) = 0
      BY ChunkTasks
  <2> QED BY <2>1 DEF UpdateStep
<1>5. s + 1 = v * n /\ InGroup(n, v, s + 1) /\ (s + 1) \div n = v
  <2>1. LastOfGroup(n, u, s)
      BY <1>3, <1>4, GroupEnds
  <2> QED BY <2>1 DEF LastOfGroup
<1>6. u \in Nat /\ v - 1 = u /\ v \in Nat /\ v * n - 1 = s /\ (v - 1) * n = a
  <2>1. u \in Nat
      BY <1>3 DEF InGroup
  <2>2. v - 1 = u /\ v \in Nat
      BY <2>1
  <2>3. v * n - 1 = s
    <3> PICK w : w = s + 1
        OBVIOUS
    <3>1. w - 1 = s
        OBVIOUS
    <3>2. v * n = w
        BY <1>5, Zenon
    <3> QED BY <3>1, <3>2, Zenon
  <2>4. (v - 1) * n = a
      BY <1>a, <2>2, Zenon
  <2> QED BY <2>1, <2>2, <2>3, <2>4, Zenon
<1>7. /\ Len(weights') = l + 1
      /\ DOMAIN weights = 1 .. l /\ DOMAIN weights' = 1 .. l + 1
      /\ weights'[l + 1] = e
      /\ \A i \in 1 .. l : weights'[i] = weights[i]
    BY <1>1, <1>2, UpdatesGrow
<1>8. \A h : \A i \in 1 .. l : UpdatesOf(h, i)' = UpdatesOf(h, i)
    BY <1>1, <1>2, UpdatesGrow
<1>9. Cardinality(UpdatesOf(g, Len(weights))') = v
    BY <1>1, <1>2, UpdatesGrow
<1>10. LastDone'.guid = g /\ LastDone'.next = s + 1 /\ IsFinetuning(g) /\ last.guid <= g
  <2>1. LastDone'.guid = g /\ LastDone'.next = s + 1
      BY <1>2 DEF After
  <2>2. IsFinetuning(g)
      BY DEF WholeChunk
  <2>3. last.guid <= g
      BY DEF Follows, Guid, Last
  <2> QED BY <2>1, <2>2, <2>3, Zenon
<1>11. Accumulated'
  <2>1. Holds(e, g, f, IF s + 1 = v * n THEN (v - 1) * n ELSE v * n, (s + 1) - 1)
    <3>1. (s + 1) - 1 = s
        OBVIOUS
    <3> QED BY <1>2, <1>5, <1>6, <3>1
  <2> QED BY <1>1, <1>5, <1>9, <1>10, <2>1 DEF Accumulated, IsFinetuning
<1>12. UpdatesMade'
  <2> SUFFICES ASSUME NEW i \in 1 .. l + 1, NEW k, k = weights'[i][1].token.request_guid
               PROVE  k \in Guid /\ IsFinetuning(k) /\ k <= g
      BY <1>1, <1>7, <1>10 DEF UpdatesMade, IsFinetuning
  <2>1. CASE i \in 1 .. l
    <3>1. i \in DOMAIN weights /\ k = weights[i][1].token.request_guid
        BY <1>7, <2>1
    <3>2. k \in Guid /\ IsFinetuning(k) /\ k <= last.guid
        BY <3>1, Zenon DEF Done, UpdatesMade
    <3>3. \A x \in Guid : x \in Nat
        BY DEF Guid
    <3>4. \A x, y, z \in Nat : x <= y /\ y <= z => x <= z
        OBVIOUS
    <3>5. last.guid \in Nat
        BY DEF Last
    <3> QED BY <1>10, <3>2, <3>3, <3>4, <3>5, Zenon
  <2>2. CASE i = l + 1
    <3>1. k = g
        BY <1>2, <1>7, <2>2, Zenon
    <3>2. g <= g
        BY DEF Guid
    <3> QED BY <1>10, <3>1, <3>2, Zenon
  <2> QED BY <2>1, <2>2
<1>13. \A h, k : Window(h, k)' = Window(h, k)
    BY <1>1 DEF Window
<1>14. UpdatesUseWindows'
  <2> SUFFICES ASSUME NEW i \in DOMAIN weights',
                      NEW h, h = weights'[i][1].token.request_guid,
                      NEW k, k = Cardinality(UpdatesOf(h, i)')
               PROVE  Exactly(weights'[i], Window(h, k)')
      BY Zenon DEF UpdatesUseWindows, Exactly
  <2>1. CASE i \in 1 .. l
    <3>1. weights'[i] = weights[i] /\ i \in DOMAIN weights /\ k = Cardinality(UpdatesOf(h, i))
        BY <1>7, <1>8, <2>1
    <3>2. h = weights[i][1].token.request_guid
        BY <3>1
    <3>3. Exactly(weights[i], Window(h, k))
        BY <3>1, <3>2, Zenon DEF Done, UpdatesUseWindows, Exactly
    <3> QED BY <1>13, <3>1, <3>3, Zenon
  <2>2. CASE i = l + 1
    <3>1. Window(g, v) = StepTokens(g, f, a, s)
      <4>1. Window(g, v) = StepTokens(g, f, (v - 1) * n, v * n - 1)
          BY Zenon DEF Window
      <4> QED BY <1>6, <4>1, Zenon
    <3>2. e \in Seq(GradientRow)
        BY DEF BuffersInvariant, TrainingTypeOK
    <3>3. Len(e) = Cardinality(StepTokens(g, f, a, s))
      <4>1. Holds(e, g, f, a, s)
          BY <1>2, Zenon
      <4> QED BY <3>2, <4>1, HoldsSize
    <3>4. {e[j].token : j \in DOMAIN e} = StepTokens(g, f, a, s)
        BY <1>2 DEF Holds
    <3>5. weights'[i] = e /\ h = g
        BY <1>2, <1>7, <2>2, Zenon
    <3>6. UpdatesOf(g, i)' = UpdatesOf(g, Len(weights))'
        BY <1>7, <2>2 DEF UpdatesOf
    <3>7. k = v
        BY <1>9, <3>5, <3>6
    <3>8. Exactly(e, StepTokens(g, f, a, s))
        BY <3>3, <3>4, Zenon DEF Exactly
    <3> QED BY <1>13, <3>1, <3>5, <3>7, <3>8, Zenon
  <2> QED BY <1>7, <2>1, <2>2
<1>15. ASSUME NEW k \in Guid
       PROVE  \/ /\ k = g /\ saved'[k] = l + 1 /\ s = m - 1
              \/ saved'[k] = saved[k]
  <2>1. c.info.optimizer_tasks.save_updated_weights <=> s = m - 1
      BY ChunkTasks
  <2>2. saved \in [Guid -> Nat]
      BY DEF BuffersInvariant, TrainingTypeOK
  <2> QED BY <1>7, <2>1, <2>2 DEF BackwardOf
<1>16. SavesMade'
  <2> SUFFICES ASSUME NEW k \in Guid
               PROVE  saved'[k] <= l + 1 /\ (saved'[k] > 0 => IsFinetuning(k))
      BY <1>1, <1>7 DEF SavesMade, IsFinetuning
  <2>1. saved[k] <= l /\ (saved[k] > 0 => IsFinetuning(k)) /\ saved[k] \in Nat
      BY DEF Done, SavesMade, BuffersInvariant, TrainingTypeOK
  <2> QED BY <1>10, <1>15, <2>1
<1>17. SavedWeightsComplete'
  <2> SUFFICES ASSUME NEW k \in Guid, saved'[k] > 0
               PROVE  Cardinality(UpdatesOf(k, saved[k])')
                        = all_requests[k].finetuning.max_training_steps
                            \div all_requests[k].finetuning.gradient_accumulation_steps
      BY <1>1 DEF SavedWeightsComplete
  <2>1. CASE k = g /\ saved'[k] = l + 1 /\ s = m - 1
    <3>1. s + 1 = m
        BY <2>1
    <3>2. UpdatesOf(k, saved[k])' = UpdatesOf(g, Len(weights))'
      <4>1. UpdatesOf(k, saved[k])'
              = {i \in 1 .. saved'[k] : weights'[i][1].token.request_guid = k}
          BY Zenon DEF UpdatesOf
      <4>2. UpdatesOf(g, Len(weights))'
              = {i \in 1 .. Len(weights') : weights'[i][1].token.request_guid = g}
          BY Zenon DEF UpdatesOf
      <4>3. saved'[k] = Len(weights') /\ k = g
          BY <1>7, <2>1, Zenon
      <4> QED BY <4>1, <4>2, <4>3, Zenon
    <3> QED BY <1>5, <1>9, <2>1, <3>1, <3>2
  <2>2. CASE saved'[k] = saved[k]
    <3>1. saved[k] \in 1 .. l
        BY <2>2 DEF Done, SavesMade, BuffersInvariant, TrainingTypeOK
    <3>2. UpdatesOf(k, saved[k])' = UpdatesOf(k, saved[k])
      <4> PICK i \in 1 .. l : i = saved[k]
          BY <3>1
      <4>1. UpdatesOf(k, saved[k])'
              = {j \in 1 .. saved'[k] : weights'[j][1].token.request_guid = k}
          BY Zenon DEF UpdatesOf
      <4>2. UpdatesOf(k, i)' = {j \in 1 .. i : weights'[j][1].token.request_guid = k}
          BY Zenon DEF UpdatesOf
      <4>3. UpdatesOf(k, i)' = UpdatesOf(k, i)
          BY <1>8, Zenon
      <4> QED BY <2>2, <4>1, <4>2, <4>3, Zenon
    <3> QED BY <2>2, <3>1, <3>2 DEF Done, SavedWeightsComplete
  <2> QED BY <1>15, <2>1, <2>2
<1> QED BY <1>11, <1>12, <1>14, <1>16, <1>17 DEF Done

\* The backward pass.
LEMMA BackwardWindows ==
    ASSUME TypeInvariant, RowsInvariant, BuffersInvariant, BuffersInvariant',
           WindowsInvariant, Backward
    PROVE  WindowsInvariant'
<1> PICK c : c = backward[1]
    OBVIOUS
<1>1. /\ c = Head(backward) /\ 1 \in DOMAIN backward /\ backward # << >>
      /\ backward' = Tail(backward) /\ UNCHANGED vars
    BY HeadTrainable DEF Backward
<1>2. LaunchOrder /\ Done /\ EntriesAccepted
    BY DEF WindowsInvariant, Done, Order
<1>3. WholeChunk(c) /\ Follows(c, LastDone)
    BY <1>1, <1>2 DEF LaunchOrder
<1>4. BackwardOf(c)
    BY <1>1 DEF Backward, BackwardOf
<1>5. LastDone' = After(c)
    BY <1>2, <1>3, <1>4, GradientTokens DEF Done, BackwardOf
<1>6. LaunchOrder' /\ LastLaunched' = LastLaunched
    BY <1>1, <1>2, <1>5, TailLaunch
<1>7. Done'
  <2>1. CASE c.info.optimizer_tasks.update_weights
      BY <1>2, <1>3, <1>4, <2>1, DoneUpdates
  <2>2. CASE ~c.info.optimizer_tasks.update_weights
      BY <1>2, <1>3, <1>4, <2>2, DoneAdds
  <2> QED BY <2>1, <2>2
<1>8. Order(LastLaunched)'
    BY <1>1, <1>6 DEF WindowsInvariant, Order, QueueOrder, StepsTaken, EntriesAccepted,
                      Awaited, ActiveRow, GuidOf, IsFinetuning, peft_queue, vars, registry,
                      batch
<1>9. RowTasks'
    BY <1>1 DEF WindowsInvariant, RowTasks, ActiveRow, vars, registry, batch
<1> QED BY <1>6, <1>7, <1>8, <1>9 DEF WindowsInvariant, Done

\* Every step of the composition, while finetuning rows hold whole entries.
LEMMA TrainingWindows ==
    ASSUME TypeInvariant, RowsInvariant, FinetuningFits, BuffersInvariant,
           BuffersInvariant', EntriesWhole, WindowsInvariant, [TrainingNext]_trainvars
    PROVE  WindowsInvariant'
<1>1. CASE Forward
    BY <1>1, ForwardWindows
<1>2. CASE Backward
    BY <1>2, BackwardWindows
<1>3. CASE ManagerStep /\ UNCHANGED training
    BY <1>3, ManagerWindows
<1> QED BY <1>1, <1>2, <1>3 DEF TrainingNext, Serve, trainvars, ManagerStep

\* Nothing is launched or trained at the start.
LEMMA InitWindows == TrainingInit => WindowsInvariant
<1> SUFFICES ASSUME TrainingInit PROVE WindowsInvariant
    OBVIOUS
<1>1. /\ backward = << >> /\ gradient = << >> /\ weights = << >>
      /\ \A g \in Guid : saved[g] = 0
      /\ Init
    BY DEF TrainingInit
<1>2. /\ \A g \in Guid : ~IsFinetuning(g)
      /\ peft_queue = << >> /\ ~(PeftEnabled /\ PeftRow \in ActiveRow(old_bc))
    BY <1>1 DEF Init, IsFinetuning, NoRequest, peft_queue, ActiveRow, EmptyBatch
<1>3. LastLaunched = [guid |-> NoGuid, next |-> 0]
    BY <1>1 DEF LastLaunched, LastDone
<1>4. DOMAIN << >> = {} /\ Len(<< >>) = 0
    OBVIOUS
<1>5. Order(LastLaunched) /\ RowTasks
    BY <1>2, <1>3, <1>4
    DEF Order, QueueOrder, StepsTaken, EntriesAccepted, Awaited, RowTasks
<1>6. LaunchOrder /\ Accumulated /\ UpdatesMade /\ UpdatesUseWindows
    BY <1>1, <1>4 DEF LaunchOrder, Accumulated, UpdatesMade, UpdatesUseWindows
<1>7. SavesMade /\ SavedWeightsComplete
    BY <1>1, <1>4 DEF SavesMade, SavedWeightsComplete
<1> QED BY <1>5, <1>6, <1>7 DEF WindowsInvariant

\* While finetuning rows hold whole entries, the launches, the gradients and the
\* updates are in order.
LEMMA WindowsInvariantHolds == TrainingSpec /\ []EntriesWhole => []WindowsInvariant
<1>1. TypeInvariant /\ RowsInvariant /\ FinetuningFits /\ BuffersInvariant
      /\ BuffersInvariant' /\ EntriesWhole /\ WindowsInvariant
      /\ [TrainingNext]_trainvars
      => WindowsInvariant'
    BY TrainingWindows
<1> QED BY <1>1, InitWindows, TrainingImplementsManager, FinetuningAlwaysFits,
           RowsInvariantHolds, BuffersInvariantHolds, PTL DEF TrainingSpec

\* As long as no finetuning row leaves tokens of its entry to the next batch, the
\* k-th update of a request is made with the gradients of all tokens of its k-th
\* group of gradient_accumulation_steps entries, each once, and of no other token:
\* however many backward passes are outstanding, and whatever requests were
\* trained before.  (A row that is cut short leaves such a backward pass to the
\* assertion of the attention kernel.)
THEOREM UpdatesAlwaysUseWindows == TrainingSpec /\ []EntriesWhole => []UpdatesUseWindows
<1>1. WindowsInvariant => UpdatesUseWindows
    BY DEF WindowsInvariant
<1> QED BY <1>1, WindowsInvariantHolds, PTL

\* Under the same condition, the weights a request saves contain all its updates,
\* although its result is published before its last backward pass has run.
THEOREM SavedAlwaysComplete == TrainingSpec /\ []EntriesWhole => []SavedWeightsComplete
<1>1. WindowsInvariant => SavedWeightsComplete
    BY DEF WindowsInvariant
<1> QED BY <1>1, WindowsInvariantHolds, PTL

-----------------------------------------------------------------------------
(* When finetuning rows hold whole entries: every entry fits in a batch beside *)
(* the longest chunks the inference rows can have.                             *)

\* At most L tokens of the requests in the rows are still to be processed.
RowsShort(bc, rows, requests, L) ==
    \A r \in rows : requests[GuidOf(bc, r)].tokens <= EndDepth(bc, r) + L

QueuedShort(L) == \A k \in DOMAIN queue : all_requests[queue[k]].tokens <= L

\* No chunk is longer than L, so the inference rows leave the rest of the batch to
\* the finetuning row.
ChunksShort(L) ==
    /\ QueuedShort(L)
    /\ RowsShort(old_bc, OldRows, all_requests, L)
    /\ RowsShort(new_bc, NewRows, all_requests, L)
    /\ new_bc.num_tokens <= Cardinality(NewRows) * L

\* The requests that wait in the queue keep their tokens.
LEMMA QueuedTokens ==
    ASSUME SlotsAndRows, [Next]_vars, NEW k \in DOMAIN queue
    PROVE  /\ queue[k] \in Guid
           /\ all_requests'[queue[k]].tokens = all_requests[queue[k]].tokens
<1>1. TypeInvariant /\ UnusedGuids /\ PlacesDistinct /\ PlacesWaiting
    BY DEF SlotsAndRows, RowsInvariant, PlacesInvariant
<1>2. PICK g \in Guid : g = queue[k]
    BY <1>1, GuidTypes
<1>3. IsInference(g)
    BY <1>1, <1>2 DEF PlacesWaiting, Waiting
<1>4. CASE AppendTokens
  <2>1. ASSUME NEW s \in Slot, Yields(old_bc, s),
               g = GuidOf(old_bc, old_bc.tokensInfo[s].request_index)
        PROVE  FALSE
    <3>1. old_bc.tokensInfo[s].request_index \in OldRows
        BY <1>4, <2>1, YieldingSlot, AppendTokensControl
    <3> QED BY <1>1, <1>2, <2>1, <3>1 DEF PlacesDistinct
  <2>2. all_requests'[g] = all_requests[g]
      BY <1>4, <2>1, AppendTokensOther
  <2> QED BY <1>2, <2>2
<1>5. CASE ~AppendTokens
    BY <1>1, <1>2, <1>3, <1>5, NextTokens
<1> QED BY <1>2, <1>4, <1>5

\* A prompt that enters the queue is no longer than L.
LEMMA RegisterShort ==
    ASSUME SlotsAndRows, NEW L \in Nat \ {0}, EntriesFit(L), QueuedShort(L),
           NEW prompt \in Prompts, register_new_request(prompt)
    PROVE  QueuedShort(L)'
<1>1. TypeInvariant /\ [Next]_vars
    BY DEF SlotsAndRows, Next, Client
<1>2. CASE prompt.size >= MaxSeqLen
  <2>1. UNCHANGED << all_requests, queue >>
      BY <1>2 DEF register_new_request, Refuse, queue
  <2> QED BY <2>1 DEF QueuedShort
<1>3. CASE ~(prompt.size >= MaxSeqLen)
  <2> PICK g \in Guid : g = next_available_guid
      BY <1>1, RegisterFacts
  <2>1. all_requests \in [Guid -> Request] /\ queue \in Seq(Guid)
      BY <1>1, GuidTypes DEF TypeInvariant, TypeOK
  <2> DEFINE r == [NoRequest EXCEPT !.req_type = "REQ_INFERENCE",
                                    !.tokens = Bos + prompt.size,
                                    !.initial_len = Bos + prompt.size,
                                    !.eos = prompt.eos,
                                    !.max_sequence_length = prompt.max_sequence_length]
  <2>2. all_requests' = [all_requests EXCEPT ![g] = r] /\ queue' = Append(queue, g)
      BY <1>3 DEF register_new_request, queue
  <2>3. r.tokens = Bos + prompt.size
      BY DEF NoRequest
  <2> HIDE DEF r
  <2>4. prompt.size \in Nat /\ MaxSeqLen \in Nat
      BY ConstantsAssumption DEF Prompt
  <2>5. Bos + prompt.size <= L
      BY <1>3, <2>4 DEF EntriesFit
  <2>6. all_requests'[g].tokens <= L
      BY <2>1, <2>2, <2>3, <2>5
  <2>7. ASSUME NEW k \in DOMAIN queue'
        PROVE  all_requests'[queue'[k]].tokens <= L
    <3>1. CASE k \in DOMAIN queue
      <4>1. queue'[k] = queue[k]
          BY <2>1, <2>2, <3>1, AppendFacts
      <4>2. all_requests'[queue[k]].tokens = all_requests[queue[k]].tokens
          BY <1>1, <3>1, QueuedTokens
      <4> QED BY <3>1, <4>1, <4>2 DEF QueuedShort
    <3>2. CASE k \notin DOMAIN queue
      <4>1. queue'[k] = g
          BY <2>1, <2>2, <2>7, <3>2, AppendFacts
      <4> QED BY <2>6, <4>1
    <3> QED BY <3>1, <3>2
  <2> QED BY <2>7 DEF QueuedShort
<1> QED BY <1>2, <1>3

\* The steps keep the requests in the queue short.
LEMMA NextQueuedShort ==
    ASSUME SlotsAndRows, NEW L \in Nat \ {0}, EntriesFit(L), QueuedShort(L), [Next]_vars
    PROVE  QueuedShort(L)'
<1>1. CASE queue' = queue
    BY <1>1, QueuedTokens DEF QueuedShort
<1>2. ASSUME NEW i \in InfrRow, AdmitRequest(i)
      PROVE  QueuedShort(L)'
  <2>1. queue \in Seq(Guid) /\ queue # << >> /\ queue' = Tail(queue)
      BY <1>2, AdmitChunk DEF SlotsAndRows, queue
  <2>2. ASSUME NEW k \in DOMAIN queue'
        PROVE  all_requests'[queue'[k]].tokens <= L
    <3>1. k + 1 \in DOMAIN queue /\ queue'[k] = queue[k + 1]
        BY <2>1, <2>2, TailFacts
    <3> QED BY <3>1, QueuedTokens DEF QueuedShort
  <2> QED BY <2>2 DEF QueuedShort
<1>3. CASE \/ Inference \/ CarryDone \/ AdmitDone \/ TrainSkip \/ TrainRow \/ PopPeft
           \/ SchedulePeft \/ ScheduleNone \/ AppendTokens
    BY <1>1, <1>3, Zenon
       DEF Inference, CarryDone, AdmitDone, TrainSkip, TrainRow, PopPeft, SchedulePeft,
           ScheduleNone, AppendTokens, Launch, registry, queue
<1>4. CASE \E i \in InfrRow : \/ CarrySkip(i) \/ CompleteRequest(i) \/ CarryDecoding(i)
                              \/ CarryPrompt(i) \/ AdmitSkip(i)
    BY <1>1, <1>4, Zenon
       DEF CarrySkip, CompleteRequest, CarryDecoding, CarryPrompt, AdmitSkip, registry, queue
<1>5. CASE \/ \E f \in Finetunings : register_new_peft_request(f)
           \/ \E finished \in BOOLEAN : set_inference_finished(finished)
           \/ UNCHANGED vars
    BY <1>1, <1>5, Zenon
       DEF register_new_peft_request, Refuse, set_inference_finished, vars, registry, queue
<1> QED BY <1>2, <1>3, <1>4, <1>5, RegisterShort DEF Next, Server, PrepareNextBatch, Client

\* A chunk leaves fewer tokens of its request to be processed.
LEMMA ShortRow ==
    ASSUME NEW L \in Nat \ {0}, NEW tokens \in Int, NEW first \in Int, NEW n \in Int,
           n > 0, tokens <= first + L
    PROVE  tokens <= (first + n) + L
OBVIOUS

\* The rows that stay as they are.
LEMMA RowsShortKept ==
    ASSUME NEW bc, NEW rows, NEW requests, NEW L, RowsShort(bc, rows, requests, L),
           NEW bc1, NEW rows1, NEW requests1, rows1 \subseteq rows,
           \A r \in rows1 :
               /\ bc1.requestsInfo[r] = bc.requestsInfo[r]
               /\ requests1[GuidOf(bc, r)].tokens = requests[GuidOf(bc, r)].tokens
    PROVE  RowsShort(bc1, rows1, requests1, L)
BY DEF RowsShort, EndDepth, GuidOf

\* The tokens that step 1 appends: a row that has processed its whole request has
\* one more token to process, the others as many as before.
LEMMA AppendShort ==
    ASSUME SlotsAndRows, DepthsInvariant, NEW L \in Nat \ {0}, ChunksShort(L), AppendTokens
    PROVE  RowsShort(old_bc, OldRows, all_requests', L)
<1>1. InFlight /\ TypeInvariant
    BY AppendTokensControl DEF SlotsAndRows
<1> SUFFICES ASSUME NEW r \in OldRows
             PROVE  all_requests'[GuidOf(old_bc, r)].tokens <= EndDepth(old_bc, r) + L
    BY DEF RowsShort
<1> DEFINE g == GuidOf(old_bc, r)
<1>2. /\ all_requests[g].tokens <= EndDepth(old_bc, r) + L
      /\ EndDepth(old_bc, r) <= all_requests[g].tokens
    BY <1>1 DEF ChunksShort, RowsShort, DepthsInvariant, Depths
<1>3. EndDepth(old_bc, r) \in Int /\ all_requests[g].tokens \in Nat
  <2>1. r \in Row /\ old_bc.requestsInfo[r] \in PerRequestInfo
        /\ all_requests[g] \in Request
      BY <1>1, GuidTypes DEF OldRows, ActiveRow, TypeInvariant, TypeOK, BatchConfig
  <2> QED BY <2>1 DEF PerRequestInfo, Request, EndDepth
<1>4. /\ EndDepth(old_bc, r) = all_requests[g].tokens =>
             all_requests'[g].tokens = all_requests[g].tokens + 1
      /\ EndDepth(old_bc, r) < all_requests[g].tokens =>
             all_requests'[g].tokens = all_requests[g].tokens
    BY RowTokens
<1> HIDE DEF g
<1> QED BY <1>2, <1>3, <1>4 DEF g

\* A row that is carried over or admitted gets at most L tokens, and leaves at most
\* L tokens of its request.
LEMMA NewRowShort ==
    ASSUME SlotsAndRows, NEW L \in Nat \ {0}, ChunksShort(L), NEW i \in InfrRow,
           CarryDecoding(i) \/ CarryPrompt(i) \/ AdmitRequest(i)
    PROVE  LET g == GuidOf(new_bc', i)
           IN  /\ g \in Guid
               /\ new_bc'.requestsInfo[i].num_tokens_in_batch <= L
               /\ all_requests[g].tokens <= EndDepth(new_bc', i) + L
               /\ OldRows' \subseteq OldRows
<1> DEFINE g    == GuidOf(new_bc', i)
           info == new_bc'.requestsInfo[i]
           n    == info.num_tokens_in_batch
<1>1. /\ TypeInvariant /\ n \in Int /\ n > 0
      /\ info.first_token_depth_in_request \in Nat
      /\ UNCHANGED << old_bc, step >>
      /\ EndDepth(new_bc', i) = info.first_token_depth_in_request + n
    BY NewRowStep DEF SlotsAndRows, PerRequestInfo, EndDepth
<1>2. CASE CarryDecoding(i) \/ CarryPrompt(i)
  <2>1. /\ OldRow(i) /\ i \in OldRows /\ OldRows' \subseteq OldRows
        /\ g = GuidOf(old_bc, i)
        /\ info.first_token_depth_in_request = EndDepth(old_bc, i)
        /\ n <= Unprocessed(i)
      BY <1>2, CarriedRow
  <2>2. /\ g \in Guid /\ EndDepth(old_bc, i) \in Nat /\ Unprocessed(i) \in Int
        /\ all_requests[g] \in Request
      BY <1>1, <2>1, OldRowType
  <2>3. Unprocessed(i) = all_requests[g].tokens - EndDepth(old_bc, i)
      BY <2>1 DEF Unprocessed, EndDepth, GuidOf
  <2>4. all_requests[g].tokens <= EndDepth(old_bc, i) + L /\ all_requests[g].tokens \in Nat
      BY <2>1, <2>2 DEF ChunksShort, RowsShort, Request
  <2> HIDE DEF g, info, n
  <2>5. n <= L
      BY <1>1, <2>1, <2>2, <2>3, <2>4
  <2>6. all_requests[g].tokens <= EndDepth(new_bc', i) + L
      BY <1>1, <2>1, <2>2, <2>4, ShortRow
  <2> QED BY <2>1, <2>2, <2>5, <2>6 DEF g, info, n
<1>3. CASE AdmitRequest(i)
  <2>1. /\ g \in Guid /\ info.first_token_depth_in_request = 0
        /\ n <= all_requests[g].tokens
      BY <1>3, AdmittedRow
  <2>2. g = Head(queue)
    <3>1. PICK bc \in BatchConfig : bc = new_bc
        BY <1>1 DEF TypeInvariant, TypeOK
    <3>2. PICK j \in PerRequestInfo : /\ new_bc' = PutRow(bc, i, j, FALSE)
                                      /\ j.request_guid = Head(queue)
        BY <1>1, <1>3, <3>1, AdmitChunk DEF queue
    <3>3. i \in Row
        BY NewRowStep
    <3>4. new_bc'.requestsInfo[i] = j
        BY <3>2, <3>3, PutRowRows
    <3> QED BY <3>2, <3>4 DEF GuidOf
  <2>3. queue \in Seq(Guid) /\ queue # << >>
      BY <1>1, <1>3, AdmitChunk DEF queue
  <2>4. 1 \in DOMAIN queue /\ g = queue[1]
      BY <2>2, <2>3, TailFacts
  <2>5. all_requests[g].tokens <= L
      BY <2>4 DEF ChunksShort, QueuedShort
  <2>6. all_requests[g].tokens \in Nat
      BY <1>1, <2>1 DEF TypeInvariant, TypeOK, Request
  <2>7. OldRows' = OldRows
      BY <1>1, <1>3 DEF OldRows, InFlight, AdmitRequest
  <2> HIDE DEF g, info, n
  <2>8. n <= L /\ all_requests[g].tokens <= EndDepth(new_bc', i) + L
      BY <1>1, <2>1, <2>5, <2>6
  <2> QED BY <2>1, <2>7, <2>8 DEF g, info, n
<1> QED BY <1>2, <1>3

\* The steps keep the chunks short.
LEMMA NextChunksShort ==
    ASSUME SlotsAndRows, DepthsInvariant, NEW L \in Nat \ {0}, EntriesFit(L), ChunksShort(L),
           [Next]_vars
    PROVE  ChunksShort(L)'
<1>1. QueuedShort(L)' /\ TypeInvariant
    BY NextQueuedShort DEF ChunksShort, SlotsAndRows
<1> SUFFICES /\ RowsShort(old_bc', OldRows', all_requests', L)
             /\ RowsShort(new_bc', NewRows', all_requests', L)
             /\ new_bc'.num_tokens <= Cardinality(NewRows') * L
    BY <1>1 DEF ChunksShort, RowsShort, EndDepth, GuidOf
<1>2. ASSUME new_bc' = EmptyBatch
      PROVE  /\ RowsShort(new_bc', NewRows', all_requests', L)
             /\ new_bc'.num_tokens <= Cardinality(NewRows') * L
  <2>1. NewRows' = {} /\ new_bc'.num_tokens = 0
      BY <1>2 DEF NewRows, ActiveRow, EmptyBatch
  <2>2. Cardinality({}) = 0
      BY FS_EmptySet
  <2> QED BY <2>1, <2>2 DEF RowsShort
<1>3. CASE AppendTokens
  <2>1. InFlight /\ new_bc' = EmptyBatch /\ old_bc' = old_bc
      BY <1>3, AppendTokensControl
  <2>2. OldRows' \subseteq OldRows
      BY <2>1 DEF OldRows
  <2>3. RowsShort(old_bc, OldRows, all_requests', L)
      BY <1>3, AppendShort
  <2> QED BY <1>2, <2>1, <2>2, <2>3 DEF RowsShort
<1>4. ASSUME NEW i \in InfrRow, CarryDecoding(i) \/ CarryPrompt(i) \/ AdmitRequest(i)
      PROVE  /\ RowsShort(old_bc', OldRows', all_requests', L)
             /\ RowsShort(new_bc', NewRows', all_requests', L)
             /\ new_bc'.num_tokens <= Cardinality(NewRows') * L
  <2>1. /\ i \in Row /\ i \notin ActiveRow(new_bc)
        /\ UNCHANGED << old_bc, all_requests >>
        /\ NewRows' = NewRows \cup {i}
        /\ \A q \in Row : q # i => new_bc'.requestsInfo[q] = new_bc.requestsInfo[q]
        /\ new_bc'.requestsInfo[i] \in PerRequestInfo
        /\ new_bc'.num_tokens
             = new_bc.num_tokens + new_bc'.requestsInfo[i].num_tokens_in_batch
      BY <1>4, NewRowStep
  <2>2. /\ new_bc'.requestsInfo[i].num_tokens_in_batch <= L
        /\ all_requests[GuidOf(new_bc', i)].tokens <= EndDepth(new_bc', i) + L
        /\ OldRows' \subseteq OldRows
      BY <1>4, NewRowShort
  <2>3. RowsShort(old_bc', OldRows', all_requests', L)
      BY <2>1, <2>2 DEF ChunksShort, RowsShort
  <2>4. RowsShort(new_bc', NewRows, all_requests', L)
    <3>1. \A r \in NewRows : r \in Row /\ r # i
        BY <2>1 DEF NewRows, ActiveRow
    <3> QED BY <2>1, <3>1, RowsShortKept DEF ChunksShort
  <2>5. RowsShort(new_bc', NewRows', all_requests', L)
      BY <2>1, <2>2, <2>4 DEF RowsShort
  <2>6. IsFiniteSet(NewRows) /\ Cardinality(NewRows) \in Nat /\ i \notin NewRows
      BY <2>1, InfrRowsFinite DEF NewRows
  <2>7. Cardinality(NewRows') = Cardinality(NewRows) + 1
      BY <2>1, <2>6, FS_AddElement
  <2>8. (Cardinality(NewRows) + 1) * L = Cardinality(NewRows) * L + L
        /\ Cardinality(NewRows) * L \in Int
      BY <2>6, TimesNext
  <2>9. /\ new_bc.num_tokens \in Nat
        /\ new_bc'.requestsInfo[i].num_tokens_in_batch \in Int
        /\ new_bc.num_tokens <= Cardinality(NewRows) * L
      BY <1>1, <2>1 DEF TypeInvariant, TypeOK, BatchConfig, PerRequestInfo, ChunksShort
  <2>10. new_bc'.num_tokens <= Cardinality(NewRows') * L
      BY <2>1, <2>2, <2>7, <2>8, <2>9
  <2> QED BY <2>3, <2>5, <2>10
<1>5. CASE SchedulePeft \/ ScheduleNone
  <2>1. PICK bc \in BatchConfig :
           /\ Launch(bc)
           /\ ActiveRow(bc) \cap InfrRow = NewRows
           /\ \A r \in InfrRow : bc.requestsInfo[r] = new_bc.requestsInfo[r]
      BY <1>5, LaunchFacts DEF SlotsAndRows, RowsInvariant
  <2>2. old_bc' = bc /\ new_bc' = EmptyBatch /\ step' = "inference"
        /\ all_requests' = all_requests
      BY <2>1 DEF Launch, registry
  <2>3. OldRows' = NewRows
      BY <2>1, <2>2 DEF OldRows, InFlight
  <2>4. \A r \in NewRows : bc.requestsInfo[r] = new_bc.requestsInfo[r]
      BY <2>1 DEF NewRows
  <2>5. RowsShort(old_bc', OldRows', all_requests', L)
      BY <2>2, <2>3, <2>4, RowsShortKept DEF ChunksShort
  <2> QED BY <1>2, <2>2, <2>5
<1>6. CASE (Inference \/ OtherStep) /\ ~AppendTokens
  <2>1. UNCHANGED << old_bc, new_bc >> /\ OldRows' \subseteq OldRows
      BY <1>6 DEF Inference, OtherStep, InFlight, OldRows
  <2>2. NewRows' = NewRows
      BY <2>1 DEF NewRows
  <2>3. /\ \A r \in OldRows : LET g == GuidOf(old_bc, r) IN
                all_requests'[g].tokens = all_requests[g].tokens
        /\ \A r \in NewRows : LET g == GuidOf(new_bc, r) IN
                all_requests'[g].tokens = all_requests[g].tokens
      BY <1>6, RowsTokens
  <2>4. RowsShort(new_bc', NewRows', all_requests', L)
      BY <2>1, <2>2, <2>3, RowsShortKept DEF ChunksShort
  <2>5. RowsShort(old_bc', OldRows', all_requests', L)
      BY <2>1, <2>3, RowsShortKept DEF ChunksShort
  <2> QED BY <2>1, <2>2, <2>4, <2>5 DEF ChunksShort
<1> QED BY <1>3, <1>4, <1>5, <1>6, BatchSteps

\* There are inference_batch_size inference rows.
LEMMA InfrRowSize == IsFiniteSet(InfrRow) /\ Cardinality(InfrRow) = inference_batch_size
<1>1. inference_batch_size \in Nat
    BY RowSubsets, ConstantsAssumption
<1>2. inference_batch_size - 1 \in Int /\ 0 \in Int
    BY <1>1
<1>3. /\ IsFiniteSet(0 .. inference_batch_size - 1)
      /\ Cardinality(0 .. inference_batch_size - 1)
           = IF 0 > inference_batch_size - 1 THEN 0 ELSE inference_batch_size - 1 - 0 + 1
    BY <1>2, FS_Interval
<1>4. (IF 0 > inference_batch_size - 1 THEN 0 ELSE inference_batch_size - 1 - 0 + 1)
        = inference_batch_size
    BY <1>1
<1> QED BY <1>3, <1>4 DEF InfrRow

\* No step of the manager trains on a part of an entry only.
FreshEntries ==
    \A g \in Guid : IsFinetuning(g) => all_requests[g].dataset_entry_processed_tokens = 0

\* With short chunks, the row that is scheduled holds a whole entry.
LEMMA ScheduleWhole ==
    ASSUME SlotsAndRows, NEW L \in Nat \ {0}, EntriesFit(L), ChunksShort(L),
           FreshEntries, EntriesAccepted, SchedulePeft
    PROVE  EntriesWhole'
<1>1. TypeInvariant /\ UnderConstruction
    BY DEF SlotsAndRows, RowsInvariant
<1> PICK g : g = Head(pending_peft_request_queue)
    OBVIOUS
<1> DEFINE r == all_requests[g]
           n == num_peft_tokens(r)
<1>2. /\ g \in Guid /\ r \in Request /\ IsFinetuning(g) /\ PeftEnabled
      /\ r.finetuning \in Finetunings /\ EntrySize(r) \in Nat
      /\ \/ n <= 0 /\ Launch(new_bc)
         \/ /\ n > 0
            /\ \E info \in PerRequestInfo :
                 /\ Launch(PutPeftRow(new_bc, info))
                 /\ info.request_guid = g
                 /\ info.first_token_depth_in_request = r.dataset_entry_processed_tokens
                 /\ info.num_tokens_in_batch = n
    BY <1>1, PeftChunk, PeftHead
<1>3. n = EntrySize(r)
  <2>1. r.dataset_entry_processed_tokens = 0
      BY <1>2 DEF FreshEntries
  <2>2. PICK f \in Finetunings : f = r.finetuning
      BY <1>2
  <2>3. f.dataset \in Seq(Nat) /\ f.dataset # << >> /\ r.completed_training_steps \in Nat
      BY <1>2, ConstantsAssumption DEF Finetuning, Request
  <2> DEFINE e == 1 + (r.completed_training_steps % Len(f.dataset))
  <2>4. e \in DOMAIN f.dataset
      BY <2>3
  <2>5. EntrySize(r) = f.dataset[e] /\ f.dataset[e] <= MaxSeqLen
      BY <1>2, <2>2, <2>4 DEF EntrySize, EntriesAccepted
  <2>6. EntrySize(r) + inference_batch_size * L <= MaxTokens
      BY <2>4, <2>5 DEF EntriesFit
  <2>7. new_bc.num_tokens <= inference_batch_size * L
    <3>1. IsFiniteSet(InfrRow) /\ Cardinality(InfrRow) = inference_batch_size
        BY InfrRowSize
    <3>2. /\ Cardinality(NewRows) \in Nat /\ Cardinality(NewRows) <= inference_batch_size
        BY <3>1, FS_Subset, FS_CardinalityType DEF NewRows
    <3>3. inference_batch_size \in Int /\ L \in Nat
        BY RowSubsets
    <3>4. Cardinality(NewRows) * L <= inference_batch_size * L
        BY <3>2, <3>3, TimesMono
    <3>5. new_bc.num_tokens <= Cardinality(NewRows) * L /\ new_bc.num_tokens \in Nat
        BY <1>1 DEF ChunksShort, TypeInvariant, TypeOK, BatchConfig
    <3>6. Cardinality(NewRows) * L \in Int /\ inference_batch_size * L \in Int
        BY <3>2, <3>3, TimesNext
    <3> QED BY <3>4, <3>5, <3>6
  <2>8. /\ new_bc.num_tokens \in Nat /\ MaxTokens \in Nat
        /\ inference_batch_size * L \in Int
    <3>1. inference_batch_size \in Int /\ L \in Nat
        BY RowSubsets
    <3> QED BY <1>1, <3>1, TimesNext, ConstantsAssumption
            DEF TypeInvariant, TypeOK, BatchConfig
  <2>9. n = Smaller(EntrySize(r) - 0, MaxTokens - new_bc.num_tokens)
      BY <2>1 DEF num_peft_tokens
  <2>10. EntrySize(r) <= MaxTokens - new_bc.num_tokens
      BY <1>2, <2>6, <2>7, <2>8
  <2> HIDE DEF n, r
  <2> QED BY <1>2, <2>9, <2>10 DEF Smaller
<1> HIDE DEF n
<1>4. PeftRow \in Row /\ PeftRow \notin ActiveRow(new_bc)
    BY <1>1, <1>2, RowSubsets DEF UnderConstruction
<1>5. CASE Launch(new_bc)
    BY <1>4, <1>5 DEF Launch, EntriesWhole, ActiveRow
<1>6. ASSUME NEW info \in PerRequestInfo, Launch(PutPeftRow(new_bc, info)),
             info.request_guid = g, info.num_tokens_in_batch = n,
             info.first_token_depth_in_request = r.dataset_entry_processed_tokens
      PROVE  EntriesWhole'
  <2>1. old_bc' = PutPeftRow(new_bc, info) /\ all_requests' = all_requests
      BY <1>6 DEF Launch, registry
  <2>2. old_bc'.requestsInfo[PeftRow] = info
      BY <1>1, <1>4, <2>1 DEF PutPeftRow, TypeInvariant, TypeOK, BatchConfig
  <2>3. r.dataset_entry_processed_tokens = 0
      BY <1>2 DEF FreshEntries
  <2>4. info.first_token_depth_in_request + info.num_tokens_in_batch = EntrySize(r)
      BY <1>2, <1>3, <1>6, <2>3
  <2> QED BY <1>6, <2>1, <2>2, <2>4 DEF EntriesWhole, EndDepth
<1> QED BY <1>2, <1>5, <1>6

\* What the finetuning requests have processed, and the sizes of their entries.
LEMMA NextFresh ==
    ASSUME TypeInvariant, UnusedGuids, EntriesWhole, FreshEntries, EntriesAccepted,
           [Next]_vars
    PROVE  FreshEntries' /\ EntriesAccepted'
<1>1. CASE FinetuningKept
    BY <1>1 DEF FinetuningKept, FreshEntries, EntriesAccepted
<1>2. CASE PopPeft
    BY <1>2 DEF PopPeft, FreshEntries, EntriesAccepted, IsFinetuning
<1>3. CASE TrainRow
  <2> PICK g : g = GuidOf(old_bc, PeftRow)
      OBVIOUS
  <2>1. /\ \A h \in Guid : h # g => all_requests'[h] = all_requests[h]
        /\ IsFinetuning(g)
        /\ all_requests'[g].req_type = all_requests[g].req_type
        /\ all_requests'[g].finetuning = all_requests[g].finetuning
      BY <1>3, TrainFacts
  <2>2. all_requests'[g].dataset_entry_processed_tokens = 0
      BY <1>3, TrainedEntry
  <2> QED BY <2>1, <2>2 DEF FreshEntries, EntriesAccepted, IsFinetuning
<1>4. ASSUME NEW f \in Finetunings, Registered(f)
      PROVE  FreshEntries' /\ EntriesAccepted'
  <2> PICK g : g = next_available_guid
      OBVIOUS
  <2>1. /\ all_requests'[g] = [NoRequest EXCEPT !.req_type = "REQ_FINETUNING",
                                                !.finetuning = f]
        /\ \A h \in Guid : h # g => all_requests'[h] = all_requests[h]
        /\ \A e \in DOMAIN f.dataset : f.dataset[e] <= MaxSeqLen
      BY <1>4 DEF Registered
  <2>2. /\ all_requests'[g].dataset_entry_processed_tokens = 0
        /\ all_requests'[g].finetuning = f
      BY <2>1 DEF NoRequest
  <2> QED BY <2>1, <2>2 DEF FreshEntries, EntriesAccepted, IsFinetuning
<1> QED BY <1>1, <1>2, <1>3, <1>4, FinetuningStep

\* The steps keep the entries whole.
LEMMA NextWhole ==
    ASSUME SlotsAndRows, NEW L \in Nat \ {0}, EntriesFit(L), ChunksShort(L),
           FreshEntries, EntriesAccepted, EntriesWhole, [Next]_vars
    PROVE  EntriesWhole'
<1>1. TypeInvariant /\ RowsInvariant /\ UnderConstruction
    BY DEF SlotsAndRows, RowsInvariant
<1> SUFFICES ASSUME step' # "schedule", PeftEnabled, (PeftRow \in ActiveRow(old_bc))'
             PROVE  EntriesWhole'
    BY DEF EntriesWhole
<1>2. CASE ScheduleNone
  <2>1. old_bc' = new_bc
      BY <1>2 DEF ScheduleNone, Launch
  <2>2. PeftRow \notin ActiveRow(new_bc)
      BY <1>1, RowSubsets DEF UnderConstruction
  <2> QED BY <2>1, <2>2 DEF ActiveRow
<1>3. CASE SchedulePeft
    BY <1>3, ScheduleWhole
<1>4. CASE ~(SchedulePeft \/ ScheduleNone)
    BY <1>1, <1>4, FinetuningRowKept DEF EntriesWhole, EndDepth, GuidOf, EntrySize
<1> QED BY <1>2, <1>3, <1>4

\* The entries are whole because the chunks of the inference rows are short.
WholeInvariant(L) == ChunksShort(L) /\ FreshEntries /\ EntriesAccepted /\ EntriesWhole

\* Nothing is registered and no row is in use at the start.
LEMMA InitWhole ==
    ASSUME NEW L \in Nat \ {0}, Init
    PROVE  WholeInvariant(L)
<1>1. /\ \A g \in Guid : ~IsFinetuning(g)
      /\ queue = << >> /\ ActiveRow(old_bc) = {} /\ ActiveRow(new_bc) = {}
      /\ new_bc.num_tokens = 0
    BY DEF Init, IsFinetuning, NoRequest, queue, ActiveRow, EmptyBatch
<1>2. OldRows = {} /\ NewRows = {} /\ Cardinality({}) = 0
    BY <1>1, FS_EmptySet DEF OldRows, NewRows
<1>3. DOMAIN << >> = {}
    OBVIOUS
<1>4. QueuedShort(L)
    BY <1>1, <1>3 DEF QueuedShort
<1>5. new_bc.num_tokens <= Cardinality(NewRows) * L
    BY <1>1, <1>2
<1> QED BY <1>1, <1>2, <1>4, <1>5
        DEF WholeInvariant, ChunksShort, RowsShort, FreshEntries, EntriesAccepted, EntriesWhole

\* If every accepted entry fits in a batch beside the longest accepted prompt in
\* every inference row, no finetuning row leaves tokens of its entry to the next
\* batch, whatever requests are served with it and however many tokens they
\* generate.
THEOREM EntriesAlwaysWhole ==
    ASSUME NonEmptyPrompts, NEW L \in Nat \ {0}, EntriesFit(L)
    PROVE  TrainingSpec => []EntriesWhole
<1>1. ASSUME BatchInvariant, WholeInvariant(L), [Next]_vars
      PROVE  WholeInvariant(L)'
  <2>1. SlotsAndRows /\ DepthsInvariant /\ TypeInvariant /\ UnusedGuids
      BY <1>1 DEF BatchInvariant, SlotsAndRows, RowsInvariant
  <2> QED BY <1>1, <2>1, NextChunksShort, NextFresh, NextWhole DEF WholeInvariant
<1>2. BatchInvariant /\ WholeInvariant(L) /\ [Next]_vars => WholeInvariant(L)'
    BY <1>1
<1>3. Init => WholeInvariant(L)
    BY InitWhole
<1>4. WholeInvariant(L) => EntriesWhole
    BY DEF WholeInvariant
<1>5. Spec => []BatchInvariant
    BY BatchInvariantHolds
<1> QED BY <1>2, <1>3, <1>4, <1>5, TrainingImplementsManager, PTL DEF Spec

\* Under the same condition, every update is made with the gradients of its own
\* group of entries, and the weights a request saves contain all its updates: of
\* the constants alone, and with no assumption on how the batches come out.
THEOREM TrainingExact ==
    ASSUME NonEmptyPrompts, NEW L \in Nat \ {0}, EntriesFit(L)
    PROVE  TrainingSpec => [](UpdatesUseWindows /\ SavedWeightsComplete)
<1>1. TrainingSpec => []EntriesWhole
    BY EntriesAlwaysWhole
<1> QED BY <1>1, UpdatesAlwaysUseWindows, SavedAlwaysComplete, PTL
=============================================================================
