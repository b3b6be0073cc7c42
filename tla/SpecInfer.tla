------------------------------ MODULE SpecInfer ------------------------------
(***************************************************************************)
(* Speculative inference: RequestManager::serve_spec_infer and the three   *)
(* functions it calls in turn, prepare_next_batch_init, _beam (once per    *)
(* layer of the token tree) and _verify, with what the large model (LLM)   *)
(* does with a tree: its KV cache, its causal mask, its outputs.           *)
(*                                                                         *)
(* Only what matters to the outcome is kept of a token.  Greedy is, at     *)
(* each depth of each request, the token that the LLM would yield there in *)
(* incremental decoding; the others are wrong guesses.  The LLM yields     *)
(* Greedy in a slot whose query sees exactly the keys of its own prefix,   *)
(* once each and all of them right, and any token in the other slots (the  *)
(* same in all of a batch, which bounds the model).  The small model (SSM) *)
(* guesses anything.                                                       *)
(***************************************************************************)
EXTENDS Integers, Sequences, FiniteSets, SequencesExt

CONSTANTS
    MaxRequests,        \* max_requests_per_batch: rows of a batch
    MaxTokens,          \* max_tokens_per_batch
    MaxSpecTreeTokens,  \* max_spec_tree_token_num
    MaxBeamDepth,       \* BeamSearchBatchConfig::MAX_BEAM_DEPTH
    MaxBranches,        \* MAX_SPECULATIVE_TREE_BRANCHES
    MaxSeqLength,       \* max_sequence_length, by which the KV cache is sized
    TokenId,            \* the tokens told apart, 0 among them
    NumGuids,           \* bound: registrations
    Setups              \* tree widths, with the prompts clients then submit
                        \* and, as a bound, the number of requests

Greedy == 0
Wrong == -1             \* keys and values that are not those of the prefix

\* max_tokens_per_batch + max_spec_tree_token_num * max_requests_per_batch
MaxVerifyTokens == MaxTokens + MaxSpecTreeTokens * MaxRequests

SpecAssumption ==
    /\ {MaxRequests, MaxTokens, MaxSpecTreeTokens, MaxBeamDepth, MaxBranches,
        MaxSeqLength} \subseteq Nat \ {0}
    /\ Greedy \in TokenId /\ TokenId \subseteq Nat
    /\ \A s \in Setups :
          /\ s.width \in Seq(1 .. MaxBranches)
          /\ s.requests <= NumGuids
          /\ s.prompts \subseteq [initial_len : Nat \ {0},
                                  max_sequence_length : Nat]

ASSUME SpecAssumption

VARIABLES
    setup,              \* what the application configured
    step,               \* the next call of the serving loop
    all_requests,       \* per guid
    pending_infr_request_queue,
    committed_tokens,   \* per guid, <<depth, index in the last tree batch>>
    dfs_tree_inputs,    \* per guid, the tree sent to the LLM, layer by layer
    beam_bc,            \* BeamSearchBatchConfig
    tree_bc,            \* TreeVerifyBatchConfig
    token_ids,          \* InferenceResult of tree_bc
    kv_cache,           \* per row and position, the depth the keys are right for
    qkv                 \* devQKVProjArray: the same, per slot of the last batch

requestVars == << all_requests, committed_tokens, dfs_tree_inputs >>
modelVars == << token_ids, kv_cache, qkv >>
vars == << setup, step, requestVars, pending_infr_request_queue, beam_bc,
           tree_bc, modelVars >>

\* Positions of the LLM's KV cache, per row.
Position == 0 .. MaxSeqLength + MaxSpecTreeTokens - 1
EmptyCache == [p \in Position |-> Wrong]

Rows == 0 .. MaxRequests - 1
RowOrder == [k \in 1 .. MaxRequests |-> k - 1]
Minimum(a, b) == IF a <= b THEN a ELSE b

Guid == DOMAIN all_requests
Size(r) == r.initial_len + Len(r.tokens)    \* request.tokens.size()
Width(ssm_decoding_steps) ==
    IF ssm_decoding_steps < Len(setup.width)
    THEN setup.width[ssm_decoding_steps + 1] ELSE 1

\* A node of a token tree.
Node(token, depth) == [token |-> token, depth |-> depth]

(***************************************************************************)
(* The bit mask of a tree.  Bit q of mask[n] lets query q see node n; keys *)
(* before position non_tree_cache_size are seen by all.                    *)
(***************************************************************************)
TreeNode == 0 .. MaxBranches * MaxBeamDepth

NoMask == [mask |-> [n \in TreeNode |-> {}], non_tree_cache_size |-> 0,
           tree_size |-> 0, prompt_size |-> 0]

\* initBitMask: a new prompt.  No bit is set.
InitBitMask(len) == [NoMask EXCEPT !.tree_size = 1, !.prompt_size = len]

\* Mutant: the last verified token, the root, is counted as cached.
UpdateBitMask_RootCached(v, non_tree_size) ==
    [mask |-> [NoMask.mask EXCEPT ![0] = {0}],
     non_tree_cache_size |-> non_tree_size + v,
     tree_size |-> 1, prompt_size |-> 1]

\* updateBitMask: the root of the next tree, after v verified tokens.
UpdateBitMask(v, non_tree_size) ==
    [mask |-> [NoMask.mask EXCEPT ![0] = {0}],
     non_tree_cache_size |-> non_tree_size + v - 1,
     tree_size |-> 1, prompt_size |-> 1]

\* appendPendingRequest: a further chunk of a prompt.
AppendPendingRequest(m, len) ==
    [m EXCEPT !.non_tree_cache_size = 0, !.tree_size = 1,
              !.prompt_size = @ + len]

\* Where layer i of a tree starts, among the nodes in layer order after the
\* prompt (treeLayers[i].nodes_num_this_layer is the length of the layer).
LayerStart(layers, i) ==
    LET start[k \in 1 .. MaxBeamDepth + 1] ==
            IF k = 1 THEN 0 ELSE start[k - 1] + Len(layers[k - 1])
    IN  start[i]

\* appendBitMask: a new layer, of which each node of layer i < depth owns an
\* equal share, in order.  All see the prompt, each sees itself.
AppendBitMask(m, new_nodes, layers, depth) ==
    LET pre == m.tree_size
        new == pre .. pre + new_nodes - 1
        last == m.prompt_size + LayerStart(layers, depth)
        \* the new nodes below the j-th node of layer i
        Share(i, j) ==
            LET size == new_nodes \div Len(layers[i])
            IN  pre + j * size .. pre + (j + 1) * size - 1
        Below(n) ==
            {q \in new : \E i \in 1 .. depth - 1 :
                \E j \in 0 .. Len(layers[i]) - 1 :
                    /\ n = m.prompt_size + LayerStart(layers, i) + j
                    /\ q \in Share(i, j)}
    IN  [m EXCEPT !.tree_size = @ + new_nodes,
                  !.mask = [n \in TreeNode |-> @[n]
                     \cup (IF n < m.prompt_size THEN new ELSE {})
                     \cup Below(n)
                     \cup (IF n \in last .. pre + new_nodes - 1
                           THEN {n} ELSE {})]]

(***************************************************************************)
(* Batches: the row of a request in a BeamSearchBatchConfig and in a       *)
(* TreeVerifyBatchConfig.  Guid 0 is a row with request_completed set.     *)
(***************************************************************************)
NoBeamRow ==
    [guid |-> 0, running |-> FALSE, first_depth |-> 0, num |-> 0,
     max_depth |-> 0, current_depth |-> 0, beam_size |-> 0,
     sub_request_num |-> 0, causalMask |-> NoMask]

NoTreeRow ==
    [guid |-> 0, running |-> FALSE, first_depth |-> 0, offset |-> 0,
     num |-> 0, prompt_phase |-> FALSE, causalMask |-> NoMask]

\* tokensInfo holds the row and the node of each slot, in the order of rows.
NoTreeBatch ==
    [row |-> [i \in Rows |-> NoTreeRow], tokensInfo |-> <<>>, commit |-> <<>>]

ActiveRows(bc) == {i \in Rows : bc[i].guid # 0}

Init ==
    /\ setup \in Setups
    /\ step = [call |-> "init", depth |-> 0]
    /\ all_requests = <<>>
    /\ pending_infr_request_queue = <<>>
    /\ committed_tokens = <<>>
    /\ dfs_tree_inputs = <<>>
    /\ beam_bc = [i \in Rows |-> NoBeamRow]
    /\ tree_bc = NoTreeBatch
    /\ token_ids = <<>>
    /\ kv_cache = [i \in Rows |-> EmptyCache]
    /\ qkv = <<>>

\* serve_spec_infer: init, beam once per layer, verify, the LLM, and again.
NextStep ==
    CASE step.call = "init"   -> [call |-> "beam", depth |-> 0]
      [] step.call = "beam"   -> IF step.depth + 1 < MaxBeamDepth
                                 THEN [step EXCEPT !.depth = @ + 1]
                                 ELSE [call |-> "verify", depth |-> 0]
      [] step.call = "verify" -> [call |-> "llm", depth |-> 0]
      [] step.call = "llm"    -> [call |-> "init", depth |-> 0]

NoBeamTree == [k \in 0 .. MaxBeamDepth |-> <<>>]

\* register_new_request, under the mutex the three functions hold.  Only _init
\* reads what it writes: coming between the other steps is no different.
RegisterNewRequest ==
    /\ step.call = "init"
    /\ Len(all_requests) < setup.requests
    /\ \E p \in setup.prompts :
          all_requests' = Append(all_requests,
            [status |-> "PENDING", initial_len |-> p.initial_len,
             max_sequence_length |-> p.max_sequence_length, tokens |-> <<>>,
             ssm_cache_size |-> 0, llm_cache_size |-> 0, chunks |-> 0,
             beam_tree |-> NoBeamTree,
             result |-> 0])
    /\ committed_tokens' = Append(committed_tokens, <<>>)
    /\ dfs_tree_inputs' = Append(dfs_tree_inputs, <<>>)
    /\ pending_infr_request_queue' =
          Append(pending_infr_request_queue, Len(all_requests'))
    /\ UNCHANGED << setup, step, beam_bc, tree_bc, modelVars >>

(***************************************************************************)
(* prepare_next_batch_init                                                 *)
(***************************************************************************)

\* The slots of row i in the last batch that are passed on: all of a prompt that
\* is being loaded, else the tree.  A committed token is <<depth, index>>, an
\* output is one deeper than the node it follows.
Loaded(r, i) ==
    LET info == tree_bc.tokensInfo
        passed[s \in 0 .. Len(info)] ==
            IF s = 0 THEN <<>>
            ELSE IF /\ info[s].row = i
                    /\ r.status = "PENDING" \/ info[s].depth >= Size(r) - 1
                 THEN Append(passed[s - 1], s) ELSE passed[s - 1]
    IN  passed[Len(info)]
Commits(slots) ==
    [k \in DOMAIN slots |-> << tree_bc.tokensInfo[slots[k]].depth, slots[k] >>]
Outputs(slots) ==
    [k \in DOMAIN slots |->
        Node(token_ids[slots[k]], tree_bc.tokensInfo[slots[k]].depth + 1)]

\* The place of node k of a serialised tree in its layer.
LayerSlot(tree, k) ==
    Cardinality({n \in 1 .. k - 1 : tree[n].depth = tree[k].depth})

\* Mutant: the keys that are committed are those of the node before.
TraverseVerifyTree_CommitsPrevious(inputs, outputs, commits) ==
    LET Asserted(acc, k) == acc.asserted /\ commits[k][1] = inputs[k].depth
        visit[k \in 1 .. Len(outputs)] ==
            LET acc == visit[k - 1]
            IN  IF k = 1
                THEN [verified |-> << outputs[1] >>,
                      committed |-> << commits[1] >>, slot |-> -1,
                      asserted |-> commits[1][1] = inputs[1].depth]
                ELSE IF inputs[k] # Last(acc.verified) THEN acc
                ELSE IF acc.slot \in {-1, LayerSlot(inputs, k)}
                THEN [verified |-> Append(acc.verified, outputs[k]),
                      committed |-> Append(acc.committed, 
                                    << commits[k][1], commits[k - 1][2] >>),
                      slot |-> LayerSlot(inputs, k),
                      asserted |-> Asserted(acc, k)]
                ELSE [acc EXCEPT !.asserted = Asserted(acc, k)]
    IN  visit[Len(outputs)]

\* traverse_verify_tree: follow, from the root, the nodes that the output of the
\* last verified one predicts, all in the layer slot of the first.  asserted: the
\* outputs of the LLM are at the depths of the nodes they are compared with.
TraverseVerifyTree(inputs, outputs, commits) ==
    LET Asserted(acc, k) == acc.asserted /\ commits[k][1] = inputs[k].depth
        visit[k \in 1 .. Len(outputs)] ==
            LET acc == visit[k - 1]
            IN  IF k = 1
                THEN [verified |-> << outputs[1] >>,
                      committed |-> << commits[1] >>, slot |-> -1,
                      asserted |-> commits[1][1] = inputs[1].depth]
                ELSE IF inputs[k] # Last(acc.verified) THEN acc
                ELSE IF acc.slot \in {-1, LayerSlot(inputs, k)}
                THEN [verified |-> Append(acc.verified, outputs[k]),
                      committed |-> Append(acc.committed, commits[k]),
                      slot |-> LayerSlot(inputs, k),
                      asserted |-> Asserted(acc, k)]
                ELSE [acc EXCEPT !.asserted = Asserted(acc, k)]
    IN  visit[Len(outputs)]

\* Per row of the last batch that is running: the verified tokens.
RunningRows(rows) ==
    {i \in Rows : rows[i].guid # 0 /\ all_requests[rows[i].guid].status = "RUNNING"}
Verification ==
    [i \in RunningRows(tree_bc.row) |->
        LET g == tree_bc.row[i].guid
            slots == Loaded(all_requests[g], i)
        IN  TraverseVerifyTree(dfs_tree_inputs[g], Outputs(slots),
                               Commits(slots))]

\* Mutant: a request goes on at its limit.
Finishes_PastLimit(verification, i) ==
    LET r == all_requests[tree_bc.row[i].guid]
    IN  Len(verification[i].verified) + Size(r) > r.max_sequence_length

Finishes(verification, i) ==
    LET r == all_requests[tree_bc.row[i].guid]
    IN  Len(verification[i].verified) + Size(r) >= r.max_sequence_length

\* new_bc.num_tokens before row i: each running row that goes on brings its
\* verified tokens, but stops when the batch holds exactly MaxTokens.
TokensAdded(verification, i, num_tokens) ==
    LET v == Len(verification[i].verified)
    IN  IF i \notin DOMAIN verification \/ Finishes(verification, i) THEN 0
        ELSE IF num_tokens < MaxTokens THEN Minimum(v, MaxTokens - num_tokens)
        ELSE v
TokensBefore(verification) ==
    LET before[i \in 0 .. MaxRequests] ==
            IF i = 0 THEN 0
            ELSE before[i - 1]
                   + TokensAdded(verification, i - 1, before[i - 1])
    IN  before

Tokens(nodes) == [k \in DOMAIN nodes |-> nodes[k].token]

\* Step 1: the request and the new row of an active row i of the last batch.
UpdatedRequest(verification, i, before) ==
    LET r == all_requests[tree_bc.row[i].guid]
        v == verification[i].verified
        kept == SelectSeq(v, LAMBDA n : n.depth < r.max_sequence_length)
        sent == SubSeq(v, 1, TokensAdded(verification, i, before[i]))
    IN  IF i \notin DOMAIN verification THEN r
        ELSE IF Finishes(verification, i)
        THEN [r EXCEPT !.tokens = @ \o Tokens(kept), !.status = "COMPLETED",
                       !.result = Size(r) + Len(kept), !.beam_tree = NoBeamTree]
        ELSE [r EXCEPT !.tokens = @ \o Tokens(sent), !.beam_tree = NoBeamTree]

RunningBeamRow(g, v) ==
    LET r == all_requests[g]
        first == v[1].depth
    IN  [guid |-> g, running |-> TRUE, first_depth |-> first, num |-> Len(v),
         max_depth |-> Minimum(r.max_sequence_length - first - Len(v),
                               MaxBeamDepth),
         current_depth |-> 1, beam_size |-> Width(0), sub_request_num |-> 1,
         causalMask |-> UpdateBitMask(Len(v), Size(r))]

LoadingBeamRow(g) ==
    [NoBeamRow EXCEPT
        !.guid = g, !.first_depth = all_requests[g].ssm_cache_size,
        !.current_depth = 1, !.beam_size = Width(0), !.sub_request_num = 1]

CarriedRow(verification, i) ==
    LET g == tree_bc.row[i].guid
    IN  CASE g = 0 -> NoBeamRow
          [] i \in DOMAIN verification ->
                IF Finishes(verification, i) THEN NoBeamRow
                ELSE RunningBeamRow(g, verification[i].verified)
          [] OTHER -> LoadingBeamRow(g)

\* Step 2: each free row, in turn, takes a request while there is room.
NewBeamRow(g, num) ==
    [NoBeamRow EXCEPT
        !.guid = g, !.num = num, !.current_depth = 1, !.beam_size = Width(0),
        !.max_depth = Minimum(MaxBeamDepth, MaxTokens - num - 1),
        !.sub_request_num = 1, !.causalMask = InitBitMask(num)]

\* Mutant: a request is admitted only if its prompt and a token fit.
Admit_WholePrompt(acc, i) ==
    IF /\ acc.row[i].guid = 0 /\ acc.queue # <<>>
       /\ acc.num_tokens + Size(all_requests[Head(acc.queue)]) < MaxTokens
    THEN LET g == Head(acc.queue)
             num == Size(all_requests[g])
         IN  [row |-> [acc.row EXCEPT ![i] = NewBeamRow(g, num)],
              queue |-> Tail(acc.queue), num_tokens |-> acc.num_tokens + num]
    ELSE acc

\* Mutant: the request stays in the queue.
Admit_KeepsHead(acc, i) ==
    IF acc.row[i].guid = 0 /\ acc.queue # <<>> /\ acc.num_tokens < MaxTokens
    THEN LET g == Head(acc.queue)
             num == Minimum(MaxTokens - acc.num_tokens, Size(all_requests[g]))
         IN  [row |-> [acc.row EXCEPT ![i] = NewBeamRow(g, num)],
              queue |-> acc.queue, num_tokens |-> acc.num_tokens + num]
    ELSE acc

Admit(acc, i) ==
    IF acc.row[i].guid = 0 /\ acc.queue # <<>> /\ acc.num_tokens < MaxTokens
    THEN LET g == Head(acc.queue)
             num == Minimum(MaxTokens - acc.num_tokens, Size(all_requests[g]))
         IN  [row |-> [acc.row EXCEPT ![i] = NewBeamRow(g, num)],
              queue |-> Tail(acc.queue), num_tokens |-> acc.num_tokens + num]
    ELSE acc

\* The new batch after both steps, and what is left of the queue.
Admitted(verification) ==
    LET carried == [row |-> [i \in Rows |-> CarriedRow(verification, i)],
                    queue |-> pending_infr_request_queue,
                    num_tokens |-> TokensBefore(verification)[MaxRequests]]
        upto[i \in 0 .. MaxRequests] ==
            IF i = 0 THEN carried ELSE Admit(upto[i - 1], i - 1)
    IN  upto[MaxRequests]

PrepareNextBatchInit ==
    LET active == ActiveRows(tree_bc.row)
        verification == Verification
        before == TokensBefore(verification)
        admitted == Admitted(verification)
        new == {i \in Rows : admitted.row[i].guid # tree_bc.row[i].guid
                               /\ admitted.row[i].guid # 0}
        RowOf(g) == CHOOSE i \in active : tree_bc.row[i].guid = g
        served == {tree_bc.row[i].guid : i \in active}
    IN  /\ step.call = "init"
        \* assertions of the loop and of traverse_verify_tree
        /\ active # {} => tree_bc.tokensInfo # <<>>
        /\ \A i \in active :
              LET r == all_requests[tree_bc.row[i].guid]
              IN  r.status = "PENDING" => r.ssm_cache_size = r.initial_len
        /\ \A i \in DOMAIN verification :
              LET g == tree_bc.row[i].guid
                  slots == Loaded(all_requests[g], i)
              IN  /\ Len(dfs_tree_inputs[g]) >= Len(slots)
                  /\ verification[i].asserted
        /\ all_requests' = [g \in Guid |->
              IF g \in served THEN UpdatedRequest(verification, RowOf(g), before)
              ELSE IF \E i \in new : admitted.row[i].guid = g
              THEN [all_requests[g] EXCEPT !.ssm_cache_size =
                      admitted.row[CHOOSE i \in new :
                                      admitted.row[i].guid = g].num]
              ELSE all_requests[g]]
        /\ committed_tokens' = [g \in Guid |->
              IF g \notin served THEN committed_tokens[g]
              ELSE IF RowOf(g) \in DOMAIN verification
              THEN verification[RowOf(g)].committed
              ELSE Commits(Loaded(all_requests[g], RowOf(g)))]
        \* erased when it completes; else written anew, like the layers of
        \* the beam tree, before it is read
        /\ dfs_tree_inputs' = [g \in Guid |-> <<>>]
        /\ beam_bc' = admitted.row
        /\ pending_infr_request_queue' = admitted.queue
        \* what a row holds of its last request is nothing to the next
        /\ kv_cache' = [i \in Rows |-> IF i \in new THEN EmptyCache
                                       ELSE kv_cache[i]]
        /\ step' = NextStep
        /\ UNCHANGED << setup, tree_bc, token_ids, qkv >>

(***************************************************************************)
(* The SSM on beam_bc, then prepare_next_batch_beam                        *)
(***************************************************************************)

\* The SSM's guesses: beam_size tokens after each of the row's branches, the
\* best ones (arg_topk), which differ.
Leaves(row) == IF row.num = 0 THEN 0 ELSE row.sub_request_num * row.beam_size
RowGuesses(row) ==
    {f \in [1 .. Leaves(row) -> TokenId] :
        \A j, k \in 1 .. Leaves(row) :
            j # k /\ (j - 1) \div row.beam_size = (k - 1) \div row.beam_size
              => f[j] # f[k]}
Guesses ==
    {f \in [Rows -> UNION {RowGuesses(beam_bc[i]) : i \in Rows}] :
        \A i \in Rows : f[i] \in RowGuesses(beam_bc[i])}

RunningBeamRows == {i \in ActiveRows(beam_bc) : beam_bc[i].running}

\* The last row of the compact list (batch_config_request_id), in which the rows
\* that speculate come before the prompts.  In the batch of _init the order is
\* another, but all rows have one beam size.
LastOfList ==
    LET prompts == ActiveRows(beam_bc) \ RunningBeamRows
    IN  Max(IF prompts = {} THEN RunningBeamRows ELSE prompts)

\* ArgTopK::forward_kernel: every row has the beam size of the first one, but the
\* last of the compact list may have another.
SameBeamStage ==
    LET active == ActiveRows(beam_bc)
    IN  \A i \in active :
            i # LastOfList => beam_bc[i].beam_size = beam_bc[Min(active)].beam_size

\* store_beam_metadata: a row with tokens gets a layer, the first one a root.
RootToken(r) == IF r.tokens = <<>> THEN Greedy ELSE Last(r.tokens)
StoreBeamMetadata(r, row, guesses) ==
    IF row.num = 0 THEN r.beam_tree
    ELSE [r.beam_tree EXCEPT
            ![0] = IF row.current_depth = 1 THEN << RootToken(r) >> ELSE @,
            ![row.current_depth] = guesses]

\* A running row goes one layer deeper: all its branches, one token each.  Its
\* current_depth is one more than its ssm_decoding_steps.
DeeperRow(row, layers) ==
    LET branches == row.sub_request_num * row.beam_size
    IN  [row EXCEPT
            !.first_depth = row.first_depth + row.num, !.num = 1,
            !.current_depth = @ + 1, !.beam_size = Width(row.current_depth),
            !.sub_request_num = branches,
            !.causalMask = AppendBitMask(@, branches, layers,
                                         row.current_depth)]

\* Mutant: what the SSM has just read is read again.
PromptRow_ReadsTwice(row, i, num_tokens) ==
    LET rest == Size(all_requests[row.guid]) - row.first_depth
        num == Minimum(MaxTokens - num_tokens - MaxRequests + i, rest)
    IN  [row EXCEPT !.first_depth = @ + row.num, !.num = num, !.beam_size = 1,
                    !.causalMask = AppendPendingRequest(@, num)]

\* A prompt goes on with what fits, or rests when it has been read.
PromptRow(row, i, num_tokens) ==
    LET first == row.first_depth + row.num
        rest == Size(all_requests[row.guid]) - first
        num == Minimum(MaxTokens - num_tokens - MaxRequests + i, rest)
    IN  IF rest <= 0
        THEN [row EXCEPT !.first_depth = first, !.num = 0, !.beam_size = 1,
                         !.sub_request_num = 0]
        ELSE [row EXCEPT !.first_depth = first, !.num = num, !.beam_size = 1,
                         !.causalMask = AppendPendingRequest(@, num)]

\* Each prompt, in turn, after the running rows and what they speculate.
AddPromptRow(acc, i) ==
    IF i \notin ActiveRows(beam_bc) \ RunningBeamRows THEN acc
    ELSE LET row == PromptRow(beam_bc[i], i, acc.num_tokens)
         IN  [row |-> [acc.row EXCEPT ![i] = row],
              num_tokens |-> acc.num_tokens + row.num * row.sub_request_num]

BeamRows(deeper) ==
    LET speculated == FoldLeft(
            LAMBDA n, i : IF i \in RunningBeamRows
                          THEN n + deeper[i].sub_request_num ELSE n,
            0, RowOrder)
        begun == [row |-> [i \in Rows |-> IF i \in RunningBeamRows THEN deeper[i]
                                         ELSE beam_bc[i]],
                  num_tokens |-> speculated]
        upto[i \in 0 .. MaxRequests] ==
            IF i = 0 THEN begun ELSE AddPromptRow(upto[i - 1], i - 1)
    IN  upto[MaxRequests].row

\* The SSM runs at once with the call that reads its result.
PrepareNextBatchBeam ==
    LET active == ActiveRows(beam_bc)
        running == RunningBeamRows
    IN  /\ step.call = "beam"
        /\ SameBeamStage
        /\ \E guesses \in Guesses :
           LET Tree(i) == StoreBeamMetadata(all_requests[beam_bc[i].guid],
                                            beam_bc[i], guesses[i])
               batch == BeamRows([i \in running |-> DeeperRow(beam_bc[i], Tree(i))])
               RowOf(g) == CHOOSE i \in active : beam_bc[i].guid = g
           IN  \* assertions of the function and of the mask operations
               /\ \A i \in running :
                     /\ all_requests[beam_bc[i].guid].status = "RUNNING"
                     /\ batch[i].sub_request_num <= MaxBranches
                     /\ beam_bc[i].causalMask.tree_size =
                          beam_bc[i].causalMask.prompt_size
                            + LayerStart(Tree(i), beam_bc[i].current_depth)
               /\ \A i \in active \ running :
                     batch[i].num > 0 \/ batch[i].sub_request_num = 0
               /\ beam_bc' = batch
               /\ all_requests' = [g \in Guid |->
                     IF \A i \in active : beam_bc[i].guid # g
                     THEN all_requests[g]
                     ELSE [all_requests[g] EXCEPT
                        !.beam_tree = Tree(RowOf(g)),
                        !.ssm_cache_size = IF RowOf(g) \in running THEN @
                                           ELSE @ + batch[RowOf(g)].num]]
        /\ step' = NextStep
        /\ UNCHANGED << setup, pending_infr_request_queue, committed_tokens,
                        dfs_tree_inputs, tree_bc, modelVars >>

(***************************************************************************)
(* prepare_next_batch_verify                                               *)
(***************************************************************************)

\* traverse_beam_tree, merge_dfs_trees (of one tree)
TraverseBeamTree(r, max_depth) ==
    FlattenSeq([k \in 1 .. max_depth + 1 |->
        [j \in DOMAIN r.beam_tree[k - 1] |->
            Node(r.beam_tree[k - 1][j], Size(r) - 1 + k - 1)]])

\* Mutant: the whole tree is sent, whatever the batch holds.
SentNodes_Whole(tree, n) == tree

\* The nodes of a tree that are sent, when the batch holds n tokens already: if
\* it fills up before the last node, all of the layer that filled it are cut.
\* The root is not looked at: a batch that it fills is filled further.
SentNodes(tree, n) ==
    LET room == MaxVerifyTokens - n
        Above(depth) == {k \in DOMAIN tree : tree[k].depth < depth}
    IN  IF room \in 2 .. Len(tree) - 1
        THEN SubSeq(tree, 1, Cardinality(Above(tree[room].depth)))
        ELSE tree

CommitsOf(g, i) ==
    [k \in DOMAIN committed_tokens[g] |->
        [row |-> i, depth |-> committed_tokens[g][k][1],
         index |-> committed_tokens[g][k][2]]]

Slotted(nodes, i) ==
    [k \in DOMAIN nodes |-> [row |-> i, token |-> nodes[k].token,
                             depth |-> nodes[k].depth]]

\* acc: the batch so far, the requests, what prompts may still load.
AddTree(acc, i, tree) ==
    LET row == beam_bc[i]
        sent == SentNodes(tree, Len(acc.bc.tokensInfo))
        new == [guid |-> row.guid, running |-> TRUE, first_depth |-> tree[1].depth,
                offset |-> Len(acc.bc.tokensInfo), num |-> Len(sent),
                prompt_phase |-> FALSE, causalMask |-> row.causalMask]
    IN  [bc |-> [acc.bc EXCEPT !.row[i] = new, !.tokensInfo = @ \o Slotted(sent, i)],
         request |-> acc.request,
         tree |-> [acc.tree EXCEPT ![row.guid] = tree],
         load |-> acc.load,
         fits |-> acc.fits /\ Len(acc.bc.tokensInfo) < MaxVerifyTokens]

AddPrompt(acc, i, r) ==
    LET row == beam_bc[i]
        cached == r.llm_cache_size
        num == Minimum(acc.load, r.initial_len - cached)
        last == num + cached >= r.initial_len
        nodes == [k \in 1 .. num |-> Node(Greedy, cached + k - 1)]
        new == [guid |-> row.guid, running |-> last, first_depth |-> cached,
                offset |-> Len(acc.bc.tokensInfo), num |-> num,
                prompt_phase |-> last, causalMask |-> row.causalMask]
    IN  [bc |-> [acc.bc EXCEPT !.row[i] = new, !.tokensInfo = @ \o Slotted(nodes, i)],
         request |-> [acc.request EXCEPT
             ![row.guid].status = IF last THEN "RUNNING" ELSE @,
             ![row.guid].chunks = IF num > 0 THEN @ + 1 ELSE @],
         tree |-> [acc.tree EXCEPT
             ![row.guid] = IF last THEN << Node(RootToken(r), Size(r) - 1) >> ELSE @],
         load |-> acc.load - num,
         fits |-> acc.fits /\ Len(acc.bc.tokensInfo) + num <= MaxVerifyTokens]

VerifyRow(acc, i) ==
    LET g == beam_bc[i].guid
        r == acc.request[g]
        committed ==
            [acc EXCEPT !.bc.commit = @ \o CommitsOf(g, i),
                        !.request[g].llm_cache_size =
                            @ + Len(committed_tokens[g])]
    IN  IF g = 0 THEN acc
        ELSE IF r.status = "RUNNING"
        THEN AddTree(committed, i,
                     TraverseBeamTree(r, beam_bc[i].max_depth))
        ELSE AddPrompt(committed, i, committed.request[g])

\* A running row is granted one token per layer, a prompt one of its own.
MaxPromptLoad ==
    MaxVerifyTokens - (MaxBeamDepth + 1) * Cardinality(RunningBeamRows)
        - Cardinality(ActiveRows(beam_bc) \ RunningBeamRows)

\* The tree batch of all rows, and the requests as they are after it.
MadeTrees ==
    LET upto[i \in 0 .. MaxRequests] ==
            IF i = 0
            THEN [bc |-> NoTreeBatch, request |-> all_requests,
                  tree |-> dfs_tree_inputs, load |-> MaxPromptLoad, fits |-> TRUE]
            ELSE VerifyRow(upto[i - 1], i - 1)
    IN  upto[MaxRequests]

PrepareNextBatchVerify ==
    LET made == MadeTrees
    IN  /\ step.call = "verify"
        \* "Exceeding the space available in the TreeVerify batch"
        /\ made.fits
        /\ tree_bc' = made.bc
        /\ all_requests' = made.request
        /\ dfs_tree_inputs' = made.tree
        /\ beam_bc' = [i \in Rows |-> NoBeamRow]
        /\ step' = NextStep
        /\ UNCHANGED << setup, pending_infr_request_queue, committed_tokens,
                        modelVars >>

(***************************************************************************)
(* The LLM on tree_bc (tree_inc_multihead_self_attention.cu)               *)
(***************************************************************************)

\* commit_tokens_kernel: keys of the last batch, to the position of their depth.
AfterCommit(i) ==
    [p \in Position |->
        LET at == {k \in DOMAIN tree_bc.commit :
                    tree_bc.commit[k].row = i /\ tree_bc.commit[k].depth = p}
        IN  IF at = {} THEN kv_cache[i][p]
            ELSE qkv[tree_bc.commit[CHOOSE k \in at : \A l \in at : l <= k].index]]

\* The positions query q of row i attends to.
Sees(i, q) ==
    LET row == tree_bc.row[i]
    IN  {p \in 0 .. row.first_depth + row.num - 1 :
            IF row.prompt_phase THEN p <= row.first_depth + q
            ELSE LET n == p - row.causalMask.non_tree_cache_size
                 IN  n < 0 \/ (n \in TreeNode /\ q \in row.causalMask.mask[n])}

\* The depth the keys of token q of row i are right for: its own if it is the
\* greedy token and sees the keys of each depth up to its own, once.
RowKeys(i) ==
    LET row == tree_bc.row[i]
        cache == AfterCommit(i)
        keys[q \in 0 .. row.num - 1] ==
            LET node == tree_bc.tokensInfo[row.offset + q + 1]
                own == row.first_depth + q
                Content(p) == IF p = own THEN node.depth
                              ELSE IF p >= row.first_depth
                              THEN keys[p - row.first_depth]
                              ELSE cache[p]
                seen == Sees(i, q)
            IN  IF /\ node.token = Greedy
                   /\ own \in seen /\ \A p \in seen : p <= own
                   /\ Cardinality(seen) = node.depth + 1
                   /\ {Content(p) : p \in seen} = 0 .. node.depth
                THEN node.depth ELSE Wrong
    IN  keys

LLMInference ==
    LET keys == [i \in ActiveRows(tree_bc.row) |-> RowKeys(i)]
        Key(s) == LET i == tree_bc.tokensInfo[s].row
                  IN  keys[i][s - 1 - tree_bc.row[i].offset]
        new_qkv == [s \in DOMAIN tree_bc.tokensInfo |-> Key(s)]
        loose == {s \in DOMAIN new_qkv : new_qkv[s] = Wrong}
    IN  /\ step.call = "llm"
        \* the commit kernel asserts that it reads the last batch
        /\ \A k \in DOMAIN tree_bc.commit :
              tree_bc.commit[k].index <= Len(qkv)
        /\ IF tree_bc.tokensInfo = <<>>
           THEN UNCHANGED modelVars
           ELSE /\ \E other \in TokenId :
                      token_ids' = [s \in DOMAIN new_qkv |->
                          IF s \in loose THEN other ELSE Greedy]
                /\ qkv' = new_qkv
                /\ kv_cache' = [i \in Rows |->
                      IF tree_bc.row[i].guid = 0 THEN kv_cache[i]
                      ELSE LET row == tree_bc.row[i]
                               cache == AfterCommit(i)
                           IN  [p \in Position |->
                                  IF p - row.first_depth \in 0 .. row.num - 1
                                  THEN keys[i][p - row.first_depth]
                                  ELSE cache[p]]]
        /\ step' = NextStep
        /\ UNCHANGED << setup, requestVars, pending_infr_request_queue,
                        beam_bc, tree_bc >>

Serve ==
    \/ PrepareNextBatchInit
    \/ PrepareNextBatchBeam
    \/ PrepareNextBatchVerify
    \/ LLMInference

Next == RegisterNewRequest \/ Serve

Spec == Init /\ [][Next]_vars

\* The loop runs until the server is terminated.  Serve is all that changes step,
\* and it is enabled in every state (else TLC reports a deadlock, at the latest
\* when all requests are registered): this is its weak fairness, said of step.
FairSpec == Spec /\ WF_step(step' = NextStep)

-----------------------------------------------------------------------------
(***************************************************************************)
(* Properties                                                              *)
(***************************************************************************)

\* Types of the state, as the class declarations give them.
SpecTypeOK ==
    /\ step.call \in {"init", "beam", "verify", "llm"}
    /\ step.depth \in 0 .. MaxBeamDepth - 1
    /\ \A g \in Guid :
          LET r == all_requests[g]
          IN  /\ r.status \in {"PENDING", "RUNNING", "COMPLETED"}
              /\ r.tokens \in Seq(TokenId)
              /\ r.ssm_cache_size \in 0 .. r.initial_len
              /\ r.llm_cache_size \in Nat
              /\ \A k \in 0 .. MaxBeamDepth : r.beam_tree[k] \in Seq(TokenId)
    /\ ToSet(pending_infr_request_queue) \subseteq Guid
    /\ \A i \in Rows : /\ beam_bc[i].guid \in Guid \cup {0}
                       /\ tree_bc.row[i].guid \in Guid \cup {0}
    /\ kv_cache \in [Rows -> [Position -> Position \cup {Wrong}]]

WholePrompt(g) == all_requests[g].chunks <= 1

\* Before the LLM attends to a tree, the cache of its row holds the keys of all
\* tokens before the root, at their positions: those of the last tree that were
\* verified, and no others, have been moved there (committed_tokens).
CommittedPrefix ==
    step.call = "llm" =>
        \A i \in ActiveRows(tree_bc.row) :
            tree_bc.row[i].running /\ WholePrompt(tree_bc.row[i].guid) =>
                \A p \in 0 .. tree_bc.row[i].first_depth - 1 :
                    AfterCommit(i)[p] = p

\* What MaskIsAncestry takes for granted of the configuration: a batch of the small
\* model has room for the longest verified path of each row.  TokensAdded cuts the
\* tokens of a request to what the batch holds, the mask counts them all.
EnoughTokens == MaxTokens >= MaxRequests * (MaxBeamDepth + 1)

\* The parent of slot j (from 0) of layer k: a layer is in equal shares.
ParentSlot(layers, k, j) == j \div (Len(layers[k]) \div Len(layers[k - 1]))
Ancestors(layers, k, j) ==
    LET up[l \in 0 .. k] == IF l = k THEN j ELSE ParentSlot(layers, l + 1, up[l + 1])
    IN  {<< l, up[l] >> : l \in 0 .. k}

\* The bits set by appendBitMask, one layer at a time, are the ancestors of each
\* node that is sent to the LLM, and the root is where the non-tree cache ends.
MaskIsAncestry ==
    step.call = "llm" =>
        \A i \in ActiveRows(tree_bc.row) :
            LET row == tree_bc.row[i]
                layers == all_requests[row.guid].beam_tree
                first[k \in 0 .. MaxBeamDepth + 1] ==
                    IF k = 0 THEN 0 ELSE first[k - 1] + Len(layers[k - 1])
                Index(k, j) == first[k] + j
            IN  row.running /\ ~row.prompt_phase =>
                  /\ row.causalMask.non_tree_cache_size = row.first_depth
                  /\ \A k \in 0 .. MaxBeamDepth :
                     \A j \in 0 .. Len(layers[k]) - 1 :
                        Index(k, j) < row.num =>
                          {n \in 0 .. row.num - 1 :
                              Index(k, j) \in row.causalMask.mask[n]}
                            = {Index(a[1], a[2]) : a \in Ancestors(layers, k, j)}

\* A tree batch fits the buffers of the LLM, and a row's tokens fit its cache.
VerifyBatchFits ==
    /\ Len(tree_bc.tokensInfo) <= MaxVerifyTokens
    /\ \A i \in Rows :
          tree_bc.row[i].first_depth + tree_bc.row[i].num - 1 \in Position \cup {-1}

\* Between two iterations each unfinished request is in the queue or in a row,
\* once, and no other is.
ServedOnce ==
    step.call = "init" =>
        LET open == {g \in Guid : all_requests[g].status # "COMPLETED"}
            inRow == ActiveRows(tree_bc.row)
        IN  /\ ToSet(pending_infr_request_queue)
                 \cup {tree_bc.row[i].guid : i \in inRow} = open
            /\ Len(pending_infr_request_queue) + Cardinality(inRow)
                 = Cardinality(open)

\* What arg_topk.cu:402 and 407 say of the rows the small model's kernel finds:
\* "all requests are in the same beam stages", but the last one.  A prompt is not at
\* the stage of the trees it is loaded beside.
BeamStagesAgree == step.call = "beam" => SameBeamStage

\* The abstract specification.  A token that is not the greedy one maps to a
\* length that no request has: speculation changes no token.  A prompt that was
\* verified in several chunks is left out: updateBitMask lets a token of a later
\* chunk see only part of the prompt, and the tokens are those of another one.
Decoding == INSTANCE GreedyDecoding WITH
    MaxGrowth <- MaxBeamDepth + 1,
    request <- [g \in Guid |->
        LET r == all_requests[g]
        IN  [limit |-> r.max_sequence_length,
             length |-> IF ~WholePrompt(g) \/ ToSet(r.tokens) \subseteq {Greedy}
                        THEN Size(r) ELSE -1,
             result |-> r.result]]
ImplementsDecoding == Decoding!Spec

\* Each request is completed, although others come, prompts are cut and rows are
\* reused: every iteration gives each running row a token.  With trees that branch
\* below their root, only while no prompt reuses a row beside them: the server else
\* aborts (BeamStagesAgree).
SpecCompletes ==
    \A g \in 1 .. NumGuids :
        g \in Guid ~> g \in Guid /\ all_requests[g].status = "COMPLETED"

=============================================================================
