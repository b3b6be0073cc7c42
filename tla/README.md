# FlexFlow Serve in TLA+

TLA+ models of the serving side of FlexFlow: the request manager that batches
inference and finetuning requests, the loop that serves the batches, the
training of LoRA adapters on the finetuning rows, speculative inference, the
memory of the adapters, and the compilation of a model to operators and buffers. TLC checks the models on small
instances; TLAPS proves the central results for all values of the constants.
Paths below are relative to the root of the repository, with the prefix `src/`
under which `PROJECT.json` names them left out, so that
`src/runtime/request_manager.cc` here is `src/src/runtime/request_manager.cc`
there.

## 1. The system

FlexFlow compiles a model to a graph of operators and runs them as Legion tasks
on GPUs. In its serving mode, client threads hand requests to a *request
manager*; a background task repeatedly asks it for the next batch, runs the model
on the batch, and feeds the tokens the model yields back to it.

| Part | State it keeps | Operations | Talks to |
|---|---|---|---|
| Request manager, `src/runtime/request_manager.cc` | all requests, two pending queues, promises, results, the static flag `inference_finished` | `register_new_request`, `register_new_peft_request`, `prepare_next_batch`, `check_inf_req_completion`, `trigger_request_completion_future` | clients by promises and two mutexes; the model by futures of `BatchConfig` and `InferenceResult` |
| `BatchConfig`, `src/runtime/batch_config.cc` | rows (`requestsInfo`), token slots (`tokensInfo`), counters, optimizer tasks | filled by the request manager, read by every operator | |
| Serving loop, `serve_incr_decoding` | a pipeline of at most four unfinished batches, the server's status | launch an iteration, wait for the oldest, stop | Legion, request manager |
| Clients, `FFModel::generate` | the guids of one call | reset the flag, register, wait for inference, set the flag, wait for finetuning | request manager |
| Attention, `src/ops/inc_multihead_self_attention.cu` | KV cache per row and depth, activation buffers | prompt, generation and backward kernels | batch |
| LoRA, `src/ops/lora_linear.cc` and kernels | activations, weight gradients, weights | forward, backward, update, save | batch; Legion orders the tasks by region |
| Speculative inference, `serve_spec_infer` | token trees, beams, masks, committed tokens | `prepare_next_batch_init`, `_beam`, `_verify` | small and large model by beam and tree batches, in turn |
| Tree attention, `src/ops/tree_inc_multihead_self_attention.cu` | KV cache, keys of the last batch | commit verified tokens, attend under a mask | tree batch |
| Inference manager, `src/runtime/inference_manager.cc` | tensor buffers, machine views, which gradients are reset | compile, `inference`, `peft_bwd` | operators; Legion by regions |
| Allocators, `include/flexflow/utils/` | arena offsets | allocate adapter weights and activation buffers | LoRA, attention |
| Auto-parallelisation | operator graphs, costs | substitution, search, simulation; a graph back to a list of operators | compilation |
| Everything else (operators, mapper, loaders, tokenizers, frontends, training loop) | | | |

`PROJECT.json` lists each of these with its status and the reason where it is
not modelled.

**What is hard here.** A batch is described three times over (rows, slots, a
compact list) by loops that share running counters. A prompt that does not fit
is cut, over batches that others enter and leave. Rows, and with them the KV
cache, are reused in the very call that frees them. Four iterations are in
flight while clients register. One flag with no lock decides whether finetuning
goes on. The backward pass of a batch runs after its result is published, and
possibly after the next forward pass. The result of a speculative iteration is
indices into a batch that has been replaced by the time they are used. Tensors
share buffers by an order of the operators that hash sets decide and fusion
changes, and an adapter writes into another layer's output. `PROJECT.json` has the full list under
`hazards`, at its lines, with the property that covers each.

**What makes it right.**

* Request manager: a batch fits, its three descriptions agree, each pending
  request is in one place, a row's cache holds its own request's prefix, a token
  is generated only from the whole prefix, results are published once, whole and
  final, and every request completes.
* Serving: each call of `generate` returns; nothing runs outside an iteration;
  stopping the server drains the pipeline; an old flag cuts nothing short.
* LoRA training: each update is made with its own group of dataset entries,
  each token once, from its own activations and output gradients; the weights
  saved are complete, and they are saved.
* Speculative inference: no guess of the small model changes a token; what is
  in the cache is the verified prefix; every request completes, unless the top-k kernel of the
  small model aborts.
* Memory: no two blocks overlap, and the range that is summed over the shards
  is the adapter's own.
* Buffers: each operator finds the tensors, and each backward pass the gradients,
  that it is meant to read.

## 2. The modules

| Module | What it models |
|---|---|
| `RequestManager` | registration and `prepare_next_batch` for incremental decoding, with the KV cache the model writes |
| `RequestService` | abstract: what a client is promised of a request, without batches, rows or caches |
| `RequestRefinement` | the mapping from the first to the second |
| `CoServing` | `RequestManager` composed with client threads in `generate` and the serving loop |
| `LoraTraining` | `RequestManager` composed with the forward and backward passes of a LoRA layer |
| `SpecInfer` | the three functions of speculative inference, the loop over them, and tree attention |
| `GreedyDecoding` | abstract: what speculative inference promises |
| `PeftMemory` | the arena of adapter weights and that of activation buffers |
| `TensorBuffers` | from layers and tensor parallelism to a graph, operators, buffers and fusion, and what forward and backward passes find |
| `MCRequestManager`, `MCCoServing`, `MCLoraTraining`, `MCSpecInfer`, `MCPeftMemory`, `MCTensorBuffers` | instances for TLC |
| `RequestManager_proofs`, `RequestBatch_proofs`, `RequestRefinement_proofs`, `CoServing_proofs`, `LoraTraining_proofs`, `PeftMemory_proofs`, `SpecInfer_proofs`, `TensorBuffers_proofs` | the theorems |

### RequestManager

The variables have the names of the members of the class. `old_bc` and `new_bc`
are the two batches of `prepare_next_batch`; `step` and `row` say where it is.
`prepare_next_batch` holds `request_queue_mutex` throughout, so that no
registration falls inside it, but `inference_finished` is under no lock and is
read twice in it. The function is therefore split at its loops:

| Step of the model | Lines of `request_manager.cc` |
|---|---|
| `Inference`: the model runs on `old_bc`, fills the KV cache and yields a token per slot | `InferenceManager::inference`, `store_kv_cache` |
| `AppendTokens`: the tokens are appended to the requests | 572-597 |
| `CarrySkip`, `CompleteRequest`, `CarryDecoding`, `CarryPrompt`: one row of the last batch, the four ways through the loop body | 607-749 |
| `AdmitSkip`, `AdmitRequest`: one row of the new batch | 752-794 |
| `TrainRow`, `TrainSkip`: the finetuning row; first read of the flag | 796-878 |
| `PopPeft`, `SchedulePeft`, `ScheduleNone`: the finetuning queue and the launch of the batch; second read of the flag | 880-960 |

An assertion of the code is a guard of the action that makes it: where it would
fail the model deadlocks, and deadlock is checked.

Data is abstracted to what the properties tell apart. A sequence of tokens is its
length and whether it ends in EOS; the dataset of a finetuning request is the
sizes of its entries; a published result is its length. What the model yields is
a nondeterministic set of slots whose token is EOS. `key_cache` says, per row,
whose prefix the cache holds and how long it is; a chunk that starts past that
prefix leaves a gap and counts as nothing (`CacheAfter`). The queues hold guids,
where the code queues copies of requests: the fields of a copy that change
are refreshed from `all_requests` before use (lines 898-910), and the others never
change. `gradient_accumulation_steps = -1` is replaced by the size of the dataset
in the constant. `batch_config_request_id` is indexed by position, as the kernels
read it. Profiling, decoding of text and output files are left out.

### CoServing

A client thread is a program counter over the calls of `generate` it makes;
`calls` is chosen initially from `Workloads`. `get_generation_result` waits for the promise and then needs the
mutex. The pipeline is the number of unfinished iterations: each needs the
futures of the one before it, so that Legion runs them one after the other
(`RunIteration`), and the loop blocks at four (`LaunchIteration`). The server is
stopped at exit of the process, when every client has returned.

### LoraTraining

`Forward` is `Inference` with the saving of the activations of the finetuning row
in the layer's buffers, and the launch of the backward pass. `Backward` runs the
oldest one launched: the linear layer of the logits writes output gradients where
the tokens are in the batch, the LoRA layer reads from the first row, adds to or
overwrites the weight gradients, updates the weights and saves them as the
optimizer tasks say. Gradients are sequences of tokens, each with the token whose
activation and whose output gradient it was computed from; `weights` is the
sequence of the updates. The buffers belong to no Legion region. Legion still
orders the next forward pass after the backward pass if the layer is fused with
the last softmax, because the fused operator writes the gradient region that the
backward pass reads (`src/ops/fused.cc:696`). `Fused` selects this. The Python
configuration fuses by default, the C++ one does not.

### SpecInfer

One action per function of the loop, in the order of `step`:
`PrepareNextBatchInit`, then `PrepareNextBatchBeam` for each layer of the tree,
`PrepareNextBatchVerify`, `LLMInference`. Each function reads only the futures of
the step before, so that the pipelining of iterations changes nothing but
speed; registration interleaves between the functions, which hold the queue's
mutex. A beam tree is a sequence of tokens per layer; the parent of a node is
its share of the layer above, as `appendBitMask` and `traverse_beam_tree` compute it.

A token is `Greedy` if it is the one the large model yields there when it
decodes without speculation, otherwise a wrong guess. The small model may guess
anything (`RowGuesses`), so that its own cache is irrelevant to the
outcome and left out. The cache of the large model says, per row and position,
for which depth its keys are right: moved to the wrong place, computed under a
mask that hides part of the prefix, or left of another request, they count as
`Wrong`. The large model yields `Greedy` in a slot whose mask and cache give it
exactly its prefix (`RowKeys`, `Sees`), and any token elsewhere. This is what
makes the masks, the commit list and the traversal of the verified tree part of
the property `ImplementsDecoding`. It excludes requests whose prompt was
verified in several chunks: see section 3.

`SameBeamStage` is the assertion of the small model's top-k kernel: all rows but the
last of the compact list, in which the rows that speculate come before the prompts, have the beam
size of the first active row. A small model that ends in `argmax` (all architectures but LLAMA) has no such kernel; the
model always has it.

Limits: one small model (`merge_dfs_trees` asserts that there is one), beam
probabilities (arbitrary guesses cover any), the small model's attention.

### PeftMemory

`BeginAdapter`, `AllocateLocal` and `AllocateSync` are the steps of
`LoraLinear::init_task` for one layer and adapter; the tasks of one device run
one at a time, in any order. `SaveActivation` is the growth of a buffer in
the forward pass. A failed assertion sets `aborted`, since running out of space
is legitimate. The configuration of a device is a record: arena sizes, block
sizes, which adapters are trained, whether the optimizer has momentum,
which layers have a replicated input.

### TensorBuffers

The stages of a compilation are values of `phase`. `CreateOperator` is one turn of
the loop of `create_operators_from_layers`: with tensor parallelism it puts a
`COMBINE` before the last softmax, an `ALLREDUCE` behind the layers that leave a
partial sum on every shard and a `PARALLEL_IDENTITY` behind norms, decided from the
types of the neighbouring layers, and moves an adapter before the `ALLREDUCE` of
its layer. Of a tensor's shards the model keeps whether it is replicated,
partitioned, combined or a partial sum, which the code tells apart from replicated
nowhere; `ForwardReads` demands that only an `ALLREDUCE` or an adapter reads a
partial sum. `Visit` is one turn of the loop of both sorts (`graph_optimize_task`, `convert_graph_to_operators`); out-edges
are a hash set, whose order is that of libstdc++ for one bucket chain of two
edges and arbitrary beyond. `AllocateOutput` gives one output a buffer: the one
of the tensor whose region it shares, any one that can be reused (the code takes the
last of a hash map), or a new one. `CheckResets` decides which gradients are
written and which are added to. `ApplyFusion` moves one operator into the group of
an earlier one. `Inference` and `PeftBwd` run one operator: a buffer holds the
name of the tensor written last, and for its gradient the set of operator inputs
that contributed. The graph searched for is the graph given: the search is left
out, as are weights and the parallel operators only a search inserts.
Which input is loaded with the tokens of the batch is not modelled: `load_input_tokens_from_batch_config`
goes to the first `OP_INPUT` of the operators and the positions to any later one (`inference_manager.cc:425`),
which relies on the order in which the hash maps of both sorts give back the sources. The model
lets the sources come in any order, and gives each input its own tensor. Operators are fused only if their
machine views agree: a pipeline stage, and whether the output lies on the shards or is combined.

`MCTensorBuffers` builds LLAMA and OPT as `inference/models` does, with the
adapters `add_lora_layer` inserts.

### GreedyDecoding

A request grows by one to `MaxGrowth` tokens at a time and, when it reaches its
limit, is published once, whole. A wrong token maps to a length no request has.

### RequestService

A request is accepted or refused; gets tokens one at a time while it is not over;
completes once, when it is over, and then its result is the whole of it. A
request that is over gets one token all the same if it has none yet: the
prompt is checked for its end only after a first pass. A finetuning request
gets losses and steps and may be stopped. The refinement maps promises and
results to one `result`, and every loop iteration that a client cannot see
to a stutter.

## 3. What TLC checks

Bounds: `NumGuids` bounds registrations, `MaxBackward` the backward passes
outstanding. All else is finite in the code too. The instances are small, but
the sizes are chosen against each other: prompts are longer than a batch, so that they
are cut over two or three batches; there are as many requests as rows and one
more, so that rows are reused and requests wait; dataset entries compete with
prompts for a budget that does not hold both. Every property has a mutation of
a definition that breaks it within these bounds.

| Run | Instance | What it shows |
|---|---|---|
| `RequestManager` | 2 rows, 3 tokens, sequences of 6, 3 registrations of prompts that are short, longer than a batch, ending in EOS, beyond their limit, or refused | batch, cache, results and completion are right; the service is implemented |
| `Peft` | 2 inference rows and the finetuning row, 3 tokens, BOS added, dataset entries of 1 and 2 tokens, updates every other step | at most one prompt is incomplete; entries resume; the service is implemented; with fairness, every request completes |
| `Serving` | one inference row; either one client with a call of inference and then a call of finetuning, or two clients with inference | every call returns, finetuning runs to its end, the pipeline drains |
| `LoraTraining` | 1 inference row and the finetuning row, 4 tokens, fused, interruptions by the flag | entries are never cut short here; updates, activations and saved weights are right; the weights get saved |
| `SpecInfer` | 2 rows, 6 tokens, chains and trees of two branches that split at the root or below it, 2 or 3 requests, some waiting, some with prompts that take two batches | masks are ancestries, the cache is the verified prefix, batches fit, no request is lost, greedy decoding is implemented, every request completes (where the top-k kernel does not abort, see below) |
| `PeftMemory` | 2 layers, 2 adapters, every choice of the trained ones, of momentum and of replicated inputs; arenas too small, just enough, one more, and ample | blocks never overlap, the synchronised range is exact, start-up fails only for want of space or with two trained adapters |
| `TensorBuffers` | one LLAMA layer with and without an adapter on one stage, two layers with adapters on two stages; for inference one LLAMA layer on two shards and one OPT layer on one and two; fused and not; all orders and all choices of buffers | every operator reads the tensors, whole and not partial sums, and the gradients it is meant to |

40 properties, in 7 runs. The rest are runs in which a statement of the code's
own comments and assertions is refuted; each is a finding in `PROJECT.json`:

| Run | What happens |
|---|---|
| `GenerationTokens` | a prompt in row 0 is still incomplete while row 1 decodes: the decoding token is not at slot 0 nor its row first in the list, where the generation kernel looks |
| `ServingMixed` | one call with one inference and two finetuning requests: the second is never scheduled, and the call does not return; `inference_finished` being one for all clients, so may the end of another client's inference do |
| `LoraRows` | with an inference token before the finetuning tokens, the gradients used are those of other rows |
| `AdapterOrder` | an adapter on one of the first linear layers of the MLP comes after the operator that reads the layer, so that it has no effect |
| `BeamStages` | a prompt takes a free row in front of one whose tree branches below its first layer: the top-k kernel, which takes one beam size for all rows but the last of its list, fails its assertion |

What the models show besides, and the instances of the passing runs keep clear of:

* 3 finetuning steps with an update every 2: the last step saves weights without
  an update, and asserts (`batch_config.cc:52`).
* A prompt without tokens, possible when no BOS is added, gets an active row with no
  tokens. The theorems about batches have the hypothesis `NonEmptyPrompts`.
* The second chunk of a dataset entry reaches a backward pass that assumes whole
  entries (`inc_multihead_self_attention.cu:955`): `Backward` in `LoraTraining` has the guard that
  attention asserts, and the instance of the passing run leaves room for both entries
  beside a decoding token, so that `EntriesWhole` holds in it.
* Without fusion the next forward pass may overwrite the activations that a
  backward pass still needs: `LoraTraining` is run with `Fused`.
* Nothing bounds a request's `max_sequence_length` by the system's, by which the
  KV caches are sized.
* `updateBitMask` counts all verified tokens of a request, the batch takes those it has room for:
  masks are right only when it has room for all (`EnoughTokens`, section 4).
* `updateBitMask` lets the tokens of a later chunk of a prompt see only part of
  it, so that the tokens decoded by speculation after a prompt longer than a
  batch are those of another prompt: `ImplementsDecoding` leaves them out.
* With tensor parallelism, an adapter on one of the first linear layers of the MLP
  stands between the layers `need_to_add_allreduce` compares (`model.cc:3413`), so that the
  second linear layer gets no `ALLREDUCE` and its partial sums are read:
  `ForwardReads` fails with `Models <- AdaptedUpTensor`.
* The backward kernel of `Combine` adds to the gradient of the logits, which nothing
  resets (`combine_kernels.cu:45`): finetuning with tensor parallelism accumulates it over
  batches, and `BackwardReads` fails with `Models <- LlamaFinetuned`.
  The passing run has tensor parallelism for inference only.
* Finetuning OPT, a residual norm adds the gradient of its input to what the last batch
  left in that buffer: the reset is left out when the gradient of the norm's first output has
  been saved (`inference_manager.cc:272`), which is another region when the residual is not in place, and
  which its backward kernel does not read. `BackwardReads` fails with `Models <- OptFinetuned`.
* A small model that ends in `arg_top_k` (LLAMA) aborts as in `BeamStages` if a
  prompt and a tree that branches below its root meet in a batch, unless the prompt is the only
  one and stands in a higher row than some tree. The widths 1, 1, 3 of `spec_infer.cc` allow this as soon as a row is reused.
  In the instance of `SpecInfer`, whose `SpecCompletes` says that every request completes, trees that
  branch below their root come with as many requests as rows, so that no row is reused beside
  them; trees that branch at the root, and chains, come with more requests than rows, and for
  these the abort is excluded by a theorem (`BeamStagesAlwaysAgree`, section 4).
* Two trained adapters on two layers break the assertion that an adapter's
  synchronised weights are consecutive (`AbortsOnlyWhenFullOrShared`).

The bounds of the newer instances: a tree of two layers and two branches is the
smallest in which a share of a layer, a sibling and an ancestor differ; six
tokens do not hold two trees and a prompt. Two layers and two adapters are what an
interleaving of allocations needs. Two transformer layers on two stages are what
the comparison of stages needs; one layer has every operator of the models.

**Deadlock.** The `CoServing` runs end when every call has returned and the server
has stopped, and `PeftMemory` when nothing is left to allocate or an assertion has
failed, so that they do not check deadlock. In all other runs the server can
always go on and deadlock is checked, which covers every assertion.

**Fairness.** `FairSpec` is weak fairness of the serving side: the loop at
lines 2878-2908 iterates until termination, and Legion runs a task whose
futures are ready. `FairServing` adds weak fairness of each client's own steps
and strong fairness of those that need the mutex, which is free once per
iteration, not continuously; a mutex that starved a thread for ever is excluded.
`FairTraining` is weak fairness of the loop and of the backward passes.
`FairSpec` of `SpecInfer` is weak fairness of the loop of `serve_spec_infer`: one
of its functions is enabled in every state, and each of them, and nothing
else, changes `step`, so that it is stated as `WF_step(step' = NextStep)`, which spares TLC
evaluating the functions to know whether they are enabled.
Clients are under no obligation to register or to report the end of inference.

## 4. What is proved

Theorems hold for every value of the constants: any numbers of rows, tokens and
requests, any prompts and datasets, any workload. Each rests on the `ASSUME` of
its module and on no other hypothesis but those named here. Every invariant
was checked by TLC on the instance of section 3 before it was proved (`BeamStagesAgree`, which is the guard
of a call there, by the absence of a deadlock).

### The request manager

The three modules extend one another, since each invariant is needed by the next.

`RequestManager_proofs`:

* `TypeSafe`, `TypeCorrect`: `Spec => []TypeOK`, by the inductive `TypeInvariant`.
  `TypeOK` alone is not inductive: that `PutRow` keeps the type needs the guid of a
  queued request to be a registered one of its kind, and carrying a row over needs the
  guid of the old row. `TypeInvariant` adds `QueuesWellFormed` and
  `RowsRegistered` of both batches.
* `CapacityInvariantHolds`, `BatchAlwaysFits`: under `NonEmptyPrompts`, no
  batch exceeds the token budget and none of its rows is empty.

The capacity argument: a batch has at most as many inference rows as tokens
(`BatchWithin`), since every row has a token. When the carry loop starts the new
batch is empty, and the rows still to come are at most the rows of the old
batch, so at most the budget. From then on `RoomForCarried` holds:
`new_bc.num_tokens + |Continuing(row)| <= MaxTokens`. A decoding row takes the one
slot counted for it. A prompt takes at most what is left after one slot for
every later row that continues, and at least one, because its own slot was
counted. A row that completes releases its slot. Neither `BatchFits` nor
`BatchWithin` is inductive without that count, which is exactly the loop at lines
718-728. One lemma per action, one theorem to combine them.

`NonEmptyPrompts` says that every prompt encodes to a token. The code does not
enforce it (section 3); the theorems that need it are those about batches,
`BatchAlwaysFits` and all of the next two modules. Without that hypothesis,
`RequestManager_proofs` also has:

* `NoRequestIsLost`, `RowsAlwaysServePending`, `FinetuningAlwaysResumes`, by
  `RowsInvariant`. Its heart is `PlacesInvariant`: an inference request that has not
  completed is in the queue, in a row of the old batch the carry loop has not
  reached, or in a row of the new one; it is in one of them only; and only such
  requests are there. Each step of the loops moves a request between two places or ends
  it. `UnderConstruction` says which rows of the new batch can be used at which step,
  `FinetuningRow` what the finetuning row has still to do of its entry.

`RequestBatch_proofs`, under `NonEmptyPrompts`:

* `SlotsAlwaysMatchRows`: the invariant says the same of the batch under construction:
  its rows tile the slots up to the running counter, so that appending a row
  at the counter keeps them apart.
* `AtMostOneIncompletePrompt`: a row is incomplete if its tokens end before those of
  its request (`DepthsInvariant` relates the two); once a cut prompt is in the new
  batch, the batch is full but for one slot for each row still to come, so no later row
  can be cut, and no request is admitted.
* `KvCacheAlwaysPrefix`, `AlwaysGeneratedFromWholePrefix`: the cache of a row holds
  what its request had processed, as long as it keeps the row; a row given to
  another request starts at depth zero.

`RequestRefinement_proofs`, under `NonEmptyPrompts`:

* `RequestManagerImplementsService`: the initial state maps to an initial state, and
  each step to a step of `RequestService` or to a stutter. `RefinementInvariant` adds what
  the mapping needs: a promise is set exactly when its request is complete
  (`PromisesKept`), a request in a row is within its limits, and one that goes on is not over.

### The compositions

`CoServing_proofs`:

* `ServingImplementsManager`, `ServingImplementsService`: the composition takes steps of the
  request manager only, so that all of the above holds in it.
* `ServingTypes`, and `NoStepOutsideIterations`: `prepare_next_batch` runs only within
  a launched iteration, also while the server stops.
* `TrainingRunsToTheEnd`, under `SeparateClients`: no call of a client has inference requests
  while another client's call finetunes. `inference_finished` is one flag for all, so
  that without the hypothesis the end of one client's inference stops the
  finetuning of another (`ServingMixed` is the same flag within one call). The argument
  follows a request of a call that only finetunes from its registration to its last
  step: the flag was reset by the call, and whoever sets it has no such request.

`LoraTraining_proofs`:

* `TrainingImplementsManager`, `FinetuningAlwaysFits`: the chunk of the finetuning row fits the batch,
  hence the buffers. This uses the places above.
* `TrainingTypes`, and `ActivationsAreOwn` under the hypothesis `Fused`: at most one
  backward pass is outstanding, and the buffers hold its activations. Without fusion it is
  false (section 3).
* `UpdatesAlwaysUseWindows`, `SavedAlwaysComplete`: `TrainingSpec /\ []EntriesWhole` implies that
  every update is made with exactly the tokens of its group of entries, and that the
  weights a request saves contain all its updates. `EntriesWhole`, that no
  finetuning row leaves tokens of its entry to the next batch, is what the kernels assume
  and what the manager does not ensure when inference rows leave less room than an entry
  takes (section 3; `EntriesAlwaysWhole` below says when it does); nothing is assumed of
  fusion or of how many backward passes are outstanding. The invariant, `WindowsInvariant`,
  follows a training step from the manager to the weights:
  `Order` says that the queue is in the order of the guids and that the steps the manager has
  counted are those launched, but for the one whose batch it awaits;
  `RowTasks` that a launched row has the optimizer tasks of its request's next step;
  `LaunchOrder` that the passes outstanding are of successive steps, from the
  one after the last done; `Accumulated` that the gradient holds the tokens
  of the steps done since the last update of their request, each once; `UpdatesMade` and
  `SavesMade` that updates and saved weights are of the requests launched so far. The
  step that ends a group is found by arithmetic on its number (`GroupEnds`,
  `StepInGroup`), and that the sets of tokens of successive steps add up, by
  `HoldsSum`.
* `EntriesAlwaysWhole`, `TrainingExact`: if no accepted prompt is longer than some `L` and
  every accepted entry fits in a batch with `L` tokens in every inference row
  (`EntriesFit(L)`), `EntriesWhole` holds, hence both of the above on the constants
  alone. The length of what is generated does not matter: a row never has more
  than `L` tokens of its request left to process (`RowsShort`), since decoding adds one only when none is
  left. `MCLoraTraining` assumes the hypotheses for `L = 1`, so that TLC evaluates them.

### Memory

`PeftMemory_proofs`:

* `MemoryTypes`, `WeightsNeverOverlap`, `SyncRangesExact`, `ActivationsNeverOverlap`, by
  `MemoryInvariant`. Every block of the local end lies at or above `local_offset`,
  every one of the sync end below `sync_offset`, and `sync_offset <= local_offset`; a new
  block is cut off between the two, hence meets none. The range of an adapter is
  contiguous because an allocation that would not continue it aborts; the blocks in
  it are its own, since those of other adapters lie in other ranges. The activation
  buffers need no more than that a buffer ends at or below the allocated size.
* `AbortsOnlyForWantOfSpace`: what both ends hold, what the running task has left to take
  and what the pending tasks will take add up to `Demand` (`DemandAccounted`); with
  one trained adapter, or one layer, a range always ends where the next block
  starts (`RangesExtend`). `Demand` is a sum over the set of pending tasks, which is
  finite (`MemoryAssumption`); that taking one of them out takes its size out is proved by
  induction on cardinality.

### Speculative inference

`SpecInfer_proofs`:

* `RequestsAreServed`, `EachServedOnce`: `ServedOnce`, by `ServingInvariant`. Three functions
  rebuild the batch in each iteration, each from the rows of the one before: `init` from
  those of the tree batch, `beam` from its own, `verify` from those of the beam batch. The
  invariant says, of the batch the next call takes over, that its rows and the
  queue hold the requests that are not complete, each once (`EachOnce`). Inside a
  function the rows are built by a loop with running counters; each loop is a
  recursive function of the row, and what holds after `i` rows is proved by
  induction on `i` (`AdmittedKeeps`, `BeamRowsKeep`, `MadeTreesKeep`).
* `BeamStagesAlwaysAgree`: `BeamStagesAgree` under the hypothesis `BranchesAtRoot`, that trees branch at
  their root only, by `StageInvariant`: every row, prompt or tree, asks for the first width in the first
  call of the small model, and for one token in the calls after that. The run `BeamStages` shows that the
  hypothesis is needed.
* `MaskAlwaysAncestry`: `MaskIsAncestry`, by `ServingInvariant` with `SpeculationInvariant`, for
  trees of any width. The invariant says of each row at each call of the loop where it stands: it loads a
  prompt (`Loading`), or it grows a tree (`Growing`) of which `d` layers are stored, each a whole
  multiple of the one above, with a mask that is right for `d` layers (`MaskRight`) and as many
  sub-requests as there are leaves. `AppendBitMaskRight` is the step from `d` layers to
  `d + 1`: the shares by which `appendBitMask` deals out the new nodes are those by which
  `traverse_beam_tree` finds parents. Cutting a tree to what the budget allows keeps its root and the order of its
  nodes (`BeamTreeNodes`, `SentNodesAre`), so that the bits that are sent are those of the nodes that are
  sent (`SentMask`). The next tree is rooted at the last verified token: `TraversalIsPath` says that
  the verified tokens are one per depth, `TokensFit` that the batch takes them all, `RootMask`
  that the new mask then starts where the cached prefix ends.

  The hypothesis is `EnoughTokens`, `MaxTokens >= MaxRequests * (MaxBeamDepth + 1)`. It is needed:
  `prepare_next_batch_init` stops taking verified tokens when the batch is full
  (`request_manager.cc:1228`), whereas `updateBitMask` counts them all, and with four tokens
  instead of six in the instance of `SpecInfer` TLC finds `MaskIsAncestry` violated. Nothing in the code
  compares the two sizes. The defaults of `spec_infer.cc` (256 tokens, 16 requests,
  trees of depth 8) and of `LLM.compile` (64 tokens, one request) satisfy it, those of
  `SSM.compile` (128 tokens, 16 requests) do not. `MCSpecInfer` assumes it, so that TLC evaluates it.

### From layers to buffers

`TensorBuffers_proofs` rests on `ModelAssumption`, what the builders of `FFModel` ensure of
any model: layers have names of their own and read outputs of earlier layers, and
`add_lora_layer` gives a dense layer at most one adapter, with the transformer layer of the
layer it adapts. Nothing is assumed of the architecture.

* `BufferTypes`, `OutputsAlwaysApart`, by `BufferInvariant`. It follows the graph through
  its stages. While operators are created, each tensor of a layer has an operator that
  produces it (`Created`), and the operators have no cycle: every set of them has one that
  reads from none of the set (`Rooted`). A pass of either sort keeps that what is not
  queued reads from something not yet visited (`Passing`); when the queue ends, the set of
  operators left out would contradict `Rooted`, so that every operator is sorted, after
  those it reads. During allocation, tensors that are still to be read share a buffer only in one
  region (`LiveApart`). `Grouping` says that the groups of fused operators hold each
  operator once, whatever `apply_fusion` merges.
* `InputsAlwaysKept`, by `RunInvariant`: a tensor of another region gets no buffer between the
  producer of a tensor and its last reader (`BufferKept`), hence a run finds in each buffer
  what was written last in the region it is for (`LiveHeld`). It is about programs without
  fusion: `apply_fusion` moves operators after the buffers are allocated, without
  regard to them, and only the shape of the models keeps it from moving one before a reader of what it
  overwrites.
* `ForwardReadsOnOneShard`: `Spec /\ []AdaptersBeforeReaders => [](OneShard => ForwardReads)`. On one
  shard the operators are copies of the layers (`LayersCopied`), a region is written by
  its layer and by at most one adapter (`AdaptedOnce`), and the position of the adapter decides what a
  reader finds. The hypothesis holds in the passing run and fails in `AdapterOrder`.

### What stays with TLC

Liveness (`InferenceCompletes`, `FinetuningCompletes`, `GenerateReturns`, `TerminationDrains`,
`TrainedIsSaved`, `SpecCompletes`) and whatever needs `ENABLED` are out of the
prover's reach. Induction is done over a set of naturals (`SetInduction`, from the
well-foundedness of `<`), since the library's theorems that take an operator as a
parameter cannot be instantiated. `SelectSeq` takes an operator too, and what it
selects cannot be reasoned about: this keeps `SpecTypeOK`, `CommittedPrefix`
and `ImplementsDecoding` of `SpecInfer`, whose tokens go through it, with TLC; `MaskIsAncestry`
needs only how many tokens there are and at which depths. `EntriesWhole`
is false in general, and a theorem for batches large enough (above). `VerifyBatchFits` is not a theorem: it
needs each request's limit to be within `MaxSeqLength`, which nothing checks (section 3).
Of `TensorBuffers`, `ForwardReads` with fusion or several shards and `BackwardReads` depend on the shape of the
models of `inference/models`, which is not a hypothesis one can state other than by listing them:
they are checked on these models.

## 5. What is not modelled, and the plan

Not modelled: token values and text, numerical kernels,
adapters other than one per request, warm-up and benchmarking requests (a
benchmarking request is a prompt of a given length), profiling, loading of
weights, the HIP variants (same control as the CUDA ones), the attention of the
small model, and the components `PROJECT.json` marks so.

Most of the repository is such code: numerical kernels in two dialects, shape
inference and serialisation of about a hundred operators, the bindings for C and
Python, importers, examples. The search over parallelisations is bounded by a cost
model in real numbers, and no rewriting rule of its is stated in the code other
than as construction of the graph it yields. The models therefore cover a small
share of the lines: the part that keeps state between requests.

Left, in order:

1. The other architectures of `inference/models` (Falcon, MPT, StarCoder) as instances of
   `TensorBuffers`, and the slots of a fused operator (`fused.cu`).
2. `CommittedPrefix` of `SpecInfer` as a theorem, with the selections
   of its rows restated by positions, as it was done for `LoraTraining`.
