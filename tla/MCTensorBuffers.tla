---------------------------- MODULE MCTensorBuffers ----------------------------
(* The models of inference/models, with few layers, for TLC. *)
EXTENDS TensorBuffers

Dense(name, activation, layer, inputs, shapes) ==
    [name |-> name, op_type |-> "LINEAR", activation |-> activation,
     transformer_layer_id |-> layer, inputs |-> inputs, shapes |-> shapes]
Op(name, type, layer, inputs, shapes) ==
    [Dense(name, "NONE", layer, inputs, shapes) EXCEPT !.op_type = type]

\* A layer of LLAMA, number i, over the residual and the output of the layer
\* before (llama.cc), with the adapters that add_lora_layer inserts.
Llama(i, adapted, token, w2) ==
    LET n(s) == << i, s >>
        norm == IF i = 0 THEN << n("norm"), 1 >> ELSE << n("norm"), 2 >>
        sum == IF i = 0 THEN token ELSE << n("norm"), 1 >>
        lora(target, input, shape) ==
            IF target \in adapted
            THEN << Op(n(target \o ".lora"), "LORA", i, << input, << n(target), 1 >> >>, << shape >>) >>
            ELSE <<>>
    IN  << IF i = 0 THEN Op(n("norm"), "RMS_NORM", i, << token >>, << "hidden" >>)
           ELSE Op(n("norm"), "RESIDUAL_RMS_NORM", i, << token, w2 >>, << "hidden", "hidden" >>),
           Op(n("attn"), "INC_MULTIHEAD_SELF_ATTENTION", i, << norm >>, << "hidden" >>),
           Op(n("post"), "RESIDUAL_RMS_NORM", i, << sum, << n("attn"), 1 >> >>, << "hidden", "hidden" >>),
           Op(n("gate"), "LINEAR", i, << << n("post"), 2 >> >>, << "wide" >>) >>
        \o lora("gate", << n("post"), 2 >>, "wide")
        \o << Op(n("up"), "LINEAR", i, << << n("post"), 2 >> >>, << "wide" >>) >>
        \o lora("up", << n("post"), 2 >>, "wide")
        \o << Op(n("silu"), "SIGMOID_SILU_MULTI", i, << << n("gate"), 1 >>, << n("up"), 1 >> >>, << "wide" >>),
              Op(n("down"), "LINEAR", i, << << n("silu"), 1 >> >>, << "hidden" >>) >>
        \o lora("down", << n("silu"), 1 >>, "hidden")

LmHead(i, type, sum, w2) ==
    LET n(s) == << i, s >>
    IN  << Op(n("final"), type, i, << sum, w2 >>, << "hidden", "hidden" >>),
           Op(n("lm_head"), "LINEAR", i, << << n("final"), 2 >> >>, << "vocab" >>),
           Op(n("softmax"), "SOFTMAX", i, << << n("lm_head"), 1 >> >>, << "vocab" >>),
           Op(n("argmax"), "ARGMAX", i, << << n("softmax"), 1 >> >>, << "ids" >>) >>

Embed(s) ==
    << Op(<< 0, s >>, "INPUT", 0, <<>>, << "ids" >>),
       Op(<< 0, s \o " embedding" >>, "EMBEDDING", 0, << << << 0, s >>, 1 >> >>, << "hidden" >>) >>

Out(i, s, o) == << << i, s >>, o >>

Llama1(adapted) ==
    Embed("tokens")
    \o Llama(0, adapted, Out(0, "tokens embedding", 1), <<>>)
    \o LmHead(0, "RESIDUAL_RMS_NORM", Out(0, "post", 1), Out(0, "down", 1))
Llama2(adapted) ==
    Embed("tokens")
    \o Llama(0, adapted, Out(0, "tokens embedding", 1), <<>>)
    \o Llama(1, adapted, Out(0, "post", 1), Out(0, "down", 1))
    \o LmHead(1, "RESIDUAL_RMS_NORM", Out(1, "post", 1), Out(1, "down", 1))

\* One layer of OPT (opt.cc), its second dense layer adapted.
Opt ==
    LET n(s) == << 0, s >>  out(s, o) == Out(0, s, o)
    IN  Embed("tokens") \o Embed("positions")
        \o << Op(n("ln"), "RESIDUAL_LAYERNORM", 0,
                 << out("tokens embedding", 1), out("positions embedding", 1) >>,
                 << "hidden", "hidden" >>),
              Op(n("attn"), "INC_MULTIHEAD_SELF_ATTENTION", 0, << out("ln", 2) >>, << "hidden" >>),
              Op(n("ln2"), "ADD_BIAS_RESIDUAL_LAYERNORM", 0,
                 << out("attn", 1), out("ln", 1) >>, << "hidden", "hidden" >>),
              Dense(n("fc1"), "RELU", 0, << out("ln2", 2) >>, << "wide" >>),
              Op(n("fc2"), "LINEAR", 0, << out("fc1", 1) >>, << "hidden" >>),
              Op(n("fc2.lora"), "LORA", 0, << out("fc1", 1), out("fc2", 1) >>, << "hidden" >>) >>
        \o LmHead(0, "RESIDUAL_LAYERNORM", out("ln2", 1), out("fc2", 1))

Model(layers, last, stages, tensor, fusion, finetune) ==
    [layers |-> layers, last_transformer_layer_id |-> last,
     pipeline_parallelism_degree |-> stages, tensor_parallelism_degree |-> tensor,
     perform_fusion |-> fusion, finetune |-> finetune]

MCModels ==
    { Model(Llama1(adapted), 0, 1, 1, fusion, TRUE) :
        adapted \in {{}, {"down"}}, fusion \in BOOLEAN }
    \cup { Model(Llama2({"down"}), 1, 2, 1, fusion, TRUE) : fusion \in BOOLEAN }
    \cup { Model(Opt, 0, 1, 1, TRUE, FALSE) }
    \cup { Model(Llama1({"down"}), 0, 1, 2, fusion, FALSE) : fusion \in BOOLEAN }
    \cup { Model(Opt, 0, 1, 2, TRUE, FALSE) }

\* The instances in which a property fails: AdaptersBeforeReaders; BackwardReads, in
\* the next two; ForwardReads.
AdaptedUp == { Model(Llama1({"up"}), 0, 1, 1, FALSE, TRUE) }
OptFinetuned == { Model(Opt, 0, 1, 1, TRUE, TRUE) }
LlamaFinetuned == { Model(Llama1({"down"}), 0, 1, 2, TRUE, TRUE) }
AdaptedUpTensor == { Model(Llama1({"up"}), 0, 1, 2, FALSE, FALSE) }

=============================================================================
