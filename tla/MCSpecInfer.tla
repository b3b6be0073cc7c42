----------------------------- MODULE MCSpecInfer -----------------------------
(* Instances of SpecInfer for TLC. *)
EXTENDS SpecInfer

Prompt(len, max) == [initial_len |-> len, max_sequence_length |-> max]

\* Trees of two branches that split at the root or one layer below, for requests
\* that are decoded over several trees; then three requests for the two rows;
\* then chains, with a prompt that may need two batches.
MCSetups ==
    { [width |-> << 2 >>,    requests |-> 2, prompts |-> {Prompt(1, 7)}],
      [width |-> << 1, 2 >>, requests |-> 2, prompts |-> {Prompt(2, 8)}],
      [width |-> << 2 >>,    requests |-> 3, prompts |-> {Prompt(3, 5)}],
      [width |-> <<>>,       requests |-> 3,
       prompts |-> {Prompt(3, 6), Prompt(6, 8)}] }

\* A row is reused while another grows a tree that branches below its first layer,
\* as with the widths 1, 1, 3 of spec_infer.cc.
ReusedRows == {[width |-> << 1, 2 >>, requests |-> 3, prompts |-> {Prompt(2, 5), Prompt(2, 8)}]}

\* The hypothesis of the theorem MaskAlwaysAncestry, of this instance.
ASSUME InstanceFits == EnoughTokens

=============================================================================
