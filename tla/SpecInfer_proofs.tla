-------------------------- MODULE SpecInfer_proofs --------------------------
(***************************************************************************)
(* Proofs about SpecInfer.  In every iteration of speculative inference    *)
(* each request that is not complete is in the queue or in one row,        *)
(* through the three functions that each rebuild the batch row by row      *)
(* (ServingInvariant, EachServedOnce).  The bit mask of a tree that is     *)
(* sent to the large model is the ancestor relation of the tree, through   *)
(* all the calls that append to it (SpeculationInvariant,                  *)
(* MaskAlwaysAncestry).  Trees that branch at their root only go with the  *)
(* prompts beside them (StageInvariant, BeamStagesAlwaysAgree).            *)
(***************************************************************************)
EXTENDS SpecInfer, FiniteSetTheorems, WellFoundedInduction, TLAPS

-----------------------------------------------------------------------------
(* Induction. *)

\* A set of naturals that has an element has a least one.
LEMMA LeastNatural ==
    ASSUME NEW T, T \subseteq Nat, T # {}
    PROVE  \E m \in T : \A k \in T : m <= k
<1> DEFINE R == {p \in Nat \X Nat : p[1] < p[2]}
<1>1. IsWellFoundedOn(R, Nat)
    BY NatLessThanWellFounded DEF OpToRel
<1>2. \E m \in T : \A k \in T : << k, m >> \notin R
    <2> HIDE DEF R
    <2> QED BY <1>1, WFMin
<1>3. PICK m \in T : \A k \in T : << k, m >> \notin R
    BY <1>2
<1>4. ASSUME NEW k \in T PROVE m <= k
    <2>1. << k, m >> \notin R /\ m \in Nat /\ k \in Nat
        BY <1>3
    <2>2. ~(k < m)
        BY <2>1
    <2> QED BY <2>1, <2>2
<1> QED BY <1>4

\* Induction over the naturals, for a set instead of a predicate.
LEMMA SetInduction ==
    ASSUME NEW T, 0 \in T, \A n \in Nat : n \in T => n + 1 \in T
    PROVE  \A n \in Nat : n \in T
<1> SUFFICES ASSUME Nat \ T # {} PROVE FALSE
    OBVIOUS
<1>1. PICK m \in Nat \ T : \A k \in Nat \ T : m <= k
    BY LeastNatural
<1>2. m # 0 /\ m - 1 \in Nat
    BY <1>1
<1>3. m - 1 \in T
    BY <1>1, <1>2
<1> QED BY <1>1, <1>2, <1>3

-----------------------------------------------------------------------------
(* What is said of the requests, the rows and the queue. *)

\* The requests that are not complete.
Open(requests) == {g \in DOMAIN requests : requests[g].status # "COMPLETED"}

\* The members of a request.
RequestFields ==
    {"status", "initial_len", "max_sequence_length", "tokens", "ssm_cache_size",
     "llm_cache_size", "chunks", "beam_tree", "result"}

\* The requests are a sequence, and each has its members.
Registered(requests) ==
    /\ \E S : requests \in Seq(S)
    /\ \A g \in DOMAIN requests : DOMAIN requests[g] = RequestFields

\* Each row of a batch says which request it serves.
Named(row) == DOMAIN row = Rows /\ \A i \in Rows : "guid" \in DOMAIN row[i]

\* The rows and the queue hold the requests of a set, each of them once.
EachOnce(row, queue, open) ==
    /\ queue \in Seq(Nat \ {0})
    /\ \A i, j \in Rows : row[i].guid # 0 /\ row[i].guid = row[j].guid => i = j
    /\ \A j, k \in DOMAIN queue : queue[j] = queue[k] => j = k
    /\ \A i \in Rows, k \in DOMAIN queue : row[i].guid # queue[k]
    /\ \A g : g \in open <=> \/ g # 0 /\ \E i \in Rows : row[i].guid = g
                             \/ \E k \in DOMAIN queue : queue[k] = g

\* The rows are those of the batch that the next call takes over.
ServingInvariant ==
    /\ step \in [call : {"init", "beam", "verify", "llm"}, depth : Nat]
    /\ Registered(all_requests)
    /\ step.call \in {"init", "llm"} =>
          Named(tree_bc.row) /\ EachOnce(tree_bc.row, pending_infr_request_queue,
                                                Open(all_requests))
    /\ step.call \in {"beam", "verify"} =>
          Named(beam_bc) /\ EachOnce(beam_bc, pending_infr_request_queue,
                                            Open(all_requests))

-----------------------------------------------------------------------------
(* Sequences of requests. *)

\* A request more.
LEMMA OneMoreRequest ==
    ASSUME NEW s, NEW e, Registered(s), DOMAIN e = RequestFields
    PROVE  /\ Registered(Append(s, e)) /\ Len(s) \in Nat /\ DOMAIN s = 1 .. Len(s)
           /\ Len(Append(s, e)) = Len(s) + 1 /\ Append(s, e)[Len(s) + 1] = e
           /\ DOMAIN Append(s, e) = DOMAIN s \cup {Len(s) + 1}
           /\ \A g \in DOMAIN s : Append(s, e)[g] = s[g]
<1>1. PICK S : s \in Seq(S)
    BY DEF Registered
<1> DEFINE t == Append(s, e)
<1>2. /\ t \in Seq(S \cup {e}) /\ Len(s) \in Nat /\ DOMAIN s = 1 .. Len(s)
      /\ Len(t) = Len(s) + 1 /\ t[Len(s) + 1] = e
      /\ DOMAIN t = DOMAIN s \cup {Len(s) + 1} /\ \A g \in DOMAIN s : t[g] = s[g]
    BY <1>1
<1> HIDE DEF t
<1>3. \A g \in DOMAIN t : DOMAIN t[g] = RequestFields
    BY <1>2 DEF Registered
<1>4. Registered(t)
    BY <1>2, <1>3 DEF Registered
<1> QED BY <1>2, <1>4 DEF t

\* The requests after a function has gone through them.
LEMMA SameRequests ==
    ASSUME NEW s, NEW t, Registered(s), t = [g \in DOMAIN s |-> t[g]],
           \A g \in DOMAIN s : DOMAIN t[g] = RequestFields
    PROVE  Registered(t)
<1>1. PICK S : s \in Seq(S)
    BY DEF Registered
<1> DEFINE R == {t[g] : g \in DOMAIN s}
<1>2. DOMAIN s = 1 .. Len(s) /\ Len(s) \in Nat
    BY <1>1
<1>3. t \in [1 .. Len(s) -> R]
    BY <1>2
<1>4. t \in Seq(R)
    BY <1>2, <1>3
<1> QED BY <1>4 DEF Registered


-----------------------------------------------------------------------------
(* The loops over the rows: the batch after the first i rows. *)

CarriedBatch(verification) ==
    [row |-> [i \in Rows |-> CarriedRow(verification, i)],
     queue |-> pending_infr_request_queue,
     num_tokens |-> TokensBefore(verification)[MaxRequests]]
AdmitsUpto(h, verification, n) ==
    h = [i \in 0 .. n |-> IF i = 0 THEN CarriedBatch(verification)
                          ELSE Admit(h[i - 1], i - 1)]

\* There is such a batch for every number of rows.
LEMMA AdmittedUpto ==
    ASSUME NEW verification
    PROVE  \E h : /\ h[0] = CarriedBatch(verification)
                  /\ \A i \in Rows : h[i + 1] = Admit(h[i], i)
                  /\ Admitted(verification) = h[MaxRequests]
<1> DEFINE T == {n \in Nat : \E h : AdmitsUpto(h, verification, n)}
<1>1. 0 \in T
  <2> DEFINE h == [i \in 0 .. 0 |-> CarriedBatch(verification)]
  <2>1. h = [i \in 0 .. 0 |-> IF i = 0 THEN CarriedBatch(verification)
                              ELSE Admit(h[i - 1], i - 1)]
      OBVIOUS
  <2> QED BY <2>1 DEF AdmitsUpto
<1>2. ASSUME NEW n \in Nat, n \in T PROVE n + 1 \in T
  <2>1. PICK h : AdmitsUpto(h, verification, n)
      BY <1>2
  <2> DEFINE k == [i \in 0 .. n + 1 |-> IF i = 0 THEN CarriedBatch(verification)
                                        ELSE Admit(h[i - 1], i - 1)]
  <2>2. \A i \in 0 .. n : k[i] = h[i]
      BY <2>1 DEF AdmitsUpto
  <2>3. \A i \in 0 .. n + 1 : i # 0 => i - 1 \in 0 .. n
      OBVIOUS
  <2>4. k = [i \in 0 .. n + 1 |-> IF i = 0 THEN CarriedBatch(verification)
                                  ELSE Admit(k[i - 1], i - 1)]
      BY <2>2, <2>3
  <2>5. AdmitsUpto(k, verification, n + 1)
      BY <2>4 DEF AdmitsUpto
  <2> QED BY <2>5
<1>3. MaxRequests \in Nat \ {0}
    BY SpecAssumption DEF SpecAssumption
<1>4. \E h : AdmitsUpto(h, verification, MaxRequests)
  <2> HIDE DEF T
  <2>1. MaxRequests \in T
      BY <1>1, <1>2, <1>3, SetInduction
  <2> QED BY <2>1 DEF T
<1> DEFINE h == CHOOSE h : AdmitsUpto(h, verification, MaxRequests)
<1>5. AdmitsUpto(h, verification, MaxRequests)
    BY <1>4
<1>6. Admitted(verification) = h[MaxRequests]
    BY DEF Admitted, AdmitsUpto, CarriedBatch
<1> HIDE DEF h
<1>7. \A i \in 0 .. MaxRequests : h[i] = IF i = 0 THEN CarriedBatch(verification)
                                         ELSE Admit(h[i - 1], i - 1)
    BY <1>5, Zenon DEF AdmitsUpto
<1>8. h[0] = CarriedBatch(verification)
    BY <1>3, <1>7
<1>9. \A i \in Rows : h[i + 1] = Admit(h[i], i)
  <2> SUFFICES ASSUME NEW i \in Rows PROVE h[i + 1] = Admit(h[i], i)
      OBVIOUS
  <2>1. i + 1 \in 0 .. MaxRequests /\ i + 1 # 0 /\ (i + 1) - 1 = i
      BY <1>3 DEF Rows
  <2> QED BY <1>7, <2>1
<1> QED BY <1>6, <1>8, <1>9

Speculated(deeper) ==
    FoldLeft(LAMBDA n, i : IF i \in RunningBeamRows
                           THEN n + deeper[i].sub_request_num ELSE n,
             0, RowOrder)
BegunBatch(deeper) ==
    [row |-> [i \in Rows |-> IF i \in RunningBeamRows THEN deeper[i] ELSE beam_bc[i]],
     num_tokens |-> Speculated(deeper)]
PromptsUpto(h, deeper, n) ==
    h = [i \in 0 .. n |-> IF i = 0 THEN BegunBatch(deeper)
                          ELSE AddPromptRow(h[i - 1], i - 1)]

\* The same for the prompts that go on in a beam batch.
LEMMA BeamRowsUpto ==
    ASSUME NEW deeper
    PROVE  \E h : /\ h[0] = BegunBatch(deeper)
                  /\ \A i \in Rows : h[i + 1] = AddPromptRow(h[i], i)
                  /\ BeamRows(deeper) = h[MaxRequests].row
<1> DEFINE T == {n \in Nat : \E h : PromptsUpto(h, deeper, n)}
<1>1. 0 \in T
  <2> DEFINE h == [i \in 0 .. 0 |-> BegunBatch(deeper)]
  <2>1. h = [i \in 0 .. 0 |-> IF i = 0 THEN BegunBatch(deeper)
                              ELSE AddPromptRow(h[i - 1], i - 1)]
      OBVIOUS
  <2> QED BY <2>1 DEF PromptsUpto
<1>2. ASSUME NEW n \in Nat, n \in T PROVE n + 1 \in T
  <2>1. PICK h : PromptsUpto(h, deeper, n)
      BY <1>2
  <2> DEFINE k == [i \in 0 .. n + 1 |-> IF i = 0 THEN BegunBatch(deeper)
                                        ELSE AddPromptRow(h[i - 1], i - 1)]
  <2>2. \A i \in 0 .. n : k[i] = h[i]
      BY <2>1 DEF PromptsUpto
  <2>3. \A i \in 0 .. n + 1 : i # 0 => i - 1 \in 0 .. n
      OBVIOUS
  <2>4. k = [i \in 0 .. n + 1 |-> IF i = 0 THEN BegunBatch(deeper)
                                  ELSE AddPromptRow(k[i - 1], i - 1)]
      BY <2>2, <2>3
  <2>5. PromptsUpto(k, deeper, n + 1)
      BY <2>4 DEF PromptsUpto
  <2> QED BY <2>5
<1>3. MaxRequests \in Nat \ {0}
    BY SpecAssumption DEF SpecAssumption
<1>4. \E h : PromptsUpto(h, deeper, MaxRequests)
  <2> HIDE DEF T
  <2>1. MaxRequests \in T
      BY <1>1, <1>2, <1>3, SetInduction
  <2> QED BY <2>1 DEF T
<1> DEFINE h == CHOOSE h : PromptsUpto(h, deeper, MaxRequests)
<1>5. PromptsUpto(h, deeper, MaxRequests)
    BY <1>4
<1>6. BeamRows(deeper) = h[MaxRequests].row
    BY DEF BeamRows, PromptsUpto, BegunBatch, Speculated
<1> HIDE DEF h
<1>7. \A i \in 0 .. MaxRequests : h[i] = IF i = 0 THEN BegunBatch(deeper)
                                         ELSE AddPromptRow(h[i - 1], i - 1)
    BY <1>5, Zenon DEF PromptsUpto
<1>8. h[0] = BegunBatch(deeper)
    BY <1>3, <1>7
<1>9. \A i \in Rows : h[i + 1] = AddPromptRow(h[i], i)
  <2> SUFFICES ASSUME NEW i \in Rows PROVE h[i + 1] = AddPromptRow(h[i], i)
      OBVIOUS
  <2>1. i + 1 \in 0 .. MaxRequests /\ i + 1 # 0 /\ (i + 1) - 1 = i
      BY <1>3 DEF Rows
  <2> QED BY <1>7, <2>1
<1> QED BY <1>6, <1>8, <1>9

NoTreesMade ==
    [bc |-> NoTreeBatch, request |-> all_requests, tree |-> dfs_tree_inputs,
     load |-> MaxPromptLoad, fits |-> TRUE]
TreesUpto(h, n) ==
    h = [i \in 0 .. n |-> IF i = 0 THEN NoTreesMade
                          ELSE VerifyRow(h[i - 1], i - 1)]

\* The same for the rows of a tree batch.
LEMMA MadeTreesUpto ==
    \E h : /\ h[0] = NoTreesMade
           /\ \A i \in Rows : h[i + 1] = VerifyRow(h[i], i)
           /\ MadeTrees = h[MaxRequests]
<1> DEFINE T == {n \in Nat : \E h : TreesUpto(h, n)}
<1>1. 0 \in T
  <2> DEFINE h == [i \in 0 .. 0 |-> NoTreesMade]
  <2>1. h = [i \in 0 .. 0 |-> IF i = 0 THEN NoTreesMade
                              ELSE VerifyRow(h[i - 1], i - 1)]
      OBVIOUS
  <2> QED BY <2>1 DEF TreesUpto
<1>2. ASSUME NEW n \in Nat, n \in T PROVE n + 1 \in T
  <2>1. PICK h : TreesUpto(h, n)
      BY <1>2
  <2> DEFINE k == [i \in 0 .. n + 1 |-> IF i = 0 THEN NoTreesMade
                                        ELSE VerifyRow(h[i - 1], i - 1)]
  <2>2. \A i \in 0 .. n : k[i] = h[i]
      BY <2>1 DEF TreesUpto
  <2>3. \A i \in 0 .. n + 1 : i # 0 => i - 1 \in 0 .. n
      OBVIOUS
  <2>4. k = [i \in 0 .. n + 1 |-> IF i = 0 THEN NoTreesMade
                                  ELSE VerifyRow(k[i - 1], i - 1)]
      BY <2>2, <2>3
  <2>5. TreesUpto(k, n + 1)
      BY <2>4 DEF TreesUpto
  <2> QED BY <2>5
<1>3. MaxRequests \in Nat \ {0}
    BY SpecAssumption DEF SpecAssumption
<1>4. \E h : TreesUpto(h, MaxRequests)
  <2> HIDE DEF T
  <2>1. MaxRequests \in T
      BY <1>1, <1>2, <1>3, SetInduction
  <2> QED BY <2>1 DEF T
<1> DEFINE h == CHOOSE h : TreesUpto(h, MaxRequests)
<1>5. TreesUpto(h, MaxRequests)
    BY <1>4
<1>6. MadeTrees = h[MaxRequests]
    BY DEF MadeTrees, TreesUpto, NoTreesMade
<1> HIDE DEF h
<1>7. \A i \in 0 .. MaxRequests : h[i] = IF i = 0 THEN NoTreesMade
                                         ELSE VerifyRow(h[i - 1], i - 1)
    BY <1>5, Zenon DEF TreesUpto
<1>8. h[0] = NoTreesMade
    BY <1>3, <1>7
<1>9. \A i \in Rows : h[i + 1] = VerifyRow(h[i], i)
  <2> SUFFICES ASSUME NEW i \in Rows PROVE h[i + 1] = VerifyRow(h[i], i)
      OBVIOUS
  <2>1. i + 1 \in 0 .. MaxRequests /\ i + 1 # 0 /\ (i + 1) - 1 = i
      BY <1>3 DEF Rows
  <2> QED BY <1>7, <2>1
<1> QED BY <1>6, <1>8, <1>9

-----------------------------------------------------------------------------
(* prepare_next_batch_init *)

\* What a request that is admitted brings: its guid.
LEMMA NewBeamRowNamed ==
    ASSUME NEW g, NEW num
    PROVE  NewBeamRow(g, num).guid = g /\ "guid" \in DOMAIN NewBeamRow(g, num)
BY DEF NewBeamRow, NoBeamRow

\* A request that is admitted moves from the queue to a row.
LEMMA AdmitKeeps ==
    ASSUME NEW acc, NEW i \in Rows, NEW open, Named(acc.row),
           EachOnce(acc.row, acc.queue, open)
    PROVE  Named(Admit(acc, i).row) /\ EachOnce(Admit(acc, i).row, Admit(acc, i).queue, open)
<1>1. CASE ~(acc.row[i].guid = 0 /\ acc.queue # <<>> /\ acc.num_tokens < MaxTokens)
  <2>1. Admit(acc, i) = acc
      BY <1>1 DEF Admit
  <2> QED BY <2>1
<1>2. CASE acc.row[i].guid = 0 /\ acc.queue # <<>> /\ acc.num_tokens < MaxTokens
  <2> DEFINE q == acc.queue
             g == Head(q)
             num == Minimum(MaxTokens - acc.num_tokens, Size(all_requests[g]))
             row == acc.row
             after == [row EXCEPT ![i] = NewBeamRow(g, num)]
             rest == Tail(q)
  <2>1. Admit(acc, i).row = after /\ Admit(acc, i).queue = rest
      BY <1>2 DEF Admit
  <2>2. /\ q \in Seq(Nat \ {0}) /\ q # <<>> /\ row[i].guid = 0
        /\ \A j, k \in Rows : row[j].guid # 0 /\ row[j].guid = row[k].guid => j = k
        /\ \A j, k \in DOMAIN q : q[j] = q[k] => j = k
        /\ \A j \in Rows, k \in DOMAIN q : row[j].guid # q[k]
        /\ \A e : e \in open <=> \/ e # 0 /\ \E j \in Rows : row[j].guid = e
                                 \/ \E k \in DOMAIN q : q[k] = e
      BY <1>2 DEF EachOnce
  <2>3. /\ g = q[1] /\ g \in Nat \ {0} /\ 1 \in DOMAIN q
        /\ rest \in Seq(Nat \ {0})
        /\ \A k \in DOMAIN rest : k + 1 \in DOMAIN q /\ rest[k] = q[k + 1] /\ k + 1 # 1
        /\ \A k \in DOMAIN q : k = 1 \/ (k - 1 \in DOMAIN rest /\ rest[k - 1] = q[k])
    <3>1. q \in Seq(Nat \ {0}) /\ q # <<>>
        BY <2>2
    <3> HIDE DEF q
    <3> QED BY <3>1
  <2>4. /\ DOMAIN after = Rows /\ after[i] = NewBeamRow(g, num)
        /\ \A j \in Rows : j # i => after[j] = row[j]
      BY DEF Named
  <2>5. after[i].guid = g /\ "guid" \in DOMAIN after[i]
      BY <2>4, NewBeamRowNamed
  <2> HIDE DEF q, g, row, after, rest, num
  <2>6. \A j \in Rows : "guid" \in DOMAIN after[j]
    <3>1. \A j \in Rows : "guid" \in DOMAIN row[j]
        BY DEF Named, row
    <3> QED BY <2>4, <2>5, <3>1
  <2>7. \A j, k \in Rows : after[j].guid # 0 /\ after[j].guid = after[k].guid => j = k
      BY <2>2, <2>3, <2>4, <2>5
  <2>8. \A j, k \in DOMAIN rest : rest[j] = rest[k] => j = k
    <3> SUFFICES ASSUME NEW j \in DOMAIN rest, NEW k \in DOMAIN rest, rest[j] = rest[k]
                 PROVE  j = k
        OBVIOUS
    <3>1. j + 1 = k + 1
        BY <2>2, <2>3
    <3>2. j \in Nat /\ k \in Nat
        BY <2>3
    <3> QED BY <3>1, <3>2
  <2>9. \A j \in Rows, k \in DOMAIN rest : after[j].guid # rest[k]
    <3> SUFFICES ASSUME NEW j \in Rows, NEW k \in DOMAIN rest PROVE after[j].guid # rest[k]
        OBVIOUS
    <3>1. k + 1 \in DOMAIN q /\ rest[k] = q[k + 1] /\ k + 1 # 1
        BY <2>3, Zenon
    <3>2. CASE j = i
        BY <2>2, <2>3, <2>5, <3>1, <3>2
    <3>3. CASE j # i
        BY <2>2, <2>4, <3>1, <3>3
    <3> QED BY <3>2, <3>3
  <2>10. \A e : e \in open <=> \/ e # 0 /\ \E j \in Rows : after[j].guid = e
                               \/ \E k \in DOMAIN rest : rest[k] = e
    <3> SUFFICES ASSUME NEW e
                 PROVE  e \in open <=> \/ e # 0 /\ \E j \in Rows : after[j].guid = e
                                       \/ \E k \in DOMAIN rest : rest[k] = e
        OBVIOUS
    <3>1. ASSUME e # 0, NEW j \in Rows, row[j].guid = e
          PROVE  after[j].guid = e
        BY <2>2, <2>4, <3>1
    <3>2. ASSUME NEW k \in DOMAIN q, q[k] = e
          PROVE  (after[i].guid = e /\ e # 0) \/ \E l \in DOMAIN rest : rest[l] = e
        BY <2>3, <2>5, <3>2
    <3>3. ASSUME NEW j \in Rows, after[j].guid = e, e # 0
          PROVE  row[j].guid = e \/ q[1] = e
        BY <2>3, <2>4, <2>5, <3>3
    <3>4. ASSUME NEW k \in DOMAIN rest, rest[k] = e
          PROVE  \E l \in DOMAIN q : q[l] = e
        BY <2>3, <3>4
    <3> QED BY <2>2, <2>3, <3>1, <3>2, <3>3, <3>4
  <2>11. Named(after)
      BY <2>4, <2>6 DEF Named
  <2>12. EachOnce(after, rest, open)
      BY <2>3, <2>7, <2>8, <2>9, <2>10 DEF EachOnce
  <2> QED BY <2>1, <2>11, <2>12
<1> QED BY <1>1, <1>2

\* The batch that is admitted holds the requests that the carried rows and the
\* queue hold.
LEMMA AdmittedKeeps ==
    ASSUME NEW verification, NEW open,
           Named(CarriedBatch(verification).row),
           EachOnce(CarriedBatch(verification).row, pending_infr_request_queue, open)
    PROVE  /\ Named(Admitted(verification).row)
           /\ EachOnce(Admitted(verification).row, Admitted(verification).queue, open)
<1> PICK h : /\ h[0] = CarriedBatch(verification)
             /\ \A i \in Rows : h[i + 1] = Admit(h[i], i)
             /\ Admitted(verification) = h[MaxRequests]
    BY AdmittedUpto
<1> DEFINE Right(n) == Named(h[n].row) /\ EachOnce(h[n].row, h[n].queue, open)
           T == {n \in Nat : n <= MaxRequests => Right(n)}
<1>1. MaxRequests \in Nat
    BY SpecAssumption DEF SpecAssumption
<1>2. Right(0)
  <2>1. CarriedBatch(verification).queue = pending_infr_request_queue
      BY DEF CarriedBatch
  <2> QED BY <2>1
<1>3. \A i \in Rows : Right(i) => Right(i + 1)
    BY AdmitKeeps
<1> HIDE DEF Right
<1>4. 0 \in T
    BY <1>2
<1>5. ASSUME NEW n \in Nat, n \in T PROVE n + 1 \in T
  <2>1. n + 1 <= MaxRequests => n \in Rows /\ n <= MaxRequests
      BY <1>1 DEF Rows
  <2> QED BY <1>3, <1>5, <2>1
<1>6. MaxRequests \in T
  <2> HIDE DEF T
  <2> QED BY <1>1, <1>4, <1>5, SetInduction
<1>7. Right(MaxRequests)
    BY <1>1, <1>6
<1> QED BY <1>7 DEF Right

\* A row that is carried over serves the request it served, unless that is over.
LEMMA CarriedRowNamed ==
    ASSUME NEW verification, NEW i \in Rows,
           i \in DOMAIN verification => tree_bc.row[i].guid # 0
    PROVE  /\ "guid" \in DOMAIN CarriedRow(verification, i)
           /\ CarriedRow(verification, i).guid =
                 IF i \in DOMAIN verification /\ Finishes(verification, i) THEN 0
                 ELSE tree_bc.row[i].guid
<1> DEFINE g == tree_bc.row[i].guid
           r == CarriedRow(verification, i)
<1>1. NoBeamRow.guid = 0 /\ "guid" \in DOMAIN NoBeamRow
    BY DEF NoBeamRow
<1>2. \A v : RunningBeamRow(g, v).guid = g /\ "guid" \in DOMAIN RunningBeamRow(g, v)
    BY DEF RunningBeamRow
<1>3. LoadingBeamRow(g).guid = g /\ "guid" \in DOMAIN LoadingBeamRow(g)
    BY DEF LoadingBeamRow, NoBeamRow
<1>4. CASE g = 0
  <2>1. i \notin DOMAIN verification
      BY <1>4
  <2>2. r = NoBeamRow
      BY <1>4, <2>1 DEF CarriedRow
  <2> QED BY <1>1, <1>4, <2>1, <2>2
<1>5. CASE g # 0 /\ i \in DOMAIN verification /\ Finishes(verification, i)
    BY <1>1, <1>5 DEF CarriedRow
<1>6. CASE g # 0 /\ i \in DOMAIN verification /\ ~Finishes(verification, i)
  <2>1. r = RunningBeamRow(g, verification[i].verified)
      BY <1>6 DEF CarriedRow
  <2> QED BY <1>2, <1>6, <2>1
<1>7. CASE g # 0 /\ i \notin DOMAIN verification
  <2>1. r = LoadingBeamRow(g)
      BY <1>7 DEF CarriedRow
  <2> QED BY <1>3, <1>7, <2>1
<1> QED BY <1>4, <1>5, <1>6, <1>7

\* The request of a row is complete when it finishes, and else what it was.
LEMMA UpdatedRequestStatus ==
    ASSUME NEW verification, NEW i \in Rows, NEW before,
           DOMAIN all_requests[tree_bc.row[i].guid] = RequestFields
    PROVE  /\ DOMAIN UpdatedRequest(verification, i, before) = RequestFields
           /\ UpdatedRequest(verification, i, before).status =
                 IF i \in DOMAIN verification /\ Finishes(verification, i)
                 THEN "COMPLETED" ELSE all_requests[tree_bc.row[i].guid].status
<1> DEFINE r == all_requests[tree_bc.row[i].guid]
           u == UpdatedRequest(verification, i, before)
           v == verification[i].verified
           kept == SelectSeq(v, LAMBDA n : n.depth < r.max_sequence_length)
           sent == SubSeq(v, 1, TokensAdded(verification, i, before[i]))
<1>0. "status" \in RequestFields
    BY DEF RequestFields
<1>1. CASE i \notin DOMAIN verification
  <2>1. u = r
      BY <1>1 DEF UpdatedRequest
  <2> QED BY <1>1, <2>1
<1>2. CASE i \in DOMAIN verification /\ Finishes(verification, i)
  <2>1. PICK tokens, result :
           u = [r EXCEPT !.tokens = tokens, !.status = "COMPLETED", !.result = result,
                         !.beam_tree = NoBeamTree]
      BY <1>2 DEF UpdatedRequest
  <2> HIDE DEF u, r
  <2>2. DOMAIN u = RequestFields /\ u.status = "COMPLETED"
      BY <1>0, <2>1 DEF r
  <2> QED BY <1>2, <2>2 DEF u
<1>3. CASE i \in DOMAIN verification /\ ~Finishes(verification, i)
  <2>1. PICK tokens : u = [r EXCEPT !.tokens = tokens, !.beam_tree = NoBeamTree]
      BY <1>3 DEF UpdatedRequest
  <2> HIDE DEF u, r
  <2>2. DOMAIN u = RequestFields /\ u.status = r.status
      BY <1>0, <2>1 DEF r
  <2> QED BY <1>3, <2>2 DEF u, r
<1> QED BY <1>1, <1>2, <1>3

-----------------------------------------------------------------------------
(* How the rows, the queue and the requests that are open change together. *)

\* A request that is not open yet joins the queue.
LEMMA OneQueues ==
    ASSUME NEW row, NEW queue, NEW open, EachOnce(row, queue, open),
           NEW n \in Nat \ {0}, n \notin open
    PROVE  EachOnce(row, Append(queue, n), open \cup {n})
<1> DEFINE q == Append(queue, n)
<1>1. /\ queue \in Seq(Nat \ {0})
      /\ \A i, j \in Rows : row[i].guid # 0 /\ row[i].guid = row[j].guid => i = j
      /\ \A j, k \in DOMAIN queue : queue[j] = queue[k] => j = k
      /\ \A i \in Rows, k \in DOMAIN queue : row[i].guid # queue[k]
      /\ \A g : g \in open <=> \/ g # 0 /\ \E i \in Rows : row[i].guid = g
                               \/ \E k \in DOMAIN queue : queue[k] = g
    BY DEF EachOnce
<1>2. /\ q \in Seq(Nat \ {0}) /\ DOMAIN q = DOMAIN queue \cup {Len(queue) + 1}
      /\ \A k \in DOMAIN queue : q[k] = queue[k]
      /\ q[Len(queue) + 1] = n
    BY <1>1
<1>3. /\ \A i \in Rows : row[i].guid # n
      /\ \A k \in DOMAIN queue : queue[k] # n
    BY <1>1
<1> HIDE DEF q
<1>4. \A j, k \in DOMAIN q : q[j] = q[k] => j = k
    BY <1>1, <1>2, <1>3
<1>5. \A i \in Rows, k \in DOMAIN q : row[i].guid # q[k]
    BY <1>1, <1>2, <1>3
<1>6. \A g : g \in open \cup {n} <=> \/ g # 0 /\ \E i \in Rows : row[i].guid = g
                                     \/ \E k \in DOMAIN q : q[k] = g
    BY <1>1, <1>2, <1>3
<1>7. EachOnce(row, q, open \cup {n})
    BY <1>1, <1>2, <1>4, <1>5, <1>6 DEF EachOnce
<1> QED BY <1>7 DEF q

\* The requests of some rows leave with their rows.
LEMMA SomeLeave ==
    ASSUME NEW row, NEW queue, NEW open, EachOnce(row, queue, open), NEW after,
           NEW F \in SUBSET Rows, \A i \in F : row[i].guid # 0,
           \A i \in Rows : after[i].guid = IF i \in F THEN 0 ELSE row[i].guid
    PROVE  EachOnce(after, queue, open \ {row[i].guid : i \in F})
<1>1. /\ queue \in Seq(Nat \ {0})
      /\ \A i, j \in Rows : row[i].guid # 0 /\ row[i].guid = row[j].guid => i = j
      /\ \A j, k \in DOMAIN queue : queue[j] = queue[k] => j = k
      /\ \A i \in Rows, k \in DOMAIN queue : row[i].guid # queue[k]
      /\ \A g : g \in open <=> \/ g # 0 /\ \E i \in Rows : row[i].guid = g
                               \/ \E k \in DOMAIN queue : queue[k] = g
    BY DEF EachOnce
<1>2. \A k \in DOMAIN queue : queue[k] # 0
    BY <1>1
<1>3. \A i, j \in Rows : after[i].guid # 0 /\ after[i].guid = after[j].guid => i = j
    BY <1>1
<1>4. \A i \in Rows, k \in DOMAIN queue : after[i].guid # queue[k]
    BY <1>1, <1>2
<1> DEFINE left == {row[i].guid : i \in F}
<1>5. \A g : g \in open \ left <=> \/ g # 0 /\ \E i \in Rows : after[i].guid = g
                                   \/ \E k \in DOMAIN queue : queue[k] = g
  <2> SUFFICES ASSUME NEW g
               PROVE  g \in open \ left <=> \/ g # 0 /\ \E i \in Rows : after[i].guid = g
                                            \/ \E k \in DOMAIN queue : queue[k] = g
      OBVIOUS
  <2>1. ASSUME NEW i \in Rows, after[i].guid = g, g # 0
        PROVE  g \in open \ left
      BY <1>1, <2>1
  <2>2. ASSUME NEW k \in DOMAIN queue, queue[k] = g
        PROVE  g \in open \ left
      BY <1>1, <2>2
  <2>3. ASSUME NEW i \in Rows, row[i].guid = g, g \notin left
        PROVE  after[i].guid = g
      BY <2>3
  <2> HIDE DEF left
  <2> QED BY <1>1, <2>1, <2>2, <2>3
<1>6. EachOnce(after, queue, open \ left)
  <2> HIDE DEF left
  <2> QED BY <1>1, <1>3, <1>4, <1>5 DEF EachOnce
<1> QED BY <1>6

\* Rows that serve what other rows served.
LEMMA NoneLeaves ==
    ASSUME NEW row, NEW queue, NEW open, EachOnce(row, queue, open), NEW after,
           \A i \in Rows : after[i].guid = row[i].guid
    PROVE  EachOnce(after, queue, open)
BY DEF EachOnce

\* No request is registered at first, and no row is used.
LEMMA InitServes ==
    ASSUME Init PROVE ServingInvariant
<1>1. Open(all_requests) = {} /\ Registered(all_requests)
  <2>1. all_requests = <<>> /\ DOMAIN all_requests = {} /\ all_requests \in Seq({})
      BY DEF Init
  <2> QED BY <2>1 DEF Open, Registered
<1> DEFINE row == [i \in Rows |-> NoTreeRow]
<1>2. tree_bc.row = row /\ pending_infr_request_queue = <<>>
    BY DEF Init, NoTreeBatch
<1>3. NoTreeRow.guid = 0 /\ "guid" \in DOMAIN NoTreeRow
    BY DEF NoTreeRow
<1>4. Named(row)
    BY <1>3 DEF Named
<1>5. \A i \in Rows : row[i].guid = 0
    BY <1>3
<1>6. EachOnce(row, <<>>, {})
  <2> HIDE DEF row
  <2>1. <<>> \in Seq(Nat \ {0}) /\ DOMAIN <<>> = {}
      OBVIOUS
  <2> DEFINE q == <<>>
  <2>2. q \in Seq(Nat \ {0}) /\ DOMAIN q = {}
      BY <2>1
  <2> HIDE DEF q
  <2>3. EachOnce(row, q, {})
      BY <1>5, <2>2 DEF EachOnce
  <2> QED BY <2>3 DEF q
<1>7. step \in [call : {"init", "beam", "verify", "llm"}, depth : Nat] /\ step.call = "init"
    BY DEF Init
<1> QED BY <1>1, <1>2, <1>4, <1>6, <1>7 DEF ServingInvariant

\* A request that is registered joins the queue.
LEMMA RegisterServes ==
    ASSUME ServingInvariant, RegisterNewRequest PROVE ServingInvariant'
<1>1. /\ Registered(all_requests) /\ step.call = "init" /\ Named(tree_bc.row)
      /\ step \in [call : {"init", "beam", "verify", "llm"}, depth : Nat]
      /\ EachOnce(tree_bc.row, pending_infr_request_queue, Open(all_requests))
    BY DEF ServingInvariant, RegisterNewRequest
<1>2. PICK e : /\ all_requests' = Append(all_requests, e)
               /\ DOMAIN e = RequestFields /\ e.status = "PENDING"
    BY DEF RegisterNewRequest, RequestFields
<1> DEFINE s == all_requests
           n == Len(s) + 1
           t == Append(s, e)
<1>3. /\ Registered(t) /\ Len(s) \in Nat /\ DOMAIN s = 1 .. Len(s) /\ Len(t) = n
      /\ t[n] = e /\ DOMAIN t = DOMAIN s \cup {n} /\ \A g \in DOMAIN s : t[g] = s[g]
    BY <1>1, <1>2, OneMoreRequest
<1>4. n \in Nat \ {0} /\ n \notin DOMAIN s
    BY <1>3
<1>5. all_requests' = t /\ pending_infr_request_queue' = Append(pending_infr_request_queue, n)
    BY <1>2, <1>3 DEF RegisterNewRequest
<1> HIDE DEF n, t, s
<1>6. Open(t) = Open(s) \cup {n} /\ n \notin Open(s)
    BY <1>2, <1>3, <1>4 DEF Open
<1>7. EachOnce(tree_bc.row, Append(pending_infr_request_queue, n), Open(t))
    BY <1>1, <1>4, <1>6, OneQueues DEF s
<1>8. UNCHANGED << step, tree_bc >>
    BY DEF RegisterNewRequest
<1> QED BY <1>1, <1>3, <1>5, <1>7, <1>8 DEF ServingInvariant

\* The rows that are verified serve requests.
LEMMA VerifiedRows ==
    /\ DOMAIN Verification \subseteq Rows
    /\ \A i \in DOMAIN Verification : tree_bc.row[i].guid # 0
BY DEF Verification, RunningRows

\* The rows whose requests finish leave the batch with them; what the others
\* serve stays, and the batch is filled from the queue.
LEMMA InitStepServes ==
    ASSUME ServingInvariant, PrepareNextBatchInit PROVE ServingInvariant'
<1> DEFINE v == Verification
           row == tree_bc.row
           active == ActiveRows(row)
           before == TokensBefore(v)
           batch == Admitted(v)
           new == {i \in Rows : batch.row[i].guid # row[i].guid /\ batch.row[i].guid # 0}
           RowOf(g) == CHOOSE i \in active : row[i].guid = g
           served == {row[i].guid : i \in active}
           F == {i \in DOMAIN v : Finishes(v, i)}
           s == all_requests
           t == [g \in DOMAIN s |->
                   IF g \in served THEN UpdatedRequest(v, RowOf(g), before)
                   ELSE IF \E i \in new : batch.row[i].guid = g
                   THEN [s[g] EXCEPT !.ssm_cache_size =
                           batch.row[CHOOSE i \in new : batch.row[i].guid = g].num]
                   ELSE s[g]]
           left == {row[i].guid : i \in F}
           c == CarriedBatch(v).row
<1>1. /\ Registered(s) /\ step.call = "init" /\ Named(row)
      /\ step \in [call : {"init", "beam", "verify", "llm"}, depth : Nat]
      /\ EachOnce(row, pending_infr_request_queue, Open(s))
    BY DEF ServingInvariant, PrepareNextBatchInit
<1>2. /\ all_requests' = t /\ beam_bc' = batch.row
      /\ pending_infr_request_queue' = batch.queue /\ step' = NextStep
    BY DEF PrepareNextBatchInit, Guid
<1>3. step' = [call |-> "beam", depth |-> 0]
    BY <1>1, <1>2 DEF NextStep
<1>4. /\ F \in SUBSET Rows /\ \A i \in F : row[i].guid # 0
    BY VerifiedRows
<1>5. \A i \in Rows : /\ "guid" \in DOMAIN c[i]
                      /\ c[i].guid = IF i \in F THEN 0 ELSE row[i].guid
  <2> SUFFICES ASSUME NEW i \in Rows
               PROVE  /\ "guid" \in DOMAIN c[i]
                      /\ c[i].guid = IF i \in F THEN 0 ELSE row[i].guid
      OBVIOUS
  <2>1. c[i] = CarriedRow(v, i)
      BY DEF CarriedBatch
  <2>2. i \in DOMAIN v => row[i].guid # 0
      BY VerifiedRows
  <2> HIDE DEF v, c
  <2>3. /\ "guid" \in DOMAIN CarriedRow(v, i)
        /\ CarriedRow(v, i).guid = IF i \in DOMAIN v /\ Finishes(v, i) THEN 0 ELSE row[i].guid
      BY <2>2, CarriedRowNamed
  <2> QED BY <2>1, <2>3
<1>6. Named(c)
  <2>1. DOMAIN c = Rows
      BY DEF CarriedBatch
  <2> HIDE DEF c
  <2> QED BY <1>5, <2>1 DEF Named
<1>7. EachOnce(c, pending_infr_request_queue, Open(s) \ left)
  <2> HIDE DEF c, row, F
  <2>1. EachOnce(c, pending_infr_request_queue, Open(s) \ {row[i].guid : i \in F})
      BY <1>1, <1>4, <1>5, SomeLeave
  <2> QED BY <2>1
<1>8. Named(batch.row) /\ EachOnce(batch.row, batch.queue, Open(s) \ left)
  <2> DEFINE open == Open(s) \ left
  <2>1. EachOnce(c, pending_infr_request_queue, open)
      BY <1>7
  <2> HIDE DEF v, open
  <2>2. Named(Admitted(v).row) /\ EachOnce(Admitted(v).row, Admitted(v).queue, open)
      BY <1>6, <2>1, AdmittedKeeps
  <2> QED BY <2>2 DEF open
<1>9. \A g \in served : RowOf(g) \in Rows /\ row[RowOf(g)].guid = g /\ g # 0
  <2> SUFFICES ASSUME NEW g \in served
               PROVE  RowOf(g) \in Rows /\ row[RowOf(g)].guid = g /\ g # 0
      OBVIOUS
  <2>1. \E i \in active : row[i].guid = g
      OBVIOUS
  <2>2. RowOf(g) \in active /\ row[RowOf(g)].guid = g
      BY <2>1
  <2> HIDE DEF RowOf
  <2> QED BY <2>2 DEF ActiveRows
<1>10. \A i \in active : row[i].guid \in served /\ RowOf(row[i].guid) = i
  <2> SUFFICES ASSUME NEW i \in active
               PROVE  row[i].guid \in served /\ RowOf(row[i].guid) = i
      OBVIOUS
  <2>1. row[i].guid \in served /\ row[i].guid # 0 /\ i \in Rows
      BY DEF ActiveRows
  <2>2. RowOf(row[i].guid) \in Rows /\ row[RowOf(row[i].guid)].guid = row[i].guid
      BY <1>9, <2>1
  <2> HIDE DEF RowOf
  <2> QED BY <1>1, <2>1, <2>2 DEF EachOnce
<1>11. \A g \in DOMAIN s :
          /\ DOMAIN t[g] = RequestFields
          /\ t[g].status = IF g \in served /\ RowOf(g) \in F THEN "COMPLETED"
                           ELSE s[g].status
  <2> SUFFICES ASSUME NEW g \in DOMAIN s
               PROVE  /\ DOMAIN t[g] = RequestFields
                      /\ t[g].status = IF g \in served /\ RowOf(g) \in F
                                       THEN "COMPLETED" ELSE s[g].status
      OBVIOUS
  <2>1. DOMAIN s[g] = RequestFields
      BY <1>1 DEF Registered
  <2>2. CASE g \in served
    <3>1. t[g] = UpdatedRequest(v, RowOf(g), before)
        BY <2>2
    <3>2. RowOf(g) \in Rows /\ row[RowOf(g)].guid = g
        BY <1>9, <2>2
    <3> DEFINE i == RowOf(g)
    <3>3. i \in F <=> i \in DOMAIN v /\ Finishes(v, i)
        OBVIOUS
    <3>4. i \in Rows /\ DOMAIN all_requests[tree_bc.row[i].guid] = RequestFields
        BY <2>1, <3>2
    <3> HIDE DEF i, v, before, t, F
    <3>5. /\ DOMAIN UpdatedRequest(v, i, before) = RequestFields
          /\ UpdatedRequest(v, i, before).status =
                IF i \in DOMAIN v /\ Finishes(v, i)
                THEN "COMPLETED" ELSE all_requests[tree_bc.row[i].guid].status
        BY <3>4, UpdatedRequestStatus
    <3> QED BY <2>2, <3>1, <3>2, <3>3, <3>5 DEF i
  <2>3. CASE g \notin served
    <3> DEFINE num == batch.row[CHOOSE i \in new : batch.row[i].guid = g].num
               r == s[g]
    <3>1. t[g] = [r EXCEPT !.ssm_cache_size = num] \/ t[g] = r
        BY <2>3
    <3> HIDE DEF num, r, t
    <3>2. DOMAIN t[g] = RequestFields /\ t[g].status = r.status
        BY <2>1, <3>1 DEF r, RequestFields
    <3> QED BY <2>3, <3>2 DEF r
  <2> QED BY <2>2, <2>3
<1>12. DOMAIN t = DOMAIN s /\ t = [g \in DOMAIN s |-> t[g]]
    OBVIOUS
<1>13. \A g \in DOMAIN s : g \in served /\ RowOf(g) \in F <=> g \in left
  <2> SUFFICES ASSUME NEW g \in DOMAIN s
               PROVE  g \in served /\ RowOf(g) \in F <=> g \in left
      OBVIOUS
  <2>1. ASSUME g \in served, RowOf(g) \in F PROVE g \in left
    <3>1. row[RowOf(g)].guid = g
        BY <1>9, <2>1
    <3> HIDE DEF RowOf
    <3> QED BY <2>1, <3>1
  <2>2. ASSUME NEW i \in F, g = row[i].guid PROVE g \in served /\ RowOf(g) \in F
    <3>1. i \in active
        BY <1>4 DEF ActiveRows
    <3> HIDE DEF RowOf, served, F
    <3> QED BY <1>10, <2>2, <3>1
  <2> QED BY <2>1, <2>2
<1> HIDE DEF v, t, batch, RowOf, served, left, F
<1>14. Registered(t)
    BY <1>1, <1>11, <1>12, SameRequests
<1>15. Open(t) = Open(s) \ left
  <2>1. \A g \in DOMAIN s : t[g].status # "COMPLETED" <=> s[g].status # "COMPLETED" /\ g \notin left
      BY <1>11, <1>13
  <2> QED BY <1>12, <2>1 DEF Open
<1>16. EachOnce(batch.row, batch.queue, Open(t))
    BY <1>8, <1>15
<1> QED BY <1>2, <1>3, <1>8, <1>14, <1>16 DEF ServingInvariant

-----------------------------------------------------------------------------
(* prepare_next_batch_beam *)

\* A row that goes one layer deeper serves the same request.
LEMMA DeeperRowNamed ==
    ASSUME NEW row, "guid" \in DOMAIN row, NEW layers
    PROVE  DeeperRow(row, layers).guid = row.guid /\ "guid" \in DOMAIN DeeperRow(row, layers)
BY DEF DeeperRow

\* A prompt that goes on, or rests, serves the same request.
LEMMA PromptRowNamed ==
    ASSUME NEW row, "guid" \in DOMAIN row, NEW i, NEW n
    PROVE  PromptRow(row, i, n).guid = row.guid /\ "guid" \in DOMAIN PromptRow(row, i, n)
BY DEF PromptRow

\* The rows of two batches serve the same requests.
SameGuids(after, row) == \A i \in Rows : after[i].guid = row[i].guid

\* One more prompt.
LEMMA AddPromptRowKeeps ==
    ASSUME NEW acc, NEW i \in Rows, Named(beam_bc), Named(acc.row),
           SameGuids(acc.row, beam_bc)
    PROVE  Named(AddPromptRow(acc, i).row) /\ SameGuids(AddPromptRow(acc, i).row, beam_bc)
<1>1. CASE i \notin ActiveRows(beam_bc) \ RunningBeamRows
  <2>1. AddPromptRow(acc, i) = acc
      BY <1>1 DEF AddPromptRow
  <2> QED BY <2>1
<1>2. CASE i \in ActiveRows(beam_bc) \ RunningBeamRows
  <2> DEFINE new == PromptRow(beam_bc[i], i, acc.num_tokens)
             after == [acc.row EXCEPT ![i] = new]
  <2>1. AddPromptRow(acc, i).row = after
      BY <1>2 DEF AddPromptRow
  <2>2. "guid" \in DOMAIN beam_bc[i]
      BY DEF Named
  <2>3. new.guid = beam_bc[i].guid /\ "guid" \in DOMAIN new
      BY <2>2, PromptRowNamed
  <2> HIDE DEF new
  <2>4. DOMAIN after = Rows /\ after[i] = new /\ \A j \in Rows : j # i => after[j] = acc.row[j]
      BY DEF Named
  <2> HIDE DEF after
  <2> QED BY <2>1, <2>3, <2>4 DEF Named, SameGuids
<1> QED BY <1>1, <1>2

\* All rows of a beam batch serve what they served.
LEMMA BeamRowsKeep ==
    ASSUME NEW deeper, Named(beam_bc),
           \A i \in RunningBeamRows : deeper[i].guid = beam_bc[i].guid
                                      /\ "guid" \in DOMAIN deeper[i]
    PROVE  Named(BeamRows(deeper)) /\ SameGuids(BeamRows(deeper), beam_bc)
<1> PICK h : /\ h[0] = BegunBatch(deeper)
             /\ \A i \in Rows : h[i + 1] = AddPromptRow(h[i], i)
             /\ BeamRows(deeper) = h[MaxRequests].row
    BY BeamRowsUpto
<1> DEFINE Right(n) == Named(h[n].row) /\ SameGuids(h[n].row, beam_bc)
           T == {n \in Nat : n <= MaxRequests => Right(n)}
<1>1. MaxRequests \in Nat
    BY SpecAssumption DEF SpecAssumption
<1>2. Right(0)
  <2> DEFINE row == [i \in Rows |-> IF i \in RunningBeamRows THEN deeper[i] ELSE beam_bc[i]]
  <2>1. h[0].row = row
      BY DEF BegunBatch
  <2>2. \A i \in Rows : row[i].guid = beam_bc[i].guid /\ "guid" \in DOMAIN row[i]
      BY DEF Named
  <2>3. DOMAIN row = Rows
      OBVIOUS
  <2> HIDE DEF row
  <2> QED BY <2>1, <2>2, <2>3 DEF Named, SameGuids
<1>3. \A i \in Rows : Right(i) => Right(i + 1)
    BY AddPromptRowKeeps
<1> HIDE DEF Right
<1>4. 0 \in T
    BY <1>2
<1>5. ASSUME NEW n \in Nat, n \in T PROVE n + 1 \in T
  <2>1. n + 1 <= MaxRequests => n \in Rows /\ n <= MaxRequests
      BY <1>1 DEF Rows
  <2> QED BY <1>3, <1>5, <2>1
<1>6. MaxRequests \in T
  <2> HIDE DEF T
  <2> QED BY <1>1, <1>4, <1>5, SetInduction
<1>7. Right(MaxRequests)
    BY <1>1, <1>6
<1> QED BY <1>7 DEF Right

\* Requests that keep their members and their status stay open or closed.
LEMMA SameOpen ==
    ASSUME NEW s, NEW t, Registered(s), t = [g \in DOMAIN s |-> t[g]],
           \A g \in DOMAIN s : /\ DOMAIN t[g] = RequestFields
                               /\ t[g].status # "COMPLETED" <=> s[g].status # "COMPLETED"
    PROVE  Registered(t) /\ Open(t) = Open(s)
<1>1. Registered(t)
    BY SameRequests
<1>2. DOMAIN t = DOMAIN s
    OBVIOUS
<1> QED BY <1>1, <1>2 DEF Open

\* A layer of the token trees moves no request.
LEMMA BeamStepServes ==
    ASSUME ServingInvariant, PrepareNextBatchBeam PROVE ServingInvariant'
<1> DEFINE s == all_requests
           row == beam_bc
<1>1. /\ Registered(s) /\ step.call = "beam" /\ Named(row)
      /\ step \in [call : {"init", "beam", "verify", "llm"}, depth : Nat]
      /\ EachOnce(row, pending_infr_request_queue, Open(s))
    BY DEF ServingInvariant, PrepareNextBatchBeam
<1>2. PICK guesses \in Guesses :
        LET active == ActiveRows(beam_bc)
            running == RunningBeamRows
            Tree(i) == StoreBeamMetadata(all_requests[beam_bc[i].guid], beam_bc[i], guesses[i])
            batch == BeamRows([i \in running |-> DeeperRow(beam_bc[i], Tree(i))])
            RowOf(g) == CHOOSE i \in active : beam_bc[i].guid = g
        IN  /\ beam_bc' = batch
            /\ all_requests' = [g \in Guid |->
                  IF \A i \in active : beam_bc[i].guid # g
                  THEN all_requests[g]
                  ELSE [all_requests[g] EXCEPT
                     !.beam_tree = Tree(RowOf(g)),
                     !.ssm_cache_size = IF RowOf(g) \in running THEN @
                                        ELSE @ + batch[RowOf(g)].num]]
    BY DEF PrepareNextBatchBeam
<1> DEFINE active == ActiveRows(beam_bc)
           running == RunningBeamRows
           Tree(i) == StoreBeamMetadata(all_requests[beam_bc[i].guid], beam_bc[i], guesses[i])
           deeper == [i \in running |-> DeeperRow(beam_bc[i], Tree(i))]
           batch == BeamRows(deeper)
           RowOf(g) == CHOOSE i \in active : beam_bc[i].guid = g
           Size_(g) == IF RowOf(g) \in running THEN s[g].ssm_cache_size
                       ELSE s[g].ssm_cache_size + batch[RowOf(g)].num
           t == [g \in DOMAIN s |->
                   IF \A i \in active : beam_bc[i].guid # g THEN s[g]
                   ELSE [s[g] EXCEPT !.beam_tree = Tree(RowOf(g)),
                                     !.ssm_cache_size = Size_(g)]]
<1>3. beam_bc' = batch /\ all_requests' = t
    BY <1>2 DEF Guid
<1>4. Named(batch) /\ SameGuids(batch, row)
  <2>1. \A i \in running : deeper[i] = DeeperRow(beam_bc[i], Tree(i)) /\ "guid" \in DOMAIN beam_bc[i]
      BY <1>1 DEF Named, RunningBeamRows, ActiveRows
  <2> HIDE DEF deeper, Tree
  <2>2. \A i \in running : deeper[i].guid = beam_bc[i].guid /\ "guid" \in DOMAIN deeper[i]
      BY <2>1, DeeperRowNamed
  <2> QED BY <1>1, <2>2, BeamRowsKeep
<1>5. \A g \in DOMAIN s : /\ DOMAIN t[g] = RequestFields
                          /\ t[g].status # "COMPLETED" <=> s[g].status # "COMPLETED"
  <2> SUFFICES ASSUME NEW g \in DOMAIN s
               PROVE  DOMAIN t[g] = RequestFields /\ t[g].status = s[g].status
      OBVIOUS
  <2> DEFINE tree == Tree(RowOf(g))
             size == Size_(g)
             r == s[g]
  <2>1. t[g] = r \/ t[g] = [r EXCEPT !.beam_tree = tree, !.ssm_cache_size = size]
      OBVIOUS
  <2>2. DOMAIN r = RequestFields
      BY <1>1 DEF Registered
  <2> HIDE DEF t, tree, size, r
  <2>3. DOMAIN t[g] = RequestFields /\ t[g].status = r.status
      BY <2>1, <2>2 DEF RequestFields
  <2> QED BY <2>3 DEF r
<1>6. t = [g \in DOMAIN s |-> t[g]]
    OBVIOUS
<1> HIDE DEF t, batch
<1>7. Registered(t) /\ Open(t) = Open(s)
    BY <1>1, <1>5, <1>6, SameOpen
<1>8. EachOnce(batch, pending_infr_request_queue, Open(t))
    BY <1>1, <1>4, <1>7, NoneLeaves DEF SameGuids
<1>9. /\ step' \in [call : {"init", "beam", "verify", "llm"}, depth : Nat]
      /\ step'.call \in {"beam", "verify"}
  <2>1. step' = NextStep
      BY DEF PrepareNextBatchBeam
  <2>2. step' = [step EXCEPT !.depth = @ + 1] \/ step' = [call |-> "verify", depth |-> 0]
      BY <1>1, <2>1 DEF NextStep
  <2> QED BY <1>1, <2>2
<1>10. UNCHANGED pending_infr_request_queue
    BY DEF PrepareNextBatchBeam
<1> QED BY <1>3, <1>4, <1>7, <1>8, <1>9, <1>10 DEF ServingInvariant

-----------------------------------------------------------------------------
(* prepare_next_batch_verify *)

\* The loop's state.
LoopState(acc) ==
    /\ DOMAIN acc = {"bc", "request", "tree", "load", "fits"}
    /\ DOMAIN acc.bc = {"row", "tokensInfo", "commit"}

\* The loop adds the row of a request, and may load a chunk of its prompt.
RowAdded(new, acc, i) ==
    /\ LoopState(new)
    /\ \E row : /\ "guid" \in DOMAIN row /\ row.guid = beam_bc[i].guid
                /\ new.bc.row = [acc.bc.row EXCEPT ![i] = row]
Recounted(new, acc, g) ==
    \E size : new.request = [acc.request EXCEPT ![g].llm_cache_size = size]
ChunkAdded(new, acc, g) ==
    \E last, chunks :
        new.request = [acc.request EXCEPT
            ![g].status = IF last THEN "RUNNING" ELSE @, ![g].chunks = chunks]

\* The requests keep their members, and none is closed or opened.
KeepsOpen(requests) ==
    /\ requests = [g \in DOMAIN all_requests |-> requests[g]]
    /\ \A g \in DOMAIN all_requests :
          /\ DOMAIN requests[g] = RequestFields
          /\ requests[g].status # "COMPLETED" <=> all_requests[g].status # "COMPLETED"

\* The loop over the rows, after the first i of them: the rows of the tree batch
\* up to there serve what the beam rows serve, and no request was closed.
TreesRight(acc, i) ==
    /\ LoopState(acc)
    /\ Named(acc.bc.row)
    /\ \A j \in Rows : acc.bc.row[j].guid = IF j < i THEN beam_bc[j].guid ELSE 0
    /\ KeepsOpen(acc.request)

\* The loop's state when the last verified tokens of a request are committed.
WithCommit(acc, g, commit, size) ==
    [acc EXCEPT !.bc.commit = commit, !.request[g].llm_cache_size = size]

\* The members of the loop's state, then.
LEMMA CommitMembers ==
    ASSUME NEW acc, NEW g, NEW commit, NEW size, LoopState(acc)
    PROVE  /\ LoopState(WithCommit(acc, g, commit, size))
           /\ WithCommit(acc, g, commit, size).bc.row = acc.bc.row
           /\ Recounted(WithCommit(acc, g, commit, size), acc, g)
<1> DEFINE new == WithCommit(acc, g, commit, size)
<1>1. /\ LoopState(new) /\ new.bc.row = acc.bc.row
      /\ new.request = [acc.request EXCEPT ![g].llm_cache_size = size]
    BY DEF LoopState, WithCommit
<1> HIDE DEF new
<1>2. Recounted(new, acc, g)
    BY <1>1 DEF Recounted
<1> QED BY <1>1, <1>2 DEF new

\* One row more.
LEMMA RowMore ==
    ASSUME NEW acc, NEW i \in Rows, TreesRight(acc, i), NEW new,
           RowAdded(new, acc, i), KeepsOpen(new.request)
    PROVE  TreesRight(new, i + 1)
<1>0. PICK row : /\ "guid" \in DOMAIN row /\ row.guid = beam_bc[i].guid
                 /\ new.bc.row = [acc.bc.row EXCEPT ![i] = row]
    BY DEF RowAdded
<1>1. /\ LoopState(acc) /\ Named(acc.bc.row)
      /\ \A j \in Rows : acc.bc.row[j].guid = IF j < i THEN beam_bc[j].guid ELSE 0
    BY DEF TreesRight
<1> DEFINE after == new.bc.row
<1>2. DOMAIN after = Rows /\ after[i] = row /\ \A j \in Rows : j # i => after[j] = acc.bc.row[j]
    BY <1>0, <1>1 DEF Named
<1> HIDE DEF after
<1>3. Named(after)
    BY <1>0, <1>1, <1>2 DEF Named
<1>4. Rows \subseteq Int
    BY SpecAssumption DEF SpecAssumption, Rows
<1>5. \A j \in Rows : after[j].guid = IF j < i + 1 THEN beam_bc[j].guid ELSE 0
  <2> SUFFICES ASSUME NEW j \in Rows
               PROVE  after[j].guid = IF j < i + 1 THEN beam_bc[j].guid ELSE 0
      OBVIOUS
  <2>1. j \in Int /\ i \in Int
      BY <1>4
  <2>2. CASE j = i
    <3>1. j < i + 1
        BY <2>1, <2>2
    <3> QED BY <1>0, <1>2, <2>2, <3>1
  <2>3. CASE j # i
    <3>1. j < i + 1 <=> j < i
        BY <2>1, <2>3
    <3> QED BY <1>1, <1>2, <2>3, <3>1
  <2> QED BY <2>2, <2>3
<1> QED BY <1>1, <1>3, <1>5 DEF TreesRight, RowAdded, after

\* A tree adds its row.
LEMMA AddTreeMembers ==
    ASSUME NEW acc, NEW i, NEW nodes, LoopState(acc)
    PROVE  LET new == AddTree(acc, i, nodes)
           IN  RowAdded(new, acc, i) /\ new.request = acc.request
<1> DEFINE g == beam_bc[i].guid
           sent == SentNodes(nodes, Len(acc.bc.tokensInfo))
           row == [guid |-> g, running |-> TRUE, first_depth |-> nodes[1].depth,
                   offset |-> Len(acc.bc.tokensInfo), num |-> Len(sent),
                   prompt_phase |-> FALSE, causalMask |-> beam_bc[i].causalMask]
           new == AddTree(acc, i, nodes)
           info == acc.bc.tokensInfo \o Slotted(sent, i)
           tree == [acc.tree EXCEPT ![g] = nodes]
           fits == acc.fits /\ Len(acc.bc.tokensInfo) < MaxVerifyTokens
<1>1. \E k : new = [bc |-> [acc.bc EXCEPT !.row[i] = row, !.tokensInfo = k],
                    request |-> acc.request, tree |-> tree, load |-> acc.load, fits |-> fits]
    BY DEF AddTree
<1>2. row.guid = g /\ "guid" \in DOMAIN row
    OBVIOUS
<1> HIDE DEF g, row, new, tree, fits
<1>3. PICK k : new = [bc |-> [acc.bc EXCEPT !.row[i] = row, !.tokensInfo = k],
                      request |-> acc.request, tree |-> tree, load |-> acc.load, fits |-> fits]
    BY <1>1
<1>4. LoopState(new) /\ new.request = acc.request /\ new.bc.row = [acc.bc.row EXCEPT ![i] = row]
    BY <1>3 DEF LoopState
<1> QED BY <1>2, <1>4 DEF RowAdded, g, new

\* A chunk of a prompt adds its row; its request runs, or is what it was.
LEMMA AddPromptMembers ==
    ASSUME NEW acc, NEW i, NEW r, LoopState(acc)
    PROVE  LET new == AddPrompt(acc, i, r)
               g == beam_bc[i].guid
           IN  RowAdded(new, acc, i) /\ ChunkAdded(new, acc, g)
<1> DEFINE g == beam_bc[i].guid
           cached == r.llm_cache_size
           num == Minimum(acc.load, r.initial_len - cached)
           last == num + cached >= r.initial_len
           row == [guid |-> g, running |-> last, first_depth |-> cached,
                   offset |-> Len(acc.bc.tokensInfo), num |-> num,
                   prompt_phase |-> last, causalMask |-> beam_bc[i].causalMask]
           new == AddPrompt(acc, i, r)
           tree == [acc.tree EXCEPT
                ![g] = IF last THEN << Node(RootToken(r), Size(r) - 1) >> ELSE @]
           fits == acc.fits /\ Len(acc.bc.tokensInfo) + num <= MaxVerifyTokens
           load == acc.load - num
           request == [acc.request EXCEPT ![g].status = IF last THEN "RUNNING" ELSE @,
                                          ![g].chunks = IF num > 0 THEN @ + 1 ELSE @]
<1>1. \E k : new = [bc |-> [acc.bc EXCEPT !.row[i] = row, !.tokensInfo = k],
                    request |-> request, tree |-> tree, load |-> load, fits |-> fits]
    BY DEF AddPrompt
<1>2. row.guid = g /\ "guid" \in DOMAIN row
    OBVIOUS
<1>3. \E chunks : request = [acc.request EXCEPT ![g].status = IF last THEN "RUNNING" ELSE @,
                                                ![g].chunks = chunks]
    OBVIOUS
<1> HIDE DEF g, row, new, tree, fits, load, request, last
<1>4. PICK k : new = [bc |-> [acc.bc EXCEPT !.row[i] = row, !.tokensInfo = k],
                      request |-> request, tree |-> tree, load |-> load, fits |-> fits]
    BY <1>1
<1>5. LoopState(new) /\ new.request = request /\ new.bc.row = [acc.bc.row EXCEPT ![i] = row]
    BY <1>4 DEF LoopState
<1> QED BY <1>2, <1>3, <1>5 DEF RowAdded, ChunkAdded, g, new

\* The count of cached tokens opens and closes no request.
LEMMA CacheSizeKeepsOpen ==
    ASSUME NEW acc, KeepsOpen(acc.request), NEW g \in Open(all_requests),
           NEW new, Recounted(new, acc, g)
    PROVE  KeepsOpen(new.request)
<1> PICK size : new.request = [acc.request EXCEPT ![g].llm_cache_size = size]
    BY DEF Recounted
<1> DEFINE q == acc.request
           t == [q EXCEPT ![g].llm_cache_size = size]
<1>1. /\ q = [e \in DOMAIN all_requests |-> q[e]] /\ g \in DOMAIN all_requests
      /\ DOMAIN q[g] = RequestFields
    BY DEF KeepsOpen, Open
<1>2. /\ t = [e \in DOMAIN all_requests |-> t[e]]
      /\ \A e \in DOMAIN all_requests : e # g => t[e] = q[e]
      /\ DOMAIN t[g] = RequestFields /\ t[g].status = q[g].status
    BY <1>1 DEF RequestFields
<1> HIDE DEF t
<1>3. \A e \in DOMAIN all_requests :
         DOMAIN t[e] = RequestFields
         /\ (t[e].status # "COMPLETED" <=> all_requests[e].status # "COMPLETED")
    BY <1>2 DEF KeepsOpen
<1>4. KeepsOpen(t)
    BY <1>2, <1>3 DEF KeepsOpen
<1> QED BY <1>4 DEF t

\* Nor does loading a chunk of its prompt.
LEMMA ChunkKeepsOpen ==
    ASSUME NEW acc, KeepsOpen(acc.request), NEW g \in Open(all_requests),
           NEW new, ChunkAdded(new, acc, g)
    PROVE  KeepsOpen(new.request)
<1> PICK last, chunks :
       new.request = [acc.request EXCEPT ![g].status = IF last THEN "RUNNING" ELSE @,
                                         ![g].chunks = chunks]
    BY DEF ChunkAdded
<1> DEFINE q == acc.request
           status == IF last THEN "RUNNING" ELSE q[g].status
           t == [q EXCEPT ![g].status = status, ![g].chunks = chunks]
<1>1. /\ q = [e \in DOMAIN all_requests |-> q[e]] /\ g \in DOMAIN all_requests
      /\ DOMAIN q[g] = RequestFields /\ q[g].status # "COMPLETED"
    BY DEF KeepsOpen, Open
<1>2. status # "COMPLETED"
    BY <1>1
<1> HIDE DEF status
<1>3. /\ t = [e \in DOMAIN all_requests |-> t[e]]
      /\ \A e \in DOMAIN all_requests : e # g => t[e] = q[e]
      /\ DOMAIN t[g] = RequestFields /\ t[g].status = status
    BY <1>1 DEF RequestFields
<1> HIDE DEF t
<1>4. \A e \in DOMAIN all_requests :
         DOMAIN t[e] = RequestFields
         /\ (t[e].status # "COMPLETED" <=> all_requests[e].status # "COMPLETED")
    BY <1>2, <1>3 DEF KeepsOpen, Open
<1>5. KeepsOpen(t)
    BY <1>3, <1>4 DEF KeepsOpen
<1> QED BY <1>5 DEF t, status

\* What a row adds to the loop.
LEMMA VerifyRowKeeps ==
    ASSUME NEW acc, NEW i \in Rows, TreesRight(acc, i), Registered(all_requests),
           EachOnce(beam_bc, pending_infr_request_queue, Open(all_requests))
    PROVE  TreesRight(VerifyRow(acc, i), i + 1)
<1> DEFINE g == beam_bc[i].guid
<1>1. CASE g = 0
  <2>1. VerifyRow(acc, i) = acc
      BY <1>1 DEF VerifyRow
  <2>2. Rows \subseteq Int
      BY SpecAssumption DEF SpecAssumption, Rows
  <2>3. \A j \in Rows : acc.bc.row[j].guid = IF j < i + 1 THEN beam_bc[j].guid ELSE 0
    <3> SUFFICES ASSUME NEW j \in Rows
                 PROVE  acc.bc.row[j].guid = IF j < i + 1 THEN beam_bc[j].guid ELSE 0
        OBVIOUS
    <3>1. j \in Int /\ i \in Int
        BY <2>2
    <3>2. j < i + 1 <=> j < i \/ j = i
        BY <3>1
    <3> QED BY <1>1, <3>2 DEF TreesRight
  <2> QED BY <2>1, <2>3 DEF TreesRight
<1>2. CASE g # 0
  <2>1. g \in Open(all_requests)
      BY <1>2 DEF EachOnce
  <2> DEFINE commit == acc.bc.commit \o CommitsOf(g, i)
             size == [acc EXCEPT !.bc.commit = commit].request[g].llm_cache_size
                        + Len(committed_tokens[g])
             mid == WithCommit(acc, g, commit, size)
             nodes == TraverseBeamTree(acc.request[g], beam_bc[i].max_depth)
  <2>2. VerifyRow(acc, i) \in {AddTree(mid, i, nodes), AddPrompt(mid, i, mid.request[g])}
      BY <1>2 DEF VerifyRow, WithCommit
  <2> HIDE DEF commit, size, nodes, g
  <2>3. LoopState(acc) /\ KeepsOpen(acc.request)
      BY DEF TreesRight
  <2>4. mid.bc.row = acc.bc.row /\ LoopState(mid) /\ Recounted(mid, acc, g)
      BY <2>3, CommitMembers
  <2> HIDE DEF mid
  <2>5. KeepsOpen(mid.request)
      BY <2>1, <2>3, <2>4, CacheSizeKeepsOpen
  <2>6. \A new : RowAdded(new, mid, i) => RowAdded(new, acc, i)
      BY <2>4 DEF RowAdded
  <2>7. CASE VerifyRow(acc, i) = AddTree(mid, i, nodes)
    <3> DEFINE new == AddTree(mid, i, nodes)
    <3>1. RowAdded(new, mid, i) /\ new.request = mid.request
        BY <2>4, AddTreeMembers
    <3> HIDE DEF new
    <3>2. RowAdded(new, acc, i) /\ KeepsOpen(new.request)
        BY <2>5, <2>6, <3>1
    <3>3. TreesRight(new, i + 1)
        BY <3>2, RowMore
    <3> QED BY <2>7, <3>3 DEF new
  <2>8. CASE VerifyRow(acc, i) = AddPrompt(mid, i, mid.request[g])
    <3> DEFINE r == mid.request[g]
               new == AddPrompt(mid, i, r)
    <3>1. RowAdded(new, mid, i) /\ ChunkAdded(new, mid, g)
      <4>1. LoopState(mid)
          BY <2>4
      <4> HIDE DEF r
      <4> QED BY <4>1, AddPromptMembers, Zenon DEF g
    <3> HIDE DEF new
    <3>2. RowAdded(new, acc, i) /\ KeepsOpen(new.request)
        BY <2>1, <2>5, <2>6, <3>1, ChunkKeepsOpen
    <3>3. TreesRight(new, i + 1)
        BY <3>2, RowMore
    <3> QED BY <2>8, <3>3 DEF new
  <2> QED BY <2>2, <2>7, <2>8
<1> QED BY <1>1, <1>2

\* No row is in the tree batch before the loop.
LEMMA NoTreesRight ==
    ASSUME Registered(all_requests) PROVE TreesRight(NoTreesMade, 0)
<1>1. MaxRequests \in Nat
    BY SpecAssumption DEF SpecAssumption
<1>2. LoopState(NoTreesMade)
    BY DEF LoopState, NoTreesMade, NoTreeBatch
<1>3. /\ NoTreesMade.bc.row = [i \in Rows |-> NoTreeRow]
      /\ NoTreeRow.guid = 0 /\ "guid" \in DOMAIN NoTreeRow
    BY DEF NoTreesMade, NoTreeBatch, NoTreeRow
<1>4. Named(NoTreesMade.bc.row)
    BY <1>3 DEF Named
<1>5. \A j \in Rows : ~(j < 0)
    BY <1>1 DEF Rows
<1>6. \A j \in Rows : NoTreesMade.bc.row[j].guid = IF j < 0 THEN beam_bc[j].guid ELSE 0
    BY <1>3, <1>5
<1>7. KeepsOpen(NoTreesMade.request)
  <2>1. NoTreesMade.request = all_requests
      BY DEF NoTreesMade
  <2>2. PICK S : all_requests \in Seq(S)
      BY DEF Registered
  <2>3. all_requests = [g \in DOMAIN all_requests |-> all_requests[g]]
      BY <2>2
  <2>4. \A g \in DOMAIN all_requests : DOMAIN all_requests[g] = RequestFields
      BY DEF Registered
  <2> QED BY <2>1, <2>3, <2>4 DEF KeepsOpen
<1> QED BY <1>2, <1>4, <1>6, <1>7 DEF TreesRight

\* The tree batch of all rows serves what the beam batch serves.
LEMMA MadeTreesKeep ==
    ASSUME Registered(all_requests),
           EachOnce(beam_bc, pending_infr_request_queue, Open(all_requests))
    PROVE  TreesRight(MadeTrees, MaxRequests)
<1> PICK h : /\ h[0] = NoTreesMade
             /\ \A i \in Rows : h[i + 1] = VerifyRow(h[i], i)
             /\ MadeTrees = h[MaxRequests]
    BY MadeTreesUpto
<1> DEFINE Right(n) == TreesRight(h[n], n)
           T == {n \in Nat : n <= MaxRequests => Right(n)}
<1>1. MaxRequests \in Nat
    BY SpecAssumption DEF SpecAssumption
<1>2. Right(0)
    BY NoTreesRight
<1>3. \A i \in Rows : Right(i) => Right(i + 1)
    BY VerifyRowKeeps
<1> HIDE DEF Right
<1>4. 0 \in T
    BY <1>2
<1>5. ASSUME NEW n \in Nat, n \in T PROVE n + 1 \in T
  <2>1. n + 1 <= MaxRequests => n \in Rows /\ n <= MaxRequests
      BY <1>1 DEF Rows
  <2> QED BY <1>3, <1>5, <2>1
<1>6. MaxRequests \in T
  <2> HIDE DEF T
  <2> QED BY <1>1, <1>4, <1>5, SetInduction
<1>7. Right(MaxRequests)
    BY <1>1, <1>6
<1> QED BY <1>7 DEF Right

\* Verification takes the rows over into the tree batch.
LEMMA VerifyStepServes ==
    ASSUME ServingInvariant, PrepareNextBatchVerify PROVE ServingInvariant'
<1> DEFINE s == all_requests
           t == MadeTrees.request
           row == MadeTrees.bc.row
<1>1. /\ Registered(s) /\ step.call = "verify"
      /\ EachOnce(beam_bc, pending_infr_request_queue, Open(s))
    BY DEF ServingInvariant, PrepareNextBatchVerify
<1>2. /\ tree_bc' = MadeTrees.bc /\ all_requests' = t /\ step' = NextStep
      /\ UNCHANGED pending_infr_request_queue
    BY DEF PrepareNextBatchVerify
<1>3. step' = [call |-> "llm", depth |-> 0]
    BY <1>1, <1>2 DEF NextStep
<1>4. TreesRight(MadeTrees, MaxRequests)
    BY <1>1, MadeTreesKeep
<1>5. \A j \in Rows : row[j].guid = beam_bc[j].guid
  <2>1. \A j \in Rows : j < MaxRequests
      BY SpecAssumption DEF SpecAssumption, Rows
  <2> QED BY <1>4, <2>1 DEF TreesRight
<1>6. Named(row) /\ KeepsOpen(t)
    BY <1>4 DEF TreesRight
<1> HIDE DEF row, t
<1>7. Registered(t) /\ Open(t) = Open(s)
    BY <1>1, <1>6, SameOpen DEF KeepsOpen
<1>8. EachOnce(row, pending_infr_request_queue, Open(t))
    BY <1>1, <1>5, <1>7, NoneLeaves
<1> QED BY <1>2, <1>3, <1>6, <1>7, <1>8 DEF ServingInvariant, row

\* The large model changes neither the batch nor the requests.
LEMMA InferenceServes ==
    ASSUME ServingInvariant, LLMInference PROVE ServingInvariant'
<1>1. /\ UNCHANGED << all_requests, pending_infr_request_queue, tree_bc >>
      /\ step' = NextStep /\ step.call = "llm"
    BY DEF LLMInference, requestVars
<1>2. step' = [call |-> "init", depth |-> 0]
    BY <1>1 DEF NextStep
<1> QED BY <1>1, <1>2 DEF ServingInvariant

\* In every reachable state each request that is not complete is in the queue or
\* in one row of the batch that the next call takes over.
THEOREM RequestsAreServed == Spec => []ServingInvariant
<1>1. Init => ServingInvariant
    BY InitServes
<1>2. ServingInvariant /\ [Next]_vars => ServingInvariant'
  <2> SUFFICES ASSUME ServingInvariant, [Next]_vars PROVE ServingInvariant'
      OBVIOUS
  <2>1. CASE RegisterNewRequest
      BY <2>1, RegisterServes
  <2>2. CASE PrepareNextBatchInit
      BY <2>2, InitStepServes
  <2>3. CASE PrepareNextBatchBeam
      BY <2>3, BeamStepServes
  <2>4. CASE PrepareNextBatchVerify
      BY <2>4, VerifyStepServes
  <2>5. CASE LLMInference
      BY <2>5, InferenceServes
  <2>6. CASE UNCHANGED vars
      BY <2>6 DEF vars, requestVars, ServingInvariant
  <2> QED BY <2>1, <2>2, <2>3, <2>4, <2>5, <2>6 DEF Next, Serve
<1> QED BY <1>1, <1>2, PTL DEF Spec

-----------------------------------------------------------------------------
(* ServedOnce *)

\* What a finite set is numbered with, without repetition, has as many members.
LEMMA Numbered ==
    ASSUME NEW S, IsFiniteSet(S), NEW f, \A x, y \in S : f[x] = f[y] => x = y
    PROVE  /\ IsFiniteSet({f[x] : x \in S})
           /\ Cardinality({f[x] : x \in S}) = Cardinality(S)
<1> DEFINE T == {f[x] : x \in S}
           g == [x \in S |-> f[x]]
<1>1. g \in Bijection(S, T)
  <2>1. g \in [S -> T] /\ (\A x, y \in S : g[x] = g[y] => x = y)
        /\ \A v \in T : \E x \in S : g[x] = v
      OBVIOUS
  <2> HIDE DEF g, T
  <2> QED BY <2>1 DEF Bijection, Injection, Surjection, IsInjective
<1>2. ExistsBijection(S, T)
    BY <1>1 DEF ExistsBijection
<1> QED BY <1>2, FS_Bijection

\* When the rows and the queue hold the requests that are open, each once, there
\* are as many of them.
LEMMA AsManyAsOpen ==
    ASSUME NEW row, NEW queue, NEW open, EachOnce(row, queue, open)
    PROVE  LET inRow == {i \in Rows : row[i].guid # 0}
           IN  /\ ToSet(queue) \cup {row[i].guid : i \in inRow} = open
               /\ Len(queue) + Cardinality(inRow) = Cardinality(open)
<1> DEFINE inRow == {i \in Rows : row[i].guid # 0}
           Q == {queue[k] : k \in DOMAIN queue}
           R == {row[i].guid : i \in inRow}
<1>1. /\ queue \in Seq(Nat \ {0})
      /\ \A i, j \in Rows : row[i].guid # 0 /\ row[i].guid = row[j].guid => i = j
      /\ \A j, k \in DOMAIN queue : queue[j] = queue[k] => j = k
      /\ \A i \in Rows, k \in DOMAIN queue : row[i].guid # queue[k]
      /\ \A g : g \in open <=> \/ g # 0 /\ \E i \in Rows : row[i].guid = g
                               \/ \E k \in DOMAIN queue : queue[k] = g
    BY DEF EachOnce
<1>2. DOMAIN queue = 1 .. Len(queue) /\ Len(queue) \in Nat
    BY <1>1
<1>3. IsFiniteSet(DOMAIN queue) /\ Cardinality(DOMAIN queue) = Len(queue)
  <2> DEFINE n == Len(queue)
  <2>1. n \in Nat /\ DOMAIN queue = 1 .. n
      BY <1>2
  <2> HIDE DEF n
  <2>2. n \in Int /\ (IF 1 > n THEN 0 ELSE n - 1 + 1) = n
      BY <2>1
  <2>3. IsFiniteSet(1 .. n) /\ Cardinality(1 .. n) = IF 1 > n THEN 0 ELSE n - 1 + 1
      BY <2>2, FS_Interval
  <2>4. IsFiniteSet(DOMAIN queue) /\ Cardinality(DOMAIN queue) = n
      BY <2>1, <2>2, <2>3
  <2> QED BY <2>4 DEF n
<1>4. IsFiniteSet(Q) /\ Cardinality(Q) = Len(queue)
    BY <1>1, <1>3, Numbered
<1>5. IsFiniteSet(inRow) /\ Cardinality(inRow) \in Nat
  <2>1. IsFiniteSet(Rows)
      BY FS_Interval, SpecAssumption DEF SpecAssumption, Rows
  <2> QED BY <2>1, FS_Subset, FS_CardinalityType
<1>6. IsFiniteSet(R) /\ Cardinality(R) = Cardinality(inRow)
  <2> DEFINE f == [i \in Rows |-> row[i].guid]
  <2>1. \A i, j \in inRow : f[i] = f[j] => i = j
      BY <1>1
  <2>2. R = {f[i] : i \in inRow}
      OBVIOUS
  <2> HIDE DEF f, R, inRow
  <2> QED BY <1>5, <2>1, <2>2, Numbered
<1>7. Q \cap R = {}
    BY <1>1
<1>8. Q \cup R = open
    BY <1>1
<1>9. ToSet(queue) = Q
    BY DEF ToSet
<1> HIDE DEF Q, R, inRow
<1>10. Cardinality(Q \cup R) = Cardinality(Q) + Cardinality(R) - Cardinality(Q \cap R)
    BY <1>4, <1>6, FS_Union
<1>11. Cardinality(Q \cap R) = 0
    BY <1>7, FS_EmptySet
<1>12. Len(queue) + Cardinality(inRow) = Cardinality(open)
  <2> DEFINE n == Len(queue)
             c == Cardinality(inRow)
             o == Cardinality(open)
  <2>1. n \in Nat /\ c \in Nat
      BY <1>2, <1>5
  <2>2. o = n + c - 0
      BY <1>4, <1>6, <1>8, <1>10, <1>11, Zenon
  <2> HIDE DEF n, c, o
  <2>3. n + c = o
      BY <2>1, <2>2
  <2> QED BY <2>3 DEF n, c, o
<1> QED BY <1>8, <1>9, <1>12 DEF inRow, R

\* Between two iterations each unfinished request is in the queue or in a row,
\* once, and no other is: the rows that init, beam and verify build one after the
\* other, each from those of the call before, lose no request and serve none twice.
THEOREM EachServedOnce == Spec => []ServedOnce
<1>1. ServingInvariant => ServedOnce
  <2> SUFFICES ASSUME ServingInvariant, step.call = "init" PROVE ServedOnce
      BY DEF ServedOnce
  <2>1. EachOnce(tree_bc.row, pending_infr_request_queue, Open(all_requests))
      BY DEF ServingInvariant
  <2> DEFINE row == tree_bc.row
             queue == pending_infr_request_queue
             open == Open(all_requests)
             inRow == {i \in Rows : row[i].guid # 0}
  <2>2. /\ ToSet(queue) \cup {row[i].guid : i \in inRow} = open
        /\ Len(queue) + Cardinality(inRow) = Cardinality(open)
    <3> HIDE DEF row, queue, open
    <3>1. EachOnce(row, queue, open)
        BY <2>1 DEF row, queue, open
    <3> QED BY <3>1, AsManyAsOpen
  <2> QED BY <2>2 DEF ServedOnce, ActiveRows, Open, Guid
<1> QED BY <1>1, RequestsAreServed, PTL

-----------------------------------------------------------------------------
(* BeamStagesAgree *)

\* The trees branch at their root only: the hypothesis of BeamStagesAlwaysAgree.
BranchesAtRoot == \A s \in Setups : \A k \in 2 .. Len(s.width) : s.width[k] = 1

\* What every row that serves a request asks of the small model, w tokens per
\* branch, whether it grows a tree or loads a prompt.
AsksFor(row, w) ==
    /\ {"guid", "current_depth", "beam_size"} \subseteq DOMAIN row
    /\ row.guid # 0 => row.current_depth \in Nat \ {0} /\ row.beam_size = w
StageWidth(depth) == IF depth = 0 THEN Width(0) ELSE 1
RowsAsk(rows, w) == DOMAIN rows = Rows /\ \A i \in Rows : AsksFor(rows[i], w)

StageInvariant ==
    /\ setup \in Setups
    /\ step.call = "beam" => step.depth \in Nat /\ RowsAsk(beam_bc, StageWidth(step.depth))

\* The rows that init builds, one by one: all are at the root.
LEMMA InitRowsAsk ==
    ASSUME NEW verification
    PROVE  RowsAsk(Admitted(verification).row, Width(0))
<1>1. PICK h : /\ h[0] = CarriedBatch(verification)
               /\ \A i \in Rows : h[i + 1] = Admit(h[i], i)
               /\ Admitted(verification) = h[MaxRequests]
    BY AdmittedUpto
<1>2. MaxRequests \in Nat
    BY SpecAssumption DEF SpecAssumption
<1> DEFINE T == {n \in Nat : n <= MaxRequests => RowsAsk(h[n].row, Width(0))}
<1>3. 0 \in T
  <2>1. ASSUME NEW i \in Rows PROVE AsksFor(CarriedRow(verification, i), Width(0))
    <3>1. AsksFor(NoBeamRow, Width(0))
        BY DEF AsksFor, NoBeamRow
    <3>2. \A g, v : AsksFor(RunningBeamRow(g, v), Width(0))
        BY DEF AsksFor, RunningBeamRow
    <3>3. \A g : AsksFor(LoadingBeamRow(g), Width(0))
        BY DEF AsksFor, LoadingBeamRow, NoBeamRow
    <3> QED BY <3>1, <3>2, <3>3 DEF CarriedRow
  <2>2. CarriedBatch(verification).row = [i \in Rows |-> CarriedRow(verification, i)]
      BY DEF CarriedBatch
  <2> QED BY <1>1, <2>1, <2>2 DEF RowsAsk
<1>4. ASSUME NEW n \in Nat, n \in T PROVE n + 1 \in T
  <2> SUFFICES ASSUME n + 1 <= MaxRequests PROVE RowsAsk(h[n + 1].row, Width(0))
      OBVIOUS
  <2>1. n \in Rows /\ RowsAsk(h[n].row, Width(0)) /\ h[n + 1] = Admit(h[n], n)
      BY <1>1, <1>2, <1>4 DEF Rows
  <2>2. \A g, num : AsksFor(NewBeamRow(g, num), Width(0))
      BY DEF AsksFor, NewBeamRow, NoBeamRow
  <2>3. \/ h[n + 1] = h[n]
        \/ \E g, num : h[n + 1].row = [h[n].row EXCEPT ![n] = NewBeamRow(g, num)]
      BY <2>1 DEF Admit
  <2>4. ASSUME NEW row, AsksFor(row, Width(0)),
               h[n + 1].row = [h[n].row EXCEPT ![n] = row]
        PROVE  RowsAsk(h[n + 1].row, Width(0))
      BY <2>1, <2>4 DEF RowsAsk
  <2> QED BY <2>1, <2>2, <2>3, <2>4
<1>5. MaxRequests \in T
  <2> HIDE DEF T
  <2> QED BY <1>2, <1>3, <1>4, SetInduction
<1> QED BY <1>1, <1>2, <1>5

\* One layer below, a tree that branches at its root asks for one token per node,
\* as a prompt does.
LEMMA DeeperRowAsks ==
    ASSUME BranchesAtRoot, setup \in Setups, NEW w, NEW row, AsksFor(row, w), row.guid # 0,
           NEW layers
    PROVE  AsksFor(DeeperRow(row, layers), 1)
<1> DEFINE d == row.current_depth
<1>1. d \in Nat \ {0} /\ {"guid", "current_depth", "beam_size"} \subseteq DOMAIN row
    BY DEF AsksFor
<1>2. Width(d) = 1
  <2>1. setup.width \in Seq(1 .. MaxBranches)
      BY SpecAssumption DEF SpecAssumption
  <2>2. CASE d < Len(setup.width)
    <3>1. d + 1 \in 2 .. Len(setup.width)
        BY <1>1, <2>1, <2>2
    <3>2. setup.width[d + 1] = 1
        BY <3>1 DEF BranchesAtRoot
    <3> QED BY <2>2, <3>2 DEF Width
  <2>3. CASE ~(d < Len(setup.width))
      BY <2>3 DEF Width
  <2> QED BY <2>2, <2>3
<1> DEFINE new == DeeperRow(row, layers)
<1>3. DOMAIN new = DOMAIN row /\ new.current_depth = d + 1 /\ new.beam_size = Width(d)
    BY <1>1 DEF DeeperRow
<1> HIDE DEF new, d
<1>4. d + 1 \in Nat \ {0}
    BY <1>1
<1> QED BY <1>1, <1>2, <1>3, <1>4 DEF AsksFor, new

LEMMA PromptRowAsks ==
    ASSUME NEW w, NEW row, AsksFor(row, w), row.guid # 0, NEW i, NEW n
    PROVE  AsksFor(PromptRow(row, i, n), 1)
<1> DEFINE new == PromptRow(row, i, n)
<1>1. /\ row.current_depth \in Nat \ {0}
      /\ {"guid", "current_depth", "beam_size"} \subseteq DOMAIN row
    BY DEF AsksFor
<1>2. DOMAIN new = DOMAIN row /\ new.current_depth = row.current_depth /\ new.beam_size = 1
    BY <1>1 DEF PromptRow
<1> HIDE DEF new
<1> QED BY <1>1, <1>2 DEF AsksFor, new

\* The rows of a beam batch, one by one: those before i and those that speculate are
\* one layer deeper, the prompts from i on are as they were.
LEMMA BeamRowsAsk ==
    ASSUME NEW deeper, NEW w, RowsAsk(beam_bc, w),
           \A i \in RunningBeamRows : AsksFor(deeper[i], 1)
    PROVE  RowsAsk(BeamRows(deeper), 1)
<1>1. PICK h : /\ h[0] = BegunBatch(deeper)
               /\ \A i \in Rows : h[i + 1] = AddPromptRow(h[i], i)
               /\ BeamRows(deeper) = h[MaxRequests].row
    BY BeamRowsUpto
<1>2. MaxRequests \in Nat
    BY SpecAssumption DEF SpecAssumption
<1> DEFINE Prompts == ActiveRows(beam_bc) \ RunningBeamRows
           Upto(n) == /\ DOMAIN h[n].row = Rows
                      /\ \A i \in Rows : i < n \/ i \notin Prompts => AsksFor(h[n].row[i], 1)
           T == {n \in Nat : n <= MaxRequests => Upto(n)}
<1>3. 0 \in T
  <2>1. h[0].row = [i \in Rows |-> IF i \in RunningBeamRows THEN deeper[i] ELSE beam_bc[i]]
      BY <1>1 DEF BegunBatch
  <2>2. ASSUME NEW i \in Rows, i \notin ActiveRows(beam_bc) PROVE AsksFor(beam_bc[i], 1)
      BY <2>2 DEF RowsAsk, AsksFor, ActiveRows
  <2>3. \A i \in Rows : ~(i < 0)
      BY DEF Rows
  <2> QED BY <2>1, <2>2, <2>3
<1>4. ASSUME NEW n \in Nat, n \in T PROVE n + 1 \in T
  <2> SUFFICES ASSUME n + 1 <= MaxRequests PROVE Upto(n + 1)
      OBVIOUS
  <2>1. n \in Rows /\ Upto(n) /\ h[n + 1] = AddPromptRow(h[n], n)
      BY <1>1, <1>2, <1>4 DEF Rows
  <2>2. \A i \in Rows : i < n + 1 <=> i < n \/ i = n
      BY <2>1 DEF Rows
  <2>3. CASE n \notin Prompts
    <3>1. h[n + 1] = h[n]
        BY <2>1, <2>3 DEF AddPromptRow
    <3> QED BY <2>1, <2>2, <2>3, <3>1
  <2>4. CASE n \in Prompts
    <3> DEFINE row == PromptRow(beam_bc[n], n, h[n].num_tokens)
    <3>1. h[n + 1].row = [h[n].row EXCEPT ![n] = row]
        BY <2>1, <2>4 DEF AddPromptRow
    <3>2. AsksFor(row, 1)
      <4>1. AsksFor(beam_bc[n], w) /\ beam_bc[n].guid # 0
          BY <2>1, <2>4 DEF RowsAsk, ActiveRows
      <4> QED BY <4>1, PromptRowAsks
    <3> HIDE DEF row
    <3> QED BY <2>1, <2>2, <3>1, <3>2
  <2> QED BY <2>3, <2>4
<1>5. MaxRequests \in T
  <2> HIDE DEF T
  <2> QED BY <1>2, <1>3, <1>4, SetInduction
<1>6. \A i \in Rows : i < MaxRequests
    BY <1>2 DEF Rows
<1> QED BY <1>1, <1>2, <1>5, <1>6 DEF RowsAsk

\* A layer of the trees.
LEMMA BeamStepStages ==
    ASSUME BranchesAtRoot, StageInvariant, PrepareNextBatchBeam
    PROVE  StageInvariant'
<1>1. /\ setup \in Setups /\ step.call = "beam" /\ step.depth \in Nat
      /\ RowsAsk(beam_bc, StageWidth(step.depth)) /\ setup' = setup /\ step' = NextStep
    BY DEF StageInvariant, PrepareNextBatchBeam
<1>2. PICK guesses \in Guesses :
        LET Tree(i) == StoreBeamMetadata(all_requests[beam_bc[i].guid], beam_bc[i], guesses[i])
        IN  beam_bc' = BeamRows([i \in RunningBeamRows |-> DeeperRow(beam_bc[i], Tree(i))])
    BY DEF PrepareNextBatchBeam
<1> DEFINE Tree(i) == StoreBeamMetadata(all_requests[beam_bc[i].guid], beam_bc[i], guesses[i])
           deeper == [i \in RunningBeamRows |-> DeeperRow(beam_bc[i], Tree(i))]
<1>3. \A i \in RunningBeamRows : AsksFor(deeper[i], 1)
  <2> SUFFICES ASSUME NEW i \in RunningBeamRows PROVE AsksFor(deeper[i], 1)
      OBVIOUS
  <2>1. AsksFor(beam_bc[i], StageWidth(step.depth)) /\ beam_bc[i].guid # 0
      BY <1>1 DEF RowsAsk, RunningBeamRows, ActiveRows
  <2>2. deeper[i] = DeeperRow(beam_bc[i], Tree(i))
      OBVIOUS
  <2> HIDE DEF deeper, Tree
  <2> QED BY <1>1, <2>1, <2>2, DeeperRowAsks
<1>4. RowsAsk(beam_bc', 1)
  <2>1. beam_bc' = BeamRows(deeper)
      BY <1>2
  <2> HIDE DEF deeper
  <2> QED BY <1>1, <1>3, <2>1, BeamRowsAsk
<1>5. step'.call = "beam" => step'.depth \in Nat /\ step'.depth # 0
  <2>1. step' = [step EXCEPT !.depth = @ + 1] \/ step' = [call |-> "verify", depth |-> 0]
      BY <1>1 DEF NextStep
  <2>2. CASE step' = [step EXCEPT !.depth = @ + 1]
    <3>1. step'.call = "beam" => step'.depth = step.depth + 1 \/ step'.depth = step.depth
        BY <2>2
    <3> QED BY <1>1, <2>2, <3>1
  <2> QED BY <2>1, <2>2
<1>6. step'.call = "beam" => StageWidth(step.depth)' = 1
    BY <1>5 DEF StageWidth
<1>7. RowsAsk(beam_bc, 1)'
    BY <1>4 DEF RowsAsk, AsksFor, Rows
<1> QED BY <1>1, <1>5, <1>6, <1>7 DEF StageInvariant, RowsAsk, AsksFor, Rows

\* The kernel that takes one beam size for a whole batch (arg_topk.cu:402-422) finds
\* one, however rows are reused and prompts are cut, if the trees branch at their
\* root only.  With trees that branch below it the kernel's assertion may fail.
THEOREM BeamStagesAlwaysAgree ==
    ASSUME BranchesAtRoot
    PROVE  Spec => []BeamStagesAgree
<1>1. Init => StageInvariant
  <2> SUFFICES ASSUME Init PROVE StageInvariant
      OBVIOUS
  <2>1. setup \in Setups /\ step = [call |-> "init", depth |-> 0]
      BY DEF Init
  <2> QED BY <2>1 DEF StageInvariant
<1>2. StageInvariant /\ [Next]_vars => StageInvariant'
  <2> SUFFICES ASSUME StageInvariant, [Next]_vars PROVE StageInvariant'
      OBVIOUS
  <2>1. CASE RegisterNewRequest
    <3>1. setup' = setup /\ step' = step /\ step.call = "init"
        BY <2>1 DEF RegisterNewRequest
    <3> QED BY <3>1 DEF StageInvariant
  <2>2. CASE PrepareNextBatchInit
    <3>1. /\ step.call = "init" /\ step' = NextStep /\ setup' = setup
          /\ beam_bc' = Admitted(Verification).row
        BY <2>2 DEF PrepareNextBatchInit
    <3>2. step' = [call |-> "beam", depth |-> 0]
        BY <3>1 DEF NextStep
    <3>3. RowsAsk(beam_bc', Width(0))
        BY <3>1, InitRowsAsk
    <3>4. StageWidth(step.depth)' = Width(0)
        BY <3>1, <3>2 DEF StageWidth, Width
    <3>5. RowsAsk(beam_bc, StageWidth(step.depth))'
        BY <3>3, <3>4 DEF RowsAsk, AsksFor, Rows
    <3> QED BY <3>1, <3>2, <3>5 DEF StageInvariant
  <2>3. CASE PrepareNextBatchBeam
      BY <2>3, BeamStepStages
  <2>4. CASE PrepareNextBatchVerify
    <3>1. setup' = setup /\ step' = [call |-> "llm", depth |-> 0]
        BY <2>4 DEF PrepareNextBatchVerify, NextStep
    <3> QED BY <3>1 DEF StageInvariant
  <2>5. CASE LLMInference
    <3>1. setup' = setup /\ step' = [call |-> "init", depth |-> 0]
        BY <2>5 DEF LLMInference, NextStep
    <3> QED BY <3>1 DEF StageInvariant
  <2>6. CASE UNCHANGED vars
    <3>1. UNCHANGED << setup, step, beam_bc >>
        BY <2>6 DEF vars
    <3> QED BY <3>1 DEF StageInvariant, RowsAsk, AsksFor, StageWidth, Width, Rows
  <2> QED BY <2>1, <2>2, <2>3, <2>4, <2>5, <2>6 DEF Next, Serve
<1>3. StageInvariant => BeamStagesAgree
  <2> SUFFICES ASSUME StageInvariant, step.call = "beam", NEW i \in ActiveRows(beam_bc)
               PROVE  beam_bc[i].beam_size = beam_bc[Min(ActiveRows(beam_bc))].beam_size
      BY DEF BeamStagesAgree, SameBeamStage
  <2> DEFINE active == ActiveRows(beam_bc)
             w == StageWidth(step.depth)
  <2>1. \A j \in active : beam_bc[j].beam_size = w
      BY DEF StageInvariant, RowsAsk, AsksFor, ActiveRows
  <2>2. Min(active) \in active
    <3>1. active \subseteq Nat /\ active # {}
        BY SpecAssumption DEF SpecAssumption, ActiveRows, Rows
    <3>2. \E m \in active : \A k \in active : m <= k
      <4> HIDE DEF active
      <4> QED BY <3>1, LeastNatural
    <3> QED BY <3>2 DEF Min
  <2> QED BY <2>1, <2>2
<1> QED BY <1>1, <1>2, <1>3, PTL DEF Spec

-----------------------------------------------------------------------------
(* Sequences of which only the elements are known. *)

\* Some set has the elements of a sequence.
IsSeq(s) == \E S : s \in Seq(S)

\* A sequence has a length, and elements up to it.
LEMMA SeqLength ==
    ASSUME NEW s, IsSeq(s)
    PROVE  Len(s) \in Nat /\ DOMAIN s = 1 .. Len(s)
BY DEF IsSeq

\* A function on 1 .. n is a sequence.
LEMMA FunctionIsSeq ==
    ASSUME NEW n \in Nat, NEW s, s = [k \in 1 .. n |-> s[k]]
    PROVE  IsSeq(s) /\ Len(s) = n
<1>1. s \in Seq({s[k] : k \in 1 .. n})
    OBVIOUS
<1>2. Len(s) = n
    OBVIOUS
<1>3. IsSeq(s)
    BY <1>1 DEF IsSeq
<1> QED BY <1>2, <1>3

\* The empty sequence.
LEMMA SeqEmpty == IsSeq(<<>>) /\ Len(<<>>) = 0
<1>1. <<>> \in Seq({})
    OBVIOUS
<1> QED BY <1>1 DEF IsSeq

\* One element more.
LEMMA SeqAppend ==
    ASSUME NEW s, IsSeq(s), NEW e
    PROVE  /\ IsSeq(Append(s, e)) /\ Len(Append(s, e)) = Len(s) + 1
           /\ Append(s, e)[Len(s) + 1] = e
           /\ \A k \in 1 .. Len(s) : Append(s, e)[k] = s[k]
<1>1. PICK S : s \in Seq(S)
    BY DEF IsSeq
<1>2. s \in Seq(S \cup {e}) /\ e \in S \cup {e}
    BY <1>1
<1> DEFINE R == S \cup {e}
<1>3. /\ Append(s, e) \in Seq(R) /\ Len(Append(s, e)) = Len(s) + 1
      /\ Append(s, e)[Len(s) + 1] = e
      /\ \A k \in 1 .. Len(s) : Append(s, e)[k] = s[k]
  <2> HIDE DEF R
  <2> QED BY <1>2 DEF R
<1> QED BY <1>3 DEF IsSeq

\* Two sequences one after the other.
LEMMA SeqConcat ==
    ASSUME NEW s, IsSeq(s), NEW t, IsSeq(t)
    PROVE  /\ IsSeq(s \o t) /\ Len(s \o t) = Len(s) + Len(t)
           /\ \A k \in 1 .. Len(s) : (s \o t)[k] = s[k]
           /\ \A k \in 1 .. Len(t) : (s \o t)[Len(s) + k] = t[k]
<1>1. PICK S : s \in Seq(S)
    BY DEF IsSeq
<1>2. PICK T : t \in Seq(T)
    BY DEF IsSeq
<1> DEFINE R == S \cup T
<1>3. s \in Seq(R) /\ t \in Seq(R)
    BY <1>1, <1>2
<1>4. /\ s \o t \in Seq(R) /\ Len(s \o t) = Len(s) + Len(t)
      /\ \A k \in 1 .. Len(s) : (s \o t)[k] = s[k]
      /\ \A k \in 1 .. Len(t) : (s \o t)[Len(s) + k] = t[k]
  <2> HIDE DEF R
  <2> QED BY <1>3
<1> QED BY <1>4 DEF IsSeq

\* The first elements of a sequence.
LEMMA SeqPrefix ==
    ASSUME NEW s, IsSeq(s), NEW m \in 0 .. Len(s)
    PROVE  /\ IsSeq(SubSeq(s, 1, m)) /\ Len(SubSeq(s, 1, m)) = m
           /\ \A k \in 1 .. m : SubSeq(s, 1, m)[k] = s[k]
<1>1. PICK S : s \in Seq(S)
    BY DEF IsSeq
<1>2. Len(s) \in Nat
    BY <1>1
<1>3. /\ SubSeq(s, 1, m) \in Seq(S) /\ Len(SubSeq(s, 1, m)) = m
      /\ \A k \in 1 .. m : SubSeq(s, 1, m)[k] = s[k]
    BY <1>1, <1>2
<1> QED BY <1>3 DEF IsSeq

-----------------------------------------------------------------------------
(* The nodes of a tree in layer order. *)

\* The lengths of the layers of a tree: before the first layer is stored, that of
\* the root is known.
Lengths(tree) == [k \in 0 .. MaxBeamDepth |-> IF k = 0 THEN 1 ELSE Len(tree[k])]

\* The number of nodes above a layer.
FirstNode(L) ==
    LET first[k \in 0 .. MaxBeamDepth + 1] ==
            IF k = 0 THEN 0 ELSE first[k - 1] + L[k - 1]
    IN  first

\* The first n of these numbers.
FirstUpto(h, L, n) == h = [k \in 0 .. n |-> IF k = 0 THEN 0 ELSE h[k - 1] + L[k - 1]]

\* The bound is the number of layers below the root.
LEMMA DepthIsNatural == MaxBeamDepth \in Nat \ {0} /\ MaxBranches \in Nat \ {0}
BY SpecAssumption DEF SpecAssumption

\* They are computed from the first layer on.
LEMMA FirstNodeUpto ==
    ASSUME NEW L
    PROVE  FirstUpto(FirstNode(L), L, MaxBeamDepth + 1)
<1> DEFINE T == {n \in Nat : \E h : FirstUpto(h, L, n)}
<1>1. 0 \in T
  <2> DEFINE h == [k \in 0 .. 0 |-> 0]
  <2>1. h = [k \in 0 .. 0 |-> IF k = 0 THEN 0 ELSE h[k - 1] + L[k - 1]]
      OBVIOUS
  <2> QED BY <2>1 DEF FirstUpto
<1>2. ASSUME NEW n \in Nat, n \in T PROVE n + 1 \in T
  <2>1. PICK h : FirstUpto(h, L, n)
      BY <1>2
  <2> DEFINE g == [k \in 0 .. n + 1 |-> IF k = 0 THEN 0 ELSE h[k - 1] + L[k - 1]]
  <2>2. \A k \in 0 .. n : g[k] = h[k]
      BY <2>1 DEF FirstUpto
  <2>3. \A k \in 0 .. n + 1 : k # 0 => k - 1 \in 0 .. n
      OBVIOUS
  <2>4. g = [k \in 0 .. n + 1 |-> IF k = 0 THEN 0 ELSE g[k - 1] + L[k - 1]]
      BY <2>2, <2>3
  <2>5. FirstUpto(g, L, n + 1)
      BY <2>4 DEF FirstUpto
  <2> QED BY <2>5
<1>3. \E h : FirstUpto(h, L, MaxBeamDepth + 1)
  <2>1. MaxBeamDepth + 1 \in Nat
      BY DepthIsNatural
  <2> HIDE DEF T
  <2>2. MaxBeamDepth + 1 \in T
      BY <1>1, <1>2, <2>1, SetInduction
  <2> QED BY <2>2 DEF T
<1>4. FirstNode(L) = CHOOSE h : FirstUpto(h, L, MaxBeamDepth + 1)
    BY DEF FirstNode, FirstUpto
<1> QED BY <1>3, <1>4

\* Each layer begins after the one above.
LEMMA FirstNodeStep ==
    ASSUME NEW L
    PROVE  /\ FirstNode(L)[0] = 0
           /\ \A k \in 0 .. MaxBeamDepth : FirstNode(L)[k + 1] = FirstNode(L)[k] + L[k]
<1> DEFINE f == FirstNode(L)
<1>1. f = [k \in 0 .. MaxBeamDepth + 1 |-> IF k = 0 THEN 0 ELSE f[k - 1] + L[k - 1]]
    BY FirstNodeUpto DEF FirstUpto
<1> HIDE DEF f
<1>2. f[0] = 0
    BY <1>1, DepthIsNatural
<1>3. ASSUME NEW k \in 0 .. MaxBeamDepth PROVE f[k + 1] = f[k] + L[k]
  <2>1. k + 1 \in 0 .. MaxBeamDepth + 1 /\ k + 1 # 0 /\ (k + 1) - 1 = k
      BY DepthIsNatural
  <2> QED BY <1>1, <2>1
<1> QED BY <1>2, <1>3 DEF f

\* The lengths of layers are numbers.
IsLengths(L) == \A k \in 0 .. MaxBeamDepth : L[k] \in Nat

\* So are the places where they begin.
LEMMA FirstNodeNatural ==
    ASSUME NEW L, IsLengths(L)
    PROVE  \A k \in 0 .. MaxBeamDepth + 1 : FirstNode(L)[k] \in Nat
<1> DEFINE f == FirstNode(L)
           T == {k \in Nat : k <= MaxBeamDepth + 1 => f[k] \in Nat}
<1>1. 0 \in T
    BY FirstNodeStep
<1>2. ASSUME NEW k \in Nat, k \in T PROVE k + 1 \in T
  <2> SUFFICES ASSUME k + 1 <= MaxBeamDepth + 1 PROVE f[k + 1] \in Nat
      OBVIOUS
  <2>1. k \in 0 .. MaxBeamDepth /\ f[k] \in Nat
      BY <1>2, DepthIsNatural
  <2>2. f[k + 1] = f[k] + L[k] /\ L[k] \in Nat
      BY <2>1, FirstNodeStep DEF IsLengths
  <2> HIDE DEF f
  <2> QED BY <2>1, <2>2
<1>3. \A k \in Nat : k \in T
  <2> HIDE DEF T
  <2> QED BY <1>1, <1>2, SetInduction
<1> QED BY <1>3, DepthIsNatural

\* A layer begins at or after the end of each one above.
LEMMA FirstNodeGrows ==
    ASSUME NEW L, IsLengths(L), NEW i \in 0 .. MaxBeamDepth + 1
    PROVE  \A k \in i .. MaxBeamDepth + 1 : FirstNode(L)[i] <= FirstNode(L)[k]
<1> DEFINE f == FirstNode(L)
           T == {n \in Nat : i + n <= MaxBeamDepth + 1 => f[i] <= f[i + n]}
<1>0. /\ \A k \in 0 .. MaxBeamDepth + 1 : f[k] \in Nat
      /\ \A k \in 0 .. MaxBeamDepth : f[k + 1] = f[k] + L[k] /\ L[k] \in Nat
    BY FirstNodeStep, FirstNodeNatural DEF IsLengths
<1> HIDE DEF f
<1>1. 0 \in T
    BY <1>0
<1>2. ASSUME NEW n \in Nat, n \in T PROVE n + 1 \in T
  <2> SUFFICES ASSUME i + (n + 1) <= MaxBeamDepth + 1 PROVE f[i] <= f[i + (n + 1)]
      OBVIOUS
  <2>1. i + n \in 0 .. MaxBeamDepth /\ i + n <= MaxBeamDepth + 1 /\ i + (n + 1) = (i + n) + 1
      BY DepthIsNatural
  <2>2. f[i] <= f[i + n]
      BY <1>2, <2>1
  <2>3. f[i + (n + 1)] = f[i + n] + L[i + n] /\ L[i + n] \in Nat
      BY <1>0, <2>1
  <2>4. f[i] \in Nat /\ f[i + n] \in Nat
      BY <1>0, <2>1, DepthIsNatural
  <2> QED BY <2>2, <2>3, <2>4
<1>3. \A n \in Nat : n \in T
  <2> HIDE DEF T
  <2> QED BY <1>1, <1>2, SetInduction
<1>4. ASSUME NEW k \in i .. MaxBeamDepth + 1 PROVE f[i] <= f[k]
  <2>1. k - i \in Nat /\ i + (k - i) = k /\ k <= MaxBeamDepth + 1
      BY DepthIsNatural
  <2>2. k - i \in T
      BY <1>3, <2>1
  <2> QED BY <2>1, <2>2
<1> QED BY <1>4 DEF f

\* Where a layer begins depends on the layers above.
LEMMA FirstNodeAgrees ==
    ASSUME NEW L, NEW K, NEW d \in 0 .. MaxBeamDepth + 1,
           \A k \in 0 .. d - 1 : K[k] = L[k]
    PROVE  \A k \in 0 .. d : FirstNode(K)[k] = FirstNode(L)[k]
<1> DEFINE f == FirstNode(L)
           g == FirstNode(K)
           T == {k \in Nat : k <= d => g[k] = f[k]}
<1>0. /\ f[0] = 0 /\ \A k \in 0 .. MaxBeamDepth : f[k + 1] = f[k] + L[k]
      /\ g[0] = 0 /\ \A k \in 0 .. MaxBeamDepth : g[k + 1] = g[k] + K[k]
    BY FirstNodeStep
<1> HIDE DEF f, g
<1>1. 0 \in T
    BY <1>0
<1>2. ASSUME NEW k \in Nat, k \in T PROVE k + 1 \in T
  <2> SUFFICES ASSUME k + 1 <= d PROVE g[k + 1] = f[k + 1]
      OBVIOUS
  <2>1. k \in 0 .. MaxBeamDepth /\ k \in 0 .. d - 1 /\ g[k] = f[k]
      BY <1>2, DepthIsNatural
  <2> QED BY <1>0, <2>1
<1>3. \A k \in Nat : k \in T
  <2> HIDE DEF T
  <2> QED BY <1>1, <1>2, SetInduction
<1> QED BY <1>3 DEF f, g

-----------------------------------------------------------------------------
(* Products and quotients. *)

\* A quotient is within one of the fraction.
LEMMA DivBounds ==
    ASSUME NEW t \in Nat, NEW w \in Nat \ {0}
    PROVE  t \div w \in Nat /\ w * (t \div w) <= t /\ t < w * (t \div w) + w
OBVIOUS

\* A product grows with a factor.
LEMMA TimesGrows ==
    ASSUME NEW a \in Int, NEW b \in Int, NEW w \in Nat, a <= b
    PROVE  a * w <= b * w /\ a * w \in Int /\ b * w \in Int
OBVIOUS

\* What is between two multiples is divided alike.
LEMMA Quotient ==
    ASSUME NEW t \in Nat, NEW w \in Nat \ {0}, NEW j \in Nat,
           j * w <= t, t < (j + 1) * w
    PROVE  t \div w = j
<1> DEFINE q == t \div w
<1>1. q \in Nat /\ w * q <= t /\ t < w * q + w
    BY DivBounds
<1> HIDE DEF q
<1>2. w * q = q * w /\ (q + 1) * w = q * w + w
    BY <1>1
<1>3. ASSUME q < j PROVE FALSE
  <2>1. q + 1 <= j
      BY <1>1, <1>3
  <2>2. (q + 1) * w <= j * w
      BY <1>1, <2>1, TimesGrows
  <2>3. q * w \in Int /\ j * w \in Int
      BY <1>1
  <2> QED BY <1>1, <1>2, <2>2, <2>3
<1>4. ASSUME j < q PROVE FALSE
  <2>1. j + 1 <= q
      BY <1>1, <1>4
  <2>2. (j + 1) * w <= q * w
      BY <1>1, <2>1, TimesGrows
  <2>3. q * w \in Int /\ (j + 1) * w \in Int
      BY <1>1
  <2> QED BY <1>1, <1>2, <2>2, <2>3
<1> QED BY <1>1, <1>3, <1>4 DEF q

\* Which of a shares of size w number t is in.
LEMMA InQuotient ==
    ASSUME NEW t \in Nat, NEW w \in Nat \ {0}, NEW a \in Nat, t < a * w
    PROVE  /\ t \div w \in Nat /\ t \div w < a
           /\ (t \div w) * w <= t /\ t < ((t \div w) + 1) * w
<1> DEFINE q == t \div w
<1>1. q \in Nat /\ w * q <= t /\ t < w * q + w
    BY DivBounds
<1> HIDE DEF q
<1>2. w * q = q * w /\ (q + 1) * w = q * w + w
    BY <1>1
<1>3. ASSUME a <= q PROVE FALSE
  <2>1. a * w <= q * w
      BY <1>1, <1>3, TimesGrows
  <2>2. q * w \in Int /\ a * w \in Int
      BY <1>1
  <2> QED BY <1>1, <1>2, <2>1, <2>2
<1> QED BY <1>1, <1>2, <1>3 DEF q

\* A product is divided by its factor.
LEMMA ExactQuotient ==
    ASSUME NEW a \in Nat \ {0}, NEW w \in Nat \ {0}
    PROVE  (a * w) \div a = w /\ a * w \in Nat \ {0}
<1>1. a * w \in Nat /\ w * a = a * w /\ (w + 1) * a = w * a + a
    OBVIOUS
<1>2. a * w # 0
    BY <1>1
<1>3. (a * w) \div a = w
    BY <1>1, Quotient
<1> QED BY <1>1, <1>2, <1>3

\* A share of a share.
LEMMA QuotientTwice ==
    ASSUME NEW t \in Nat, NEW v \in Nat \ {0}, NEW w \in Nat \ {0}
    PROVE  (t \div v) \div w = t \div (w * v)
<1> DEFINE p == t \div v
           q == p \div w
<1>1. p \in Nat /\ v * p <= t /\ t < v * p + v
    BY DivBounds
<1>2. q \in Nat /\ w * q <= p /\ p < w * q + w
  <2> HIDE DEF p
  <2> QED BY <1>1, DivBounds
<1> HIDE DEF p, q
<1>3. q * (w * v) = (q * w) * v /\ (q + 1) * (w * v) = ((q + 1) * w) * v
    BY <1>2
<1>4. q * w <= p /\ p + 1 <= (q + 1) * w /\ q * w \in Int /\ (q + 1) * w \in Int
    BY <1>1, <1>2
<1>5. (q * w) * v <= p * v /\ (p + 1) * v <= ((q + 1) * w) * v
    BY <1>1, <1>4, TimesGrows
<1>6. p * v <= t /\ t < (p + 1) * v /\ p * v \in Int /\ (p + 1) * v \in Int
    BY <1>1
<1>7. q * (w * v) <= t /\ t < (q + 1) * (w * v)
  <2>1. (q * w) * v \in Int /\ ((q + 1) * w) * v \in Int
      BY <1>4
  <2> QED BY <1>3, <1>5, <1>6, <2>1
<1>8. w * v \in Nat \ {0}
    BY ExactQuotient
<1>9. t \div (w * v) = q
    BY <1>2, <1>7, <1>8, Quotient
<1> QED BY <1>9 DEF p, q

-----------------------------------------------------------------------------
(* The bit mask of a tree. *)

\* Where appendBitMask looks for a layer: after those above it, but for the root.
LEMMA LayerStartIs ==
    ASSUME NEW tree, IsLengths(Lengths(tree))
    PROVE  \A i \in 1 .. MaxBeamDepth + 1 :
              LayerStart(tree, i) = FirstNode(Lengths(tree))[i] - 1
<1> DEFINE L == Lengths(tree)
           f == FirstNode(L)
           Starts(h) == h = [k \in 1 .. MaxBeamDepth + 1 |->
                               IF k = 1 THEN 0 ELSE h[k - 1] + Len(tree[k - 1])]
           g == [k \in 1 .. MaxBeamDepth + 1 |-> f[k] - 1]
           s == CHOOSE h : Starts(h)
<1>1. /\ \A k \in 0 .. MaxBeamDepth + 1 : f[k] \in Nat
      /\ \A k \in 0 .. MaxBeamDepth : f[k + 1] = f[k] + L[k]
      /\ f[0] = 0
    BY FirstNodeStep, FirstNodeNatural
<1>2. L[0] = 1 /\ \A k \in 1 .. MaxBeamDepth : L[k] = Len(tree[k])
    BY DepthIsNatural DEF Lengths
<1> HIDE DEF f, L
<1>3. f[1] = 1
  <2>1. f[0 + 1] = f[0] + L[0]
      BY <1>1, DepthIsNatural
  <2> QED BY <1>1, <1>2, <2>1
<1>4. \A k \in 1 .. MaxBeamDepth : f[k + 1] = f[k] + Len(tree[k]) /\ f[k] \in Nat /\ f[k + 1] \in Nat
    BY <1>1, <1>2, DepthIsNatural
<1>5. Starts(g)
  <2>1. ASSUME NEW k \in 1 .. MaxBeamDepth + 1, k # 1
        PROVE  f[k] - 1 = g[k - 1] + Len(tree[k - 1])
    <3>1. k - 1 \in 1 .. MaxBeamDepth /\ (k - 1) + 1 = k /\ k - 1 \in 1 .. MaxBeamDepth + 1
        BY <2>1, DepthIsNatural
    <3>2. f[k] = f[k - 1] + Len(tree[k - 1]) /\ f[k] \in Nat /\ f[k - 1] \in Nat
          /\ Len(tree[k - 1]) \in Nat
      <4>1. L[k - 1] \in Nat /\ L[k - 1] = Len(tree[k - 1])
          BY <1>2, <3>1 DEF IsLengths, L
      <4> QED BY <1>4, <3>1, <4>1
    <3>3. g[k - 1] = f[k - 1] - 1
        BY <3>1
    <3> HIDE DEF g
    <3> QED BY <3>2, <3>3
  <2>2. \A k \in 1 .. MaxBeamDepth + 1 :
           f[k] - 1 = IF k = 1 THEN 0 ELSE g[k - 1] + Len(tree[k - 1])
      BY <1>3, <2>1
  <2> HIDE DEF Starts
  <2>3. g = [k \in 1 .. MaxBeamDepth + 1 |->
               IF k = 1 THEN 0 ELSE g[k - 1] + Len(tree[k - 1])]
      BY <2>2
  <2> HIDE DEF g
  <2> QED BY <2>3 DEF Starts
<1>6. Starts(s)
  <2> HIDE DEF Starts, g
  <2> QED BY <1>5
<1>7. \A i : LayerStart(tree, i) = s[i]
    BY DEF LayerStart
<1> HIDE DEF s, g
<1>8. s[1] = 0 /\ \A k \in 1 .. MaxBeamDepth : s[k + 1] = s[k] + Len(tree[k])
  <2>1. \A k \in 1 .. MaxBeamDepth + 1 :
           s[k] = IF k = 1 THEN 0 ELSE s[k - 1] + Len(tree[k - 1])
      BY <1>6
  <2>2. s[1] = 0
      BY <2>1, DepthIsNatural
  <2>3. ASSUME NEW k \in 1 .. MaxBeamDepth PROVE s[k + 1] = s[k] + Len(tree[k])
    <3>1. k + 1 \in 1 .. MaxBeamDepth + 1 /\ k + 1 # 1 /\ (k + 1) - 1 = k
        BY DepthIsNatural
    <3> QED BY <2>1, <3>1
  <2> QED BY <2>2, <2>3
<1> DEFINE T == {n \in Nat : n + 1 <= MaxBeamDepth + 1 => s[n + 1] = f[n + 1] - 1}
<1>9. 0 \in T
    BY <1>3, <1>8
<1>10. ASSUME NEW n \in Nat, n \in T PROVE n + 1 \in T
  <2> SUFFICES ASSUME (n + 1) + 1 <= MaxBeamDepth + 1
               PROVE  s[(n + 1) + 1] = f[(n + 1) + 1] - 1
      OBVIOUS
  <2>1. n + 1 \in 1 .. MaxBeamDepth /\ n + 1 <= MaxBeamDepth + 1
      BY DepthIsNatural
  <2>2. s[n + 1] = f[n + 1] - 1
      BY <1>10, <2>1
  <2>3. s[(n + 1) + 1] = s[n + 1] + Len(tree[n + 1])
      BY <1>8, <2>1
  <2>4. /\ f[(n + 1) + 1] = f[n + 1] + Len(tree[n + 1])
        /\ f[n + 1] \in Nat /\ f[(n + 1) + 1] \in Nat
      BY <1>4, <2>1
  <2>5. Len(tree[n + 1]) \in Nat
      BY <1>2, <2>1 DEF IsLengths, L
  <2> QED BY <2>2, <2>3, <2>4, <2>5
<1>11. \A n \in Nat : n \in T
  <2> HIDE DEF T
  <2> QED BY <1>9, <1>10, SetInduction
<1>12. ASSUME NEW i \in 1 .. MaxBeamDepth + 1 PROVE s[i] = f[i] - 1
  <2>1. i - 1 \in Nat /\ (i - 1) + 1 = i /\ i <= MaxBeamDepth + 1
      BY DepthIsNatural
  <2>2. i - 1 \in T
      BY <1>11, <2>1
  <2> QED BY <2>1, <2>2
<1> QED BY <1>7, <1>12 DEF f, L

\* The members of a bit mask.
MaskFields == {"mask", "non_tree_cache_size", "tree_size", "prompt_size"}

\* The node of layer i in whose share node j of layer k is.
Share(L, k, j, i) == j \div (L[k] \div L[i])

\* The mask of a tree of d layers below the root: node j of layer k is seen by
\* itself and its descendants, that is, it sees the share of each layer it is in.
MaskRight(m, L, d) ==
    /\ DOMAIN m = MaskFields
    /\ DOMAIN m.mask = TreeNode
    /\ m.prompt_size = 1
    /\ m.tree_size = FirstNode(L)[d + 1]
    /\ \A n \in TreeNode : \A q \in m.mask[n] : q \in Nat /\ q < m.tree_size
    /\ \A k \in 0 .. d : \A j \in 0 .. L[k] - 1 : \A n \in TreeNode :
          FirstNode(L)[k] + j \in m.mask[n]
             <=> \E i \in 0 .. k : n = FirstNode(L)[i] + Share(L, k, j, i)

\* The new nodes that are in a share of a node above, by layer e.
BelowAt(f, L, pre, new, e, n, q) ==
    \E i \in 1 .. e - 1 : \E j \in 0 .. L[i] - 1 :
        n = f[i] + j /\ q \in pre + j * (new \div L[i])
                              .. pre + (j + 1) * (new \div L[i]) - 1

\* What appendBitMask sets: the bits of the new nodes, in the root, in the nodes
\* they are below and in themselves.
BitsAppended(a, m, L, new, e) ==
    LET f == FirstNode(L)
        pre == f[e]
    IN  /\ DOMAIN a = MaskFields /\ DOMAIN a.mask = TreeNode
        /\ a.prompt_size = 1 /\ a.tree_size = pre + new
        /\ a.non_tree_cache_size = m.non_tree_cache_size
        /\ \A n \in TreeNode : \A q :
              q \in a.mask[n] <=>
                 \/ q \in m.mask[n]
                 \/ /\ q \in pre .. pre + new - 1
                    /\ \/ n = 0 \/ n = q
                       \/ BelowAt(f, L, pre, new, e, n, q)

\* Those are the bits it sets.
LEMMA AppendedBits ==
    ASSUME NEW m, NEW tree, NEW e \in 1 .. MaxBeamDepth, NEW new \in Nat \ {0},
           DOMAIN m = MaskFields, m.prompt_size = 1, IsLengths(Lengths(tree)),
           m.tree_size = FirstNode(Lengths(tree))[e]
    PROVE  BitsAppended(AppendBitMask(m, new, tree, e), m, Lengths(tree), new, e)
<1> DEFINE L == Lengths(tree)
           f == FirstNode(L)
           pre == m.tree_size
           added == pre .. pre + new - 1
           last == m.prompt_size + LayerStart(tree, e)
           Lot(i, j) ==
              LET size == new \div Len(tree[i])
              IN  pre + j * size .. pre + (j + 1) * size - 1
           Below(n) ==
              {q \in added : \E i \in 1 .. e - 1 :
                  \E j \in 0 .. Len(tree[i]) - 1 :
                      /\ n = m.prompt_size + LayerStart(tree, i) + j
                      /\ q \in Lot(i, j)}
           Own(n) == IF n \in last .. pre + new - 1 THEN {n} ELSE {}
           Top(n) == IF n < m.prompt_size THEN added ELSE {}
           bits == [n \in TreeNode |-> m.mask[n] \cup Top(n) \cup Below(n) \cup Own(n)]
           a == AppendBitMask(m, new, tree, e)
<1>1. a = [m EXCEPT !.tree_size = pre + new, !.mask = bits]
    BY DEF AppendBitMask, MaskFields
<1>2. /\ DOMAIN a = MaskFields /\ a.mask = bits /\ a.tree_size = pre + new
      /\ a.prompt_size = 1 /\ a.non_tree_cache_size = m.non_tree_cache_size
  <2> HIDE DEF bits, a
  <2> QED BY <1>1 DEF MaskFields
<1>3. pre = f[e] /\ pre \in Nat /\ \A k \in 0 .. MaxBeamDepth + 1 : f[k] \in Nat
    BY FirstNodeNatural, DepthIsNatural
<1>4. \A i \in 1 .. MaxBeamDepth : m.prompt_size + LayerStart(tree, i) = f[i]
  <2> SUFFICES ASSUME NEW i \in 1 .. MaxBeamDepth
               PROVE  m.prompt_size + LayerStart(tree, i) = f[i]
      OBVIOUS
  <2>1. LayerStart(tree, i) = f[i] - 1 /\ f[i] \in Nat
      BY <1>3, LayerStartIs, DepthIsNatural
  <2> HIDE DEF f
  <2> QED BY <2>1
<1>5. \A i \in 1 .. e - 1 : Len(tree[i]) = L[i]
    BY DepthIsNatural DEF Lengths
<1>6. last = pre
    BY <1>3, <1>4
<1>7. \A n \in TreeNode : n \in Nat
    BY DepthIsNatural DEF TreeNode
<1>8. ASSUME NEW n \in TreeNode, NEW q
      PROVE  q \in Below(n) <=> q \in added /\ BelowAt(f, L, pre, new, e, n, q)
  <2>1. \A i \in 1 .. e - 1 : i \in 1 .. MaxBeamDepth
      BY DepthIsNatural
  <2>2. \A i \in 1 .. e - 1 : /\ m.prompt_size + LayerStart(tree, i) = f[i]
                              /\ Len(tree[i]) = L[i]
      BY <1>4, <1>5, <2>1
  <2>3. ASSUME NEW i \in 1 .. e - 1
        PROVE  (\E j \in 0 .. Len(tree[i]) - 1 :
                    n = m.prompt_size + LayerStart(tree, i) + j /\ q \in Lot(i, j))
               <=> \E j \in 0 .. L[i] - 1 :
                     n = f[i] + j /\ q \in pre + j * (new \div L[i])
                                           .. pre + (j + 1) * (new \div L[i]) - 1
    <3> DEFINE len == Len(tree[i])
               start == m.prompt_size + LayerStart(tree, i)
    <3>1. len = L[i] /\ start = f[i]
        BY <2>2
    <3> HIDE DEF len, start, f, L, pre
    <3>2. (\E j \in 0 .. len - 1 : n = start + j /\ q \in pre + j * (new \div len)
                                                .. pre + (j + 1) * (new \div len) - 1)
          <=> \E j \in 0 .. L[i] - 1 :
                n = f[i] + j /\ q \in pre + j * (new \div L[i])
                                      .. pre + (j + 1) * (new \div L[i]) - 1
        BY <3>1
    <3> QED BY <3>2 DEF len, start
  <2> HIDE DEF f, L, pre, added, Lot
  <2> QED BY <2>3 DEF BelowAt
<1>9. ASSUME NEW n \in TreeNode, NEW q
      PROVE  q \in bits[n] <=>
                \/ q \in m.mask[n]
                \/ q \in added /\ (n = 0 \/ n = q \/ BelowAt(f, L, pre, new, e, n, q))
  <2>1. q \in Top(n) <=> q \in added /\ n = 0
      BY <1>7
  <2>2. q \in Own(n) <=> q \in added /\ n = q
      BY <1>6
  <2>3. q \in bits[n] <=> q \in m.mask[n] \/ q \in Top(n) \/ q \in Below(n) \/ q \in Own(n)
      OBVIOUS
  <2> HIDE DEF bits, Top, Below, Own, added, pre, f, L
  <2> QED BY <1>8, <2>1, <2>2, <2>3
<1> HIDE DEF bits, added, a, f, L, pre
<1>10. \A n \in TreeNode : \A q :
          q \in a.mask[n] <=>
             \/ q \in m.mask[n]
             \/ /\ q \in f[e] .. f[e] + new - 1
                /\ n = 0 \/ n = q \/ BelowAt(f, L, f[e], new, e, n, q)
    BY <1>2, <1>3, <1>9 DEF added
<1>11. BitsAppended(a, m, L, new, e)
  <2>1. DOMAIN a.mask = TreeNode
      BY <1>2 DEF bits
  <2> QED BY <1>2, <1>3, <1>10, <2>1 DEF BitsAppended, f
<1> QED BY <1>11 DEF a, L

\* A quotient of a layer's length by that of a layer above is a number of nodes.
LEMMA ShareSize ==
    ASSUME NEW a \in Nat \ {0}, NEW new \in Nat \ {0}, \E w \in Nat \ {0} : new = a * w
    PROVE  new \div a \in Nat \ {0} /\ new = a * (new \div a)
<1>1. PICK w \in Nat \ {0} : new = a * w
    OBVIOUS
<1>2. new \div a = w
    BY <1>1, ExactQuotient
<1> QED BY <1>1, <1>2

\* The layers down to e have nodes, of which each has an equal share of new ones.
Shared(f, L, e, new) ==
    \A i \in 0 .. e : f[i] \in Nat /\ L[i] \in Nat \ {0}
                      /\ \E w \in Nat \ {0} : new = L[i] * w

\* Node n is the one in whose share new node t is, in some layer above e.
SharedBy(f, L, e, new, n, t) ==
    \E i \in 1 .. e - 1 : n = f[i] + (t \div (new \div L[i]))

\* A new node is below one node of each layer, the one in whose share it is.
LEMMA BelowOne ==
    ASSUME NEW f, NEW L, NEW e \in Nat \ {0}, NEW pre \in Nat, NEW new \in Nat \ {0},
           Shared(f, L, e, new), NEW n, NEW t \in 0 .. new - 1
    PROVE  BelowAt(f, L, pre, new, e, n, pre + t) <=> SharedBy(f, L, e, new, n, t)
<1>1. ASSUME NEW i \in 1 .. e - 1
      PROVE  (\E j \in 0 .. L[i] - 1 :
                  n = f[i] + j /\ pre + t \in pre + j * (new \div L[i])
                                              .. pre + (j + 1) * (new \div L[i]) - 1)
             <=> n = f[i] + (t \div (new \div L[i]))
  <2> DEFINE a == L[i]
             w == new \div a
             q == t \div w
  <2>1. a \in Nat \ {0} /\ \E v \in Nat \ {0} : new = a * v
      BY DEF Shared
  <2>2. w \in Nat \ {0} /\ new = a * w
    <3> HIDE DEF a
    <3> QED BY <2>1, ShareSize
  <2> HIDE DEF a, w
  <2>3. q \in Nat /\ q < a /\ q * w <= t /\ t < (q + 1) * w
    <3>1. t \in Nat /\ t < a * w /\ a \in Nat
        BY <2>1, <2>2
    <3> QED BY <2>2, <3>1, InQuotient
  <2>4. \A j \in 0 .. a - 1 :
           pre + t \in pre + j * w .. pre + (j + 1) * w - 1 <=> j * w <= t /\ t < (j + 1) * w
    <3> SUFFICES ASSUME NEW j \in 0 .. a - 1
                 PROVE  pre + t \in pre + j * w .. pre + (j + 1) * w - 1
                           <=> j * w <= t /\ t < (j + 1) * w
        OBVIOUS
    <3> DEFINE x == j * w
               y == (j + 1) * w
    <3>1. x \in Int /\ y \in Int
        BY <2>1, <2>2
    <3> HIDE DEF x, y
    <3>2. pre + t \in pre + x .. pre + y - 1 <=> x <= t /\ t < y
        BY <3>1
    <3> QED BY <3>2 DEF x, y
  <2>5. \A j \in 0 .. a - 1 : j * w <= t /\ t < (j + 1) * w => j = q
    <3> SUFFICES ASSUME NEW j \in 0 .. a - 1, j * w <= t, t < (j + 1) * w PROVE j = q
        OBVIOUS
    <3>1. j \in Nat /\ t \in Nat
        BY <2>1
    <3> QED BY <2>2, <3>1, Quotient
  <2>6. q \in 0 .. a - 1
      BY <2>1, <2>3
  <2> HIDE DEF q
  <2>7. (\E j \in 0 .. a - 1 : n = f[i] + j /\ pre + t \in pre + j * w .. pre + (j + 1) * w - 1)
        <=> n = f[i] + q
      BY <2>3, <2>4, <2>5, <2>6
  <2> QED BY <2>7 DEF a, w, q
<1> QED BY <1>1 DEF BelowAt, SharedBy

\* The layers of a tree: each multiplies the nodes of those above it.
Multiplies(L, d) ==
    \A i, k \in 0 .. d : i <= k =>
        L[i] \in Nat \ {0} /\ \E w \in Nat \ {0} : L[k] = L[i] * w

\* Two trees have layers of the same lengths down to d.
SameDownTo(K, L, d) == \A k \in 0 .. d : K[k] = L[k]

\* appendBitMask keeps the mask right: a layer more.
LEMMA AppendBitMaskRight ==
    ASSUME NEW m, NEW tree, NEW L, NEW e \in 1 .. MaxBeamDepth, NEW new \in Nat \ {0},
           MaskRight(m, L, e - 1), IsLengths(Lengths(tree)),
           SameDownTo(Lengths(tree), L, e - 1),
           Lengths(tree)[e] = new, Multiplies(Lengths(tree), e)
    PROVE  /\ MaskRight(AppendBitMask(m, new, tree, e), Lengths(tree), e)
           /\ AppendBitMask(m, new, tree, e).non_tree_cache_size = m.non_tree_cache_size
<1> DEFINE K == Lengths(tree)
           f == FirstNode(K)
           pre == f[e]
           a == AppendBitMask(m, new, tree, e)
           Saw(k, j, n) == \E i \in 0 .. k : n = f[i] + Share(K, k, j, i)
<1>1. \A k \in 0 .. e : f[k] = FirstNode(L)[k]
  <2>1. e \in 0 .. MaxBeamDepth + 1
      BY DepthIsNatural
  <2>2. \A k \in 0 .. e - 1 : K[k] = L[k]
      BY DEF SameDownTo
  <2> QED BY <2>1, <2>2, FirstNodeAgrees
<1>2. m.tree_size = pre
  <2>1. e - 1 + 1 = e
      OBVIOUS
  <2> QED BY <1>1, <2>1, DepthIsNatural DEF MaskRight
<1>3. /\ DOMAIN a = MaskFields /\ DOMAIN a.mask = TreeNode
      /\ a.prompt_size = 1 /\ a.tree_size = pre + new
      /\ a.non_tree_cache_size = m.non_tree_cache_size
      /\ \A n \in TreeNode : \A q :
            q \in a.mask[n] <=>
               \/ q \in m.mask[n]
               \/ /\ q \in pre .. pre + new - 1
                  /\ \/ n = 0 \/ n = q
                     \/ BelowAt(f, K, pre, new, e, n, q)
  <2>1. DOMAIN m = MaskFields /\ m.prompt_size = 1
      BY DEF MaskRight
  <2> HIDE DEF a, pre
  <2> HIDE DEF K, f
  <2>2. BitsAppended(a, m, K, new, e)
      BY <1>2, <2>1, AppendedBits DEF pre, a, f, K
  <2> QED BY <2>2 DEF BitsAppended, pre, f
<1>4. /\ f[0] = 0 /\ \A k \in 0 .. MaxBeamDepth + 1 : f[k] \in Nat
      /\ \A k \in 0 .. MaxBeamDepth : f[k + 1] = f[k] + K[k] /\ K[k] \in Nat
    BY FirstNodeStep, FirstNodeNatural DEF IsLengths
<1>5. \A k \in 0 .. e - 1 : f[k + 1] <= pre
  <2> SUFFICES ASSUME NEW k \in 0 .. e - 1 PROVE f[k + 1] <= pre
      OBVIOUS
  <2>1. k + 1 \in 0 .. MaxBeamDepth + 1 /\ e \in k + 1 .. MaxBeamDepth + 1
      BY DepthIsNatural
  <2> HIDE DEF f
  <2> QED BY <2>1, FirstNodeGrows DEF f
<1>6. pre \in Nat /\ K[e] = new /\ f[e + 1] = pre + new /\ K[0] = 1
  <2>1. e \in 0 .. MaxBeamDepth /\ e \in 0 .. MaxBeamDepth + 1 /\ 0 \in 0 .. MaxBeamDepth
      BY DepthIsNatural
  <2> QED BY <1>4, <2>1 DEF Lengths
<1>7. \A k \in 0 .. e - 1 : K[k] = L[k] /\ k \in 0 .. MaxBeamDepth
    BY DepthIsNatural DEF SameDownTo
<1>8. \A i \in 0 .. e : K[i] \in Nat \ {0} /\ \E w \in Nat \ {0} : new = K[i] * w
    BY <1>6 DEF Multiplies
<1>9. \A n \in TreeNode : n \in Nat
    BY DepthIsNatural DEF TreeNode
<1> HIDE DEF a, f, pre, K
\* the nodes that the mask had
<1>10. ASSUME NEW k \in 0 .. e - 1, NEW j \in 0 .. K[k] - 1, NEW n \in TreeNode
       PROVE  f[k] + j \in a.mask[n] <=> Saw(k, j, n)
  <2>1. f[k] + j < pre
    <3>1. f[k + 1] = f[k] + K[k] /\ f[k] \in Nat /\ K[k] \in Nat /\ f[k + 1] <= pre
        BY <1>4, <1>5, <1>7, DepthIsNatural
    <3> QED BY <1>6, <3>1
  <2>2. f[k] + j \in a.mask[n] <=> f[k] + j \in m.mask[n]
    <3>1. f[k] + j \notin pre .. pre + new - 1
        BY <1>6, <2>1
    <3> QED BY <1>3, <3>1
  <2>3. FirstNode(L)[k] + j \in m.mask[n]
           <=> \E i \in 0 .. k : n = FirstNode(L)[i] + Share(L, k, j, i)
    <3>1. j \in 0 .. L[k] - 1
        BY <1>7
    <3> QED BY <3>1 DEF MaskRight
  <2>4. \A i \in 0 .. k : FirstNode(L)[i] = f[i] /\ Share(L, k, j, i) = Share(K, k, j, i)
    <3> SUFFICES ASSUME NEW i \in 0 .. k
                 PROVE  FirstNode(L)[i] = f[i] /\ Share(L, k, j, i) = Share(K, k, j, i)
        OBVIOUS
    <3>1. i \in 0 .. e /\ i \in 0 .. e - 1
        OBVIOUS
    <3>2. K[i] = L[i] /\ K[k] = L[k]
        BY <1>7, <3>1
    <3> QED BY <1>1, <3>1, <3>2 DEF Share
  <2>5. FirstNode(L)[k] = f[k]
      BY <1>1
  <2> QED BY <2>2, <2>3, <2>4, <2>5
\* the new ones
<1>11. ASSUME NEW j \in 0 .. new - 1, NEW n \in TreeNode
       PROVE  pre + j \in a.mask[n] <=> Saw(e, j, n)
  <2>1. pre + j \notin m.mask[n] /\ pre + j \in pre .. pre + new - 1
    <3>1. \A q \in m.mask[n] : q \in Nat /\ q < pre
        BY <1>2 DEF MaskRight
    <3> QED BY <1>6, <3>1
  <2>2. BelowAt(f, K, pre, new, e, n, pre + j)
           <=> \E i \in 1 .. e - 1 : n = f[i] + Share(K, e, j, i)
    <3>1. Shared(f, K, e, new)
        BY <1>4, <1>8, DepthIsNatural DEF Shared
    <3>2. BelowAt(f, K, pre, new, e, n, pre + j) <=> SharedBy(f, K, e, new, n, j)
      <4>1. e \in Nat \ {0}
          BY DepthIsNatural
      <4> QED BY <1>6, <3>1, <4>1, BelowOne
    <3> QED BY <1>6, <3>2 DEF Share, SharedBy
  <2>3. Share(K, e, j, 0) = 0
    <3>1. new \div 1 = new
        OBVIOUS
    <3>2. j \div new = 0
        OBVIOUS
    <3> QED BY <1>6, <3>1, <3>2 DEF Share
  <2>4. Share(K, e, j, e) = j
    <3>1. new \div new = 1
      <4>1. new = new * 1
          OBVIOUS
      <4> QED BY <4>1, ExactQuotient
    <3>2. j \div 1 = j
        OBVIOUS
    <3> QED BY <1>6, <3>1, <3>2 DEF Share
  <2>5. Saw(e, j, n) <=> \/ n = 0 \/ n = pre + j
                         \/ \E i \in 1 .. e - 1 : n = f[i] + Share(K, e, j, i)
    <3>1. \A i \in 0 .. e : i = 0 \/ i = e \/ i \in 1 .. e - 1
        OBVIOUS
    <3>2. 0 \in 0 .. e /\ e \in 0 .. e /\ \A i \in 1 .. e - 1 : i \in 0 .. e
        OBVIOUS
    <3>3. f[0] + Share(K, e, j, 0) = 0 /\ f[e] + Share(K, e, j, e) = pre + j
        BY <1>4, <2>3, <2>4 DEF pre
    <3> QED BY <3>1, <3>2, <3>3
  <2> QED BY <1>3, <2>1, <2>2, <2>5
<1>12. \A n \in TreeNode : \A q \in a.mask[n] : q \in Nat /\ q < a.tree_size
  <2> SUFFICES ASSUME NEW n \in TreeNode, NEW q \in a.mask[n]
               PROVE  q \in Nat /\ q < a.tree_size
      OBVIOUS
  <2>1. q \in m.mask[n] \/ q \in pre .. pre + new - 1
      BY <1>3
  <2>2. q \in m.mask[n] => q \in Nat /\ q < pre
      BY <1>2 DEF MaskRight
  <2> QED BY <1>3, <1>6, <2>1, <2>2
<1>13. \A k \in 0 .. e : \A j \in 0 .. K[k] - 1 : \A n \in TreeNode :
          f[k] + j \in a.mask[n] <=> \E i \in 0 .. k : n = f[i] + Share(K, k, j, i)
  <2> SUFFICES ASSUME NEW k \in 0 .. e, NEW j \in 0 .. K[k] - 1, NEW n \in TreeNode
               PROVE  f[k] + j \in a.mask[n] <=> Saw(k, j, n)
      OBVIOUS
  <2>1. CASE k = e
    <3>1. j \in 0 .. new - 1 /\ f[k] = pre
        BY <1>6, <2>1 DEF pre
    <3> QED BY <1>11, <2>1, <3>1
  <2>2. CASE k # e
    <3>1. k \in 0 .. e - 1
        BY <2>2
    <3> QED BY <1>10, <3>1
  <2> QED BY <2>1, <2>2
<1>14. MaskRight(a, K, e)
  <2>1. FirstNode(K)[e + 1] = pre + new
      BY <1>6 DEF f
  <2> QED BY <1>3, <1>12, <1>13, <2>1 DEF MaskRight, f
<1> QED BY <1>3, <1>14 DEF a, K

-----------------------------------------------------------------------------
(* The slots of a row: what the large model's outputs are matched with. *)

\* A slot is passed on to the request of row i.
Passes(r, i, s) ==
    /\ tree_bc.tokensInfo[s].row = i
    /\ r.status = "PENDING" \/ tree_bc.tokensInfo[s].depth >= Size(r) - 1
Pass(r, i, acc, s) == IF Passes(r, i, s) THEN Append(acc, s) ELSE acc
PassedUpto(h, r, i, n) ==
    h = [s \in 0 .. n |-> IF s = 0 THEN <<>> ELSE Pass(r, i, h[s - 1], s)]

\* The slots are gone through one after the other.
LEMMA LoadedUpto ==
    ASSUME IsSeq(tree_bc.tokensInfo), NEW r, NEW i
    PROVE  \E h : /\ h[0] = <<>> /\ Loaded(r, i) = h[Len(tree_bc.tokensInfo)]
                  /\ \A n \in 0 .. Len(tree_bc.tokensInfo) - 1 :
                        h[n + 1] = IF Passes(r, i, n + 1) THEN Append(h[n], n + 1)
                                   ELSE h[n]
<1> DEFINE len == Len(tree_bc.tokensInfo)
           T == {n \in Nat : \E h : PassedUpto(h, r, i, n)}
<1>0. len \in Nat
    BY SeqLength
<1>1. 0 \in T
  <2> DEFINE h == [s \in 0 .. 0 |-> <<>>]
  <2>1. h = [s \in 0 .. 0 |-> IF s = 0 THEN <<>>
                              ELSE Pass(r, i, h[s - 1], s)]
      OBVIOUS
  <2> QED BY <2>1 DEF PassedUpto
<1>2. ASSUME NEW n \in Nat, n \in T PROVE n + 1 \in T
  <2>1. PICK h : PassedUpto(h, r, i, n)
      BY <1>2
  <2> DEFINE k == [s \in 0 .. n + 1 |-> IF s = 0 THEN <<>>
                                        ELSE Pass(r, i, h[s - 1], s)]
  <2>2. \A s \in 0 .. n : k[s] = h[s]
      BY <2>1 DEF PassedUpto
  <2>3. \A s \in 0 .. n + 1 : s # 0 => s - 1 \in 0 .. n
      OBVIOUS
  <2>4. k = [s \in 0 .. n + 1 |-> IF s = 0 THEN <<>>
                                  ELSE Pass(r, i, k[s - 1], s)]
      BY <2>2, <2>3
  <2>5. PassedUpto(k, r, i, n + 1)
      BY <2>4 DEF PassedUpto
  <2> QED BY <2>5
<1>3. \E h : PassedUpto(h, r, i, len)
  <2> HIDE DEF T, len
  <2>1. len \in T
      BY <1>0, <1>1, <1>2, SetInduction
  <2> QED BY <2>1 DEF T
<1> DEFINE h == CHOOSE h : PassedUpto(h, r, i, len)
<1>4. PassedUpto(h, r, i, len)
    BY <1>3
<1>5. Loaded(r, i) = h[len]
    BY DEF Loaded, PassedUpto, Pass, Passes
<1> HIDE DEF h, len
<1>6. \A s \in 0 .. len : h[s] = IF s = 0 THEN <<>>
                                 ELSE Pass(r, i, h[s - 1], s)
    BY <1>4, Zenon DEF PassedUpto
<1>7. h[0] = <<>>
    BY <1>0, <1>6
<1>8. \A n \in 0 .. len - 1 :
         h[n + 1] = IF Passes(r, i, n + 1) THEN Append(h[n], n + 1) ELSE h[n]
  <2> SUFFICES ASSUME NEW n \in 0 .. len - 1
               PROVE  h[n + 1] = IF Passes(r, i, n + 1) THEN Append(h[n], n + 1) ELSE h[n]
      OBVIOUS
  <2>1. n + 1 \in 0 .. len /\ n + 1 # 0 /\ (n + 1) - 1 = n
      BY <1>0
  <2>2. h[n + 1] = Pass(r, i, h[n], n + 1)
      BY <1>6, <2>1
  <2> QED BY <2>2 DEF Pass
<1> QED BY <1>5, <1>7, <1>8 DEF len

\* The slots of a row lie in an interval.
SlotsWithin(info, i, offset, num) ==
    \A s \in DOMAIN info : info[s].row = i => offset < s /\ s <= offset + num

\* A row has a slot for the last token of its request, or for one after it.
SlotFrom(info, i, depth) ==
    \E s \in DOMAIN info : info[s].row = i /\ info[s].depth >= depth

\* The slots that are passed on are a sequence.
LEMMA LoadedSequence ==
    ASSUME IsSeq(tree_bc.tokensInfo), NEW r, NEW i
    PROVE  IsSeq(Loaded(r, i))
<1> DEFINE len == Len(tree_bc.tokensInfo)
<1>1. PICK h : /\ h[0] = <<>> /\ Loaded(r, i) = h[len]
               /\ \A n \in 0 .. len - 1 :
                     h[n + 1] = IF Passes(r, i, n + 1) THEN Append(h[n], n + 1) ELSE h[n]
    BY LoadedUpto
<1>2. len \in Nat
    BY SeqLength
<1> HIDE DEF len
<1> DEFINE T == {n \in Nat : n <= len => IsSeq(h[n])}
<1>3. 0 \in T
    BY <1>1, SeqEmpty
<1>4. ASSUME NEW n \in Nat, n \in T PROVE n + 1 \in T
  <2> SUFFICES ASSUME n + 1 <= len PROVE IsSeq(h[n + 1])
      OBVIOUS
  <2>1. n \in 0 .. len - 1 /\ IsSeq(h[n])
      BY <1>2, <1>4
  <2>2. IsSeq(Append(h[n], n + 1))
      BY <2>1, SeqAppend
  <2> QED BY <1>1, <2>1, <2>2
<1>5. len \in T
  <2> HIDE DEF T
  <2> QED BY <1>2, <1>3, <1>4, SetInduction
<1> QED BY <1>1, <1>2, <1>5

\* There are no more of them than the row has tokens.
LEMMA LoadedCount ==
    ASSUME IsSeq(tree_bc.tokensInfo), NEW r, NEW i, NEW offset \in Nat, NEW num \in Int,
           SlotsWithin(tree_bc.tokensInfo, i, offset, num)
    PROVE  Len(Loaded(r, i)) = 0 \/ Len(Loaded(r, i)) <= num
<1> DEFINE info == tree_bc.tokensInfo
           len == Len(info)
<1>1. PICK h : /\ h[0] = <<>> /\ Loaded(r, i) = h[len]
               /\ \A n \in 0 .. len - 1 :
                     h[n + 1] = IF Passes(r, i, n + 1) THEN Append(h[n], n + 1) ELSE h[n]
    BY LoadedUpto
<1>2. len \in Nat /\ DOMAIN info = 1 .. len
    BY SeqLength
<1> HIDE DEF len
<1> DEFINE Few(n) == /\ IsSeq(h[n])
                     /\ Len(h[n]) = 0 \/ (Len(h[n]) <= n - offset /\ Len(h[n]) <= num)
           T == {n \in Nat : n <= len => Few(n)}
<1>3. 0 \in T
    BY <1>1, SeqEmpty
<1>4. ASSUME NEW n \in Nat, n \in T PROVE n + 1 \in T
  <2> SUFFICES ASSUME n + 1 <= len PROVE Few(n + 1)
      OBVIOUS
  <2>1. n \in 0 .. len - 1 /\ Few(n)
      BY <1>2, <1>4
  <2>2. CASE ~Passes(r, i, n + 1)
    <3>1. h[n + 1] = h[n]
        BY <1>1, <2>1, <2>2
    <3>2. Len(h[n]) \in Nat
        BY <2>1, SeqLength
    <3> QED BY <2>1, <3>1, <3>2
  <2>3. CASE Passes(r, i, n + 1)
    <3>1. h[n + 1] = Append(h[n], n + 1)
        BY <1>1, <2>1, <2>3
    <3>2. IsSeq(h[n + 1]) /\ Len(h[n + 1]) = Len(h[n]) + 1 /\ Len(h[n]) \in Nat
      <4>1. IsSeq(h[n])
          BY <2>1
      <4> QED BY <3>1, <4>1, SeqAppend, SeqLength
    <3>3. offset < n + 1 /\ n + 1 <= offset + num
      <4>1. n + 1 \in DOMAIN info /\ info[n + 1].row = i
          BY <1>2, <2>3 DEF Passes
      <4> QED BY <4>1 DEF SlotsWithin
    <3> QED BY <2>1, <3>2, <3>3
  <2> QED BY <2>2, <2>3
<1>5. len \in T
  <2> HIDE DEF T
  <2> QED BY <1>2, <1>3, <1>4, SetInduction
<1> QED BY <1>1, <1>2, <1>5

\* A row whose last token has a slot is passed one at least.
LEMMA LoadedSome ==
    ASSUME IsSeq(tree_bc.tokensInfo), NEW r, NEW i,
           SlotFrom(tree_bc.tokensInfo, i, Size(r) - 1)
    PROVE  Len(Loaded(r, i)) >= 1
<1> DEFINE info == tree_bc.tokensInfo
           len == Len(info)
<1>1. PICK h : /\ h[0] = <<>> /\ Loaded(r, i) = h[len]
               /\ \A n \in 0 .. len - 1 :
                     h[n + 1] = IF Passes(r, i, n + 1) THEN Append(h[n], n + 1) ELSE h[n]
    BY LoadedUpto
<1>2. len \in Nat /\ DOMAIN info = 1 .. len
    BY SeqLength
<1>3. PICK s \in 1 .. len : Passes(r, i, s)
    BY <1>2 DEF SlotFrom, Passes
<1> HIDE DEF len
<1> DEFINE T == {n \in Nat : n <= len => IsSeq(h[n]) /\ (s <= n => Len(h[n]) >= 1)}
<1>4. 0 \in T
    BY <1>1, <1>2, SeqEmpty
<1>5. ASSUME NEW n \in Nat, n \in T PROVE n + 1 \in T
  <2> SUFFICES ASSUME n + 1 <= len
               PROVE  IsSeq(h[n + 1]) /\ (s <= n + 1 => Len(h[n + 1]) >= 1)
      OBVIOUS
  <2>1. n \in 0 .. len - 1 /\ IsSeq(h[n]) /\ (s <= n => Len(h[n]) >= 1) /\ Len(h[n]) \in Nat
      BY <1>2, <1>5, SeqLength
  <2>2. CASE ~Passes(r, i, n + 1)
    <3>1. h[n + 1] = h[n]
        BY <1>1, <2>1, <2>2
    <3>2. s <= n + 1 => s <= n
        BY <1>2, <1>3, <2>2
    <3> QED BY <2>1, <3>1, <3>2
  <2>3. CASE Passes(r, i, n + 1)
    <3>1. h[n + 1] = Append(h[n], n + 1)
        BY <1>1, <2>1, <2>3
    <3>2. IsSeq(h[n + 1]) /\ Len(h[n + 1]) = Len(h[n]) + 1
        BY <2>1, <3>1, SeqAppend
    <3> QED BY <2>1, <3>2
  <2> QED BY <2>2, <2>3
<1>6. len \in T
  <2> HIDE DEF T
  <2> QED BY <1>2, <1>4, <1>5, SetInduction
<1> QED BY <1>1, <1>2, <1>3, <1>6

-----------------------------------------------------------------------------
(* traverse_verify_tree *)

\* The state of the loop after the root, and after a further node.
FirstVisit(inputs, outputs, commits) ==
    [verified |-> << outputs[1] >>, committed |-> << commits[1] >>, slot |-> -1,
     asserted |-> commits[1][1] = inputs[1].depth]
Visit(inputs, outputs, commits, acc, k) ==
    IF inputs[k] # Last(acc.verified) THEN acc
    ELSE IF acc.slot \in {-1, LayerSlot(inputs, k)}
    THEN [verified |-> Append(acc.verified, outputs[k]),
          committed |-> Append(acc.committed, commits[k]),
          slot |-> LayerSlot(inputs, k),
          asserted |-> acc.asserted /\ commits[k][1] = inputs[k].depth]
    ELSE [acc EXCEPT !.asserted = acc.asserted /\ commits[k][1] = inputs[k].depth]
VisitsUpto(h, inputs, outputs, commits, n) ==
    h = [k \in 1 .. n |-> IF k = 1 THEN FirstVisit(inputs, outputs, commits)
                          ELSE Visit(inputs, outputs, commits, h[k - 1], k)]

\* The nodes are visited one after the other.
LEMMA TraversedUpto ==
    ASSUME NEW inputs, NEW outputs, NEW commits, Len(outputs) \in Nat \ {0}
    PROVE  \E h : /\ h[1] = FirstVisit(inputs, outputs, commits)
                  /\ \A k \in 1 .. Len(outputs) - 1 :
                        h[k + 1] = Visit(inputs, outputs, commits, h[k], k + 1)
                  /\ TraverseVerifyTree(inputs, outputs, commits) = h[Len(outputs)]
<1> DEFINE len == Len(outputs)
           T == {n \in Nat : \E h : VisitsUpto(h, inputs, outputs, commits, n)}
<1>1. 0 \in T
  <2> DEFINE h == [k \in 1 .. 0 |-> 0]
  <2>1. h = [k \in 1 .. 0 |-> IF k = 1 THEN FirstVisit(inputs, outputs, commits)
                              ELSE Visit(inputs, outputs, commits, h[k - 1], k)]
      OBVIOUS
  <2> QED BY <2>1 DEF VisitsUpto
<1>2. ASSUME NEW n \in Nat, n \in T PROVE n + 1 \in T
  <2>1. PICK h : VisitsUpto(h, inputs, outputs, commits, n)
      BY <1>2
  <2> DEFINE g == [k \in 1 .. n + 1 |->
                     IF k = 1 THEN FirstVisit(inputs, outputs, commits)
                     ELSE Visit(inputs, outputs, commits, h[k - 1], k)]
  <2>2. \A k \in 1 .. n : g[k] = h[k]
      BY <2>1 DEF VisitsUpto
  <2>3. \A k \in 1 .. n + 1 : k # 1 => k - 1 \in 1 .. n
      OBVIOUS
  <2>4. g = [k \in 1 .. n + 1 |->
               IF k = 1 THEN FirstVisit(inputs, outputs, commits)
               ELSE Visit(inputs, outputs, commits, g[k - 1], k)]
      BY <2>2, <2>3
  <2>5. VisitsUpto(g, inputs, outputs, commits, n + 1)
      BY <2>4 DEF VisitsUpto
  <2> QED BY <2>5
<1>3. \E h : VisitsUpto(h, inputs, outputs, commits, len)
  <2> HIDE DEF T, len
  <2>1. len \in T
      BY <1>1, <1>2, SetInduction DEF len
  <2> QED BY <2>1 DEF T
<1> DEFINE h == CHOOSE h : VisitsUpto(h, inputs, outputs, commits, len)
<1>4. VisitsUpto(h, inputs, outputs, commits, len)
    BY <1>3
<1>5. TraverseVerifyTree(inputs, outputs, commits) = h[len]
    BY DEF TraverseVerifyTree, VisitsUpto, FirstVisit, Visit
<1> HIDE DEF h, len
<1>6. \A k \in 1 .. len : h[k] = IF k = 1 THEN FirstVisit(inputs, outputs, commits)
                                 ELSE Visit(inputs, outputs, commits, h[k - 1], k)
    BY <1>4, Zenon DEF VisitsUpto
<1>7. h[1] = FirstVisit(inputs, outputs, commits)
    BY <1>6 DEF len
<1>8. \A k \in 1 .. len - 1 : h[k + 1] = Visit(inputs, outputs, commits, h[k], k + 1)
  <2> SUFFICES ASSUME NEW k \in 1 .. len - 1
               PROVE  h[k + 1] = Visit(inputs, outputs, commits, h[k], k + 1)
      OBVIOUS
  <2>1. k + 1 \in 1 .. len /\ k + 1 # 1 /\ (k + 1) - 1 = k
      BY DEF len
  <2> QED BY <1>6, <2>1
<1> QED BY <1>5, <1>7, <1>8 DEF len

\* A tree as it is sent to the large model: the root first, at its depth.
SerialTree(tree, root) ==
    /\ IsSeq(tree) /\ 1 \in DOMAIN tree
    /\ tree[1].depth = root
    /\ \A k \in DOMAIN tree : tree[k].depth \in root .. root + MaxBeamDepth

\* The path of verified tokens, as long as the assertions hold: one for each depth
\* from below the root.
VerifiedPath(acc, root) ==
    /\ IsSeq(acc.verified)
    /\ Len(acc.verified) \in 1 .. MaxBeamDepth + 1
    /\ acc.verified[1].depth = root + 1
    /\ acc.verified[Len(acc.verified)].depth = root + Len(acc.verified)

\* The outputs are one deeper than the nodes they follow.
OutputsOf(outputs, commits) ==
    \A k \in 1 .. Len(outputs) : outputs[k].depth = commits[k][1] + 1

\* One node more.
LEMMA VisitKeepsPath ==
    ASSUME NEW inputs, NEW outputs, NEW commits, NEW root \in Int,
           SerialTree(inputs, root), OutputsOf(outputs, commits),
           NEW k \in 1 .. Len(outputs), k \in DOMAIN inputs,
           NEW acc, acc.asserted => VerifiedPath(acc, root),
           DOMAIN acc = {"verified", "committed", "slot", "asserted"},
           Visit(inputs, outputs, commits, acc, k).asserted
    PROVE  VerifiedPath(Visit(inputs, outputs, commits, acc, k), root)
<1> DEFINE after == Visit(inputs, outputs, commits, acc, k)
           v == acc.verified
           w == Append(v, outputs[k])
<1>1. CASE inputs[k] # Last(v)
  <2>1. after = acc
      BY <1>1 DEF Visit
  <2> QED BY <2>1
<1>2. CASE inputs[k] = Last(v) /\ acc.slot \in {-1, LayerSlot(inputs, k)}
  <2>1. /\ after.verified = w
        /\ after.asserted = (acc.asserted /\ commits[k][1] = inputs[k].depth)
      BY <1>2 DEF Visit
  <2>2. acc.asserted /\ commits[k][1] = inputs[k].depth
      BY <2>1
  <2>3. /\ IsSeq(v) /\ Len(v) \in 1 .. MaxBeamDepth + 1 /\ v[1].depth = root + 1
        /\ v[Len(v)].depth = root + Len(v)
      BY <2>2 DEF VerifiedPath
  <2>4. inputs[k].depth = root + Len(v) /\ Len(v) \in Nat
      BY <1>2, <2>3, DepthIsNatural DEF Last
  <2>5. Len(v) <= MaxBeamDepth
    <3>1. inputs[k].depth \in root .. root + MaxBeamDepth
        BY DEF SerialTree
    <3> QED BY <2>4, <3>1, DepthIsNatural
  <2>6. outputs[k].depth = root + (Len(v) + 1)
    <3>1. outputs[k].depth = commits[k][1] + 1
        BY DEF OutputsOf
    <3> QED BY <2>2, <2>4, <3>1
  <2>7. /\ IsSeq(w) /\ Len(w) = Len(v) + 1 /\ w[Len(v) + 1] = outputs[k]
        /\ \A j \in 1 .. Len(v) : w[j] = v[j]
      BY <2>3, SeqAppend
  <2> HIDE DEF v, w
  <2>8. w[1] = v[1]
      BY <2>3, <2>4, <2>7
  <2>9. /\ Len(w) \in 1 .. MaxBeamDepth + 1 /\ w[1].depth = root + 1
        /\ w[Len(w)].depth = root + Len(w)
      BY <2>3, <2>4, <2>5, <2>6, <2>7, <2>8, DepthIsNatural
  <2> QED BY <2>1, <2>7, <2>9 DEF VerifiedPath
<1>3. CASE inputs[k] = Last(v) /\ acc.slot \notin {-1, LayerSlot(inputs, k)}
  <2>1. after = [acc EXCEPT !.asserted = acc.asserted /\ commits[k][1] = inputs[k].depth]
      BY <1>3 DEF Visit
  <2>2. after.verified = acc.verified
        /\ after.asserted = (acc.asserted /\ commits[k][1] = inputs[k].depth)
      BY <2>1
  <2> QED BY <2>2 DEF VerifiedPath
<1> QED BY <1>1, <1>2, <1>3

\* traverse_verify_tree verifies at most one token for each layer and one more.
LEMMA TraversalIsPath ==
    ASSUME NEW inputs, NEW outputs, NEW commits, NEW root \in Int,
           SerialTree(inputs, root), OutputsOf(outputs, commits),
           Len(outputs) \in Nat \ {0}, Len(outputs) <= Len(inputs),
           TraverseVerifyTree(inputs, outputs, commits).asserted
    PROVE  VerifiedPath(TraverseVerifyTree(inputs, outputs, commits), root)
<1> DEFINE len == Len(outputs)
<1>1. PICK h : /\ h[1] = FirstVisit(inputs, outputs, commits)
               /\ \A k \in 1 .. len - 1 :
                     h[k + 1] = Visit(inputs, outputs, commits, h[k], k + 1)
               /\ TraverseVerifyTree(inputs, outputs, commits) = h[len]
    BY TraversedUpto
<1> DEFINE Good(k) == /\ DOMAIN h[k] = {"verified", "committed", "slot", "asserted"}
                      /\ h[k].asserted => VerifiedPath(h[k], root)
           T == {n \in Nat : n + 1 <= len => Good(n + 1)}
<1>2. len \in Nat \ {0} /\ DOMAIN inputs = 1 .. Len(inputs) /\ Len(inputs) \in Nat
    BY SeqLength DEF SerialTree
<1>3. 0 \in T
  <2> DEFINE s == << outputs[1] >>
  <2>1. /\ DOMAIN h[1] = {"verified", "committed", "slot", "asserted"}
        /\ h[1].verified = s
        /\ h[1].asserted = (commits[1][1] = inputs[1].depth)
      BY <1>1 DEF FirstVisit
  <2>2. IsSeq(s) /\ Len(s) = 1 /\ s[1] = outputs[1]
    <3>1. s \in Seq({outputs[1]})
        OBVIOUS
    <3> QED BY <3>1 DEF IsSeq
  <2>3. ASSUME h[1].asserted PROVE VerifiedPath(h[1], root)
    <3>1. outputs[1].depth = root + 1
      <4>1. commits[1][1] = root
          BY <2>1, <2>3 DEF SerialTree
      <4>2. outputs[1].depth = commits[1][1] + 1
          BY <1>2 DEF OutputsOf
      <4> QED BY <4>1, <4>2
    <3> HIDE DEF s
    <3> QED BY <2>1, <2>2, <3>1, DepthIsNatural DEF VerifiedPath
  <2> QED BY <2>1, <2>3
<1>4. ASSUME NEW n \in Nat, n \in T PROVE n + 1 \in T
  <2> SUFFICES ASSUME (n + 1) + 1 <= len PROVE Good((n + 1) + 1)
      OBVIOUS
  <2> DEFINE k == (n + 1) + 1
             acc == h[n + 1]
  <2>1. n + 1 \in 1 .. len - 1 /\ k \in 1 .. len /\ k \in DOMAIN inputs
      BY <1>2
  <2>2. Good(n + 1)
      BY <1>2, <1>4
  <2>3. h[k] = Visit(inputs, outputs, commits, acc, k)
      BY <1>1, <2>1
  <2>4. DOMAIN h[k] = {"verified", "committed", "slot", "asserted"}
      BY <2>2, <2>3 DEF Visit
  <2>5. ASSUME h[k].asserted PROVE VerifiedPath(h[k], root)
    <3>1. /\ DOMAIN acc = {"verified", "committed", "slot", "asserted"}
          /\ acc.asserted => VerifiedPath(acc, root)
        BY <2>2
    <3>2. k \in 1 .. Len(outputs)
        BY <2>1
    <3> HIDE DEF acc, k, Good, T
    <3> QED BY <2>1, <2>3, <2>5, <3>1, <3>2, VisitKeepsPath
  <2> QED BY <2>4, <2>5
<1>5. \A n \in Nat : n \in T
  <2> HIDE DEF T
  <2> QED BY <1>3, <1>4, SetInduction
<1>6. Good(len)
  <2> HIDE DEF len, Good
  <2>1. len - 1 \in Nat /\ (len - 1) + 1 = len
      BY <1>2
  <2>2. (len - 1) + 1 <= len => Good((len - 1) + 1)
      BY <1>5, <2>1
  <2>3. len <= len
      BY <1>2
  <2> QED BY <2>1, <2>2, <2>3
<1> QED BY <1>1, <1>6

-----------------------------------------------------------------------------
(* MaskIsAncestry, of a tree that is in the batch. *)

\* The layers up to d are stored; each multiplies the nodes of those above it.
LayersRight(tree, d) ==
    /\ DOMAIN tree = 0 .. MaxBeamDepth
    /\ \A k \in 0 .. MaxBeamDepth : IsSeq(tree[k])
    /\ d > 0 => Len(tree[0]) = 1
    /\ \A k \in 0 .. d : Lengths(tree)[k] \in 1 .. MaxBranches
    /\ Multiplies(Lengths(tree), d)

\* A tree that was cut to num nodes and is in the batch with its mask.
TreeSent(row, r) ==
    /\ LayersRight(r.beam_tree, MaxBeamDepth)
    /\ MaskRight(row.causalMask, Lengths(r.beam_tree), MaxBeamDepth)
    /\ row.causalMask.non_tree_cache_size = row.first_depth
    /\ row.num \in Nat /\ row.num <= FirstNode(Lengths(r.beam_tree))[MaxBeamDepth + 1]

\* The numbers of nodes above the layers, as MaskIsAncestry computes them.
NodesAbove(layers) ==
    LET first[k \in 0 .. MaxBeamDepth + 1] ==
            IF k = 0 THEN 0 ELSE first[k - 1] + Len(layers[k - 1])
    IN  first

\* They are those of the layers' lengths once there is a root.
LEMMA NodesAboveAre ==
    ASSUME NEW tree, Len(tree[0]) = 1
    PROVE  NodesAbove(tree) = FirstNode(Lengths(tree))
<1> DEFINE L == Lengths(tree)
           f == FirstNode(L)
           g == NodesAbove(tree)
           T == {k \in Nat : k <= MaxBeamDepth + 1 => g[k] = f[k]}
<1>1. \A k \in 0 .. MaxBeamDepth : L[k] = Len(tree[k])
    BY DEF Lengths
<1>2. f = [k \in 0 .. MaxBeamDepth + 1 |-> IF k = 0 THEN 0 ELSE f[k - 1] + L[k - 1]]
    BY FirstNodeUpto DEF FirstUpto
<1> HIDE DEF f, L
<1>3. \A k \in 0 .. MaxBeamDepth + 1 : k # 0 => k - 1 \in 0 .. MaxBeamDepth
    BY DepthIsNatural
<1>4. f = [k \in 0 .. MaxBeamDepth + 1 |->
              IF k = 0 THEN 0 ELSE f[k - 1] + Len(tree[k - 1])]
    BY <1>1, <1>2, <1>3
<1>5. g = [k \in 0 .. MaxBeamDepth + 1 |->
              IF k = 0 THEN 0 ELSE g[k - 1] + Len(tree[k - 1])]
    BY <1>4 DEF NodesAbove
<1> HIDE DEF g
<1>6. 0 \in T
  <2>1. 0 \in 0 .. MaxBeamDepth + 1
      BY DepthIsNatural
  <2> QED BY <1>4, <1>5, <2>1
<1>7. ASSUME NEW k \in Nat, k \in T PROVE k + 1 \in T
  <2> SUFFICES ASSUME k + 1 <= MaxBeamDepth + 1 PROVE g[k + 1] = f[k + 1]
      OBVIOUS
  <2> DEFINE n == k + 1
  <2>1. n \in 0 .. MaxBeamDepth + 1 /\ n # 0 /\ n - 1 = k /\ g[k] = f[k]
      BY <1>7, DepthIsNatural
  <2> HIDE DEF n
  <2>2. f[n] = f[n - 1] + Len(tree[n - 1])
      BY <1>4, <2>1
  <2>3. g[n] = g[n - 1] + Len(tree[n - 1])
      BY <1>5, <2>1
  <2>4. g[n] = f[n]
      BY <2>1, <2>2, <2>3
  <2> QED BY <2>4 DEF n
<1>8. \A k \in Nat : k \in T
  <2> HIDE DEF T
  <2> QED BY <1>6, <1>7, SetInduction
<1>9. \A k \in 0 .. MaxBeamDepth + 1 : g[k] = f[k]
    BY <1>8
<1> QED BY <1>4, <1>5, <1>9 DEF f, g, L

\* The quotient of two layers' lengths, by way of a layer between them.
LEMMA SharesCompose ==
    ASSUME NEW L, NEW d \in Nat, Multiplies(L, d), NEW k \in 0 .. d, NEW l \in 0 .. k,
           l < k, NEW j \in Nat
    PROVE  Share(L, k, j, l) = Share(L, k, j, l + 1) \div (L[l + 1] \div L[l])
<1>1. l \in 0 .. d /\ l + 1 \in 0 .. d /\ l <= l + 1 /\ l + 1 <= k
    OBVIOUS
<1>2. L[l] \in Nat \ {0} /\ L[l + 1] \in Nat \ {0}
    BY <1>1 DEF Multiplies
<1>3. PICK w \in Nat \ {0} : L[l + 1] = L[l] * w
    BY <1>1 DEF Multiplies
<1>4. PICK v \in Nat \ {0} : L[k] = L[l + 1] * v
    BY <1>1 DEF Multiplies
<1>5. w * v \in Nat \ {0} /\ v * w = w * v
    BY ExactQuotient
<1>6. L[k] = L[l] * (w * v)
    BY <1>2, <1>3, <1>4
<1>7. L[l + 1] \div L[l] = w
    BY <1>2, <1>3, ExactQuotient
<1>8. L[k] \div L[l + 1] = v
    BY <1>2, <1>4, ExactQuotient
<1>9. L[k] \div L[l] = w * v
    BY <1>2, <1>5, <1>6, ExactQuotient
<1>10. (j \div v) \div w = j \div (w * v)
    BY QuotientTwice
<1> QED BY <1>7, <1>8, <1>9, <1>10 DEF Share

\* A node is in its own share.
LEMMA OwnShare ==
    ASSUME NEW L, NEW k, L[k] \in Nat \ {0}, NEW j \in Nat
    PROVE  Share(L, k, j, k) = j
<1>1. L[k] * 1 = L[k]
    OBVIOUS
<1>2. L[k] \div L[k] = 1
    BY <1>1, ExactQuotient
<1>3. j * 1 <= j /\ j < (j + 1) * 1
    OBVIOUS
<1>4. j \div 1 = j
    BY <1>3, Quotient
<1> QED BY <1>2, <1>4 DEF Share

\* The ancestors of a node are the nodes in whose shares it is.
LEMMA AncestorsAre ==
    ASSUME NEW tree, LayersRight(tree, MaxBeamDepth), Len(tree[0]) = 1,
           NEW k \in 0 .. MaxBeamDepth, NEW j \in Nat
    PROVE  Ancestors(tree, k, j)
             = {<< l, Share(Lengths(tree), k, j, l) >> : l \in 0 .. k}
<1> DEFINE L == Lengths(tree)
           Up(u) == u = [l \in 0 .. k |-> IF l = k THEN j
                                           ELSE ParentSlot(tree, l + 1, u[l + 1])]
           g == [l \in 0 .. k |-> Share(L, k, j, l)]
           up == CHOOSE u : Up(u)
<1>0. MaxBeamDepth \in Nat
    BY DepthIsNatural
<1>1. \A l \in 0 .. MaxBeamDepth : L[l] = Len(tree[l]) /\ L[l] \in Nat \ {0}
    BY DEF LayersRight, Lengths
<1>2. Multiplies(L, MaxBeamDepth)
    BY DEF LayersRight
<1> HIDE DEF L
<1>3. \A l \in 0 .. k : l # k => l < k /\ l + 1 \in 0 .. k /\ l + 1 - 1 = l
                                 /\ l + 1 \in 0 .. MaxBeamDepth /\ l \in 0 .. MaxBeamDepth
    BY <1>0
<1>4. \A l \in 0 .. k : l # k =>
          Share(L, k, j, l) = ParentSlot(tree, l + 1, Share(L, k, j, l + 1))
  <2> SUFFICES ASSUME NEW l \in 0 .. k, l # k
               PROVE  Share(L, k, j, l) = ParentSlot(tree, l + 1, Share(L, k, j, l + 1))
      OBVIOUS
  <2>1. Share(L, k, j, l) = Share(L, k, j, l + 1) \div (L[l + 1] \div L[l])
      BY <1>0, <1>2, <1>3, SharesCompose
  <2>2. L[l + 1] = Len(tree[l + 1]) /\ L[l] = Len(tree[l]) /\ l + 1 - 1 = l
      BY <1>1, <1>3
  <2> QED BY <2>1, <2>2 DEF ParentSlot
<1>5. Share(L, k, j, k) = j
    BY <1>1, OwnShare
<1>6. Up(g)
  <2>1. \A l \in 0 .. k : g[l] = IF l = k THEN j ELSE ParentSlot(tree, l + 1, g[l + 1])
      BY <1>3, <1>4, <1>5
  <2> QED BY <2>1
<1>7. Up(up)
    BY <1>6
<1>8. Ancestors(tree, k, j) = {<< l, up[l] >> : l \in 0 .. k}
    BY DEF Ancestors
<1> HIDE DEF up, g
<1>9. \A l \in 0 .. k : up[l] = g[l]
  <2> DEFINE T == {n \in Nat : n <= k => up[k - n] = g[k - n]}
  <2>1. k \in 0 .. k /\ k - 0 = k
      OBVIOUS
  <2>2. 0 \in T
      BY <1>6, <1>7, <2>1
  <2>3. ASSUME NEW n \in Nat, n \in T PROVE n + 1 \in T
    <3> SUFFICES ASSUME n + 1 <= k PROVE up[k - (n + 1)] = g[k - (n + 1)]
        OBVIOUS
    <3> DEFINE l == k - (n + 1)
    <3>1. l \in 0 .. k /\ l # k /\ l + 1 = k - n /\ n <= k
        OBVIOUS
    <3>2. up[l + 1] = g[l + 1]
        BY <2>3, <3>1
    <3> HIDE DEF l
    <3>3. up[l] = ParentSlot(tree, l + 1, up[l + 1])
        BY <1>7, <3>1
    <3>4. g[l] = ParentSlot(tree, l + 1, g[l + 1])
        BY <1>6, <3>1
    <3> QED BY <3>2, <3>3, <3>4 DEF l
  <2>4. \A n \in Nat : n \in T
    <3> HIDE DEF T
    <3> QED BY <2>2, <2>3, SetInduction
  <2> TAKE l \in 0 .. k
  <2>5. k - l \in Nat /\ k - l <= k /\ k - (k - l) = l
      OBVIOUS
  <2> QED BY <2>4, <2>5
<1>10. \A l \in 0 .. k : up[l] = Share(L, k, j, l)
    BY <1>9 DEF g
<1> QED BY <1>8, <1>10 DEF L

\* A tree has no more nodes than a mask has bits.
LEMMA NodesWithin ==
    ASSUME NEW tree, LayersRight(tree, MaxBeamDepth)
    PROVE  FirstNode(Lengths(tree))[MaxBeamDepth + 1] <= MaxBranches * MaxBeamDepth + 1
<1> DEFINE L == Lengths(tree)
           f == FirstNode(L)
           T == {k \in Nat : k <= MaxBeamDepth =>
                                f[k + 1] \in Nat /\ f[k + 1] <= MaxBranches * k + 1}
<1>0. MaxBeamDepth \in Nat /\ MaxBranches \in Nat
    BY DepthIsNatural
<1>1. \A k \in 0 .. MaxBeamDepth : L[k] \in Nat /\ L[k] <= MaxBranches
  <2>1. \A k \in 0 .. MaxBeamDepth : L[k] \in 1 .. MaxBranches
      BY DEF LayersRight
  <2> QED BY <2>1, <1>0
<1>2. f[0] = 0 /\ \A k \in 0 .. MaxBeamDepth : f[k + 1] = f[k] + L[k]
    BY FirstNodeStep
<1>3. L[0] = 1
    BY <1>0 DEF Lengths
<1> HIDE DEF f, L
<1>4. 0 \in T
  <2>1. f[0 + 1] = f[0] + L[0]
      BY <1>0, <1>2
  <2>2. MaxBranches * 0 + 1 = 1
      BY <1>0
  <2> QED BY <1>2, <1>3, <2>1, <2>2
<1>5. ASSUME NEW k \in Nat, k \in T PROVE k + 1 \in T
  <2> SUFFICES ASSUME k + 1 <= MaxBeamDepth
               PROVE  f[k + 1 + 1] \in Nat /\ f[k + 1 + 1] <= MaxBranches * (k + 1) + 1
      OBVIOUS
  <2>1. k + 1 \in 0 .. MaxBeamDepth /\ f[k + 1] \in Nat /\ f[k + 1] <= MaxBranches * k + 1
      BY <1>0, <1>5
  <2>2. f[k + 1 + 1] = f[k + 1] + L[k + 1] /\ L[k + 1] \in Nat /\ L[k + 1] <= MaxBranches
      BY <1>1, <1>2, <2>1
  <2>3. MaxBranches * (k + 1) = MaxBranches * k + MaxBranches /\ MaxBranches * k \in Nat
      BY <1>0
  <2> QED BY <1>0, <2>1, <2>2, <2>3
<1>6. \A k \in Nat : k \in T
  <2> HIDE DEF T
  <2> QED BY <1>4, <1>5, SetInduction
<1> QED BY <1>0, <1>6 DEF f, L

\* Pairs of a layer and a slot, one for each layer down to k.
OnePerLayer(A, s, k) == A = {<< l, s[l] >> : l \in 0 .. k}
SumsOf(f, A, s, k) == {f[a[1]] + a[2] : a \in A} = {f[l] + s[l] : l \in 0 .. k}

\* A set of sums, by the pairs it is of or by their first members.
LEMMA PairSums ==
    ASSUME NEW f, NEW s, NEW k, NEW A, OnePerLayer(A, s, k)
    PROVE  SumsOf(f, A, s, k)
<1>1. \A l : << l, s[l] >>[1] = l /\ << l, s[l] >>[2] = s[l]
    OBVIOUS
<1>2. ASSUME NEW x \in {f[a[1]] + a[2] : a \in A}
      PROVE  x \in {f[l] + s[l] : l \in 0 .. k}
  <2>1. PICK a \in A : x = f[a[1]] + a[2]
      BY <1>2
  <2>2. PICK l \in 0 .. k : a = << l, s[l] >>
      BY DEF OnePerLayer
  <2>3. x = f[l] + s[l]
      BY <2>1, <2>2
  <2> QED BY <2>3
<1>3. ASSUME NEW x \in {f[l] + s[l] : l \in 0 .. k}
      PROVE  x \in {f[a[1]] + a[2] : a \in A}
  <2>1. PICK l \in 0 .. k : x = f[l] + s[l]
      BY <1>3
  <2> DEFINE a == << l, s[l] >>
  <2>2. a \in A /\ a[1] = l /\ a[2] = s[l]
      BY <1>1 DEF OnePerLayer
  <2> HIDE DEF a
  <2>3. x = f[a[1]] + a[2]
      BY <2>1, <2>2
  <2> QED BY <2>2, <2>3
<1> QED BY <1>2, <1>3 DEF SumsOf

\* What MaskIsAncestry says of a row.
MaskSaysOf(row, layers) ==
    /\ row.causalMask.non_tree_cache_size = row.first_depth
    /\ \A k \in 0 .. MaxBeamDepth : \A j \in 0 .. Len(layers[k]) - 1 :
          NodesAbove(layers)[k] + j < row.num =>
             {n \in 0 .. row.num - 1 :
                 NodesAbove(layers)[k] + j \in row.causalMask.mask[n]}
               = {NodesAbove(layers)[a[1]] + a[2] : a \in Ancestors(layers, k, j)}

\* The tokens that see a node of a tree that was sent are those it descends from.
LEMMA SentMask ==
    ASSUME NEW row, NEW r, TreeSent(row, r)
    PROVE  MaskSaysOf(row, r.beam_tree)
<1> DEFINE tree == r.beam_tree
           L == Lengths(tree)
           f == FirstNode(L)
           mask == row.causalMask.mask
           num == row.num
<1>0. MaxBeamDepth \in Nat \ {0} /\ MaxBranches \in Nat \ {0}
    BY DepthIsNatural
<1>1. LayersRight(tree, MaxBeamDepth)
    BY DEF TreeSent
<1>2. Len(tree[0]) = 1
    BY <1>0, <1>1 DEF LayersRight
<1>3. NodesAbove(tree) = f
    BY <1>2, NodesAboveAre
<1>4. \A k \in 0 .. MaxBeamDepth : L[k] = Len(tree[k]) /\ L[k] \in Nat \ {0}
  <2>1. \A k \in 0 .. MaxBeamDepth : L[k] \in 1 .. MaxBranches
      BY <1>1 DEF LayersRight
  <2>2. \A k \in 0 .. MaxBeamDepth : L[k] = Len(tree[k])
      BY <1>2 DEF Lengths
  <2> HIDE DEF L
  <2> QED BY <1>0, <2>1, <2>2
<1>5. IsLengths(L)
    BY <1>4 DEF IsLengths
<1>6. Multiplies(L, MaxBeamDepth)
    BY <1>1 DEF LayersRight
<1>7. row.causalMask.non_tree_cache_size = row.first_depth
    BY DEF TreeSent
<1>8. num \in Nat /\ num <= MaxBranches * MaxBeamDepth + 1
  <2>1. num \in Nat /\ num <= f[MaxBeamDepth + 1]
      BY DEF TreeSent
  <2>2. f[MaxBeamDepth + 1] <= MaxBranches * MaxBeamDepth + 1
      BY <1>1, NodesWithin
  <2>3. f[MaxBeamDepth + 1] \in Nat
      BY <1>0, <1>5, FirstNodeNatural
  <2> HIDE DEF f, num
  <2> QED BY <1>0, <2>1, <2>2, <2>3
<1>9. \A n \in 0 .. num - 1 : n \in TreeNode
  <2> HIDE DEF num
  <2>1. MaxBranches * MaxBeamDepth \in Nat
      BY <1>0
  <2> QED BY <1>8, <2>1 DEF TreeNode
<1>10. \A k \in 0 .. MaxBeamDepth : \A j \in 0 .. L[k] - 1 : \A n \in TreeNode :
          f[k] + j \in mask[n] <=> \E i \in 0 .. k : n = f[i] + Share(L, k, j, i)
    BY DEF TreeSent, MaskRight
<1>11. ASSUME NEW k \in 0 .. MaxBeamDepth, NEW j \in 0 .. Len(tree[k]) - 1,
              f[k] + j < num
       PROVE  {n \in 0 .. num - 1 : f[k] + j \in mask[n]}
                = {f[a[1]] + a[2] : a \in Ancestors(tree, k, j)}
  <2>1. j \in 0 .. L[k] - 1 /\ j \in Nat
      BY <1>4
  <2>2. Ancestors(tree, k, j) = {<< l, Share(L, k, j, l) >> : l \in 0 .. k}
      BY <1>1, <1>2, <2>1, AncestorsAre
  <2>3. {f[a[1]] + a[2] : a \in Ancestors(tree, k, j)}
          = {f[l] + Share(L, k, j, l) : l \in 0 .. k}
    <3> DEFINE s == [l \in 0 .. k |-> Share(L, k, j, l)]
    <3>1. Ancestors(tree, k, j) = {<< l, s[l] >> : l \in 0 .. k}
        BY <2>2
    <3>2. {f[l] + Share(L, k, j, l) : l \in 0 .. k} = {f[l] + s[l] : l \in 0 .. k}
        OBVIOUS
    <3> DEFINE A == Ancestors(tree, k, j)
    <3> HIDE DEF f, s, A
    <3>3. OnePerLayer(A, s, k)
        BY <3>1 DEF A, OnePerLayer
    <3>4. {f[a[1]] + a[2] : a \in A} = {f[l] + s[l] : l \in 0 .. k}
      <4>1. SumsOf(f, A, s, k)
          BY <3>3, PairSums
      <4> QED BY <4>1 DEF SumsOf
    <3> QED BY <3>2, <3>4 DEF A
  <2> HIDE DEF f, L, mask, num, tree
  <2>4. \A l \in 0 .. k : f[l] + Share(L, k, j, l) \in 0 .. num - 1
    <3> SUFFICES ASSUME NEW l \in 0 .. k PROVE f[l] + Share(L, k, j, l) \in 0 .. num - 1
        OBVIOUS
    <3>1. l \in 0 .. MaxBeamDepth /\ l <= k /\ k \in 0 .. MaxBeamDepth
          /\ l \in 0 .. MaxBeamDepth + 1 /\ k \in 0 .. MaxBeamDepth + 1
        BY <1>0
    <3>2. f[l] \in Nat /\ f[k] \in Nat
        BY <3>1, <1>5, FirstNodeNatural DEF f
    <3>3. CASE l = k
      <4>1. Share(L, k, j, l) = j
          BY <1>4, <2>1, <3>3, OwnShare
      <4> QED BY <1>11, <2>1, <3>2, <3>3, <4>1, <1>8
    <3>4. CASE l < k
      <4>1. PICK w \in Nat \ {0} : L[k] = L[l] * w
          BY <1>6, <3>1 DEF Multiplies
      <4>2. L[l] \in Nat \ {0} /\ L[k] \div L[l] = w
          BY <1>4, <3>1, <4>1, ExactQuotient
      <4>3. L[l] * w \in Nat /\ j < L[l] * w
          BY <2>1, <4>1, <4>2
      <4>4. j \div w \in Nat /\ j \div w < L[l]
          BY <2>1, <4>2, <4>3, InQuotient
      <4>5. Share(L, k, j, l) = j \div w
          BY <4>2 DEF Share
      <4>6. f[l + 1] = f[l] + L[l]
          BY <3>1, FirstNodeStep DEF f
      <4>7. f[l + 1] <= f[k]
        <5>1. l + 1 \in 0 .. MaxBeamDepth + 1 /\ k \in l + 1 .. MaxBeamDepth + 1
            BY <3>1, <3>4, <1>0
        <5> QED BY <5>1, <1>5, FirstNodeGrows DEF f
      <4>8. f[k] + j < num /\ j \in Nat
          BY <1>11, <2>1
      <4>9. f[l] + (j \div w) < f[k]
          BY <3>2, <4>2, <4>4, <4>6, <4>7
      <4>10. f[l] + (j \div w) \in Nat
          BY <3>2, <4>4
      <4> QED BY <1>8, <3>2, <4>5, <4>8, <4>9, <4>10
    <3> QED BY <3>1, <3>3, <3>4
  <2>5. \A n \in 0 .. num - 1 :
           f[k] + j \in mask[n] <=> \E i \in 0 .. k : n = f[i] + Share(L, k, j, i)
      BY <1>9, <1>10, <2>1
  <2>6. {n \in 0 .. num - 1 : f[k] + j \in mask[n]}
          = {f[l] + Share(L, k, j, l) : l \in 0 .. k}
      BY <2>4, <2>5
  <2> QED BY <2>3, <2>6
<1> QED BY <1>3, <1>7, <1>11 DEF MaskSaysOf

-----------------------------------------------------------------------------
(* How many of the verified tokens the next batch takes. *)

\* The first n of these sums.
Before(h, verification, n) ==
    h = [i \in 0 .. n |-> IF i = 0 THEN 0
                          ELSE h[i - 1] + TokensAdded(verification, i - 1, h[i - 1])]

\* The tokens of the rows are counted one after the other.
LEMMA TokensBeforeUpto ==
    ASSUME NEW verification
    PROVE  /\ TokensBefore(verification)[0] = 0
           /\ \A i \in Rows : TokensBefore(verification)[i + 1]
                 = TokensBefore(verification)[i]
                     + TokensAdded(verification, i, TokensBefore(verification)[i])
<1> DEFINE T == {n \in Nat : \E h : Before(h, verification, n)}
<1>1. 0 \in T
  <2> DEFINE h == [i \in 0 .. 0 |-> 0]
  <2>1. h = [i \in 0 .. 0 |-> IF i = 0 THEN 0
                              ELSE h[i - 1] + TokensAdded(verification, i - 1, h[i - 1])]
      OBVIOUS
  <2> QED BY <2>1 DEF Before
<1>2. ASSUME NEW n \in Nat, n \in T PROVE n + 1 \in T
  <2>1. PICK h : Before(h, verification, n)
      BY <1>2
  <2> DEFINE k == [i \in 0 .. n + 1 |-> IF i = 0 THEN 0
                       ELSE h[i - 1] + TokensAdded(verification, i - 1, h[i - 1])]
  <2>2. \A i \in 0 .. n : k[i] = h[i]
      BY <2>1 DEF Before
  <2>3. \A i \in 0 .. n + 1 : i # 0 => i - 1 \in 0 .. n
      OBVIOUS
  <2>4. k = [i \in 0 .. n + 1 |-> IF i = 0 THEN 0
                 ELSE k[i - 1] + TokensAdded(verification, i - 1, k[i - 1])]
      BY <2>2, <2>3
  <2>5. Before(k, verification, n + 1)
      BY <2>4 DEF Before
  <2> QED BY <2>5
<1>3. MaxRequests \in Nat \ {0}
    BY SpecAssumption DEF SpecAssumption
<1>4. \E h : Before(h, verification, MaxRequests)
  <2> HIDE DEF T
  <2>1. MaxRequests \in T
      BY <1>1, <1>2, <1>3, SetInduction
  <2> QED BY <2>1 DEF T
<1> DEFINE h == CHOOSE h : Before(h, verification, MaxRequests)
<1>5. Before(h, verification, MaxRequests)
    BY <1>4
<1>6. TokensBefore(verification) = h
    BY DEF TokensBefore, Before
<1> HIDE DEF h
<1>7. \A i \in 0 .. MaxRequests : h[i] = IF i = 0 THEN 0
          ELSE h[i - 1] + TokensAdded(verification, i - 1, h[i - 1])
    BY <1>5, Zenon DEF Before
<1>8. h[0] = 0
    BY <1>3, <1>7
<1>9. \A i \in Rows : h[i + 1] = h[i] + TokensAdded(verification, i, h[i])
  <2> SUFFICES ASSUME NEW i \in Rows
               PROVE  h[i + 1] = h[i] + TokensAdded(verification, i, h[i])
      OBVIOUS
  <2> DEFINE n == i + 1
  <2>1. n \in 0 .. MaxRequests /\ n # 0 /\ n - 1 = i
      BY <1>3 DEF Rows
  <2> HIDE DEF n
  <2>2. h[n] = h[n - 1] + TokensAdded(verification, n - 1, h[n - 1])
      BY <1>7, <2>1
  <2> QED BY <2>1, <2>2 DEF n
<1> QED BY <1>6, <1>8, <1>9

\* The verified paths are no longer than a tree is deep, and one.
PathsBounded(verification) ==
    \A i \in DOMAIN verification : Len(verification[i].verified) \in 1 .. MaxBeamDepth + 1

\* A row adds its verified tokens when there is room for them.
LEMMA AllAdded ==
    ASSUME NEW verification, PathsBounded(verification), NEW i, NEW n \in Nat,
           MaxTokens - n >= MaxBeamDepth + 1
    PROVE  /\ TokensAdded(verification, i, n) \in 0 .. MaxBeamDepth + 1
           /\ i \in DOMAIN verification /\ ~Finishes(verification, i)
                => TokensAdded(verification, i, n) = Len(verification[i].verified)
<1>1. MaxTokens \in Nat /\ MaxBeamDepth \in Nat
    BY SpecAssumption DEF SpecAssumption
<1>2. CASE i \notin DOMAIN verification \/ Finishes(verification, i)
  <2>1. TokensAdded(verification, i, n) = 0
      BY <1>2 DEF TokensAdded
  <2> QED BY <1>1, <1>2, <2>1
<1>3. CASE i \in DOMAIN verification /\ ~Finishes(verification, i)
  <2> DEFINE v == Len(verification[i].verified)
  <2>1. v \in 1 .. MaxBeamDepth + 1
      BY <1>3 DEF PathsBounded
  <2>2. TokensAdded(verification, i, n)
          = IF n < MaxTokens THEN Minimum(v, MaxTokens - n) ELSE v
      BY <1>3 DEF TokensAdded
  <2> HIDE DEF v
  <2>3. TokensAdded(verification, i, n) = v
      BY <1>1, <2>1, <2>2 DEF Minimum
  <2> QED BY <1>1, <2>1, <2>3 DEF v
<1> QED BY <1>2, <1>3

\* With enough tokens each row that goes on adds all of its verified tokens.
LEMMA TokensFit ==
    ASSUME EnoughTokens, NEW verification, PathsBounded(verification)
    PROVE  \A i \in Rows : i \in DOMAIN verification /\ ~Finishes(verification, i) =>
              TokensAdded(verification, i, TokensBefore(verification)[i])
                = Len(verification[i].verified)
<1> DEFINE b == TokensBefore(verification)
           M == MaxBeamDepth + 1
           T == {i \in Nat : i <= MaxRequests => b[i] \in Nat /\ b[i] <= i * M}
<1>1. MaxTokens \in Nat /\ MaxBeamDepth \in Nat /\ MaxRequests \in Nat
    BY SpecAssumption DEF SpecAssumption
<1>2. b[0] = 0 /\ \A i \in Rows : b[i + 1] = b[i] + TokensAdded(verification, i, b[i])
    BY TokensBeforeUpto
<1> HIDE DEF b
<1>3. ASSUME NEW i \in Rows, b[i] \in Nat, b[i] <= i * M
      PROVE  MaxTokens - b[i] >= M
  <2>1. i \in Nat /\ i + 1 <= MaxRequests
      BY <1>1 DEF Rows
  <2>2. (i + 1) * M <= MaxRequests * M /\ (i + 1) * M \in Int /\ MaxRequests * M \in Int
      BY <1>1, <2>1, TimesGrows
  <2>3. (i + 1) * M = i * M + M /\ i * M \in Int
      BY <1>1, <2>1
  <2>4. MaxTokens >= MaxRequests * M
      BY DEF EnoughTokens
  <2> QED BY <1>1, <1>3, <2>2, <2>3, <2>4
<1>4. 0 \in T
    BY <1>1, <1>2
<1>5. ASSUME NEW i \in Nat, i \in T PROVE i + 1 \in T
  <2> SUFFICES ASSUME i + 1 <= MaxRequests PROVE b[i + 1] \in Nat /\ b[i + 1] <= (i + 1) * M
      OBVIOUS
  <2>1. i \in Rows /\ b[i] \in Nat /\ b[i] <= i * M
      BY <1>1, <1>5 DEF Rows
  <2>2. TokensAdded(verification, i, b[i]) \in 0 .. MaxBeamDepth + 1
      BY <1>3, <2>1, AllAdded
  <2>3. b[i + 1] = b[i] + TokensAdded(verification, i, b[i])
      BY <1>2, <2>1
  <2>4. (i + 1) * M = i * M + M /\ i * M \in Int
      BY <1>1
  <2> QED BY <1>1, <2>1, <2>2, <2>3, <2>4
<1>6. \A i \in Nat : i \in T
  <2> HIDE DEF T
  <2> QED BY <1>4, <1>5, SetInduction
<1> TAKE i \in Rows
<1>7. b[i] \in Nat /\ b[i] <= i * M
    BY <1>1, <1>6 DEF Rows
<1>8. MaxTokens - b[i] >= MaxBeamDepth + 1
    BY <1>3, <1>7
<1> QED BY <1>7, <1>8, AllAdded DEF b

-----------------------------------------------------------------------------
(* traverse_beam_tree *)

\* The first n of the sequences, one after the other.
Flattened(h, seqs, n) ==
    h = [i \in 1 .. n |-> IF i = 1 THEN seqs[i] ELSE h[i - 1] \o seqs[i]]

\* The sequences are taken one after the other.
LEMMA FlattenUpto ==
    ASSUME NEW seqs, Len(seqs) \in Nat \ {0}
    PROVE  \E h : /\ h[1] = seqs[1]
                  /\ \A k \in 1 .. Len(seqs) - 1 : h[k + 1] = h[k] \o seqs[k + 1]
                  /\ FlattenSeq(seqs) = h[Len(seqs)]
<1> DEFINE len == Len(seqs)
           T == {n \in Nat : \E h : Flattened(h, seqs, n + 1)}
<1>1. 0 \in T
  <2> DEFINE h == [i \in 1 .. 1 |-> seqs[1]]
  <2>1. h = [i \in 1 .. 0 + 1 |-> IF i = 1 THEN seqs[i] ELSE h[i - 1] \o seqs[i]]
      OBVIOUS
  <2> QED BY <2>1 DEF Flattened
<1>2. ASSUME NEW n \in Nat, n \in T PROVE n + 1 \in T
  <2>1. PICK h : Flattened(h, seqs, n + 1)
      BY <1>2
  <2> DEFINE m == (n + 1) + 1
             k == [i \in 1 .. m |-> IF i = 1 THEN seqs[i] ELSE h[i - 1] \o seqs[i]]
  <2>2. \A i \in 1 .. n + 1 : k[i] = h[i]
    <3>1. \A i \in 1 .. n + 1 : h[i] = IF i = 1 THEN seqs[i] ELSE h[i - 1] \o seqs[i]
        BY <2>1, Zenon DEF Flattened
    <3>2. \A i \in 1 .. n + 1 : i \in 1 .. m
        OBVIOUS
    <3>3. \A i \in 1 .. m : k[i] = IF i = 1 THEN seqs[i] ELSE h[i - 1] \o seqs[i]
        BY Zenon
    <3> HIDE DEF k, m
    <3> QED BY <3>1, <3>2, <3>3, Zenon
  <2>3. \A i \in 1 .. m : i # 1 => i - 1 \in 1 .. n + 1
      OBVIOUS
  <2>4. k = [i \in 1 .. m |-> IF i = 1 THEN seqs[i] ELSE k[i - 1] \o seqs[i]]
      BY <2>2, <2>3
  <2>5. Flattened(k, seqs, m)
      BY <2>4 DEF Flattened
  <2> QED BY <2>5
<1>3. len \in Nat \ {0}
    OBVIOUS
<1>4. \E h : Flattened(h, seqs, len)
  <2> HIDE DEF T, len
  <2>1. len - 1 \in Nat /\ (len - 1) + 1 = len
      BY <1>3
  <2>2. len - 1 \in T
      BY <1>1, <1>2, <2>1, SetInduction
  <2> QED BY <2>1, <2>2 DEF T
<1> DEFINE h == CHOOSE h : Flattened(h, seqs, len)
<1>5. Flattened(h, seqs, len)
    BY <1>4
<1>6. FlattenSeq(seqs) = h[len]
    BY <1>3 DEF FlattenSeq, Flattened
<1> HIDE DEF h, len
<1>7. \A i \in 1 .. len : h[i] = IF i = 1 THEN seqs[i] ELSE h[i - 1] \o seqs[i]
    BY <1>5, Zenon DEF Flattened
<1>8. h[1] = seqs[1]
    BY <1>3, <1>7
<1>9. \A k \in 1 .. len - 1 : h[k + 1] = h[k] \o seqs[k + 1]
  <2> SUFFICES ASSUME NEW k \in 1 .. len - 1 PROVE h[k + 1] = h[k] \o seqs[k + 1]
      OBVIOUS
  <2> DEFINE n == k + 1
  <2>1. n \in 1 .. len /\ n # 1 /\ n - 1 = k
      BY <1>3
  <2> HIDE DEF n
  <2>2. h[n] = h[n - 1] \o seqs[n]
      BY <1>7, <2>1
  <2> QED BY <2>1, <2>2 DEF n
<1> QED BY <1>6, <1>8, <1>9 DEF len

\* What is known of the tokens and the limits of a request.
Sized(r) ==
    /\ IsSeq(r.tokens) /\ r.initial_len \in Nat \ {0} /\ r.max_sequence_length \in Nat

\* The layers of a tree one after the other, down to the n-th below the root.
NodesUpto(s, root, n, len) ==
    /\ IsSeq(s) /\ Len(s) = len /\ len \in Nat \ {0}
    /\ s[1].depth = root
    /\ \A m \in 1 .. len : /\ s[m].depth \in root .. root + n
                           /\ m # 1 => s[m].depth # root

\* A layer more.
LEMMA NodesMore ==
    ASSUME NEW s, NEW root \in Int, NEW n \in Nat, NEW len, NodesUpto(s, root, n, len),
           NEW t, IsSeq(t), \A j \in 1 .. Len(t) : t[j].depth = root + n + 1
    PROVE  NodesUpto(s \o t, root, n + 1, len + Len(t))
<1> DEFINE u == s \o t
<1>1. /\ IsSeq(s) /\ Len(s) = len /\ len \in Nat \ {0} /\ s[1].depth = root
      /\ \A m \in 1 .. len : /\ s[m].depth \in root .. root + n
                             /\ m # 1 => s[m].depth # root
    BY DEF NodesUpto
<1>2. Len(t) \in Nat
    BY SeqLength
<1>3. /\ IsSeq(u) /\ Len(u) = len + Len(t)
      /\ \A k \in 1 .. len : u[k] = s[k]
      /\ \A k \in 1 .. Len(t) : u[len + k] = t[k]
  <2>1. /\ IsSeq(u) /\ Len(u) = Len(s) + Len(t)
        /\ \A k \in 1 .. Len(s) : u[k] = s[k]
        /\ \A k \in 1 .. Len(t) : u[Len(s) + k] = t[k]
    <3>1. IsSeq(s) /\ IsSeq(t)
        BY <1>1
    <3> QED BY ONLY <3>1, SeqConcat
  <2> HIDE DEF u
  <2> QED BY <1>1, <2>1
<1> HIDE DEF u
<1>4. ASSUME NEW m \in 1 .. len + Len(t)
      PROVE  u[m].depth \in root .. root + (n + 1) /\ (m # 1 => u[m].depth # root)
  <2>1. CASE m <= len
    <3>1. m \in 1 .. len
        BY <1>1, <1>2, <2>1
    <3>2. u[m] = s[m] /\ s[m].depth \in root .. root + n /\ (m # 1 => s[m].depth # root)
        BY <1>1, <1>3, <3>1
    <3> QED BY <3>2
  <2>2. CASE m > len
    <3> DEFINE j == m - len
    <3>1. j \in 1 .. Len(t) /\ len + j = m
        BY <1>1, <1>2, <2>2
    <3> HIDE DEF j
    <3>2. u[m] = t[j] /\ t[j].depth = root + n + 1
        BY <1>3, <3>1
    <3> QED BY <3>2
  <2> QED BY <1>1, <2>1, <2>2
<1>5. u[1].depth = root
    BY <1>1, <1>3
<1> QED BY <1>1, <1>2, <1>3, <1>4, <1>5 DEF NodesUpto, u

\* The nodes of layer k of the tree of a request.
LayerNodes(r, k) ==
    [j \in DOMAIN r.beam_tree[k - 1] |->
        Node(r.beam_tree[k - 1][j], Size(r) - 1 + k - 1)]

\* The root of a request's tree is its last token.
LEMMA RootDepth ==
    ASSUME NEW r, Sized(r)
    PROVE  Size(r) \in Nat \ {0} /\ Size(r) - 1 \in Nat /\ Len(r.tokens) \in Nat
<1>1. Len(r.tokens) \in Nat
    BY SeqLength DEF Sized
<1> QED BY <1>1 DEF Sized, Size

\* A layer has one depth.
LEMMA LayerNodesAre ==
    ASSUME NEW r, Sized(r), NEW k \in Nat \ {0}, IsSeq(r.beam_tree[k - 1])
    PROVE  /\ IsSeq(LayerNodes(r, k)) /\ Len(LayerNodes(r, k)) = Len(r.beam_tree[k - 1])
           /\ \A j \in 1 .. Len(r.beam_tree[k - 1]) :
                 LayerNodes(r, k)[j].depth = Size(r) - 1 + k - 1
<1> DEFINE b == r.beam_tree[k - 1]
           s == LayerNodes(r, k)
           dep == Size(r) - 1 + k - 1
<1>1. Len(b) \in Nat /\ DOMAIN b = 1 .. Len(b)
    BY SeqLength
<1> HIDE DEF dep
<1>2. s = [j \in 1 .. Len(b) |-> [token |-> b[j], depth |-> dep]]
    BY <1>1 DEF LayerNodes, Node, dep
<1> HIDE DEF s, b
<1>3. s = [j \in 1 .. Len(b) |-> s[j]]
    BY <1>2
<1>4. IsSeq(s) /\ Len(s) = Len(b)
    BY <1>1, <1>3, FunctionIsSeq
<1>5. \A j \in 1 .. Len(b) : s[j].depth = dep
    BY <1>2
<1> QED BY <1>4, <1>5 DEF s, b, dep

\* traverse_beam_tree lists the nodes layer by layer, the root first.
LEMMA BeamTreeNodes ==
    ASSUME NEW r, Sized(r), LayersRight(r.beam_tree, MaxBeamDepth),
           NEW max_depth \in 1 .. MaxBeamDepth
    PROVE  NodesUpto(TraverseBeamTree(r, max_depth), Size(r) - 1, max_depth,
                     FirstNode(Lengths(r.beam_tree))[max_depth + 1])
<1> DEFINE L == Lengths(r.beam_tree)
           f == FirstNode(L)
           root == Size(r) - 1
           seqs == [k \in 1 .. max_depth + 1 |-> LayerNodes(r, k)]
<1>0. MaxBeamDepth \in Nat /\ max_depth \in Nat /\ max_depth + 1 \in Nat
    BY DepthIsNatural
<1>1. root \in Nat
    BY RootDepth
<1>2. \A k \in 0 .. MaxBeamDepth : IsSeq(r.beam_tree[k]) /\ L[k] = Len(r.beam_tree[k])
  <2>1. Len(r.beam_tree[0]) = 1
      BY <1>0 DEF LayersRight
  <2>2. \A k \in 0 .. MaxBeamDepth : L[k] = Len(r.beam_tree[k])
      BY <2>1 DEF Lengths
  <2> HIDE DEF L
  <2> QED BY <2>2 DEF LayersRight
<1>3. L[0] = 1
    BY <1>0 DEF Lengths
<1>4. f[0] = 0 /\ \A k \in 0 .. MaxBeamDepth : f[k + 1] = f[k] + L[k]
    BY FirstNodeStep
<1>5. seqs = [k \in 1 .. max_depth + 1 |-> seqs[k]]
    OBVIOUS
<1>6. Len(seqs) = max_depth + 1
  <2> HIDE DEF seqs
  <2> QED BY <1>0, <1>5, FunctionIsSeq
<1>7. TraverseBeamTree(r, max_depth) = FlattenSeq(seqs)
    BY DEF TraverseBeamTree, LayerNodes
<1>8. \A k \in 1 .. max_depth + 1 :
         /\ IsSeq(seqs[k]) /\ Len(seqs[k]) = L[k - 1]
         /\ \A j \in 1 .. L[k - 1] : seqs[k][j].depth = root + k - 1
  <2> SUFFICES ASSUME NEW k \in 1 .. max_depth + 1
               PROVE  /\ IsSeq(LayerNodes(r, k)) /\ Len(LayerNodes(r, k)) = L[k - 1]
                      /\ \A j \in 1 .. L[k - 1] : LayerNodes(r, k)[j].depth = root + k - 1
      OBVIOUS
  <2>1. k \in Nat \ {0} /\ k - 1 \in 0 .. MaxBeamDepth
      BY <1>0
  <2>2. IsSeq(r.beam_tree[k - 1]) /\ L[k - 1] = Len(r.beam_tree[k - 1])
      BY <1>2, <2>1
  <2> HIDE DEF L
  <2> QED BY <2>1, <2>2, LayerNodesAre
<1> HIDE DEF seqs, f, L, root
<1>9. PICK h : /\ h[1] = seqs[1]
               /\ \A k \in 1 .. Len(seqs) - 1 : h[k + 1] = h[k] \o seqs[k + 1]
               /\ FlattenSeq(seqs) = h[Len(seqs)]
  <2>1. Len(seqs) \in Nat \ {0}
      BY <1>0, <1>6
  <2> QED BY <2>1, FlattenUpto
<1> DEFINE T == {n \in Nat : n <= max_depth => NodesUpto(h[n + 1], root, n, f[n + 1])}
<1>10. 0 \in T
  <2>1. 1 \in 1 .. max_depth + 1 /\ 1 - 1 = 0 /\ 0 + 1 = 1 /\ 0 \in 0 .. MaxBeamDepth
      BY <1>0
  <2>2. f[1] = 1
      BY <1>3, <1>4, <2>1
  <2>3. IsSeq(seqs[1]) /\ Len(seqs[1]) = 1 /\ seqs[1][1].depth = root
    <3>1. /\ IsSeq(seqs[1]) /\ Len(seqs[1]) = L[1 - 1]
          /\ \A j \in 1 .. L[1 - 1] : seqs[1][j].depth = root + 1 - 1
        BY <1>8, <2>1
    <3>2. L[1 - 1] = 1
        BY <1>3, <2>1
    <3>3. seqs[1][1].depth = root + 1 - 1
        BY <3>1, <3>2
    <3> QED BY <1>1, <3>1, <3>2, <3>3
  <2>4. NodesUpto(seqs[1], root, 0, 1)
      BY <1>1, <2>3 DEF NodesUpto
  <2> QED BY <1>9, <2>1, <2>2, <2>4
<1>11. ASSUME NEW n \in Nat, n \in T PROVE n + 1 \in T
  <2> SUFFICES ASSUME n + 1 <= max_depth
               PROVE  NodesUpto(h[(n + 1) + 1], root, n + 1, f[(n + 1) + 1])
      OBVIOUS
  <2> DEFINE k == n + 1
  <2>1. /\ k \in 1 .. (max_depth + 1) - 1 /\ k + 1 \in 1 .. max_depth + 1 /\ (k + 1) - 1 = k
        /\ k \in 0 .. MaxBeamDepth /\ root + (k + 1) - 1 = root + n + 1
      BY <1>0, <1>1
  <2>2. NodesUpto(h[k], root, n, f[k])
      BY <1>11
  <2> HIDE DEF k
  <2>3. h[k + 1] = h[k] \o seqs[k + 1] /\ f[k + 1] = f[k] + L[k]
      BY <1>4, <1>6, <1>9, <2>1
  <2>4. /\ IsSeq(seqs[k + 1]) /\ Len(seqs[k + 1]) = L[k]
        /\ \A j \in 1 .. Len(seqs[k + 1]) : seqs[k + 1][j].depth = root + n + 1
      BY <1>8, <2>1
  <2>5. NodesUpto(h[k] \o seqs[k + 1], root, n + 1, f[k] + Len(seqs[k + 1]))
      BY <1>1, <2>2, <2>4, NodesMore
  <2> QED BY <2>3, <2>4, <2>5 DEF k
<1>12. \A n \in Nat : n \in T
  <2> HIDE DEF T
  <2> QED BY <1>10, <1>11, SetInduction
<1>13. NodesUpto(h[max_depth + 1], root, max_depth, f[max_depth + 1])
    BY <1>0, <1>12
<1> QED BY <1>6, <1>7, <1>9, <1>13 DEF root, f, L

\* A tree that is cut keeps its root.
LEMMA SentNodesAre ==
    ASSUME NEW tree, NEW root \in Int, NEW d, NEW len, NodesUpto(tree, root, d, len), NEW n
    PROVE  /\ IsSeq(SentNodes(tree, n)) /\ Len(SentNodes(tree, n)) \in 1 .. len
           /\ SentNodes(tree, n)[1] = tree[1]
<1> DEFINE room == MaxVerifyTokens - n
           above == {k \in DOMAIN tree : tree[k].depth < tree[room].depth}
<1>1. /\ IsSeq(tree) /\ Len(tree) = len /\ len \in Nat \ {0} /\ tree[1].depth = root
      /\ \A m \in 1 .. len : /\ tree[m].depth \in root .. root + d
                             /\ m # 1 => tree[m].depth # root
    BY DEF NodesUpto
<1>2. DOMAIN tree = 1 .. len
    BY <1>1, SeqLength
<1>3. CASE room \in 2 .. Len(tree) - 1
  <2>1. SentNodes(tree, n) = SubSeq(tree, 1, Cardinality(above))
      BY <1>3 DEF SentNodes
  <2>2. room \in 1 .. len /\ room # 1
      BY <1>1, <1>3
  <2> HIDE DEF room
  <2>3. tree[room].depth \in Int /\ root < tree[room].depth
      BY <1>1, <2>2
  <2>4. 1 \in above /\ above \subseteq 1 .. len
      BY <1>1, <1>2, <2>3
  <2> HIDE DEF above
  <2>5. IsFiniteSet(1 .. len) /\ Cardinality(1 .. len) = len
    <3>1. 1 <= len /\ len - 1 + 1 = len
        BY <1>1
    <3> QED BY <1>1, <3>1, FS_Interval
  <2>6. IsFiniteSet(above) /\ Cardinality(above) <= len /\ Cardinality(above) \in Nat
      BY <2>4, <2>5, FS_Subset, FS_CardinalityType
  <2>7. Cardinality(above) # 0
      BY <2>4, <2>6, FS_EmptySet
  <2> DEFINE c == Cardinality(above)
  <2>8. c \in 1 .. len
      BY <1>1, <2>6, <2>7
  <2> HIDE DEF c
  <2>9. c \in 0 .. Len(tree) /\ 1 \in 1 .. c
      BY <1>1, <2>8
  <2>10. /\ IsSeq(SubSeq(tree, 1, c)) /\ Len(SubSeq(tree, 1, c)) = c
         /\ \A k \in 1 .. c : SubSeq(tree, 1, c)[k] = tree[k]
      BY <1>1, <2>9, SeqPrefix
  <2> QED BY <2>1, <2>8, <2>9, <2>10 DEF c
<1>4. CASE room \notin 2 .. Len(tree) - 1
  <2>1. SentNodes(tree, n) = tree
      BY <1>4 DEF SentNodes
  <2> QED BY <1>1, <2>1
<1> QED BY <1>3, <1>4

-----------------------------------------------------------------------------
(* The invariant that MaskIsAncestry needs. *)

\* A request that waits in the queue.
Fresh(r, commit) ==
    /\ Sized(r) /\ r.status = "PENDING" /\ r.tokens = <<>>
    /\ r.llm_cache_size = 0 /\ commit = <<>>

\* A request of which the large model is still to read, and then commit, some of
\* the prompt: it has seen so much of it.
Loading(r, seen) ==
    /\ r.status = "PENDING" /\ r.tokens = <<>> /\ r.llm_cache_size \in Nat
    /\ seen \in Int /\ r.llm_cache_size < r.initial_len
    /\ r.llm_cache_size + seen < r.initial_len

\* Row i of a tree batch, its request, the tree that was sent and the slots.
TreeRowRight(i, row, r, tree, info) ==
    /\ Sized(r)
    /\ \/ /\ Loading(r, row.num) /\ row.running = FALSE /\ row.offset \in Nat
          /\ SlotsWithin(info, i, row.offset, row.num)
       \/ /\ r.status = "RUNNING"
          /\ SerialTree(tree, Size(r) - 1)
          /\ SlotFrom(info, i, Size(r) - 1)
          /\ row.prompt_phase = TRUE \/ TreeSent(row, r)

\* The members of a row of a beam batch.
BeamFields ==
    {"guid", "running", "first_depth", "num", "max_depth", "current_depth",
     "beam_size", "sub_request_num", "causalMask"}

\* A row whose request grows a tree: d layers below the root are stored.
Growing(row, r, d) ==
    /\ row.running = TRUE /\ r.status = "RUNNING"
    /\ row.num \in Nat \ {0} /\ row.max_depth \in 1 .. MaxBeamDepth
    /\ row.current_depth = d + 1 /\ row.beam_size \in 1 .. MaxBranches
    /\ row.sub_request_num = Lengths(r.beam_tree)[d]
    /\ LayersRight(r.beam_tree, d)
    /\ row.causalMask.non_tree_cache_size = Size(r) - 1
    /\ MaskRight(row.causalMask, Lengths(r.beam_tree), d)

\* A row of a beam batch, its request, and the keys to be committed.
BeamRowRight(row, r, commit, d) ==
    /\ DOMAIN row = BeamFields /\ Sized(r)
    /\ \/ row.running = FALSE /\ IsSeq(commit) /\ Loading(r, Len(commit))
       \/ Growing(row, r, d)

\* The layers below the root that the rows have when the next call begins.
Depth == IF step.call = "verify" THEN MaxBeamDepth ELSE step.depth

\* Requests in the queue are as they were registered.
QueueFresh ==
    \A k \in DOMAIN pending_infr_request_queue :
        Fresh(all_requests[pending_infr_request_queue[k]],
              committed_tokens[pending_infr_request_queue[k]])

\* Each row of the tree batch fits its request.
TreeRows ==
    /\ IsSeq(tree_bc.tokensInfo)
    /\ \A i \in ActiveRows(tree_bc.row) :
          TreeRowRight(i, tree_bc.row[i], all_requests[tree_bc.row[i].guid],
                       dfs_tree_inputs[tree_bc.row[i].guid], tree_bc.tokensInfo)

\* Each row of the beam batch fits its request.
BeamBatchRight ==
    \A i \in ActiveRows(beam_bc) :
        BeamRowRight(beam_bc[i], all_requests[beam_bc[i].guid],
                     committed_tokens[beam_bc[i].guid], Depth)

\* What else is written when a request is registered.
Parallel ==
    /\ IsSeq(committed_tokens) /\ Len(committed_tokens) = Len(all_requests)
    /\ IsSeq(dfs_tree_inputs) /\ Len(dfs_tree_inputs) = Len(all_requests)

\* What the rows of the batches, their masks and the requests' trees have to do
\* with one another, from call to call.
SpeculationInvariant ==
    /\ setup \in Setups
    /\ step.call = "beam" => step.depth \in 0 .. MaxBeamDepth - 1
    /\ Parallel
    /\ QueueFresh
    /\ step.call \in {"init", "llm"} => TreeRows
    /\ step.call \in {"beam", "verify"} => BeamBatchRight

\* No request is registered at first, and no row is used.
LEMMA InitSpeculates ==
    ASSUME Init PROVE SpeculationInvariant
<1>1. Parallel
    BY SeqEmpty DEF Init, Parallel
<1>2. QueueFresh
    BY DEF Init, QueueFresh
<1>3. ActiveRows(tree_bc.row) = {}
    BY DEF Init, ActiveRows, NoTreeBatch, NoTreeRow
<1>4. TreeRows
    BY <1>3, SeqEmpty DEF Init, TreeRows, NoTreeBatch
<1>5. step.call = "init" /\ setup \in Setups
    BY DEF Init
<1> QED BY <1>1, <1>2, <1>4, <1>5 DEF SpeculationInvariant

\* The requests in the queue and in the rows are registered.
LEMMA ServedAreRegistered ==
    ASSUME NEW row, NEW queue, NEW requests, EachOnce(row, queue, Open(requests))
    PROVE  /\ \A k \in DOMAIN queue : queue[k] \in Open(requests)
           /\ \A i \in Rows : row[i].guid # 0 => row[i].guid \in Open(requests)
           /\ Open(requests) \subseteq DOMAIN requests
<1>1. Open(requests) \subseteq DOMAIN requests
    BY DEF Open
<1> QED BY <1>1 DEF EachOnce

\* A request that is registered is fresh; the others are what they were.
LEMMA RegisterSpeculates ==
    ASSUME ServingInvariant, SpeculationInvariant, RegisterNewRequest
    PROVE  SpeculationInvariant'
<1> DEFINE new == Len(all_requests) + 1
<1>1. /\ step.call = "init" /\ step' = step /\ setup' = setup /\ tree_bc' = tree_bc
      /\ committed_tokens' = Append(committed_tokens, <<>>)
      /\ dfs_tree_inputs' = Append(dfs_tree_inputs, <<>>)
      /\ pending_infr_request_queue' = Append(pending_infr_request_queue, Len(all_requests'))
    BY DEF RegisterNewRequest
<1>2. PICK p \in setup.prompts :
          all_requests' = Append(all_requests,
            [status |-> "PENDING", initial_len |-> p.initial_len,
             max_sequence_length |-> p.max_sequence_length, tokens |-> <<>>,
             ssm_cache_size |-> 0, llm_cache_size |-> 0, chunks |-> 0,
             beam_tree |-> NoBeamTree,
             result |-> 0])
    BY DEF RegisterNewRequest
<1> DEFINE e == [status |-> "PENDING", initial_len |-> p.initial_len,
                 max_sequence_length |-> p.max_sequence_length, tokens |-> <<>>,
                 ssm_cache_size |-> 0, llm_cache_size |-> 0, chunks |-> 0,
                 beam_tree |-> NoBeamTree,
                 result |-> 0]
<1>3. Fresh(e, <<>>)
  <2>1. p.initial_len \in Nat \ {0} /\ p.max_sequence_length \in Nat
      BY SpecAssumption DEF SpecAssumption, SpeculationInvariant
  <2> QED BY <2>1, SeqEmpty DEF Fresh, Sized
<1>4. DOMAIN e = RequestFields
    BY DEF RequestFields
<1>5. /\ Registered(all_requests)
      /\ EachOnce(tree_bc.row, pending_infr_request_queue, Open(all_requests))
    BY <1>1 DEF ServingInvariant
<1>6. all_requests' = Append(all_requests, e)
    BY <1>2
<1> HIDE DEF e
<1>7. /\ Len(all_requests) \in Nat /\ DOMAIN all_requests = 1 .. Len(all_requests)
      /\ Len(all_requests') = new /\ all_requests'[new] = e
      /\ \A g \in DOMAIN all_requests : all_requests'[g] = all_requests[g]
  <2> HIDE DEF new
  <2> QED BY <1>4, <1>5, <1>6, OneMoreRequest DEF new
<1>8. Parallel
    BY DEF SpeculationInvariant
<1>9. /\ Parallel' /\ committed_tokens'[new] = <<>>
      /\ \A g \in DOMAIN all_requests : /\ committed_tokens'[g] = committed_tokens[g]
                                        /\ dfs_tree_inputs'[g] = dfs_tree_inputs[g]
  <2>1. /\ IsSeq(committed_tokens') /\ Len(committed_tokens') = Len(committed_tokens) + 1
        /\ committed_tokens'[Len(committed_tokens) + 1] = <<>>
        /\ \A g \in 1 .. Len(committed_tokens) : committed_tokens'[g] = committed_tokens[g]
      BY <1>1, <1>8, SeqAppend DEF Parallel
  <2>2. /\ IsSeq(dfs_tree_inputs') /\ Len(dfs_tree_inputs') = Len(dfs_tree_inputs) + 1
        /\ \A g \in 1 .. Len(dfs_tree_inputs) : dfs_tree_inputs'[g] = dfs_tree_inputs[g]
      BY <1>1, <1>8, SeqAppend DEF Parallel
  <2>3. Len(committed_tokens) = Len(all_requests) /\ Len(dfs_tree_inputs) = Len(all_requests)
      BY <1>8 DEF Parallel
  <2> QED BY <1>7, <2>1, <2>2, <2>3 DEF Parallel
<1> DEFINE queue == pending_infr_request_queue
<1>10. /\ \A k \in DOMAIN queue : queue[k] \in DOMAIN all_requests
       /\ \A i \in Rows : tree_bc.row[i].guid # 0 => tree_bc.row[i].guid \in DOMAIN all_requests
    BY <1>5, ServedAreRegistered
<1>11. QueueFresh'
  <2>1. IsSeq(queue)
      BY <1>5 DEF EachOnce, IsSeq
  <2>2. queue' = Append(queue, new)
      BY <1>1, <1>7
  <2>3. /\ IsSeq(queue') /\ Len(queue') = Len(queue) + 1
        /\ queue'[Len(queue) + 1] = new
        /\ \A k \in 1 .. Len(queue) : queue'[k] = queue[k]
    <3> HIDE DEF new, queue
    <3> QED BY <2>1, <2>2, SeqAppend
  <2>4. /\ Len(queue) \in Nat /\ DOMAIN queue = 1 .. Len(queue)
        /\ DOMAIN queue' = 1 .. Len(queue) + 1
      BY <2>1, <2>3, SeqLength
  <2> SUFFICES ASSUME NEW k \in DOMAIN queue'
               PROVE  Fresh(all_requests'[queue'[k]], committed_tokens'[queue'[k]])
      BY DEF QueueFresh
  <2>5. CASE k \in DOMAIN queue
    <3>1. queue'[k] = queue[k] /\ queue[k] \in DOMAIN all_requests
        BY <1>10, <2>3, <2>4, <2>5
    <3>2. Fresh(all_requests[queue[k]], committed_tokens[queue[k]])
        BY <2>5 DEF SpeculationInvariant, QueueFresh
    <3> HIDE DEF queue
    <3> QED BY <1>7, <1>9, <3>1, <3>2
  <2>6. CASE k = Len(queue) + 1
    <3>1. queue'[k] = new
        BY <2>3, <2>6
    <3> HIDE DEF queue, new
    <3> QED BY <1>3, <1>7, <1>9, <3>1
  <2>7. k \in DOMAIN queue \/ k = Len(queue) + 1
    <3> HIDE DEF queue
    <3> QED BY <2>4
  <2> QED BY <2>5, <2>6, <2>7
<1>12. TreeRows'
  <2>1. TreeRows
      BY <1>1 DEF SpeculationInvariant
  <2> SUFFICES ASSUME NEW i \in ActiveRows(tree_bc.row)
               PROVE  TreeRowRight(i, tree_bc.row[i], all_requests'[tree_bc.row[i].guid],
                                   dfs_tree_inputs'[tree_bc.row[i].guid], tree_bc.tokensInfo)
      BY <1>1, <2>1 DEF TreeRows, ActiveRows
  <2>2. tree_bc.row[i].guid \in DOMAIN all_requests
      BY <1>10 DEF ActiveRows
  <2> QED BY <1>7, <1>9, <2>1, <2>2 DEF TreeRows
<1> QED BY <1>1, <1>9, <1>11, <1>12 DEF SpeculationInvariant

\* The large model changes neither the rows nor the requests.
LEMMA InferenceSpeculates ==
    ASSUME ServingInvariant, SpeculationInvariant, LLMInference
    PROVE  SpeculationInvariant'
<1>1. /\ step.call = "llm" /\ step' = NextStep /\ setup' = setup /\ tree_bc' = tree_bc
      /\ all_requests' = all_requests /\ committed_tokens' = committed_tokens
      /\ dfs_tree_inputs' = dfs_tree_inputs
      /\ pending_infr_request_queue' = pending_infr_request_queue
    BY DEF LLMInference, requestVars
<1>2. step'.call = "init"
    BY <1>1 DEF NextStep
<1>3. Parallel' /\ QueueFresh'
    BY <1>1 DEF SpeculationInvariant, Parallel, QueueFresh
<1>4. TreeRows'
    BY <1>1 DEF SpeculationInvariant, TreeRows, ActiveRows
<1> QED BY <1>1, <1>2, <1>3, <1>4 DEF SpeculationInvariant

-----------------------------------------------------------------------------
(* prepare_next_batch_init: what the rows and the requests become. *)

\* A request comes from the queue.
Queued(g) == \E k \in DOMAIN pending_infr_request_queue : g = pending_infr_request_queue[k]

\* Row j has its carried row, or, if that is free, a new one.
RowAdmitted(row, j, carried) ==
    \/ row[j] = carried
    \/ carried.guid = 0 /\ \E g, num : Queued(g) /\ row[j] = NewBeamRow(g, num)

\* The batch while rows are admitted.
AdmittedRight(acc, v) ==
    /\ IsSeq(acc.queue) /\ DOMAIN acc.row = Rows
    /\ \A k \in DOMAIN acc.queue : Queued(acc.queue[k])
    /\ \A j \in Rows : RowAdmitted(acc.row, j, CarriedRow(v, j))

\* The first of a sequence and the rest.
LEMMA HeadTail ==
    ASSUME NEW s, IsSeq(s), s # <<>>
    PROVE  /\ 1 \in DOMAIN s /\ Head(s) = s[1] /\ IsSeq(Tail(s))
           /\ \A k \in DOMAIN Tail(s) : k + 1 \in DOMAIN s /\ Tail(s)[k] = s[k + 1]
<1>1. PICK S : s \in Seq(S)
    BY DEF IsSeq
<1>2. /\ 1 \in DOMAIN s /\ Head(s) = s[1] /\ Tail(s) \in Seq(S)
      /\ \A k \in DOMAIN Tail(s) : k + 1 \in DOMAIN s /\ Tail(s)[k] = s[k + 1]
    BY <1>1
<1> QED BY <1>2 DEF IsSeq

\* One row more.
LEMMA AdmitRight ==
    ASSUME NEW acc, NEW v, AdmittedRight(acc, v), NEW i \in Rows
    PROVE  AdmittedRight(Admit(acc, i), v)
<1> DEFINE q == acc.queue
           g == Head(q)
           num == Minimum(MaxTokens - acc.num_tokens, Size(all_requests[g]))
           after == [acc.row EXCEPT ![i] = NewBeamRow(g, num)]
<1>1. CASE ~(acc.row[i].guid = 0 /\ acc.queue # <<>> /\ acc.num_tokens < MaxTokens)
  <2>1. Admit(acc, i) = acc
      BY <1>1 DEF Admit
  <2> QED BY <2>1
<1>2. CASE acc.row[i].guid = 0 /\ acc.queue # <<>> /\ acc.num_tokens < MaxTokens
  <2>1. Admit(acc, i).row = after /\ Admit(acc, i).queue = Tail(q)
      BY <1>2 DEF Admit
  <2>2. IsSeq(q) /\ q # <<>>
      BY <1>2 DEF AdmittedRight
  <2>3. /\ 1 \in DOMAIN q /\ g = q[1] /\ IsSeq(Tail(q))
        /\ \A k \in DOMAIN Tail(q) : k + 1 \in DOMAIN q /\ Tail(q)[k] = q[k + 1]
    <3> HIDE DEF q
    <3> QED BY <2>2, HeadTail
  <2>4. \A k \in DOMAIN q : Queued(q[k])
      BY DEF AdmittedRight
  <2> HIDE DEF q, g, num
  <2>5. \A k \in DOMAIN Tail(q) : Queued(Tail(q)[k])
      BY <2>3, <2>4
  <2>6. Queued(g)
      BY <2>3, <2>4
  <2>7. DOMAIN acc.row = Rows
      BY DEF AdmittedRight
  <2>8. DOMAIN after = Rows /\ after[i] = NewBeamRow(g, num)
        /\ \A j \in Rows : j # i => after[j] = acc.row[j]
      BY <2>7
  <2> HIDE DEF after
  <2>9. CarriedRow(v, i).guid = 0
    <3>1. RowAdmitted(acc.row, i, CarriedRow(v, i))
        BY DEF AdmittedRight
    <3> QED BY <1>2, <3>1 DEF RowAdmitted
  <2>10. \A j \in Rows : RowAdmitted(after, j, CarriedRow(v, j))
    <3> SUFFICES ASSUME NEW j \in Rows PROVE RowAdmitted(after, j, CarriedRow(v, j))
        OBVIOUS
    <3>1. CASE j = i
        BY <2>6, <2>8, <2>9, <3>1 DEF RowAdmitted
    <3>2. CASE j # i
      <4>1. RowAdmitted(acc.row, j, CarriedRow(v, j)) /\ after[j] = acc.row[j]
          BY <2>8, <3>2 DEF AdmittedRight
      <4> QED BY <4>1 DEF RowAdmitted
    <3> QED BY <3>1, <3>2
  <2> QED BY <2>1, <2>3, <2>5, <2>8, <2>10 DEF AdmittedRight
<1> QED BY <1>1, <1>2

\* All rows of the batch that is admitted.
LEMMA AdmittedIsRight ==
    ASSUME NEW v, IsSeq(pending_infr_request_queue)
    PROVE  AdmittedRight(Admitted(v), v)
<1>1. PICK h : /\ h[0] = CarriedBatch(v)
               /\ \A i \in Rows : h[i + 1] = Admit(h[i], i)
               /\ Admitted(v) = h[MaxRequests]
    BY AdmittedUpto
<1>2. MaxRequests \in Nat
    BY SpecAssumption DEF SpecAssumption
<1> DEFINE T == {i \in Nat : i <= MaxRequests => AdmittedRight(h[i], v)}
<1>3. 0 \in T
  <2>1. AdmittedRight(CarriedBatch(v), v)
    <3> DEFINE c == CarriedBatch(v)
    <3>1. c.queue = pending_infr_request_queue /\ DOMAIN c.row = Rows
          /\ \A j \in Rows : c.row[j] = CarriedRow(v, j)
        BY DEF CarriedBatch
    <3> HIDE DEF c
    <3>2. \A k \in DOMAIN c.queue : Queued(c.queue[k])
        BY <3>1 DEF Queued
    <3>3. \A j \in Rows : RowAdmitted(c.row, j, CarriedRow(v, j))
        BY <3>1 DEF RowAdmitted
    <3>4. AdmittedRight(c, v)
        BY <3>1, <3>2, <3>3 DEF AdmittedRight
    <3> QED BY <3>4 DEF c
  <2> QED BY <1>1, <2>1
<1>4. ASSUME NEW i \in Nat, i \in T PROVE i + 1 \in T
  <2> SUFFICES ASSUME i + 1 <= MaxRequests PROVE AdmittedRight(h[i + 1], v)
      OBVIOUS
  <2>1. i \in Rows /\ AdmittedRight(h[i], v)
      BY <1>2, <1>4 DEF Rows
  <2>2. AdmittedRight(Admit(h[i], i), v)
      BY <2>1, AdmitRight
  <2> QED BY <1>1, <2>1, <2>2
<1>5. \A i \in Nat : i \in T
  <2> HIDE DEF T
  <2> QED BY <1>3, <1>4, SetInduction
<1> QED BY <1>1, <1>2, <1>5

\* The verified path of a row that is running.
LEMMA VerifiedRowRight ==
    ASSUME NEW i \in DOMAIN Verification, NEW r,
           r = all_requests[tree_bc.row[i].guid],
           IsSeq(tree_bc.tokensInfo),
           TreeRowRight(i, tree_bc.row[i], r, dfs_tree_inputs[tree_bc.row[i].guid],
                        tree_bc.tokensInfo),
           Len(dfs_tree_inputs[tree_bc.row[i].guid]) >= Len(Loaded(r, i)),
           Verification[i].asserted
    PROVE  VerifiedPath(Verification[i], Size(r) - 1)
<1> DEFINE tree == dfs_tree_inputs[tree_bc.row[i].guid]
           slots == Loaded(r, i)
           outputs == Outputs(slots)
           commits == Commits(slots)
<1>1. i \in RunningRows(tree_bc.row)
      /\ Verification[i] = TraverseVerifyTree(tree, outputs, commits)
    BY DEF Verification
<1>2. r.status = "RUNNING"
    BY <1>1 DEF RunningRows
<1>3. Sized(r) /\ SerialTree(tree, Size(r) - 1) /\ SlotFrom(tree_bc.tokensInfo, i, Size(r) - 1)
    BY <1>2 DEF TreeRowRight, Loading
<1>4. Size(r) - 1 \in Int
    BY <1>3, RootDepth
<1>5. Len(slots) >= 1
    BY <1>3, LoadedSome
<1>6. IsSeq(slots) /\ Len(slots) \in Nat /\ DOMAIN slots = 1 .. Len(slots)
    BY LoadedSequence, SeqLength
<1> HIDE DEF slots
<1>7. outputs = [k \in 1 .. Len(slots) |->
                    Node(token_ids[slots[k]], tree_bc.tokensInfo[slots[k]].depth + 1)]
    BY <1>6 DEF Outputs
<1>8. outputs = [k \in 1 .. Len(slots) |-> outputs[k]]
    BY <1>7
<1>9. commits = [k \in 1 .. Len(slots) |-> << tree_bc.tokensInfo[slots[k]].depth, slots[k] >>]
    BY <1>6 DEF Commits
<1>10. \A k \in 1 .. Len(slots) : outputs[k].depth = commits[k][1] + 1
  <2> SUFFICES ASSUME NEW k \in 1 .. Len(slots) PROVE outputs[k].depth = commits[k][1] + 1
      OBVIOUS
  <2>1. outputs[k].depth = tree_bc.tokensInfo[slots[k]].depth + 1
      BY <1>7 DEF Node
  <2>2. commits[k][1] = tree_bc.tokensInfo[slots[k]].depth
      BY <1>9
  <2> QED BY <2>1, <2>2
<1> HIDE DEF outputs, commits, tree
<1>11. Len(outputs) = Len(slots)
    BY <1>6, <1>8, FunctionIsSeq
<1>12. OutputsOf(outputs, commits)
    BY <1>10, <1>11 DEF OutputsOf
<1>13. Len(outputs) \in Nat \ {0} /\ Len(outputs) <= Len(tree)
    BY <1>5, <1>6, <1>11 DEF tree, slots
<1>14. TraverseVerifyTree(tree, outputs, commits).asserted
    BY <1>1
<1> QED BY <1>1, <1>3, <1>4, <1>12, <1>13, <1>14, TraversalIsPath

\* The mask of a root: it sees itself.
LEMMA RootMask ==
    ASSUME NEW L, L[0] = 1, NEW v, NEW size
    PROVE  /\ MaskRight(UpdateBitMask(v, size), L, 0)
           /\ UpdateBitMask(v, size).non_tree_cache_size = size + v - 1
<1> DEFINE m == UpdateBitMask(v, size)
<1>0. MaxBeamDepth \in Nat /\ 0 \in TreeNode
    BY DepthIsNatural DEF TreeNode
<1>1. /\ DOMAIN m = MaskFields /\ DOMAIN m.mask = TreeNode
      /\ m.prompt_size = 1 /\ m.tree_size = 1
      /\ m.non_tree_cache_size = size + v - 1
      /\ \A n \in TreeNode : m.mask[n] = IF n = 0 THEN {0} ELSE {}
    BY <1>0 DEF UpdateBitMask, NoMask, MaskFields
<1>2. FirstNode(L)[0] = 0 /\ FirstNode(L)[0 + 1] = 1
    BY <1>0, FirstNodeStep
<1>3. Share(L, 0, 0, 0) = 0
    BY OwnShare
<1> HIDE DEF m
<1>4. \A n \in TreeNode : \A q \in m.mask[n] : q \in Nat /\ q < m.tree_size
    BY <1>1
<1>5. ASSUME NEW k \in 0 .. 0, NEW j \in 0 .. L[k] - 1, NEW n \in TreeNode
      PROVE  FirstNode(L)[k] + j \in m.mask[n]
                <=> \E i \in 0 .. k : n = FirstNode(L)[i] + Share(L, k, j, i)
  <2>1. k = 0 /\ j = 0
      BY <1>5
  <2>2. FirstNode(L)[k] + j = 0
      BY <1>2, <2>1
  <2>3. \A i \in 0 .. k : FirstNode(L)[i] + Share(L, k, j, i) = 0
      BY <1>2, <1>3, <2>1
  <2>4. 0 \in 0 .. k
      BY <2>1
  <2>5. (\E i \in 0 .. k : n = FirstNode(L)[i] + Share(L, k, j, i)) <=> n = 0
      BY <2>3, <2>4
  <2>6. 0 \in m.mask[n] <=> n = 0
      BY <1>1
  <2> QED BY <2>2, <2>5, <2>6
<1>6. MaskRight(m, L, 0)
    BY <1>1, <1>2, <1>4, <1>5 DEF MaskRight
<1> QED BY <1>1, <1>6 DEF m

\* A width is a number of branches.
LEMMA WidthRight ==
    ASSUME setup \in Setups, NEW n \in Nat
    PROVE  Width(n) \in 1 .. MaxBranches
<1>1. setup.width \in Seq(1 .. MaxBranches) /\ MaxBranches \in Nat \ {0}
    BY SpecAssumption DEF SpecAssumption
<1>2. CASE n < Len(setup.width)
  <2>1. n + 1 \in 1 .. Len(setup.width)
      BY <1>1, <1>2
  <2>2. setup.width[n + 1] \in 1 .. MaxBranches
      BY <1>1, <2>1
  <2> QED BY <1>2, <2>2 DEF Width
<1>3. CASE ~(n < Len(setup.width))
  <2>1. Width(n) = 1
      BY <1>3 DEF Width
  <2> QED BY <1>1, <2>1
<1> QED BY <1>2, <1>3

\* A tree of which no layer is stored.
LEMMA NoTreeRight ==
    /\ LayersRight(NoBeamTree, 0) /\ Lengths(NoBeamTree)[0] = 1
<1>0. MaxBeamDepth \in Nat /\ MaxBranches \in Nat \ {0}
    BY DepthIsNatural
<1>1. DOMAIN NoBeamTree = 0 .. MaxBeamDepth /\ \A k \in 0 .. MaxBeamDepth : NoBeamTree[k] = <<>>
    BY DEF NoBeamTree
<1>2. Lengths(NoBeamTree)[0] = 1
    BY <1>0 DEF Lengths
<1>3. \A k \in 0 .. 0 : k = 0
    OBVIOUS
<1>4. \E w \in Nat \ {0} : 1 = 1 * w
    OBVIOUS
<1>5. Multiplies(Lengths(NoBeamTree), 0)
    BY <1>2, <1>3, <1>4 DEF Multiplies
<1>6. \A k \in 0 .. 0 : Lengths(NoBeamTree)[k] \in 1 .. MaxBranches
    BY <1>0, <1>2, <1>3
<1>7. \A k \in 0 .. MaxBeamDepth : IsSeq(NoBeamTree[k])
    BY <1>1, SeqEmpty
<1> QED BY <1>1, <1>2, <1>5, <1>6, <1>7 DEF LayersRight

\* What a request is that goes on: its verified tokens more, and no tree.
LEMMA UpdatedRunning ==
    ASSUME EnoughTokens, NEW v, PathsBounded(v), NEW i \in Rows, i \in DOMAIN v,
           ~Finishes(v, i), NEW r, r = all_requests[tree_bc.row[i].guid],
           DOMAIN r = RequestFields, Sized(r), IsSeq(v[i].verified)
    PROVE  LET u == UpdatedRequest(v, i, TokensBefore(v))
           IN  /\ Sized(u) /\ u.status = r.status /\ u.beam_tree = NoBeamTree
               /\ Size(u) = Size(r) + Len(v[i].verified)
<1> DEFINE path == v[i].verified
           sent == SubSeq(path, 1, TokensAdded(v, i, TokensBefore(v)[i]))
           u == [r EXCEPT !.tokens = @ \o Tokens(sent), !.beam_tree = NoBeamTree]
           more == Tokens(sent)
<1>1. UpdatedRequest(v, i, TokensBefore(v)) = u
    BY DEF UpdatedRequest
<1>2. TokensAdded(v, i, TokensBefore(v)[i]) = Len(path)
    BY TokensFit
<1>3. Len(path) \in Nat
    BY SeqLength
<1>4. IsSeq(sent) /\ Len(sent) = Len(path)
  <2>1. Len(path) \in 0 .. Len(path)
      BY <1>3
  <2>2. sent = SubSeq(path, 1, Len(path))
      BY <1>2
  <2> HIDE DEF sent, path
  <2>3. IsSeq(path)
      BY DEF path
  <2> QED BY <2>1, <2>2, <2>3, SeqPrefix
<1>5. IsSeq(more) /\ Len(more) = Len(path)
  <2>1. DOMAIN sent = 1 .. Len(path)
      BY <1>4, SeqLength
  <2> HIDE DEF sent, path
  <2>2. more = [k \in 1 .. Len(path) |-> sent[k].token]
      BY <2>1 DEF Tokens
  <2>3. more = [k \in 1 .. Len(path) |-> more[k]]
      BY <2>2
  <2> HIDE DEF more
  <2> QED BY <1>3, <2>3, FunctionIsSeq
<1> HIDE DEF more, sent, path
<1>6. /\ u.status = r.status /\ u.beam_tree = NoBeamTree /\ u.tokens = r.tokens \o more
      /\ u.initial_len = r.initial_len /\ u.max_sequence_length = r.max_sequence_length
    BY DEF RequestFields, more
<1> HIDE DEF u
<1>7. IsSeq(u.tokens) /\ Len(u.tokens) = Len(r.tokens) + Len(more)
  <2>1. IsSeq(r.tokens)
      BY DEF Sized
  <2>2. IsSeq(r.tokens \o more) /\ Len(r.tokens \o more) = Len(r.tokens) + Len(more)
      BY ONLY <1>5, <2>1, SeqConcat
  <2> QED BY <1>6, <2>2
<1>8. Sized(u)
    BY <1>6, <1>7 DEF Sized
<1>9. Size(u) = Size(r) + Len(path)
  <2>1. Len(r.tokens) \in Nat /\ r.initial_len \in Nat
      BY RootDepth DEF Sized
  <2>2. Size(u) = r.initial_len + Len(u.tokens) /\ Size(r) = r.initial_len + Len(r.tokens)
      BY <1>6 DEF Size
  <2>3. Len(u.tokens) = Len(r.tokens) + Len(path)
      BY <1>5, <1>7
  <2> QED BY <1>3, <2>1, <2>2, <2>3
<1> QED BY <1>1, <1>6, <1>8, <1>9 DEF path

\* A row that goes on grows the tree of its request anew.
LEMMA RunningRowRight ==
    ASSUME EnoughTokens, setup \in Setups, NEW v, PathsBounded(v),
           NEW i \in Rows, i \in DOMAIN v, ~Finishes(v, i),
           NEW g, g = tree_bc.row[i].guid,
           DOMAIN all_requests[g] = RequestFields, Sized(all_requests[g]),
           all_requests[g].status = "RUNNING",
           VerifiedPath(v[i], Size(all_requests[g]) - 1), NEW commit
    PROVE  BeamRowRight(RunningBeamRow(g, v[i].verified),
                        UpdatedRequest(v, i, TokensBefore(v)), commit, 0)
<1> DEFINE r == all_requests[g]
           path == v[i].verified
           u == UpdatedRequest(v, i, TokensBefore(v))
           row == RunningBeamRow(g, path)
<1>1. /\ IsSeq(path) /\ Len(path) \in 1 .. MaxBeamDepth + 1
      /\ path[1].depth = Size(r) - 1 + 1
    BY DEF VerifiedPath
<1>2. /\ Sized(u) /\ u.status = r.status /\ u.beam_tree = NoBeamTree
      /\ Size(u) = Size(r) + Len(path)
    BY <1>1, UpdatedRunning
<1>3. Size(r) \in Nat \ {0} /\ MaxBeamDepth \in Nat \ {0} /\ r.max_sequence_length \in Nat
    BY RootDepth, DepthIsNatural DEF Sized
<1>4. Len(path) + Size(r) < r.max_sequence_length
  <2>1. ~(Len(path) + Size(r) >= r.max_sequence_length)
      BY DEF Finishes
  <2> QED BY <1>1, <1>3, <2>1
<1>5. /\ DOMAIN row = BeamFields
      /\ row.running = TRUE /\ row.num = Len(path) /\ row.current_depth = 1
      /\ row.max_depth = Minimum(r.max_sequence_length - path[1].depth - Len(path), MaxBeamDepth)
      /\ row.beam_size = Width(0) /\ row.sub_request_num = 1
      /\ row.causalMask = UpdateBitMask(Len(path), Size(r))
    BY DEF RunningBeamRow, BeamFields
<1> HIDE DEF row, u, path, r
<1>6. row.max_depth \in 1 .. MaxBeamDepth
  <2> DEFINE rest == r.max_sequence_length - path[1].depth - Len(path)
  <2>1. path[1].depth = Size(r)
      BY <1>1, <1>3
  <2>2. rest \in Nat \ {0}
      BY <1>1, <1>3, <1>4, <2>1
  <2>3. row.max_depth = Minimum(rest, MaxBeamDepth)
      BY <1>5
  <2> HIDE DEF rest
  <2> QED BY <1>3, <2>2, <2>3 DEF Minimum
<1>7. row.beam_size \in 1 .. MaxBranches
    BY <1>5, WidthRight
<1>8. LayersRight(u.beam_tree, 0) /\ Lengths(u.beam_tree)[0] = 1
    BY <1>2, NoTreeRight
<1>9. /\ MaskRight(row.causalMask, Lengths(u.beam_tree), 0)
      /\ row.causalMask.non_tree_cache_size = Size(u) - 1
  <2>1. MaskRight(UpdateBitMask(Len(path), Size(r)), Lengths(u.beam_tree), 0)
        /\ UpdateBitMask(Len(path), Size(r)).non_tree_cache_size = Size(r) + Len(path) - 1
      BY <1>8, RootMask
  <2>2. Size(u) - 1 = Size(r) + Len(path) - 1
      BY <1>1, <1>2, <1>3
  <2> QED BY <1>5, <2>1, <2>2
<1>10. row.num \in Nat \ {0}
    BY <1>1, <1>5
<1>11. row.current_depth = 0 + 1
    BY <1>5
<1>12. u.status = "RUNNING"
    BY <1>2 DEF r
<1>13. Growing(row, u, 0)
    BY <1>5, <1>6, <1>7, <1>8, <1>9, <1>10, <1>11, <1>12 DEF Growing
<1>14. BeamRowRight(row, u, commit, 0)
    BY <1>2, <1>5, <1>13 DEF BeamRowRight
<1> QED BY <1>14 DEF row, u, path

\* The row of a prompt that goes on loading: what the last batch held of it is
\* committed before more is seen.
LEMMA LoadingRowRight ==
    ASSUME NEW i \in Rows, NEW r, IsSeq(tree_bc.tokensInfo), Sized(r),
           Loading(r, tree_bc.row[i].num), tree_bc.row[i].offset \in Nat,
           SlotsWithin(tree_bc.tokensInfo, i, tree_bc.row[i].offset, tree_bc.row[i].num),
           NEW g
    PROVE  BeamRowRight(LoadingBeamRow(g), r, Commits(Loaded(r, i)), 0)
<1> DEFINE slots == Loaded(r, i)
           commit == Commits(slots)
<1>1. IsSeq(slots) /\ Len(slots) \in Nat /\ DOMAIN slots = 1 .. Len(slots)
    BY LoadedSequence, SeqLength
<1>2. tree_bc.row[i].num \in Int
    BY DEF Loading
<1>3. Len(slots) = 0 \/ Len(slots) <= tree_bc.row[i].num
    BY <1>2, LoadedCount
<1> HIDE DEF slots
<1>4. commit = [k \in 1 .. Len(slots) |-> commit[k]]
    BY <1>1 DEF Commits
<1> HIDE DEF commit
<1>5. IsSeq(commit) /\ Len(commit) = Len(slots)
    BY <1>1, <1>4, FunctionIsSeq
<1>6. Loading(r, Len(commit))
    BY <1>1, <1>2, <1>3, <1>5 DEF Loading, Sized
<1>7. DOMAIN LoadingBeamRow(g) = BeamFields /\ LoadingBeamRow(g).running = FALSE
    BY DEF LoadingBeamRow, NoBeamRow, BeamFields
<1>8. BeamRowRight(LoadingBeamRow(g), r, commit, 0)
    BY <1>5, <1>6, <1>7 DEF BeamRowRight
<1> QED BY <1>8 DEF commit, slots

\* The row of a request that is admitted.
LEMMA NewRowRight ==
    ASSUME NEW r, NEW commit, Fresh(r, commit), NEW g, NEW num
    PROVE  BeamRowRight(NewBeamRow(g, num), r, commit, 0)
<1>1. DOMAIN NewBeamRow(g, num) = BeamFields /\ NewBeamRow(g, num).running = FALSE
    BY DEF NewBeamRow, NoBeamRow, BeamFields
<1>2. IsSeq(commit) /\ Len(commit) = 0
    BY SeqEmpty DEF Fresh
<1>3. Loading(r, Len(commit))
    BY <1>2 DEF Fresh, Loading, Sized
<1> QED BY <1>1, <1>2, <1>3 DEF BeamRowRight, Fresh

\* Requests that are not served yet keep what makes them fresh.
LEMMA FreshStays ==
    ASSUME NEW r, NEW commit, Fresh(r, commit), DOMAIN r = RequestFields, NEW size
    PROVE  Fresh([r EXCEPT !.ssm_cache_size = size], commit)
<1> DEFINE u == [r EXCEPT !.ssm_cache_size = size]
<1>1. /\ u.status = r.status /\ u.tokens = r.tokens /\ u.llm_cache_size = r.llm_cache_size
      /\ u.initial_len = r.initial_len /\ u.max_sequence_length = r.max_sequence_length
    BY DEF RequestFields
<1> HIDE DEF u
<1>2. Fresh(u, commit)
    BY <1>1 DEF Fresh, Sized
<1> QED BY <1>2 DEF u

\* prepare_next_batch_init: the rows that go on, those that load a prompt and the
\* new ones fit their requests.
LEMMA InitStepSpeculates ==
    ASSUME EnoughTokens, ServingInvariant, SpeculationInvariant, PrepareNextBatchInit
    PROVE  SpeculationInvariant'
<1> DEFINE v == Verification
           row == tree_bc.row
           active == ActiveRows(row)
           before == TokensBefore(v)
           batch == Admitted(v)
           new == {i \in Rows : batch.row[i].guid # row[i].guid /\ batch.row[i].guid # 0}
           RowOf(g) == CHOOSE i \in active : row[i].guid = g
           served == {row[i].guid : i \in active}
           s == all_requests
           queue == pending_infr_request_queue
           t == [g \in DOMAIN s |->
                   IF g \in served THEN UpdatedRequest(v, RowOf(g), before)
                   ELSE IF \E i \in new : batch.row[i].guid = g
                   THEN [s[g] EXCEPT !.ssm_cache_size =
                           batch.row[CHOOSE i \in new : batch.row[i].guid = g].num]
                   ELSE s[g]]
           com == [g \in DOMAIN s |->
                     IF g \notin served THEN committed_tokens[g]
                     ELSE IF RowOf(g) \in DOMAIN v THEN v[RowOf(g)].committed
                     ELSE Commits(Loaded(s[g], RowOf(g)))]
<1>1. /\ Registered(s) /\ step.call = "init"
      /\ EachOnce(row, queue, Open(s))
      /\ TreeRows /\ QueueFresh /\ Parallel /\ setup \in Setups
    BY DEF ServingInvariant, SpeculationInvariant, PrepareNextBatchInit
<1>2. /\ all_requests' = t /\ beam_bc' = batch.row /\ committed_tokens' = com
      /\ dfs_tree_inputs' = [g \in DOMAIN s |-> <<>>]
      /\ queue' = batch.queue /\ step' = NextStep /\ setup' = setup
    BY DEF PrepareNextBatchInit, Guid
<1>3. step'.call = "beam" /\ step'.depth = 0
    BY <1>1, <1>2 DEF NextStep
<1>4. \A i \in DOMAIN v : /\ Len(dfs_tree_inputs[row[i].guid]) >= Len(Loaded(s[row[i].guid], i))
                          /\ v[i].asserted
    BY DEF PrepareNextBatchInit
<1>5. \A i \in active : i \in Rows /\ row[i].guid # 0 /\ row[i].guid \in DOMAIN s
                        /\ DOMAIN s[row[i].guid] = RequestFields
    BY <1>1, ServedAreRegistered DEF ActiveRows, Registered
<1>6. \A i \in Rows : i \in DOMAIN v <=> i \in active /\ s[row[i].guid].status = "RUNNING"
    BY DEF Verification, RunningRows, ActiveRows
<1>7. DOMAIN v \subseteq active
    BY <1>6, VerifiedRows
<1>8. \A i \in active : row[i].guid \in served /\ RowOf(row[i].guid) = i
  <2> SUFFICES ASSUME NEW i \in active
               PROVE  row[i].guid \in served /\ RowOf(row[i].guid) = i
      OBVIOUS
  <2>1. \E j \in active : row[j].guid = row[i].guid
      OBVIOUS
  <2>2. RowOf(row[i].guid) \in active /\ row[RowOf(row[i].guid)].guid = row[i].guid
      BY <2>1
  <2>3. row[i].guid # 0 /\ i \in Rows
      BY <1>5
  <2> HIDE DEF RowOf
  <2>4. RowOf(row[i].guid) \in Rows
      BY <1>5, <2>2
  <2> QED BY <1>1, <2>2, <2>3, <2>4 DEF EachOnce
<1>9. /\ IsSeq(tree_bc.tokensInfo)
      /\ \A i \in active : TreeRowRight(i, row[i], s[row[i].guid],
                                        dfs_tree_inputs[row[i].guid], tree_bc.tokensInfo)
    BY <1>1 DEF TreeRows
<1>10. \A i \in DOMAIN v : VerifiedPath(v[i], Size(s[row[i].guid]) - 1)
  <2> SUFFICES ASSUME NEW i \in DOMAIN v
               PROVE  VerifiedPath(v[i], Size(s[row[i].guid]) - 1)
      OBVIOUS
  <2>1. i \in active
      BY <1>7
  <2>2. TreeRowRight(i, row[i], s[row[i].guid], dfs_tree_inputs[row[i].guid],
                     tree_bc.tokensInfo)
      BY <1>9, <2>1
  <2>3. /\ Len(dfs_tree_inputs[row[i].guid]) >= Len(Loaded(s[row[i].guid], i))
        /\ v[i].asserted
      BY <1>4
  <2> QED BY <1>9, <2>2, <2>3, VerifiedRowRight
<1>11. PathsBounded(v)
  <2> HIDE DEF v
  <2> QED BY <1>10 DEF PathsBounded, VerifiedPath
<1>12. AdmittedRight(batch, v)
  <2>1. IsSeq(queue)
      BY <1>1 DEF EachOnce, IsSeq
  <2> QED BY <2>1, AdmittedIsRight
<1>13. \A g : Queued(g) => /\ g \in DOMAIN s /\ g \notin served
                           /\ Fresh(s[g], committed_tokens[g])
  <2> SUFFICES ASSUME NEW k \in DOMAIN queue
               PROVE  /\ queue[k] \in DOMAIN s /\ queue[k] \notin served
                      /\ Fresh(s[queue[k]], committed_tokens[queue[k]])
      BY DEF Queued
  <2>1. queue[k] \in DOMAIN s
      BY <1>1, ServedAreRegistered
  <2>2. \A i \in Rows : row[i].guid # queue[k]
      BY <1>1 DEF EachOnce
  <2>3. queue[k] \notin served
      BY <1>5, <2>2
  <2>4. Fresh(s[queue[k]], committed_tokens[queue[k]])
      BY <1>1 DEF QueueFresh
  <2> QED BY <2>1, <2>3, <2>4
<1>14. \A g : Queued(g) => Fresh(t[g], com[g])
  <2> SUFFICES ASSUME NEW g, Queued(g) PROVE Fresh(t[g], com[g])
      OBVIOUS
  <2>1. g \in DOMAIN s /\ g \notin served /\ Fresh(s[g], committed_tokens[g])
      BY <1>13
  <2>2. DOMAIN s[g] = RequestFields
      BY <1>1, <2>1 DEF Registered
  <2>3. com[g] = committed_tokens[g]
      BY <2>1
  <2> DEFINE size == batch.row[CHOOSE i \in new : batch.row[i].guid = g].num
  <2>4. t[g] = [s[g] EXCEPT !.ssm_cache_size = size] \/ t[g] = s[g]
      BY <2>1
  <2> HIDE DEF t, com, size, s
  <2>5. Fresh([s[g] EXCEPT !.ssm_cache_size = size], committed_tokens[g])
      BY <2>1, <2>2, FreshStays
  <2> QED BY <2>1, <2>3, <2>4, <2>5
<1>15. QueueFresh'
  <2>1. \A k \in DOMAIN batch.queue : Queued(batch.queue[k])
      BY <1>12 DEF AdmittedRight
  <2> HIDE DEF t, com, batch
  <2> QED BY <1>2, <1>14, <2>1 DEF QueueFresh
<1>16. Parallel'
  <2>1. Len(s) \in Nat /\ DOMAIN s = 1 .. Len(s)
      BY <1>1 DEF Registered
  <2>2. t = [g \in 1 .. Len(s) |-> t[g]] /\ com = [g \in 1 .. Len(s) |-> com[g]]
      BY <2>1
  <2> DEFINE none == [g \in DOMAIN s |-> <<>>]
  <2>3. none = [g \in 1 .. Len(s) |-> none[g]]
      BY <2>1
  <2> HIDE DEF t, com, none, s
  <2>4. IsSeq(t) /\ Len(t) = Len(s) /\ IsSeq(com) /\ Len(com) = Len(s)
        /\ IsSeq(none) /\ Len(none) = Len(s)
      BY <2>1, <2>2, <2>3, FunctionIsSeq
  <2> QED BY <1>2, <2>4 DEF Parallel, none
<1>17. ASSUME NEW i \in active, NEW carried, carried = CarriedRow(v, i), carried.guid # 0
       PROVE  /\ carried.guid = row[i].guid
              /\ BeamRowRight(carried, t[row[i].guid], com[row[i].guid], 0)
  <2> DEFINE g == row[i].guid
  <2>1. /\ i \in Rows /\ g # 0 /\ g \in DOMAIN s /\ DOMAIN s[g] = RequestFields
        /\ g \in served /\ RowOf(g) = i
      BY <1>5, <1>8
  <2>2. t[g] = UpdatedRequest(v, i, before)
      BY <2>1
  <2>3. com[g] = IF i \in DOMAIN v THEN v[i].committed ELSE Commits(Loaded(s[g], i))
      BY <2>1
  <2>4. TreeRowRight(i, row[i], s[g], dfs_tree_inputs[g], tree_bc.tokensInfo)
      BY <1>9
  <2>5. Sized(s[g])
      BY <2>4 DEF TreeRowRight
  <2>6. CASE i \in DOMAIN v
    <3>1. ~Finishes(v, i)
      <4>1. CASE Finishes(v, i)
        <5>1. carried = NoBeamRow
            BY <1>17, <2>1, <2>6, <4>1 DEF CarriedRow
        <5> QED BY <1>17, <5>1 DEF NoBeamRow
      <4> QED BY <4>1
    <3>2. carried = RunningBeamRow(g, v[i].verified)
        BY <1>17, <2>1, <2>6, <3>1 DEF CarriedRow
    <3>3. s[g].status = "RUNNING" /\ VerifiedPath(v[i], Size(s[g]) - 1)
        BY <1>6, <1>10, <2>1, <2>6
    <3> HIDE DEF t, com, RowOf, v
    <3>4. BeamRowRight(RunningBeamRow(g, v[i].verified), UpdatedRequest(v, i, before),
                       com[g], 0)
        BY <1>1, <1>11, <2>1, <2>5, <2>6, <3>1, <3>3, RunningRowRight
    <3>5. carried.guid = g
        BY <3>2 DEF RunningBeamRow
    <3> QED BY <2>2, <3>2, <3>4, <3>5
  <2>7. CASE i \notin DOMAIN v
    <3>1. s[g].status # "RUNNING"
        BY <1>6, <2>1, <2>7
    <3>2. /\ Loading(s[g], row[i].num) /\ row[i].offset \in Nat
          /\ SlotsWithin(tree_bc.tokensInfo, i, row[i].offset, row[i].num)
        BY <2>4, <3>1 DEF TreeRowRight
    <3>3. carried = LoadingBeamRow(g)
        BY <1>17, <2>1, <2>7 DEF CarriedRow
    <3>4. t[g] = s[g]
        BY <2>2, <2>7 DEF UpdatedRequest
    <3>5. com[g] = Commits(Loaded(s[g], i))
        BY <2>3, <2>7
    <3> HIDE DEF t, com, RowOf, v
    <3>6. BeamRowRight(LoadingBeamRow(g), s[g], Commits(Loaded(s[g], i)), 0)
        BY <1>9, <2>1, <2>5, <3>2, LoadingRowRight
    <3>7. carried.guid = g
        BY <3>3 DEF LoadingBeamRow, NoBeamRow
    <3> QED BY <3>3, <3>4, <3>5, <3>6, <3>7
  <2> QED BY <2>6, <2>7
<1>18. BeamBatchRight'
  <2>0. Depth' = 0
      BY <1>3 DEF Depth
  <2> SUFFICES ASSUME NEW i \in Rows, batch.row[i].guid # 0
               PROVE  BeamRowRight(batch.row[i], t[batch.row[i].guid],
                                   com[batch.row[i].guid], 0)
    <3> HIDE DEF t, com, batch, v
    <3> QED BY <1>2, <2>0 DEF BeamBatchRight, ActiveRows
  <2>1. RowAdmitted(batch.row, i, CarriedRow(v, i))
      BY <1>12 DEF AdmittedRight
  <2>2. CASE batch.row[i] = CarriedRow(v, i)
    <3>1. i \in active
      <4>1. CASE row[i].guid = 0
        <5>1. i \in DOMAIN v => row[i].guid # 0
            BY <1>5, <1>7
        <5>2. CarriedRow(v, i).guid = 0
          <6> HIDE DEF v
          <6> QED BY <4>1, <5>1, CarriedRowNamed
        <5> QED BY <2>2, <5>2
      <4> QED BY <4>1 DEF ActiveRows
    <3> HIDE DEF t, com, batch, v
    <3> QED BY <1>17, <2>2, <3>1
  <2>3. CASE \E g, num : Queued(g) /\ batch.row[i] = NewBeamRow(g, num)
    <3>1. PICK g, num : Queued(g) /\ batch.row[i] = NewBeamRow(g, num)
        BY <2>3
    <3>2. batch.row[i].guid = g
        BY <3>1, NewBeamRowNamed
    <3> HIDE DEF t, com, batch, v
    <3>3. Fresh(t[g], com[g])
        BY <1>14, <3>1
    <3> QED BY <3>1, <3>2, <3>3, NewRowRight
  <2> QED BY <2>1, <2>2, <2>3 DEF RowAdmitted
<1>19. 0 \in 0 .. MaxBeamDepth - 1
    BY DepthIsNatural
<1> HIDE DEF t, com, batch
<1> QED BY <1>1, <1>2, <1>3, <1>15, <1>16, <1>18, <1>19 DEF SpeculationInvariant

-----------------------------------------------------------------------------
(* prepare_next_batch_beam: a layer more. *)

\* The rows of a beam batch have their members.
RowsHaveFields == \A i \in ActiveRows(beam_bc) : DOMAIN beam_bc[i] = BeamFields

\* While prompts go on, the rows that run stay the deeper ones, and no other
\* begins to run.
BeamAcc(acc, deeper) ==
    /\ DOMAIN acc.row = Rows
    /\ \A i \in RunningBeamRows : acc.row[i] = deeper[i]
    /\ \A i \in ActiveRows(beam_bc) \ RunningBeamRows :
          DOMAIN acc.row[i] = BeamFields /\ acc.row[i].running = beam_bc[i].running

\* A prompt that goes on does not run.
LEMMA PromptRowWaits ==
    ASSUME NEW row, DOMAIN row = BeamFields, NEW i, NEW n
    PROVE  DOMAIN PromptRow(row, i, n) = BeamFields /\ PromptRow(row, i, n).running = row.running
<1> DEFINE first == row.first_depth + row.num
           rest == Size(all_requests[row.guid]) - first
           num == Minimum(MaxTokens - n - MaxRequests + i, rest)
<1>1. CASE rest <= 0
  <2>1. PromptRow(row, i, n) = [row EXCEPT !.first_depth = first, !.num = 0, !.beam_size = 1,
                                           !.sub_request_num = 0]
      BY <1>1 DEF PromptRow
  <2> HIDE DEF first, rest, num
  <2> QED BY <2>1 DEF BeamFields
<1>2. CASE ~(rest <= 0)
  <2>1. PromptRow(row, i, n) = [row EXCEPT !.first_depth = first, !.num = num, !.beam_size = 1,
                                           !.causalMask = AppendPendingRequest(@, num)]
      BY <1>2 DEF PromptRow
  <2> HIDE DEF first, rest, num
  <2> QED BY <2>1 DEF BeamFields
<1> QED BY <1>1, <1>2

\* One prompt more.
LEMMA AddPromptRowWaits ==
    ASSUME NEW acc, NEW deeper, BeamAcc(acc, deeper), RowsHaveFields, NEW i \in Rows
    PROVE  BeamAcc(AddPromptRow(acc, i), deeper)
<1>1. CASE i \notin ActiveRows(beam_bc) \ RunningBeamRows
  <2>1. AddPromptRow(acc, i) = acc
      BY <1>1 DEF AddPromptRow
  <2> QED BY <2>1
<1>2. CASE i \in ActiveRows(beam_bc) \ RunningBeamRows
  <2> DEFINE row == PromptRow(beam_bc[i], i, acc.num_tokens)
             after == [acc.row EXCEPT ![i] = row]
  <2>1. AddPromptRow(acc, i).row = after
      BY <1>2 DEF AddPromptRow
  <2>2. DOMAIN row = BeamFields /\ row.running = beam_bc[i].running
      BY <1>2, PromptRowWaits DEF RowsHaveFields
  <2> HIDE DEF row
  <2>3. DOMAIN after = Rows /\ after[i] = row /\ \A j \in Rows : j # i => after[j] = acc.row[j]
      BY DEF BeamAcc
  <2> HIDE DEF after
  <2>4. \A j \in RunningBeamRows : j \in Rows /\ j # i
      BY <1>2 DEF RunningBeamRows, ActiveRows
  <2>5. \A j \in ActiveRows(beam_bc) : j \in Rows
      BY DEF ActiveRows
  <2> QED BY <2>1, <2>2, <2>3, <2>4, <2>5 DEF BeamAcc
<1> QED BY <1>1, <1>2

\* All rows of the batch.
LEMMA BeamRowsRight ==
    ASSUME NEW deeper, RowsHaveFields
    PROVE  /\ \A i \in RunningBeamRows : BeamRows(deeper)[i] = deeper[i]
           /\ \A i \in ActiveRows(beam_bc) \ RunningBeamRows :
                 /\ DOMAIN BeamRows(deeper)[i] = BeamFields
                 /\ BeamRows(deeper)[i].running = beam_bc[i].running
<1>1. PICK h : /\ h[0] = BegunBatch(deeper)
               /\ \A i \in Rows : h[i + 1] = AddPromptRow(h[i], i)
               /\ BeamRows(deeper) = h[MaxRequests].row
    BY BeamRowsUpto
<1>2. MaxRequests \in Nat
    BY SpecAssumption DEF SpecAssumption
<1> DEFINE T == {i \in Nat : i <= MaxRequests => BeamAcc(h[i], deeper)}
<1>3. 0 \in T
  <2> DEFINE c == BegunBatch(deeper)
  <2>1. DOMAIN c.row = Rows
        /\ \A i \in Rows : c.row[i] = IF i \in RunningBeamRows THEN deeper[i] ELSE beam_bc[i]
      BY DEF BegunBatch
  <2>2. RunningBeamRows \subseteq Rows /\ ActiveRows(beam_bc) \subseteq Rows
      BY DEF RunningBeamRows, ActiveRows
  <2> HIDE DEF c
  <2>3. BeamAcc(c, deeper)
      BY <2>1, <2>2 DEF BeamAcc, RowsHaveFields
  <2> QED BY <1>1, <2>3 DEF c
<1>4. ASSUME NEW i \in Nat, i \in T PROVE i + 1 \in T
  <2> SUFFICES ASSUME i + 1 <= MaxRequests PROVE BeamAcc(h[i + 1], deeper)
      OBVIOUS
  <2>1. i \in Rows /\ BeamAcc(h[i], deeper)
      BY <1>2, <1>4 DEF Rows
  <2>2. BeamAcc(AddPromptRow(h[i], i), deeper)
      BY <2>1, AddPromptRowWaits
  <2> QED BY <1>1, <2>1, <2>2
<1>5. \A i \in Nat : i \in T
  <2> HIDE DEF T
  <2> QED BY <1>3, <1>4, SetInduction
<1>6. BeamAcc(h[MaxRequests], deeper)
    BY <1>2, <1>5
<1> QED BY <1>1, <1>6 DEF BeamAcc

\* The tree of d layers with one layer more, and with its root if that is the first.
LayerStored(t, tree, d, root, layer) ==
    t = [tree EXCEPT ![0] = IF d + 1 = 1 THEN << root >> ELSE @, ![d + 1] = layer]

\* A layer more: what store_beam_metadata makes of a tree of d layers.
LEMMA OneLayerMore ==
    ASSUME NEW tree, NEW d \in 0 .. MaxBeamDepth - 1, LayersRight(tree, d),
           NEW layer, IsSeq(layer), NEW root, NEW width \in Nat \ {0},
           Len(layer) = Lengths(tree)[d] * width, Len(layer) <= MaxBranches,
           NEW t, LayerStored(t, tree, d, root, layer)
    PROVE  /\ LayersRight(t, d + 1) /\ IsLengths(Lengths(t))
           /\ SameDownTo(Lengths(t), Lengths(tree), d)
           /\ Lengths(t)[d + 1] = Len(layer)
<1> DEFINE L == Lengths(tree)
           K == Lengths(t)
           new == Len(layer)
<1>0. MaxBeamDepth \in Nat \ {0} /\ MaxBranches \in Nat \ {0} /\ d \in Nat
      /\ 0 \in 0 .. MaxBeamDepth /\ d + 1 \in 0 .. MaxBeamDepth /\ d + 1 # 0
    BY DepthIsNatural
<1>1. /\ DOMAIN tree = 0 .. MaxBeamDepth
      /\ \A k \in 0 .. MaxBeamDepth : IsSeq(tree[k])
      /\ d > 0 => Len(tree[0]) = 1
      /\ \A k \in 0 .. d : L[k] \in 1 .. MaxBranches
      /\ Multiplies(L, d)
    BY DEF LayersRight
<1>2. IsSeq(<< root >>) /\ Len(<< root >>) = 1
  <2>1. << root >> \in Seq({root}) /\ Len(<< root >>) = 1
      OBVIOUS
  <2> QED BY <2>1 DEF IsSeq
<1>3. /\ DOMAIN t = 0 .. MaxBeamDepth
      /\ t[0] = (IF d + 1 = 1 THEN << root >> ELSE tree[0])
      /\ t[d + 1] = layer
      /\ \A k \in 0 .. MaxBeamDepth : k # 0 /\ k # d + 1 => t[k] = tree[k]
    BY <1>0, <1>1 DEF LayerStored
<1>4. Len(t[0]) = 1 /\ IsSeq(t[0])
  <2>1. CASE d = 0
    <3>1. d + 1 = 1
        BY <2>1
    <3>2. t[0] = << root >>
        BY <1>3, <3>1
    <3> QED BY <1>2, <3>2, Zenon
  <2>2. CASE d > 0
    <3>1. t[0] = tree[0]
        BY <1>3, <2>2
    <3> QED BY <1>0, <1>1, <2>2, <3>1
  <2> QED BY <1>0, <2>1, <2>2
<1>5. \A k \in 0 .. MaxBeamDepth : IsSeq(t[k])
  <2> TAKE k \in 0 .. MaxBeamDepth
  <2>1. CASE k = 0
      BY <1>4, <2>1
  <2>2. CASE k = d + 1
      BY <1>3, <2>2
  <2>3. CASE k # 0 /\ k # d + 1
      BY <1>1, <1>3, <2>3
  <2> QED BY <2>1, <2>2, <2>3
<1>6. \A k \in 0 .. MaxBeamDepth : K[k] = Len(t[k])
    BY <1>4 DEF Lengths
<1>7. \A k \in 0 .. d : K[k] = L[k] /\ k \in 0 .. MaxBeamDepth
  <2> TAKE k \in 0 .. d
  <2>1. k \in 0 .. MaxBeamDepth /\ k # d + 1
      BY <1>0
  <2>2. CASE k = 0
      BY <1>0, <2>2 DEF Lengths
  <2>3. CASE k # 0
    <3>1. t[k] = tree[k]
        BY <1>3, <2>1, <2>3
    <3>2. K[k] = Len(t[k]) /\ L[k] = Len(tree[k])
        BY <2>1, <2>3 DEF Lengths
    <3> QED BY <2>1, <3>1, <3>2
  <2> QED BY <2>1, <2>2, <2>3
<1>8. K[d + 1] = new
    BY <1>0, <1>3, <1>6
<1>9. IsLengths(K)
  <2>1. \A k \in 0 .. MaxBeamDepth : Len(t[k]) \in Nat
      BY <1>5, SeqLength
  <2> HIDE DEF K
  <2> QED BY <1>6, <2>1 DEF IsLengths
<1> HIDE DEF K, L
<1>10. L[d] \in 1 .. MaxBranches /\ new = L[d] * width /\ d \in 0 .. d
    BY <1>0, <1>1 DEF L
<1>11. new \in Nat \ {0} /\ new \in 1 .. MaxBranches
  <2>1. L[d] \in Nat \ {0}
      BY <1>10
  <2>2. L[d] * width \in Nat \ {0}
      BY <2>1, ExactQuotient
  <2> QED BY <1>0, <1>10, <2>2
<1>12. \A k \in 0 .. d + 1 : K[k] \in 1 .. MaxBranches
  <2> TAKE k \in 0 .. d + 1
  <2>1. CASE k = d + 1
      BY <1>8, <1>11, <2>1
  <2>2. CASE k # d + 1
    <3>1. k \in 0 .. d
        BY <1>0, <2>2
    <3> QED BY <1>1, <1>7, <3>1
  <2> QED BY <2>1, <2>2
<1>13. \A i, k \in 0 .. d + 1 : i <= k => \E w \in Nat \ {0} : K[k] = K[i] * w
  <2> SUFFICES ASSUME NEW i \in 0 .. d + 1, NEW k \in 0 .. d + 1, i <= k
               PROVE  \E w \in Nat \ {0} : K[k] = K[i] * w
      OBVIOUS
  <2>1. CASE i = d + 1
    <3>1. k = d + 1
        BY <1>0, <2>1
    <3>2. K[k] = K[i] * 1
        BY <1>8, <1>11, <2>1, <3>1
    <3> QED BY <3>2
  <2>2. CASE i # d + 1 /\ k = d + 1
    <3>1. i \in 0 .. d /\ i <= d
        BY <1>0, <2>2
    <3>2. PICK w \in Nat \ {0} : L[d] = L[i] * w
        BY <1>1, <1>10, <3>1 DEF Multiplies
    <3>3. w * width \in Nat \ {0}
        BY ExactQuotient
    <3>4. L[i] \in Nat
        BY <1>1, <3>1
    <3>5. new = L[i] * (w * width)
        BY <1>10, <3>2, <3>4
    <3> QED BY <1>7, <1>8, <2>2, <3>1, <3>3, <3>5
  <2>3. CASE i # d + 1 /\ k # d + 1
    <3>1. i \in 0 .. d /\ k \in 0 .. d
        BY <1>0, <2>3
    <3>2. \E w \in Nat \ {0} : L[k] = L[i] * w
        BY <1>1, <3>1 DEF Multiplies
    <3> QED BY <1>7, <3>1, <3>2
  <2> QED BY <2>1, <2>2, <2>3
<1>14. Multiplies(K, d + 1)
  <2>1. \A i \in 0 .. d + 1 : K[i] \in Nat \ {0}
      BY <1>12
  <2> QED BY <1>13, <2>1 DEF Multiplies
<1>15. SameDownTo(K, L, d)
    BY <1>7 DEF SameDownTo
<1> QED BY <1>3, <1>4, <1>5, <1>8, <1>9, <1>12, <1>14, <1>15 DEF LayersRight, K, L

\* The guesses of a row that grows a tree: one for each child of each branch.
LEMMA GuessesOf ==
    ASSUME NEW row, NEW r, NEW d, Growing(row, r, d), NEW n \in Nat \ {0},
           n = row.sub_request_num, NEW guesses \in RowGuesses(row)
    PROVE  /\ row.beam_size \in Nat \ {0}
           /\ IsSeq(guesses) /\ Len(guesses) = n * row.beam_size
<1>1. row.num # 0 /\ row.beam_size \in 1 .. MaxBranches /\ MaxBranches \in Nat
    BY DepthIsNatural DEF Growing
<1>2. row.beam_size \in Nat \ {0}
    BY <1>1
<1>3. Leaves(row) = n * row.beam_size
    BY <1>1 DEF Leaves
<1>4. Leaves(row) \in Nat
    BY <1>2, <1>3, ExactQuotient
<1>5. guesses \in [1 .. Leaves(row) -> TokenId]
    BY DEF RowGuesses
<1> DEFINE m == Leaves(row)
<1>6. guesses = [k \in 1 .. m |-> guesses[k]]
    BY <1>5
<1> HIDE DEF m
<1>7. IsSeq(guesses) /\ Len(guesses) = m
    BY <1>4, <1>6, FunctionIsSeq DEF m
<1> QED BY <1>2, <1>3, <1>7 DEF m

\* A row that goes one layer deeper grows the tree that has the layer.
LEMMA DeeperRowRight ==
    ASSUME setup \in Setups, NEW d \in 0 .. MaxBeamDepth - 1, NEW row, NEW r,
           Growing(row, r, d), DOMAIN row = BeamFields,
           NEW guesses \in RowGuesses(row),
           NEW t, t = StoreBeamMetadata(r, row, guesses),
           NEW u, u.beam_tree = t, Sized(u), u.status = r.status, Size(u) = Size(r),
           DeeperRow(row, t).sub_request_num <= MaxBranches, NEW commit
    PROVE  BeamRowRight(DeeperRow(row, t), u, commit, d + 1)
<1> DEFINE L == Lengths(r.beam_tree)
           after == DeeperRow(row, t)
           new == row.sub_request_num * row.beam_size
<1>0. MaxBeamDepth \in Nat \ {0} /\ MaxBranches \in Nat \ {0} /\ d \in Nat /\ d \in 0 .. d
    BY DepthIsNatural
<1>1. /\ row.running = TRUE /\ r.status = "RUNNING" /\ row.num \in Nat \ {0}
      /\ row.max_depth \in 1 .. MaxBeamDepth /\ row.current_depth = d + 1
      /\ row.sub_request_num = L[d] /\ LayersRight(r.beam_tree, d)
      /\ row.causalMask.non_tree_cache_size = Size(r) - 1
      /\ MaskRight(row.causalMask, L, d)
    BY DEF Growing
<1>2. L[d] \in Nat \ {0}
  <2>1. L[d] \in 1 .. MaxBranches
      BY <1>0, <1>1 DEF LayersRight
  <2> QED BY <1>0, <2>1
<1>3. row.beam_size \in Nat \ {0} /\ IsSeq(guesses) /\ Len(guesses) = L[d] * row.beam_size
    BY <1>1, <1>2, GuessesOf
<1>4. LayerStored(t, r.beam_tree, d, RootToken(r), guesses)
    BY <1>1 DEF StoreBeamMetadata, LayerStored
<1>5. /\ DOMAIN after = BeamFields /\ after.running = TRUE /\ after.num = 1
      /\ after.max_depth = row.max_depth /\ after.current_depth = row.current_depth + 1
      /\ after.beam_size = Width(row.current_depth) /\ after.sub_request_num = new
      /\ after.causalMask = AppendBitMask(row.causalMask, new, t, row.current_depth)
    BY <1>1 DEF DeeperRow, BeamFields
<1> HIDE DEF after, L
<1>6. new = L[d] * row.beam_size /\ new \in Nat \ {0} /\ Len(guesses) = new /\ new <= MaxBranches
  <2>1. L[d] * row.beam_size \in Nat \ {0}
      BY <1>2, <1>3, ExactQuotient
  <2> QED BY <1>1, <1>3, <1>5, <2>1 DEF after
<1> HIDE DEF new
<1>7. /\ LayersRight(t, d + 1) /\ IsLengths(Lengths(t))
      /\ SameDownTo(Lengths(t), L, d)
      /\ Lengths(t)[d + 1] = new
    BY <1>1, <1>3, <1>4, <1>6, OneLayerMore DEF L
<1>8. /\ MaskRight(AppendBitMask(row.causalMask, new, t, d + 1), Lengths(t), d + 1)
      /\ AppendBitMask(row.causalMask, new, t, d + 1).non_tree_cache_size
           = row.causalMask.non_tree_cache_size
  <2> DEFINE e == d + 1
  <2>1. e \in 1 .. MaxBeamDepth /\ e - 1 = d
      BY <1>0
  <2>2. Multiplies(Lengths(t), e) /\ Lengths(t)[e] = new
      BY <1>7 DEF LayersRight
  <2> HIDE DEF e
  <2>3. MaskRight(row.causalMask, L, e - 1)
        /\ SameDownTo(Lengths(t), L, e - 1)
      BY <1>1, <1>7, <2>1
  <2>4. /\ MaskRight(AppendBitMask(row.causalMask, new, t, e), Lengths(t), e)
        /\ AppendBitMask(row.causalMask, new, t, e).non_tree_cache_size
             = row.causalMask.non_tree_cache_size
      BY <1>6, <1>7, <2>1, <2>2, <2>3, AppendBitMaskRight
  <2> QED BY <2>4 DEF e
<1>9. after.beam_size \in 1 .. MaxBranches
  <2>1. d + 1 \in Nat
      BY <1>0
  <2>2. Width(d + 1) \in 1 .. MaxBranches
      BY <2>1, WidthRight
  <2> QED BY <1>1, <1>5, <2>2
<1>10. after.current_depth = (d + 1) + 1 /\ after.sub_request_num = Lengths(t)[d + 1]
    BY <1>1, <1>5, <1>7
<1>11. MaskRight(after.causalMask, Lengths(t), d + 1)
       /\ after.causalMask.non_tree_cache_size = Size(u) - 1
    BY <1>1, <1>5, <1>8
<1>12. Growing(after, u, d + 1)
  <2>1. after.num \in Nat \ {0}
      BY <1>5
  <2>2. after.max_depth \in 1 .. MaxBeamDepth /\ u.status = "RUNNING"
      BY <1>1, <1>5
  <2> QED BY <1>5, <1>7, <1>9, <1>10, <1>11, <2>1, <2>2 DEF Growing
<1> QED BY <1>5, <1>12 DEF BeamRowRight, after

\* A request whose tree and SSM cache are written is otherwise what it was.
Written(u, r, t, size) == u = [r EXCEPT !.beam_tree = t, !.ssm_cache_size = size]
OtherwiseSame(u, r) ==
    /\ u.status = r.status /\ Size(u) = Size(r)
    /\ Sized(r) => Sized(u)
    /\ \A seen : Loading(r, seen) => Loading(u, seen)

\* That is what its fields say.
LEMMA TreeWritten ==
    ASSUME NEW r, DOMAIN r = RequestFields, NEW t, NEW size, NEW u, Written(u, r, t, size)
    PROVE  u.beam_tree = t /\ OtherwiseSame(u, r)
<1>1. /\ u.beam_tree = t /\ u.status = r.status /\ u.tokens = r.tokens
      /\ u.initial_len = r.initial_len /\ u.max_sequence_length = r.max_sequence_length
      /\ u.llm_cache_size = r.llm_cache_size
    BY DEF RequestFields, Written
<1> QED BY <1>1 DEF OtherwiseSame, Size, Sized, Loading

\* After a layer of the beam tree, the rows that run have a tree of a layer more,
\* with its mask; the others load as they did.
LEMMA BeamStepSpeculates ==
    ASSUME ServingInvariant, SpeculationInvariant, PrepareNextBatchBeam
    PROVE  SpeculationInvariant'
<1> DEFINE s == all_requests
           active == ActiveRows(beam_bc)
           running == RunningBeamRows
           queue == pending_infr_request_queue
           RowOf(g) == CHOOSE i \in active : beam_bc[i].guid = g
           Tree(f, i) == StoreBeamMetadata(s[beam_bc[i].guid], beam_bc[i], f[i])
           Deeper(f) == [i \in running |-> DeeperRow(beam_bc[i], Tree(f, i))]
           Batch(f) == BeamRows(Deeper(f))
           d == step.depth
<1>1. /\ Registered(s) /\ step.call = "beam" /\ d \in 0 .. MaxBeamDepth - 1
      /\ EachOnce(beam_bc, queue, Open(s))
      /\ BeamBatchRight /\ QueueFresh /\ Parallel /\ setup \in Setups
    BY DEF ServingInvariant, SpeculationInvariant, PrepareNextBatchBeam
<1>2. PICK f \in Guesses :
         /\ \A i \in running : Batch(f)[i].sub_request_num <= MaxBranches
         /\ beam_bc' = Batch(f)
         /\ s' = [g \in DOMAIN s |->
                    IF \A i \in active : beam_bc[i].guid # g THEN s[g]
                    ELSE [s[g] EXCEPT
                       !.beam_tree = Tree(f, RowOf(g)),
                       !.ssm_cache_size = IF RowOf(g) \in running THEN @
                                          ELSE @ + Batch(f)[RowOf(g)].num]]
    BY DEF PrepareNextBatchBeam, Guid
<1>3. /\ step' = NextStep /\ setup' = setup /\ queue' = queue
      /\ committed_tokens' = committed_tokens /\ dfs_tree_inputs' = dfs_tree_inputs
    BY DEF PrepareNextBatchBeam
<1> DEFINE batch == Batch(f)
<1>4. MaxBeamDepth \in Nat \ {0} /\ d \in Nat
    BY <1>1, DepthIsNatural
<1>5. /\ step'.call \in {"beam", "verify"} /\ Depth' = d + 1
      /\ step'.call = "beam" => step'.depth \in 0 .. MaxBeamDepth - 1
  <2>1. step \in [call : {"init", "beam", "verify", "llm"}, depth : Nat]
      BY DEF ServingInvariant
  <2>2. CASE d + 1 < MaxBeamDepth
    <3>1. step' = [step EXCEPT !.depth = @ + 1]
        BY <1>1, <1>3, <2>2 DEF NextStep
    <3>2. step'.call = "beam" /\ step'.depth = d + 1
        BY <1>1, <2>1, <3>1
    <3> QED BY <1>4, <2>2, <3>2 DEF Depth
  <2>3. CASE ~(d + 1 < MaxBeamDepth)
    <3>1. step' = [call |-> "verify", depth |-> 0]
        BY <1>1, <1>3, <2>3 DEF NextStep
    <3>2. d + 1 = MaxBeamDepth
        BY <1>1, <1>4, <2>3
    <3> QED BY <3>1, <3>2 DEF Depth
  <2> QED BY <2>2, <2>3
<1>6. \A i \in active : /\ i \in Rows /\ beam_bc[i].guid # 0 /\ beam_bc[i].guid \in DOMAIN s
                        /\ DOMAIN s[beam_bc[i].guid] = RequestFields
    BY <1>1, ServedAreRegistered DEF ActiveRows, Registered
<1>7. \A i \in active : RowOf(beam_bc[i].guid) = i
  <2> SUFFICES ASSUME NEW i \in active PROVE RowOf(beam_bc[i].guid) = i
      OBVIOUS
  <2>1. \E j \in active : beam_bc[j].guid = beam_bc[i].guid
      OBVIOUS
  <2>2. RowOf(beam_bc[i].guid) \in active
        /\ beam_bc[RowOf(beam_bc[i].guid)].guid = beam_bc[i].guid
      BY <2>1
  <2>3. beam_bc[i].guid # 0 /\ i \in Rows
      BY <1>6
  <2> HIDE DEF RowOf
  <2>4. RowOf(beam_bc[i].guid) \in Rows
      BY <1>6, <2>2
  <2> QED BY <1>1, <2>2, <2>3, <2>4 DEF EachOnce
<1>8. \A i \in active : BeamRowRight(beam_bc[i], s[beam_bc[i].guid],
                                     committed_tokens[beam_bc[i].guid], d)
    BY <1>1 DEF BeamBatchRight, Depth
<1>9. RowsHaveFields
    BY <1>8 DEF RowsHaveFields, BeamRowRight
<1>10. /\ \A i \in running : batch[i] = DeeperRow(beam_bc[i], Tree(f, i))
       /\ \A i \in active \ running :
             DOMAIN batch[i] = BeamFields /\ batch[i].running = beam_bc[i].running
  <2> DEFINE deeper == Deeper(f)
  <2>1. \A i \in running : deeper[i] = DeeperRow(beam_bc[i], Tree(f, i))
      OBVIOUS
  <2> HIDE DEF deeper
  <2>2. /\ \A i \in running : BeamRows(deeper)[i] = deeper[i]
        /\ \A i \in active \ running :
              /\ DOMAIN BeamRows(deeper)[i] = BeamFields
              /\ BeamRows(deeper)[i].running = beam_bc[i].running
      BY <1>9, BeamRowsRight
  <2>3. batch = BeamRows(deeper)
      BY DEF deeper
  <2> HIDE DEF batch, Tree
  <2> QED BY <2>1, <2>2, <2>3
<1>11. SameGuids(batch, beam_bc)
  <2> DEFINE deeper == Deeper(f)
  <2>1. \A i \in running : /\ deeper[i].guid = beam_bc[i].guid
                           /\ "guid" \in DOMAIN deeper[i]
    <3> SUFFICES ASSUME NEW i \in running
                 PROVE  /\ deeper[i].guid = beam_bc[i].guid /\ "guid" \in DOMAIN deeper[i]
        OBVIOUS
    <3>1. "guid" \in DOMAIN beam_bc[i]
        BY <1>9 DEF RowsHaveFields, RunningBeamRows, BeamFields
    <3>2. deeper[i] = DeeperRow(beam_bc[i], Tree(f, i))
        OBVIOUS
    <3> HIDE DEF deeper, Tree
    <3> QED BY <3>1, <3>2, DeeperRowNamed
  <2>2. Named(beam_bc)
      BY <1>1 DEF ServingInvariant
  <2> HIDE DEF deeper
  <2>3. SameGuids(BeamRows(deeper), beam_bc)
      BY <2>1, <2>2, BeamRowsKeep
  <2> QED BY <2>3 DEF deeper
<1>12. ASSUME NEW i \in active, NEW g, g = beam_bc[i].guid
       PROVE  BeamRowRight(batch[i], s'[g], committed_tokens[g], d + 1)
  <2> DEFINE r == s[g]
             size == IF i \in running THEN r.ssm_cache_size
                     ELSE r.ssm_cache_size + batch[i].num
             t == Tree(f, i)
             u == [r EXCEPT !.beam_tree = t, !.ssm_cache_size = size]
  <2>1. g \in DOMAIN s /\ DOMAIN r = RequestFields /\ RowOf(g) = i
      BY <1>6, <1>7, <1>12
  <2>2. s'[g] = u
    <3>1. ~(\A j \in active : beam_bc[j].guid # g)
        BY <1>12
    <3>2. s'[g] = [s[g] EXCEPT
                     !.beam_tree = Tree(f, RowOf(g)),
                     !.ssm_cache_size = IF RowOf(g) \in running THEN @
                                        ELSE @ + Batch(f)[RowOf(g)].num]
        BY <1>2, <2>1, <3>1
    <3> HIDE DEF RowOf, Tree, Batch
    <3> QED BY <2>1, <3>2
  <2> HIDE DEF size, t, batch, u
  <2>3. /\ u.beam_tree = t /\ u.status = r.status /\ Size(u) = Size(r)
        /\ Sized(r) => Sized(u)
        /\ \A seen : Loading(r, seen) => Loading(u, seen)
    <3>1. Written(u, r, t, size)
        BY DEF u, Written
    <3>2. u.beam_tree = t /\ OtherwiseSame(u, r)
        BY <2>1, <3>1, TreeWritten
    <3> QED BY <3>2 DEF OtherwiseSame
  <2>4. BeamRowRight(beam_bc[i], r, committed_tokens[g], d)
      BY <1>8, <1>12
  <2>5. Sized(r) /\ Sized(u) /\ DOMAIN beam_bc[i] = BeamFields
      BY <2>3, <2>4 DEF BeamRowRight
  <2>6. CASE i \in running
    <3>1. beam_bc[i].running
        BY <2>6 DEF RunningBeamRows
    <3>2. Growing(beam_bc[i], r, d)
        BY <2>4, <3>1 DEF BeamRowRight
    <3>3. batch[i] = DeeperRow(beam_bc[i], t)
        BY <1>10, <2>6 DEF t
    <3>4. DeeperRow(beam_bc[i], t).sub_request_num <= MaxBranches
        BY <1>2, <2>6, <3>3 DEF batch
    <3>5. f[i] \in RowGuesses(beam_bc[i])
        BY <1>6 DEF Guesses
    <3>6. t = StoreBeamMetadata(r, beam_bc[i], f[i])
        BY <1>12 DEF t
    <3>7. BeamRowRight(DeeperRow(beam_bc[i], t), u, committed_tokens[g], d + 1)
        BY <1>1, <2>3, <2>5, <3>2, <3>4, <3>5, <3>6, DeeperRowRight
    <3> QED BY <2>2, <3>3, <3>7
  <2>7. CASE i \notin running
    <3>1. beam_bc[i].running # TRUE
      <4>1. CASE beam_bc[i].running = TRUE
          BY <2>7, <4>1 DEF RunningBeamRows
      <4> QED BY <4>1
    <3>2. /\ beam_bc[i].running = FALSE /\ IsSeq(committed_tokens[g])
          /\ Loading(r, Len(committed_tokens[g]))
        BY <2>4, <3>1 DEF BeamRowRight, Growing
    <3>3. DOMAIN batch[i] = BeamFields /\ batch[i].running = FALSE
        BY <1>10, <2>7, <3>2
    <3>4. Loading(u, Len(committed_tokens[g]))
        BY <2>3, <3>2
    <3>5. BeamRowRight(batch[i], u, committed_tokens[g], d + 1)
        BY <2>5, <3>2, <3>3, <3>4 DEF BeamRowRight
    <3> QED BY <2>2, <3>5
  <2> QED BY <2>6, <2>7
<1>13. BeamBatchRight'
  <2> SUFFICES ASSUME NEW i \in Rows, batch[i].guid # 0
               PROVE  BeamRowRight(batch[i], s'[batch[i].guid],
                                   committed_tokens[batch[i].guid], d + 1)
    <3> HIDE DEF batch
    <3>1. beam_bc' = batch
        BY <1>2 DEF batch
    <3> QED BY <1>3, <1>5, <3>1 DEF BeamBatchRight, ActiveRows
  <2>1. batch[i].guid = beam_bc[i].guid
      BY <1>11 DEF SameGuids
  <2>2. i \in active
      BY <2>1 DEF ActiveRows
  <2> HIDE DEF batch
  <2> QED BY <1>12, <2>1, <2>2
<1>14. \A k \in DOMAIN queue : s'[queue[k]] = s[queue[k]]
  <2> SUFFICES ASSUME NEW k \in DOMAIN queue PROVE s'[queue[k]] = s[queue[k]]
      OBVIOUS
  <2>1. queue[k] \in DOMAIN s
      BY <1>1, ServedAreRegistered
  <2>2. \A i \in Rows : beam_bc[i].guid # queue[k]
      BY <1>1 DEF EachOnce
  <2>3. \A i \in active : beam_bc[i].guid # queue[k]
      BY <1>6, <2>2
  <2> QED BY <1>2, <2>1, <2>3
<1>15. QueueFresh'
    BY <1>1, <1>3, <1>14 DEF QueueFresh
<1>16. Parallel'
  <2>1. Len(s) \in Nat /\ DOMAIN s = 1 .. Len(s)
      BY <1>1 DEF Registered
  <2>2. s' = [g \in DOMAIN s |-> s'[g]]
    <3> HIDE DEF Tree, Batch, RowOf
    <3> QED BY <1>2
  <2> DEFINE n == Len(s)
             t == s'
  <2>3. t = [g \in 1 .. n |-> t[g]]
      BY <2>1, <2>2
  <2> HIDE DEF t, n
  <2>4. Len(t) = n
      BY <2>1, <2>3, FunctionIsSeq DEF n
  <2> QED BY <1>1, <1>3, <2>4 DEF Parallel, t, n
<1> QED BY <1>1, <1>3, <1>5, <1>13, <1>15, <1>16 DEF SpeculationInvariant

-----------------------------------------------------------------------------
(* prepare_next_batch_verify: what the rows of the tree batch hold. *)

\* A function whose value at one place is changed.
Changed(f, h, x, v) ==
    /\ h = [y \in DOMAIN f |-> h[y]] /\ h[x] = v
    /\ \A y \in DOMAIN f : y # x => h[y] = f[y]

\* That is what EXCEPT does.
LEMMA ExceptChanges ==
    ASSUME NEW f, NEW x \in DOMAIN f, NEW v
    PROVE  Changed(f, [f EXCEPT ![x] = v], x, v)
BY DEF Changed

\* A value that is changed twice is changed.
LEMMA ChangedTwice ==
    ASSUME NEW f, NEW h, NEW k, NEW x, NEW v, NEW w,
           Changed(f, h, x, v), Changed(h, k, x, w)
    PROVE  Changed(f, k, x, w)
<1>1. DOMAIN h = DOMAIN f
    BY DEF Changed
<1>2. k = [y \in DOMAIN f |-> k[y]] /\ k[x] = w
    BY <1>1 DEF Changed
<1>3. \A y \in DOMAIN f : y # x => k[y] = f[y]
    BY <1>1 DEF Changed
<1> QED BY <1>2, <1>3 DEF Changed

\* The slots of nodes: the row they are in, at their depths.
LEMMA SlottedRight ==
    ASSUME NEW nodes, IsSeq(nodes), NEW i
    PROVE  /\ IsSeq(Slotted(nodes, i)) /\ Len(Slotted(nodes, i)) = Len(nodes)
           /\ \A k \in 1 .. Len(nodes) : /\ Slotted(nodes, i)[k].row = i
                                         /\ Slotted(nodes, i)[k].depth = nodes[k].depth
<1> DEFINE s == Slotted(nodes, i)
<1>1. Len(nodes) \in Nat /\ DOMAIN nodes = 1 .. Len(nodes)
    BY SeqLength
<1>2. s = [k \in 1 .. Len(nodes) |-> [row |-> i, token |-> nodes[k].token,
                                      depth |-> nodes[k].depth]]
    BY <1>1 DEF Slotted
<1>3. \A k \in 1 .. Len(nodes) : s[k].row = i /\ s[k].depth = nodes[k].depth
    BY <1>2
<1>4. s = [k \in 1 .. Len(nodes) |-> s[k]]
    BY <1>2
<1> HIDE DEF s
<1>5. IsSeq(s) /\ Len(s) = Len(nodes)
    BY <1>1, <1>4, FunctionIsSeq
<1> QED BY <1>3, <1>5 DEF s

\* Slots of another row, or none.
NotOf(more, j) == IsSeq(more) /\ \A k \in 1 .. Len(more) : more[k].row # j

\* They leave a row what it was.
LEMMA SlotsMore ==
    ASSUME NEW j, NEW row, NEW r, NEW tree, NEW info, IsSeq(info),
           TreeRowRight(j, row, r, tree, info), NEW more, NotOf(more, j)
    PROVE  TreeRowRight(j, row, r, tree, info \o more)
<1> DEFINE all == info \o more
<1>1. /\ IsSeq(all) /\ Len(all) = Len(info) + Len(more)
      /\ \A k \in 1 .. Len(info) : all[k] = info[k]
      /\ \A k \in 1 .. Len(more) : all[Len(info) + k] = more[k]
    BY SeqConcat DEF NotOf
<1>2. /\ Len(info) \in Nat /\ DOMAIN info = 1 .. Len(info) /\ Len(more) \in Nat
      /\ Len(all) \in Nat /\ DOMAIN all = 1 .. Len(all)
    BY <1>1, SeqLength DEF NotOf
<1> HIDE DEF all
<1>3. \A s \in DOMAIN all : all[s].row = j => s \in DOMAIN info /\ all[s] = info[s]
  <2> SUFFICES ASSUME NEW s \in DOMAIN all, all[s].row = j, s \notin DOMAIN info PROVE FALSE
      BY <1>1, <1>2
  <2>1. s - Len(info) \in 1 .. Len(more) /\ Len(info) + (s - Len(info)) = s
      BY <1>1, <1>2
  <2>2. all[s] = more[s - Len(info)]
      BY <1>1, <2>1
  <2> QED BY <2>1, <2>2 DEF NotOf
<1>4. DOMAIN info \subseteq DOMAIN all /\ \A s \in DOMAIN info : all[s] = info[s]
    BY <1>1, <1>2
<1>5. \A offset, num : SlotsWithin(info, j, offset, num) => SlotsWithin(all, j, offset, num)
    BY <1>3 DEF SlotsWithin
<1>6. \A depth : SlotFrom(info, j, depth) => SlotFrom(all, j, depth)
    BY <1>4 DEF SlotFrom
<1>7. TreeRowRight(j, row, r, tree, all)
    BY <1>5, <1>6 DEF TreeRowRight
<1> QED BY <1>7 DEF all

\* A row with its slots, put behind those of the rows before it.
RowFits(i, row, r, tree, info, more) ==
    /\ TreeRowRight(i, row, r, tree, info \o more)
    /\ IsSeq(more) /\ \A k \in 1 .. Len(more) : more[k].row = i

\* What the row of a tree takes from the tree and from the beam row.
RowOfTree(row, old, tree, sent) ==
    /\ row.first_depth = tree[1].depth /\ row.num = Len(sent)
    /\ row.causalMask = old.causalMask
    /\ \E n : sent = SentNodes(tree, n)

\* A request that runs on, with its tree.
RunsOn(u, r) ==
    u.status = "RUNNING" /\ Size(u) = Size(r) /\ u.beam_tree = r.beam_tree

\* The row of a tree that is sent, cut to what the batch holds.
LEMMA SentRowRight ==
    ASSUME NEW i, NEW old, NEW r, NEW u, NEW info, NEW row, NEW tree, NEW sent,
           Growing(old, r, MaxBeamDepth), Sized(r), Sized(u), RunsOn(u, r), IsSeq(info),
           tree = TraverseBeamTree(r, old.max_depth), RowOfTree(row, old, tree, sent)
    PROVE  RowFits(i, row, u, tree, info, Slotted(sent, i))
<1> DEFINE L == Lengths(r.beam_tree)
           f == FirstNode(L)
           root == Size(r) - 1
           depth == old.max_depth
           more == Slotted(sent, i)
           all == info \o more
<1> PICK n : sent = SentNodes(tree, n)
    BY DEF RowOfTree
<1>11. row.first_depth = tree[1].depth /\ row.num = Len(sent) /\ row.causalMask = old.causalMask
    BY DEF RowOfTree
<1>12. u.status = "RUNNING" /\ Size(u) = Size(r) /\ u.beam_tree = r.beam_tree
    BY DEF RunsOn
<1>0. MaxBeamDepth \in Nat \ {0} /\ MaxBranches \in Nat \ {0} /\ root \in Nat
    BY DepthIsNatural, RootDepth
<1>1. /\ depth \in 1 .. MaxBeamDepth /\ LayersRight(r.beam_tree, MaxBeamDepth)
      /\ old.causalMask.non_tree_cache_size = root
      /\ MaskRight(old.causalMask, L, MaxBeamDepth)
    BY DEF Growing
<1>2. NodesUpto(tree, root, depth, f[depth + 1])
    BY <1>1, BeamTreeNodes
<1>3. /\ IsSeq(tree) /\ Len(tree) = f[depth + 1] /\ f[depth + 1] \in Nat \ {0}
      /\ tree[1].depth = root
      /\ \A m \in 1 .. Len(tree) : tree[m].depth \in root .. root + depth
    BY <1>2 DEF NodesUpto
<1>4. IsSeq(sent) /\ Len(sent) \in 1 .. f[depth + 1] /\ sent[1] = tree[1]
  <2> HIDE DEF root, depth
  <2>1. root \in Int
      BY <1>0
  <2> HIDE DEF f
  <2> QED BY <1>2, <2>1, SentNodesAre
<1>5. /\ IsSeq(more) /\ Len(more) = Len(sent)
      /\ \A k \in 1 .. Len(sent) : more[k].row = i /\ more[k].depth = sent[k].depth
    BY <1>4, SlottedRight
<1>6. f[depth + 1] <= f[MaxBeamDepth + 1]
  <2>1. \A k \in 0 .. MaxBeamDepth : L[k] \in 1 .. MaxBranches
      BY <1>1 DEF LayersRight
  <2>2. IsLengths(L)
    <3> HIDE DEF L
    <3> QED BY <1>0, <2>1 DEF IsLengths
  <2>3. /\ depth + 1 \in 0 .. MaxBeamDepth + 1
        /\ MaxBeamDepth + 1 \in depth + 1 .. MaxBeamDepth + 1
      BY <1>0, <1>1
  <2> QED BY <2>2, <2>3, FirstNodeGrows
<1>7. TreeSent(row, u)
  <2>1. f[MaxBeamDepth + 1] \in Int
    <3>1. \A k \in 0 .. MaxBeamDepth : L[k] \in 1 .. MaxBranches
        BY <1>1 DEF LayersRight
    <3>2. IsLengths(L)
      <4> HIDE DEF L
      <4> QED BY <1>0, <3>1 DEF IsLengths
    <3>3. MaxBeamDepth + 1 \in 0 .. MaxBeamDepth + 1
        BY <1>0
    <3>4. f[MaxBeamDepth + 1] \in Nat
        BY <3>2, <3>3, FirstNodeNatural
    <3> QED BY <3>4
  <2> HIDE DEF f, L, root, depth
  <2>2. row.num \in Nat /\ row.num <= f[MaxBeamDepth + 1]
      BY <1>11, <1>3, <1>4, <1>6, <2>1
  <2> QED BY <1>11, <1>12, <1>1, <1>3, <2>2 DEF TreeSent, f, L
<1>8. SerialTree(tree, root)
  <2> HIDE DEF root, depth, f
  <2>1. DOMAIN tree = 1 .. Len(tree) /\ 1 \in DOMAIN tree
      BY <1>3, SeqLength
  <2>2. \A m \in DOMAIN tree : tree[m].depth \in root .. root + MaxBeamDepth
      BY <1>0, <1>1, <1>3, <2>1
  <2> QED BY <1>3, <2>1, <2>2 DEF SerialTree
<1>9. SlotFrom(all, i, root)
  <2> HIDE DEF root, depth, f, more
  <2>1. Len(info) \in Nat /\ Len(sent) \in Nat /\ 1 \in 1 .. Len(sent)
      BY <1>3, <1>4, SeqLength
  <2>2. IsSeq(all) /\ Len(all) = Len(info) + Len(more) /\ all[Len(info) + 1] = more[1]
    <3>1. IsSeq(info) /\ IsSeq(more)
        BY <1>5
    <3>2. /\ IsSeq(all) /\ Len(all) = Len(info) + Len(more)
          /\ \A k \in 1 .. Len(more) : all[Len(info) + k] = more[k]
        BY ONLY <3>1, SeqConcat
    <3> HIDE DEF all
    <3> QED BY <1>5, <2>1, <3>2
  <2>3. Len(info) + 1 \in DOMAIN all
      BY <1>5, <2>1, <2>2, SeqLength
  <2>4. all[Len(info) + 1].row = i /\ all[Len(info) + 1].depth = root
      BY <1>3, <1>4, <1>5, <2>1, <2>2
  <2> QED BY <1>0, <2>3, <2>4 DEF SlotFrom
<1>10. TreeRowRight(i, row, u, tree, all)
  <2> HIDE DEF all
  <2> QED BY <1>12, <1>7, <1>8, <1>9 DEF TreeRowRight
<1> QED BY <1>4, <1>5, <1>10 DEF RowFits

\* A request of which a chunk more was put into the batch, the last one or not.
ChunkOf(u, m, last) ==
    /\ u.tokens = m.tokens /\ u.initial_len = m.initial_len
    /\ u.max_sequence_length = m.max_sequence_length
    /\ u.llm_cache_size = m.llm_cache_size
    /\ u.status = IF last THEN "RUNNING" ELSE m.status

\* The slots of a chunk of a prompt.
ChunkNodes(cached, num) == [k \in 1 .. num |-> Node(Greedy, cached + k - 1)]

\* They are as many as they are, and none if there is no room.
LEMMA ChunkNodesAre ==
    ASSUME NEW cached \in Nat, NEW num \in Int
    PROVE  /\ IsSeq(ChunkNodes(cached, num))
           /\ Len(ChunkNodes(cached, num)) = IF num < 0 THEN 0 ELSE num
           /\ \A k \in 1 .. num : ChunkNodes(cached, num)[k].depth = cached + k - 1
<1> DEFINE s == ChunkNodes(cached, num)
           n == IF num < 0 THEN 0 ELSE num
<1>1. n \in Nat /\ 1 .. n = 1 .. num
    OBVIOUS
<1>2. \A k \in 1 .. num : s[k].depth = cached + k - 1
    BY DEF ChunkNodes, Node
<1>3. s = [k \in 1 .. num |-> s[k]]
    BY DEF ChunkNodes
<1> HIDE DEF s, n
<1>4. IsSeq(s) /\ Len(s) = n
    BY <1>1, <1>3, FunctionIsSeq
<1> QED BY <1>2, <1>4 DEF s, n

\* How much of a prompt is loaded, and whether that is the last of it.
ChunkIs(m, load, num, last) ==
    /\ num = Minimum(load, m.initial_len - m.llm_cache_size)
    /\ last = (num + m.llm_cache_size >= m.initial_len)

\* What its row takes from it, and the tree that the last chunk makes.
RowOfChunk(row, info, num, last) ==
    /\ row.running = last /\ row.prompt_phase = last /\ row.num = num
    /\ row.offset = Len(info)
RootSent(tree, m, last) == last => tree = << Node(RootToken(m), Size(m) - 1) >>

\* The row of a chunk of a prompt.
LEMMA ChunkRowRight ==
    ASSUME NEW i, NEW m, Sized(m), Loading(m, 0), NEW load \in Int, NEW num, NEW last,
           ChunkIs(m, load, num, last),
           NEW u, ChunkOf(u, m, last), NEW info, IsSeq(info), NotOf(info, i),
           NEW row, NEW tree, NEW nodes, nodes = ChunkNodes(m.llm_cache_size, num),
           RowOfChunk(row, info, num, last), RootSent(tree, m, last)
    PROVE  RowFits(i, row, u, tree, info, Slotted(nodes, i)) /\ num \in Int
<1> USE DEF ChunkIs, RowOfChunk, RootSent
<1> DEFINE cached == m.llm_cache_size
           more == Slotted(nodes, i)
           all == info \o more
<1>1. /\ m.tokens = <<>> /\ cached \in Nat /\ m.initial_len \in Nat \ {0}
      /\ m.status = "PENDING" /\ cached < m.initial_len
    BY DEF Sized, Loading
<1>2. num \in Int /\ num <= m.initial_len - cached
    BY <1>1 DEF Minimum
<1>3. /\ IsSeq(nodes) /\ Len(nodes) = (IF num < 0 THEN 0 ELSE num)
      /\ \A k \in 1 .. num : nodes[k].depth = cached + k - 1
    BY <1>1, <1>2, ChunkNodesAre
<1>4. /\ IsSeq(more) /\ Len(more) = Len(nodes)
      /\ \A k \in 1 .. Len(nodes) : more[k].row = i /\ more[k].depth = nodes[k].depth
    BY <1>3, SlottedRight
<1>5. /\ IsSeq(all) /\ Len(all) = Len(info) + Len(more) /\ Len(info) \in Nat
      /\ DOMAIN all = 1 .. Len(all)
      /\ \A k \in 1 .. Len(info) : all[k] = info[k]
      /\ \A k \in 1 .. Len(more) : all[Len(info) + k] = more[k]
  <2> HIDE DEF more
  <2>0. IsSeq(info) /\ IsSeq(more)
      BY <1>4 DEF more
  <2>1. /\ IsSeq(all) /\ Len(all) = Len(info) + Len(more)
        /\ \A k \in 1 .. Len(info) : all[k] = info[k]
        /\ \A k \in 1 .. Len(more) : all[Len(info) + k] = more[k]
      BY ONLY <2>0, SeqConcat
  <2> HIDE DEF all
  <2> QED BY <2>1, SeqLength
<1> HIDE DEF more, all
<1>6. /\ Sized(u) /\ Size(u) = Size(m) /\ Size(m) = m.initial_len
  <2>1. Len(m.tokens) = 0
      BY <1>1, SeqEmpty
  <2>2. Size(m) = m.initial_len
      BY <1>1, <2>1 DEF Size
  <2>3. Size(u) = Size(m) /\ Sized(u)
      BY DEF ChunkOf, Size, Sized
  <2> QED BY <2>2, <2>3
<1>7. CASE last
  <2>1. num + cached >= m.initial_len
      BY <1>7
  <2>2. num = m.initial_len - cached /\ num \in 1 .. num /\ Len(nodes) = num /\ num \in Nat \ {0}
      BY <1>1, <1>2, <1>3, <2>1
  <2>3. SlotFrom(all, i, Size(u) - 1)
    <3>1. Len(info) + num \in DOMAIN all
        BY <1>4, <1>5, <2>2
    <3>2. all[Len(info) + num] = more[num]
        BY <1>4, <1>5, <2>2
    <3>3. more[num].row = i /\ more[num].depth = cached + num - 1
        BY <1>3, <1>4, <2>2
    <3>4. cached + num - 1 >= Size(u) - 1
        BY <1>1, <1>6, <2>2
    <3> QED BY <3>1, <3>2, <3>3, <3>4 DEF SlotFrom
  <2>4. SerialTree(tree, Size(u) - 1)
    <3> DEFINE root == Size(m) - 1
               node == Node(RootToken(m), root)
    <3>1. tree = << node >>
        BY <1>7
    <3>2. node.depth = root
        BY DEF Node
    <3>3. root \in Nat
        BY <1>1, <1>6
    <3> HIDE DEF node, root
    <3>4. IsSeq(tree) /\ DOMAIN tree = {1} /\ tree[1] = node
      <4>1. tree \in Seq({node})
          BY <3>1
      <4>2. DOMAIN tree = {1} /\ tree[1] = node
          BY <3>1
      <4> QED BY <4>1, <4>2 DEF IsSeq
    <3>5. root \in root .. root + MaxBeamDepth
        BY <3>3, DepthIsNatural
    <3>6. SerialTree(tree, root)
        BY <3>2, <3>4, <3>5 DEF SerialTree
    <3> QED BY <1>6, <3>6 DEF root
  <2>5. u.status = "RUNNING"
      BY <1>7 DEF ChunkOf
  <2>6. row.prompt_phase = TRUE
      BY <1>7
  <2>7. TreeRowRight(i, row, u, tree, all)
      BY <1>6, <2>3, <2>4, <2>5, <2>6 DEF TreeRowRight
  <2> QED BY <1>2, <1>3, <1>4, <2>7 DEF RowFits, more, all
<1>8. CASE ~last
  <2>0. ~(num + cached >= m.initial_len)
      BY <1>8, Zenon
  <2>1. num + cached < m.initial_len
      BY <1>1, <1>2, <2>0
  <2>2. Loading(u, row.num)
    <3>1. u.status = "PENDING"
        BY <1>1, <1>8 DEF ChunkOf
    <3>2. cached + num < m.initial_len
        BY <1>1, <1>2, <2>1
    <3> QED BY <1>1, <1>2, <3>1, <3>2 DEF ChunkOf, Loading
  <2>3. row.running = FALSE
      BY <1>8
  <2>4. SlotsWithin(all, i, row.offset, row.num)
    <3> SUFFICES ASSUME NEW s \in DOMAIN all, all[s].row = i
                 PROVE  Len(info) < s /\ s <= Len(info) + num
        BY DEF SlotsWithin
    <3>1. s \in 1 .. Len(info) + Len(more) /\ Len(more) \in Nat
        BY <1>4, <1>5, SeqLength
    <3>2. s \notin 1 .. Len(info)
        BY <1>5 DEF NotOf
    <3>3. Len(more) = (IF num < 0 THEN 0 ELSE num)
        BY <1>3, <1>4
    <3> QED BY <1>2, <1>5, <3>1, <3>2, <3>3
  <2>5. row.offset \in Nat
      BY <1>5
  <2>6. TreeRowRight(i, row, u, tree, all)
      BY <1>6, <2>2, <2>3, <2>4, <2>5 DEF TreeRowRight
  <2> QED BY <1>2, <1>3, <1>4, <2>6 DEF RowFits, more, all
<1> QED BY <1>7, <1>8

-----------------------------------------------------------------------------
(* The loop of prepare_next_batch_verify. *)

\* Slots of rows before the i-th.
SlotsBefore(info, i) ==
    IsSeq(info) /\ \A k \in 1 .. Len(info) : info[k].row \in Nat /\ info[k].row < i

\* The loop, after the first i rows: those that are in the tree batch fit their
\* requests, the others are as they were.
Built(acc, i) ==
    /\ SlotsBefore(acc.bc.tokensInfo, i)
    /\ acc.load \in Int
    /\ acc.tree = [g \in DOMAIN all_requests |-> acc.tree[g]]
    /\ \A j \in ActiveRows(beam_bc) :
          IF j < i
          THEN TreeRowRight(j, acc.bc.row[j], acc.request[beam_bc[j].guid],
                            acc.tree[beam_bc[j].guid], acc.bc.tokensInfo)
          ELSE acc.request[beam_bc[j].guid] = all_requests[beam_bc[j].guid]
    /\ \A k \in DOMAIN pending_infr_request_queue :
          acc.request[pending_infr_request_queue[k]]
            = all_requests[pending_infr_request_queue[k]]

\* The row and the slots that a request gets, and what becomes of it.
RowBuilt(new, acc, i, g, row, u, tree, more) ==
    /\ new.bc.row = [acc.bc.row EXCEPT ![i] = row]
    /\ new.bc.tokensInfo = acc.bc.tokensInfo \o more
    /\ RowFits(i, row, u, tree, acc.bc.tokensInfo, more)
    /\ new.load \in Int
    /\ Changed(acc.request, new.request, g, u)
    /\ Changed(acc.tree, new.tree, g, tree)

\* One row more.
LEMMA BuiltMore ==
    ASSUME NEW acc, NEW i \in Rows, Built(acc, i), TreesRight(acc, i),
           Registered(all_requests),
           EachOnce(beam_bc, pending_infr_request_queue, Open(all_requests)),
           NEW g, g = beam_bc[i].guid, g # 0, NEW new, NEW row, NEW u, NEW tree, NEW more,
           RowBuilt(new, acc, i, g, row, u, tree, more)
    PROVE  Built(new, i + 1)
<1> DEFINE queue == pending_infr_request_queue
           info == acc.bc.tokensInfo
           all == new.bc.tokensInfo
<1>1. /\ SlotsBefore(info, i)
      /\ acc.tree = [e \in DOMAIN all_requests |-> acc.tree[e]]
      /\ \A j \in ActiveRows(beam_bc) :
            IF j < i THEN TreeRowRight(j, acc.bc.row[j], acc.request[beam_bc[j].guid],
                                       acc.tree[beam_bc[j].guid], info)
            ELSE acc.request[beam_bc[j].guid] = all_requests[beam_bc[j].guid]
      /\ \A k \in DOMAIN queue : acc.request[queue[k]] = all_requests[queue[k]]
    BY DEF Built
<1>2. /\ new.bc.row = [acc.bc.row EXCEPT ![i] = row] /\ all = info \o more
      /\ IsSeq(more) /\ (\A k \in 1 .. Len(more) : more[k].row = i) /\ new.load \in Int
      /\ Changed(acc.request, new.request, g, u) /\ Changed(acc.tree, new.tree, g, tree)
      /\ TreeRowRight(i, row, u, tree, all)
    BY DEF RowBuilt, RowFits
<1>3. DOMAIN acc.bc.row = Rows
    BY DEF TreesRight, Named
<1>4. DOMAIN acc.request = DOMAIN all_requests /\ DOMAIN acc.tree = DOMAIN all_requests
    BY <1>1 DEF TreesRight, KeepsOpen
<1>5. /\ \A k \in DOMAIN queue : queue[k] \in DOMAIN all_requests /\ queue[k] # g
      /\ \A j \in ActiveRows(beam_bc) :
            beam_bc[j].guid \in DOMAIN all_requests /\ (beam_bc[j].guid = g => j = i)
  <2>1. /\ \A k \in DOMAIN queue : queue[k] \in DOMAIN all_requests
        /\ \A j \in Rows : beam_bc[j].guid # 0 => beam_bc[j].guid \in DOMAIN all_requests
      BY ServedAreRegistered
  <2> QED BY <2>1 DEF EachOnce, ActiveRows
<1>6. Rows \subseteq Nat /\ ActiveRows(beam_bc) \subseteq Rows
    BY SpecAssumption DEF SpecAssumption, Rows, ActiveRows
<1> HIDE DEF info, all
<1>7. SlotsBefore(all, i + 1)
  <2>1. IsSeq(info) /\ Len(info) \in Nat /\ Len(more) \in Nat
      BY <1>1, <1>2, SeqLength DEF SlotsBefore
  <2>2. /\ IsSeq(all) /\ Len(all) = Len(info) + Len(more)
        /\ \A k \in 1 .. Len(info) : all[k] = info[k]
        /\ \A k \in 1 .. Len(more) : all[Len(info) + k] = more[k]
    <3>1. IsSeq(more)
        BY <1>2
    <3>2. /\ IsSeq(info \o more) /\ Len(info \o more) = Len(info) + Len(more)
          /\ \A k \in 1 .. Len(info) : (info \o more)[k] = info[k]
          /\ \A k \in 1 .. Len(more) : (info \o more)[Len(info) + k] = more[k]
        BY ONLY <2>1, <3>1, SeqConcat
    <3> QED BY <1>2, <3>2
  <2>3. ASSUME NEW k \in 1 .. Len(all) PROVE all[k].row \in Nat /\ all[k].row < i + 1
    <3>1. CASE k \in 1 .. Len(info)
      <4>1. all[k] = info[k] /\ info[k].row \in Nat /\ info[k].row < i
          BY <1>1, <2>2, <3>1 DEF SlotsBefore
      <4> QED BY <1>6, <4>1
    <3>2. CASE k \notin 1 .. Len(info)
      <4>1. k - Len(info) \in 1 .. Len(more) /\ Len(info) + (k - Len(info)) = k
          BY <2>1, <2>2, <3>2
      <4>2. all[k] = more[k - Len(info)] /\ more[k - Len(info)].row = i
          BY <1>2, <2>2, <4>1
      <4> QED BY <1>6, <4>2
    <3> QED BY <3>1, <3>2
  <2> QED BY <2>2, <2>3 DEF SlotsBefore
<1>8. new.tree = [e \in DOMAIN all_requests |-> new.tree[e]]
    BY <1>2, <1>4 DEF Changed
<1>9. \A k \in DOMAIN queue : new.request[queue[k]] = all_requests[queue[k]]
    BY <1>1, <1>2, <1>4, <1>5 DEF Changed
<1>10. ASSUME NEW j \in ActiveRows(beam_bc), NEW e, e = beam_bc[j].guid
       PROVE  IF j < i + 1 THEN TreeRowRight(j, new.bc.row[j], new.request[e],
                                             new.tree[e], all)
              ELSE new.request[e] = all_requests[e]
  <2>1. j \in Rows /\ e \in DOMAIN all_requests /\ (j # i => e # g)
      BY <1>5, <1>6, <1>10
  <2>2. j \in Nat /\ i \in Nat
      BY <1>6, <2>1
  <2>3. CASE j = i
    <3>1. j < i + 1 /\ e = g
        BY <1>10, <2>2, <2>3
    <3>2. new.bc.row[i] = row
        BY <1>2, <1>3
    <3>3. new.request[g] = u /\ new.tree[g] = tree
        BY <1>2 DEF Changed
    <3> QED BY <1>2, <2>3, <3>1, <3>2, <3>3
  <2>4. CASE j # i
    <3>1. new.bc.row[j] = acc.bc.row[j]
        BY <1>2, <1>3, <2>1, <2>4
    <3>2. new.request[e] = acc.request[e] /\ new.tree[e] = acc.tree[e]
        BY <1>2, <1>4, <2>1, <2>4 DEF Changed
    <3>3. CASE j < i
      <4>1. j < i + 1
          BY <2>2, <3>3
      <4>2. TreeRowRight(j, acc.bc.row[j], acc.request[e], acc.tree[e], info)
          BY <1>1, <1>10, <3>3
      <4>3. NotOf(more, j) /\ IsSeq(info)
          BY <1>1, <1>2, <2>4 DEF NotOf, SlotsBefore
      <4>4. TreeRowRight(j, acc.bc.row[j], acc.request[e], acc.tree[e], info \o more)
          BY <4>2, <4>3, SlotsMore
      <4> QED BY <1>2, <3>1, <3>2, <4>1, <4>4
    <3>4. CASE ~(j < i)
      <4>1. ~(j < i + 1)
          BY <2>2, <2>4, <3>4
      <4> QED BY <1>1, <1>10, <3>2, <3>4, <4>1
    <3> QED BY <3>3, <3>4
  <2> QED BY <2>3, <2>4
<1> QED BY <1>2, <1>7, <1>8, <1>9, <1>10 DEF Built, all

\* What is committed changes the request alone.
LEMMA CommitLeaves ==
    ASSUME NEW acc, NEW g, NEW commit, NEW size, LoopState(acc), g \in DOMAIN acc.request,
           DOMAIN acc.request[g] = RequestFields,
           NEW mid, mid = WithCommit(acc, g, commit, size), NEW r, r = acc.request[g], NEW m, m = mid.request[g]
    PROVE  /\ mid.bc.row = acc.bc.row /\ mid.bc.tokensInfo = acc.bc.tokensInfo
           /\ mid.tree = acc.tree /\ mid.load = acc.load
           /\ Changed(acc.request, mid.request, g, m)
           /\ DOMAIN m = RequestFields /\ m.llm_cache_size = size
           /\ m.tokens = r.tokens /\ m.initial_len = r.initial_len
           /\ m.max_sequence_length = r.max_sequence_length
           /\ m.status = r.status /\ m.beam_tree = r.beam_tree
<1>1. /\ mid.bc.row = acc.bc.row /\ mid.bc.tokensInfo = acc.bc.tokensInfo
      /\ mid.tree = acc.tree /\ mid.load = acc.load
      /\ mid.request = [acc.request EXCEPT ![g].llm_cache_size = size]
    BY DEF LoopState, WithCommit
<1> DEFINE v == [r EXCEPT !.llm_cache_size = size]
<1>2. mid.request = [acc.request EXCEPT ![g] = v]
    BY <1>1
<1>3. /\ DOMAIN v = RequestFields /\ v.llm_cache_size = size
      /\ v.tokens = r.tokens /\ v.initial_len = r.initial_len
      /\ v.max_sequence_length = r.max_sequence_length
      /\ v.status = r.status /\ v.beam_tree = r.beam_tree
    BY DEF RequestFields
<1> HIDE DEF v
<1>4. Changed(acc.request, mid.request, g, v)
    BY <1>2, ExceptChanges
<1>5. m = v
    BY <1>4 DEF Changed
<1> QED BY <1>1, <1>3, <1>4, <1>5

\* The row of a tree, and that of a chunk.
TreeRowOf(acc, i, nodes, sent) ==
    [guid |-> beam_bc[i].guid, running |-> TRUE, first_depth |-> nodes[1].depth,
     offset |-> Len(acc.bc.tokensInfo), num |-> Len(sent),
     prompt_phase |-> FALSE, causalMask |-> beam_bc[i].causalMask]
ChunkRowOf(acc, i, cached, num, last) ==
    [guid |-> beam_bc[i].guid, running |-> last, first_depth |-> cached,
     offset |-> Len(acc.bc.tokensInfo), num |-> num,
     prompt_phase |-> last, causalMask |-> beam_bc[i].causalMask]

\* The batch, the tree and what may still be loaded, after a row.
RowPut(new, acc, i, g, row, more, tree, load) ==
    /\ new.bc.row = [acc.bc.row EXCEPT ![i] = row]
    /\ new.bc.tokensInfo = acc.bc.tokensInfo \o more
    /\ new.tree = [acc.tree EXCEPT ![g] = tree]
    /\ new.load = load

\* A request of which a chunk was loaded runs if it was the last.
ChunkLoaded(new, acc, g, last) ==
    \E chunks : new.request = [acc.request EXCEPT
        ![g].status = IF last THEN "RUNNING" ELSE @, ![g].chunks = chunks]

\* What a tree adds.
LEMMA AddTreePuts ==
    ASSUME NEW acc, NEW i, NEW nodes, LoopState(acc), NEW g, g = beam_bc[i].guid,
           NEW sent, sent = SentNodes(nodes, Len(acc.bc.tokensInfo)),
           NEW new, new = AddTree(acc, i, nodes)
    PROVE  /\ RowPut(new, acc, i, g, TreeRowOf(acc, i, nodes, sent), Slotted(sent, i),
                     nodes, acc.load)
           /\ new.request = acc.request
<1> DEFINE row == TreeRowOf(acc, i, nodes, sent)
           info == acc.bc.tokensInfo \o Slotted(sent, i)
           tree == [acc.tree EXCEPT ![g] = nodes]
           fits == acc.fits /\ Len(acc.bc.tokensInfo) < MaxVerifyTokens
           bc == [acc.bc EXCEPT !.row[i] = row, !.tokensInfo = info]
<1>1. new = [bc |-> bc, request |-> acc.request, tree |-> tree, load |-> acc.load,
             fits |-> fits]
    BY DEF AddTree, TreeRowOf
<1> HIDE DEF row, info, tree, fits
<1>3. bc.row = [acc.bc.row EXCEPT ![i] = row] /\ bc.tokensInfo = info
    BY DEF LoopState
<1> HIDE DEF bc
<1>2. /\ new.bc.row = [acc.bc.row EXCEPT ![i] = row] /\ new.bc.tokensInfo = info
      /\ new.tree = tree /\ new.load = acc.load /\ new.request = acc.request
    BY ONLY <1>1, <1>3
<1> QED BY <1>2 DEF RowPut, row, info, tree

\* What a chunk of a prompt adds.
LEMMA AddPromptPuts ==
    ASSUME NEW acc, NEW i, NEW r, LoopState(acc), NEW g, g = beam_bc[i].guid,
           NEW num, NEW last, ChunkIs(r, acc.load, num, last),
           NEW nodes, nodes = ChunkNodes(r.llm_cache_size, num),
           NEW new, new = AddPrompt(acc, i, r)
    PROVE  /\ RowPut(new, acc, i, g, ChunkRowOf(acc, i, r.llm_cache_size, num, last),
                     Slotted(nodes, i),
                     IF last THEN << Node(RootToken(r), Size(r) - 1) >> ELSE acc.tree[g],
                     acc.load - num)
           /\ ChunkLoaded(new, acc, g, last)
<1> USE DEF ChunkIs
<1> DEFINE row == ChunkRowOf(acc, i, r.llm_cache_size, num, last)
           info == acc.bc.tokensInfo \o Slotted(nodes, i)
           value == IF last THEN << Node(RootToken(r), Size(r) - 1) >> ELSE acc.tree[g]
           tree == [acc.tree EXCEPT ![g] = value]
           fits == acc.fits /\ Len(acc.bc.tokensInfo) + num <= MaxVerifyTokens
           load == acc.load - num
           request == [acc.request EXCEPT ![g].status = IF last THEN "RUNNING" ELSE @,
                                          ![g].chunks = IF num > 0 THEN @ + 1 ELSE @]
           bc == [acc.bc EXCEPT !.row[i] = row, !.tokensInfo = info]
<1>1. new = [bc |-> bc, request |-> request, tree |-> tree, load |-> load, fits |-> fits]
    BY DEF AddPrompt, ChunkRowOf, ChunkNodes
<1>2. \E chunks : request = [acc.request EXCEPT ![g].status = IF last THEN "RUNNING" ELSE @,
                                                ![g].chunks = chunks]
    OBVIOUS
<1> HIDE DEF row, info, tree, fits, load, request, value
<1>4. bc.row = [acc.bc.row EXCEPT ![i] = row] /\ bc.tokensInfo = info
    BY DEF LoopState
<1> HIDE DEF bc
<1>3. /\ new.bc.row = [acc.bc.row EXCEPT ![i] = row] /\ new.bc.tokensInfo = info
      /\ new.tree = tree /\ new.load = load /\ new.request = request
    BY ONLY <1>1, <1>4
<1> QED BY <1>2, <1>3 DEF RowPut, ChunkLoaded, row, info, tree, load, value

\* The request, then.
LEMMA ChunkChanges ==
    ASSUME NEW f, NEW g \in DOMAIN f, DOMAIN f[g] = RequestFields, NEW last, NEW chunks,
           NEW t, t = [f EXCEPT ![g].status = IF last THEN "RUNNING" ELSE @,
                                ![g].chunks = chunks]
    PROVE  Changed(f, t, g, t[g]) /\ ChunkOf(t[g], f[g], last)
<1> DEFINE status == IF last THEN "RUNNING" ELSE f[g].status
           v == [f[g] EXCEPT !.status = status, !.chunks = chunks]
<1>1. t = [f EXCEPT ![g] = v]
    OBVIOUS
<1> HIDE DEF status
<1>2. /\ v.status = status /\ v.tokens = f[g].tokens /\ v.initial_len = f[g].initial_len
      /\ v.max_sequence_length = f[g].max_sequence_length
      /\ v.llm_cache_size = f[g].llm_cache_size
    BY DEF RequestFields
<1> HIDE DEF v
<1>3. Changed(f, t, g, v)
  <2>1. Changed(f, [f EXCEPT ![g] = v], g, v)
      BY ONLY g \in DOMAIN f, ExceptChanges
  <2> QED BY <1>1, <2>1, Zenon
<1>4. t[g] = v
    BY <1>3 DEF Changed
<1> QED BY <1>2, <1>3, <1>4 DEF ChunkOf, status

\* What a row adds to the loop.
LEMMA VerifyRowBuilds ==
    ASSUME NEW acc, NEW i \in Rows, TreesRight(acc, i), Built(acc, i),
           Registered(all_requests), BeamBatchRight, Depth = MaxBeamDepth,
           EachOnce(beam_bc, pending_infr_request_queue, Open(all_requests))
    PROVE  Built(VerifyRow(acc, i), i + 1)
<1> DEFINE g == beam_bc[i].guid
           info == acc.bc.tokensInfo
<1>0. Rows \subseteq Nat /\ i \in Nat
    BY SpecAssumption DEF SpecAssumption, Rows
<1>1. CASE g = 0
  <2>1. VerifyRow(acc, i) = acc
      BY <1>1 DEF VerifyRow
  <2>2. \A j \in ActiveRows(beam_bc) : j \in Nat /\ (j < i + 1 <=> j < i)
    <3> SUFFICES ASSUME NEW j \in ActiveRows(beam_bc)
                 PROVE  j \in Nat /\ (j < i + 1 <=> j < i)
        OBVIOUS
    <3>1. j \in Nat /\ j # i
        BY <1>0, <1>1 DEF ActiveRows
    <3> QED BY <1>0, <3>1
  <2>3. SlotsBefore(info, i + 1)
    <3>1. SlotsBefore(info, i)
        BY DEF Built
    <3>2. \A x \in Nat : x < i => x < i + 1
        BY <1>0
    <3> QED BY <3>1, <3>2 DEF SlotsBefore
  <2> QED BY <2>1, <2>2, <2>3 DEF Built
<1>2. CASE g # 0
  <2> DEFINE s == all_requests
             r == acc.request[g]
             commit == acc.bc.commit \o CommitsOf(g, i)
             size == [acc EXCEPT !.bc.commit = commit].request[g].llm_cache_size
                        + Len(committed_tokens[g])
             mid == WithCommit(acc, g, commit, size)
             m == mid.request[g]
             nodes == TraverseBeamTree(r, beam_bc[i].max_depth)
  <2>1. i \in ActiveRows(beam_bc) /\ ~(i < i)
      BY <1>0, <1>2 DEF ActiveRows
  <2>2. /\ LoopState(acc) /\ KeepsOpen(acc.request) /\ r = s[g] /\ acc.load \in Int
        /\ IsSeq(info) /\ NotOf(info, i)
    <3>1. LoopState(acc) /\ KeepsOpen(acc.request)
        BY DEF TreesRight
    <3>2. acc.load \in Int /\ SlotsBefore(info, i) /\ r = s[g]
        BY <2>1 DEF Built
    <3>3. \A x \in Nat : x < i => x # i
        BY <1>0
    <3>4. IsSeq(info) /\ NotOf(info, i)
        BY <3>2, <3>3 DEF SlotsBefore, NotOf
    <3> QED BY <3>1, <3>2, <3>4
  <2>3. g \in DOMAIN s /\ g \in DOMAIN acc.request /\ DOMAIN r = RequestFields
        /\ g \in DOMAIN acc.tree
    <3>1. g \in DOMAIN s
        BY <1>2, ServedAreRegistered
    <3>2. acc.tree = [e \in DOMAIN s |-> acc.tree[e]]
        BY DEF Built
    <3> QED BY <2>2, <3>1, <3>2 DEF KeepsOpen
  <2>4. BeamRowRight(beam_bc[i], r, committed_tokens[g], MaxBeamDepth)
      BY <2>1, <2>2 DEF BeamBatchRight
  <2>5. size = r.llm_cache_size + Len(committed_tokens[g])
      BY <2>2 DEF LoopState
  <2>6. LoopState(mid)
      BY <2>2, CommitMembers
  <2>7. /\ mid.bc.row = acc.bc.row /\ mid.bc.tokensInfo = info
        /\ mid.tree = acc.tree /\ mid.load = acc.load
        /\ Changed(acc.request, mid.request, g, m)
        /\ DOMAIN m = RequestFields /\ m.llm_cache_size = size
        /\ m.tokens = r.tokens /\ m.initial_len = r.initial_len
        /\ m.max_sequence_length = r.max_sequence_length
        /\ m.status = r.status /\ m.beam_tree = r.beam_tree
    <3> HIDE DEF commit, size
    <3> QED BY <2>2, <2>3, CommitLeaves
  <2>8. Sized(r) /\ Sized(m) /\ Size(m) = Size(r)
      BY <2>4, <2>7 DEF BeamRowRight, Sized, Size
  <2>9. VerifyRow(acc, i) = IF r.status = "RUNNING" THEN AddTree(mid, i, nodes)
                            ELSE AddPrompt(mid, i, m)
      BY <1>2 DEF VerifyRow, WithCommit
  <2>10. \A new, row, u, tree, more :
            RowBuilt(new, acc, i, g, row, u, tree, more) => Built(new, i + 1)
      BY <1>2, BuiltMore
  <2>11. mid.request[g] = m /\ g \in DOMAIN mid.request /\ g = beam_bc[i].guid
      BY <2>3, <2>7 DEF Changed
  <2> HIDE DEF commit, size, mid, nodes, r, m, g, info
  <2>12. CASE r.status = "RUNNING"
    <3> DEFINE new == AddTree(mid, i, nodes)
               sent == SentNodes(nodes, Len(info))
               row == TreeRowOf(mid, i, nodes, sent)
               more == Slotted(sent, i)
    <3>1. Growing(beam_bc[i], r, MaxBeamDepth)
        BY <2>4, <2>12 DEF BeamRowRight, Loading
    <3>2. RowPut(new, mid, i, g, row, more, nodes, mid.load) /\ new.request = mid.request
        BY <2>6, <2>7, <2>11, AddTreePuts
    <3>3. RowOfTree(row, beam_bc[i], nodes, sent)
        BY DEF TreeRowOf, RowOfTree
    <3> HIDE DEF new, sent, row
    <3>4. RowFits(i, row, m, nodes, info, more)
      <4>1. nodes = TraverseBeamTree(r, beam_bc[i].max_depth)
          BY DEF nodes
      <4>2. RunsOn(m, r) /\ IsSeq(info)
          BY <2>2, <2>7, <2>8, <2>12 DEF RunsOn
      <4> QED BY <2>8, <3>1, <3>3, <4>1, <4>2, SentRowRight
    <3> HIDE DEF more
    <3>5. Changed(acc.request, new.request, g, m)
        BY <2>7, <3>2
    <3>6. Changed(acc.tree, new.tree, g, nodes)
        BY <2>3, <2>7, <3>2, ExceptChanges DEF RowPut
    <3>7. RowBuilt(new, acc, i, g, row, m, nodes, more)
        BY <2>2, <2>7, <3>2, <3>4, <3>5, <3>6 DEF RowBuilt, RowPut, info
    <3>8. Built(new, i + 1)
        BY <2>10, <3>7
    <3> QED BY <2>9, <2>12, <3>8 DEF new
  <2>13. CASE r.status # "RUNNING"
    <3> DEFINE cached == m.llm_cache_size
               num == Minimum(mid.load, m.initial_len - cached)
               last == num + cached >= m.initial_len
               chunk == ChunkNodes(cached, num)
               new == AddPrompt(mid, i, m)
               row == ChunkRowOf(mid, i, cached, num, last)
               more == Slotted(chunk, i)
               tree == IF last THEN << Node(RootToken(m), Size(m) - 1) >> ELSE mid.tree[g]
               u == new.request[g]
    <3>1. IsSeq(committed_tokens[g]) /\ Loading(r, Len(committed_tokens[g]))
        BY <2>4, <2>13 DEF BeamRowRight, Growing
    <3>2. Loading(m, 0)
      <4>1. Len(committed_tokens[g]) \in Nat
          BY <3>1, SeqLength
      <4>2. /\ r.status = "PENDING" /\ r.tokens = <<>> /\ r.llm_cache_size \in Nat
            /\ r.llm_cache_size + Len(committed_tokens[g]) < r.initial_len
          BY <3>1 DEF Loading
      <4>3. size \in Nat /\ size < r.initial_len /\ size + 0 = size
          BY <2>5, <4>1, <4>2
      <4> QED BY <2>7, <4>2, <4>3 DEF Loading
    <3>3. ChunkIs(m, mid.load, num, last)
        BY DEF ChunkIs
    <3>4. /\ RowPut(new, mid, i, g, row, more, tree, mid.load - num)
          /\ ChunkLoaded(new, mid, g, last)
      <4> HIDE DEF num, last
      <4> QED BY <2>6, <2>11, <3>3, AddPromptPuts
    <3>5. Changed(mid.request, new.request, g, u) /\ ChunkOf(u, m, last)
      <4> HIDE DEF last, new, row, more, tree, num
      <4>1. PICK chunks : new.request = [mid.request EXCEPT
                ![g].status = IF last THEN "RUNNING" ELSE @, ![g].chunks = chunks]
          BY <3>4 DEF ChunkLoaded
      <4>2. DOMAIN mid.request[g] = RequestFields
          BY <2>7, <2>11
      <4>3. Changed(mid.request, new.request, g, new.request[g])
            /\ ChunkOf(new.request[g], mid.request[g], last)
          BY <2>11, <4>1, <4>2, ChunkChanges
      <4> QED BY <2>11, <4>3
    <3>6. RowOfChunk(row, info, num, last)
      <4> HIDE DEF last, num
      <4> QED BY <2>7 DEF ChunkRowOf, RowOfChunk
    <3>7. RowFits(i, row, u, tree, info, more) /\ num \in Int
      <4>1. mid.load \in Int /\ IsSeq(info) /\ NotOf(info, i) /\ Sized(m)
          BY <2>2, <2>7, <2>8
      <4>2. RootSent(tree, m, last)
          BY DEF RootSent
      <4> HIDE DEF row, tree, u, last, num
      <4> QED BY <3>2, <3>3, <3>5, <3>6, <4>1, <4>2, ChunkRowRight
    <3> HIDE DEF new, row, tree, u, more, last, chunk
    <3>8. Changed(acc.request, new.request, g, u)
        BY <2>7, <3>5, ChangedTwice
    <3>9. Changed(acc.tree, new.tree, g, tree)
        BY <2>3, <2>7, <3>4, ExceptChanges DEF RowPut
    <3>10. new.load \in Int
      <4> HIDE DEF num
      <4> QED BY <2>2, <2>7, <3>4, <3>7 DEF RowPut
    <3>11. RowBuilt(new, acc, i, g, row, u, tree, more)
        BY <2>7, <3>4, <3>7, <3>8, <3>9, <3>10 DEF RowBuilt, RowPut, info
    <3>12. Built(new, i + 1)
        BY <2>10, <3>11
    <3> QED BY <2>9, <2>13, <3>12 DEF new
  <2> QED BY <2>12, <2>13
<1> QED BY <1>1, <1>2

\* What prompts may load is a number.
LEMMA PromptLoadIsInt == MaxPromptLoad \in Int
<1>1. {MaxRequests, MaxTokens, MaxSpecTreeTokens, MaxBeamDepth} \subseteq Nat
    BY SpecAssumption DEF SpecAssumption
<1>2. IsFiniteSet(Rows)
    BY <1>1, FS_Interval DEF Rows
<1>3. Cardinality(RunningBeamRows) \in Nat
    BY <1>2, FS_Subset, FS_CardinalityType DEF RunningBeamRows, ActiveRows
<1>4. Cardinality(ActiveRows(beam_bc) \ RunningBeamRows) \in Nat
    BY <1>2, FS_Subset, FS_CardinalityType DEF ActiveRows
<1> DEFINE x == Cardinality(RunningBeamRows)
           y == Cardinality(ActiveRows(beam_bc) \ RunningBeamRows)
<1>5. MaxPromptLoad = MaxVerifyTokens - (MaxBeamDepth + 1) * x - y
    BY Zenon DEF MaxPromptLoad
<1>6. x \in Nat /\ y \in Nat
    BY <1>3, <1>4
<1> HIDE DEF x, y
<1>7. MaxVerifyTokens \in Int /\ (MaxBeamDepth + 1) * x \in Nat
  <2>1. MaxSpecTreeTokens * MaxRequests \in Nat /\ (MaxBeamDepth + 1) * x \in Nat
      BY <1>1, <1>6
  <2> QED BY <1>1, <2>1 DEF MaxVerifyTokens
<1> QED BY <1>5, <1>6, <1>7

\* After the loop all rows fit their requests.
LEMMA MadeTreesBuilt ==
    ASSUME Registered(all_requests), Parallel, BeamBatchRight, Depth = MaxBeamDepth,
           EachOnce(beam_bc, pending_infr_request_queue, Open(all_requests))
    PROVE  TreesRight(MadeTrees, MaxRequests) /\ Built(MadeTrees, MaxRequests)
<1> PICK h : /\ h[0] = NoTreesMade
             /\ \A i \in Rows : h[i + 1] = VerifyRow(h[i], i)
             /\ MadeTrees = h[MaxRequests]
    BY MadeTreesUpto
<1> DEFINE Right(n) == TreesRight(h[n], n) /\ Built(h[n], n)
           T == {n \in Nat : n <= MaxRequests => Right(n)}
<1>1. MaxRequests \in Nat
    BY SpecAssumption DEF SpecAssumption
<1>2. Built(NoTreesMade, 0)
  <2>1. SlotsBefore(NoTreesMade.bc.tokensInfo, 0)
      BY SeqEmpty DEF SlotsBefore, NoTreesMade, NoTreeBatch
  <2>2. NoTreesMade.load \in Int
      BY PromptLoadIsInt DEF NoTreesMade
  <2>3. NoTreesMade.tree = [g \in DOMAIN all_requests |-> NoTreesMade.tree[g]]
    <3>1. Len(dfs_tree_inputs) = Len(all_requests) /\ NoTreesMade.tree = dfs_tree_inputs
        BY DEF Parallel, NoTreesMade
    <3>2. PICK S : all_requests \in Seq(S)
        BY DEF Registered
    <3>3. PICK R : dfs_tree_inputs \in Seq(R)
        BY DEF Parallel, IsSeq
    <3>4. DOMAIN dfs_tree_inputs = DOMAIN all_requests
        BY <3>1, <3>2, <3>3
    <3>5. dfs_tree_inputs = [g \in DOMAIN dfs_tree_inputs |-> dfs_tree_inputs[g]]
        BY <3>3
    <3> QED BY <3>1, <3>4, <3>5
  <2>4. NoTreesMade.request = all_requests
      BY DEF NoTreesMade
  <2>5. \A j \in ActiveRows(beam_bc) : ~(j < 0)
      BY <1>1 DEF ActiveRows, Rows
  <2> QED BY <2>1, <2>2, <2>3, <2>4, <2>5 DEF Built
<1>3. TreesRight(h[0], 0)
    BY NoTreesRight
<1>4. Right(0)
    BY <1>2, <1>3
<1>5. \A i \in Rows : Right(i) => Right(i + 1)
    BY VerifyRowKeeps, VerifyRowBuilds
<1> HIDE DEF Right
<1>6. 0 \in T
    BY <1>4
<1>7. ASSUME NEW n \in Nat, n \in T PROVE n + 1 \in T
  <2>1. n + 1 <= MaxRequests => n \in Rows /\ n <= MaxRequests
      BY <1>1 DEF Rows
  <2> QED BY <1>5, <1>7, <2>1
<1>8. MaxRequests \in T
  <2> HIDE DEF T
  <2> QED BY <1>1, <1>6, <1>7, SetInduction
<1>9. Right(MaxRequests)
    BY <1>1, <1>8
<1> QED BY <1>9 DEF Right

\* prepare_next_batch_verify: the rows of the tree batch fit their requests.
LEMMA VerifyStepSpeculates ==
    ASSUME ServingInvariant, SpeculationInvariant, PrepareNextBatchVerify
    PROVE  SpeculationInvariant'
<1> DEFINE s == all_requests
           queue == pending_infr_request_queue
           made == MadeTrees
           row == made.bc.row
           t == made.request
           trees == made.tree
           info == made.bc.tokensInfo
<1>1. /\ Registered(s) /\ step.call = "verify"
      /\ EachOnce(beam_bc, queue, Open(s))
      /\ BeamBatchRight /\ QueueFresh /\ Parallel /\ setup \in Setups
    BY DEF ServingInvariant, SpeculationInvariant, PrepareNextBatchVerify
<1>2. /\ tree_bc' = made.bc /\ all_requests' = t /\ dfs_tree_inputs' = trees
      /\ step' = NextStep /\ setup' = setup /\ queue' = queue
      /\ committed_tokens' = committed_tokens
    BY DEF PrepareNextBatchVerify
<1>3. step'.call = "llm"
  <2>1. step' = [call |-> "llm", depth |-> 0]
      BY <1>1, <1>2 DEF NextStep
  <2> QED BY <2>1
<1>4. TreesRight(made, MaxRequests) /\ Built(made, MaxRequests)
  <2>1. Depth = MaxBeamDepth
      BY <1>1 DEF Depth
  <2> QED BY <1>1, <2>1, MadeTreesBuilt
<1> HIDE DEF made
<1>5. \A j \in Rows : j < MaxRequests
    BY SpecAssumption DEF SpecAssumption, Rows
<1>6. \A j \in Rows : row[j].guid = beam_bc[j].guid
    BY <1>4, <1>5 DEF TreesRight
<1>7. \A j \in ActiveRows(beam_bc) :
         TreeRowRight(j, row[j], t[beam_bc[j].guid], trees[beam_bc[j].guid], info)
  <2>1. \A j \in ActiveRows(beam_bc) : j < MaxRequests
      BY <1>5 DEF ActiveRows
  <2> QED BY <1>4, <2>1 DEF Built
<1>8. IsSeq(info)
    BY <1>4 DEF Built, SlotsBefore
<1>9. TreeRows'
  <2> SUFFICES ASSUME NEW j \in Rows, row[j].guid # 0
               PROVE  TreeRowRight(j, row[j], t[row[j].guid], trees[row[j].guid], info)
      BY <1>2, <1>8 DEF TreeRows, ActiveRows
  <2>1. row[j].guid = beam_bc[j].guid /\ j \in ActiveRows(beam_bc)
      BY <1>6 DEF ActiveRows
  <2> QED BY <1>7, <2>1
<1>10. QueueFresh'
  <2>1. \A k \in DOMAIN queue : t[queue[k]] = s[queue[k]]
      BY <1>4 DEF Built
  <2> QED BY <1>1, <1>2, <2>1 DEF QueueFresh
<1>11. Parallel'
  <2>1. Len(s) \in Nat /\ DOMAIN s = 1 .. Len(s)
      BY <1>1 DEF Registered
  <2>2. t = [g \in DOMAIN s |-> t[g]] /\ trees = [g \in DOMAIN s |-> trees[g]]
      BY <1>4 DEF TreesRight, KeepsOpen, Built
  <2> DEFINE n == Len(s)
  <2>3. t = [g \in 1 .. n |-> t[g]] /\ trees = [g \in 1 .. n |-> trees[g]]
      BY <2>1, <2>2
  <2> HIDE DEF t, n, trees
  <2>4. Len(t) = n /\ IsSeq(trees) /\ Len(trees) = n
      BY <2>1, <2>3, FunctionIsSeq DEF n
  <2> QED BY <1>1, <1>2, <2>4 DEF Parallel, n
<1> QED BY <1>1, <1>2, <1>3, <1>9, <1>10, <1>11 DEF SpeculationInvariant

\* What the invariant says of a tree that is sent is what MaskIsAncestry says.
LEMMA MaskOfRows ==
    ASSUME SpeculationInvariant PROVE MaskIsAncestry
<1> SUFFICES ASSUME step.call = "llm", NEW i \in ActiveRows(tree_bc.row),
                    tree_bc.row[i].running, ~tree_bc.row[i].prompt_phase
             PROVE  MaskSaysOf(tree_bc.row[i], all_requests[tree_bc.row[i].guid].beam_tree)
    BY Zenon DEF MaskIsAncestry, MaskSaysOf, NodesAbove
<1> DEFINE row == tree_bc.row[i]
           r == all_requests[row.guid]
<1>1. TreeRowRight(i, row, r, dfs_tree_inputs[row.guid], tree_bc.tokensInfo)
    BY DEF SpeculationInvariant, TreeRows
<1>2. TreeSent(row, r)
    BY <1>1 DEF TreeRowRight
<1> QED BY <1>2, SentMask

\* When a batch of the small model has room for the longest path of each row, the
\* bits that appendBitMask sets, one layer at a time, let each node of a tree that
\* is sent to the large model see its ancestors and itself, and nothing else.
THEOREM MaskAlwaysAncestry ==
    ASSUME EnoughTokens PROVE Spec => []MaskIsAncestry
<1>1. Init => ServingInvariant /\ SpeculationInvariant
    BY InitServes, InitSpeculates
<1>2. ServingInvariant /\ SpeculationInvariant /\ [Next]_vars
         => ServingInvariant' /\ SpeculationInvariant'
  <2> SUFFICES ASSUME ServingInvariant, SpeculationInvariant, [Next]_vars
               PROVE  ServingInvariant' /\ SpeculationInvariant'
      OBVIOUS
  <2>1. CASE RegisterNewRequest
      BY <2>1, RegisterServes, RegisterSpeculates
  <2>2. CASE PrepareNextBatchInit
      BY <2>2, InitStepServes, InitStepSpeculates
  <2>3. CASE PrepareNextBatchBeam
      BY <2>3, BeamStepServes, BeamStepSpeculates
  <2>4. CASE PrepareNextBatchVerify
      BY <2>4, VerifyStepServes, VerifyStepSpeculates
  <2>5. CASE LLMInference
      BY <2>5, InferenceServes, InferenceSpeculates
  <2>6. CASE UNCHANGED vars
    <3>1. ServingInvariant'
        BY <2>6 DEF vars, requestVars, ServingInvariant
    <3>2. SpeculationInvariant'
        BY <2>6 DEF vars, requestVars, SpeculationInvariant, Parallel, QueueFresh, TreeRows,
                    BeamBatchRight, Depth, ActiveRows
    <3> QED BY <3>1, <3>2
  <2> QED BY <2>1, <2>2, <2>3, <2>4, <2>5, <2>6 DEF Next, Serve
<1>3. SpeculationInvariant => MaskIsAncestry
    BY MaskOfRows
<1> QED BY <1>1, <1>2, <1>3, PTL DEF Spec

=============================================================================
