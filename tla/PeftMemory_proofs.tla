-------------------------- MODULE PeftMemory_proofs --------------------------
(***************************************************************************)
(* Proofs about PeftMemory: for any layers, adapters, sizes and order of   *)
(* tasks, the two ends of the weight arena stay apart, the range that is   *)
(* synchronised for an adapter is the adapter's, the activation buffers of *)
(* the operators stay apart, and start-up fails only for want of space.    *)
(***************************************************************************)
EXTENDS PeftMemory, FiniteSetTheorems, WellFoundedInduction, TLAPS

\* Two places that follow each other.
Apart(p, q) == p.offset + p.size <= q.offset \/ q.offset + q.size <= p.offset

\* A weight is at the end it was taken from, behind the offset of that end.
AtItsEnd(b) ==
    IF b.sync THEN b.offset + b.size <= sync_offset
    ELSE local_offset <= b.offset /\ b.offset + b.size <= WeightSpace

WeightArena ==
    /\ sync_offset <= local_offset /\ local_offset <= WeightSpace
    /\ \A b \in weights : AtItsEnd(b)
    /\ \A b, c \in weights : b # c => Apart(b, c)

SyncArena ==
    /\ \A a \in DOMAIN sync_weights :
          sync_weights[a].offset + sync_weights[a].size <= sync_offset
    /\ \A b \in weights : b.sync => b.adapter \in DOMAIN sync_weights
    /\ SyncRangeIsTheAdapters

ActivationArena ==
    /\ instance_allocated_size <= config.peft_activation_reserve_space_size
    /\ \A b \in Buffers :
          buffer[b].offset + buffer[b].size <= instance_allocated_size
    /\ \A b, c \in Buffers :
          b # c => \/ buffer[b].size = 0 \/ buffer[c].size = 0
                   \/ Apart(buffer[b], buffer[c])

MemoryInvariant == MemoryTypeOK /\ WeightArena /\ SyncArena /\ ActivationArena

-----------------------------------------------------------------------------
(* The operators. *)

\* The weight space is a positive number of bytes.
LEMMA WeightSpaceNat ==
    ASSUME MemoryTypeOK
    PROVE  WeightSpace \in Nat \ {0}
BY MemoryAssumption DEF MemoryAssumption, MemoryTypeOK, WeightSpace

\* An init task makes allocations of positive size.
LEMMA AllocationsType ==
    ASSUME MemoryTypeOK, NEW l \in Layers, NEW a \in Adapters
    PROVE  Allocations(l, a) \in Seq(Request)
<1> DEFINE Alloc(part, sync, size) ==
              [layer |-> l, adapter |-> a, part |-> part, sync |-> sync,
               size |-> size]
           w0 == config.w0_size[a]
           w1 == config.w1_size[a]
           replicated == l \in config.replicated
           first == << Alloc("w0", FALSE, w0), Alloc("w1", FALSE, w1) >>
           second == IF a \in config.trainable
                     THEN << Alloc("w0_grad", replicated, w0),
                             Alloc("w1_grad", ~replicated, w1) >> ELSE <<>>
           third == IF a \in config.trainable \cap config.momentum
                    THEN << Alloc("w0_v_values", replicated, w0),
                            Alloc("w1_v_values", ~replicated, w1) >> ELSE <<>>
<1>1. w0 \in Nat \ {0} /\ w1 \in Nat \ {0} /\ replicated \in BOOLEAN
    BY MemoryAssumption DEF MemoryAssumption, MemoryTypeOK
<1>2. \A part \in Parts, sync \in BOOLEAN, size \in Nat \ {0} :
          Alloc(part, sync, size) \in Request
    BY DEF Request
<1>3. Allocations(l, a) = first \o second \o third
    BY DEF Allocations
<1>4. \A e, f \in Request : << e, f >> \in Seq(Request) /\ <<>> \in Seq(Request)
    OBVIOUS
<1> HIDE DEF Alloc, w0, w1, replicated
<1>5. /\ Alloc("w0", FALSE, w0) \in Request
      /\ Alloc("w1", FALSE, w1) \in Request
      /\ Alloc("w0_grad", replicated, w0) \in Request
      /\ Alloc("w1_grad", ~replicated, w1) \in Request
      /\ Alloc("w0_v_values", replicated, w0) \in Request
      /\ Alloc("w1_v_values", ~replicated, w1) \in Request
    BY <1>1, <1>2 DEF Parts
<1>6. first \in Seq(Request) /\ second \in Seq(Request) /\ third \in Seq(Request)
    BY <1>4, <1>5
<1> HIDE DEF first, second, third
<1> QED BY <1>3, <1>6

\* The first allocation of a task that has some.
LEMMA HeadType ==
    ASSUME MemoryTypeOK, work # <<>>
    PROVE  /\ Head(work) \in Request /\ Tail(work) \in Seq(Request)
           /\ Head(work).size \in Nat \ {0} /\ Head(work).sync \in BOOLEAN
           /\ Head(work).adapter \in Adapters
<1>1. work \in Seq(Request) /\ work # <<>>
    BY DEF MemoryTypeOK
<1>2. Head(work) \in Request /\ Tail(work) \in Seq(Request)
    BY <1>1
<1> QED BY <1>2 DEF Request

\* The block an allocation gives.
LEMMA BlockType ==
    ASSUME NEW r \in Request, NEW offset \in Nat
    PROVE  /\ Block(r, offset) \in WeightBlock
           /\ Block(r, offset).offset = offset /\ Block(r, offset).size = r.size
           /\ Block(r, offset).sync = r.sync /\ Block(r, offset).adapter = r.adapter
BY DEF Block, Request, WeightBlock

\* Places that follow each other share no byte.
LEMMA ApartIsDisjoint ==
    ASSUME NEW p, NEW q, p.offset \in Nat, p.size \in Nat,
           q.offset \in Nat, q.size \in Nat,
           p.size = 0 \/ q.size = 0 \/ Apart(p, q)
    PROVE  Cells(p) \cap Cells(q) = {}
BY DEF Cells, Bytes, Apart

-----------------------------------------------------------------------------
(* Initial states. *)

LEMMA InitMemoryInvariant == Init => MemoryInvariant
<1> SUFFICES ASSUME Init PROVE MemoryInvariant
    OBVIOUS
<1>1. config \in Configs
    BY DEF Init
<1>2. WeightSpace \in Nat \ {0} /\ config.peft_activation_reserve_space_size \in Nat
    BY <1>1, MemoryAssumption DEF MemoryAssumption, WeightSpace
<1>3. MemoryTypeOK
    <2>1. DOMAIN sync_weights = {} /\ weights = {} /\ work \in Seq(Request)
        BY DEF Init
    <2>2. buffer \in [Buffers -> Place]
        BY DEF Init, Place
    <2> QED BY <1>1, <1>2, <2>1, <2>2 DEF Init, MemoryTypeOK
<1>4. WeightArena
    BY <1>2 DEF Init, WeightArena
<1>5. SyncArena
    BY DEF Init, SyncArena, SyncRangeIsTheAdapters
<1>6. ActivationArena
    BY <1>2 DEF Init, ActivationArena
<1> QED BY <1>3, <1>4, <1>5, <1>6 DEF MemoryInvariant

-----------------------------------------------------------------------------
(* Steps. *)

\* A step that leaves the arenas alone leaves what is said of them.
LEMMA ArenasUnchanged ==
    ASSUME MemoryInvariant,
           UNCHANGED << config, sync_offset, local_offset, sync_weights, weights >>
    PROVE  WeightArena' /\ SyncArena'
<1>1. WeightArena'
    BY DEF MemoryInvariant, WeightArena, AtItsEnd, Apart, WeightSpace
<1>2. SyncArena'
    BY DEF MemoryInvariant, SyncArena, SyncRangeIsTheAdapters, Cells, Bytes
<1> QED BY <1>1, <1>2

LEMMA ActivationsUnchanged ==
    ASSUME MemoryInvariant, UNCHANGED << config, activationVars >>
    PROVE  ActivationArena'
BY DEF MemoryInvariant, ActivationArena, activationVars, Apart

\* Preparing the allocations of an adapter takes no memory.
LEMMA BeginAdapterStep ==
    ASSUME MemoryInvariant, NEW l \in Layers, NEW a \in Adapters, BeginAdapter(l, a)
    PROVE  MemoryInvariant'
<1>1. MemoryTypeOK'
    <2>1. work' \in Seq(Request)
        BY AllocationsType DEF MemoryInvariant, BeginAdapter
    <2>2. pending' \subseteq Layers \X Adapters
        BY DEF MemoryInvariant, MemoryTypeOK, BeginAdapter
    <2> QED BY <2>1, <2>2 DEF MemoryInvariant, MemoryTypeOK, BeginAdapter, activationVars
<1>2. WeightArena' /\ SyncArena'
    BY ArenasUnchanged DEF BeginAdapter
<1>3. ActivationArena'
    BY ActivationsUnchanged DEF BeginAdapter
<1> QED BY <1>1, <1>2, <1>3 DEF MemoryInvariant

\* A local block is taken from below all others of its end, above the other end.
LEMMA AllocateLocalStep ==
    ASSUME MemoryInvariant, AllocateLocal
    PROVE  MemoryInvariant'
<1> DEFINE r == Head(work)
           new == Block(r, local_offset')
<1>1. /\ r \in Request /\ Tail(work) \in Seq(Request)
      /\ r.size \in Nat \ {0} /\ r.adapter \in Adapters
    BY HeadType DEF MemoryInvariant, AllocateLocal
<1>2. /\ sync_offset \in Nat /\ local_offset \in Nat /\ WeightSpace \in Nat
      /\ WeightSpace' = WeightSpace /\ sync_offset' = sync_offset
    BY WeightSpaceNat DEF MemoryInvariant, MemoryTypeOK, AllocateLocal, WeightSpace
<1>3. /\ ~r.sync /\ sync_offset < local_offset - r.size
      /\ local_offset' = local_offset - r.size
      /\ weights' = weights \cup {new}
    BY DEF AllocateLocal, LocalFits
<1>4. local_offset' \in Nat /\ sync_offset < local_offset' /\ local_offset' < local_offset
    BY <1>1, <1>2, <1>3
<1>5. /\ new \in WeightBlock /\ new.offset = local_offset' /\ new.size = r.size
      /\ new.sync = r.sync
    BY <1>1, <1>4, BlockType
<1> HIDE DEF r, new
<1>6. \A b \in weights : /\ b.offset \in Nat /\ b.size \in Nat /\ b.sync \in BOOLEAN
                         /\ AtItsEnd(b)
    BY DEF MemoryInvariant, MemoryTypeOK, WeightBlock, WeightArena
<1>7. MemoryTypeOK'
    <2>1. work' \in Seq(Request)
        BY <1>1 DEF AllocateLocal
    <2>2. weights' \subseteq WeightBlock
        BY <1>3, <1>5 DEF MemoryInvariant, MemoryTypeOK
    <2> QED BY <1>4, <2>1, <2>2
            DEF MemoryInvariant, MemoryTypeOK, AllocateLocal, activationVars
<1>8. WeightArena'
    <2>1. local_offset <= WeightSpace
        BY DEF MemoryInvariant, WeightArena
    <2>2. \A b \in weights : AtItsEnd(b)'
        BY <1>2, <1>4, <1>6 DEF AtItsEnd
    <2>3. ASSUME NEW b, b = new PROVE AtItsEnd(b)'
        <3>1. b.offset = local_offset' /\ b.size = r.size /\ ~b.sync
            BY <1>3, <1>5, <2>3
        <3> QED BY <1>1, <1>2, <1>3, <2>1, <3>1 DEF AtItsEnd
    <2>4. \A b \in weights : Apart(b, new) /\ Apart(new, b)
        BY <1>1, <1>2, <1>3, <1>4, <1>5, <1>6 DEF AtItsEnd, Apart
    <2>5. \A b, c \in weights' : b # c => Apart(b, c)
        BY <1>3, <2>4 DEF MemoryInvariant, WeightArena
    <2>6. \A b \in weights' : AtItsEnd(b)'
        BY <1>3, <2>2, <2>3
    <2> QED BY <1>2, <1>3, <1>4, <2>1, <2>5, <2>6 DEF WeightArena, Apart
<1>9. SyncArena'
    <2>1. UNCHANGED << sync_weights, sync_offset >>
        BY DEF AllocateLocal
    <2>2. \A a : {w \in weights' : w.sync /\ w.adapter = a}
                    = {w \in weights : w.sync /\ w.adapter = a}
        BY <1>3, <1>5
    <2>3. SyncRangeIsTheAdapters'
        BY <2>1, <2>2 DEF MemoryInvariant, SyncArena, SyncRangeIsTheAdapters, Cells, Bytes
    <2> QED BY <1>3, <1>5, <2>1, <2>3 DEF MemoryInvariant, SyncArena
<1>10. ActivationArena'
    BY ActivationsUnchanged DEF AllocateLocal
<1> QED BY <1>7, <1>8, <1>9, <1>10 DEF MemoryInvariant

\* The range of an adapter grows by the block that follows it.
LEMMA RangeGrows ==
    ASSUME NEW offset \in Nat, NEW size \in Nat, NEW more \in Nat
    PROVE  Bytes(offset, size + more)
               = Bytes(offset, size) \cup Bytes(offset + size, more)
BY DEF Bytes

\* A sync block is put behind all others of its end, below the other end.
LEMMA AllocateSyncStep ==
    ASSUME MemoryInvariant, AllocateSync
    PROVE  MemoryInvariant'
<1> DEFINE r == Head(work)
           new == Block(r, sync_offset)
           range == SyncRange(r)
<1>1. /\ r \in Request /\ Tail(work) \in Seq(Request)
      /\ r.size \in Nat \ {0} /\ r.adapter \in Adapters
    BY HeadType DEF MemoryInvariant, AllocateSync
<1>2. /\ sync_offset \in Nat /\ local_offset \in Nat /\ WeightSpace \in Nat
      /\ WeightSpace' = WeightSpace /\ local_offset' = local_offset
    BY WeightSpaceNat DEF MemoryInvariant, MemoryTypeOK, AllocateSync, WeightSpace
<1>3. /\ r.sync /\ sync_offset + r.size < local_offset
      /\ Consecutive(r.adapter)
      /\ sync_offset' = sync_offset + r.size
      /\ DOMAIN sync_weights' = DOMAIN sync_weights \cup {r.adapter}
      /\ sync_weights'[r.adapter] = range
      /\ \A a \in DOMAIN sync_weights :
            a # r.adapter => sync_weights'[a] = sync_weights[a]
      /\ weights' = weights \cup {new}
    BY DEF AllocateSync, SyncFits
<1>4. /\ new \in WeightBlock /\ new.offset = sync_offset /\ new.size = r.size
      /\ new.sync = r.sync /\ new.adapter = r.adapter
    BY <1>1, <1>2, BlockType
<1>5. /\ range \in Place /\ range.offset + range.size = sync_offset + r.size
      /\ r.adapter \in DOMAIN sync_weights =>
            /\ range.offset = sync_weights[r.adapter].offset
            /\ range.size = sync_weights[r.adapter].size + r.size
            /\ sync_weights[r.adapter] \in Place
            /\ sync_weights[r.adapter].offset + sync_weights[r.adapter].size
                  = sync_offset
      /\ r.adapter \notin DOMAIN sync_weights =>
            range.offset = sync_offset /\ range.size = r.size
    <2>1. CASE r.adapter \in DOMAIN sync_weights
        <3>1. sync_weights[r.adapter] \in Place
            BY <2>1 DEF MemoryInvariant, MemoryTypeOK
        <3>2. sync_weights[r.adapter].offset + sync_weights[r.adapter].size = sync_offset
            BY <1>3, <2>1 DEF Consecutive
        <3>3. /\ sync_weights[r.adapter].offset \in Nat
              /\ sync_weights[r.adapter].size \in Nat
            BY <3>1 DEF Place
        <3>4. range = [offset |-> sync_weights[r.adapter].offset,
                       size |-> sync_weights[r.adapter].size + r.size]
            BY <2>1 DEF SyncRange
        <3> HIDE DEF r, new, range
        <3>5. /\ range.offset = sync_weights[r.adapter].offset
              /\ range.size = sync_weights[r.adapter].size + r.size
            BY <3>4
        <3>6. range \in Place /\ range.offset + range.size = sync_offset + r.size
            BY <1>1, <1>2, <3>2, <3>3, <3>4 DEF Place
        <3> QED BY <2>1, <3>1, <3>2, <3>5, <3>6
    <2>2. CASE r.adapter \notin DOMAIN sync_weights
        <3>1. range = [offset |-> sync_offset, size |-> r.size]
            BY <2>2 DEF SyncRange
        <3> QED BY <1>1, <1>2, <2>2, <3>1 DEF Place
    <2> QED BY <2>1, <2>2
<1> HIDE DEF r, new, range
<1>6. \A b \in weights : /\ b.offset \in Nat /\ b.size \in Nat /\ b.sync \in BOOLEAN
                         /\ AtItsEnd(b)
    BY DEF MemoryInvariant, MemoryTypeOK, WeightBlock, WeightArena
<1>7. MemoryTypeOK'
    <2>1. work' \in Seq(Request)
        BY <1>1 DEF AllocateSync
    <2>2. weights' \subseteq WeightBlock
        BY <1>3, <1>4 DEF MemoryInvariant, MemoryTypeOK
    <2>3. /\ DOMAIN sync_weights' \subseteq Adapters
          /\ \A a \in DOMAIN sync_weights' : sync_weights'[a] \in Place
        BY <1>1, <1>3, <1>5 DEF MemoryInvariant, MemoryTypeOK
    <2>4. sync_offset' \in Nat
        BY <1>1, <1>2, <1>3
    <2> QED BY <2>1, <2>2, <2>3, <2>4
            DEF MemoryInvariant, MemoryTypeOK, AllocateSync, activationVars
<1>8. WeightArena'
    <2>1. local_offset <= WeightSpace
        BY DEF MemoryInvariant, WeightArena
    <2>2. \A b \in weights : AtItsEnd(b)'
        BY <1>1, <1>2, <1>3, <1>6 DEF AtItsEnd
    <2>3. ASSUME NEW b, b = new PROVE AtItsEnd(b)'
        <3>1. b.offset = sync_offset /\ b.size = r.size /\ b.sync
            BY <1>3, <1>4, <2>3
        <3> QED BY <1>1, <1>2, <1>3, <3>1 DEF AtItsEnd
    <2>4. \A b \in weights : Apart(b, new) /\ Apart(new, b)
        BY <1>1, <1>2, <1>3, <1>4, <1>6 DEF AtItsEnd, Apart
    <2>5. \A b, c \in weights' : b # c => Apart(b, c)
        BY <1>3, <2>4 DEF MemoryInvariant, WeightArena
    <2>6. \A b \in weights' : AtItsEnd(b)'
        BY <1>3, <2>2, <2>3
    <2> QED BY <1>1, <1>2, <1>3, <2>1, <2>5, <2>6 DEF WeightArena, Apart
<1>9. SyncArena'
    <2> DEFINE Of(a) == {w \in weights : w.sync /\ w.adapter = a}
    <2>1. \A a : Of(a)' = IF a = r.adapter THEN Of(a) \cup {new} ELSE Of(a)
        BY <1>3, <1>4
    <2>2. Cells(new) = Bytes(sync_offset, r.size)
        BY <1>4 DEF Cells
    <2>3. ASSUME NEW a \in DOMAIN sync_weights'
          PROVE  Cells(sync_weights'[a]) = UNION {Cells(b) : b \in Of(a)'}
        <3>1. CASE a # r.adapter
            <4>1. a \in DOMAIN sync_weights /\ sync_weights'[a] = sync_weights[a]
                BY <1>3, <3>1
            <4>2. Cells(sync_weights[a]) = UNION {Cells(b) : b \in Of(a)}
                BY <4>1 DEF MemoryInvariant, SyncArena, SyncRangeIsTheAdapters
            <4> QED BY <2>1, <3>1, <4>1, <4>2
        <3>2. CASE a = r.adapter /\ a \in DOMAIN sync_weights
            <4>1. Cells(sync_weights[a]) = UNION {Cells(b) : b \in Of(a)}
                BY <3>2 DEF MemoryInvariant, SyncArena, SyncRangeIsTheAdapters
            <4>2. Cells(range) = Cells(sync_weights[a]) \cup Cells(new)
                <5>1. /\ sync_weights[a].offset \in Nat /\ sync_weights[a].size \in Nat
                      /\ sync_weights[a].offset + sync_weights[a].size = sync_offset
                    BY <1>5, <3>2 DEF Place
                <5>2. /\ range.offset = sync_weights[a].offset
                      /\ range.size = sync_weights[a].size + r.size
                    BY <1>5, <3>2
                <5>3. r.size \in Nat
                    BY <1>1
                <5> DEFINE o == sync_weights[a].offset
                           n == sync_weights[a].size
                <5>4. Bytes(o, n + r.size) = Bytes(o, n) \cup Bytes(o + n, r.size)
                    <6>1. o \in Nat /\ n \in Nat
                        BY <5>1
                    <6> HIDE DEF o, n
                    <6> QED BY <5>3, <6>1, RangeGrows
                <5>5. /\ Cells(range) = Bytes(o, n + r.size)
                      /\ Cells(sync_weights[a]) = Bytes(o, n)
                      /\ Cells(new) = Bytes(o + n, r.size)
                    BY <2>2, <5>1, <5>2 DEF Cells
                <5> QED BY <5>4, <5>5
            <4>3. Of(a)' = Of(a) \cup {new}
                BY <2>1, <3>2
            <4>4. UNION {Cells(b) : b \in Of(a) \cup {new}}
                     = (UNION {Cells(b) : b \in Of(a)}) \cup Cells(new)
                OBVIOUS
            <4> QED BY <1>3, <3>2, <4>1, <4>2, <4>3, <4>4
        <3>3. CASE a = r.adapter /\ a \notin DOMAIN sync_weights
            <4>1. Of(a) = {}
                BY <3>3 DEF MemoryInvariant, SyncArena
            <4>2. Of(a)' = {new}
                BY <2>1, <3>3, <4>1
            <4>3. Cells(range) = Cells(new)
                BY <1>5, <2>2, <3>3 DEF Cells
            <4> QED BY <1>3, <3>3, <4>2, <4>3
        <3> QED BY <3>1, <3>2, <3>3
    <2>4. SyncRangeIsTheAdapters'
        BY <2>3 DEF SyncRangeIsTheAdapters, Cells, Bytes
    <2>5. \A a \in DOMAIN sync_weights' :
              sync_weights'[a].offset + sync_weights'[a].size <= sync_offset'
        <3>1. \A a \in DOMAIN sync_weights :
                  /\ sync_weights[a].offset \in Nat /\ sync_weights[a].size \in Nat
                  /\ sync_weights[a].offset + sync_weights[a].size <= sync_offset
            BY DEF MemoryInvariant, MemoryTypeOK, SyncArena, Place
        <3>2. ASSUME NEW a \in DOMAIN sync_weights', a # r.adapter
              PROVE  a \in DOMAIN sync_weights /\ sync_weights'[a] = sync_weights[a]
            BY <1>3, <3>2
        <3>3. sync_weights'[r.adapter] = range
            BY <1>3
        <3>4. sync_offset' = sync_offset + r.size /\ r.size \in Nat /\ sync_offset \in Nat
            BY <1>1, <1>2, <1>3
        <3>5. range.offset + range.size <= sync_offset'
            BY <1>5, <3>4
        <3>6. ASSUME NEW a \in DOMAIN sync_weights', a # r.adapter
              PROVE  sync_weights'[a].offset + sync_weights'[a].size <= sync_offset'
            BY <3>1, <3>2, <3>4, <3>6
        <3> QED BY <3>3, <3>5, <3>6
    <2>6. \A b \in weights' : b.sync => b.adapter \in DOMAIN sync_weights'
        BY <1>3, <1>4 DEF MemoryInvariant, SyncArena
    <2> QED BY <2>4, <2>5, <2>6 DEF SyncArena
<1>10. ActivationArena'
    BY ActivationsUnchanged DEF AllocateSync
<1> QED BY <1>7, <1>8, <1>9, <1>10 DEF MemoryInvariant

\* A failed assertion changes nothing but aborted.
LEMMA AbortStep ==
    ASSUME MemoryInvariant, aborted' = TRUE,
           UNCHANGED << config, weightVars, activationVars >>
    PROVE  MemoryInvariant'
<1>1. MemoryTypeOK'
    BY DEF MemoryInvariant, MemoryTypeOK, weightVars, activationVars
<1>2. WeightArena' /\ SyncArena'
    BY ArenasUnchanged DEF weightVars
<1>3. ActivationArena'
    BY ActivationsUnchanged
<1> QED BY <1>1, <1>2, <1>3 DEF MemoryInvariant

\* A buffer that grows moves behind all that has been given out.
LEMMA SaveActivationStep ==
    ASSUME MemoryInvariant, NEW b \in Buffers, NEW len \in Lengths,
           SaveActivation(b, len)
    PROVE  MemoryInvariant'
<1> DEFINE needed == Needed(b, len)
           total == config.peft_activation_reserve_space_size
<1>1. /\ needed \in Nat \ {0} /\ total \in Nat
      /\ instance_allocated_size \in Nat
    BY MemoryAssumption DEF MemoryAssumption, MemoryInvariant, MemoryTypeOK, Needed
<1>2. /\ instance_allocated_size + needed <= total
      /\ instance_allocated_size' = instance_allocated_size + needed
      /\ buffer' = [buffer EXCEPT ![b] = Grown(b, len)]
      /\ config' = config
    BY DEF SaveActivation, ActivationFits
<1>3. Grown(b, len) \in Place /\ Grown(b, len).offset = instance_allocated_size
      /\ Grown(b, len).size = needed
    BY <1>1 DEF Grown, Place
<1> HIDE DEF needed
<1>4. buffer \in [Buffers -> Place]
    BY DEF MemoryInvariant, MemoryTypeOK
<1>5. MemoryTypeOK'
    <2>1. instance_allocated_size' \in Nat /\ buffer' \in [Buffers -> Place]
        BY <1>1, <1>2, <1>3, <1>4
    <2> QED BY <2>1 DEF MemoryInvariant, MemoryTypeOK, SaveActivation, weightVars
<1>6. WeightArena' /\ SyncArena'
    BY ArenasUnchanged DEF SaveActivation, weightVars
<1>7. ActivationArena'
    <2>1. \A c \in Buffers : buffer[c].offset \in Nat /\ buffer[c].size \in Nat
        BY <1>4 DEF Place
    <2>2. \A c \in Buffers :
              buffer[c].offset + buffer[c].size <= instance_allocated_size
        BY DEF MemoryInvariant, ActivationArena
    <2>3. /\ buffer'[b].offset = instance_allocated_size /\ buffer'[b].size = needed
          /\ \A c \in Buffers : c # b => buffer'[c] = buffer[c]
        BY <1>2, <1>3, <1>4
    <2>4. \A c \in Buffers :
              buffer'[c].offset + buffer'[c].size <= instance_allocated_size'
        BY <1>1, <1>2, <2>1, <2>2, <2>3
    <2>5. \A c \in Buffers : c # b => /\ Apart(buffer'[c], buffer'[b])
                                      /\ Apart(buffer'[b], buffer'[c])
        BY <2>2, <2>3 DEF Apart
    <2>6. ASSUME NEW c \in Buffers, NEW d \in Buffers, c # d
          PROVE  \/ buffer'[c].size = 0 \/ buffer'[d].size = 0
                 \/ Apart(buffer'[c], buffer'[d])
        <3>1. CASE c = b \/ d = b
            BY <2>5, <2>6, <3>1
        <3>2. CASE c # b /\ d # b
            BY <2>3, <2>6, <3>2 DEF MemoryInvariant, ActivationArena
        <3> QED BY <3>1, <3>2
    <2>7. instance_allocated_size' <= config'.peft_activation_reserve_space_size
        BY <1>2
    <2> QED BY <2>4, <2>6, <2>7 DEF ActivationArena, Apart
<1> QED BY <1>5, <1>6, <1>7 DEF MemoryInvariant

\* Every step keeps the inductive invariant.
LEMMA NextMemoryInvariant == MemoryInvariant /\ [Next]_vars => MemoryInvariant'
<1> SUFFICES ASSUME MemoryInvariant, [Next]_vars PROVE MemoryInvariant'
    OBVIOUS
<1>1. CASE UNCHANGED vars
    <2>1. MemoryTypeOK'
        BY <1>1 DEF MemoryInvariant, MemoryTypeOK, vars, weightVars, activationVars
    <2>2. WeightArena' /\ SyncArena'
        BY <1>1, ArenasUnchanged DEF vars, weightVars
    <2>3. ActivationArena'
        BY <1>1, ActivationsUnchanged DEF vars
    <2> QED BY <2>1, <2>2, <2>3 DEF MemoryInvariant
<1>2. ASSUME NEW l \in Layers, NEW a \in Adapters, BeginAdapter(l, a)
      PROVE  MemoryInvariant'
    BY <1>2, BeginAdapterStep
<1>3. CASE AllocateLocal
    BY <1>3, AllocateLocalStep
<1>4. CASE AllocateSync
    BY <1>4, AllocateSyncStep
<1>5. CASE WeightAssertionFails
    BY <1>5, AbortStep DEF WeightAssertionFails
<1>6. ASSUME NEW b \in Buffers, NEW len \in Lengths, SaveActivation(b, len)
      PROVE  MemoryInvariant'
    BY <1>6, SaveActivationStep
<1>7. ASSUME NEW b \in Buffers, NEW len \in Lengths, ActivationAssertionFails(b, len)
      PROVE  MemoryInvariant'
    BY <1>7, AbortStep DEF ActivationAssertionFails
<1> QED BY <1>1, <1>2, <1>3, <1>4, <1>5, <1>6, <1>7 DEF Next

-----------------------------------------------------------------------------
(* Theorems. *)

LEMMA AlwaysMemoryInvariant == Spec => []MemoryInvariant
<1>1. Init => MemoryInvariant
    BY InitMemoryInvariant
<1>2. MemoryInvariant /\ [Next]_vars => MemoryInvariant'
    BY NextMemoryInvariant
<1> QED BY <1>1, <1>2, PTL DEF Spec

\* Type correctness: no offset goes below zero, although one end of the arena is
\* allocated by subtraction.
THEOREM MemoryTypes == Spec => []MemoryTypeOK
<1>1. MemoryInvariant => MemoryTypeOK
    BY DEF MemoryInvariant
<1> QED BY <1>1, AlwaysMemoryInvariant, PTL

\* No two weights, gradients or momentum values of a device share a byte, for any
\* adapters, any sizes and any order in which the layers are initialised.
THEOREM WeightsNeverOverlap == Spec => []WeightsDisjoint
<1>1. MemoryInvariant => WeightsDisjoint
    <2> SUFFICES ASSUME MemoryInvariant PROVE WeightsDisjoint
        OBVIOUS
    <2>1. /\ sync_offset \in Nat /\ local_offset \in Nat /\ WeightSpace \in Nat
          /\ sync_offset <= local_offset /\ local_offset <= WeightSpace
        BY WeightSpaceNat DEF MemoryInvariant, MemoryTypeOK, WeightArena
    <2>2. \A b \in weights : b.offset \in Nat /\ b.size \in Nat /\ AtItsEnd(b)
        BY DEF MemoryInvariant, MemoryTypeOK, WeightBlock, WeightArena
    <2>3. \A b \in weights : b.offset + b.size <= WeightSpace
        BY <2>1, <2>2 DEF AtItsEnd
    <2>4. ASSUME NEW b \in weights PROVE Cells(b) \subseteq Bytes(0, WeightSpace)
        BY <2>1, <2>2, <2>3 DEF Cells, Bytes
    <2>5. ASSUME NEW b \in weights, NEW c \in weights, b # c
          PROVE  Cells(b) \cap Cells(c) = {}
        <3>1. Apart(b, c)
            BY <2>5 DEF MemoryInvariant, WeightArena
        <3> QED BY <2>2, <3>1, ApartIsDisjoint
    <2> QED BY <2>4, <2>5 DEF WeightsDisjoint
<1> QED BY <1>1, AlwaysMemoryInvariant, PTL

\* The range that is synchronised for an adapter is made of its own blocks: the
\* asserted consecutiveness, where it holds, is enough for that.
THEOREM SyncRangesExact == Spec => []SyncRangeIsTheAdapters
<1>1. MemoryInvariant => SyncRangeIsTheAdapters
    BY DEF MemoryInvariant, SyncArena
<1> QED BY <1>1, AlwaysMemoryInvariant, PTL

\* No two operators save activations in the same bytes, in whatever order requests
\* of different lengths make their buffers move.
THEOREM ActivationsNeverOverlap == Spec => []ActivationsDisjoint
<1>1. MemoryInvariant => ActivationsDisjoint
    <2> SUFFICES ASSUME MemoryInvariant PROVE ActivationsDisjoint
        OBVIOUS
    <2>1. /\ instance_allocated_size \in Nat
          /\ \A b \in Buffers : buffer[b].offset \in Nat /\ buffer[b].size \in Nat
        BY DEF MemoryInvariant, MemoryTypeOK, Place
    <2>2. ASSUME NEW b \in Buffers
          PROVE  Cells(buffer[b]) \subseteq Bytes(0, instance_allocated_size)
        <3>1. buffer[b].offset + buffer[b].size <= instance_allocated_size
            BY DEF MemoryInvariant, ActivationArena
        <3> QED BY <2>1, <3>1 DEF Cells, Bytes
    <2>3. ASSUME NEW b \in Buffers, NEW c \in Buffers, b # c
          PROVE  Cells(buffer[b]) \cap Cells(buffer[c]) = {}
        <3>1. \/ buffer[b].size = 0 \/ buffer[c].size = 0
              \/ Apart(buffer[b], buffer[c])
            BY <2>3 DEF MemoryInvariant, ActivationArena
        <3> QED BY <2>1, <3>1, ApartIsDisjoint
    <2>4. instance_allocated_size <= config.peft_activation_reserve_space_size
        BY DEF MemoryInvariant, ActivationArena
    <2> QED BY <2>2, <2>3, <2>4 DEF ActivationsDisjoint
<1> QED BY <1>1, AlwaysMemoryInvariant, PTL


-----------------------------------------------------------------------------
(* Induction. *)

\* A set of naturals that has an element has a least one.
LEMMA LeastNatural ==
    ASSUME NEW T, T \subseteq Nat, T # {}
    PROVE  \E m \in T : \A k \in T : m <= k
<1> DEFINE R == {p \in Nat \X Nat : p[1] < p[2]}
<1>1. IsWellFoundedOn(R, Nat)
    BY NatLessThanWellFounded DEF OpToRel
<1>2. \E m \in T : \A k \in T : << k, m >> \notin R
    <2> HIDE DEF R
    <2> QED BY <1>1, WFMin
<1>3. PICK m \in T : \A k \in T : << k, m >> \notin R
    BY <1>2
<1>4. ASSUME NEW k \in T PROVE m <= k
    <2>1. << k, m >> \notin R /\ m \in Nat /\ k \in Nat
        BY <1>3
    <2>2. ~(k < m)
        BY <2>1
    <2> QED BY <2>1, <2>2
<1> QED BY <1>4

\* Induction over the naturals, for a set instead of a predicate.
LEMMA SetInduction ==
    ASSUME NEW T, 0 \in T, \A n \in Nat : n \in T => n + 1 \in T
    PROVE  \A n \in Nat : n \in T
<1> SUFFICES ASSUME Nat \ T # {} PROVE FALSE
    OBVIOUS
<1>1. PICK m \in Nat \ T : \A k \in Nat \ T : m <= k
    BY LeastNatural
<1>2. m # 0 /\ m - 1 \in Nat
    BY <1>1
<1>3. m - 1 \in T
    BY <1>1, <1>2
<1> QED BY <1>1, <1>2, <1>3

-----------------------------------------------------------------------------
(* Sums over finite sets. *)

\* The element of a set that the sum takes first.
Chosen(s) == CHOOSE x \in s : TRUE

\* The function by which the sum of w over S is defined: the sums over all
\* subsets of S.
SumsOf(h, w, D) ==
    h = [s \in D |-> IF s = {} THEN 0 ELSE w[Chosen(s)] + h[s \ {Chosen(s)}]]
Sums(w, S) == CHOOSE h : SumsOf(h, w, SUBSET S)

\* The sum is its value at S.
LEMMA SumIsLast ==
    ASSUME NEW w, NEW S
    PROVE  SumFunctionOnSet(w, S) = Sums(w, S)[S]
BY DEF SumFunctionOnSet, FoldFunctionOnSet, MapThenFoldSet, Sums, SumsOf, Chosen

\* An element is chosen of a set that has one, and the rest is smaller.
LEMMA ChosenRemoved ==
    ASSUME NEW s, IsFiniteSet(s), s # {}
    PROVE  /\ Chosen(s) \in s /\ IsFiniteSet(s \ {Chosen(s)})
           /\ Cardinality(s \ {Chosen(s)}) = Cardinality(s) - 1
           /\ Cardinality(s) \in Nat \ {0}
<1>1. Chosen(s) \in s
    BY DEF Chosen
<1> QED BY <1>1, FS_RemoveElement, FS_CardinalityType, FS_EmptySet

\* The subsets of n elements at most.
Small(S, n) == {s \in SUBSET S : Cardinality(s) <= n}

\* There is such a function, for a finite set: one on the subsets of n + 1
\* elements is made of one on those of n.
LEMMA SumsExist ==
    ASSUME NEW w, NEW S, IsFiniteSet(S)
    PROVE  SumsOf(Sums(w, S), w, SUBSET S)
<1> DEFINE T == {n \in Nat : \E h : SumsOf(h, w, Small(S, n))}
<1>1. \A s \in SUBSET S : IsFiniteSet(s) /\ Cardinality(s) \in Nat
    BY FS_Subset, FS_CardinalityType
<1>2. 0 \in T
  <2> DEFINE h == [s \in Small(S, 0) |-> 0]
  <2>1. \A s \in Small(S, 0) : s = {}
      BY <1>1, FS_EmptySet DEF Small
  <2>2. h = [s \in Small(S, 0) |-> IF s = {} THEN 0 ELSE w[Chosen(s)] + h[s \ {Chosen(s)}]]
      BY <2>1
  <2>3. SumsOf(h, w, Small(S, 0))
      BY <2>2 DEF SumsOf
  <2> QED BY <2>3
<1>3. ASSUME NEW n \in Nat, n \in T
      PROVE  n + 1 \in T
  <2>1. PICK h : SumsOf(h, w, Small(S, n))
      BY <1>3
  <2> DEFINE k == [s \in Small(S, n + 1) |->
                      IF s = {} THEN 0 ELSE w[Chosen(s)] + h[s \ {Chosen(s)}]]
  <2>2. \A s \in Small(S, n) : s \in Small(S, n + 1)
      BY <1>1 DEF Small
  <2>3. \A s \in Small(S, n) : k[s] = h[s]
      BY <2>1, <2>2 DEF SumsOf
  <2>4. \A s \in Small(S, n + 1) : s # {} => s \ {Chosen(s)} \in Small(S, n)
    <3> SUFFICES ASSUME NEW s \in Small(S, n + 1), s # {}
                 PROVE  s \ {Chosen(s)} \in Small(S, n)
        OBVIOUS
    <3>1. s \in SUBSET S /\ Cardinality(s) <= n + 1 /\ IsFiniteSet(s)
        BY <1>1 DEF Small
    <3>2. Cardinality(s \ {Chosen(s)}) <= n
        BY <3>1, ChosenRemoved
    <3> QED BY <3>1, <3>2 DEF Small
  <2>5. k = [s \in Small(S, n + 1) |->
                IF s = {} THEN 0 ELSE w[Chosen(s)] + k[s \ {Chosen(s)}]]
      BY <2>3, <2>4
  <2>6. SumsOf(k, w, Small(S, n + 1))
      BY <2>5 DEF SumsOf
  <2> QED BY <2>6
<1>4. \A n \in Nat : n \in T
  <2> HIDE DEF T
  <2> QED BY <1>2, <1>3, SetInduction
<1>5. Small(S, Cardinality(S)) = SUBSET S
    BY <1>1, FS_Subset DEF Small
<1>6. \E h : SumsOf(h, w, SUBSET S)
  <2>1. Cardinality(S) \in T
      BY <1>4, FS_CardinalityType
  <2> QED BY <1>5, <2>1
<1> QED BY <1>6 DEF Sums

\* The sum over a set: zero if it is empty, else the number of any element more
\* than the sum over the rest.
LEMMA SumFacts ==
    ASSUME NEW S, IsFiniteSet(S), NEW w \in [S -> Nat]
    PROVE  /\ Sums(w, S)[{}] = 0
           /\ \A s \in SUBSET S : Sums(w, S)[s] \in Nat
           /\ \A s \in SUBSET S : \A x \in s :
                 Sums(w, S)[s] = w[x] + Sums(w, S)[s \ {x}]
<1> PICK h : h = Sums(w, S)
    OBVIOUS
<1>1. \A s \in SUBSET S :
         h[s] = IF s = {} THEN 0 ELSE w[Chosen(s)] + h[s \ {Chosen(s)}]
  <2>1. SumsOf(h, w, SUBSET S)
      BY SumsExist
  <2> HIDE DEF Chosen
  <2>2. h = [s \in SUBSET S |-> IF s = {} THEN 0 ELSE w[Chosen(s)] + h[s \ {Chosen(s)}]]
      BY <2>1 DEF SumsOf
  <2> QED BY <2>2, Zenon
<1>2. \A s \in SUBSET S : IsFiniteSet(s) /\ Cardinality(s) \in Nat
    BY FS_Subset, FS_CardinalityType
<1> DEFINE Fine(s) == h[s] \in Nat /\ \A x \in s : h[s] = w[x] + h[s \ {x}]
           T == {n \in Nat : \A s \in SUBSET S : Cardinality(s) <= n => Fine(s)}
<1> HIDE DEF Fine
<1>3. 0 \in T
  <2>1. \A s \in SUBSET S : Cardinality(s) <= 0 => s = {}
      BY <1>2, FS_EmptySet
  <2>2. Fine({})
      BY <1>1 DEF Fine
  <2> QED BY <2>1, <2>2
<1>4. ASSUME NEW n \in Nat, n \in T
      PROVE  n + 1 \in T
  <2>0. \A s \in SUBSET S : Cardinality(s) <= n => Fine(s)
      BY <1>4
  <2> HIDE DEF T
  <2> SUFFICES ASSUME NEW s \in SUBSET S, Cardinality(s) = n + 1
               PROVE  Fine(s)
    <3>1. \A s \in SUBSET S : Cardinality(s) <= n + 1 =>
             Cardinality(s) <= n \/ Cardinality(s) = n + 1
        BY <1>2
    <3> QED BY <2>0, <3>1 DEF T
  <2> DEFINE c == Chosen(s)
  <2>1. s # {} /\ c \in s /\ Cardinality(s \ {c}) = n
    <3>1. s # {}
        BY FS_EmptySet
    <3> QED BY <1>2, <3>1, ChosenRemoved
  <2>2. h[s] = w[c] + h[s \ {c}]
      BY <1>1, <2>1
  <2>3. s \ {c} \in SUBSET S /\ Fine(s \ {c})
      BY <2>0, <2>1
  <2>4. w[c] \in Nat /\ h[s \ {c}] \in Nat
      BY <2>1, <2>3 DEF Fine
  <2>5. ASSUME NEW x \in s, x # c
        PROVE  h[s] = w[x] + h[s \ {x}]
    <3> DEFINE r == (s \ {c}) \ {x}
    <3>1. h[s \ {c}] = w[x] + h[r]
        BY <2>3, <2>5 DEF Fine
    <3>2. s \ {x} \in SUBSET S /\ Cardinality(s \ {x}) = n
      <4>1. IsFiniteSet(s) /\ x \in s
          BY <1>2
      <4>2. Cardinality(s \ {x}) = Cardinality(s) - 1
          BY <4>1, FS_RemoveElement
      <4> QED BY <4>2
    <3>3. h[s \ {x}] = w[c] + h[(s \ {x}) \ {c}]
        BY <2>0, <2>1, <2>5, <3>2 DEF Fine
    <3>4. (s \ {x}) \ {c} = r
        OBVIOUS
    <3>5. h[r] \in Nat /\ w[x] \in Nat
      <4>1. r \in SUBSET S /\ Cardinality(r) <= n
        <5>1. IsFiniteSet(s \ {c}) /\ x \in s \ {c}
            BY <1>2, <2>3, <2>5
        <5>2. Cardinality(r) = Cardinality(s \ {c}) - 1
            BY <5>1, FS_RemoveElement
        <5> QED BY <2>1, <5>2
      <4> QED BY <2>0, <4>1 DEF Fine
    <3> DEFINE a == h[s \ {c}]
               b == h[s \ {x}]
               d == h[r]
    <3>6. h[s] = w[c] + a /\ a = w[x] + d /\ b = w[c] + d
        BY <2>2, <3>1, <3>3, <3>4
    <3>7. w[c] \in Nat /\ d \in Nat /\ w[x] \in Nat
        BY <2>4, <3>5
    <3> HIDE DEF a, b, d, c
    <3>8. h[s] = w[x] + b
        BY <3>6, <3>7
    <3> QED BY <3>8 DEF b
  <2>6. \A x \in s : h[s] = w[x] + h[s \ {x}]
      BY <2>2, <2>5
  <2>7. h[s] \in Nat
      BY <2>2, <2>4
  <2> QED BY <2>6, <2>7 DEF Fine
<1>5. \A n \in Nat : n \in T
  <2> HIDE DEF T
  <2> QED BY <1>3, <1>4, SetInduction
<1>6. \A s \in SUBSET S : Fine(s)
    BY <1>2, <1>5
<1> QED BY <1>1, <1>6 DEF Fine

-----------------------------------------------------------------------------
(* Start-up fails only for want of space. *)

\* The sizes of an adapter's allocations that are still to be made: at most six.
SizesIn(s) == [k \in 1 .. 6 |-> IF k \in DOMAIN s THEN s[k].size ELSE 0]
Six(f) == f[1] + f[2] + f[3] + f[4] + f[5] + f[6]
SizesLeft(s) == Six(SizesIn(s))

\* The adapters of the layers that have not begun.
PendingSize == Sums(Sizes, Layers \X Adapters)[pending]

\* What is taken from both ends, what the running task still takes and what the
\* others will take add up to the demand.
DemandAccounted ==
    /\ Len(work) <= 6
    /\ sync_offset + (WeightSpace - local_offset) + SizesLeft(work) + PendingSize
          = Demand

\* No adapters, or no layers, share the end of the arena that is synchronised.
OneAdapter == \A a, b \in config.trainable : a = b
OneLayer == \A l, m \in Layers : l = m

\* What is asserted of the range of an adapter holds whenever a task extends it:
\* if one adapter is trained, because no other comes between; if there is one
\* layer, because the task that began the range is the only one to extend it.
RangesExtend ==
    /\ \A j, k \in DOMAIN work : work[j].adapter = work[k].adapter
    /\ \A k \in DOMAIN work : work[k].sync => work[k].adapter \in config.trainable
    /\ DOMAIN sync_weights \subseteq config.trainable
    /\ OneAdapter => \A a \in DOMAIN sync_weights : Consecutive(a)
    /\ OneLayer =>
          /\ \A p \in pending : p[2] \notin DOMAIN sync_weights
          /\ \A p \in pending, k \in DOMAIN work : work[k].adapter # p[2]
          /\ \A k \in DOMAIN work : Consecutive(work[k].adapter)

SpaceInvariant == DemandAccounted /\ RangesExtend

\* The sizes of the adapters are naturals, and there are finitely many.
LEMMA SizesType ==
    ASSUME MemoryTypeOK
    PROVE  /\ \A a \in Adapters : /\ config.w0_size[a] \in Nat \ {0}
                                  /\ config.w1_size[a] \in Nat \ {0}
                                  /\ AdapterSize(a) \in Nat
           /\ Sizes \in [Layers \X Adapters -> Nat]
           /\ IsFiniteSet(Layers \X Adapters)
           /\ pending \in SUBSET (Layers \X Adapters)
<1>1. \A a \in Adapters : config.w0_size[a] \in Nat \ {0} /\ config.w1_size[a] \in Nat \ {0}
    BY MemoryAssumption DEF MemoryAssumption, MemoryTypeOK
<1>2. \A a \in Adapters : AdapterSize(a) \in Nat
    BY <1>1 DEF AdapterSize
<1>3. Sizes \in [Layers \X Adapters -> Nat]
    BY <1>2 DEF Sizes
<1>4. IsFiniteSet(Layers \X Adapters)
    BY MemoryAssumption, FS_Product DEF MemoryAssumption
<1> QED BY <1>1, <1>2, <1>3, <1>4 DEF MemoryTypeOK

\* The demand is the sum of all sizes; an adapter that begins is taken from what
\* is pending.
LEMMA PendingFacts ==
    ASSUME MemoryTypeOK
    PROVE  /\ PendingSize \in Nat /\ Demand \in Nat
           /\ Demand = Sums(Sizes, Layers \X Adapters)[Layers \X Adapters]
           /\ \A p \in pending :
                 PendingSize = AdapterSize(p[2])
                                  + Sums(Sizes, Layers \X Adapters)[pending \ {p}]
           /\ \A p \in pending :
                 Sums(Sizes, Layers \X Adapters)[pending \ {p}] \in Nat
<1> DEFINE S == Layers \X Adapters
<1>1. /\ Sizes \in [S -> Nat] /\ IsFiniteSet(S) /\ pending \in SUBSET S
      /\ S \in SUBSET S
    BY SizesType
<1>2. DOMAIN Sizes = S
    BY DEF Sizes
<1> HIDE DEF S
<1>3. /\ \A s \in SUBSET S : Sums(Sizes, S)[s] \in Nat
      /\ \A s \in SUBSET S : \A x \in s :
            Sums(Sizes, S)[s] = Sizes[x] + Sums(Sizes, S)[s \ {x}]
    BY <1>1, SumFacts
<1>4. Demand = Sums(Sizes, S)[S]
    BY <1>2, SumIsLast DEF Demand, SumFunction
<1>5. \A p \in S : Sizes[p] = AdapterSize(p[2])
    BY DEF Sizes, S
<1>6. \A p \in pending : pending \ {p} \in SUBSET S /\ p \in S
    BY <1>1
<1>7. ASSUME NEW p \in pending
      PROVE  /\ Sums(Sizes, S)[pending] = AdapterSize(p[2]) + Sums(Sizes, S)[pending \ {p}]
             /\ Sums(Sizes, S)[pending \ {p}] \in Nat
    BY <1>1, <1>3, <1>5, <1>6
<1> QED BY <1>1, <1>3, <1>4, <1>7 DEF PendingSize, S

\* Two more allocations.
LEMMA TwoMore ==
    ASSUME NEW S, NEW s \in Seq(S), NEW e \in S, NEW f \in S
    PROVE  /\ s \o << e, f >> \in Seq(S) /\ Len(s \o << e, f >>) = Len(s) + 2
           /\ \A k \in 1 .. Len(s) : (s \o << e, f >>)[k] = s[k]
           /\ (s \o << e, f >>)[Len(s) + 1] = e
           /\ (s \o << e, f >>)[Len(s) + 2] = f
           /\ s \o <<>> = s
OBVIOUS

\* The numbers of g are those of f with u and v behind the first n of six.
TwoBehind(f, g, n, u, v) ==
    /\ f \in [1 .. 6 -> Nat] /\ g \in [1 .. 6 -> Nat]
    /\ n \in Nat /\ n <= 4 /\ u \in Nat /\ v \in Nat
    /\ \A k \in 1 .. 6 : k <= n => g[k] = f[k]
    /\ \A k \in 1 .. 6 : k > n => f[k] = 0
    /\ \A k \in 1 .. 6 : k > n + 2 => g[k] = 0
    /\ g[n + 1] = u /\ g[n + 2] = v

LEMMA SixTwoMore ==
    ASSUME NEW f, NEW g, NEW n, NEW u, NEW v, TwoBehind(f, g, n, u, v)
    PROVE  Six(g) = Six(f) + u + v
<1>1. /\ n \in Nat /\ n <= 4 /\ u \in Nat /\ v \in Nat
      /\ \A k \in 1 .. 6 : f[k] \in Nat /\ g[k] \in Nat
    BY DEF TwoBehind
<1>2. CASE n = 0
    BY <1>1, <1>2 DEF Six, TwoBehind
<1>3. CASE n = 1
    BY <1>1, <1>3 DEF Six, TwoBehind
<1>4. CASE n = 2
    BY <1>1, <1>4 DEF Six, TwoBehind
<1>5. CASE n = 3
    BY <1>1, <1>5 DEF Six, TwoBehind
<1>6. CASE n = 4
    BY <1>1, <1>6 DEF Six, TwoBehind
<1> QED BY <1>1, <1>2, <1>3, <1>4, <1>5, <1>6

\* The numbers moved up by one place.
LEMMA SixTail ==
    ASSUME NEW f \in [1 .. 6 -> Nat], NEW g \in [1 .. 6 -> Nat],
           \A k \in 1 .. 5 : g[k] = f[k + 1], g[6] = 0
    PROVE  Six(f) = f[1] + Six(g) /\ Six(g) \in Nat
BY DEF Six

\* The sizes are naturals.
LEMMA SizesInType ==
    ASSUME NEW s \in Seq(Request)
    PROVE  SizesIn(s) \in [1 .. 6 -> Nat]
<1>1. \A k \in DOMAIN s : s[k] \in Request
    OBVIOUS
<1>2. \A r \in Request : r.size \in Nat
    BY DEF Request
<1>3. \A k \in DOMAIN s : s[k].size \in Nat
    BY <1>1, <1>2
<1> QED BY <1>3 DEF SizesIn

\* Two more allocations add their sizes to what is left.
LEMMA SizesOfTwoMore ==
    ASSUME NEW s \in Seq(Request), NEW e \in Request, NEW f \in Request, Len(s) <= 4
    PROVE  SizesLeft(s \o << e, f >>) = SizesLeft(s) + e.size + f.size
<1> DEFINE t == s \o << e, f >>
           n == Len(s)
<1>1. /\ n \in Nat /\ n <= 4 /\ DOMAIN s = 1 .. n
    OBVIOUS
<1>2. /\ t \in Seq(Request) /\ Len(t) = n + 2 /\ DOMAIN t = 1 .. n + 2
      /\ t[n + 1] = e /\ t[n + 2] = f /\ \A k \in 1 .. n : t[k] = s[k]
  <2>1. t \in Seq(Request) /\ Len(t) = n + 2
      BY TwoMore
  <2> QED BY <2>1, TwoMore
<1>3. e.size \in Nat /\ f.size \in Nat
    BY DEF Request
<1>4. SizesIn(s) \in [1 .. 6 -> Nat] /\ SizesIn(t) \in [1 .. 6 -> Nat]
    BY <1>2, SizesInType
<1> HIDE DEF t, n
<1>5. TwoBehind(SizesIn(s), SizesIn(t), n, e.size, f.size)
  <2>1. \A k \in 1 .. 6 : k <= n => SizesIn(t)[k] = SizesIn(s)[k]
      BY <1>1, <1>2 DEF SizesIn
  <2>2. \A k \in 1 .. 6 : k > n => SizesIn(s)[k] = 0
      BY <1>1 DEF SizesIn
  <2>3. \A k \in 1 .. 6 : k > n + 2 => SizesIn(t)[k] = 0
      BY <1>1, <1>2 DEF SizesIn
  <2>4. SizesIn(t)[n + 1] = e.size /\ SizesIn(t)[n + 2] = f.size
      BY <1>1, <1>2 DEF SizesIn
  <2> QED BY <1>1, <1>3, <1>4, <2>1, <2>2, <2>3, <2>4 DEF TwoBehind
<1>6. Six(SizesIn(t)) = Six(SizesIn(s)) + e.size + f.size
    BY <1>5, SixTwoMore
<1>7. SizesLeft(t) = SizesLeft(s) + e.size + f.size
    BY <1>6 DEF SizesLeft
<1> QED BY <1>7 DEF t, n

\* An init task makes six allocations at most, all for its adapter, of the
\* adapter's size altogether; those of an adapter that is not trained are local.
LEMMA AllocationsSize ==
    ASSUME MemoryTypeOK, NEW l \in Layers, NEW a \in Adapters
    PROVE  /\ Len(Allocations(l, a)) <= 6
           /\ SizesLeft(Allocations(l, a)) = AdapterSize(a)
           /\ \A k \in DOMAIN Allocations(l, a) :
                 /\ Allocations(l, a)[k].adapter = a
                 /\ Allocations(l, a)[k].sync => a \in config.trainable
<1> DEFINE Alloc(part, sync, size) ==
              [layer |-> l, adapter |-> a, part |-> part, sync |-> sync,
               size |-> size]
           replicated == l \in config.replicated
           Own == {r \in Request : r.adapter = a /\ (r.sync => a \in config.trainable)}
           v == config.w0_size[a]
           w == config.w1_size[a]
           e1 == Alloc("w0", FALSE, v)
           e2 == Alloc("w1", FALSE, w)
           e3 == Alloc("w0_grad", replicated, v)
           e4 == Alloc("w1_grad", ~replicated, w)
           e5 == Alloc("w0_v_values", replicated, v)
           e6 == Alloc("w1_v_values", ~replicated, w)
           trained == a \in config.trainable
           momentum == a \in config.momentum
<1>1. v \in Nat \ {0} /\ w \in Nat \ {0}
    BY SizesType
<1>2. /\ e1.size = v /\ e2.size = w /\ e3.size = v /\ e4.size = w /\ e5.size = v
      /\ e6.size = w
    OBVIOUS
<1>3. /\ e1 \in Own /\ e2 \in Own
      /\ trained => e3 \in Own /\ e4 \in Own /\ e5 \in Own /\ e6 \in Own
    BY <1>1 DEF Request, Parts
<1>4. Allocations(l, a) =
         << e1, e2 >>
           \o (IF trained THEN << e3, e4 >> ELSE <<>>)
           \o (IF trained /\ momentum THEN << e5, e6 >> ELSE <<>>)
    BY DEF Allocations
<1>5. AdapterSize(a) = (v + w) + (IF trained THEN v + w ELSE 0)
                         + (IF trained /\ momentum THEN v + w ELSE 0)
    BY DEF AdapterSize
<1>6. Own \subseteq Request
    OBVIOUS
<1>7. \A s \in Seq(Own) : s \o <<>> = s
    OBVIOUS
<1>0. 2 <= 4 /\ 4 <= 4 /\ 2 <= 6 /\ 4 <= 6 /\ 6 <= 6 /\ 2 + 2 = 4 /\ 4 + 2 = 6
    OBVIOUS
<1> DEFINE s2 == << e1, e2 >>
           s4 == s2 \o << e3, e4 >>
           s6 == s4 \o << e5, e6 >>
<1> HIDE DEF e1, e2, e3, e4, e5, e6, v, w, trained, momentum, Own
<1>13. \A s \in Seq(Own), e \in Own, f \in Own : Len(s) <= 4 =>
          /\ s \o << e, f >> \in Seq(Own) /\ Len(s \o << e, f >>) = Len(s) + 2
          /\ SizesLeft(s \o << e, f >>) = SizesLeft(s) + e.size + f.size
  <2>1. \A s \in Seq(Own), e \in Own, f \in Own :
           s \o << e, f >> \in Seq(Own) /\ Len(s \o << e, f >>) = Len(s) + 2
    <3> SUFFICES ASSUME NEW s \in Seq(Own), NEW e \in Own, NEW f \in Own
                 PROVE  s \o << e, f >> \in Seq(Own) /\ Len(s \o << e, f >>) = Len(s) + 2
        OBVIOUS
    <3> QED BY TwoMore
  <2>2. \A s \in Seq(Own) : s \in Seq(Request)
      BY <1>6
  <2>3. \A s \in Seq(Request), e \in Request, f \in Request : Len(s) <= 4 =>
           SizesLeft(s \o << e, f >>) = SizesLeft(s) + e.size + f.size
      BY SizesOfTwoMore, Zenon
  <2> QED BY <1>6, <2>1, <2>2, <2>3, Zenon
<1>8. s2 \in Seq(Own) /\ Len(s2) = 2 /\ SizesLeft(s2) = v + w
  <2>1. s2 \in Seq(Own) /\ Len(s2) = 2 /\ s2[1] = e1 /\ s2[2] = e2
      BY <1>3
  <2>2. DOMAIN s2 = 1 .. 2
      BY <2>1
  <2> HIDE DEF s2
  <2>3. SizesIn(s2)[1] = v /\ SizesIn(s2)[2] = w
      BY <1>2, <2>1, <2>2 DEF SizesIn
  <2>4. SizesIn(s2)[3] = 0 /\ SizesIn(s2)[4] = 0 /\ SizesIn(s2)[5] = 0 /\ SizesIn(s2)[6] = 0
      BY <2>2 DEF SizesIn
  <2> QED BY <1>1, <2>1, <2>3, <2>4 DEF SizesLeft, Six
<1> HIDE DEF s2
<1>9. trained => s4 \in Seq(Own) /\ Len(s4) = 4 /\ SizesLeft(s4) = v + w + v + w
  <2> SUFFICES ASSUME trained
               PROVE  s4 \in Seq(Own) /\ Len(s4) = 4 /\ SizesLeft(s4) = v + w + v + w
      OBVIOUS
  <2>1. e3 \in Own /\ e4 \in Own /\ Len(s2) <= 4
      BY <1>0, <1>3, <1>8, Zenon
  <2>2. s4 \in Seq(Own) /\ Len(s4) = Len(s2) + 2 /\ SizesLeft(s4) = SizesLeft(s2) + e3.size + e4.size
    <3>1. s2 \in Seq(Own)
        BY <1>8
    <3> QED BY <1>13, <2>1, <3>1, Zenon
  <2> HIDE DEF s4
  <2>3. Len(s4) = 4
      BY <1>0, <1>8, <2>2, Zenon
  <2>4. SizesLeft(s4) = v + w + v + w
      BY <1>1, <1>2, <1>8, <2>2
  <2> QED BY <2>2, <2>3, <2>4
<1> HIDE DEF s4
<1>10. trained => /\ s6 \in Seq(Own) /\ Len(s6) = 6
                  /\ SizesLeft(s6) = v + w + v + w + v + w
  <2> SUFFICES ASSUME trained
               PROVE  /\ s6 \in Seq(Own) /\ Len(s6) = 6
                      /\ SizesLeft(s6) = v + w + v + w + v + w
      OBVIOUS
  <2>1. e5 \in Own /\ e6 \in Own /\ Len(s4) <= 4 /\ s4 \in Seq(Own)
      BY <1>0, <1>3, <1>9, Zenon
  <2>2. s6 \in Seq(Own) /\ Len(s6) = Len(s4) + 2 /\ SizesLeft(s6) = SizesLeft(s4) + e5.size + e6.size
      BY <1>13, <2>1, Zenon
  <2> HIDE DEF s6
  <2>3. Len(s6) = 6
      BY <1>0, <1>9, <2>2, Zenon
  <2>4. SizesLeft(s6) = v + w + v + w + v + w
    <3>1. SizesLeft(s4) = v + w + v + w
        BY <1>9
    <3>2. SizesLeft(s6) = SizesLeft(s4) + e5.size + e6.size
        BY <2>2
    <3> QED BY <1>1, <1>2, <3>1, <3>2
  <2> QED BY <2>2, <2>3, <2>4
<1> HIDE DEF s6
<1>11. \E s \in Seq(Own) : /\ s = Allocations(l, a) /\ Len(s) <= 6
                           /\ SizesLeft(s) = AdapterSize(a)
  <2>1. CASE ~trained
    <3>1. Allocations(l, a) = (s2 \o <<>>) \o <<>>
        BY <1>4, <2>1, Zenon DEF s2
    <3>2. Allocations(l, a) = s2
        BY <1>7, <1>8, <3>1, Zenon
    <3>3. AdapterSize(a) = v + w
        BY <1>1, <1>5, <2>1
    <3> QED BY <1>0, <1>8, <3>2, <3>3, Zenon
  <2>2. CASE trained /\ ~momentum
    <3>1. Allocations(l, a) = s4 \o <<>>
        BY <1>4, <2>2, Zenon DEF s4, s2
    <3>2. Allocations(l, a) = s4
        BY <1>7, <1>9, <2>2, <3>1, Zenon
    <3>3. AdapterSize(a) = v + w + v + w
        BY <1>1, <1>5, <2>2
    <3> QED BY <1>0, <1>9, <2>2, <3>2, <3>3, Zenon
  <2>3. CASE trained /\ momentum
    <3>1. Allocations(l, a) = s6
        BY <1>4, <2>3, Zenon DEF s6, s4, s2
    <3>2. AdapterSize(a) = v + w + v + w + v + w
        BY <1>1, <1>5, <2>3
    <3> QED BY <1>0, <1>10, <2>3, <3>1, <3>2, Zenon
  <2> QED BY <2>1, <2>2, <2>3
<1>12. PICK s \in Seq(Own) : /\ s = Allocations(l, a) /\ Len(s) <= 6
                             /\ SizesLeft(s) = AdapterSize(a)
    BY <1>11
<1>14. \A k \in DOMAIN s : s[k] \in Own
    OBVIOUS
<1> QED BY <1>12, <1>14, Zenon DEF Own, trained

\* An allocation that is made is no longer to be made.
LEMMA TailSize ==
    ASSUME NEW s \in Seq(Request), s # <<>>, Len(s) <= 6
    PROVE  /\ Len(Tail(s)) <= 6 /\ Head(s) = s[1] /\ 1 \in DOMAIN s
           /\ SizesLeft(s) = Head(s).size + SizesLeft(Tail(s))
           /\ SizesLeft(Tail(s)) \in Nat
           /\ \A k \in DOMAIN Tail(s) : k + 1 \in DOMAIN s /\ Tail(s)[k] = s[k + 1]
<1> DEFINE t == Tail(s)
           n == Len(t)
<1>1. /\ n \in Nat /\ n <= 5 /\ DOMAIN s = 1 .. n + 1 /\ DOMAIN t = 1 .. n
      /\ t \in Seq(Request) /\ Head(s) = s[1] /\ Len(t) <= 6
      /\ \A k \in 1 .. n : t[k] = s[k + 1]
    OBVIOUS
<1>2. SizesIn(s) \in [1 .. 6 -> Nat] /\ SizesIn(t) \in [1 .. 6 -> Nat]
    BY <1>1, SizesInType
<1> HIDE DEF t, n
<1>3. \A k \in 1 .. 5 : SizesIn(t)[k] = SizesIn(s)[k + 1]
    BY <1>1 DEF SizesIn
<1>4. SizesIn(t)[6] = 0 /\ SizesIn(s)[1] = Head(s).size
    BY <1>1 DEF SizesIn
<1>5. SizesLeft(s) = Head(s).size + SizesLeft(t) /\ SizesLeft(t) \in Nat
    BY <1>2, <1>3, <1>4, SixTail DEF SizesLeft
<1> QED BY <1>1, <1>5 DEF t

\* A step that leaves the device as it is leaves the demand.
LEMMA DemandUnchanged ==
    ASSUME config' = config
    PROVE  /\ Sizes' = Sizes /\ Demand' = Demand /\ WeightSpace' = WeightSpace
           /\ OneAdapter' = OneAdapter /\ OneLayer' = OneLayer
<1>1. \A a : AdapterSize(a)' = AdapterSize(a)
    BY DEF AdapterSize
<1>2. Sizes' = Sizes
    BY <1>1 DEF Sizes
<1> QED BY <1>2 DEF Demand, WeightSpace, OneAdapter, OneLayer

LEMMA SpaceUnchanged ==
    ASSUME SpaceInvariant, UNCHANGED << config, weightVars >>
    PROVE  SpaceInvariant'
<1>1. UNCHANGED << pending, work, sync_offset, local_offset, sync_weights >>
    BY DEF weightVars
<1>2. PendingSize' = PendingSize
    BY <1>1, DemandUnchanged DEF PendingSize
<1>3. DemandAccounted'
    BY <1>1, <1>2, DemandUnchanged DEF SpaceInvariant, DemandAccounted
<1>4. RangesExtend'
    BY <1>1, DemandUnchanged DEF SpaceInvariant, RangesExtend, Consecutive
<1> QED BY <1>3, <1>4 DEF SpaceInvariant

\* At the start all of the demand is pending.
LEMMA InitSpace == Init => SpaceInvariant
<1> SUFFICES ASSUME Init PROVE SpaceInvariant
    OBVIOUS
<1>1. MemoryTypeOK /\ WeightSpace \in Nat
    BY InitMemoryInvariant, WeightSpaceNat DEF MemoryInvariant
<1>2. DemandAccounted
  <2>1. Demand \in Nat /\ PendingSize = Demand
      BY <1>1, PendingFacts DEF PendingSize, Init
  <2>2. SizesLeft(work) = 0
      BY DEF SizesLeft, SizesIn, Six, Init
  <2>3. Len(work) = 0 /\ sync_offset = 0 /\ local_offset = WeightSpace
      BY DEF Init
  <2>4. Len(work) <= 6
      BY DEF Init
  <2> QED BY <1>1, <2>1, <2>2, <2>3, <2>4 DEF DemandAccounted
<1>3. RangesExtend
  <2>1. DOMAIN work = {} /\ DOMAIN sync_weights = {}
      BY DEF Init
  <2> QED BY <2>1 DEF RangesExtend
<1> QED BY <1>2, <1>3 DEF SpaceInvariant

\* A task that begins an adapter has left to do what was pending of it.
LEMMA BeginAdapterSpace ==
    ASSUME MemoryInvariant, SpaceInvariant, NEW l \in Layers, NEW a \in Adapters,
           BeginAdapter(l, a)
    PROVE  SpaceInvariant'
<1> DEFINE p == << l, a >>
<1>1. /\ MemoryTypeOK /\ WeightSpace \in Nat /\ sync_offset \in Nat
      /\ local_offset \in Nat
    BY WeightSpaceNat DEF MemoryInvariant, MemoryTypeOK
<1>2. /\ work = <<>> /\ p \in pending /\ pending' = pending \ {p}
      /\ work' = Allocations(l, a)
      /\ UNCHANGED << config, sync_offset, local_offset, sync_weights >>
    BY DEF BeginAdapter
<1>3. p \in Layers \X Adapters /\ p[1] = l /\ p[2] = a
    OBVIOUS
<1> HIDE DEF p
<1>4. DemandAccounted'
  <2>1. SizesLeft(work) = 0
      BY <1>2 DEF SizesLeft, SizesIn, Six
  <2>2. PendingSize = AdapterSize(a) + PendingSize' /\ PendingSize' \in Nat
    <3>1. PendingSize' = Sums(Sizes, Layers \X Adapters)[pending \ {p}]
        BY <1>2, DemandUnchanged DEF PendingSize
    <3> QED BY <1>1, <1>2, <1>3, <3>1, PendingFacts
  <2>3. AdapterSize(a) \in Nat
      BY <1>1, SizesType
  <2>4. SizesLeft(work') = AdapterSize(a) /\ Len(work') <= 6
      BY <1>1, <1>2, AllocationsSize
  <2>5. sync_offset + (WeightSpace - local_offset) + SizesLeft(work) + PendingSize = Demand
      BY DEF SpaceInvariant, DemandAccounted
  <2> DEFINE left == SizesLeft(work')
             rest == PendingSize'
             full == PendingSize
             before == SizesLeft(work)
  <2>6. sync_offset + (WeightSpace - local_offset) + left + rest = Demand
    <3> HIDE DEF left, rest, full, before
    <3>1. before = 0 /\ full = AdapterSize(a) + rest /\ rest \in Nat /\ left = AdapterSize(a)
          /\ sync_offset + (WeightSpace - local_offset) + before + full = Demand
        BY <2>1, <2>2, <2>4, <2>5 DEF left, rest, full, before
    <3> QED BY <1>1, <2>3, <3>1
  <2>7. WeightSpace' = WeightSpace /\ Demand' = Demand
      BY <1>2, DemandUnchanged
  <2> QED BY <1>2, <2>4, <2>6, <2>7 DEF DemandAccounted
<1>5. RangesExtend'
  <2>1. \A k \in DOMAIN work' :
           work'[k].adapter = a /\ (work'[k].sync => a \in config.trainable)
      BY <1>1, <1>2, AllocationsSize
  <2>2. \A q \in pending' : OneLayer => q[2] # a
    <3> SUFFICES ASSUME NEW q \in pending', OneLayer PROVE q[2] # a
        OBVIOUS
    <3>1. q \in Layers \X Adapters /\ q # p /\ q \in pending
        BY <1>1, <1>2 DEF MemoryTypeOK
    <3>2. q[1] = l
        BY <3>1 DEF OneLayer
    <3>3. q = << q[1], q[2] >>
        BY <3>1
    <3> QED BY <3>1, <3>2, <3>3 DEF p
  <2>3. OneAdapter' = OneAdapter /\ OneLayer' = OneLayer
      BY <1>2, DemandUnchanged
  <2>4. \A b : Consecutive(b)' = Consecutive(b)
      BY <1>2 DEF Consecutive
  <2>5. OneLayer => a \notin DOMAIN sync_weights
      BY <1>2, <1>3 DEF SpaceInvariant, RangesExtend
  <2>6. OneLayer => Consecutive(a)
      BY <2>5 DEF Consecutive
  <2>7. /\ \A j, k \in DOMAIN work' : work'[j].adapter = work'[k].adapter
        /\ \A k \in DOMAIN work' : work'[k].sync => work'[k].adapter \in config'.trainable
      BY <1>2, <2>1
  <2>8. /\ DOMAIN sync_weights' \subseteq config'.trainable
        /\ OneAdapter' => \A b \in DOMAIN sync_weights' : Consecutive(b)'
      BY <1>2, <2>3, <2>4 DEF SpaceInvariant, RangesExtend
  <2>9. OneLayer' => /\ \A q \in pending' : q[2] \notin DOMAIN sync_weights'
                     /\ \A q \in pending', k \in DOMAIN work' : work'[k].adapter # q[2]
    <3>1. OneLayer => \A q \in pending : q[2] \notin DOMAIN sync_weights
        BY DEF SpaceInvariant, RangesExtend
    <3>2. \A q \in pending' : q \in pending
        BY <1>2
    <3> QED BY <1>2, <2>1, <2>2, <2>3, <3>1, <3>2
  <2>10. OneLayer' => \A k \in DOMAIN work' : Consecutive(work[k].adapter)'
    <3> SUFFICES ASSUME OneLayer', NEW k \in DOMAIN work'
                 PROVE  Consecutive(work[k].adapter)'
        OBVIOUS
    <3>1. work'[k].adapter = a
        BY <2>1
    <3>2. Consecutive(a)'
        BY <2>3, <2>4, <2>6
    <3> QED BY <3>1, <3>2 DEF Consecutive
  <2> QED BY <2>7, <2>8, <2>9, <2>10 DEF RangesExtend
<1> QED BY <1>4, <1>5 DEF SpaceInvariant

\* The first of the allocations that are left.
LEMMA FirstLeft ==
    ASSUME MemoryInvariant, SpaceInvariant, work # <<>>
    PROVE  /\ Len(Tail(work)) <= 6 /\ 1 \in DOMAIN work /\ Head(work) = work[1]
           /\ SizesLeft(work) = Head(work).size + SizesLeft(Tail(work))
           /\ SizesLeft(Tail(work)) \in Nat
           /\ \A k \in DOMAIN Tail(work) :
                 k + 1 \in DOMAIN work /\ Tail(work)[k] = work[k + 1]
           /\ \A k \in DOMAIN work : work[k].adapter = Head(work).adapter
           /\ \A k \in DOMAIN Tail(work) : Tail(work)[k].adapter = Head(work).adapter
           /\ Head(work).sync => Head(work).adapter \in config.trainable
<1>1. work \in Seq(Request) /\ Len(work) <= 6
    BY DEF MemoryInvariant, MemoryTypeOK, SpaceInvariant, DemandAccounted
<1>2. /\ Len(Tail(work)) <= 6 /\ 1 \in DOMAIN work /\ Head(work) = work[1]
      /\ SizesLeft(work) = Head(work).size + SizesLeft(Tail(work))
      /\ SizesLeft(Tail(work)) \in Nat
      /\ \A k \in DOMAIN Tail(work) :
            k + 1 \in DOMAIN work /\ Tail(work)[k] = work[k + 1]
    BY <1>1, TailSize
<1>3. /\ \A k \in DOMAIN work : work[k].adapter = work[1].adapter
      /\ work[1].sync => work[1].adapter \in config.trainable
    BY <1>2 DEF SpaceInvariant, RangesExtend
<1> HIDE DEF SpaceInvariant
<1> QED BY <1>2, <1>3, Zenon

\* An allocation takes its size from one of the ends.
LEMMA AllocationAccounted ==
    ASSUME MemoryInvariant, SpaceInvariant, work # <<>>, work' = Tail(work),
           UNCHANGED << config, pending >>,
           \/ local_offset' = local_offset - Head(work).size /\ sync_offset' = sync_offset
           \/ sync_offset' = sync_offset + Head(work).size /\ local_offset' = local_offset
    PROVE  DemandAccounted'
<1> DEFINE size == Head(work).size
           left == SizesLeft(Tail(work))
           full == SizesLeft(work)
<1>1. /\ WeightSpace \in Nat /\ sync_offset \in Nat /\ local_offset \in Nat
      /\ size \in Nat /\ PendingSize \in Nat
    BY WeightSpaceNat, HeadType, PendingFacts DEF MemoryInvariant, MemoryTypeOK
<1>2. full = size + left /\ left \in Nat /\ Len(work') <= 6
    BY FirstLeft
<1>3. sync_offset + (WeightSpace - local_offset) + full + PendingSize = Demand
    BY DEF SpaceInvariant, DemandAccounted
<1>4. PendingSize' = PendingSize /\ WeightSpace' = WeightSpace /\ Demand' = Demand
    BY DemandUnchanged DEF PendingSize
<1>5. \/ local_offset' = local_offset - size /\ sync_offset' = sync_offset
      \/ sync_offset' = sync_offset + size /\ local_offset' = local_offset
    OBVIOUS
<1>6. sync_offset' + (WeightSpace - local_offset') + left + PendingSize = Demand
  <2> HIDE DEF size, left, full
  <2>1. CASE local_offset' = local_offset - size /\ sync_offset' = sync_offset
      BY <1>1, <1>2, <1>3, <2>1
  <2>2. CASE sync_offset' = sync_offset + size /\ local_offset' = local_offset
      BY <1>1, <1>2, <1>3, <2>2
  <2> QED BY <1>5, <2>1, <2>2
<1>7. left = SizesLeft(work')
    OBVIOUS
<1> HIDE DEF left
<1> QED BY <1>2, <1>4, <1>6, <1>7 DEF DemandAccounted

LEMMA AllocateLocalSpace ==
    ASSUME MemoryInvariant, SpaceInvariant, AllocateLocal
    PROVE  SpaceInvariant'
<1>1. /\ work # <<>> /\ work' = Tail(work)
      /\ UNCHANGED << config, pending, sync_offset, sync_weights >>
      /\ local_offset' = local_offset - Head(work).size
    BY DEF AllocateLocal
<1>2. DemandAccounted'
    BY <1>1, AllocationAccounted
<1>3. \A k \in DOMAIN work' : k + 1 \in DOMAIN work /\ work'[k] = work[k + 1]
    BY <1>1, FirstLeft
<1>4. RangesExtend'
  <2>1. OneAdapter' = OneAdapter /\ OneLayer' = OneLayer
      BY <1>1, DemandUnchanged
  <2>2. \A b : Consecutive(b)' = Consecutive(b)
      BY <1>1 DEF Consecutive
  <2>3. /\ \A j, k \in DOMAIN work' : work'[j].adapter = work'[k].adapter
        /\ \A k \in DOMAIN work' : work'[k].sync => work'[k].adapter \in config'.trainable
      BY <1>1, <1>3 DEF SpaceInvariant, RangesExtend
  <2>4. /\ DOMAIN sync_weights' \subseteq config'.trainable
        /\ OneAdapter' => \A b \in DOMAIN sync_weights' : Consecutive(b)'
      BY <1>1, <2>1, <2>2 DEF SpaceInvariant, RangesExtend
  <2>5. OneLayer' => /\ \A q \in pending' : q[2] \notin DOMAIN sync_weights'
                     /\ \A q \in pending', k \in DOMAIN work' : work'[k].adapter # q[2]
      BY <1>1, <1>3, <2>1 DEF SpaceInvariant, RangesExtend
  <2>6. OneLayer' => \A k \in DOMAIN work' : Consecutive(work[k].adapter)'
    <3> SUFFICES ASSUME OneLayer', NEW k \in DOMAIN work'
                 PROVE  Consecutive(work[k].adapter)'
        OBVIOUS
    <3>1. Consecutive(work[k + 1].adapter)
        BY <1>3, <2>1 DEF SpaceInvariant, RangesExtend
    <3> QED BY <1>1, <1>3, <3>1 DEF Consecutive
  <2> QED BY <2>3, <2>4, <2>5, <2>6 DEF RangesExtend
<1> QED BY <1>2, <1>4 DEF SpaceInvariant

\* The range of the adapter now ends where the next block begins.
LEMMA AllocateSyncSpace ==
    ASSUME MemoryInvariant, SpaceInvariant, AllocateSync
    PROVE  SpaceInvariant'
<1> PICK a : a = Head(work).adapter
    OBVIOUS
<1>1. /\ work # <<>> /\ work' = Tail(work) /\ Head(work).sync
      /\ UNCHANGED << config, pending, local_offset >>
      /\ sync_offset' = sync_offset + Head(work).size
    BY DEF AllocateSync
<1>2. DemandAccounted'
    BY <1>1, AllocationAccounted
<1>3. /\ \A k \in DOMAIN work' : /\ k + 1 \in DOMAIN work /\ work'[k] = work[k + 1]
                                 /\ work'[k].adapter = a
      /\ a \in config.trainable /\ 1 \in DOMAIN work /\ work[1].adapter = a
    BY <1>1, FirstLeft
<1>4. /\ DOMAIN sync_weights' = DOMAIN sync_weights \cup {a}
      /\ sync_weights'[a] = SyncRange(Head(work))
    BY DEF AllocateSync
<1>5. Consecutive(a)'
  <2>1. SyncRange(Head(work)).offset + SyncRange(Head(work)).size = sync_offset'
    <3>1. Head(work).size \in Nat /\ sync_offset \in Nat
        BY <1>1, HeadType DEF MemoryInvariant, MemoryTypeOK
    <3>2. Consecutive(a)
        BY DEF AllocateSync
    <3>3. CASE a \in DOMAIN sync_weights
      <4>1. sync_offset = sync_weights[a].offset + sync_weights[a].size
          BY <3>2, <3>3 DEF Consecutive
      <4>2. sync_weights[a].offset \in Nat /\ sync_weights[a].size \in Nat
          BY <3>3 DEF MemoryInvariant, MemoryTypeOK, Place
      <4>3. SyncRange(Head(work)) = [offset |-> sync_weights[a].offset,
                                     size |-> sync_weights[a].size + Head(work).size]
          BY <3>3 DEF SyncRange
      <4>4. /\ SyncRange(Head(work)).offset = sync_weights[a].offset
            /\ SyncRange(Head(work)).size = sync_weights[a].size + Head(work).size
          BY <4>3
      <4> QED BY <1>1, <3>1, <4>1, <4>2, <4>4
    <3>4. CASE a \notin DOMAIN sync_weights
      <4>1. SyncRange(Head(work)) = [offset |-> sync_offset, size |-> Head(work).size]
          BY <3>4 DEF SyncRange
      <4>2. /\ SyncRange(Head(work)).offset = sync_offset
            /\ SyncRange(Head(work)).size = Head(work).size
          BY <4>1
      <4> QED BY <1>1, <4>2
    <3> QED BY <3>3, <3>4
  <2> QED BY <1>4, <2>1 DEF Consecutive
<1>6. RangesExtend'
  <2>1. OneAdapter' = OneAdapter /\ OneLayer' = OneLayer
      BY <1>1, DemandUnchanged
  <2>2. \A j, k \in DOMAIN work' : work'[j].adapter = work'[k].adapter
      BY <1>3
  <2>3. \A k \in DOMAIN work' : work'[k].sync => work'[k].adapter \in config'.trainable
      BY <1>1, <1>3
  <2>4. DOMAIN sync_weights' \subseteq config'.trainable
      BY <1>1, <1>3, <1>4 DEF SpaceInvariant, RangesExtend
  <2>5. OneAdapter' => \A b \in DOMAIN sync_weights' : Consecutive(b)'
    <3> SUFFICES ASSUME OneAdapter', NEW b \in DOMAIN sync_weights'
                 PROVE  Consecutive(b)'
        OBVIOUS
    <3>1. b = a
        BY <1>1, <1>3, <2>4 DEF OneAdapter
    <3> QED BY <1>5, <3>1 DEF Consecutive
  <2>6. OneLayer' => /\ \A q \in pending' : q[2] \notin DOMAIN sync_weights'
                     /\ \A q \in pending', k \in DOMAIN work' : work'[k].adapter # q[2]
    <3>1. OneLayer => \A q \in pending : q[2] \notin DOMAIN sync_weights /\ q[2] # a
        BY <1>3 DEF SpaceInvariant, RangesExtend
    <3> QED BY <1>1, <1>3, <1>4, <2>1, <3>1
  <2>7. OneLayer' => \A k \in DOMAIN work' : Consecutive(work[k].adapter)'
    <3> SUFFICES ASSUME NEW k \in DOMAIN work'
                 PROVE  Consecutive(work[k].adapter)'
        OBVIOUS
    <3>1. work'[k].adapter = a
        BY <1>3
    <3> QED BY <1>5, <3>1 DEF Consecutive
  <2> QED BY <2>2, <2>3, <2>4, <2>5, <2>6, <2>7 DEF RangesExtend
<1> QED BY <1>2, <1>6 DEF SpaceInvariant

\* More than one adapter that is trained, or more than one layer.
LEMMA OneOrShared ==
    ASSUME MemoryTypeOK
    PROVE  \/ OneAdapter \/ OneLayer
           \/ Cardinality(config.trainable) > 1 /\ Cardinality(Layers) > 1
<1>1. ASSUME NEW S, IsFiniteSet(S), NEW x \in S, NEW y \in S, x # y
      PROVE  Cardinality(S) > 1
  <2>1. IsFiniteSet(S \ {x}) /\ Cardinality(S \ {x}) = Cardinality(S) - 1
      BY <1>1, FS_RemoveElement
  <2>2. y \in S \ {x}
      BY <1>1
  <2>3. Cardinality(S \ {x}) \in Nat /\ Cardinality(S \ {x}) # 0
      BY <2>1, <2>2, FS_CardinalityType, FS_EmptySet
  <2>4. Cardinality(S) \in Nat
      BY <1>1, FS_CardinalityType
  <2> QED BY <2>1, <2>3, <2>4
<1>2. IsFiniteSet(Layers) /\ IsFiniteSet(config.trainable)
  <2>1. config.trainable \subseteq Adapters /\ IsFiniteSet(Adapters) /\ IsFiniteSet(Layers)
      BY MemoryAssumption DEF MemoryAssumption, MemoryTypeOK
  <2> QED BY <2>1, FS_Subset
<1>3. OneAdapter \/ Cardinality(config.trainable) > 1
    BY <1>1, <1>2 DEF OneAdapter
<1>4. OneLayer \/ Cardinality(Layers) > 1
    BY <1>1, <1>2 DEF OneLayer
<1> QED BY <1>3, <1>4

\* An assertion that fails although the range can be extended: the demand exceeds
\* the arena.
LEMMA AssertionFailsWhenFull ==
    ASSUME MemoryInvariant, SpaceInvariant, WeightAssertionFails
    PROVE  \/ Cardinality(config.trainable) > 1 /\ Cardinality(Layers) > 1
           \/ Demand >= WeightSpace
<1> DEFINE r == Head(work)
           left == SizesLeft(Tail(work))
           full == SizesLeft(work)
           pend == PendingSize
<1>1. /\ WeightSpace \in Nat /\ sync_offset \in Nat /\ local_offset \in Nat
      /\ r.size \in Nat /\ pend \in Nat /\ Demand \in Nat
    BY WeightSpaceNat, HeadType, PendingFacts
    DEF MemoryInvariant, MemoryTypeOK, WeightAssertionFails
<1>2. work # <<>> /\ IF r.sync THEN ~(Consecutive(r.adapter) /\ SyncFits(r)) ELSE ~LocalFits(r)
    BY DEF WeightAssertionFails
<1>3. full = r.size + left /\ left \in Nat /\ 1 \in DOMAIN work /\ r = work[1]
      /\ (r.sync => r.adapter \in config.trainable)
    BY <1>2, FirstLeft
<1>4. sync_offset + (WeightSpace - local_offset) + full + pend = Demand
    BY DEF SpaceInvariant, DemandAccounted
<1>5. r.sync /\ (OneAdapter \/ OneLayer) => Consecutive(r.adapter)
  <2>1. OneLayer => Consecutive(r.adapter)
      BY <1>3 DEF SpaceInvariant, RangesExtend
  <2>2. r.sync /\ OneAdapter => Consecutive(r.adapter)
    <3>1. r.adapter \in DOMAIN sync_weights /\ OneAdapter => Consecutive(r.adapter)
        BY DEF SpaceInvariant, RangesExtend
    <3>2. r.adapter \notin DOMAIN sync_weights => Consecutive(r.adapter)
        BY DEF Consecutive
    <3> QED BY <3>1, <3>2
  <2> QED BY <2>1, <2>2
<1>6. OneAdapter \/ OneLayer => Demand >= WeightSpace
  <2> SUFFICES ASSUME OneAdapter \/ OneLayer PROVE Demand >= WeightSpace
      OBVIOUS
  <2>1. ~SyncFits(r) \/ ~LocalFits(r)
      BY <1>2, <1>5
  <2>2. local_offset <= sync_offset + r.size
      BY <1>1, <2>1 DEF SyncFits, LocalFits
  <2> HIDE DEF r, left, full, pend
  <2> QED BY <1>1, <1>3, <1>4, <2>2
<1>7. MemoryTypeOK
    BY DEF MemoryInvariant
<1> QED BY <1>6, <1>7, OneOrShared

\* No weight is allocated once an assertion has failed, and what an activation
\* takes leaves the demand.
LEMMA NextSpace ==
    ASSUME MemoryInvariant, SpaceInvariant, AbortsOnlyWhenFullOrShared, [Next]_vars
    PROVE  SpaceInvariant' /\ AbortsOnlyWhenFullOrShared'
<1>1. ASSUME UNCHANGED << config, weightVars, aborted >>
      PROVE  SpaceInvariant' /\ AbortsOnlyWhenFullOrShared'
  <2>1. SpaceInvariant'
      BY <1>1, SpaceUnchanged
  <2>2. UNCHANGED << work, aborted >> /\ Demand' = Demand /\ WeightSpace' = WeightSpace
      BY <1>1, DemandUnchanged DEF weightVars
  <2> QED BY <1>1, <2>1, <2>2 DEF AbortsOnlyWhenFullOrShared, AbortsOnlyWhenFull
<1>2. ASSUME ~aborted'
      PROVE  AbortsOnlyWhenFullOrShared'
    BY <1>2 DEF AbortsOnlyWhenFullOrShared, AbortsOnlyWhenFull
<1>3. ASSUME NEW l \in Layers, NEW a \in Adapters, BeginAdapter(l, a)
      PROVE  SpaceInvariant' /\ AbortsOnlyWhenFullOrShared'
    BY <1>2, <1>3, BeginAdapterSpace DEF BeginAdapter
<1>4. CASE AllocateLocal
    BY <1>2, <1>4, AllocateLocalSpace DEF AllocateLocal
<1>5. CASE AllocateSync
    BY <1>2, <1>5, AllocateSyncSpace DEF AllocateSync
<1>6. CASE WeightAssertionFails
  <2>1. UNCHANGED << config, weightVars >> /\ UNCHANGED work /\ aborted' = TRUE /\ ~aborted
        /\ work # <<>>
      BY <1>6 DEF WeightAssertionFails, weightVars
  <2>2. SpaceInvariant' /\ Demand' = Demand /\ WeightSpace' = WeightSpace
      BY <2>1, SpaceUnchanged, DemandUnchanged
  <2>3. \/ Cardinality(config.trainable) > 1 /\ Cardinality(Layers) > 1
        \/ Demand >= WeightSpace
      BY <1>6, AssertionFailsWhenFull
  <2> QED BY <2>1, <2>2, <2>3 DEF AbortsOnlyWhenFullOrShared, AbortsOnlyWhenFull
<1>7. ASSUME NEW b \in Buffers, NEW len \in Lengths, SaveActivation(b, len)
      PROVE  SpaceInvariant' /\ AbortsOnlyWhenFullOrShared'
    BY <1>1, <1>7 DEF SaveActivation
<1>8. ASSUME NEW b \in Buffers, NEW len \in Lengths, ActivationAssertionFails(b, len)
      PROVE  SpaceInvariant' /\ AbortsOnlyWhenFullOrShared'
  <2>1. UNCHANGED << config, weightVars >> /\ work = <<>> /\ UNCHANGED work
      BY <1>8 DEF ActivationAssertionFails, Initialised, weightVars
  <2> QED BY <2>1, SpaceUnchanged DEF AbortsOnlyWhenFullOrShared, AbortsOnlyWhenFull
<1>9. CASE UNCHANGED vars
    BY <1>1, <1>9 DEF vars
<1> QED BY <1>3, <1>4, <1>5, <1>6, <1>7, <1>8, <1>9 DEF Next

\* Start-up fails only for want of space, for any sizes and any order of the
\* tasks, if one adapter at most is trained or the device has one layer.
THEOREM AbortsOnlyForWantOfSpace == Spec => []AbortsOnlyWhenFullOrShared
<1> DEFINE Inv == MemoryInvariant /\ SpaceInvariant /\ AbortsOnlyWhenFullOrShared
<1>1. Init => Inv
  <2>1. Init => AbortsOnlyWhenFullOrShared
      BY DEF Init, AbortsOnlyWhenFullOrShared, AbortsOnlyWhenFull
  <2> QED BY <2>1, InitMemoryInvariant, InitSpace
<1>2. Inv /\ [Next]_vars => Inv'
    BY NextMemoryInvariant, NextSpace
<1>3. Inv => AbortsOnlyWhenFullOrShared
    OBVIOUS
<1> QED BY <1>1, <1>2, <1>3, PTL DEF Spec
=============================================================================
