------------------------- MODULE TensorBuffers_proofs -------------------------
(***************************************************************************)
(* Proofs about TensorBuffers: for every model, the operators are sorted   *)
(* completely and in an order that runs producers first, every tensor gets *)
(* a buffer of its stage, and no buffer is shared by tensors that are used *)
(* at the same time.                                                       *)
(***************************************************************************)
EXTENDS TensorBuffers, FiniteSetTheorems, SequenceTheorems, WellFoundedInduction, TLAPS

-----------------------------------------------------------------------------
(* Induction. *)

\* A set of naturals that has an element has a least one.
LEMMA LeastNatural ==
    ASSUME NEW T, T \subseteq Nat, T # {}
    PROVE  \E m \in T : \A k \in T : m <= k
<1> DEFINE R == {p \in Nat \X Nat : p[1] < p[2]}
<1>1. IsWellFoundedOn(R, Nat)
    BY NatLessThanWellFounded DEF OpToRel
<1>2. \E m \in T : \A k \in T : << k, m >> \notin R
    <2> HIDE DEF R
    <2> QED BY <1>1, WFMin
<1>3. PICK m \in T : \A k \in T : << k, m >> \notin R
    BY <1>2
<1>4. ASSUME NEW k \in T PROVE m <= k
    <2>1. << k, m >> \notin R /\ m \in Nat /\ k \in Nat
        BY <1>3
    <2>2. ~(k < m)
        BY <2>1
    <2> QED BY <2>1, <2>2
<1> QED BY <1>4

\* Induction over the naturals, for a set instead of a predicate.
LEMMA SetInduction ==
    ASSUME NEW T, 0 \in T, \A n \in Nat : n \in T => n + 1 \in T
    PROVE  \A n \in Nat : n \in T
<1> SUFFICES ASSUME Nat \ T # {} PROVE FALSE
    OBVIOUS
<1>1. PICK m \in Nat \ T : \A k \in Nat \ T : m <= k
    BY LeastNatural
<1>2. m # 0 /\ m - 1 \in Nat
    BY <1>1
<1>3. m - 1 \in T
    BY <1>1, <1>2
<1> QED BY <1>1, <1>2, <1>3

-----------------------------------------------------------------------------
(* Sequences of groups: the list of operators, one group per fused operator. *)

\* Each element is in one group, once.
Apart(groups) ==
    \A i, j \in DOMAIN groups : \A a \in DOMAIN groups[i], b \in DOMAIN groups[j] :
        groups[i][a] = groups[j][b] => i = j /\ a = b

\* The elements of all groups.
Elements(groups) == UNION { Range(groups[i]) : i \in DOMAIN groups }

\* What FlattenSeq computes up to each group.
FlattensUpto(h, groups, n) ==
    h = [i \in 1 .. n |-> IF i = 1 THEN groups[i] ELSE h[i - 1] \o groups[i]]

\* There is such a function for the first n + 1 groups.
FlattensTo(groups, n) == \E h : FlattensUpto(h, groups, n + 1)

\* FlattenSeq appends one group after the other.
LEMMA FlattenUpto ==
    ASSUME NEW S, NEW groups \in Seq(Seq(S)), groups # <<>>
    PROVE  \E h : /\ h[1] = groups[1]
                  /\ \A i \in 1 .. Len(groups) - 1 : h[i + 1] = h[i] \o groups[i + 1]
                  /\ FlattenSeq(groups) = h[Len(groups)]
<1> DEFINE T == {n \in Nat : FlattensTo(groups, n)}
<1>1. 0 \in T
  <2> DEFINE h == [i \in 1 .. 1 |-> groups[1]]
  <2>1. h = [i \in 1 .. 1 |-> IF i = 1 THEN groups[i] ELSE h[i - 1] \o groups[i]]
      OBVIOUS
  <2>2. FlattensUpto(h, groups, 1)
      BY <2>1 DEF FlattensUpto
  <2>3. FlattensTo(groups, 0)
    <3> HIDE DEF h
    <3>1. 0 + 1 = 1
        OBVIOUS
    <3>2. FlattensUpto(h, groups, 0 + 1)
        BY <2>2, <3>1
    <3> QED BY <3>2 DEF FlattensTo
  <2> QED BY <2>3
<1>2. ASSUME NEW n \in Nat, n \in T PROVE n + 1 \in T
  <2>1. PICK h : FlattensUpto(h, groups, n + 1)
      BY <1>2 DEF FlattensTo
  <2> DEFINE k == [i \in 1 .. n + 2 |-> IF i = 1 THEN groups[i] ELSE h[i - 1] \o groups[i]]
  <2>2. \A i \in 1 .. n + 1 : k[i] = h[i]
    <3>1. \A i \in 1 .. n + 1 : i \in 1 .. n + 2
        OBVIOUS
    <3>2. \A i \in 1 .. n + 1 : h[i] = IF i = 1 THEN groups[i] ELSE h[i - 1] \o groups[i]
        BY <2>1, Zenon DEF FlattensUpto
    <3> QED BY <3>1, <3>2, Zenon
  <2>3. \A i \in 1 .. n + 2 : i # 1 => i - 1 \in 1 .. n + 1
      OBVIOUS
  <2>4. k = [i \in 1 .. n + 2 |-> IF i = 1 THEN groups[i] ELSE k[i - 1] \o groups[i]]
      BY <2>2, <2>3
  <2>5. FlattensUpto(k, groups, n + 2)
      BY <2>4 DEF FlattensUpto
  <2>6. FlattensTo(groups, n + 1)
    <3> HIDE DEF k
    <3>1. n + 2 = (n + 1) + 1
        OBVIOUS
    <3>2. FlattensUpto(k, groups, (n + 1) + 1)
        BY <2>5, <3>1
    <3> QED BY <3>2 DEF FlattensTo
  <2>7. n + 1 \in Nat
      OBVIOUS
  <2> QED BY <2>6, <2>7
<1>3. Len(groups) \in Nat \ {0}
    OBVIOUS
<1>4. \E h : FlattensUpto(h, groups, Len(groups))
  <2> HIDE DEF T
  <2>1. Len(groups) - 1 \in T
    <3>1. Len(groups) - 1 \in Nat
        BY <1>3
    <3>2. \A n \in Nat : n \in T
        BY <1>1, <1>2, SetInduction
    <3> QED BY <3>1, <3>2
  <2>2. (Len(groups) - 1) + 1 = Len(groups)
      BY <1>3
  <2>3. FlattensTo(groups, Len(groups) - 1)
      BY <2>1 DEF T
  <2> QED BY <2>2, <2>3 DEF FlattensTo
<1> DEFINE h == CHOOSE h : FlattensUpto(h, groups, Len(groups))
<1>5. FlattensUpto(h, groups, Len(groups))
    BY <1>4
<1>6. FlattenSeq(groups) = h[Len(groups)]
    BY <1>3 DEF FlattenSeq, FlattensUpto
<1> HIDE DEF h
<1>7. \A i \in 1 .. Len(groups) :
         h[i] = IF i = 1 THEN groups[i] ELSE h[i - 1] \o groups[i]
    BY <1>5, Zenon DEF FlattensUpto
<1>8. h[1] = groups[1]
    BY <1>3, <1>7
<1>9. \A i \in 1 .. Len(groups) - 1 : h[i + 1] = h[i] \o groups[i + 1]
  <2> SUFFICES ASSUME NEW i \in 1 .. Len(groups) - 1
               PROVE  h[i + 1] = h[i] \o groups[i + 1]
      OBVIOUS
  <2>1. i + 1 \in 1 .. Len(groups) /\ i + 1 # 1 /\ (i + 1) - 1 = i
      BY <1>3
  <2> QED BY <1>7, <2>1
<1> QED BY <1>6, <1>8, <1>9

\* The members of a concatenation, and of a part of a sequence.
Joined(u, s, t, G, n, m) ==
    /\ n \in Nat /\ m \in Nat /\ DOMAIN s = 1 .. n /\ DOMAIN t = 1 .. m
    /\ u \in Seq(G) /\ Len(u) = n + m /\ DOMAIN u = 1 .. n + m
    /\ \A i \in 1 .. n : u[i] = s[i]
    /\ \A i \in 1 .. m : u[n + i] = t[i]

\* A concatenation has the members of its two sequences, in order.
LEMMA ConcatFacts ==
    \A G : \A s, t \in Seq(G) : Joined(s \o t, s, t, G, Len(s), Len(t))
<1> TAKE G
<1> TAKE s \in Seq(G), t \in Seq(G)
<1>1. /\ s \o t \in Seq(G) /\ Len(s \o t) = Len(s) + Len(t)
      /\ Len(s) \in Nat /\ Len(t) \in Nat
      /\ DOMAIN s = 1 .. Len(s) /\ DOMAIN t = 1 .. Len(t)
      /\ DOMAIN (s \o t) = 1 .. Len(s) + Len(t)
      /\ \A i \in 1 .. Len(s) : (s \o t)[i] = s[i]
      /\ \A i \in 1 .. Len(t) : (s \o t)[Len(s) + i] = t[i]
    OBVIOUS
<1> QED BY <1>1 DEF Joined

\* A part of a sequence has the members of the sequence from there on.
LEMMA PartFacts ==
    ASSUME NEW G, NEW s \in Seq(G), NEW a \in 1 .. Len(s) + 1, NEW b \in a - 1 .. Len(s)
    PROVE  /\ SubSeq(s, a, b) \in Seq(G) /\ Len(SubSeq(s, a, b)) = b - a + 1
           /\ \A i \in 1 .. b - a + 1 : SubSeq(s, a, b)[i] = s[a + i - 1]
<1>1. Len(s) \in Nat /\ a \in Nat /\ b \in Nat /\ DOMAIN s = 1 .. Len(s)
    OBVIOUS
<1>2. \A i \in a .. b : s[i] \in G
    BY <1>1
<1> QED BY <1>1, <1>2

\* What is in two sequences after one another.
LEMMA Concatenated ==
    ASSUME NEW S, NEW s \in Seq(S), NEW t \in Seq(S)
    PROVE  /\ s \o t \in Seq(S)
           /\ Range(s \o t) = Range(s) \cup Range(t)
           /\ IsInjective(s) /\ IsInjective(t) /\ Range(s) \cap Range(t) = {}
                => IsInjective(s \o t)
<1> DEFINE u == s \o t
           n == Len(s)
           m == Len(t)
<1>1. /\ n \in Nat /\ m \in Nat /\ DOMAIN s = 1 .. n /\ DOMAIN t = 1 .. m
      /\ u \in Seq(S) /\ DOMAIN u = 1 .. n + m
      /\ \A i \in 1 .. n : u[i] = s[i]
      /\ \A i \in 1 .. m : u[n + i] = t[i]
    OBVIOUS
<1> HIDE DEF u, n, m
<1>2. \A i \in 1 .. n + m : i \in 1 .. n \/ (i - n \in 1 .. m /\ n + (i - n) = i)
    BY <1>1
<1>3. /\ \A i \in 1 .. n : i \in 1 .. n + m
      /\ \A i \in 1 .. m : n + i \in 1 .. n + m
    BY <1>1
<1>4. Range(u) = Range(s) \cup Range(t)
  <2>1. ASSUME NEW x \in Range(u) PROVE x \in Range(s) \cup Range(t)
    <3>1. PICK i \in 1 .. n + m : u[i] = x
        BY <1>1, <2>1 DEF Range
    <3>2. CASE i \in 1 .. n
        BY <1>1, <3>1, <3>2 DEF Range
    <3>3. CASE i - n \in 1 .. m /\ n + (i - n) = i
      <4>1. u[n + (i - n)] = t[i - n]
          BY <1>1, <3>3
      <4>2. x = t[i - n]
          BY <3>1, <3>3, <4>1
      <4> QED BY <1>1, <3>3, <4>2 DEF Range
    <3> QED BY <1>2, <3>2, <3>3
  <2>2. ASSUME NEW x \in Range(s) \cup Range(t) PROVE x \in Range(u)
    <3>1. CASE x \in Range(s)
      <4>1. PICK i \in 1 .. n : s[i] = x
          BY <1>1, <3>1 DEF Range
      <4> QED BY <1>1, <1>3, <4>1 DEF Range
    <3>2. CASE x \in Range(t)
      <4>1. PICK i \in 1 .. m : t[i] = x
          BY <1>1, <3>2 DEF Range
      <4> QED BY <1>1, <1>3, <4>1 DEF Range
    <3> QED BY <2>2, <3>1, <3>2
  <2> QED BY <2>1, <2>2
<1>5. ASSUME IsInjective(s), IsInjective(t), Range(s) \cap Range(t) = {}
      PROVE  IsInjective(u)
  <2> SUFFICES ASSUME NEW i \in 1 .. n + m, NEW j \in 1 .. n + m, u[i] = u[j]
               PROVE  i = j
      BY <1>1 DEF IsInjective
  <2>1. \A a \in 1 .. n, b \in 1 .. m : s[a] # t[b]
      BY <1>1, <1>5 DEF Range
  <2>2. CASE i \in 1 .. n /\ j \in 1 .. n
      BY <1>1, <1>5, <2>2 DEF IsInjective
  <2>3. CASE i - n \in 1 .. m /\ j - n \in 1 .. m /\ n + (i - n) = i /\ n + (j - n) = j
    <3>1. t[i - n] = t[j - n]
        BY <1>1, <2>3
    <3>2. i - n = j - n
        BY <1>1, <1>5, <2>3, <3>1 DEF IsInjective
    <3> QED BY <2>3, <3>2
  <2>4. CASE i \in 1 .. n /\ j - n \in 1 .. m /\ n + (j - n) = j
    <3>1. u[i] = s[i] /\ u[n + (j - n)] = t[j - n]
        BY <1>1, <2>4
    <3>2. u[j] = t[j - n]
        BY <2>4, <3>1
    <3> QED BY <2>1, <2>4, <3>1, <3>2
  <2>5. CASE j \in 1 .. n /\ i - n \in 1 .. m /\ n + (i - n) = i
    <3>1. u[j] = s[j] /\ u[n + (i - n)] = t[i - n]
        BY <1>1, <2>5
    <3>2. u[i] = t[i - n]
        BY <2>5, <3>1
    <3> QED BY <2>1, <2>5, <3>1, <3>2
  <2> QED BY <1>2, <2>2, <2>3, <2>4, <2>5
<1> QED BY <1>1, <1>4, <1>5 DEF u

\* The list of all groups' elements has these, and each once if the groups do.
LEMMA FlattenMembers ==
    ASSUME NEW S, NEW groups \in Seq(Seq(S))
    PROVE  /\ FlattenSeq(groups) \in Seq(S)
           /\ Range(FlattenSeq(groups)) = Elements(groups)
           /\ Apart(groups) => IsInjective(FlattenSeq(groups))
<1>1. CASE groups = <<>>
  <2>1. Len(groups) = 0 /\ DOMAIN groups = {}
      BY <1>1
  <2>2. FlattenSeq(groups) = <<>>
      BY <1>1, <2>1 DEF FlattenSeq
  <2>3. << >> \in Seq(S) /\ DOMAIN << >> = {}
      OBVIOUS
  <2>4. Range(<< >>) = {} /\ IsInjective(<< >>) /\ Elements(groups) = {}
      BY <2>1, <2>3 DEF Range, IsInjective, Elements
  <2> QED BY <2>2, <2>3, <2>4
<1>2. CASE groups # <<>>
  <2> PICK h : /\ h[1] = groups[1]
               /\ \A i \in 1 .. Len(groups) - 1 : h[i + 1] = h[i] \o groups[i + 1]
               /\ FlattenSeq(groups) = h[Len(groups)]
      BY <1>2, FlattenUpto
  <2> DEFINE N == Len(groups)
             First(n) == UNION { Range(groups[i]) : i \in 1 .. n }
             Good(n) == /\ h[n] \in Seq(S) /\ Range(h[n]) = First(n)
                        /\ Apart(groups) => IsInjective(h[n])
             T == {n \in Nat : n + 1 \in 1 .. N => Good(n + 1)}
  <2>1. N \in Nat \ {0} /\ DOMAIN groups = 1 .. N /\ \A i \in 1 .. N : groups[i] \in Seq(S)
      BY <1>2
  <2> HIDE DEF N
  <2>2. \A i \in 1 .. N : Apart(groups) => IsInjective(groups[i])
    <3> SUFFICES ASSUME NEW i \in 1 .. N, Apart(groups),
                        NEW a \in DOMAIN groups[i], NEW b \in DOMAIN groups[i],
                        groups[i][a] = groups[i][b]
                 PROVE  a = b
        BY DEF IsInjective
    <3>1. i \in DOMAIN groups
        BY <2>1
    <3>2. groups[i][a] = groups[i][b] => i = i /\ a = b
        BY <3>1, SMTT(20) DEF Apart
    <3> QED BY <3>2
  <2>3. Good(1)
    <3>1. 1 \in 1 .. N
        BY <2>1
    <3>2. First(1) = Range(groups[1])
        OBVIOUS
    <3> QED BY <2>1, <2>2, <3>1, <3>2
  <2>4. ASSUME NEW n \in 1 .. N - 1, Good(n) PROVE Good(n + 1)
    <3> DEFINE g == groups[n + 1]
    <3>1. n + 1 \in 1 .. N /\ n \in 1 .. N /\ \A i \in 1 .. n : i \in 1 .. N /\ i # n + 1
        BY <2>1
    <3>2. h[n + 1] = h[n] \o g /\ g \in Seq(S)
        BY <2>1, <3>1 DEF N
    <3>3. First(n + 1) = First(n) \cup Range(g)
      <4>1. 1 .. n + 1 = (1 .. n) \cup {n + 1}
          BY <2>1
      <4> HIDE DEF g
      <4> QED BY <4>1 DEF g
    <3>4. Apart(groups) => First(n) \cap Range(g) = {}
      <4> SUFFICES ASSUME Apart(groups), NEW x \in First(n), x \in Range(g) PROVE FALSE
          OBVIOUS
      <4>1. PICK i \in 1 .. n : x \in Range(groups[i])
          OBVIOUS
      <4>2. PICK a \in DOMAIN groups[i] : groups[i][a] = x
          BY <4>1 DEF Range
      <4>3. PICK b \in DOMAIN groups[n + 1] : groups[n + 1][b] = x
          BY DEF Range
      <4>4. i = n + 1
          BY <2>1, <3>1, <4>2, <4>3 DEF Apart
      <4> QED BY <3>1, <4>4
    <3>5. Apart(groups) => IsInjective(g)
        BY <2>2, <3>1
    <3> HIDE DEF g, First
    <3>6. /\ h[n] \o g \in Seq(S)
          /\ Range(h[n] \o g) = Range(h[n]) \cup Range(g)
          /\ IsInjective(h[n]) /\ IsInjective(g) /\ Range(h[n]) \cap Range(g) = {}
               => IsInjective(h[n] \o g)
        BY <2>4, <3>2, Concatenated
    <3> QED BY <2>4, <3>2, <3>3, <3>4, <3>5, <3>6
  <2> HIDE DEF Good
  <2>5. 0 \in T
    <3>1. 0 + 1 = 1
        OBVIOUS
    <3> QED BY <2>3, <3>1
  <2>6. ASSUME NEW n \in Nat, n \in T PROVE n + 1 \in T
    <3>1. (n + 1) + 1 \in 1 .. N => n + 1 \in 1 .. N /\ n + 1 \in 1 .. N - 1
        BY <2>1
    <3>2. (n + 1) + 1 \in 1 .. N => Good((n + 1) + 1)
        BY <2>4, <2>6, <3>1
    <3> QED BY <3>2
  <2>7. Good(N)
    <3>1. N - 1 \in Nat /\ (N - 1) + 1 = N /\ N \in 1 .. N
        BY <2>1
    <3>2. N - 1 \in T
      <4> HIDE DEF T
      <4>1. \A n \in Nat : n \in T
          BY <2>5, <2>6, SetInduction
      <4> QED BY <3>1, <4>1
    <3> QED BY <3>1, <3>2
  <2>8. First(N) = Elements(groups)
      BY <2>1 DEF Elements
  <2> QED BY <2>7, <2>8 DEF Good, N
<1> QED BY <1>1, <1>2

\* The list of groups of one.
LEMMA FlattenSingles ==
    ASSUME NEW S, NEW s \in Seq(S)
    PROVE  FlattenSeq([i \in DOMAIN s |-> << s[i] >>]) = s
<1> DEFINE groups == [i \in DOMAIN s |-> << s[i] >>]
           N == Len(s)
<1>1. /\ N \in Nat /\ DOMAIN s = 1 .. N
      /\ groups \in Seq(Seq(S)) /\ Len(groups) = N
      /\ \A i \in 1 .. N : groups[i] = << s[i] >> /\ s[i] \in S
  <2>1. N \in Nat /\ DOMAIN s = 1 .. N /\ \A i \in 1 .. N : s[i] \in S
      OBVIOUS
  <2> HIDE DEF N
  <2>2. groups = [i \in 1 .. N |-> << s[i] >>]
      BY <2>1
  <2>3. \A i \in 1 .. N : << s[i] >> \in Seq(S)
      BY <2>1
  <2>4. groups \in [1 .. N -> Seq(S)]
      BY <2>2, <2>3, Zenon
  <2> HIDE DEF groups
  <2>5. groups \in Seq(Seq(S)) /\ Len(groups) = N
      BY <2>1, <2>4
  <2> QED BY <2>1, <2>2, <2>5
<1> HIDE DEF groups
<1>2. CASE N = 0
  <2>1. Len(groups) = 0 /\ groups = <<>> /\ s = <<>>
      BY <1>1, <1>2
  <2> QED BY <2>1 DEF FlattenSeq, groups
<1>3. CASE N # 0
  <2>1. groups # <<>>
      BY <1>1, <1>3
  <2> PICK h : /\ h[1] = groups[1]
               /\ \A i \in 1 .. Len(groups) - 1 : h[i + 1] = h[i] \o groups[i + 1]
               /\ FlattenSeq(groups) = h[Len(groups)]
      BY <1>1, <2>1, FlattenUpto
  <2> HIDE DEF N
  <2> DEFINE Good(n) == h[n] \in Seq(S) /\ Len(h[n]) = n /\ \A i \in 1 .. n : h[n][i] = s[i]
             T == {n \in Nat : n + 1 \in 1 .. N => Good(n + 1)}
  <2>2. Good(1)
    <3>1. h[1] = << s[1] >> /\ s[1] \in S
        BY <1>1, <1>3
    <3> QED BY <3>1
  <2>3. ASSUME NEW n \in 1 .. N - 1, Good(n) PROVE Good(n + 1)
    <3>1. n + 1 \in 1 .. N /\ n \in Nat
        BY <1>1
    <3>2. h[n + 1] = h[n] \o << s[n + 1] >> /\ s[n + 1] \in S
        BY <1>1, <3>1
    <3> DEFINE p == h[n]
               e == s[n + 1]
    <3>3. p \in Seq(S) /\ Len(p) = n /\ e \in S
        BY <2>3, <3>2
    <3> HIDE DEF p, e
    <3>4. /\ p \o << e >> \in Seq(S) /\ Len(p \o << e >>) = n + 1
          /\ (p \o << e >>)[n + 1] = e
          /\ \A i \in 1 .. n : (p \o << e >>)[i] = p[i]
        BY <3>1, <3>3
    <3>5. \A i \in 1 .. n + 1 : i \in 1 .. n \/ i = n + 1
        BY <3>1
    <3> QED BY <2>3, <3>2, <3>4, <3>5 DEF p, e
  <2> HIDE DEF Good
  <2>4. 0 \in T
    <3>1. 0 + 1 = 1
        OBVIOUS
    <3> QED BY <2>2, <3>1
  <2>5. ASSUME NEW n \in Nat, n \in T PROVE n + 1 \in T
    <3>1. (n + 1) + 1 \in 1 .. N => n + 1 \in 1 .. N /\ n + 1 \in 1 .. N - 1
        BY <1>1
    <3>2. (n + 1) + 1 \in 1 .. N => Good((n + 1) + 1)
        BY <2>3, <2>5, <3>1
    <3> QED BY <3>2
  <2>6. Good(N)
    <3>1. N - 1 \in Nat /\ (N - 1) + 1 = N /\ N \in 1 .. N
        BY <1>1, <1>3
    <3>2. N - 1 \in T
      <4> HIDE DEF T
      <4>1. \A n \in Nat : n \in T
          BY <2>4, <2>5, SetInduction
      <4> QED BY <3>1, <4>1
    <3> QED BY <3>1, <3>2
  <2>7. h[N] = s
    <3>1. h[N] \in Seq(S) /\ Len(h[N]) = N /\ \A i \in 1 .. N : h[N][i] = s[i]
        BY <2>6 DEF Good
    <3> DEFINE p == h[N]
    <3>2. p \in Seq(S) /\ Len(p) = Len(s) /\ \A i \in 1 .. Len(s) : p[i] = s[i]
        BY <3>1 DEF N
    <3> HIDE DEF p
    <3>3. p = s
        BY <3>2
    <3> QED BY <3>3 DEF p
  <2> QED BY <1>1, <2>7 DEF groups
<1> QED BY <1>2, <1>3

\* Groups are apart when each has its elements once and no two have one in common.
LEMMA ApartMeans ==
    ASSUME NEW groups
    PROVE  Apart(groups) <=>
              /\ \A i \in DOMAIN groups : IsInjective(groups[i])
              /\ \A i, j \in DOMAIN groups :
                    i # j => Range(groups[i]) \cap Range(groups[j]) = {}
<1>1. ASSUME Apart(groups), NEW i \in DOMAIN groups PROVE IsInjective(groups[i])
    BY <1>1 DEF Apart, IsInjective
<1>2. ASSUME Apart(groups), NEW i \in DOMAIN groups, NEW j \in DOMAIN groups, i # j
      PROVE  Range(groups[i]) \cap Range(groups[j]) = {}
    BY <1>2 DEF Apart, Range
<1>3. ASSUME \A i \in DOMAIN groups : IsInjective(groups[i]),
             \A i, j \in DOMAIN groups :
                i # j => Range(groups[i]) \cap Range(groups[j]) = {}
      PROVE  Apart(groups)
  <2> SUFFICES ASSUME NEW i \in DOMAIN groups, NEW j \in DOMAIN groups,
                      NEW a \in DOMAIN groups[i], NEW b \in DOMAIN groups[j],
                      groups[i][a] = groups[j][b]
               PROVE  i = j /\ a = b
      BY DEF Apart
  <2>1. i = j
      BY <1>3 DEF Range
  <2> QED BY <1>3, <2>1 DEF IsInjective
<1> QED BY <1>1, <1>2, <1>3

\* The groups of new operators, behind the others.
LEMMA GroupsAppended ==
    ASSUME NEW S, NEW s \in Seq(Seq(S)), NEW t \in Seq(Seq(S)), Apart(s), Apart(t),
           Elements(s) \cap Elements(t) = {}
    PROVE  /\ s \o t \in Seq(Seq(S)) /\ Apart(s \o t)
           /\ Elements(s \o t) = Elements(s) \cup Elements(t)
<1> DEFINE u == s \o t
           n == Len(s)
           m == Len(t)
<1>1. /\ n \in Nat /\ m \in Nat /\ DOMAIN s = 1 .. n /\ DOMAIN t = 1 .. m
      /\ u \in Seq(Seq(S)) /\ DOMAIN u = 1 .. n + m
      /\ \A i \in 1 .. n : u[i] = s[i]
      /\ \A i \in 1 .. m : u[n + i] = t[i]
  <2> DEFINE G == Seq(S)
  <2> HIDE DEF G
  <2>1. s \in Seq(G) /\ t \in Seq(G)
      BY DEF G
  <2>2. u \in Seq(G)
      BY <2>1
  <2>3. /\ n \in Nat /\ m \in Nat /\ DOMAIN s = 1 .. n /\ DOMAIN t = 1 .. m
        /\ DOMAIN u = 1 .. n + m /\ \A i \in 1 .. n : u[i] = s[i]
        /\ \A i \in 1 .. m : u[n + i] = t[i]
      BY <2>1
  <2> QED BY <2>2, <2>3 DEF G
<1> HIDE DEF u, n, m
<1>2. \A k \in 1 .. n + m :
         \/ k \in 1 .. n /\ u[k] = s[k]
         \/ \E i \in 1 .. m : k = n + i /\ u[k] = t[i]
  <2> SUFFICES ASSUME NEW k \in 1 .. n + m, k \notin 1 .. n
               PROVE  \E i \in 1 .. m : k = n + i /\ u[k] = t[i]
      BY <1>1
  <2>1. k - n \in 1 .. m /\ k = n + (k - n)
      BY <1>1
  <2>2. u[n + (k - n)] = t[k - n]
      BY <1>1, <2>1
  <2>3. u[k] = t[k - n]
      BY <2>1, <2>2
  <2> QED BY <2>1, <2>3
<1>3. /\ \A i \in 1 .. n : i \in 1 .. n + m
      /\ \A i \in 1 .. m : n + i \in 1 .. n + m
    BY <1>1
<1>4. Elements(u) = Elements(s) \cup Elements(t)
  <2>1. ASSUME NEW x \in Elements(u) PROVE x \in Elements(s) \cup Elements(t)
    <3>1. PICK k \in 1 .. n + m : x \in Range(u[k])
        BY <1>1 DEF Elements
    <3> QED BY <1>1, <1>2, <3>1 DEF Elements
  <2>2. ASSUME NEW x \in Elements(s) PROVE x \in Elements(u)
    <3>1. PICK k \in 1 .. n : x \in Range(s[k])
        BY <1>1 DEF Elements
    <3> QED BY <1>1, <1>3, <3>1 DEF Elements
  <2>3. ASSUME NEW x \in Elements(t) PROVE x \in Elements(u)
    <3>1. PICK k \in 1 .. m : x \in Range(t[k])
        BY <1>1 DEF Elements
    <3> QED BY <1>1, <1>3, <3>1 DEF Elements
  <2> QED BY <2>1, <2>2, <2>3
<1>5. Apart(u)
  <2>1. /\ \A i \in 1 .. n : IsInjective(s[i])
        /\ \A i, j \in 1 .. n : i # j => Range(s[i]) \cap Range(s[j]) = {}
        /\ \A i \in 1 .. m : IsInjective(t[i])
        /\ \A i, j \in 1 .. m : i # j => Range(t[i]) \cap Range(t[j]) = {}
      BY <1>1, ApartMeans
  <2>2. \A i \in 1 .. n, j \in 1 .. m : Range(s[i]) \cap Range(t[j]) = {}
      BY <1>1 DEF Elements
  <2>3. \A k \in 1 .. n + m : IsInjective(u[k])
      BY <1>2, <2>1
  <2>4. ASSUME NEW k \in 1 .. n + m, NEW l \in 1 .. n + m, k # l
        PROVE  Range(u[k]) \cap Range(u[l]) = {}
      BY <1>2, <2>1, <2>2, <2>4
  <2> QED BY <1>1, <2>3, <2>4, ApartMeans
<1> QED BY <1>1, <1>4, <1>5 DEF u

\* The groups of new operators, each of one.
LEMMA SingleGroups ==
    ASSUME NEW S, NEW s \in Seq(S), IsInjective(s)
    PROVE  LET groups == [i \in DOMAIN s |-> << s[i] >>]
           IN  groups \in Seq(Seq(S)) /\ Apart(groups) /\ Elements(groups) = Range(s)
<1> DEFINE groups == [i \in DOMAIN s |-> << s[i] >>]
           N == Len(s)
<1>1. N \in Nat /\ DOMAIN s = 1 .. N /\ \A i \in 1 .. N : s[i] \in S
    OBVIOUS
<1> HIDE DEF N
<1>2. groups = [i \in 1 .. N |-> << s[i] >>] /\ DOMAIN groups = 1 .. N
    BY <1>1
<1>3. \A i \in 1 .. N : << s[i] >> \in Seq(S)
    BY <1>1
<1> HIDE DEF groups
<1>4. groups \in [1 .. N -> Seq(S)]
    BY <1>2, <1>3
<1>5. \A x : /\ DOMAIN << x >> = {1} /\ << x >>[1] = x
    OBVIOUS
<1>6. \A i \in 1 .. N : groups[i] = << s[i] >>
    BY <1>2
<1>7. groups \in Seq(Seq(S))
    BY <1>1, <1>4
<1>8. \A i \in 1 .. N : Range(groups[i]) = {s[i]} /\ IsInjective(groups[i])
    BY <1>5, <1>6 DEF Range, IsInjective
<1>9. \A i, j \in 1 .. N : i # j => Range(groups[i]) \cap Range(groups[j]) = {}
  <2>1. \A i, j \in 1 .. N : i # j => s[i] # s[j]
      BY <1>1 DEF IsInjective
  <2>2. \A i \in 1 .. N : Range(groups[i]) = {s[i]}
      BY <1>8
  <2> QED BY <2>1, <2>2, Zenon
<1>10. Apart(groups)
    BY <1>2, <1>8, <1>9, ApartMeans
<1>11. Elements(groups) = Range(s)
  <2>1. \A i \in 1 .. N : Range(groups[i]) = {s[i]}
      BY <1>8
  <2>2. \A x : x \in Elements(groups) <=> \E i \in 1 .. N : x \in Range(groups[i])
      BY <1>2 DEF Elements
  <2>3. \A x : x \in Elements(groups) <=> \E i \in 1 .. N : x = s[i]
    <3>1. \A x : \A i \in 1 .. N : x \in Range(groups[i]) <=> x = s[i]
        BY <2>1
    <3> QED BY <2>2, <3>1, Zenon
  <2>4. \A x : x \in Range(s) <=> \E i \in 1 .. N : x = s[i]
      BY <1>1 DEF Range
  <2> QED BY <2>3, <2>4
<1> QED BY <1>7, <1>10, <1>11 DEF groups

\* A group moved in before the last one.
LEMMA GroupInserted ==
    ASSUME NEW S, NEW s \in Seq(Seq(S)), s # <<>>, Apart(s),
           NEW g \in Seq(S), IsInjective(g), Range(g) \cap Elements(s) = {}
    PROVE  LET u == InsertAt(s, Len(s), g)
           IN  u \in Seq(Seq(S)) /\ Apart(u) /\ Elements(u) = Elements(s) \cup Range(g)
<1> DEFINE u == InsertAt(s, Len(s), g)
           n == Len(s)
           G == Seq(S)
<1>1. /\ n \in Nat \ {0} /\ DOMAIN s = 1 .. n
      /\ u \in Seq(G) /\ DOMAIN u = 1 .. n + 1
      /\ \A i \in 1 .. n - 1 : u[i] = s[i]
      /\ u[n] = g /\ u[n + 1] = s[n]
  <2> HIDE DEF G
  <2>1. s \in Seq(G) /\ g \in G /\ s # <<>>
      BY DEF G
  <2>2. n \in Nat \ {0} /\ DOMAIN s = 1 .. n
      BY <2>1
  <2> DEFINE a == SubSeq(s, 1, n - 1)
             b == SubSeq(s, n, n)
  <2>3. /\ a \in Seq(G) /\ Len(a) = n - 1 /\ \A i \in 1 .. n - 1 : a[i] = s[i]
        /\ b \in Seq(G) /\ Len(b) = 1 /\ b[1] = s[n]
        /\ << g >> \in Seq(G) /\ Len(<< g >>) = 1 /\ << g >>[1] = g
      BY <2>1, <2>2
  <2>4. u = a \o << g >> \o b
      BY DEF InsertAt
  <2> HIDE DEF a, b, u, n
  <2> DEFINE e == << g >>
             c == a \o e
  <2> HIDE DEF e
  <2>5. /\ c \in Seq(G) /\ Len(c) = (n - 1) + 1
        /\ \A i \in 1 .. n - 1 : c[i] = a[i]
        /\ c[(n - 1) + 1] = e[1]
    <3>1. 1 \in 1 .. 1
        OBVIOUS
    <3>2. a \in Seq(G) /\ e \in Seq(G) /\ Len(a) = n - 1 /\ Len(e) = 1
        BY <2>3 DEF e
    <3>3. Joined(a \o e, a, e, G, Len(a), Len(e))
        BY <3>2, ConcatFacts, Zenon
    <3>4. Joined(c, a, e, G, n - 1, 1)
        BY <3>2, <3>3, Zenon
    <3> HIDE DEF c
    <3> QED BY <3>1, <3>4, Zenon DEF Joined
  <2>6. /\ c \in Seq(G) /\ Len(c) = n /\ u = c \o b
        /\ \A i \in 1 .. n - 1 : c[i] = s[i]
        /\ c[n] = g
    <3>1. (n - 1) + 1 = n
        BY <2>2
    <3>2. e[1] = g
        BY <2>3 DEF e
    <3> QED BY <2>3, <2>4, <2>5, <3>1, <3>2 DEF e
  <2> HIDE DEF c
  <2>7. /\ u \in Seq(G) /\ DOMAIN u = 1 .. n + 1
        /\ \A i \in 1 .. n : u[i] = c[i]
        /\ u[n + 1] = b[1]
    <3>1. 1 \in 1 .. 1
        OBVIOUS
    <3>2. Joined(c \o b, c, b, G, Len(c), Len(b))
        BY <2>3, <2>6, ConcatFacts, Zenon
    <3>3. Joined(u, c, b, G, n, 1)
        BY <2>3, <2>6, <3>2, Zenon
    <3> QED BY <3>1, <3>3, Zenon DEF Joined
  <2>8. \A i \in 1 .. n - 1 : i \in 1 .. n
      BY <2>2
  <2>9. n \in 1 .. n
      BY <2>2
  <2> QED BY <2>2, <2>3, <2>6, <2>7, <2>8, <2>9
<1> HIDE DEF u, n, G
<1>2. \A k \in 1 .. n + 1 : \/ k \in 1 .. n - 1 /\ u[k] = s[k]
                            \/ k = n /\ u[k] = g
                            \/ k = n + 1 /\ u[k] = s[n]
    BY <1>1
<1>3. /\ \A i, j \in 1 .. n : i # j => Range(s[i]) \cap Range(s[j]) = {}
      /\ \A i \in 1 .. n : IsInjective(s[i])
      /\ \A i \in 1 .. n : Range(g) \cap Range(s[i]) = {}
  <2>1. \A i \in 1 .. n : Range(g) \cap Range(s[i]) = {}
      BY <1>1 DEF Elements
  <2> QED BY <1>1, <2>1, ApartMeans
<1>4. n \in 1 .. n /\ n + 1 \in 1 .. n + 1 /\ n \in 1 .. n + 1
      /\ \A i \in 1 .. n - 1 : i \in 1 .. n /\ i \in 1 .. n + 1 /\ i # n
    BY <1>1
<1>5. Apart(u)
  <2>1. \A k \in 1 .. n + 1 : IsInjective(u[k])
      BY <1>2, <1>3, <1>4
  <2>2. ASSUME NEW k \in 1 .. n + 1, NEW l \in 1 .. n + 1, k # l
        PROVE  Range(u[k]) \cap Range(u[l]) = {}
    <3>1. \/ k \in 1 .. n - 1 /\ u[k] = s[k] /\ k \in 1 .. n /\ k # n
          \/ k = n /\ u[k] = g
          \/ k = n + 1 /\ u[k] = s[n]
        BY <1>2, <1>4
    <3>2. \/ l \in 1 .. n - 1 /\ u[l] = s[l] /\ l \in 1 .. n /\ l # n
          \/ l = n /\ u[l] = g
          \/ l = n + 1 /\ u[l] = s[n]
        BY <1>2, <1>4
    <3>3. \A a, b \in 1 .. n : a # b => Range(s[a]) \cap Range(s[b]) = {}
        BY <1>3
    <3>4. \A a \in 1 .. n : Range(g) \cap Range(s[a]) = {} /\ Range(s[a]) \cap Range(g) = {}
        BY <1>3
    <3>5. CASE k = n \/ l = n
      <4>1. ~(k = n /\ l = n)
          BY <2>2
      <4>2. n # n + 1
          BY <1>1
      <4> QED BY <1>4, <3>1, <3>2, <3>4, <3>5, <4>1, <4>2, Zenon
    <3>6. CASE k # n /\ l # n
      <4> DEFINE a == IF k = n + 1 THEN n ELSE k
                 b == IF l = n + 1 THEN n ELSE l
      <4>1. a \in 1 .. n /\ b \in 1 .. n /\ a # b /\ u[k] = s[a] /\ u[l] = s[b]
          BY <1>1, <1>4, <2>2, <3>1, <3>2, <3>6
      <4> QED BY <3>3, <4>1, Zenon
    <3> QED BY <3>5, <3>6
  <2> QED BY <1>1, <2>1, <2>2, ApartMeans
<1>6. Elements(u) = Elements(s) \cup Range(g)
  <2>1. ASSUME NEW x \in Elements(u) PROVE x \in Elements(s) \cup Range(g)
    <3>1. PICK k \in 1 .. n + 1 : x \in Range(u[k])
        BY <1>1 DEF Elements
    <3>2. x \in Range(g) \/ \E j \in 1 .. n : x \in Range(s[j])
        BY <1>2, <1>4, <3>1, Zenon
    <3> QED BY <1>1, <3>2 DEF Elements
  <2>2. ASSUME NEW x \in Elements(s) PROVE x \in Elements(u)
    <3>1. PICK k \in 1 .. n : x \in Range(s[k])
        BY <1>1 DEF Elements
    <3>2. k = n \/ k \in 1 .. n - 1
        BY <1>1
    <3> QED BY <1>1, <1>4, <3>1, <3>2 DEF Elements
  <2>3. ASSUME NEW x \in Range(g) PROVE x \in Elements(u)
      BY <1>1, <1>4, <2>3 DEF Elements
  <2> QED BY <2>1, <2>2, <2>3
<1> QED BY <1>1, <1>5, <1>6 DEF u, G

\* Two groups made one.
LEMMA GroupsFused ==
    ASSUME NEW S, NEW s \in Seq(Seq(S)), Apart(s), NEW l \in 1 .. Len(s), NEW i \in 1 .. l - 1
    PROVE  LET u == RemoveAt([s EXCEPT ![i] = @ \o s[l]], l)
           IN  u \in Seq(Seq(S)) /\ Apart(u) /\ Elements(u) = Elements(s)
<1> DEFINE m == s[i] \o s[l]
           t == [s EXCEPT ![i] = m]
           u == RemoveAt(t, l)
           n == Len(s)
           G == Seq(S)
           from == [k \in 1 .. n - 1 |-> IF k < l THEN k ELSE k + 1]
<1>1. n \in Nat /\ DOMAIN s = 1 .. n /\ l \in 1 .. n /\ i \in 1 .. n /\ i < l
      /\ \A k \in 1 .. n : s[k] \in Seq(S)
    OBVIOUS
<1>2. /\ m \in Seq(S) /\ Range(m) = Range(s[i]) \cup Range(s[l])
      /\ Range(s[i]) \cap Range(s[l]) = {} /\ IsInjective(m)
  <2>1. /\ IsInjective(s[i]) /\ IsInjective(s[l])
        /\ Range(s[i]) \cap Range(s[l]) = {}
    <3>1. i # l
        BY <1>1
    <3> QED BY <1>1, <3>1, ApartMeans
  <2> QED BY <1>1, <2>1, Concatenated
<1>3. /\ u \in Seq(G) /\ DOMAIN u = 1 .. n - 1
      /\ \A k \in 1 .. n - 1 : from[k] \in 1 .. n /\ from[k] # l /\ u[k] = t[from[k]]
  <2> HIDE DEF G
  <2>1. s \in Seq(G) /\ m \in G
      BY <1>2 DEF G
  <2> HIDE DEF m
  <2>2. t \in Seq(G) /\ Len(t) = n
      BY <2>1
  <2> HIDE DEF t
  <2> DEFINE a == SubSeq(t, 1, l - 1)
             b == SubSeq(t, l + 1, n)
  <2>3. /\ a \in Seq(G) /\ Len(a) = l - 1 /\ \A k \in 1 .. l - 1 : a[k] = t[k]
        /\ b \in Seq(G) /\ Len(b) = n - l /\ \A k \in 1 .. n - l : b[k] = t[l + k]
    <3>1. /\ 1 \in 1 .. n + 1 /\ l - 1 \in 1 - 1 .. n /\ (l - 1) - 1 + 1 = l - 1
          /\ l + 1 \in 1 .. n + 1 /\ n \in (l + 1) - 1 .. n /\ n - (l + 1) + 1 = n - l
          /\ \A k \in 1 .. l - 1 : 1 + k - 1 = k
          /\ \A k \in 1 .. n - l : (l + 1) + k - 1 = l + k
        BY <1>1
    <3>2. /\ a \in Seq(G) /\ Len(a) = (l - 1) - 1 + 1
          /\ \A k \in 1 .. (l - 1) - 1 + 1 : a[k] = t[1 + k - 1]
        BY <2>2, <3>1, PartFacts
    <3>3. /\ b \in Seq(G) /\ Len(b) = n - (l + 1) + 1
          /\ \A k \in 1 .. n - (l + 1) + 1 : b[k] = t[(l + 1) + k - 1]
        BY <2>2, <3>1, PartFacts
    <3> HIDE DEF a, b, n
    <3> QED BY <3>1, <3>2, <3>3
  <2>4. u = a \o b
      BY <2>2 DEF RemoveAt
  <2> HIDE DEF a, b, u, n
  <2>5. /\ u \in Seq(G) /\ DOMAIN u = 1 .. (l - 1) + (n - l)
        /\ \A k \in 1 .. l - 1 : u[k] = a[k]
        /\ \A k \in 1 .. n - l : u[(l - 1) + k] = b[k]
    <3>1. Joined(a \o b, a, b, G, Len(a), Len(b))
        BY <2>3, ConcatFacts, Zenon
    <3>2. Joined(u, a, b, G, l - 1, n - l)
        BY <2>3, <2>4, <3>1, Zenon
    <3> QED BY <3>2, Zenon DEF Joined
  <2>6. (l - 1) + (n - l) = n - 1
      BY <1>1
  <2>7. /\ u \in Seq(G) /\ DOMAIN u = 1 .. n - 1
        /\ \A k \in 1 .. l - 1 : u[k] = t[k]
        /\ \A k \in 1 .. n - l : u[(l - 1) + k] = t[l + k]
      BY <2>3, <2>5, <2>6
  <2>8. ASSUME NEW k \in 1 .. n - 1
        PROVE  from[k] \in 1 .. n /\ from[k] # l /\ u[k] = t[from[k]]
    <3>1. from[k] = IF k < l THEN k ELSE k + 1
        OBVIOUS
    <3> HIDE DEF from
    <3>2. CASE k < l
      <4>1. k \in 1 .. l - 1 /\ k \in 1 .. n /\ k # l
          BY <1>1, <3>2
      <4> QED BY <2>7, <3>1, <3>2, <4>1
    <3>3. CASE ~(k < l)
      <4>1. k - (l - 1) \in 1 .. n - l /\ (l - 1) + (k - (l - 1)) = k
            /\ l + (k - (l - 1)) = k + 1
          BY <1>1, <3>3
      <4>2. u[(l - 1) + (k - (l - 1))] = t[l + (k - (l - 1))]
          BY <2>7, <4>1
      <4>3. u[k] = t[k + 1]
          BY <4>1, <4>2
      <4>4. from[k] = k + 1 /\ k + 1 \in 1 .. n /\ k + 1 # l
          BY <1>1, <3>1, <3>3
      <4> QED BY <4>3, <4>4
    <3> QED BY <3>2, <3>3
  <2> QED BY <2>7, <2>8
<1>4. /\ \A k \in 1 .. n : k # i => t[k] = s[k]
      /\ t[i] = m
    BY <1>1
<1>5. /\ \A k, j \in 1 .. n - 1 : k # j => from[k] # from[j]
      /\ \A k \in 1 .. n : k # l => \E j \in 1 .. n - 1 : from[j] = k
  <2>1. \A k \in 1 .. n - 1 : from[k] = IF k < l THEN k ELSE k + 1
      OBVIOUS
  <2> HIDE DEF from, n
  <2>2. ASSUME NEW k \in 1 .. n, k # l PROVE \E j \in 1 .. n - 1 : from[j] = k
    <3>1. CASE k < l
      <4>1. k \in 1 .. n - 1
          BY <1>1, <3>1
      <4>2. from[k] = k
          BY <2>1, <3>1, <4>1
      <4> QED BY <4>1, <4>2
    <3>2. CASE k > l
      <4>1. k - 1 \in 1 .. n - 1 /\ ~(k - 1 < l) /\ (k - 1) + 1 = k
          BY <1>1, <3>2
      <4>2. from[k - 1] = k
          BY <2>1, <4>1
      <4> QED BY <4>1, <4>2
    <3> QED BY <1>1, <2>2, <3>1, <3>2
  <2>3. ASSUME NEW k \in 1 .. n - 1, NEW j \in 1 .. n - 1, k # j PROVE from[k] # from[j]
    <3>1. /\ from[k] = IF k < l THEN k ELSE k + 1
          /\ from[j] = IF j < l THEN j ELSE j + 1
        BY <2>1
    <3> QED BY <1>1, <2>3, <3>1
  <2> QED BY <2>2, <2>3
<1> HIDE DEF u, t, m, n, G, from
<1>6. /\ \A k, j \in 1 .. n : k # j => Range(s[k]) \cap Range(s[j]) = {}
      /\ \A k \in 1 .. n : IsInjective(s[k])
    BY <1>1, ApartMeans
<1>7. \A k \in 1 .. n : k # l =>
         IsInjective(t[k]) /\ Range(t[k]) = Range(s[k]) \cup (IF k = i THEN Range(s[l]) ELSE {})
    BY <1>1, <1>2, <1>4, <1>6
<1>8. \A k, j \in 1 .. n : k # l /\ j # l /\ k # j => Range(t[k]) \cap Range(t[j]) = {}
  <2> SUFFICES ASSUME NEW k \in 1 .. n, NEW j \in 1 .. n, k # l, j # l, k # j
               PROVE  Range(t[k]) \cap Range(t[j]) = {}
      OBVIOUS
  <2>1. /\ Range(s[k]) \cap Range(s[j]) = {} /\ Range(s[k]) \cap Range(s[l]) = {}
        /\ Range(s[j]) \cap Range(s[l]) = {}
      BY <1>1, <1>6
  <2>2. /\ Range(t[k]) = Range(s[k]) \cup (IF k = i THEN Range(s[l]) ELSE {})
        /\ Range(t[j]) = Range(s[j]) \cup (IF j = i THEN Range(s[l]) ELSE {})
      BY <1>7
  <2> QED BY <2>1, <2>2
<1>9. Apart(u)
  <2>1. \A k \in 1 .. n - 1 : IsInjective(u[k])
      BY <1>3, <1>7
  <2>2. ASSUME NEW k \in 1 .. n - 1, NEW j \in 1 .. n - 1, k # j
        PROVE  Range(u[k]) \cap Range(u[j]) = {}
    <3>1. from[k] # from[j] /\ from[k] \in 1 .. n /\ from[j] \in 1 .. n
          /\ from[k] # l /\ from[j] # l /\ u[k] = t[from[k]] /\ u[j] = t[from[j]]
        BY <1>3, <1>5, <2>2
    <3> QED BY <1>8, <3>1
  <2> QED BY <1>3, <2>1, <2>2, ApartMeans
<1>10. Elements(u) = Elements(s)
  <2>1. ASSUME NEW x \in Elements(u) PROVE x \in Elements(s)
    <3>1. PICK k \in 1 .. n - 1 : x \in Range(u[k])
        BY <1>3 DEF Elements
    <3>2. from[k] \in 1 .. n /\ from[k] # l /\ x \in Range(t[from[k]])
        BY <1>3, <3>1
    <3>3. \E j \in 1 .. n : x \in Range(s[j])
        BY <1>1, <1>7, <3>2
    <3> QED BY <1>1, <3>3 DEF Elements
  <2>2. ASSUME NEW x \in Elements(s) PROVE x \in Elements(u)
    <3>1. PICK j \in 1 .. n : x \in Range(s[j])
        BY <1>1 DEF Elements
    <3>2. \E k \in 1 .. n : k # l /\ x \in Range(t[k])
      <4>1. CASE j = l
        <5>1. i \in 1 .. n /\ i # l
            BY <1>1
        <5>2. Range(t[i]) = Range(s[i]) \cup Range(s[l])
            BY <1>7, <5>1
        <5> QED BY <3>1, <4>1, <5>1, <5>2
      <4>2. CASE j # l
        <5>1. Range(t[j]) = Range(s[j]) \cup (IF j = i THEN Range(s[l]) ELSE {})
            BY <1>7, <4>2
        <5> QED BY <3>1, <4>2, <5>1
      <4> QED BY <4>1, <4>2
    <3>3. PICK k \in 1 .. n : k # l /\ x \in Range(t[k])
        BY <3>2
    <3>4. PICK p \in 1 .. n - 1 : from[p] = k
        BY <1>5, <3>3
    <3> QED BY <1>3, <3>3, <3>4 DEF Elements
  <2> QED BY <2>1, <2>2
<1> QED BY <1>3, <1>9, <1>10 DEF u, t, m, G

-----------------------------------------------------------------------------
(* The operators of a graph, as a function f of their names. *)

\* The tensors that the operators f produce: output k of operator n.
TensorsOf(f) == UNION { {<< n, k >> : k \in DOMAIN f[n].shapes} : n \in DOMAIN f }

\* The graph has no cycle: of some operators, one reads from none of them.
Rooted(f) ==
    \A T \in SUBSET DOMAIN f :
        T # {} => \E m \in T : \A j \in DOMAIN f[m].inputs : f[m].inputs[j][1] \notin T

\* Operator o, where the others are f.  An adapter is on the stage of the
\* operator that it adapts.
OneWellFormed(f, o) ==
    /\ Len(o.shapes) \in Nat \ {0} /\ DOMAIN o.shapes = 1 .. Len(o.shapes)
    /\ o.inputs \in Seq(TensorsOf(f))
    /\ o.op_type = "LORA" =>
          /\ 2 \in DOMAIN o.inputs
          /\ f[o.inputs[2][1]].op_type \notin {"INPUT", "LORA"}
          /\ f[o.inputs[2][1]].transformer_layer_id = o.transformer_layer_id

\* Finitely many operators, acyclic, each reading tensors of operators there are.
WellFormed(f) ==
    /\ IsFiniteSet(DOMAIN f) /\ Rooted(f)
    /\ \A n \in DOMAIN f : f[n].name = n /\ OneWellFormed(f, f[n])

\* The operators f and one more, o.
With(f, o) == [n \in DOMAIN f \cup {o.name} |-> IF n \in DOMAIN f THEN f[n] ELSE o]

\* One more operator, over tensors that there are.
LEMMA OneMore ==
    ASSUME NEW f, WellFormed(f), NEW o, o.name \notin DOMAIN f, OneWellFormed(f, o)
    PROVE  /\ WellFormed(With(f, o))
           /\ DOMAIN With(f, o) = DOMAIN f \cup {o.name}
           /\ TensorsOf(With(f, o)) = TensorsOf(f) \cup {<< o.name, k >> : k \in DOMAIN o.shapes}
<1> DEFINE g == With(f, o)
<1>1. /\ DOMAIN g = DOMAIN f \cup {o.name}
      /\ \A n \in DOMAIN f : g[n] = f[n]
      /\ g[o.name] = o
    BY DEF With
<1> HIDE DEF g
<1>2. TensorsOf(g) = TensorsOf(f) \cup {<< o.name, k >> : k \in DOMAIN o.shapes}
  <2>1. ASSUME NEW t PROVE t \in TensorsOf(g) <=> \E n \in DOMAIN g : \E k \in DOMAIN g[n].shapes : t = << n, k >>
      BY DEF TensorsOf
  <2>2. ASSUME NEW t PROVE t \in TensorsOf(f) <=> \E n \in DOMAIN f : \E k \in DOMAIN f[n].shapes : t = << n, k >>
      BY DEF TensorsOf
  <2> QED BY <1>1, <2>1, <2>2
<1>3. \A t \in TensorsOf(f) : t[1] \in DOMAIN f
    BY DEF TensorsOf
<1>4. IsFiniteSet(DOMAIN g)
    BY <1>1, FS_AddElement DEF WellFormed
<1>5. Rooted(g)
  <2> SUFFICES ASSUME NEW T \in SUBSET DOMAIN g, T # {}
               PROVE  \E m \in T : \A j \in DOMAIN g[m].inputs : g[m].inputs[j][1] \notin T
      BY DEF Rooted
  <2> DEFINE U == T \cap DOMAIN f
  <2>1. CASE U # {}
    <3>1. PICK m \in U : \A j \in DOMAIN f[m].inputs : f[m].inputs[j][1] \notin U
        BY <2>1 DEF WellFormed, Rooted
    <3>2. g[m] = f[m]
        BY <1>1
    <3>3. \A j \in DOMAIN f[m].inputs : f[m].inputs[j][1] \in DOMAIN f
        BY <1>3 DEF WellFormed, OneWellFormed
    <3> QED BY <3>1, <3>2, <3>3
  <2>2. CASE U = {}
    <3>1. T = {o.name}
        BY <1>1, <2>2
    <3>2. \A j \in DOMAIN o.inputs : o.inputs[j][1] \in DOMAIN f
        BY <1>3 DEF OneWellFormed
    <3> QED BY <1>1, <3>1, <3>2
  <2> QED BY <2>1, <2>2
<1>6. ASSUME NEW p, OneWellFormed(f, p) PROVE OneWellFormed(g, p)
  <2>1. p.inputs \in Seq(TensorsOf(f)) /\ p.inputs \in Seq(TensorsOf(g))
    <3> DEFINE A == TensorsOf(f)
               B == TensorsOf(g)
    <3>1. p.inputs \in Seq(A)
        BY <1>6 DEF OneWellFormed
    <3>2. A \subseteq B
        BY <1>2
    <3> HIDE DEF A, B
    <3>3. p.inputs \in Seq(B)
        BY <3>1, <3>2
    <3> QED BY <3>1, <3>3 DEF A, B
  <2>2. p.op_type = "LORA" => g[p.inputs[2][1]] = f[p.inputs[2][1]]
    <3> SUFFICES ASSUME p.op_type = "LORA" PROVE g[p.inputs[2][1]] = f[p.inputs[2][1]]
        OBVIOUS
    <3>1. p.inputs[2] \in TensorsOf(f)
        BY <1>6, <2>1 DEF OneWellFormed
    <3> QED BY <1>1, <1>3, <3>1
  <2> QED BY <1>6, <2>1, <2>2 DEF OneWellFormed
<1>7. ASSUME NEW n \in DOMAIN g PROVE g[n].name = n /\ OneWellFormed(g, g[n])
    BY <1>1, <1>6 DEF WellFormed
<1> QED BY <1>1, <1>2, <1>4, <1>5, <1>7 DEF WellFormed, g

\* The same of a graph g that is the operators f and o.
Grown(f, o, g) ==
    /\ WellFormed(g) /\ DOMAIN g = DOMAIN f \cup {o.name}
    /\ TensorsOf(g) = TensorsOf(f) \cup {<< o.name, k >> : k \in DOMAIN o.shapes}

\* One more operator grows the graph.
LEMMA OneMoreGrows ==
    \A f, o, g :
        WellFormed(f) /\ o.name \notin DOMAIN f /\ OneWellFormed(f, o) /\ g = With(f, o)
            => Grown(f, o, g)
<1> SUFFICES ASSUME NEW f, NEW o, WellFormed(f), o.name \notin DOMAIN f, OneWellFormed(f, o)
             PROVE  Grown(f, o, With(f, o))
    BY Zenon
<1> QED BY OneMore DEF Grown

\* Several operators more, each after those before it.
Extended(f, new) ==
    [n \in DOMAIN f \cup { o.name : o \in Range(new) } |->
        IF n \in DOMAIN f THEN f[n] ELSE CHOOSE o \in Range(new) : o.name = n]

\* Two operators with names of their own.
AreNew(f, a, b) ==
    a.name # b.name /\ a.name \notin DOMAIN f /\ b.name \notin DOMAIN f

\* A layer that is one operator adds that one.
LEMMA ExtendedByOne == \A f, a, b : AreNew(f, a, b) => Extended(f, << a >>) = With(f, a)
<1> SUFFICES ASSUME NEW f, NEW a, NEW b, AreNew(f, a, b)
             PROVE  Extended(f, << a >>) = With(f, a)
    OBVIOUS
<1>1. Range(<< a >>) = {a}
  <2>1. DOMAIN << a >> = {1}
      OBVIOUS
  <2> QED BY <2>1 DEF Range
<1>2. (CHOOSE o \in {a} : o.name = a.name) = a
    OBVIOUS
<1> QED BY <1>1, <1>2, Zenon DEF Extended, With

\* A layer that is two operators adds the first and then the second.
LEMMA ExtendedByTwo == \A f, a, b : AreNew(f, a, b) => Extended(f, << a, b >>) = With(With(f, a), b)
<1> SUFFICES ASSUME NEW f, NEW a, NEW b, AreNew(f, a, b)
             PROVE  Extended(f, << a, b >>) = With(With(f, a), b)
    OBVIOUS
<1>1. Range(<< a, b >>) = {a, b}
  <2>1. DOMAIN << a, b >> = {1, 2}
      OBVIOUS
  <2> QED BY <2>1 DEF Range
<1> DEFINE R == Range(<< a, b >>)
           D == DOMAIN f
           E == Extended(f, << a, b >>)
           W == With(With(f, a), b)
<1>2. E = [n \in D \cup { o.name : o \in R } |->
             IF n \in D THEN f[n] ELSE CHOOSE o \in R : o.name = n]
    BY DEF Extended
<1>3. W = [n \in D \cup {a.name, b.name} |->
             IF n \in D THEN f[n] ELSE IF n = a.name THEN a ELSE b]
    BY DEF With
<1>4. /\ (CHOOSE o \in R : o.name = a.name) = a
      /\ (CHOOSE o \in R : o.name = b.name) = b
  <2>1. /\ a \in R /\ \A o \in R : o.name = a.name => o = a
        /\ b \in R /\ \A o \in R : o.name = b.name => o = b
      BY <1>1 DEF AreNew
  <2> HIDE DEF R
  <2> QED BY <2>1
<1>5. { o.name : o \in R } = {a.name, b.name}
    BY <1>1
<1> HIDE DEF R, E, W, D
<1>6. DOMAIN E = D \cup {a.name, b.name} /\ E = [n \in DOMAIN E |-> E[n]]
    BY <1>2, <1>5
<1>7. DOMAIN W = D \cup {a.name, b.name} /\ W = [n \in DOMAIN W |-> W[n]]
    BY <1>3
<1>8. ASSUME NEW n \in D \cup {a.name, b.name} PROVE E[n] = W[n]
  <2>1. E[n] = IF n \in D THEN f[n] ELSE CHOOSE o \in R : o.name = n
      BY <1>2, <1>5
  <2>2. W[n] = IF n \in D THEN f[n] ELSE IF n = a.name THEN a ELSE b
      BY <1>3
  <2>3. CASE n \in D
      BY <2>1, <2>2, <2>3
  <2>4. CASE n \notin D /\ n = a.name
      BY <1>4, <2>1, <2>2, <2>4
  <2>5. CASE n \notin D /\ n # a.name /\ n = b.name
      BY <1>4, <2>1, <2>2, <2>5
  <2> QED BY <2>3, <2>4, <2>5
<1>9. E = W
    BY <1>6, <1>7, <1>8
<1> QED BY <1>9 DEF E, W

-----------------------------------------------------------------------------
(* Creating the operators. *)

\* What the assumption says of the layers of the model at hand.
LEMMA LayerFacts ==
    ASSUME model \in Models
    PROVE  /\ Len(Layers) \in Nat /\ DOMAIN Layers = 1 .. Len(Layers)
           /\ \A i \in 1 .. Len(Layers) :
                 /\ \A k \in 1 .. Len(Layers) : Layers[k].name = Layers[i].name => k = i
                 /\ Len(Layers[i].shapes) \in Nat \ {0}
                 /\ DOMAIN Layers[i].shapes = 1 .. Len(Layers[i].shapes)
                 /\ Len(Layers[i].inputs) \in Nat
                 /\ DOMAIN Layers[i].inputs = 1 .. Len(Layers[i].inputs)
                 /\ Layers[i].op_type # "INPUT" => Len(Layers[i].inputs) # 0
                 /\ \A j \in DOMAIN Layers[i].inputs : \E k \in 1 .. i - 1 :
                       Layers[i].inputs[j] \in {Layers[k].name} \X DOMAIN Layers[k].shapes
                 /\ Layers[i].op_type = "LORA" =>
                       /\ Len(Layers[i].inputs) = 2
                       /\ \E k \in 1 .. i - 1 :
                             /\ Layers[i].inputs[2] \in {Layers[k].name} \X DOMAIN Layers[k].shapes
                             /\ Layers[k].op_type = "LINEAR"
                             /\ Layers[k].transformer_layer_id = Layers[i].transformer_layer_id
                       /\ Len(Layers[i].shapes) = 1
<1>1. ModelAssumption
    BY ModelAssumption
<1>2. Layers \in Seq(Range(Layers))
    BY <1>1 DEF ModelAssumption, Layers
<1>3. Len(Layers) \in Nat /\ DOMAIN Layers = 1 .. Len(Layers)
    BY <1>2
<1>4. ASSUME NEW i \in 1 .. Len(Layers)
      PROVE  /\ \A k \in 1 .. Len(Layers) : Layers[k].name = Layers[i].name => k = i
             /\ Layers[i].shapes \in Seq(Range(Layers[i].shapes)) \ { <<>> }
             /\ Layers[i].inputs \in Seq(Range(Layers[i].inputs))
             /\ Layers[i].op_type # "INPUT" => Layers[i].inputs # <<>>
             /\ \A j \in DOMAIN Layers[i].inputs : \E k \in 1 .. i - 1 :
                   Layers[i].inputs[j] \in {Layers[k].name} \X DOMAIN Layers[k].shapes
             /\ Layers[i].op_type = "LORA" =>
                   /\ Len(Layers[i].inputs) = 2 /\ Len(Layers[i].shapes) = 1
                   /\ \E k \in 1 .. i - 1 :
                         /\ Layers[i].inputs[2] \in {Layers[k].name} \X DOMAIN Layers[k].shapes
                         /\ Layers[k].op_type = "LINEAR"
                         /\ Layers[k].transformer_layer_id = Layers[i].transformer_layer_id
  <2>1. i \in DOMAIN Layers
      BY <1>3
  <2> QED BY <1>1, <1>3, <2>1, Zenon DEF ModelAssumption, Layers
<1>5. ASSUME NEW S, NEW s \in Seq(S)
      PROVE  /\ Len(s) \in Nat /\ DOMAIN s = 1 .. Len(s)
             /\ s # <<>> => Len(s) # 0
    BY <1>5
<1>6. ASSUME NEW i \in 1 .. Len(Layers)
      PROVE  /\ Len(Layers[i].shapes) \in Nat /\ DOMAIN Layers[i].shapes = 1 .. Len(Layers[i].shapes)
             /\ Len(Layers[i].shapes) # 0
             /\ Len(Layers[i].inputs) \in Nat /\ DOMAIN Layers[i].inputs = 1 .. Len(Layers[i].inputs)
             /\ Layers[i].op_type # "INPUT" => Len(Layers[i].inputs) # 0
  <2>1. /\ Layers[i].shapes \in Seq(Range(Layers[i].shapes)) /\ Layers[i].shapes # <<>>
        /\ Layers[i].inputs \in Seq(Range(Layers[i].inputs))
        /\ Layers[i].op_type # "INPUT" => Layers[i].inputs # <<>>
      BY <1>4
  <2> DEFINE s == Layers[i].shapes
             p == Layers[i].inputs
             A == Range(s)
             B == Range(p)
  <2>2. s \in Seq(A) /\ s # <<>> /\ p \in Seq(B)
      BY <2>1
  <2> HIDE DEF A, B, s, p
  <2>3. /\ Len(s) \in Nat /\ DOMAIN s = 1 .. Len(s) /\ Len(s) # 0
        /\ Len(p) \in Nat /\ DOMAIN p = 1 .. Len(p)
        /\ p # <<>> => Len(p) # 0
      BY <2>2, <1>5
  <2> QED BY <2>1, <2>3 DEF s, p
<1>7. ASSUME NEW i \in 1 .. Len(Layers)
      PROVE  Len(Layers[i].shapes) \in Nat \ {0}
    BY <1>6
<1> QED BY <1>3, <1>4, <1>6, <1>7

\* What an operator is created for, of its layer.
Kinds == {"op", "COMBINE", "ALLREDUCE", "PARALLEL_IDENTITY"}

\* A tensor for an output of layer i.
Produced(f, t, i) ==
    /\ t \in TensorsOf(f)
    /\ f[t[1]].transformer_layer_id = Layers[i].transformer_layer_id
    /\ Layers[i].op_type \notin {"INPUT", "LORA"} => f[t[1]].op_type \notin {"INPUT", "LORA"}

\* The operators are those of the layers so far, which have their tensors.
Created(f, tensors, before, n) ==
    /\ \A o \in DOMAIN f : \E i \in 1 .. n - 1, kind \in Kinds : o = << Layers[i].name, kind >>
    /\ \A i \in 1 .. n - 1 : \A k \in DOMAIN Layers[i].shapes :
          LET t == << Layers[i].name, k >>
          IN  /\ t \in DOMAIN tensors /\ Produced(f, tensors[t], i)
              /\ t \in DOMAIN before => Produced(f, before[t], i)
    /\ \A t \in DOMAIN before : \E i \in 1 .. n - 1 : t[1] = Layers[i].name

\* The parts of NewOperators.
From(i, t) ==
    IF Layers[i].op_type = "LORA" /\ t \in DOMAIN before_allreduce
    THEN before_allreduce[t] ELSE parallel_tensor[t]
\* The tensors that layer i reads.
NewInputs(i) == [j \in DOMAIN Layers[i].inputs |-> From(i, Layers[i].inputs[j])]
\* The parallel operator before the layer's own, when it needs one.
Before(i) == ParallelOp("COMBINE", i, op[NewInputs(i)[1][1]], NewInputs(i)[1][2])
\* The layer's own operator.
Own(i) ==
    IF need_to_add_combine(i)
    THEN LayerOperator(i, << << Before(i).name, 1 >> >>, Before(i).sharding)
    ELSE LayerOperator(i, NewInputs(i), [j \in DOMAIN NewInputs(i) |-> Sharding(NewInputs(i)[j])])
\* The parallel operator after the layer's own, when it needs one.
After(i) ==
    IF need_to_add_allreduce(i) THEN ParallelOp("ALLREDUCE", i, Own(i), 1)
    ELSE ParallelOp("PARALLEL_IDENTITY", i, Own(i), Len(Layers[i].shapes))

\* A layer is its own operator, with at most one parallel operator before or after it
\* (model.cc:3501-3609); an adapter has none before it.
LEMMA NewOperatorsAre ==
    ASSUME NEW i \in Nat
    PROVE  \/ NewOperators(i) = << Own(i) >> /\ ~need_to_add_combine(i)
           \/ /\ NewOperators(i) = << Before(i), Own(i) >> /\ need_to_add_combine(i)
              /\ Layers[i].op_type \in {"SOFTMAX", "ARGMAX", "ARG_TOPK"}
           \/ /\ NewOperators(i) = << Own(i), After(i) >> /\ ~need_to_add_combine(i) /\ TensorParallel
              /\ Layers[i].op_type \notin {"LORA", "SOFTMAX", "ARGMAX", "ARG_TOPK"}
<1> DEFINE before == IF need_to_add_combine(i) THEN << Before(i) >> ELSE <<>>
           after == IF need_to_add_allreduce(i) THEN << ParallelOp("ALLREDUCE", i, Own(i), 1) >>
                    ELSE IF need_to_add_parallel_identity(i)
                    THEN << ParallelOp("PARALLEL_IDENTITY", i, Own(i), Len(Layers[i].shapes)) >>
                    ELSE <<>>
<1>1. (before = <<>>) = ~need_to_add_combine(i)
    OBVIOUS
<1>2. NewOperators(i) = before \o << Own(i) >> \o after
  <2>1. before # <<>> => before[1] = Before(i)
      OBVIOUS
  <2>2. Own(i) = IF before = <<>>
                 THEN LayerOperator(i, NewInputs(i), [j \in DOMAIN NewInputs(i) |-> Sharding(NewInputs(i)[j])])
                 ELSE LayerOperator(i, << << before[1].name, 1 >> >>, before[1].sharding)
    <3>1. CASE need_to_add_combine(i)
      <4>1. before # <<>> /\ before[1] = Before(i)
          BY <3>1
      <4> HIDE DEF before
      <4> QED BY <3>1, <4>1 DEF Own
    <3>2. CASE ~need_to_add_combine(i)
      <4>1. before = <<>>
          BY <3>2
      <4> HIDE DEF before
      <4> QED BY <3>2, <4>1 DEF Own
    <3> QED BY <3>1, <3>2
  <2> DEFINE bf == IF need_to_add_combine(i)
                   THEN << ParallelOp("COMBINE", i, op[NewInputs(i)[1][1]], NewInputs(i)[1][2]) >>
                   ELSE <<>>
             ow == IF bf = <<>>
                   THEN LayerOperator(i, NewInputs(i),
                                      [j \in DOMAIN NewInputs(i) |-> Sharding(NewInputs(i)[j])])
                   ELSE LayerOperator(i, << << bf[1].name, 1 >> >>, bf[1].sharding)
             af == IF need_to_add_allreduce(i) THEN << ParallelOp("ALLREDUCE", i, ow, 1) >>
                   ELSE IF need_to_add_parallel_identity(i)
                   THEN << ParallelOp("PARALLEL_IDENTITY", i, ow, Len(Layers[i].shapes)) >>
                   ELSE <<>>
  <2>3. NewOperators(i) = bf \o << ow >> \o af
      BY Zenon DEF NewOperators, NewInputs, From
  <2>4. bf = before
      BY Zenon DEF Before
  <2> HIDE DEF bf, before
  <2>5. ow = Own(i)
      BY <2>2, <2>4
  <2> HIDE DEF ow
  <2>6. af = after
      BY <2>5
  <2> QED BY <2>3, <2>4, <2>5, <2>6, Zenon
<1>3. /\ need_to_add_combine(i) => Layers[i].op_type \in {"SOFTMAX", "ARGMAX", "ARG_TOPK"}
      /\ need_to_add_allreduce(i) =>
            Layers[i].op_type \in Attentions \cup {"LINEAR"}
      /\ need_to_add_parallel_identity(i) =>
            Layers[i].op_type \in {"RMS_NORM", "RESIDUAL_RMS_NORM", "LAYERNORM", "RESIDUAL_LAYERNORM"}
      /\ need_to_add_allreduce(i) \/ need_to_add_parallel_identity(i) => TensorParallel
    BY Zenon DEF need_to_add_combine, need_to_add_allreduce, need_to_add_parallel_identity
<1>4. after = IF need_to_add_allreduce(i) \/ need_to_add_parallel_identity(i)
              THEN << After(i) >> ELSE <<>>
    BY Zenon DEF After
<1> HIDE DEF before, after
<1>5. \A a, b : /\ << >> \o << a >> \o << >> = << a >>
                /\ << b >> \o << a >> \o << >> = << b, a >>
                /\ << >> \o << a >> \o << b >> = << a, b >>
  <2> SUFFICES ASSUME NEW S, NEW a \in S, NEW b \in S
               PROVE  /\ << >> \o << a >> \o << >> = << a >>
                      /\ << b >> \o << a >> \o << >> = << b, a >>
                      /\ << >> \o << a >> \o << b >> = << a, b >>
    <3> TAKE a, b
    <3>1. a \in {a, b} /\ b \in {a, b}
        OBVIOUS
    <3> QED BY <3>1
  <2>1. ASSUME NEW s \in Seq(S) PROVE << >> \o s = s /\ s \o << >> = s
      BY ConcatEmptySeq
  <2>2. << b >> \o << a >> = << b, a >> /\ << a >> \o << b >> = << a, b >>
    <3> DEFINE s == << a >>
               t == << b >>
    <3>1. s \in Seq(S) /\ t \in Seq(S) /\ Len(s) = 1 /\ Len(t) = 1 /\ s[1] = a /\ t[1] = b
        OBVIOUS
    <3>2. /\ s \o t \in Seq(S) /\ Len(s \o t) = 2 /\ (s \o t)[1] = a /\ (s \o t)[2] = b
          /\ t \o s \in Seq(S) /\ Len(t \o s) = 2 /\ (t \o s)[1] = b /\ (t \o s)[2] = a
      <4> HIDE DEF s, t
      <4>1. Joined(s \o t, s, t, S, 1, 1) /\ Joined(t \o s, t, s, S, 1, 1)
        <5>1. Joined(s \o t, s, t, S, Len(s), Len(t)) /\ Joined(t \o s, t, s, S, Len(t), Len(s))
            BY <3>1, ConcatFacts, Zenon
        <5> QED BY <3>1, <5>1
      <4> DEFINE u == s \o t
                 v == t \o s
      <4> HIDE DEF u, v
      <4>2. Joined(u, s, t, S, 1, 1) /\ Joined(v, t, s, S, 1, 1)
          BY <4>1 DEF u, v
      <4>3. 1 \in 1 .. 1 /\ 1 + 1 = 2
          OBVIOUS
      <4> QED BY <3>1, <4>2, <4>3 DEF Joined, u, v
    <3> HIDE DEF s, t
    <3>3. ASSUME NEW u \in Seq(S), Len(u) = 2 PROVE u = << u[1], u[2] >>
        BY <3>3
    <3>4. t \o s = << b, a >> /\ s \o t = << a, b >>
        BY <3>2, <3>3
    <3> QED BY <3>4 DEF s, t
  <2>3. /\ << >> \o << a >> = << a >> /\ << a >> \o << >> = << a >>
        /\ << b, a >> \o << >> = << b, a >>
    <3>1. << a >> \in Seq(S) /\ << b, a >> \in Seq(S)
        OBVIOUS
    <3> QED BY <2>1, <3>1, Zenon
  <2> QED BY <2>2, <2>3, Zenon
<1>6. CASE need_to_add_combine(i)
  <2>1. ~need_to_add_allreduce(i) /\ ~need_to_add_parallel_identity(i)
      BY <1>3, <1>6 DEF Attentions
  <2>2. before = << Before(i) >> /\ after = <<>>
      BY <1>4, <1>6, <2>1 DEF before
  <2> QED BY <1>2, <1>3, <1>5, <1>6, <2>2
<1>7. CASE ~need_to_add_combine(i) /\ (need_to_add_allreduce(i) \/ need_to_add_parallel_identity(i))
  <2>1. before = << >> /\ after = << After(i) >>
      BY <1>4, <1>7 DEF before
  <2>2. Layers[i].op_type \notin {"LORA", "SOFTMAX", "ARGMAX", "ARG_TOPK"}
      BY <1>3, <1>7 DEF Attentions
  <2> QED BY <1>2, <1>3, <1>5, <1>7, <2>1, <2>2
<1>8. CASE ~need_to_add_combine(i) /\ ~need_to_add_allreduce(i) /\ ~need_to_add_parallel_identity(i)
  <2>1. before = << >> /\ after = <<>>
      BY <1>4, <1>8 DEF before
  <2> QED BY <1>2, <1>5, <1>8, <2>1
<1> QED BY <1>6, <1>7, <1>8

\* The operators of a layer have names of their own.
LEMMA NewNames ==
    ASSUME NEW i \in Nat
    PROVE  LET own == Own(i)  before == Before(i)  after == After(i)
           IN  /\ own.name = << Layers[i].name, "op" >> /\ own.op_type = Layers[i].op_type
               /\ own.shapes = Layers[i].shapes
               /\ own.transformer_layer_id = Layers[i].transformer_layer_id
               /\ own.inputs = IF need_to_add_combine(i) THEN << << before.name, 1 >> >> ELSE NewInputs(i)
               /\ before.name = << Layers[i].name, "COMBINE" >> /\ before.op_type = "COMBINE"
               /\ after.op_type \in {"ALLREDUCE", "PARALLEL_IDENTITY"}
               /\ after.name = << Layers[i].name, after.op_type >>
               /\ after.transformer_layer_id = own.transformer_layer_id
               /\ \E k \in {1, Len(Layers[i].shapes)} :
                     after.inputs = << << own.name, k >> >> /\ after.shapes = << own.shapes[k] >>
               /\ before.inputs = << << op[NewInputs(i)[1][1]].name, NewInputs(i)[1][2] >> >>
               /\ before.shapes = << op[NewInputs(i)[1][1]].shapes[NewInputs(i)[1][2]] >>
<1> DEFINE own == Own(i)
           before == Before(i)
           after == After(i)
<1>1. /\ own.name = << Layers[i].name, "op" >> /\ own.op_type = Layers[i].op_type
      /\ own.shapes = Layers[i].shapes
      /\ own.transformer_layer_id = Layers[i].transformer_layer_id
      /\ own.inputs = IF need_to_add_combine(i) THEN << << before.name, 1 >> >> ELSE NewInputs(i)
  <2> HIDE DEF before
  <2>1. CASE need_to_add_combine(i)
    <3>1. own = LayerOperator(i, << << before.name, 1 >> >>, before.sharding)
        BY <2>1 DEF Own, before
    <3> QED BY <2>1, <3>1 DEF LayerOperator
  <2>2. CASE ~need_to_add_combine(i)
    <3>1. own = LayerOperator(i, NewInputs(i), [j \in DOMAIN NewInputs(i) |-> Sharding(NewInputs(i)[j])])
        BY <2>2 DEF Own
    <3> QED BY <2>2, <3>1 DEF LayerOperator
  <2> QED BY <2>1, <2>2
<1>2. /\ before.name = << Layers[i].name, "COMBINE" >> /\ before.op_type = "COMBINE"
      /\ before.inputs = << << op[NewInputs(i)[1][1]].name, NewInputs(i)[1][2] >> >>
      /\ before.shapes = << op[NewInputs(i)[1][1]].shapes[NewInputs(i)[1][2]] >>
    BY DEF Before, ParallelOp
<1>3. /\ after.op_type \in {"ALLREDUCE", "PARALLEL_IDENTITY"}
      /\ after.name = << Layers[i].name, after.op_type >>
      /\ after.transformer_layer_id = own.transformer_layer_id
      /\ \E k \in {1, Len(Layers[i].shapes)} :
            after.inputs = << << own.name, k >> >> /\ after.shapes = << own.shapes[k] >>
  <2> HIDE DEF own
  <2>1. CASE need_to_add_allreduce(i)
    <3>1. after = ParallelOp("ALLREDUCE", i, own, 1)
        BY <2>1 DEF After, own
    <3> HIDE DEF after
    <3> QED BY <3>1 DEF ParallelOp
  <2>2. CASE ~need_to_add_allreduce(i)
    <3>1. after = ParallelOp("PARALLEL_IDENTITY", i, own, Len(Layers[i].shapes))
        BY <2>2 DEF After, own
    <3> HIDE DEF after
    <3> QED BY <3>1 DEF ParallelOp
  <2> QED BY <2>1, <2>2
<1> QED BY <1>1, <1>2, <1>3

\* What the operator of layer i takes is produced by the layers before it.
LEMMA NewInputsProduced ==
    ASSUME model \in Models, NEW i \in 1 .. Len(Layers), WellFormed(op),
           Created(op, parallel_tensor, before_allreduce, i)
    PROVE  /\ NewInputs(i) \in Seq(TensorsOf(op))
           /\ DOMAIN NewInputs(i) = DOMAIN Layers[i].inputs
           /\ Layers[i].op_type # "INPUT" => 1 \in DOMAIN NewInputs(i)
           /\ Layers[i].op_type = "LORA" =>
                 /\ 2 \in DOMAIN NewInputs(i)
                 /\ op[NewInputs(i)[2][1]].op_type \notin {"INPUT", "LORA"}
                 /\ op[NewInputs(i)[2][1]].transformer_layer_id = Layers[i].transformer_layer_id
<1>1. /\ Len(Layers[i].inputs) \in Nat
      /\ DOMAIN Layers[i].inputs = 1 .. Len(Layers[i].inputs)
      /\ Layers[i].op_type # "INPUT" => Len(Layers[i].inputs) # 0
      /\ \A j \in DOMAIN Layers[i].inputs : \E k \in 1 .. i - 1 :
            Layers[i].inputs[j] \in {Layers[k].name} \X DOMAIN Layers[k].shapes
      /\ Layers[i].op_type = "LORA" =>
            /\ Len(Layers[i].inputs) = 2
            /\ \E k \in 1 .. i - 1 :
                  /\ Layers[i].inputs[2] \in {Layers[k].name} \X DOMAIN Layers[k].shapes
                  /\ Layers[k].op_type = "LINEAR"
                  /\ Layers[k].transformer_layer_id = Layers[i].transformer_layer_id
    BY LayerFacts
<1>2. ASSUME NEW k \in 1 .. i - 1, NEW t \in {Layers[k].name} \X DOMAIN Layers[k].shapes
      PROVE  Produced(op, From(i, t), k)
  <2>1. PICK q \in DOMAIN Layers[k].shapes : t = << Layers[k].name, q >>
      OBVIOUS
  <2> QED BY <2>1, Zenon DEF Created, From
<1>3. ASSUME NEW j \in DOMAIN Layers[i].inputs PROVE NewInputs(i)[j] \in TensorsOf(op)
  <2>1. PICK k \in 1 .. i - 1 : Layers[i].inputs[j] \in {Layers[k].name} \X DOMAIN Layers[k].shapes
      BY <1>1
  <2>2. Produced(op, From(i, Layers[i].inputs[j]), k)
      BY <1>2, <2>1
  <2> QED BY <2>2 DEF Produced, NewInputs
<1>4. DOMAIN NewInputs(i) = DOMAIN Layers[i].inputs
    BY DEF NewInputs
<1>5. NewInputs(i) \in Seq(TensorsOf(op))
  <2> DEFINE S == TensorsOf(op)
             n == Len(Layers[i].inputs)
             s == NewInputs(i)
  <2>1. n \in Nat /\ s = [j \in 1 .. n |-> s[j]] /\ \A j \in 1 .. n : s[j] \in S
      BY <1>1, <1>3 DEF NewInputs
  <2> HIDE DEF S, n, s
  <2>2. s \in Seq(S)
      BY <2>1
  <2> QED BY <2>2 DEF S, s
<1>6. ASSUME Layers[i].op_type = "LORA"
      PROVE  /\ 2 \in DOMAIN NewInputs(i)
             /\ op[NewInputs(i)[2][1]].op_type \notin {"INPUT", "LORA"}
             /\ op[NewInputs(i)[2][1]].transformer_layer_id = Layers[i].transformer_layer_id
  <2>1. PICK k \in 1 .. i - 1 :
               /\ Layers[i].inputs[2] \in {Layers[k].name} \X DOMAIN Layers[k].shapes
               /\ Layers[k].op_type = "LINEAR"
               /\ Layers[k].transformer_layer_id = Layers[i].transformer_layer_id
      BY <1>1, <1>6
  <2>2. Produced(op, From(i, Layers[i].inputs[2]), k)
      BY <1>2, <2>1
  <2>3. 2 \in DOMAIN Layers[i].inputs
      BY <1>1, <1>6
  <2>4. NewInputs(i)[2] = From(i, Layers[i].inputs[2])
      BY <2>3 DEF NewInputs
  <2> QED BY <1>4, <2>1, <2>2, <2>3, <2>4 DEF Produced
<1>7. Layers[i].op_type # "INPUT" => 1 \in DOMAIN NewInputs(i)
    BY <1>1, <1>4
<1> QED BY <1>4, <1>5, <1>6, <1>7

\* The operators of layer i are over tensors that there are, and produce its outputs.
LEMMA LayerCreated ==
    ASSUME model \in Models, NEW i \in 1 .. Len(Layers), WellFormed(op),
           Created(op, parallel_tensor, before_allreduce, i)
    PROVE  LET new == NewOperators(i)
               own == << Layers[i].name, "op" >>
               names == [k \in DOMAIN new |-> new[k].name]
               g == Extended(op, new)
           IN  /\ WellFormed(g) /\ DOMAIN g = Names \cup Range(names)
               /\ \A n \in Names : g[n] = op[n]
               /\ names \in Seq(DOMAIN g) /\ IsInjective(names) /\ DOMAIN names = DOMAIN new
               /\ Range(names) \cap Names = {}
               /\ Range(names) \subseteq {Layers[i].name} \X Kinds
               /\ \A k \in DOMAIN Layers[i].shapes : Produced(g, << own, k >>, i)
               /\ Last(new).name # own => Produced(g, << Last(new).name, 1 >>, i)
               /\ Last(new).op_type = "LORA" => new = << new[1] >>
<1> DEFINE new == NewOperators(i)
           name == Layers[i].name
           own == << name, "op" >>
           names == [k \in DOMAIN new |-> new[k].name]
           g == Extended(op, new)
           o == Own(i)
           b == Before(i)
           a == After(i)
           inputs == NewInputs(i)
<1>0. Names = DOMAIN op
    BY DEF Names
<1>1. ASSUME NEW kind \in Kinds PROVE << name, kind >> \notin Names
  <2> SUFFICES ASSUME << name, kind >> \in Names PROVE FALSE
      OBVIOUS
  <2>1. PICK k \in 1 .. i - 1 : name = Layers[k].name
      BY <1>0 DEF Created
  <2>2. k \in 1 .. Len(Layers) /\ k # i
      BY LayerFacts
  <2> QED BY <2>1, <2>2, LayerFacts
<1>2. /\ inputs \in Seq(TensorsOf(op))
      /\ Layers[i].op_type # "INPUT" => 1 \in DOMAIN inputs
      /\ Layers[i].op_type = "LORA" =>
            /\ 2 \in DOMAIN inputs
            /\ op[inputs[2][1]].op_type \notin {"INPUT", "LORA"}
            /\ op[inputs[2][1]].transformer_layer_id = Layers[i].transformer_layer_id
    BY NewInputsProduced
<1>3. /\ o.name = own /\ o.op_type = Layers[i].op_type /\ o.shapes = Layers[i].shapes
      /\ o.transformer_layer_id = Layers[i].transformer_layer_id
      /\ o.inputs = IF need_to_add_combine(i) THEN << << b.name, 1 >> >> ELSE inputs
      /\ b.name = << name, "COMBINE" >>
      /\ b.op_type = "COMBINE"
      /\ a.op_type \in {"ALLREDUCE", "PARALLEL_IDENTITY"} /\ a.name = << name, a.op_type >>
      /\ a.transformer_layer_id = o.transformer_layer_id
      /\ \E k \in {1, Len(Layers[i].shapes)} :
            a.inputs = << << o.name, k >> >> /\ a.shapes = << o.shapes[k] >>
      /\ b.inputs = << << op[inputs[1][1]].name, inputs[1][2] >> >>
      /\ b.shapes = << op[inputs[1][1]].shapes[inputs[1][2]] >>
  <2>1. i \in Nat
      OBVIOUS
  <2> QED BY <2>1, NewNames
<1>4. /\ o.name \notin Names /\ b.name \notin Names /\ a.name \notin Names
      /\ o.name # b.name /\ o.name # a.name /\ b.name # a.name
      /\ {o.name, b.name, a.name} \subseteq {name} \X Kinds
    BY <1>1, <1>3 DEF Kinds
<1>5. Len(o.shapes) \in Nat \ {0} /\ DOMAIN o.shapes = 1 .. Len(o.shapes)
    BY <1>3, LayerFacts
<1>6. \/ new = << o >> /\ ~need_to_add_combine(i)
      \/ /\ new = << b, o >> /\ need_to_add_combine(i)
         /\ Layers[i].op_type \in {"SOFTMAX", "ARGMAX", "ARG_TOPK"}
      \/ /\ new = << o, a >> /\ ~need_to_add_combine(i)
         /\ Layers[i].op_type \notin {"LORA", "SOFTMAX", "ARGMAX", "ARG_TOPK"}
  <2>1. i \in Nat
      OBVIOUS
  <2> QED BY <2>1, NewOperatorsAre
<1> HIDE DEF new, own, g, o, b, a, inputs
<1>7. ASSUME ~need_to_add_combine(i) PROVE OneWellFormed(op, o)
    BY <1>2, <1>3, <1>5, <1>7 DEF OneWellFormed
<1>8. ASSUME NEW f, WellFormed(f), NEW m, f[m] = o, m = o.name, m \in DOMAIN f PROVE OneWellFormed(f, a)
  <2>1. PICK k \in {1, Len(Layers[i].shapes)} :
            a.inputs = << << o.name, k >> >> /\ a.shapes = << o.shapes[k] >>
      BY <1>3
  <2>2. << o.name, k >> \in TensorsOf(f)
      BY <1>3, <1>5, <1>8, <2>1 DEF TensorsOf
  <2>3. a.inputs \in Seq(TensorsOf(f))
      BY <2>1, <2>2
  <2>4. Len(a.shapes) = 1 /\ DOMAIN a.shapes = 1 .. 1
      BY <2>1
  <2>5. a.op_type # "LORA"
      BY <1>3
  <2> QED BY <2>3, <2>4, <2>5 DEF OneWellFormed
<1>9. ASSUME Layers[i].op_type # "INPUT" PROVE OneWellFormed(op, b)
  <2>1. inputs[1] \in TensorsOf(op)
      BY <1>2, <1>9
  <2>2. op[inputs[1][1]].name = inputs[1][1] /\ inputs[1] = << inputs[1][1], inputs[1][2] >>
      BY <2>1 DEF TensorsOf, WellFormed
  <2>3. b.inputs = << inputs[1] >>
      BY <1>3, <2>2
  <2>4. b.inputs \in Seq(TensorsOf(op))
      BY <2>1, <2>3
  <2>5. Len(b.shapes) = 1 /\ DOMAIN b.shapes = 1 .. 1
      BY <1>3
  <2>6. b.op_type # "LORA"
      BY <1>3
  <2> QED BY <2>4, <2>5, <2>6 DEF OneWellFormed
<1>10. CASE new = << o >> /\ ~need_to_add_combine(i)
  <2>1. g = With(op, o)
    <3>1. AreNew(op, o, a)
        BY <1>0, <1>4 DEF AreNew
    <3>2. Extended(op, << o >>) = With(op, o)
        BY <3>1, ExtendedByOne, Zenon
    <3> QED BY <3>2, <1>10, Zenon DEF g
  <2>2. /\ WellFormed(g) /\ DOMAIN g = Names \cup {o.name}
        /\ TensorsOf(g) = TensorsOf(op) \cup {<< o.name, k >> : k \in DOMAIN o.shapes}
      BY <1>0, <1>4, <1>7, <1>10, <2>1, OneMore
  <2>3. DOMAIN new = 1 .. 1 /\ new[1] = o /\ Last(new) = o
      BY <1>10 DEF Last
  <2>4. names = << o.name >>
      BY <2>3
  <2>5. Range(names) = {o.name} /\ names \in Seq(DOMAIN g) /\ IsInjective(names)
    <3>1. DOMAIN << o.name >> = {1}
        OBVIOUS
    <3> QED BY <2>2, <2>4, <3>1 DEF Range, IsInjective
  <2>6. g[o.name] = o /\ \A n \in Names : g[n] = op[n]
      BY <1>0, <1>4, <2>1 DEF With
  <2>7. \A k \in DOMAIN Layers[i].shapes : Produced(g, << own, k >>, i)
      BY <1>3, <2>2, <2>6 DEF Produced
  <2> QED BY <1>3, <1>4, <1>10, <2>2, <2>3, <2>5, <2>6, <2>7 DEF new, g, own, o
<1>11. CASE /\ new = << b, o >> /\ need_to_add_combine(i)
            /\ Layers[i].op_type \in {"SOFTMAX", "ARGMAX", "ARG_TOPK"}
  <2> DEFINE f == With(op, b)
  <2>1. g = With(f, o)
    <3>0. AreNew(op, b, o)
        BY <1>0, <1>4 DEF AreNew
    <3>1. Extended(op, << b, o >>) = With(With(op, b), o)
      <4> HIDE DEF f
      <4> QED BY <3>0, ExtendedByTwo
    <3> QED BY <3>1, <1>11, Zenon DEF g
  <2>2. /\ WellFormed(f) /\ DOMAIN f = Names \cup {b.name}
        /\ TensorsOf(f) = TensorsOf(op) \cup {<< b.name, k >> : k \in DOMAIN b.shapes}
      BY <1>0, <1>4, <1>9, <1>11, OneMore
  <2>3. OneWellFormed(f, o)
    <3>1. << b.name, 1 >> \in TensorsOf(f)
        BY <1>3, <2>2
    <3>2. o.inputs = << << b.name, 1 >> >>
        BY <1>3, <1>11
    <3>3. o.op_type # "LORA"
        BY <1>3, <1>11
    <3> HIDE DEF f
    <3>4. o.inputs \in Seq(TensorsOf(f))
        BY <3>1, <3>2
    <3> QED BY <1>5, <3>3, <3>4 DEF OneWellFormed
  <2>4. /\ WellFormed(g) /\ DOMAIN g = Names \cup {b.name, o.name}
        /\ TensorsOf(g) = TensorsOf(f) \cup {<< o.name, k >> : k \in DOMAIN o.shapes}
    <3> HIDE DEF f
    <3>1. o.name \notin DOMAIN f
        BY <1>4, <2>2
    <3>2. /\ WellFormed(g) /\ DOMAIN g = DOMAIN f \cup {o.name}
          /\ TensorsOf(g) = TensorsOf(f) \cup {<< o.name, k >> : k \in DOMAIN o.shapes}
      <4> HIDE DEF o, g
      <4>1. Grown(f, o, g)
          BY <2>1, <2>2, <2>3, <3>1, OneMoreGrows, Zenon
      <4> QED BY <4>1 DEF Grown
    <3> QED BY <2>2, <3>2
  <2>5. DOMAIN new = 1 .. 2 /\ new[1] = b /\ new[2] = o /\ Last(new) = o
      BY <1>11 DEF Last
  <2>6. names = << b.name, o.name >>
      BY <2>5
  <2>7. Range(names) = {b.name, o.name} /\ names \in Seq(DOMAIN g) /\ IsInjective(names)
    <3>1. DOMAIN << b.name, o.name >> = {1, 2}
        OBVIOUS
    <3> QED BY <1>4, <2>4, <2>6, <3>1 DEF Range, IsInjective
  <2>8. g[o.name] = o /\ \A n \in Names : g[n] = op[n]
      BY <1>4, <2>1, <2>2 DEF With
  <2>9. \A k \in DOMAIN Layers[i].shapes : Produced(g, << own, k >>, i)
      BY <1>3, <2>4, <2>8 DEF Produced
  <2> QED BY <1>3, <1>4, <1>11, <2>4, <2>5, <2>7, <2>8, <2>9 DEF new, g, own, o
<1>12. CASE /\ new = << o, a >> /\ ~need_to_add_combine(i)
            /\ Layers[i].op_type \notin {"LORA", "SOFTMAX", "ARGMAX", "ARG_TOPK"}
  <2> DEFINE f == With(op, o)
  <2>1. g = With(f, a)
    <3>0. AreNew(op, o, a)
        BY <1>0, <1>4 DEF AreNew
    <3>1. Extended(op, << o, a >>) = With(With(op, o), a)
      <4> HIDE DEF f
      <4> QED BY <3>0, ExtendedByTwo
    <3> QED BY <3>1, <1>12, Zenon DEF g
  <2>2. /\ WellFormed(f) /\ DOMAIN f = Names \cup {o.name}
        /\ TensorsOf(f) = TensorsOf(op) \cup {<< o.name, k >> : k \in DOMAIN o.shapes}
      BY <1>0, <1>4, <1>7, <1>12, OneMore
  <2>3. f[o.name] = o
      BY <1>0, <1>4 DEF With
  <2> HIDE DEF f
  <2>4. OneWellFormed(f, a)
      BY <1>8, <2>2, <2>3
  <2>5. /\ WellFormed(g) /\ DOMAIN g = Names \cup {o.name, a.name}
        /\ TensorsOf(g) = TensorsOf(f) \cup {<< a.name, k >> : k \in DOMAIN a.shapes}
    <3>1. a.name \notin DOMAIN f
        BY <1>4, <2>2
    <3>2. /\ WellFormed(g) /\ DOMAIN g = DOMAIN f \cup {a.name}
          /\ TensorsOf(g) = TensorsOf(f) \cup {<< a.name, k >> : k \in DOMAIN a.shapes}
      <4> HIDE DEF a, g
      <4>1. Grown(f, a, g)
          BY <2>1, <2>2, <2>4, <3>1, OneMoreGrows, Zenon
      <4> QED BY <4>1 DEF Grown
    <3> QED BY <2>2, <3>2
  <2>6. DOMAIN new = 1 .. 2 /\ new[1] = o /\ new[2] = a /\ Last(new) = a
      BY <1>12 DEF Last
  <2>7. names = << o.name, a.name >>
      BY <2>6
  <2>8. Range(names) = {o.name, a.name} /\ names \in Seq(DOMAIN g) /\ IsInjective(names)
    <3>1. DOMAIN << o.name, a.name >> = {1, 2}
        OBVIOUS
    <3> QED BY <1>4, <2>5, <2>7, <3>1 DEF Range, IsInjective
  <2>9. g[o.name] = o /\ g[a.name] = a /\ \A n \in Names : g[n] = op[n]
    <3>1. \A n \in DOMAIN f : g[n] = f[n]
        BY <2>1 DEF With
    <3>2. \A n \in Names : f[n] = op[n]
        BY <1>0 DEF f, With
    <3>3. g[a.name] = a
        BY <1>4, <2>1, <2>2 DEF With
    <3> QED BY <2>2, <2>3, <3>1, <3>2, <3>3
  <2>10. \A k \in DOMAIN Layers[i].shapes : Produced(g, << own, k >>, i)
      BY <1>3, <2>2, <2>5, <2>9 DEF Produced
  <2>11. Produced(g, << a.name, 1 >>, i)
    <3>1. 1 \in DOMAIN a.shapes
        BY <1>3
    <3>2. a.op_type \notin {"INPUT", "LORA"}
        BY <1>3
    <3> QED BY <1>3, <2>5, <2>9, <3>1, <3>2 DEF Produced
  <2>12. Last(new).op_type # "LORA"
      BY <1>3, <2>6
  <2> QED BY <1>3, <1>4, <1>12, <2>5, <2>6, <2>8, <2>9, <2>10, <2>11, <2>12 DEF new, g, own, o, a
<1> QED BY <1>6, <1>10, <1>11, <1>12

\* The groups hold all operators, each once.
Grouping(groups, names) ==
    groups \in Seq(Seq(names)) /\ Apart(groups) /\ Elements(groups) = names

\* The list of operators after those of a layer are added to it.
LEMMA PushedKeeps ==
    ASSUME NEW S, NEW new, NEW names \in Seq(S), DOMAIN names = DOMAIN new,
           names = [k \in DOMAIN new |-> new[k].name],
           IsInjective(names), Names \subseteq S, Range(names) \cap Names = {},
           Names \cup Range(names) = S,
           Grouping(operators, Names),
           Last(new).op_type = "LORA" => new = << new[1] >>
    PROVE  Grouping(Pushed(new), S)
<1> DEFINE groups == [k \in DOMAIN names |-> << names[k] >>]
           G == Seq(S)
<1>1. groups \in Seq(Seq(S)) /\ Apart(groups) /\ Elements(groups) = Range(names)
    BY SingleGroups
<1>2. operators \in Seq(Seq(S)) /\ Apart(operators) /\ Elements(operators) = Names
  <2> DEFINE H == Seq(Names)
  <2>1. H \subseteq G
      OBVIOUS
  <2>2. operators \in Seq(H)
      BY DEF Grouping
  <2> HIDE DEF G, H
  <2>3. operators \in Seq(G)
      BY <2>1, <2>2
  <2> QED BY <2>3 DEF Grouping, G
<1> DEFINE pushed == [k \in DOMAIN new |-> << new[k].name >>]
<1>3. groups = pushed
    OBVIOUS
<1> HIDE DEF groups
<1>4. Pushed(new) = IF /\ Last(new).op_type = "LORA" /\ operators # <<>>
                       /\ op[Last(operators)[1]].op_type = "ALLREDUCE"
                    THEN InsertAt(operators, Len(operators), groups[1])
                    ELSE operators \o groups
  <2>1. Pushed(new) = IF /\ Last(new).op_type = "LORA" /\ operators # <<>>
                         /\ op[Last(operators)[1]].op_type = "ALLREDUCE"
                      THEN InsertAt(operators, Len(operators), pushed[1])
                      ELSE operators \o pushed
      BY Zenon DEF Pushed
  <2> HIDE DEF pushed
  <2> QED BY <1>3, <2>1, Zenon
<1>5. Elements(operators) \cap Elements(groups) = {}
    BY <1>1, <1>2
<1>6. Elements(operators) \cup Elements(groups) = S
    BY <1>1, <1>2
<1>7. CASE /\ Last(new).op_type = "LORA" /\ operators # <<>>
           /\ op[Last(operators)[1]].op_type = "ALLREDUCE"
  <2>1. new = << new[1] >>
      BY <1>7
  <2>2. DOMAIN new = {1}
      BY <2>1
  <2>3. DOMAIN groups = {1} /\ groups[1] = << names[1] >> /\ names[1] \in S
      BY <2>2 DEF groups
  <2> DEFINE g == groups[1]
  <2>4. g \in Seq(S)
      BY <2>3
  <2>5. Range(g) = Elements(groups)
      BY <2>3 DEF Elements
  <2>6. IsInjective(g)
    <3>1. DOMAIN g = {1}
        BY <2>3
    <3> HIDE DEF g
    <3> QED BY <3>1 DEF IsInjective
  <2>7. Range(g) \cap Elements(operators) = {}
      BY <1>5, <2>5
  <2> HIDE DEF g
  <2> DEFINE u == InsertAt(operators, Len(operators), g)
  <2>8. /\ u \in Seq(Seq(S)) /\ Apart(u)
        /\ Elements(u) = Elements(operators) \cup Range(g)
      BY <1>2, <1>7, <2>4, <2>6, <2>7, GroupInserted
  <2>9. Pushed(new) = u
      BY <1>4, <1>7 DEF g
  <2> HIDE DEF u
  <2> QED BY <1>6, <2>5, <2>8, <2>9 DEF Grouping
<1>8. ASSUME ~(/\ Last(new).op_type = "LORA" /\ operators # <<>>
               /\ op[Last(operators)[1]].op_type = "ALLREDUCE")
      PROVE  Grouping(Pushed(new), S)
  <2> DEFINE u == operators \o groups
  <2>1. /\ u \in Seq(Seq(S)) /\ Apart(u)
        /\ Elements(u) = Elements(operators) \cup Elements(groups)
      BY <1>1, <1>2, <1>5, GroupsAppended
  <2>2. Pushed(new) = u
      BY <1>4, <1>8
  <2> HIDE DEF u
  <2> QED BY <1>6, <2>1, <2>2 DEF Grouping
<1> QED BY <1>7, <1>8

\* Creating the operators of a layer leaves the graph well formed, gives each output of
\* the layer a tensor, and puts each new operator in the list of operators once.
LEMMA CreateKeeps ==
    ASSUME model \in Models, at \in 1 .. Len(Layers) + 1, WellFormed(op),
           Created(op, parallel_tensor, before_allreduce, at),
           Grouping(operators, Names), CreateOperator
    PROVE  /\ WellFormed(op') /\ at' \in 1 .. Len(Layers) + 1
           /\ Created(op', parallel_tensor', before_allreduce', at')
           /\ Grouping(operators', DOMAIN op')
<1> DEFINE new == NewOperators(at)
           l == Layers[at]
           own == << l.name, "op" >>
           names == [k \in DOMAIN new |-> new[k].name]
           outputs == { << l.name, k >> : k \in DOMAIN l.shapes }
           last == IF Last(new).name = own THEN << own, Len(l.shapes) >> ELSE << Last(new).name, 1 >>
<1>1. at \in 1 .. Len(Layers) /\ at' = at + 1 /\ Len(Layers) \in Nat
    BY LayerFacts DEF CreateOperator
<1>2. /\ op' = Extended(op, new)
      /\ operators' = Pushed(new)
      /\ parallel_tensor' = [t \in DOMAIN parallel_tensor \cup outputs |->
            IF t \notin outputs THEN parallel_tensor[t]
            ELSE IF t[2] = Len(l.shapes) THEN last ELSE << own, t[2] >>]
      /\ before_allreduce' = IF Last(new).op_type = "ALLREDUCE"
            THEN [t \in DOMAIN before_allreduce \cup outputs |->
                     IF t \in outputs THEN << own, t[2] >> ELSE before_allreduce[t]]
            ELSE before_allreduce
    BY Zenon DEF CreateOperator, Extended
<1>3. /\ WellFormed(op') /\ DOMAIN op' = Names \cup Range(names)
      /\ \A n \in Names : op'[n] = op[n]
      /\ names \in Seq(DOMAIN op') /\ IsInjective(names) /\ DOMAIN names = DOMAIN new
      /\ Range(names) \cap Names = {}
      /\ Range(names) \subseteq {l.name} \X Kinds
      /\ \A k \in DOMAIN l.shapes : Produced(op', << own, k >>, at)
      /\ Last(new).name # own => Produced(op', << Last(new).name, 1 >>, at)
      /\ Last(new).op_type = "LORA" => new = << new[1] >>
  <2> DEFINE g == Extended(op, new)
  <2>1. g = op'
      BY <1>2
  <2>2. /\ WellFormed(g) /\ DOMAIN g = Names \cup Range(names)
        /\ \A n \in Names : g[n] = op[n]
        /\ names \in Seq(DOMAIN g) /\ IsInjective(names) /\ DOMAIN names = DOMAIN new
        /\ Range(names) \cap Names = {}
        /\ Range(names) \subseteq {l.name} \X Kinds
        /\ \A k \in DOMAIN l.shapes : Produced(g, << own, k >>, at)
        /\ Last(new).name # own => Produced(g, << Last(new).name, 1 >>, at)
        /\ Last(new).op_type = "LORA" => new = << new[1] >>
      BY <1>1, LayerCreated, Zenon
  <2> HIDE DEF g, names, new, own, l
  <2> QED BY <2>1, <2>2, Zenon
<1>4. Grouping(operators', DOMAIN op')
  <2> DEFINE S == DOMAIN op'
  <2>1. names = [k \in DOMAIN new |-> new[k].name]
      OBVIOUS
  <2>2. /\ names \in Seq(S) /\ DOMAIN names = DOMAIN new /\ IsInjective(names)
        /\ Names \subseteq S /\ Range(names) \cap Names = {} /\ Names \cup Range(names) = S
      BY <1>3
  <2> HIDE DEF names, new, S
  <2>3. Grouping(Pushed(new), S)
      BY <1>3, <2>1, <2>2, PushedKeeps
  <2> QED BY <1>2, <2>3 DEF S
<1> HIDE DEF names, new
<1>5. ASSUME NEW t, NEW i, Produced(op, t, i) PROVE Produced(op', t, i)
  <2>1. t \in TensorsOf(op)
      BY <1>5 DEF Produced
  <2>2. PICK n \in DOMAIN op : \E k \in DOMAIN op[n].shapes : t = << n, k >>
      BY <2>1 DEF TensorsOf
  <2>3. n \in DOMAIN op' /\ op'[n] = op[n]
      BY <1>3 DEF Names
  <2>4. t[1] = n
      BY <2>2
  <2>5. t \in TensorsOf(op')
      BY <2>2, <2>3 DEF TensorsOf
  <2> QED BY <1>5, <2>3, <2>4, <2>5 DEF Produced
<1>6. \A o \in DOMAIN op' : \E i \in 1 .. at' - 1, kind \in Kinds : o = << Layers[i].name, kind >>
  <2> SUFFICES ASSUME NEW o \in DOMAIN op'
               PROVE  \E i \in 1 .. at' - 1, kind \in Kinds : o = << Layers[i].name, kind >>
      OBVIOUS
  <2>1. CASE o \in Names
    <3>1. PICK i \in 1 .. at - 1, kind \in Kinds : o = << Layers[i].name, kind >>
        BY <2>1 DEF Created, Names
    <3>2. i \in 1 .. at' - 1
        BY <1>1
    <3> QED BY <3>1, <3>2
  <2>2. CASE o \in Range(names)
    <3>1. PICK kind \in Kinds : o = << l.name, kind >>
        BY <1>3, <2>2
    <3>2. at \in 1 .. at' - 1
        BY <1>1
    <3> QED BY <3>1, <3>2
  <2> QED BY <1>3, <2>1, <2>2
<1>7. ASSUME NEW i \in 1 .. at' - 1, NEW k \in DOMAIN Layers[i].shapes
      PROVE  LET t == << Layers[i].name, k >>
             IN  /\ t \in DOMAIN parallel_tensor' /\ Produced(op', parallel_tensor'[t], i)
                 /\ t \in DOMAIN before_allreduce' => Produced(op', before_allreduce'[t], i)
  <2> DEFINE t == << Layers[i].name, k >>
  <2>1. CASE i # at
    <3>1. i \in 1 .. at - 1 /\ i \in 1 .. Len(Layers)
        BY <1>1, <2>1
    <3>2. /\ t \in DOMAIN parallel_tensor /\ Produced(op, parallel_tensor[t], i)
          /\ t \in DOMAIN before_allreduce => Produced(op, before_allreduce[t], i)
        BY <3>1, Zenon DEF Created
    <3>3. Layers[i].name # l.name
        BY <1>1, <2>1, <3>1, LayerFacts
    <3>4. t \notin outputs
        BY <3>3
    <3> HIDE DEF t, outputs, last
    <3>5. /\ t \in DOMAIN parallel_tensor' /\ parallel_tensor'[t] = parallel_tensor[t]
          /\ t \in DOMAIN before_allreduce' =>
                t \in DOMAIN before_allreduce /\ before_allreduce'[t] = before_allreduce[t]
        BY <1>2, <3>2, <3>4
    <3> QED BY <1>5, <3>2, <3>5 DEF t
  <2>2. CASE i = at
    <3>1. t \in outputs /\ t[2] = k
        BY <2>2
    <3>2. Len(l.shapes) \in DOMAIN l.shapes
        BY <1>1, LayerFacts
    <3>3. Produced(op', last, at)
        BY <1>3, <3>2
    <3>4. Produced(op', << own, k >>, at)
        BY <1>3, <2>2
    <3> HIDE DEF t, outputs, last, own
    <3>5. /\ t \in DOMAIN parallel_tensor' /\ parallel_tensor'[t] \in {last, << own, k >>}
        BY <1>2, <3>1
    <3>6. t \in DOMAIN before_allreduce' => before_allreduce'[t] = << own, k >>
      <4>1. t \notin DOMAIN before_allreduce
        <5> SUFFICES ASSUME t \in DOMAIN before_allreduce PROVE FALSE
            OBVIOUS
        <5>1. t[1] = l.name
            BY <2>2 DEF t
        <5>2. PICK j \in 1 .. at - 1 : t[1] = Layers[j].name
            BY DEF Created
        <5>3. j \in 1 .. Len(Layers) /\ j # at
            BY <1>1
        <5> QED BY <1>1, <5>1, <5>2, <5>3, LayerFacts
      <4>2. t[2] = k
          BY <3>1
      <4> QED BY <1>2, <3>1, <4>1, <4>2
    <3> QED BY <2>2, <3>3, <3>4, <3>5, <3>6 DEF t
  <2> QED BY <2>1, <2>2
<1>8. ASSUME NEW t \in DOMAIN before_allreduce'
      PROVE  \E i \in 1 .. at' - 1 : t[1] = Layers[i].name
  <2>1. CASE t \in outputs
    <3>1. at \in 1 .. at' - 1 /\ t[1] = l.name
        BY <1>1, <2>1
    <3> QED BY <3>1
  <2>2. CASE t \notin outputs
    <3> HIDE DEF outputs, own
    <3>1. t \in DOMAIN before_allreduce
        BY <1>2, <1>8, <2>2
    <3>2. PICK i \in 1 .. at - 1 : t[1] = Layers[i].name
        BY <3>1 DEF Created
    <3>3. i \in 1 .. at' - 1
        BY <1>1
    <3> QED BY <3>2, <3>3
  <2> QED BY <2>1, <2>2
<1>9. Created(op', parallel_tensor', before_allreduce', at')
    BY <1>6, <1>7, <1>8, Zenon DEF Created
<1>10. at' \in 1 .. Len(Layers) + 1
    BY <1>1
<1> QED BY <1>3, <1>4, <1>9, <1>10

-----------------------------------------------------------------------------
(* Sorting the operators. *)

\* An order of a finite set has its elements, each once.
LEMMA Orders ==
    ASSUME NEW S, IsFiniteSet(S), NEW s \in SetToSeqs(S)
    PROVE  s \in Seq(S) /\ IsInjective(s) /\ Range(s) = S
<1> DEFINE n == Cardinality(S)
           D == 1 .. n
<1>1. n \in Nat
    BY FS_CardinalityType
<1>2. s \in [D -> S] /\ \A i, j \in D : i # j => s[i] # s[j]
    BY DEF SetToSeqs
<1> HIDE DEF n
<1>3. s \in Seq(S) /\ DOMAIN s = D
    BY <1>1, <1>2
<1>4. IsInjective(s) /\ Range(s) \subseteq S
    BY <1>2, <1>3 DEF IsInjective, Range
<1>5. Cardinality(Range(s)) = n
  <2>1. s \in [D -> Range(s)] /\ \A t \in Range(s) : \E i \in D : s[i] = t
      BY <1>2, <1>3 DEF Range
  <2>2. s \in Bijection(D, Range(s))
      BY <1>3, <1>4, <2>1 DEF Bijection, Injection, Surjection
  <2>3. ExistsBijection(D, Range(s))
      BY <2>2 DEF ExistsBijection
  <2>4. IsFiniteSet(D) /\ Cardinality(D) = n
      BY <1>1, FS_Interval
  <2> HIDE DEF D
  <2> QED BY <2>3, <2>4, FS_Bijection
<1>6. Range(s) = S
    BY <1>4, <1>5, FS_Subset DEF n
<1> QED BY <1>3, <1>4, <1>6

\* Each operator comes after those it reads from.
Sorted(s) ==
    \A k \in DOMAIN s : \A j \in DOMAIN Inputs(s[k]) :
        \E i \in 1 .. k - 1 : s[i] = Inputs(s[k])[j][1]

\* A pass that has visited the first operators in the queue, up to the one at i:
\* what is not in the queue reads from an operator that is not visited.
Passing(q, i) ==
    /\ q \in Seq(Names) /\ IsInjective(q) /\ i \in 1 .. Len(q) + 1
    /\ Sources \subseteq Range(q) /\ Sorted(q)
    /\ \A m \in Names \ Range(q) : \E j \in DOMAIN Inputs(m) :
          \A k \in 1 .. i - 1 : q[k] # Inputs(m)[j][1]

\* What an operator reads is an output of an operator of the graph.
LEMMA InputsAreTensors ==
    ASSUME WellFormed(op)
    PROVE  /\ Tensors = TensorsOf(op)
           /\ \A n \in Names :
                 /\ Inputs(n) \in Seq(Tensors)
                 /\ \A j \in DOMAIN Inputs(n) : Inputs(n)[j] \in Tensors /\ Inputs(n)[j][1] \in Names
<1>1. Tensors = TensorsOf(op)
    BY DEF Tensors, TensorsOf, Outputs, Names
<1>2. \A n \in Names : Inputs(n) \in Seq(Tensors)
    BY <1>1 DEF WellFormed, OneWellFormed, Inputs, Names
<1>3. \A t \in Tensors : t[1] \in Names
    BY <1>1 DEF TensorsOf, Names
<1> QED BY <1>1, <1>2, <1>3

\* A pass starts from the operators that read nothing.
LEMMA PassStarts ==
    ASSUME WellFormed(op), NEW q \in SetToSeqs(Sources)
    PROVE  Passing(q, 1)
<1>1. IsFiniteSet(Sources)
  <2>1. Sources \subseteq Names /\ IsFiniteSet(Names)
      BY DEF Sources, WellFormed, Names
  <2> QED BY <2>1, FS_Subset
<1>2. q \in Seq(Sources) /\ IsInjective(q) /\ Range(q) = Sources
    BY <1>1, Orders
<1>3. q \in Seq(Names) /\ 1 \in 1 .. Len(q) + 1
  <2>1. Sources \subseteq Names
      BY DEF Sources
  <2> QED BY <1>2, <2>1
<1>4. \A n \in Names : n \in Sources <=> Inputs(n) = <<>>
    BY DEF Sources
<1>5. Sorted(q)
  <2> SUFFICES ASSUME NEW k \in DOMAIN q, NEW j \in DOMAIN Inputs(q[k]) PROVE FALSE
      BY DEF Sorted
  <2>1. q[k] \in Sources
      BY <1>2 DEF Range
  <2>2. Inputs(q[k]) = <<>>
      BY <2>1 DEF Sources
  <2> QED BY <2>2
<1>6. ASSUME NEW m \in Names \ Range(q)
      PROVE  \E j \in DOMAIN Inputs(m) : \A k \in 1 .. 1 - 1 : q[k] # Inputs(m)[j][1]
  <2>1. Inputs(m) \in Seq(Tensors) /\ Inputs(m) # <<>>
      BY <1>2, <1>4, InputsAreTensors
  <2>2. 1 \in DOMAIN Inputs(m)
      BY <2>1
  <2> QED BY <2>2
<1> QED BY <1>2, <1>3, <1>5, <1>6 DEF Passing

\* Visiting an operator queues those that it was the last to wait for, so that the queue
\* stays sorted and free of repetitions (graph.cc:2237-2247).
LEMMA VisitKeeps ==
    ASSUME WellFormed(op), Passing(queue, index), Visit
    PROVE  Passing(queue', index')
<1> DEFINE n == queue[index]
           ready == BecomeReady(n)
<1>1. /\ queue \in Seq(Names) /\ IsInjective(queue) /\ Len(queue) \in Nat
      /\ DOMAIN queue = 1 .. Len(queue)
      /\ index \in 1 .. Len(queue) /\ index' = index + 1
    BY DEF Passing, Visit
<1>2. PICK s \in SetToSeqs(ready) : queue' = queue \o s
    BY DEF Visit, Iterations
<1>3. ToSet(SubSeq(queue, 1, index)) = {queue[k] : k \in 1 .. index}
  <2> DEFINE G == Names
             u == SubSeq(queue, 1, index)
  <2>1. queue \in Seq(G) /\ 1 \in 1 .. Len(queue) + 1 /\ index \in 1 - 1 .. Len(queue)
        /\ index - 1 + 1 = index
      BY <1>1
  <2> HIDE DEF G
  <2>2. /\ u \in Seq(G) /\ Len(u) = index - 1 + 1
        /\ \A k \in 1 .. index - 1 + 1 : u[k] = queue[1 + k - 1]
      BY <2>1, PartFacts
  <2>3. \A k \in 1 .. index : 1 + k - 1 = k
      BY <1>1
  <2> HIDE DEF u
  <2>4. DOMAIN u = 1 .. index /\ \A k \in 1 .. index : u[k] = queue[k]
      BY <2>1, <2>2, <2>3
  <2> QED BY <2>4 DEF ToSet, u
<1>4. /\ ready \subseteq Names \ Range(queue)
      /\ \A m \in ready : \A j \in DOMAIN Inputs(m) : \E k \in 1 .. index : queue[k] = Inputs(m)[j][1]
  <2>1. ready \subseteq { m \in Names \ ToSet(queue) :
                            \A j \in DOMAIN Inputs(m) : Inputs(m)[j][1] \in {queue[k] : k \in 1 .. index} }
      BY <1>3 DEF BecomeReady
  <2>2. ToSet(queue) = Range(queue)
      BY DEF ToSet, Range
  <2> QED BY <2>1, <2>2
<1>5. \A m \in Names \ Range(queue) : m \notin ready =>
         \/ \A j \in DOMAIN Inputs(m) : Inputs(m)[j][1] # n
         \/ \E j \in DOMAIN Inputs(m) : \A k \in 1 .. index : queue[k] # Inputs(m)[j][1]
  <2> SUFFICES ASSUME NEW m \in Names \ Range(queue),
                      NEW j \in DOMAIN Inputs(m), Inputs(m)[j][1] = n,
                      \A i \in DOMAIN Inputs(m) : \E k \in 1 .. index : queue[k] = Inputs(m)[i][1]
               PROVE  m \in ready
      OBVIOUS
  <2>1. << m, j >> \in OutEdges(n)
      BY DEF OutEdges, Edges, InEdges
  <2>2. m \in { e[1] : e \in OutEdges(n) }
      BY <2>1
  <2>3. \A i \in DOMAIN Inputs(m) : Inputs(m)[i][1] \in {queue[k] : k \in 1 .. index}
      OBVIOUS
  <2>4. m \notin ToSet(queue)
      BY DEF ToSet, Range
  <2> QED BY <1>3, <2>2, <2>3, <2>4 DEF BecomeReady
<1>6. IsFiniteSet(ready)
  <2>1. IsFiniteSet(Names) /\ ready \subseteq Names
      BY <1>4 DEF WellFormed, Names
  <2> QED BY <2>1, FS_Subset
<1> HIDE DEF ready
<1>7. s \in Seq(ready) /\ IsInjective(s) /\ Range(s) = ready
    BY <1>6, Orders
<1>8. s \in Seq(Names)
    BY <1>4, <1>7
<1> DEFINE q == queue \o s
<1>9. /\ q \in Seq(Names) /\ Range(q) = Range(queue) \cup ready /\ IsInjective(q)
    BY <1>1, <1>4, <1>7, <1>8, Concatenated
<1>10. /\ Len(s) \in Nat /\ DOMAIN s = 1 .. Len(s)
       /\ DOMAIN q = 1 .. Len(queue) + Len(s) /\ Len(q) = Len(queue) + Len(s)
       /\ \A i \in 1 .. Len(queue) : q[i] = queue[i]
       /\ \A i \in 1 .. Len(s) : q[Len(queue) + i] = s[i]
  <2> DEFINE G == Names
  <2>1. queue \in Seq(G) /\ s \in Seq(G)
      BY <1>1, <1>8
  <2> HIDE DEF G
  <2> QED BY <2>1
<1> HIDE DEF q, n
<1>11. Sorted(q)
  <2> SUFFICES ASSUME NEW k \in DOMAIN q, NEW j \in DOMAIN Inputs(q[k])
               PROVE  \E i \in 1 .. k - 1 : q[i] = Inputs(q[k])[j][1]
      BY DEF Sorted
  <2>1. CASE k \in 1 .. Len(queue)
    <3>1. q[k] = queue[k]
        BY <1>10, <2>1
    <3>2. \E i \in 1 .. k - 1 : queue[i] = Inputs(queue[k])[j][1]
        BY <1>1, <2>1, <3>1 DEF Passing, Sorted
    <3>3. \A i \in 1 .. k - 1 : q[i] = queue[i]
        BY <1>1, <1>10, <2>1
    <3> QED BY <3>1, <3>2, <3>3
  <2>2. CASE k \notin 1 .. Len(queue)
    <3>1. k - Len(queue) \in 1 .. Len(s) /\ Len(queue) + (k - Len(queue)) = k
        BY <1>1, <1>10, <2>2
    <3>2. q[k] = s[k - Len(queue)]
        BY <1>10, <3>1
    <3>3. q[k] \in ready
        BY <1>7, <1>10, <3>1, <3>2 DEF Range
    <3>4. PICK i \in 1 .. index : queue[i] = Inputs(q[k])[j][1]
        BY <1>4, <3>3
    <3>5. i \in 1 .. k - 1 /\ i \in 1 .. Len(queue)
        BY <1>1, <1>10, <2>2
    <3> QED BY <1>10, <3>4, <3>5
  <2> QED BY <2>1, <2>2
<1>12. ASSUME NEW m \in Names \ Range(q)
       PROVE  \E j \in DOMAIN Inputs(m) : \A k \in 1 .. index' - 1 : q[k] # Inputs(m)[j][1]
  <2>1. m \in Names \ Range(queue) /\ m \notin ready
      BY <1>9
  <2>2. PICK j \in DOMAIN Inputs(m) : \A k \in 1 .. index - 1 : queue[k] # Inputs(m)[j][1]
      BY <2>1 DEF Passing
  <2>3. \/ Inputs(m)[j][1] # n
        \/ \E p \in DOMAIN Inputs(m) : \A k \in 1 .. index : queue[k] # Inputs(m)[p][1]
      BY <1>5, <2>1
  <2>4. \A k \in 1 .. index : k = index \/ k \in 1 .. index - 1
      BY <1>1
  <2>5. \E p \in DOMAIN Inputs(m) : \A k \in 1 .. index : queue[k] # Inputs(m)[p][1]
      BY <2>2, <2>3, <2>4 DEF n
  <2>6. \A k \in 1 .. index' - 1 : k \in 1 .. index /\ k \in 1 .. Len(queue)
      BY <1>1
  <2> QED BY <1>10, <2>5, <2>6
<1>13. Sources \subseteq Range(q) /\ index' \in 1 .. Len(q) + 1
    BY <1>1, <1>9, <1>10 DEF Passing
<1>14. Passing(q, index')
    BY <1>9, <1>11, <1>12, <1>13, Zenon DEF Passing
<1> QED BY <1>2, <1>14, Zenon DEF q

\* A pass that has visited its queue has visited every operator.
LEMMA PassEnds ==
    ASSUME WellFormed(op), NEW q, NEW i, Passing(q, i), i > Len(q)
    PROVE  Range(q) = Names
<1>1. q \in Seq(Names) /\ Len(q) \in Nat /\ DOMAIN q = 1 .. Len(q) /\ i \in 1 .. Len(q) + 1
    BY DEF Passing
<1>2. i - 1 = Len(q)
    BY <1>1
<1>3. Range(q) \subseteq Names
    BY <1>1 DEF Range
<1> DEFINE T == Names \ Range(q)
<1>4. ASSUME T # {} PROVE FALSE
  <2>1. T \in SUBSET DOMAIN op
      BY DEF Names
  <2>2. PICK m \in T : \A j \in DOMAIN Inputs(m) : Inputs(m)[j][1] \notin T
      BY <1>4, <2>1 DEF WellFormed, Rooted, Inputs
  <2>3. PICK j \in DOMAIN Inputs(m) : \A k \in 1 .. Len(q) : q[k] # Inputs(m)[j][1]
      BY <1>2, <2>2 DEF Passing
  <2>4. Inputs(m)[j][1] \in Names
      BY <2>2, InputsAreTensors
  <2>5. Inputs(m)[j][1] \notin Range(q)
      BY <1>1, <2>3 DEF Range
  <2> QED BY <2>2, <2>4, <2>5
<1> QED BY <1>3, <1>4

\* The operators in the order of the second pass.
LEMMA ConvertedKeeps ==
    ASSUME WellFormed(op), Passing(queue, index), Converted
    PROVE  Grouping(operators', Names) /\ FlattenSeq(operators') = queue
<1>1. /\ queue \in Seq(Names) /\ IsInjective(queue) /\ Range(queue) = Names
      /\ operators' = [i \in DOMAIN queue |-> << queue[i] >>]
  <2>1. index > Len(queue) /\ operators' = [i \in DOMAIN queue |-> << queue[i] >>]
      BY DEF Converted
  <2>2. Range(queue) = Names
      BY <2>1, PassEnds
  <2> QED BY <2>1, <2>2 DEF Passing
<1> QED BY <1>1, SingleGroups, FlattenSingles DEF Grouping

-----------------------------------------------------------------------------
(* Allocating the buffers. *)

\* The operators in the order in which they run, each once.
LEMMA FlatFacts ==
    ASSUME Grouping(operators, Names)
    PROVE  /\ Flat \in Seq(Names) /\ IsInjective(Flat) /\ Range(Flat) = Names
           /\ Len(Flat) \in Nat /\ DOMAIN Flat = 1 .. Len(Flat)
<1>1. /\ Flat \in Seq(Names) /\ Range(Flat) = Elements(operators)
      /\ Apart(operators) => IsInjective(Flat)
    BY FlattenMembers DEF Grouping, Flat
<1>2. Len(Flat) \in Nat /\ DOMAIN Flat = 1 .. Len(Flat)
  <2> DEFINE f == Flat
             G == Names
  <2>1. f \in Seq(G)
      BY <1>1
  <2> HIDE DEF f, G
  <2> QED BY <2>1 DEF f
<1> QED BY <1>1, <1>2 DEF Grouping

\* What the operators still to be allocated read.
LiveReads == UNION { Reads(Flat[i]) : i \in at .. Len(Flat) }

\* Tensors that are read later share a buffer only in one region.
LiveApart ==
    \A t, u \in DOMAIN tensor_buffer \cap LiveReads :
        Region(t) # Region(u) => tensor_buffer[t] # tensor_buffer[u]

\* The tensors with a buffer: those of the operators before the one at hand, and
\* the first c of its own.
Allocated(c) ==
    /\ c \in Nat
    /\ DOMAIN tensor_buffer = { t \in Tensors : \E i \in 1 .. at - 1 : Flat[i] = t[1] }
                                  \cup { << Flat[at], k >> : k \in 1 .. c }
    /\ at <= Len(Flat) => c < Len(op[Flat[at]].shapes)
    /\ at > Len(Flat) => c = 0

\* A buffer is on the stage of the tensors it holds.
OnStage ==
    /\ DOMAIN tensor_buffer \subseteq Tensors
    /\ machine_view \in Seq({ Stage(n) : n \in Names })
    /\ \A t \in DOMAIN tensor_buffer :
          /\ tensor_buffer[t] \in DOMAIN machine_view
          /\ machine_view[tensor_buffer[t]] = Stage(t[1])

\* The allocation so far: complete up to the output at hand, in sorted order, and no
\* tensor that is still to be read has lost its buffer.
Allocating ==
    /\ Sorted(Flat) /\ at \in 1 .. Len(Flat) + 1
    /\ \E c \in Nat : Allocated(c)
    /\ LiveApart

\* An adapter is on the stage of what it adapts, the region of its output.
LEMMA RegionStage ==
    ASSUME WellFormed(op), NEW t \in Tensors
    PROVE  Stage(Region(t)[1]) = Stage(t[1])
<1>1. t[1] \in Names
    BY InputsAreTensors DEF Tensors, Outputs
<1>2. CASE op[t[1]].op_type = "LORA"
  <2>1. Region(t) = op[t[1]].inputs[2]
      BY <1>2 DEF Region, InPlaceInput, Inputs
  <2>2. /\ op[op[t[1]].inputs[2][1]].op_type \notin {"INPUT", "LORA"}
        /\ op[op[t[1]].inputs[2][1]].transformer_layer_id = op[t[1]].transformer_layer_id
      BY <1>1, <1>2 DEF WellFormed, OneWellFormed, Names
  <2> QED BY <1>2, <2>1, <2>2 DEF Stage
<1>3. CASE op[t[1]].op_type # "LORA"
    BY <1>3 DEF Region, InPlaceInput
<1> QED BY <1>2, <1>3

\* The output at hand: it has no buffer, nothing up to here reads it, and all
\* that its operator reads has one.
LEMMA OutputAtHand ==
    ASSUME WellFormed(op), Grouping(operators, Names), Allocating, at <= Len(Flat)
    PROVE  LET l == Flat[at]  t == NextOutput(l)
           IN  \E c \in Nat :
                 /\ Allocated(c) /\ t = << l, c + 1 >>
                 /\ l \in Names /\ t \in Outputs(l) /\ t \notin DOMAIN tensor_buffer
                 /\ Reads(l) \subseteq DOMAIN tensor_buffer /\ Reads(l) \subseteq LiveReads
                 /\ Reads(l) \cap Outputs(l) = {}
                 /\ \A u \in DOMAIN tensor_buffer : t \notin Reads(u[1])
                 /\ t \notin Reads(l)
<1> DEFINE l == Flat[at]
           t == NextOutput(l)
<1>1. /\ Flat \in Seq(Names) /\ IsInjective(Flat) /\ Range(Flat) = Names
      /\ Len(Flat) \in Nat /\ DOMAIN Flat = 1 .. Len(Flat)
    BY FlatFacts
<1>2. at \in 1 .. Len(Flat) /\ l \in Names
    BY <1>1 DEF Allocating
<1>3. PICK c \in Nat : Allocated(c)
    BY DEF Allocating
<1>4. Len(op[l].shapes) \in Nat \ {0} /\ DOMAIN op[l].shapes = 1 .. Len(op[l].shapes)
      /\ c < Len(op[l].shapes)
  <2>1. op[l].shapes = op[l].shapes /\ l \in DOMAIN op
      BY <1>2 DEF Names
  <2>2. Len(op[l].shapes) \in Nat \ {0} /\ DOMAIN op[l].shapes = 1 .. Len(op[l].shapes)
      BY <2>1 DEF WellFormed, OneWellFormed
  <2> QED BY <1>2, <1>3, <2>2 DEF Allocated
<1>5. \A i \in 1 .. at - 1 : Flat[i] # l
    BY <1>1, <1>2 DEF IsInjective
<1>6. Outputs(l) \cap DOMAIN tensor_buffer = { << l, k >> : k \in 1 .. c }
  <2>1. ASSUME NEW u \in Outputs(l) \cap DOMAIN tensor_buffer PROVE u \in { << l, k >> : k \in 1 .. c }
    <3>1. u[1] = l
        BY DEF Outputs
    <3>2. ~ \E i \in 1 .. at - 1 : Flat[i] = u[1]
        BY <1>5, <3>1
    <3> QED BY <1>3, <3>2 DEF Allocated
  <2>2. ASSUME NEW k \in 1 .. c PROVE << l, k >> \in Outputs(l) \cap DOMAIN tensor_buffer
    <3>1. k \in DOMAIN op[l].shapes
        BY <1>4
    <3>2. << l, k >> \in Outputs(l)
        BY <3>1 DEF Outputs
    <3>3. << l, k >> \in DOMAIN tensor_buffer
        BY <1>3 DEF Allocated
    <3> QED BY <3>2, <3>3
  <2> QED BY <2>1, <2>2
<1>7. Cardinality({ << l, k >> : k \in 1 .. c }) = c
  <2> DEFINE T == { << l, k >> : k \in 1 .. c }
             f == [k \in 1 .. c |-> << l, k >>]
  <2>1. /\ f \in [1 .. c -> T] /\ \A i, j \in 1 .. c : f[i] = f[j] => i = j
        /\ \A x \in T : \E i \in 1 .. c : f[i] = x
    <3> HIDE DEF l
    <3> QED OBVIOUS
  <2> HIDE DEF f, T
  <2>2. f \in Bijection(1 .. c, T)
      BY <2>1 DEF Bijection, Injection, Surjection, IsInjective
  <2>3. ExistsBijection(1 .. c, T)
      BY <2>2 DEF ExistsBijection
  <2>4. IsFiniteSet(1 .. c) /\ Cardinality(1 .. c) = c
      BY FS_Interval
  <2>5. Cardinality(T) = c
      BY <2>3, <2>4, FS_Bijection
  <2> QED BY <2>5 DEF T
<1>8. t = << l, c + 1 >>
    BY <1>6, <1>7 DEF NextOutput
<1>9. t \in Outputs(l)
  <2>1. c + 1 \in DOMAIN op[l].shapes
      BY <1>4
  <2> QED BY <1>8, <2>1 DEF Outputs
<1>10. t \notin DOMAIN tensor_buffer
  <2>1. t \notin { << l, k >> : k \in 1 .. c }
    <3> HIDE DEF l
    <3> QED BY <1>8
  <2> QED BY <1>6, <1>9, <2>1
<1>11. \A i \in 1 .. at : \A j \in DOMAIN Inputs(Flat[i]) :
          \E k \in 1 .. at - 1 : Flat[k] = Inputs(Flat[i])[j][1]
  <2> SUFFICES ASSUME NEW i \in 1 .. at, NEW j \in DOMAIN Inputs(Flat[i])
               PROVE  \E k \in 1 .. at - 1 : Flat[k] = Inputs(Flat[i])[j][1]
      OBVIOUS
  <2>1. i \in DOMAIN Flat
      BY <1>1, <1>2
  <2>2. PICK k \in 1 .. i - 1 : Flat[k] = Inputs(Flat[i])[j][1]
      BY <2>1 DEF Allocating, Sorted
  <2>3. k \in 1 .. at - 1
      BY <1>2
  <2> QED BY <2>2, <2>3
<1>12. \A i \in 1 .. at : \A u \in Reads(Flat[i]) :
          u \in Tensors /\ \E k \in 1 .. at - 1 : Flat[k] = u[1]
  <2> SUFFICES ASSUME NEW i \in 1 .. at, NEW u \in Reads(Flat[i])
               PROVE  u \in Tensors /\ \E k \in 1 .. at - 1 : Flat[k] = u[1]
      OBVIOUS
  <2>1. PICK j \in DOMAIN Inputs(Flat[i]) : u = Inputs(Flat[i])[j]
      BY DEF Reads
  <2>2. Flat[i] \in Names
      BY <1>1, <1>2
  <2> QED BY <1>11, <2>1, <2>2, InputsAreTensors
<1>13. Reads(l) \subseteq DOMAIN tensor_buffer
  <2>1. at \in 1 .. at
      BY <1>2
  <2> QED BY <1>3, <1>12, <2>1 DEF Allocated
<1>14. Reads(l) \subseteq LiveReads
    BY <1>2 DEF LiveReads
<1>15. \A i \in 1 .. at : \A u \in Reads(Flat[i]) : u[1] # l
    BY <1>5, <1>12
<1>16. \A u \in Outputs(l) : u[1] = l
    BY DEF Outputs
<1>17. \A i \in 1 .. at : Reads(Flat[i]) \cap Outputs(l) = {}
    BY <1>15, <1>16
<1>18. Reads(l) \cap Outputs(l) = {}
    BY <1>2, <1>17
<1>19. \A u \in DOMAIN tensor_buffer : t \notin Reads(u[1])
  <2> SUFFICES ASSUME NEW u \in DOMAIN tensor_buffer PROVE t \notin Reads(u[1])
      OBVIOUS
  <2>1. \E i \in 1 .. at : u[1] = Flat[i]
    <3>1. CASE \E i \in 1 .. at - 1 : Flat[i] = u[1]
        BY <1>2, <3>1
    <3>2. CASE u \in { << Flat[at], k >> : k \in 1 .. c }
        BY <1>2, <3>2
    <3> QED BY <1>3, <3>1, <3>2 DEF Allocated
  <2> QED BY <1>9, <1>17, <2>1
<1> HIDE DEF l, t
<1>20. t \notin Reads(l)
    BY <1>9, <1>18
<1> QED BY <1>2, <1>3, <1>8, <1>9, <1>10, <1>13, <1>14, <1>18, <1>19, <1>20 DEF l, t

\* The buffer b that output t of operator l gets: it is not that of a live tensor
\* of another region, nor that of another output.
Separate(l, t, b) ==
    \A u \in DOMAIN tensor_buffer :
        (u \in LiveReads \/ u \in Outputs(l)) /\ Region(u) # Region(t) => tensor_buffer[u] # b

\* A step that gives t the buffer b, on the stage of its operator.
Gives(l, t, b) ==
    /\ UseBuffer(t, b)
    /\ machine_view' \in Seq({ Stage(n) : n \in Names })
    /\ b \in DOMAIN machine_view' /\ machine_view'[b] = Stage(l)
    /\ \A x \in DOMAIN machine_view : x \in DOMAIN machine_view' /\ machine_view'[x] = machine_view[x]
    /\ Separate(l, t, b)

\* Whichever way an output gets its buffer, from its region, from those free to be
\* reused, or a new one, the buffer is separate from those in use.
LEMMA BufferGiven ==
    ASSUME WellFormed(op), Grouping(operators, Names), Allocating, OnStage, OutputsApart,
           AllocateOutput
    PROVE  \E b : Gives(Flat[at], NextOutput(Flat[at]), b)
<1> DEFINE l == Flat[at]
           t == NextOutput(l)
           S == { Stage(n) : n \in Names }
<1>1. /\ at <= Len(Flat)
      /\ \/ /\ \E u \in SharesRegion(l, t) : UseBuffer(t, tensor_buffer[u])
            /\ UNCHANGED machine_view
         \/ /\ SharesRegion(l, t) = {}
            /\ \E b \in Reusable(l, t) : UseBuffer(t, b)
            /\ UNCHANGED machine_view
         \/ /\ SharesRegion(l, t) = {} /\ Reusable(l, t) = {}
            /\ UseBuffer(t, Len(machine_view) + 1)
            /\ machine_view' = Append(machine_view, Stage(l))
    BY Zenon DEF AllocateOutput
<1>2. /\ l \in Names /\ t \in Outputs(l) /\ t \notin DOMAIN tensor_buffer
      /\ Reads(l) \subseteq DOMAIN tensor_buffer /\ Reads(l) \subseteq LiveReads
      /\ Reads(l) \cap Outputs(l) = {}
    BY <1>1, OutputAtHand
<1>3. t \in Tensors /\ t[1] = l
    BY <1>2 DEF Tensors, Outputs
<1>4. machine_view \in Seq(S)
    BY DEF OnStage
<1>5. LiveReads = UNION { Reads(Flat[i]) : i \in at .. Len(Flat) }
    BY DEF LiveReads
<1> HIDE DEF l, t, S
<1>6. ASSUME NEW u \in SharesRegion(l, t), UseBuffer(t, tensor_buffer[u]), UNCHANGED machine_view
      PROVE  Gives(l, t, tensor_buffer[u])
  <2>1. u \in Reads(l) /\ Region(u) = Region(t) /\ u \in DOMAIN tensor_buffer /\ u \in LiveReads
        /\ u \in Tensors
      BY <1>2 DEF SharesRegion, OnStage
  <2>2. Stage(u[1]) = Stage(l)
      BY <1>3, <2>1, RegionStage
  <2>3. tensor_buffer[u] \in DOMAIN machine_view /\ machine_view[tensor_buffer[u]] = Stage(l)
      BY <2>1, <2>2 DEF OnStage
  <2>4. Separate(l, t, tensor_buffer[u])
    <3> SUFFICES ASSUME NEW v \in DOMAIN tensor_buffer, v \in LiveReads \/ v \in Outputs(l),
                        Region(v) # Region(t)
                 PROVE  tensor_buffer[v] # tensor_buffer[u]
        BY DEF Separate
    <3>1. CASE v \in LiveReads
        BY <2>1, <3>1 DEF Allocating, LiveApart
    <3>2. CASE v \in Outputs(l)
      <4>1. v[1] = l /\ u # v
          BY <1>2, <2>1, <3>2 DEF Outputs
      <4>2. u \in (Outputs(v[1]) \cup Reads(v[1])) \ {v}
          BY <2>1, <4>1
      <4> QED BY <2>1, <4>2 DEF OutputsApart
    <3> QED BY <3>1, <3>2
  <2> QED BY <1>4, <1>6, <2>3, <2>4 DEF Gives, S
<1>7. ASSUME NEW b \in Reusable(l, t), UseBuffer(t, b), UNCHANGED machine_view
      PROVE  Gives(l, t, b)
  <2>1. /\ \E v \in DOMAIN tensor_buffer :
              machine_view[tensor_buffer[v]] = Stage(l) /\ b = tensor_buffer[v]
        /\ b \notin BuffersOf(Outputs(l) \cup LiveReads)
      BY <1>5, <1>7 DEF Reusable
  <2>2. b \in DOMAIN machine_view /\ machine_view[b] = Stage(l)
      BY <2>1 DEF OnStage
  <2>3. Separate(l, t, b)
      BY <2>1 DEF Separate, BuffersOf
  <2> QED BY <1>4, <1>7, <2>2, <2>3 DEF Gives, S
<1>8. ASSUME UseBuffer(t, Len(machine_view) + 1), machine_view' = Append(machine_view, Stage(l))
      PROVE  Gives(l, t, Len(machine_view) + 1)
  <2> DEFINE n == Len(machine_view)
  <2>1. Stage(l) \in S
      BY <1>2 DEF S
  <2>2. n \in Nat /\ DOMAIN machine_view = 1 .. n
      BY <1>4
  <2>3. /\ machine_view' \in Seq(S) /\ DOMAIN machine_view' = 1 .. n + 1
        /\ machine_view'[n + 1] = Stage(l)
        /\ \A x \in 1 .. n : machine_view'[x] = machine_view[x]
      BY <1>4, <1>8, <2>1
  <2>4. \A u \in DOMAIN tensor_buffer : tensor_buffer[u] \in 1 .. n
      BY <2>2 DEF OnStage
  <2> HIDE DEF n
  <2>5. n + 1 \in 1 .. n + 1 /\ (\A x \in 1 .. n : x \in 1 .. n + 1) /\ n + 1 \notin 1 .. n
      BY <2>2
  <2>6. Separate(l, t, n + 1)
      BY <2>4, <2>5 DEF Separate
  <2>7. Gives(l, t, n + 1)
    <3> UseBuffer(t, n + 1)
        BY <1>8 DEF n
    <3> QED BY <2>2, <2>3, <2>5, <2>6 DEF Gives, S
  <2> QED BY <2>7 DEF n
<1>9. \E b : Gives(l, t, b)
    BY <1>1, <1>6, <1>7, <1>8 DEF l, t
<1> QED BY <1>9 DEF l, t

\* The regions and stages do not change after the operators are created.
LEMMA SameOperators ==
    ASSUME UNCHANGED << model, op, operators >>
    PROVE  /\ Names' = Names /\ Tensors' = Tensors /\ Flat' = Flat
           /\ \A n : Inputs(n)' = Inputs(n) /\ Outputs(n)' = Outputs(n) /\ Reads(n)' = Reads(n)
           /\ \A n : Stage(n)' = Stage(n)
           /\ \A t : Region(t)' = Region(t)
<1>1. Names' = Names /\ Flat' = Flat
    BY DEF Names, Flat
<1>2. \A n : Inputs(n)' = Inputs(n) /\ Outputs(n)' = Outputs(n) /\ Reads(n)' = Reads(n)
    BY DEF Inputs, Outputs, Reads
<1>3. Tensors' = Tensors
    BY DEF Tensors, Names, Outputs
<1>4. \A n : Stage(n)' = Stage(n)
    BY DEF Stage
<1>5. \A t : Region(t)' = Region(t)
    BY DEF Region, InPlaceInput, Inputs
<1> QED BY <1>1, <1>2, <1>3, <1>4, <1>5

\* Giving an output its buffer keeps the live tensors, and the outputs of one operator, apart.
LEMMA AllocateKeeps ==
    ASSUME WellFormed(op), Grouping(operators, Names), Allocating, OnStage, OutputsApart,
           AllocateOutput
    PROVE  Allocating' /\ OnStage' /\ OutputsApart'
<1> DEFINE l == Flat[at]
           t == NextOutput(l)
<1>1. /\ at <= Len(Flat)
      /\ at' = IF t[2] = Len(op[l].shapes) THEN at + 1 ELSE at
      /\ UNCHANGED << model, op, operators >>
    BY DEF AllocateOutput, createVars
<1>2. PICK c \in Nat :
                 /\ Allocated(c) /\ t = << l, c + 1 >>
                 /\ l \in Names /\ t \in Outputs(l) /\ t \notin DOMAIN tensor_buffer
                 /\ Reads(l) \subseteq DOMAIN tensor_buffer /\ Reads(l) \subseteq LiveReads
                 /\ Reads(l) \cap Outputs(l) = {}
                 /\ \A u \in DOMAIN tensor_buffer : t \notin Reads(u[1])
                 /\ t \notin Reads(l)
    BY <1>1, OutputAtHand
<1>3. PICK b : Gives(l, t, b)
    BY BufferGiven
<1>4. /\ Names' = Names /\ Tensors' = Tensors /\ Flat' = Flat
      /\ \A n : Inputs(n)' = Inputs(n) /\ Outputs(n)' = Outputs(n) /\ Reads(n)' = Reads(n)
      /\ \A n : Stage(n)' = Stage(n)
      /\ \A u : Region(u)' = Region(u)
    BY <1>1, SameOperators
<1>5. /\ Flat \in Seq(Names) /\ IsInjective(Flat) /\ Range(Flat) = Names
      /\ Len(Flat) \in Nat /\ DOMAIN Flat = 1 .. Len(Flat)
    BY FlatFacts
<1>6. at \in 1 .. Len(Flat) /\ at' \in 1 .. Len(Flat) + 1 /\ at' \in {at, at + 1}
    BY <1>1, <1>5 DEF Allocating
<1>7. t[1] = l /\ t \in Tensors
    BY <1>2 DEF Tensors, Outputs
<1>8. /\ DOMAIN tensor_buffer' = {t} \cup DOMAIN tensor_buffer
      /\ tensor_buffer'[t] = b
      /\ \A u \in DOMAIN tensor_buffer : tensor_buffer'[u] = tensor_buffer[u]
      /\ t \notin DOMAIN tensor_buffer
    BY <1>2, <1>3 DEF Gives, UseBuffer
<1>9. \E d \in Nat : Allocated(d)'
  <2>0. ASSUME NEW d \in Nat,
               DOMAIN tensor_buffer' = { u \in Tensors : \E i \in 1 .. at' - 1 : Flat[i] = u[1] }
                                          \cup { << Flat[at'], k >> : k \in 1 .. d },
               at' <= Len(Flat) => d < Len(op[Flat[at']].shapes),
               at' > Len(Flat) => d = 0
        PROVE  Allocated(d)'
    <3>1. DOMAIN tensor_buffer' = { u \in Tensors' : \E i \in 1 .. at' - 1 : Flat'[i] = u[1] }
                                          \cup { << Flat'[at'], k >> : k \in 1 .. d }
        BY <1>4, <2>0, Zenon
    <3>2. /\ at' <= Len(Flat') => d < Len(op'[Flat'[at']].shapes)
          /\ at' > Len(Flat') => d = 0
        BY <1>1, <1>4, <2>0, Zenon
    <3> QED BY <3>1, <3>2, Zenon DEF Allocated
  <2>1. Len(op[l].shapes) \in Nat \ {0} /\ DOMAIN op[l].shapes = 1 .. Len(op[l].shapes)
        /\ c < Len(op[l].shapes)
    <3>1. l \in DOMAIN op
        BY <1>2 DEF Names
    <3> QED BY <1>1, <1>2, <3>1 DEF WellFormed, OneWellFormed, Allocated
  <2>2. DOMAIN tensor_buffer' = { u \in Tensors : \E i \in 1 .. at - 1 : Flat[i] = u[1] }
                                    \cup { << l, k >> : k \in 1 .. c + 1 }
    <3>1. DOMAIN tensor_buffer = { u \in Tensors : \E i \in 1 .. at - 1 : Flat[i] = u[1] }
                                    \cup { << l, k >> : k \in 1 .. c }
        BY <1>2 DEF Allocated
    <3>2. { << l, k >> : k \in 1 .. c + 1 } = { << l, k >> : k \in 1 .. c } \cup {t}
      <4>1. 1 .. c + 1 = (1 .. c) \cup {c + 1}
          OBVIOUS
      <4> HIDE DEF l
      <4> QED BY <1>2, <4>1 DEF l
    <3> HIDE DEF l, t
    <3> QED BY <1>8, <3>1, <3>2
  <2>3. t[2] = c + 1
      BY <1>2
  <2>4. CASE c + 1 = Len(op[l].shapes)
    <3>1. Outputs(l) = { << l, k >> : k \in 1 .. c + 1 }
        BY <2>1, <2>4 DEF Outputs
    <3>2. { u \in Tensors : l = u[1] } = Outputs(l)
        BY <1>2 DEF Tensors, Outputs
    <3>3. at' = at + 1
        BY <1>1, <2>3, <2>4
    <3>4. \A x : (\E i \in 1 .. at' - 1 : Flat[i] = x) <=> (\E i \in 1 .. at - 1 : Flat[i] = x) \/ l = x
      <4>1. at' - 1 = at /\ \A i \in 1 .. at : i \in 1 .. at - 1 \/ i = at
          BY <1>6, <3>3
      <4>2. \A i \in 1 .. at - 1 : i \in 1 .. at
          BY <1>6
      <4>3. at \in 1 .. at
          BY <1>6
      <4> QED BY <4>1, <4>2, <4>3
    <3>5. DOMAIN tensor_buffer' = { u \in Tensors : \E i \in 1 .. at' - 1 : Flat[i] = u[1] }
        BY <2>2, <3>1, <3>2, <3>4
    <3>6. { << Flat[at'], k >> : k \in 1 .. 0 } = {}
        OBVIOUS
    <3>7. at' <= Len(Flat) => 0 < Len(op[Flat[at']].shapes)
      <4> SUFFICES ASSUME at' <= Len(Flat) PROVE 0 < Len(op[Flat[at']].shapes)
          OBVIOUS
      <4>1. at' \in DOMAIN Flat
          BY <1>5, <1>6
      <4>2. Flat[at'] \in DOMAIN op
          BY <1>5, <4>1 DEF Names
      <4>3. Len(op[Flat[at']].shapes) \in Nat \ {0}
          BY <4>2 DEF WellFormed, OneWellFormed
      <4> QED BY <4>3
    <3>8. Allocated(0)'
        BY <2>0, <3>5, <3>6, <3>7
    <3> QED BY <3>8
  <2>5. CASE c + 1 # Len(op[l].shapes)
    <3>1. at' = at
        BY <1>1, <2>3, <2>5
    <3>2. c + 1 < Len(op[l].shapes) /\ c + 1 \in Nat
        BY <2>1, <2>5
    <3>3. ~(at' > Len(Flat))
        BY <1>1, <1>6, <3>1
    <3>4. DOMAIN tensor_buffer' = { u \in Tensors : \E i \in 1 .. at' - 1 : Flat[i] = u[1] }
                                      \cup { << Flat[at'], k >> : k \in 1 .. c + 1 }
        BY <2>2, <3>1, Zenon
    <3>5. at' <= Len(Flat) => c + 1 < Len(op[Flat[at']].shapes)
        BY <3>1, <3>2
    <3>6. Allocated(c + 1)'
      <4> DEFINE d == c + 1
      <4>1. d \in Nat
          OBVIOUS
      <4> HIDE DEF d, l, t
      <4>2. Allocated(d)'
          BY <2>0, <3>3, <3>4, <3>5, <4>1, Zenon DEF d
      <4> QED BY <4>2 DEF d
    <3> QED BY <3>2, <3>6
  <2> QED BY <2>4, <2>5
<1>10. (\E d \in Nat : Allocated(d))'
    BY <1>9
<1> HIDE DEF l, t
<1>11. LiveReads' \subseteq LiveReads
  <2>1. LiveReads' = UNION { Reads(Flat[i]) : i \in at' .. Len(Flat) }
      BY <1>4 DEF LiveReads
  <2>2. \A i \in at' .. Len(Flat) : i \in at .. Len(Flat)
      BY <1>5, <1>6
  <2> QED BY <2>1, <2>2 DEF LiveReads
<1>12. \A u \in DOMAIN tensor_buffer :
          (u \in LiveReads \/ u \in Outputs(l)) /\ Region(u) # Region(t)
             => tensor_buffer[u] # b
    BY <1>3 DEF Gives, Separate
<1>13. LiveApart'
  <2> SUFFICES ASSUME NEW u \in DOMAIN tensor_buffer' \cap LiveReads',
                      NEW v \in DOMAIN tensor_buffer' \cap LiveReads',
                      Region(u) # Region(v)
               PROVE  tensor_buffer'[u] # tensor_buffer'[v]
      BY <1>4 DEF LiveApart
  <2>1. u \in LiveReads /\ v \in LiveReads
      BY <1>11
  <2>2. CASE u = t
      BY <1>8, <1>12, <2>1, <2>2
  <2>3. CASE v = t
      BY <1>8, <1>12, <2>1, <2>3
  <2>4. CASE u # t /\ v # t
      BY <1>8, <2>1, <2>4 DEF Allocating, LiveApart
  <2> QED BY <2>2, <2>3, <2>4
<1>14. OutputsApart'
  <2> SUFFICES ASSUME NEW u \in DOMAIN tensor_buffer',
                      NEW v \in (Outputs(u[1]) \cup Reads(u[1])) \ {u},
                      v \in DOMAIN tensor_buffer', Region(v) # Region(u)
               PROVE  tensor_buffer'[v] # tensor_buffer'[u]
      BY <1>4 DEF OutputsApart
  <2>1. CASE u = t
    <3>1. v \in DOMAIN tensor_buffer /\ (v \in LiveReads \/ v \in Outputs(l))
        BY <1>2, <1>7, <1>8, <2>1
    <3> QED BY <1>8, <1>12, <2>1, <3>1
  <2>2. CASE u # t /\ v = t
    <3>1. u \in DOMAIN tensor_buffer
        BY <1>8, <2>2
    <3>2. t \in Outputs(u[1])
        BY <1>2, <2>2, <3>1
    <3>3. u[1] = l
        BY <1>7, <3>2 DEF Outputs
    <3>4. u \in Outputs(l)
      <4>1. u \in Tensors
          BY <3>1 DEF OnStage
      <4> QED BY <3>3, <4>1 DEF Tensors, Outputs
    <3> QED BY <1>8, <1>12, <2>2, <3>1, <3>4
  <2>3. CASE u # t /\ v # t
      BY <1>8, <2>3 DEF OutputsApart
  <2> QED BY <2>1, <2>2, <2>3
<1>15. OnStage'
  <2>1. DOMAIN tensor_buffer' \subseteq Tensors
      BY <1>7, <1>8 DEF OnStage
  <2>2. machine_view' \in Seq({ Stage(n) : n \in Names })
      BY <1>3 DEF Gives
  <2>3. ASSUME NEW u \in DOMAIN tensor_buffer'
        PROVE  /\ tensor_buffer'[u] \in DOMAIN machine_view'
               /\ machine_view'[tensor_buffer'[u]] = Stage(u[1])
    <3>1. CASE u = t
        BY <1>3, <1>7, <1>8, <3>1 DEF Gives
    <3>2. CASE u # t
        BY <1>3, <1>8, <3>2 DEF Gives, OnStage
    <3> QED BY <3>1, <3>2
  <2>4. { Stage(n) : n \in Names }' = { Stage(n) : n \in Names }
      BY <1>4, Zenon
  <2> QED BY <1>4, <2>1, <2>2, <2>3, <2>4 DEF OnStage
<1>16. Sorted(Flat)' /\ (at \in 1 .. Len(Flat) + 1)'
    BY <1>4, <1>6 DEF Sorted, Allocating
<1> QED BY <1>10, <1>13, <1>14, <1>15, <1>16 DEF Allocating

-----------------------------------------------------------------------------
(* The invariant. *)

\* The operators are created, sorted twice, allocated and run; what the passes
\* over the graph keep of it, and what the buffers hold.
BufferInvariant ==
    /\ model \in Models
    /\ phase \in {"create", "serialize", "convert", "allocate", "fuse", "forward", "backward"}
    /\ WellFormed(op)
    /\ phase = "create" =>
          at \in 1 .. Len(Layers) + 1 /\ Created(op, parallel_tensor, before_allreduce, at)
    /\ IF phase = "convert" THEN operators = <<>> ELSE Grouping(operators, Names)
    /\ IF phase \in {"serialize", "convert"}
       THEN at = 1 /\ Passing(queue, index) ELSE queue = <<>> /\ index = 1
    /\ serialized \in Seq(Names) /\ IsInjective(serialized)
    /\ OnStage /\ OutputsApart
    /\ phase \in {"create", "serialize", "convert"} =>
          DOMAIN tensor_buffer = {} /\ machine_view = <<>>
    /\ phase = "allocate" => Allocating
    /\ phase \in {"fuse", "forward", "backward"} => DOMAIN tensor_buffer = Tensors

\* No operator is created yet.
LEMMA InitBuffers == Init => BufferInvariant
<1> SUFFICES ASSUME Init PROVE BufferInvariant
    OBVIOUS
<1> USE DEF Init
<1>1. op = <<>> /\ DOMAIN op = {} /\ Names = {}
    BY DEF Names
<1>2. WellFormed(op)
    BY <1>1, FS_EmptySet DEF WellFormed, Rooted
<1>3. at \in 1 .. Len(Layers) + 1
    BY LayerFacts
<1>4. Created(op, parallel_tensor, before_allreduce, at)
  <2>1. DOMAIN before_allreduce = {} /\ 1 .. at - 1 = {}
      OBVIOUS
  <2> QED BY <1>1, <2>1 DEF Created
<1>5. Grouping(operators, Names)
  <2>1. operators \in Seq(Seq(Names)) /\ DOMAIN operators = {}
    <3> DEFINE G == Seq(Names)
    <3> HIDE DEF G
    <3>1. << >> \in Seq(G)
        OBVIOUS
    <3> QED BY <3>1 DEF G
  <2> QED BY <1>1, <2>1 DEF Grouping, Apart, Elements
<1>6. serialized \in Seq(Names) /\ IsInjective(serialized)
  <2>1. serialized = << >> /\ DOMAIN << >> = {}
      OBVIOUS
  <2> QED BY <2>1 DEF IsInjective
<1>7. DOMAIN tensor_buffer = {} /\ machine_view = <<>>
    OBVIOUS
<1>8. OnStage /\ OutputsApart
  <2>1. machine_view \in Seq({ Stage(n) : n \in Names })
    <3> DEFINE S == { Stage(n) : n \in Names }
    <3> HIDE DEF S
    <3>1. << >> \in Seq(S)
        OBVIOUS
    <3> QED BY <1>7, <3>1 DEF S
  <2> QED BY <1>7, <2>1 DEF OnStage, OutputsApart
<1> QED BY <1>2, <1>3, <1>4, <1>5, <1>6, <1>7, <1>8 DEF BufferInvariant

\* While there are no buffers, there is nothing to say of them.
LEMMA NoBuffers ==
    ASSUME (DOMAIN tensor_buffer = {} /\ machine_view = <<>>)'
    PROVE  OnStage' /\ OutputsApart'
<1>1. machine_view' \in Seq({ Stage(n) : n \in Names }')
  <2> DEFINE S == { Stage(n) : n \in Names }'
  <2> HIDE DEF S
  <2>1. << >> \in Seq(S)
      OBVIOUS
  <2> QED BY <2>1 DEF S
<1> QED BY <1>1, Zenon DEF OnStage, OutputsApart

\* Creating the operators of a layer.
LEMMA CreateStep == BufferInvariant /\ CreateOperator => BufferInvariant'
<1> SUFFICES ASSUME BufferInvariant, CreateOperator PROVE BufferInvariant'
    OBVIOUS
<1>1. /\ phase = "create" /\ UNCHANGED << model, phase, queue, index, serialized, tensor_buffer, machine_view >>
    BY DEF CreateOperator, graphVars, bufferVars
<1>2. /\ WellFormed(op') /\ at' \in 1 .. Len(Layers) + 1
      /\ Created(op', parallel_tensor', before_allreduce', at')
      /\ Grouping(operators', DOMAIN op')
    BY <1>1, CreateKeeps DEF BufferInvariant
<1>3. Layers' = Layers
    BY <1>1 DEF Layers
<1>4. Created(op, parallel_tensor, before_allreduce, at)'
    BY <1>2, <1>3, ZenonT(60) DEF Created, Produced, TensorsOf
<1>5. (WellFormed(op) /\ at \in 1 .. Len(Layers) + 1 /\ Grouping(operators, Names))'
  <2>1. WellFormed(op)'
      BY <1>2, Zenon DEF WellFormed, OneWellFormed, Rooted, TensorsOf
  <2>2. Grouping(operators, Names)'
      BY <1>2, Zenon DEF Grouping, Names
  <2> QED BY <1>2, <1>3, <2>1, <2>2
<1>6. (serialized \in Seq(Names) /\ IsInjective(serialized))'
  <2>1. Names \subseteq Names'
      BY DEF CreateOperator, Names
  <2> DEFINE A == Names
             B == Names'
  <2>2. serialized \in Seq(A) /\ A \subseteq B
      BY <2>1 DEF BufferInvariant
  <2> HIDE DEF A, B
  <2>3. serialized \in Seq(B)
      BY <2>2
  <2> QED BY <1>1, <2>3 DEF B, BufferInvariant, IsInjective
<1>7. (DOMAIN tensor_buffer = {} /\ machine_view = <<>>)'
    BY <1>1 DEF BufferInvariant
<1> QED BY <1>1, <1>4, <1>5, <1>6, <1>7, NoBuffers DEF BufferInvariant

\* The definitions over the operators, when these do not change.
LEMMA SameGraph ==
    ASSUME UNCHANGED << model, op >>, NEW q, NEW i
    PROVE  /\ Passing(q, i)' <=> Passing(q, i)
           /\ WellFormed(op)' <=> WellFormed(op)
           /\ Names' = Names /\ Tensors' = Tensors
<1>1. Names' = Names /\ Sources' = Sources /\ \A n : Inputs(n)' = Inputs(n)
    BY DEF Names, Sources, Inputs
<1>2. Sorted(q)' <=> Sorted(q)
    BY <1>1, Zenon DEF Sorted
<1>3. Tensors' = Tensors
    BY <1>1 DEF Tensors, Outputs
<1>4. WellFormed(op)' <=> WellFormed(op)
    BY DEF WellFormed, OneWellFormed, Rooted, TensorsOf
<1>5. (\A m \in Names \ Range(q) : \E j \in DOMAIN Inputs(m) :
           \A k \in 1 .. i - 1 : q[k] # Inputs(m)[j][1])'
      <=> \A m \in Names \ Range(q) : \E j \in DOMAIN Inputs(m) :
             \A k \in 1 .. i - 1 : q[k] # Inputs(m)[j][1]
    BY <1>1
<1>6. Passing(q, i)' <=> Passing(q, i)
    BY <1>1, <1>2, <1>5, Zenon DEF Passing
<1> QED BY <1>1, <1>3, <1>4, <1>6

\* All operators created, the first pass over the graph starts.
LEMMA OperatorsCreatedStep == BufferInvariant /\ OperatorsCreated => BufferInvariant'
<1> SUFFICES ASSUME BufferInvariant, OperatorsCreated PROVE BufferInvariant'
    OBVIOUS
<1>1. /\ phase = "create" /\ phase' = "serialize" /\ at' = 1
      /\ queue' \in SetToSeqs(Sources) /\ index' = 1
      /\ UNCHANGED << model, op, serialized, operators, tensor_buffer, machine_view >>
    BY DEF OperatorsCreated, bufferVars, BufferInvariant
<1>2. Passing(queue', index')
    BY <1>1, PassStarts DEF BufferInvariant
<1>3. Passing(queue, index)'
  <2> DEFINE q == queue'
             i == index'
  <2>1. Passing(q, i)
      BY <1>2
  <2> HIDE DEF q, i
  <2>2. \A p, j : Passing(p, j) => Passing(p, j)'
      BY <1>1, SameGraph
  <2> QED BY <1>2, <2>2
<1>4. WellFormed(op)' /\ Names' = Names
    BY <1>1, SameGraph DEF BufferInvariant
<1>5. (DOMAIN tensor_buffer = {} /\ machine_view = <<>>)'
    BY <1>1 DEF BufferInvariant
<1>6. Grouping(operators, Names)' /\ (serialized \in Seq(Names) /\ IsInjective(serialized))'
    BY <1>1, <1>4 DEF BufferInvariant
<1> QED BY <1>1, <1>3, <1>4, <1>5, <1>6, NoBuffers DEF BufferInvariant

\* Visiting an operator in a pass.
LEMMA VisitStep == BufferInvariant /\ Visit => BufferInvariant'
<1> SUFFICES ASSUME BufferInvariant, Visit PROVE BufferInvariant'
    OBVIOUS
<1>1. /\ phase \in {"serialize", "convert"}
      /\ UNCHANGED << model, phase, op, serialized, operators, tensor_buffer, machine_view, at >>
    BY DEF Visit, createVars, bufferVars, runVars
<1>2. Passing(queue', index')
    BY <1>1, VisitKeeps DEF BufferInvariant
<1>3. Passing(queue, index)'
  <2>1. \A p, j : Passing(p, j) => Passing(p, j)'
      BY <1>1, SameGraph
  <2> QED BY <1>2, <2>1
<1>4. WellFormed(op)' /\ Names' = Names
    BY <1>1, SameGraph DEF BufferInvariant
<1>5. (DOMAIN tensor_buffer = {} /\ machine_view = <<>>)'
    BY <1>1 DEF BufferInvariant
<1>6. (IF phase = "convert" THEN operators = <<>> ELSE Grouping(operators, Names))'
      /\ (serialized \in Seq(Names) /\ IsInjective(serialized))'
    BY <1>1, <1>4 DEF BufferInvariant
<1> QED BY <1>1, <1>3, <1>4, <1>5, <1>6, NoBuffers DEF BufferInvariant

\* The first pass ended, the second starts.
LEMMA SerializedStep == BufferInvariant /\ Serialized => BufferInvariant'
<1> SUFFICES ASSUME BufferInvariant, Serialized PROVE BufferInvariant'
    OBVIOUS
<1>1. /\ phase = "serialize" /\ phase' = "convert" /\ serialized' = queue /\ operators' = <<>>
      /\ queue' \in SetToSeqs(Sources) /\ index' = 1
      /\ UNCHANGED << model, op, tensor_buffer, machine_view, at >>
    BY DEF Serialized, createVars, bufferVars, runVars
<1>2. Passing(queue', index')
    BY <1>1, PassStarts DEF BufferInvariant
<1>3. Passing(queue, index)'
  <2>1. \A p, j : Passing(p, j) => Passing(p, j)'
      BY <1>1, SameGraph
  <2> QED BY <1>2, <2>1
<1>4. WellFormed(op)' /\ Names' = Names
    BY <1>1, SameGraph DEF BufferInvariant
<1>5. (DOMAIN tensor_buffer = {} /\ machine_view = <<>>)'
    BY <1>1 DEF BufferInvariant
<1>6. (serialized \in Seq(Names) /\ IsInjective(serialized))'
    BY <1>1, <1>4 DEF BufferInvariant, Passing
<1>7. at' = 1
    BY <1>1 DEF BufferInvariant
<1> QED BY <1>1, <1>3, <1>4, <1>5, <1>6, <1>7, NoBuffers DEF BufferInvariant

\* Once converted, the operators are in an order in which they can run.
LEMMA ConvertedStep == BufferInvariant /\ Converted => BufferInvariant'
<1> SUFFICES ASSUME BufferInvariant, Converted PROVE BufferInvariant'
    OBVIOUS
<1>1. /\ phase = "convert" /\ phase' = "allocate"
      /\ queue' = <<>> /\ index' = 1 /\ serialized' = <<>>
      /\ UNCHANGED << model, op, tensor_buffer, machine_view, at >>
    BY DEF Converted, createVars, bufferVars, runVars
<1>2. WellFormed(op) /\ Passing(queue, index) /\ at = 1
    BY <1>1 DEF BufferInvariant
<1>3. Grouping(operators', Names) /\ Flat' = queue
    BY <1>2, ConvertedKeeps DEF Flat
<1>4. WellFormed(op)' /\ Names' = Names /\ Tensors' = Tensors
    BY <1>1, <1>2, SameGraph
<1>5. (DOMAIN tensor_buffer = {} /\ machine_view = <<>>)'
    BY <1>1 DEF BufferInvariant
<1>6. (serialized \in Seq(Names) /\ IsInjective(serialized))'
  <2>1. << >> \in Seq(Names') /\ DOMAIN << >> = {}
      OBVIOUS
  <2> QED BY <1>1, <2>1 DEF IsInjective
<1>7. Sorted(Flat)'
    BY <1>1, <1>2, <1>3 DEF Passing, Sorted, Inputs
<1>8. queue \in Seq(Names) /\ Len(queue) \in Nat /\ DOMAIN queue = 1 .. Len(queue)
    BY <1>2 DEF Passing
<1>9. (at \in 1 .. Len(Flat) + 1)'
    BY <1>1, <1>2, <1>3, <1>8
<1>10. Allocated(0)'
  <2>1. DOMAIN tensor_buffer' = { u \in Tensors' : \E i \in 1 .. at' - 1 : Flat'[i] = u[1] }
                                          \cup { << Flat'[at'], k >> : k \in 1 .. 0 }
    <3>1. 1 .. at' - 1 = {} /\ 1 .. 0 = {}
        BY <1>1, <1>2
    <3> QED BY <1>5, <3>1
  <2>2. at' <= Len(Flat') => 0 < Len(op'[Flat'[at']].shapes)
    <3> SUFFICES ASSUME at' <= Len(Flat') PROVE 0 < Len(op'[Flat'[at']].shapes)
        OBVIOUS
    <3>1. 1 \in DOMAIN queue
        BY <1>1, <1>2, <1>3, <1>8
    <3>2. queue[1] \in DOMAIN op
        BY <1>8, <3>1 DEF Names
    <3>3. Len(op[queue[1]].shapes) \in Nat \ {0}
        BY <1>2, <3>2 DEF WellFormed, OneWellFormed
    <3> QED BY <1>1, <1>2, <1>3, <3>3
  <2> QED BY <2>1, <2>2, Zenon DEF Allocated
<1>11. Allocating'
  <2>1. (\E c \in Nat : Allocated(c))'
      BY <1>10
  <2>2. LiveApart'
      BY <1>5, Zenon DEF LiveApart
  <2> QED BY <1>7, <1>9, <2>1, <2>2 DEF Allocating
<1>12. Grouping(operators, Names)' /\ model' \in Models
    BY <1>1, <1>3, <1>4 DEF BufferInvariant
<1> QED BY <1>1, <1>4, <1>5, <1>6, <1>11, <1>12, NoBuffers DEF BufferInvariant

\* Giving an output its buffer.
LEMMA AllocateStep == BufferInvariant /\ AllocateOutput => BufferInvariant'
<1> SUFFICES ASSUME BufferInvariant, AllocateOutput PROVE BufferInvariant'
    OBVIOUS
<1>1. /\ phase = "allocate" /\ UNCHANGED << model, phase, op, operators, queue, index, serialized >>
    BY DEF AllocateOutput, createVars, graphVars
<1>2. Allocating' /\ OnStage' /\ OutputsApart'
    BY <1>1, AllocateKeeps DEF BufferInvariant
<1>3. WellFormed(op)' /\ Names' = Names
    BY <1>1, SameGraph DEF BufferInvariant
<1>4. Grouping(operators, Names)' /\ (serialized \in Seq(Names) /\ IsInjective(serialized))'
      /\ (queue = <<>> /\ index = 1)'
    BY <1>1, <1>3 DEF BufferInvariant
<1> QED BY <1>1, <1>2, <1>3, <1>4 DEF BufferInvariant

\* The steps after the buffers are allocated, of which only fusion regroups the
\* operators.
LEMMA RunStep ==
    ASSUME BufferInvariant,
           UNCHANGED << model, op, queue, index, serialized, tensor_buffer, machine_view >>,
           DOMAIN tensor_buffer = Tensors,
           phase' \in {"fuse", "forward", "backward"},
           phase \notin {"create", "serialize", "convert"},
           Grouping(operators', Names)
    PROVE  BufferInvariant'
<1>1. WellFormed(op)' /\ Names' = Names /\ Tensors' = Tensors
    BY SameGraph DEF BufferInvariant
<1>2. /\ \A n : Outputs(n)' = Outputs(n) /\ Reads(n)' = Reads(n)
      /\ \A n : Stage(n)' = Stage(n)
      /\ \A t : Region(t)' = Region(t)
    BY DEF Outputs, Reads, Inputs, Stage, Region, InPlaceInput
<1>3. OnStage'
  <2>1. { Stage(n) : n \in Names }' = { Stage(n) : n \in Names }
      BY <1>1, <1>2, Zenon
  <2> QED BY <1>1, <1>2, <2>1 DEF BufferInvariant, OnStage
<1>4. OutputsApart'
    BY <1>1, <1>2 DEF BufferInvariant, OutputsApart
<1>5. Grouping(operators, Names)' /\ (serialized \in Seq(Names) /\ IsInjective(serialized))'
      /\ (queue = <<>> /\ index = 1)'
    BY <1>1 DEF BufferInvariant
<1> QED BY <1>1, <1>3, <1>4, <1>5 DEF BufferInvariant

\* The allocation ended.
LEMMA CheckResetsStep == BufferInvariant /\ CheckResets => BufferInvariant'
<1> SUFFICES ASSUME BufferInvariant, CheckResets PROVE BufferInvariant'
    OBVIOUS
<1>1. /\ phase = "allocate" /\ at > Len(Flat) /\ phase' \in {"fuse", "forward"}
      /\ UNCHANGED << model, op, operators, queue, index, serialized, tensor_buffer, machine_view >>
    BY DEF CheckResets, createVars, graphVars, bufferVars
<1>2. Allocating /\ Grouping(operators, Names) /\ WellFormed(op)
    BY <1>1 DEF BufferInvariant
<1>3. /\ Range(Flat) = Names /\ Len(Flat) \in Nat /\ DOMAIN Flat = 1 .. Len(Flat)
    BY <1>2, FlatFacts
<1>4. at - 1 = Len(Flat)
    BY <1>1, <1>2, <1>3 DEF Allocating
<1>5. PICK c \in Nat : Allocated(c)
    BY <1>2 DEF Allocating
<1>6. DOMAIN tensor_buffer = { t \in Tensors : \E i \in 1 .. at - 1 : Flat[i] = t[1] }
  <2>1. { << Flat[at], k >> : k \in 1 .. c } = {}
    <3>1. c = 0
        BY <1>1, <1>5 DEF Allocated
    <3> QED BY <3>1
  <2> QED BY <1>5, <2>1 DEF Allocated
<1>7. \A t \in Tensors : t[1] \in Names
    BY DEF Tensors, Outputs
<1>8. DOMAIN tensor_buffer = Tensors
    BY <1>3, <1>4, <1>6, <1>7 DEF Range
<1>9. Grouping(operators', Names)
    BY <1>1, <1>2
<1> QED BY <1>1, <1>8, <1>9, RunStep

\* Fusing an operator into an earlier one.
LEMMA FusionStep == BufferInvariant /\ ApplyFusion => BufferInvariant'
<1> SUFFICES ASSUME BufferInvariant, ApplyFusion PROVE BufferInvariant'
    OBVIOUS
<1> DEFINE l == Min(Fusable)
           i == Min(FusesWith(l))
<1>1. /\ phase = "fuse" /\ Fusable # {} /\ operators' = RemoveAt([operators EXCEPT ![i] = @ \o operators[l]], l)
      /\ UNCHANGED << model, phase, op, queue, index, serialized, tensor_buffer, machine_view >>
    BY DEF ApplyFusion, createVars, graphVars, bufferVars
<1>2. Grouping(operators, Names) /\ DOMAIN tensor_buffer = Tensors
    BY <1>1 DEF BufferInvariant
<1>3. Len(operators) \in Nat
  <2> DEFINE G == Seq(Names)
  <2>1. operators \in Seq(G)
      BY <1>2 DEF Grouping
  <2> HIDE DEF G
  <2> QED BY <2>1
<1>4. ASSUME NEW T, T \subseteq Nat, T # {} PROVE Min(T) \in T
    BY <1>4, LeastNatural DEF Min
<1>5. l \in Fusable
  <2>1. Fusable \subseteq Nat
      BY DEF Fusable
  <2> QED BY <1>1, <1>4, <2>1
<1>6. l \in 2 .. Len(operators) - 1 /\ FusesWith(l) # {}
    BY <1>5 DEF Fusable
<1> HIDE DEF l
<1>7. Start(l) \in 1 .. l - 1
  <2> DEFINE T == {1} \cup { k \in 1 .. l - 1 : ToSet(operators[k]) \cap Producers(operators[l]) # {} }
  <2>1. T \subseteq 1 .. l - 1 /\ 1 \in T
      BY <1>3, <1>6
  <2> HIDE DEF T
  <2>2. \E x \in T : \A y \in T : x >= y
    <3> DEFINE U == {l - x : x \in T}
    <3>1. U \subseteq Nat /\ l - 1 \in U
        BY <1>3, <1>6, <2>1
    <3>2. PICK m \in U : \A k \in U : m <= k
        BY <3>1, LeastNatural
    <3>3. PICK x \in T : m = l - x
        BY <3>2
    <3>4. ASSUME NEW y \in T PROVE x >= y
      <4>1. l - x <= l - y
          BY <3>2, <3>3
      <4> QED BY <1>3, <1>6, <2>1, <4>1
    <3> QED BY <3>4
  <2>3. Max(T) \in T
      BY <2>2 DEF Max
  <2> QED BY <2>1, <2>3 DEF Start, T
<1>8. i \in 1 .. l - 1
  <2>1. FusesWith(l) \subseteq Start(l) .. l - 1
      BY DEF FusesWith
  <2>2. FusesWith(l) \subseteq Nat
      BY <1>7, <2>1
  <2>3. i \in FusesWith(l)
      BY <1>4, <1>6, <2>2
  <2> QED BY <1>6, <1>7, <2>1, <2>3
<1> HIDE DEF i
<1>9. Grouping(operators', Names)
  <2> DEFINE u == RemoveAt([operators EXCEPT ![i] = @ \o operators[l]], l)
  <2>1. operators \in Seq(Seq(Names)) /\ Apart(operators) /\ l \in 1 .. Len(operators)
      BY <1>2, <1>3, <1>6 DEF Grouping
  <2>2. u \in Seq(Seq(Names)) /\ Apart(u) /\ Elements(u) = Elements(operators)
      BY <1>8, <2>1, GroupsFused
  <2>3. operators' = u
      BY <1>1
  <2> HIDE DEF u
  <2> QED BY <1>2, <2>2, <2>3 DEF Grouping
<1> QED BY <1>1, <1>2, <1>9, RunStep

\* The invariant holds throughout.
LEMMA NextBuffers == BufferInvariant /\ [Next]_vars => BufferInvariant'
<1> SUFFICES ASSUME BufferInvariant, [Next]_vars PROVE BufferInvariant'
    OBVIOUS
<1>1. ASSUME phase \in {"fuse", "forward", "backward"}, phase' \in {"fuse", "forward", "backward"},
             UNCHANGED << model, op, queue, index, serialized, tensor_buffer, machine_view, operators >>
      PROVE  BufferInvariant'
  <2>1. Grouping(operators', Names) /\ DOMAIN tensor_buffer = Tensors
      BY <1>1 DEF BufferInvariant
  <2> QED BY <1>1, <2>1, RunStep
<1>2. CASE FusionEnds \/ Inference \/ EndOfForward \/ PeftBwd \/ EndOfBackward
  <2>1. phase \in {"fuse", "forward", "backward"} /\ phase' \in {"fuse", "forward", "backward"}
      BY <1>2 DEF FusionEnds, Inference, EndOfForward, PeftBwd, EndOfBackward
  <2>2. UNCHANGED << model, op, queue, index, serialized, tensor_buffer, machine_view, operators >>
      BY <1>2 DEF FusionEnds, Inference, EndOfForward, PeftBwd, EndOfBackward,
                  createVars, graphVars, bufferVars
  <2> QED BY <1>1, <2>1, <2>2
<1>3. CASE UNCHANGED vars
  <2> USE <1>3 DEF vars, createVars, graphVars, bufferVars, runVars
  <2>1. CASE phase \in {"fuse", "forward", "backward"}
      BY <1>1, <2>1
  <2>2. /\ Names' = Names /\ Tensors' = Tensors /\ Flat' = Flat
        /\ \A n : Inputs(n)' = Inputs(n) /\ Outputs(n)' = Outputs(n) /\ Reads(n)' = Reads(n)
        /\ \A n : Stage(n)' = Stage(n)
        /\ \A t : Region(t)' = Region(t)
      BY SameOperators
  <2>3. WellFormed(op)' /\ (Passing(queue, index) <=> Passing(queue, index)')
    <3>1. \A p, j : Passing(p, j) <=> Passing(p, j)'
        BY SameGraph
    <3> QED BY <3>1, SameGraph DEF BufferInvariant
  <2>4. Created(op, parallel_tensor, before_allreduce, at) =>
           Created(op, parallel_tensor, before_allreduce, at)'
    <3>1. Layers' = Layers
        BY DEF Layers
    <3> QED BY <3>1 DEF Created, Produced, TensorsOf
  <2>5. OnStage'
    <3>1. { Stage(n) : n \in Names }' = { Stage(n) : n \in Names }
        BY <2>2, Zenon
    <3> QED BY <2>2, <3>1 DEF BufferInvariant, OnStage
  <2>6. OutputsApart'
      BY <2>2 DEF BufferInvariant, OutputsApart
  <2>7. Allocating => Allocating'
    <3> SUFFICES ASSUME Allocating PROVE Allocating'
        OBVIOUS
    <3>1. PICK c \in Nat : Allocated(c)
        BY DEF Allocating
    <3>2. Allocated(c)'
        BY <2>2, <3>1 DEF Allocated
    <3>3. LiveApart'
        BY <2>2 DEF Allocating, LiveApart, LiveReads
    <3>4. (Sorted(Flat) /\ at \in 1 .. Len(Flat) + 1)'
        BY <2>2 DEF Allocating, Sorted
    <3> QED BY <3>2, <3>3, <3>4 DEF Allocating
  <2>8. Grouping(operators, Names) => Grouping(operators, Names)'
      BY <2>2
  <2>9. (serialized \in Seq(Names) /\ IsInjective(serialized))'
      BY <2>2 DEF BufferInvariant
  <2>10. (phase = "create" => at \in 1 .. Len(Layers) + 1 /\ Created(op, parallel_tensor, before_allreduce, at))'
    <3>1. Layers' = Layers
        BY DEF Layers
    <3> QED BY <2>4, <3>1 DEF BufferInvariant
  <2> QED BY <2>2, <2>3, <2>5, <2>6, <2>7, <2>8, <2>9, <2>10 DEF BufferInvariant
<1> QED BY <1>2, <1>3, CreateStep, OperatorsCreatedStep, VisitStep, SerializedStep, ConvertedStep,
           AllocateStep, CheckResetsStep, FusionStep DEF Next

\* From the creation of the first operator to the last pass: the graph has no cycle, both
\* passes over it visit producers before their readers and reach every operator, and a
\* tensor that is still to be read keeps its buffer to its region while the buffers are
\* allocated (model.cc:3495-3635, graph.cc:2221-2247, inference_manager.cc:135-255).
THEOREM BufferInvariantHolds == Spec => []BufferInvariant
<1>1. Init => BufferInvariant
    BY InitBuffers
<1>2. BufferInvariant /\ [Next]_vars => BufferInvariant'
    BY NextBuffers
<1> QED BY <1>1, <1>2, PTL DEF Spec

\* The operators are neither lost nor duplicated by the two passes over the graph
\* and by fusion, and every tensor has a buffer, of the stage that computes it,
\* from the operator on that produces it (graph.cc:2221-2247, model.cc:2967-3095,
\* inference_manager.cc:135-255).
THEOREM BufferTypes == Spec => []BufferTypeOK
<1>1. ASSUME BufferInvariant PROVE BufferTypeOK
  <2> USE <1>1 DEF BufferInvariant
  <2>1. /\ \A S : \A s \in Seq(S) : Range(s) \subseteq S
        /\ IsInjective(<< >>) /\ Range(<< >>) = {}
    <3>1. DOMAIN << >> = {}
        OBVIOUS
    <3>2. ASSUME NEW S, NEW s \in Seq(S) PROVE Range(s) \subseteq S
        BY DEF Range
    <3> QED BY <3>1, <3>2 DEF IsInjective, Range
  <2>2. Range(queue) \subseteq Names /\ IsInjective(queue)
    <3>1. CASE phase \in {"serialize", "convert"}
        BY <2>1, <3>1 DEF Passing
    <3>2. CASE phase \notin {"serialize", "convert"}
        BY <2>1, <3>2
    <3> QED BY <3>1, <3>2
  <2>3. Range(serialized) \subseteq Names /\ IsInjective(serialized)
      BY <2>1
  <2>4. /\ Range(Flat) \subseteq Names /\ IsInjective(Flat)
        /\ phase \notin {"create", "convert"} => Range(Flat) = Names
    <3>1. CASE phase = "convert"
      <4>1. operators = <<>>
          BY <3>1
      <4>2. Flat = <<>>
        <5>1. Len(operators) = 0
            BY <4>1
        <5> QED BY <4>1, <5>1 DEF Flat, FlattenSeq
      <4> QED BY <2>1, <3>1, <4>2
    <3>2. CASE phase # "convert"
        BY <3>2, FlatFacts
    <3> QED BY <3>1, <3>2
  <2> QED BY <2>2, <2>3, <2>4 DEF BufferTypeOK, OnStage
<1> QED BY <1>1, BufferInvariantHolds, PTL

\* An operator never overwrites what it reads, nor one output with another: the
\* buffer of an output is that of none of its inputs and of no other output, but
\* of what it updates in place (inference_manager.cc:166-252).
THEOREM OutputsAlwaysApart == Spec => []OutputsApart
<1>1. ASSUME BufferInvariant PROVE OutputsApart
    BY <1>1 DEF BufferInvariant
<1> QED BY <1>1, BufferInvariantHolds, PTL


-----------------------------------------------------------------------------
(* What the operators find in the buffers, when they are not fused.  Fusion  *)
(* moves operators after the buffers are allocated, and only the shape of    *)
(* the model keeps it from moving one before a reader of what it overwrites. *)

\* The tensors of one region share a buffer: an adapter works in place.
RegionsShare ==
    \A u, v \in DOMAIN tensor_buffer :
        Region(u) = Region(v) => tensor_buffer[u] = tensor_buffer[v]

\* Tensor w is written before v or by the same operator, and read by the
\* operator that writes v or by a later one.
UsedAcross(v, w) ==
    \E k, m \in DOMAIN Flat : \E i \in 1 .. k :
        Flat[k] = v[1] /\ Flat[i] = w[1] /\ k <= m /\ w \in Reads(Flat[m])

\* Then v does not overwrite w.
BufferKept ==
    \A v, w \in DOMAIN tensor_buffer :
        UsedAcross(v, w) /\ Region(v) # Region(w) => tensor_buffer[v] # tensor_buffer[w]

\* The buffer of w holds the tensor written last in the region of w.
HoldsLatest(w) ==
    LET d == data[tensor_buffer[w]]
    IN  /\ d \in Tensors /\ Region(d) = Region(w)
        /\ \A x \in Tensors : \A p \in 1 .. at - 1 :
              Flat[p] = x[1] /\ Region(x) = Region(w) =>
                  \E q \in p .. at - 1 : Flat[q] = d[1]

\* So do the buffers of all tensors that are still to be read.
LiveHeld ==
    \A m \in at .. Len(Flat) : \A w \in Reads(Flat[m]) :
        (\E i \in 1 .. at - 1 : Flat[i] = w[1]) => HoldsLatest(w)

\* An operator finds in the buffer of each input the tensor that was written
\* last in the region of that input: the input itself, or what its adapter made
\* of it in place, but nothing of another tensor.
InputsKept ==
    phase = "forward" /\ ~model.perform_fusion /\ at <= Len(Flat) =>
        \A t \in Reads(Flat[at]) : HoldsLatest(t)

\* The buffers hold what is still to be read.
RunInvariant ==
    /\ phase = "fuse" => model.perform_fusion
    /\ RegionsShare
    /\ phase = "allocate" => BufferKept
    /\ phase \in {"forward", "backward"} /\ ~model.perform_fusion =>
          Sorted(Flat) /\ BufferKept
    /\ phase = "forward" /\ ~model.perform_fusion =>
          /\ at \in 1 .. Len(Flat) + 1
          /\ DOMAIN data = DOMAIN machine_view
          /\ LiveHeld

\* Where a region is: in place for an adapter, itself otherwise.
LEMMA RegionFacts ==
    ASSUME WellFormed(op), NEW t \in Tensors
    PROVE  /\ t[1] \in Names
           /\ op[t[1]].op_type # "LORA" => Region(t) = t
           /\ op[t[1]].op_type = "LORA" =>
                 /\ Region(t) = Inputs(t[1])[2] /\ Inputs(t[1])[2] \in Reads(t[1])
                 /\ Inputs(t[1])[2] \in Tensors /\ op[Inputs(t[1])[2][1]].op_type # "LORA"
                 /\ Region(Inputs(t[1])[2]) = Inputs(t[1])[2]
<1>1. t[1] \in Names
    BY DEF Tensors, Outputs
<1>2. op[t[1]].op_type # "LORA" => Region(t) = t
    BY DEF Region, InPlaceInput
<1>3. ASSUME op[t[1]].op_type = "LORA"
      PROVE  /\ Region(t) = Inputs(t[1])[2] /\ Inputs(t[1])[2] \in Reads(t[1])
             /\ Inputs(t[1])[2] \in Tensors /\ op[Inputs(t[1])[2][1]].op_type # "LORA"
             /\ Region(Inputs(t[1])[2]) = Inputs(t[1])[2]
  <2>1. OneWellFormed(op, op[t[1]])
      BY <1>1 DEF WellFormed, Names
  <2>2. 2 \in DOMAIN Inputs(t[1]) /\ op[Inputs(t[1])[2][1]].op_type # "LORA"
      BY <1>3, <2>1 DEF OneWellFormed, Inputs
  <2>3. Inputs(t[1])[2] \in Reads(t[1])
      BY <2>2 DEF Reads
  <2>4. Inputs(t[1])[2] \in Tensors
      BY <1>1, <2>2, InputsAreTensors
  <2>5. Region(t) = Inputs(t[1])[2]
      BY <1>3 DEF Region, InPlaceInput
  <2>6. Region(Inputs(t[1])[2]) = Inputs(t[1])[2]
      BY <2>2 DEF Region, InPlaceInput
  <2> QED BY <2>2, <2>3, <2>4, <2>5, <2>6
<1> QED BY <1>1, <1>2, <1>3

\* A step gives its output a buffer of its region, and one that no tensor needs
\* between now and its last reader.
LEMMA AllocateKeepsKept ==
    ASSUME WellFormed(op), Grouping(operators, Names), Allocating, OnStage, OutputsApart,
           RegionsShare, BufferKept, AllocateOutput
    PROVE  RegionsShare' /\ BufferKept'
<1> DEFINE l == Flat[at]
           t == NextOutput(l)
<1>1. /\ at <= Len(Flat) /\ UNCHANGED << model, op, operators >>
      /\ \/ \E u \in SharesRegion(l, t) : UseBuffer(t, tensor_buffer[u])
         \/ SharesRegion(l, t) = {}
    BY Zenon DEF AllocateOutput, createVars
<1>2. PICK c \in Nat :
                 /\ Allocated(c) /\ t = << l, c + 1 >>
                 /\ l \in Names /\ t \in Outputs(l) /\ t \notin DOMAIN tensor_buffer
                 /\ Reads(l) \subseteq DOMAIN tensor_buffer /\ Reads(l) \subseteq LiveReads
                 /\ Reads(l) \cap Outputs(l) = {}
                 /\ \A u \in DOMAIN tensor_buffer : t \notin Reads(u[1])
                 /\ t \notin Reads(l)
    BY <1>1, OutputAtHand
<1>3. PICK b : Gives(l, t, b)
    BY BufferGiven
<1>4. /\ Flat' = Flat /\ \A n : Reads(n)' = Reads(n)
      /\ \A u : Region(u)' = Region(u)
    BY <1>1, SameOperators
<1>5. /\ Flat \in Seq(Names) /\ IsInjective(Flat) /\ Range(Flat) = Names
      /\ Len(Flat) \in Nat /\ DOMAIN Flat = 1 .. Len(Flat)
    BY FlatFacts
<1>6. at \in 1 .. Len(Flat)
    BY <1>1, <1>5 DEF Allocating
<1>7. t[1] = l /\ t \in Tensors
    BY <1>2 DEF Tensors, Outputs
<1>8. /\ DOMAIN tensor_buffer' = {t} \cup DOMAIN tensor_buffer
      /\ tensor_buffer'[t] = b
      /\ \A u \in DOMAIN tensor_buffer : tensor_buffer'[u] = tensor_buffer[u]
      /\ t \notin DOMAIN tensor_buffer /\ DOMAIN tensor_buffer \subseteq Tensors
    BY <1>2, <1>3 DEF Gives, UseBuffer, OnStage
<1>9. \A u \in DOMAIN tensor_buffer :
          (u \in LiveReads \/ u \in Outputs(l)) /\ Region(u) # Region(t)
             => tensor_buffer[u] # b
    BY <1>3 DEF Gives, Separate
<1>10. ASSUME NEW v \in DOMAIN tensor_buffer, NEW k \in DOMAIN Flat, Flat[k] = v[1], at <= k
       PROVE  v \in Outputs(l)
  <2>1. CASE \E i \in 1 .. at - 1 : Flat[i] = v[1]
    <3>1. PICK i \in 1 .. at - 1 : Flat[i] = v[1]
        BY <2>1
    <3>2. i \in DOMAIN Flat /\ i # k
        BY <1>5, <1>6, <1>10
    <3> QED BY <1>5, <1>10, <3>1, <3>2 DEF IsInjective
  <2>2. CASE \E j \in 1 .. c : v = << l, j >>
    <3>1. v[1] = l /\ v \in Tensors
        BY <1>8, <2>2
    <3> QED BY <3>1 DEF Tensors, Outputs
  <2>3. v \in { u \in Tensors : \E i \in 1 .. at - 1 : Flat[i] = u[1] }
                 \cup { << l, j >> : j \in 1 .. c }
      BY <1>2 DEF Allocated
  <2> QED BY <2>1, <2>2, <2>3
<1> HIDE DEF l
<1>11. ASSUME NEW u \in DOMAIN tensor_buffer, Region(u) = Region(t)
       PROVE  tensor_buffer[u] = b
  <2>1. ASSUME NEW x \in SharesRegion(l, t), UseBuffer(t, tensor_buffer[x])
        PROVE  tensor_buffer[u] = b
    <3>1. x \in DOMAIN tensor_buffer /\ Region(x) = Region(u)
        BY <1>2, <1>11, <2>1 DEF SharesRegion
    <3>2. tensor_buffer[x] = tensor_buffer[u]
        BY <3>1 DEF RegionsShare
    <3>3. tensor_buffer'[t] = tensor_buffer[x]
        BY <2>1 DEF UseBuffer
    <3> QED BY <1>8, <3>2, <3>3
  <2>2. ASSUME SharesRegion(l, t) = {} PROVE FALSE
    <3>1. CASE op[l].op_type = "LORA"
      <4>1. Region(t) = Inputs(l)[2] /\ Inputs(l)[2] \in Reads(l) /\ Region(Inputs(l)[2]) = Inputs(l)[2]
          BY <1>7, <3>1, RegionFacts
      <4>2. Inputs(l)[2] \in SharesRegion(l, t)
          BY <4>1 DEF SharesRegion
      <4> QED BY <2>2, <4>2
    <3>2. CASE op[l].op_type # "LORA"
      <4>1. Region(t) = t
          BY <1>7, <3>2, RegionFacts
      <4>2. Region(u) = u \/ Region(u) \in Reads(u[1])
          BY <1>8, RegionFacts
      <4> QED BY <1>2, <1>8, <1>11, <4>1, <4>2
    <3> QED BY <3>1, <3>2
  <2> QED BY <1>1, <2>1, <2>2 DEF l
<1> HIDE DEF t
<1>12. RegionsShare'
  <2> SUFFICES ASSUME NEW u \in DOMAIN tensor_buffer', NEW v \in DOMAIN tensor_buffer',
                      Region(u) = Region(v)
               PROVE  tensor_buffer'[u] = tensor_buffer'[v]
      BY <1>4 DEF RegionsShare
  <2>1. CASE u = t
      BY <1>8, <1>11, <2>1
  <2>2. CASE v = t
      BY <1>8, <1>11, <2>2
  <2>3. CASE u # t /\ v # t
      BY <1>8, <2>3 DEF RegionsShare
  <2> QED BY <2>1, <2>2, <2>3
<1>13. BufferKept'
  <2> SUFFICES ASSUME NEW v \in DOMAIN tensor_buffer', NEW w \in DOMAIN tensor_buffer',
                      UsedAcross(v, w), Region(v) # Region(w)
               PROVE  tensor_buffer'[v] # tensor_buffer'[w]
    <3>1. \A v, w : UsedAcross(v, w)' <=> UsedAcross(v, w)
        BY <1>4 DEF UsedAcross
    <3> QED BY <1>4, <3>1, Zenon DEF BufferKept
  <2>0. PICK k \in DOMAIN Flat, m \in DOMAIN Flat : \E i \in 1 .. k :
                Flat[k] = v[1] /\ Flat[i] = w[1] /\ k <= m /\ w \in Reads(Flat[m])
      BY DEF UsedAcross
  <2>1. PICK i \in 1 .. k :
                Flat[k] = v[1] /\ Flat[i] = w[1] /\ k <= m /\ w \in Reads(Flat[m])
      BY <2>0
  <2>2. CASE v = t
    <3>1. w \in DOMAIN tensor_buffer
        BY <1>8, <2>2
    <3>2. k = at
        BY <1>5, <1>6, <1>7, <2>1, <2>2 DEF l, IsInjective
    <3>3. m \in at .. Len(Flat)
        BY <1>5, <1>6, <2>1, <3>2
    <3>4. w \in LiveReads
        BY <2>1, <3>3 DEF LiveReads
    <3> QED BY <1>8, <1>9, <2>2, <3>1, <3>4
  <2>3. CASE w = t
    <3>1. v \in DOMAIN tensor_buffer
        BY <1>8, <2>3
    <3>2. i \in DOMAIN Flat
        BY <1>5, <2>1
    <3>3. i = at
        BY <1>5, <1>6, <1>7, <2>1, <2>3, <3>2 DEF l, IsInjective
    <3>4. at <= k
        BY <1>5, <2>1, <3>3
    <3>5. v \in Outputs(l)
        BY <1>10, <2>1, <3>1, <3>4
    <3> QED BY <1>8, <1>9, <2>3, <3>1, <3>5
  <2>4. CASE v # t /\ w # t
      BY <1>8, <2>4 DEF BufferKept
  <2> QED BY <2>2, <2>3, <2>4
<1> QED BY <1>12, <1>13

\* What is kept depends on the graph and on the buffers only.
LEMMA SameKept ==
    ASSUME UNCHANGED << model, op, tensor_buffer >>
    PROVE  /\ RegionsShare => RegionsShare'
           /\ UNCHANGED operators =>
                 (BufferKept => BufferKept') /\ (Sorted(Flat) => Sorted(Flat)')
<1>1. /\ \A n : Inputs(n)' = Inputs(n) /\ Reads(n)' = Reads(n)
      /\ \A t : Region(t)' = Region(t)
    BY DEF Inputs, Reads, Region, InPlaceInput
<1>2. RegionsShare => RegionsShare'
    BY <1>1 DEF RegionsShare
<1>3. ASSUME UNCHANGED operators PROVE BufferKept => BufferKept'
  <2>1. \A v, w : UsedAcross(v, w)' <=> UsedAcross(v, w)
      BY <1>1, <1>3 DEF UsedAcross, Flat
  <2> QED BY <1>1, <2>1, Zenon DEF BufferKept
<1>4. ASSUME UNCHANGED operators PROVE Sorted(Flat) => Sorted(Flat)'
    BY <1>1, <1>4 DEF Sorted, Flat
<1> QED BY <1>2, <1>3, <1>4

\* An operator writes its outputs, over nothing that is still to be read.
LEMMA InferenceHolds ==
    ASSUME BufferInvariant, RunInvariant, Inference, ~model.perform_fusion
    PROVE  RunInvariant'
<1> DEFINE l == Flat[at]
           written(b) == { t \in Outputs(l) : tensor_buffer[t] = b }
<1>1. /\ phase = "forward" /\ phase' = phase /\ at <= Len(Flat) /\ at' = at + 1
      /\ data' = [b \in DOMAIN data |->
                    IF written(b) = {} THEN data[b] ELSE CHOOSE t \in written(b) : TRUE]
      /\ UNCHANGED << model, op, operators, tensor_buffer, machine_view >>
    BY DEF Inference, createVars, bufferVars
<1>2. /\ RegionsShare /\ Sorted(Flat) /\ BufferKept /\ LiveHeld
      /\ at \in 1 .. Len(Flat) + 1 /\ DOMAIN data = DOMAIN machine_view
    BY <1>1 DEF RunInvariant
<1>3. /\ WellFormed(op) /\ Grouping(operators, Names) /\ OnStage /\ DOMAIN tensor_buffer = Tensors
    BY <1>1 DEF BufferInvariant
<1>4. /\ Flat \in Seq(Names) /\ IsInjective(Flat) /\ Range(Flat) = Names
      /\ Len(Flat) \in Nat /\ DOMAIN Flat = 1 .. Len(Flat)
    BY <1>3, FlatFacts
<1>5. at \in DOMAIN Flat /\ l \in Names /\ at' \in 1 .. Len(Flat) + 1
    BY <1>1, <1>2, <1>4
<1>6. /\ Tensors' = Tensors /\ Flat' = Flat /\ \A n : Reads(n)' = Reads(n)
      /\ \A t : Region(t)' = Region(t)
    BY <1>1, SameOperators
<1>7. ASSUME NEW t \in Tensors, t[1] = l PROVE t \in Outputs(l)
    BY <1>7 DEF Tensors, Outputs
<1>8. Outputs(l) \subseteq Tensors /\ \A t \in Outputs(l) : t[1] = l
    BY <1>5 DEF Tensors, Outputs
<1> HIDE DEF l
<1>9. ASSUME NEW m \in at + 1 .. Len(Flat), NEW w \in Reads(Flat[m]),
             NEW i \in 1 .. at, Flat[i] = w[1]
      PROVE  HoldsLatest(w)'
  <2> DEFINE b == tensor_buffer[w]
             d == data'[b]
  <2>1. m \in DOMAIN Flat /\ i \in DOMAIN Flat /\ at \in Nat /\ m \in at .. Len(Flat)
      BY <1>4, <1>5
  <2>2. w \in Tensors
      BY <1>3, <1>4, <2>1, InputsAreTensors DEF Reads
  <2>3. b \in DOMAIN data
      BY <1>2, <1>3, <2>2 DEF OnStage
  <2>4. d = IF written(b) = {} THEN data[b] ELSE CHOOSE t \in written(b) : TRUE
      BY <1>1, <2>3
  <2>5. SUFFICES
          /\ d \in Tensors /\ Region(d) = Region(w)
          /\ \A x \in Tensors : \A p \in 1 .. at :
                Flat[p] = x[1] /\ Region(x) = Region(w) => \E q \in p .. at : Flat[q] = d[1]
    <3>1. at' - 1 = at /\ tensor_buffer'[w] = b
        BY <1>1, <2>1
    <3> QED BY <1>6, <2>5, <3>1 DEF HoldsLatest
  <2> HIDE DEF b, d
  <2>6. CASE written(b) = {}
    <3>1. i # at
        BY <1>7, <1>9, <2>2, <2>6 DEF b, l
    <3>2. HoldsLatest(w)
      <4>1. i \in 1 .. at - 1
          BY <2>1, <3>1
      <4> QED BY <1>2, <1>9, <2>1, <4>1 DEF LiveHeld
    <3>3. d = data[b]
        BY <2>4, <2>6
    <3>4. /\ d \in Tensors /\ Region(d) = Region(w)
          /\ \A x \in Tensors : \A p \in 1 .. at - 1 :
                Flat[p] = x[1] /\ Region(x) = Region(w) => \E q \in p .. at - 1 : Flat[q] = d[1]
        BY <3>2, <3>3 DEF HoldsLatest, b
    <3>5. ASSUME NEW x \in Tensors, NEW p \in 1 .. at, Flat[p] = x[1], Region(x) = Region(w)
          PROVE  \E q \in p .. at : Flat[q] = d[1]
      <4>1. tensor_buffer[x] = b
          BY <1>2, <1>3, <2>2, <3>5 DEF RegionsShare, b
      <4>2. p # at
          BY <1>7, <2>6, <3>5, <4>1 DEF l
      <4>3. p \in 1 .. at - 1
          BY <2>1, <4>2
      <4>4. PICK q \in p .. at - 1 : Flat[q] = d[1]
          BY <3>4, <3>5, <4>3
      <4>5. q \in p .. at
          BY <2>1
      <4> QED BY <4>4, <4>5
    <3> QED BY <3>4, <3>5
  <2>7. CASE written(b) # {}
    <3>1. d \in written(b)
        BY <2>4, <2>7
    <3>2. d \in Tensors /\ d[1] = Flat[at] /\ tensor_buffer[d] = tensor_buffer[w]
        BY <1>8, <3>1 DEF b, l
    <3>3. UsedAcross(d, w)
      <4>1. at <= m
          BY <2>1
      <4> QED BY <1>5, <1>9, <2>1, <3>2, <4>1 DEF UsedAcross
    <3>4. Region(d) = Region(w)
        BY <1>2, <1>3, <2>2, <3>2, <3>3 DEF BufferKept
    <3>5. \A p \in 1 .. at : at \in p .. at
        BY <2>1
    <3> QED BY <3>2, <3>4, <3>5
  <2> QED BY <2>6, <2>7
<1>10. LiveHeld'
  <2>1. at' - 1 = at /\ at' = at + 1
      BY <1>1, <1>5, <1>4
  <2> SUFFICES ASSUME NEW m \in at + 1 .. Len(Flat), NEW w \in Reads(Flat[m]),
                      \E i \in 1 .. at : Flat[i] = w[1]
               PROVE  HoldsLatest(w)'
      BY <1>6, <2>1 DEF LiveHeld
  <2> QED BY <1>9
<1>11. (DOMAIN data = DOMAIN machine_view)'
    BY <1>1, <1>2
<1>12. RegionsShare' /\ BufferKept' /\ Sorted(Flat)'
    BY <1>1, <1>2, SameKept
<1> QED BY <1>1, <1>5, <1>6, <1>10, <1>11, <1>12 DEF RunInvariant

\* The other steps give a buffer, or leave what is in them to be written anew.
LEMMA NextKept ==
    BufferInvariant /\ BufferInvariant' /\ RunInvariant /\ [Next]_vars => RunInvariant'
<1> SUFFICES ASSUME BufferInvariant, BufferInvariant', RunInvariant, [Next]_vars
             PROVE  RunInvariant'
    OBVIOUS
<1>1. ASSUME DOMAIN tensor_buffer' = {}, phase' \notin {"fuse", "forward", "backward"}
      PROVE  RunInvariant'
    BY <1>1, Zenon DEF RunInvariant, RegionsShare, BufferKept
<1>2. CASE CreateOperator \/ OperatorsCreated \/ Visit \/ Serialized \/ Converted
  <2>1. phase \in {"create", "serialize", "convert"} /\ UNCHANGED tensor_buffer
      BY <1>2 DEF CreateOperator, OperatorsCreated, Visit, Serialized, Converted, bufferVars
  <2>2. phase' \notin {"fuse", "forward", "backward"}
      BY <1>2 DEF CreateOperator, OperatorsCreated, Visit, Serialized, Converted
  <2> QED BY <1>1, <2>1, <2>2 DEF BufferInvariant
<1>3. CASE AllocateOutput
  <2>1. phase = "allocate" /\ phase' = phase
      BY <1>3 DEF AllocateOutput
  <2>2. RegionsShare' /\ BufferKept'
      BY <1>3, <2>1, AllocateKeepsKept DEF BufferInvariant, RunInvariant
  <2> QED BY <2>1, <2>2 DEF RunInvariant
<1>4. ASSUME UNCHANGED << model, op, operators, tensor_buffer, machine_view >>,
             phase \in {"allocate", "forward", "backward"} \/ model.perform_fusion,
             phase' = "fuse" => model.perform_fusion,
             phase' # "allocate",
             phase' = "forward" => at' = 1 /\ (data' = Leftover(Stale) \/ model.perform_fusion)
      PROVE  RunInvariant'
  <2>1. RegionsShare' /\ (BufferKept => BufferKept') /\ (Sorted(Flat) => Sorted(Flat)')
      BY <1>4, SameKept DEF RunInvariant
  <2>2. ~model.perform_fusion => Sorted(Flat) /\ BufferKept
      BY <1>4 DEF RunInvariant, BufferInvariant, Allocating
  <2>3. ASSUME phase' = "forward", ~model.perform_fusion
        PROVE  /\ at' \in 1 .. Len(Flat') + 1
               /\ DOMAIN data' = DOMAIN machine_view'
               /\ LiveHeld'
    <3>1. at' = 1 /\ DOMAIN data' = DOMAIN machine_view'
        BY <1>4, <2>3 DEF Leftover
    <3>2. Len(Flat') \in Nat
      <4>1. Grouping(operators, Names)
          BY <1>4, <2>3 DEF BufferInvariant, RunInvariant
      <4>2. Flat' = Flat
          BY <1>4 DEF Flat
      <4> QED BY <4>1, <4>2, FlatFacts
    <3>3. ~ \E i \in 1 .. at' - 1 : TRUE
        BY <3>1
    <3>4. LiveHeld'
        BY <3>3, Zenon DEF LiveHeld
    <3>5. at' \in 1 .. Len(Flat') + 1
        BY <3>1, <3>2
    <3> QED BY <3>1, <3>4, <3>5
  <2> QED BY <1>4, <2>1, <2>2, <2>3 DEF RunInvariant
<1>5. CASE CheckResets
  <2> USE <1>5 DEF CheckResets, createVars, graphVars, bufferVars
  <2>1. UNCHANGED << model, op, operators, tensor_buffer, machine_view >> /\ phase = "allocate"
      OBVIOUS
  <2>2. (phase' = "fuse" => model.perform_fusion) /\ phase' # "allocate"
      OBVIOUS
  <2>3. at' = 1 /\ data' = Leftover(Stale)
      OBVIOUS
  <2> QED BY <1>4, <2>1, <2>2, <2>3
<1>6. CASE ApplyFusion
  <2>1. UNCHANGED << model, phase, op, tensor_buffer >> /\ phase = "fuse"
      BY <1>6 DEF ApplyFusion, createVars, bufferVars
  <2> QED BY <2>1, SameKept DEF RunInvariant
<1>7. CASE FusionEnds
  <2> USE <1>7 DEF FusionEnds, createVars, graphVars, bufferVars
  <2>1. UNCHANGED << model, op, tensor_buffer >> /\ model.perform_fusion /\ phase' = "forward"
      BY DEF RunInvariant
  <2> QED BY <2>1, SameKept DEF RunInvariant
<1>8. CASE Inference
  <2>1. CASE model.perform_fusion
    <3>1. UNCHANGED << model, phase, op, tensor_buffer >> /\ phase = "forward"
        BY <1>8 DEF Inference, createVars, bufferVars
    <3> QED BY <2>1, <3>1, SameKept DEF RunInvariant
  <2>2. CASE ~model.perform_fusion
      BY <1>8, <2>2, InferenceHolds
  <2> QED BY <2>1, <2>2
<1>9. CASE EndOfForward
  <2> USE <1>9 DEF EndOfForward, createVars, graphVars, bufferVars
  <2>1. UNCHANGED << model, op, operators, tensor_buffer, machine_view >> /\ phase = "forward"
      OBVIOUS
  <2>2. /\ phase' \in {"forward", "backward"}
        /\ phase' = "forward" => at' = 1 /\ data' = Leftover(Stale)
      OBVIOUS
  <2> QED BY <1>4, <2>1, <2>2
<1>10. CASE PeftBwd
  <2>1. UNCHANGED << model, op, operators, tensor_buffer, machine_view >>
        /\ phase = "backward" /\ phase' = "backward"
      BY <1>10 DEF PeftBwd, createVars, graphVars, bufferVars
  <2> QED BY <1>4, <2>1
<1>11. CASE EndOfBackward
  <2> USE <1>11 DEF EndOfBackward, createVars, graphVars, bufferVars
  <2>1. UNCHANGED << model, op, operators, tensor_buffer, machine_view >> /\ phase = "backward"
      OBVIOUS
  <2>2. phase' = "forward" /\ at' = 1 /\ data' = Leftover(Stale)
      OBVIOUS
  <2> QED BY <1>4, <2>1, <2>2
<1>12. CASE UNCHANGED vars
  <2> USE <1>12 DEF vars, createVars, graphVars, bufferVars, runVars
  <2>1. /\ RegionsShare' /\ (BufferKept => BufferKept') /\ (Sorted(Flat) => Sorted(Flat)')
      BY SameKept DEF RunInvariant
  <2>2. LiveHeld => LiveHeld'
    <3>1. /\ Tensors' = Tensors /\ Flat' = Flat /\ \A n : Reads(n)' = Reads(n)
          /\ \A t : Region(t)' = Region(t)
        BY SameOperators
    <3>2. \A w : HoldsLatest(w) => HoldsLatest(w)'
        BY <3>1 DEF HoldsLatest
    <3> QED BY <3>1, <3>2 DEF LiveHeld
  <2>3. Flat' = Flat
      BY DEF Flat
  <2> QED BY <2>1, <2>2, <2>3 DEF RunInvariant
<1> QED BY <1>2, <1>3, <1>5, <1>6, <1>7, <1>8, <1>9, <1>10, <1>11, <1>12 DEF Next

\* The buffers hold, at any time, what is still to be read.
LEMMA RunInvariantHolds == Spec => []RunInvariant
<1>1. Init => RunInvariant
  <2> SUFFICES ASSUME Init PROVE RunInvariant
      OBVIOUS
  <2>1. DOMAIN tensor_buffer = {} /\ phase = "create"
      BY DEF Init
  <2> QED BY <2>1 DEF RunInvariant, RegionsShare
<1>2. BufferInvariant /\ BufferInvariant' /\ RunInvariant /\ [Next]_vars => RunInvariant'
    BY NextKept
<1> QED BY <1>1, <1>2, BufferInvariantHolds, PTL DEF Spec

\* The reuse of buffers is safe: whatever the order in which the graph was sorted and
\* whichever buffers were chosen, an operator that is not fused finds in the buffer of
\* each of its inputs what was written last in the region of that input, and never
\* something of another tensor (inference_manager.cc:135-255, 419-464).
THEOREM InputsAlwaysKept == Spec => []InputsKept
<1>1. ASSUME BufferInvariant, RunInvariant PROVE InputsKept
  <2> SUFFICES ASSUME phase = "forward", ~model.perform_fusion, at <= Len(Flat),
                      NEW t \in Reads(Flat[at])
               PROVE  HoldsLatest(t)
      BY DEF InputsKept
  <2>1. Sorted(Flat) /\ LiveHeld /\ at \in 1 .. Len(Flat) + 1
      BY <1>1 DEF RunInvariant
  <2>2. Len(Flat) \in Nat /\ DOMAIN Flat = 1 .. Len(Flat)
      BY <1>1, FlatFacts DEF BufferInvariant
  <2>3. at \in DOMAIN Flat /\ at \in at .. Len(Flat)
      BY <2>1, <2>2
  <2>4. \E i \in 1 .. at - 1 : Flat[i] = t[1]
      BY <2>1, <2>3 DEF Sorted, Reads
  <2> QED BY <2>1, <2>3, <2>4 DEF LiveHeld
<1> QED BY <1>1, BufferInvariantHolds, RunInvariantHolds, PTL

-----------------------------------------------------------------------------
(* On one shard, and without fusion, the operators are the layers, and what  *)
(* they find is what ForwardReads says.                                      *)

\* One shard, and no fusion.
OneShard == ~TensorParallel /\ ~model.perform_fusion

\* The tensor for output t of a layer.
Copy(t) == << << t[1], "op" >>, t[2] >>

\* The operator n is layer i.
IsLayer(n, i) ==
    /\ n = << Layers[i].name, "op" >> /\ op[n].op_type = Layers[i].op_type
    /\ op[n].shapes = Layers[i].shapes
    /\ op[n].inputs = [j \in DOMAIN Layers[i].inputs |-> Copy(Layers[i].inputs[j])]
    /\ \A k \in DOMAIN op[n].shapes : op[n].sharding[k] = "replicated"

\* The operators are layers, and so are the tensors while they are created.
LayersCopied ==
    /\ \A n \in Names : \E i \in DOMAIN Layers : IsLayer(n, i)
    /\ phase = "create" =>
          /\ \A t \in DOMAIN before_allreduce : before_allreduce[t] = Copy(t)
          /\ \A t \in DOMAIN parallel_tensor : parallel_tensor[t] = Copy(t)

\* The operator of a layer on one shard is the layer.
LEMMA OwnIsLayer ==
    ASSUME OneShard, BufferInvariant, LayersCopied, phase = "create", NEW i \in 1 .. Len(Layers), i = at
    PROVE  LET o == Own(i)
           IN  /\ NewOperators(i) = << o >>
               /\ o.name = << Layers[i].name, "op" >> /\ o.op_type = Layers[i].op_type
               /\ o.shapes = Layers[i].shapes
               /\ o.inputs = [j \in DOMAIN Layers[i].inputs |-> Copy(Layers[i].inputs[j])]
               /\ \A k \in DOMAIN o.shapes : o.sharding[k] = "replicated"
<1> DEFINE o == Own(i)
<1>1. ~TensorParallel /\ i \in Nat
    BY DEF OneShard, BufferInvariant, TensorParallel
<1>2. ~need_to_add_combine(i)
    BY <1>1 DEF need_to_add_combine
<1>3. NewOperators(i) = << o >>
    BY <1>1, <1>2, NewOperatorsAre
<1>4. o = LayerOperator(i, NewInputs(i), [j \in DOMAIN NewInputs(i) |-> Sharding(NewInputs(i)[j])])
    BY <1>2 DEF Own
<1>5. \A s : OutputSharding(Layers[i].op_type, s) = "replicated"
    BY <1>1 DEF OutputSharding
<1> HIDE DEF o
<1>6. /\ o.name = << Layers[i].name, "op" >> /\ o.op_type = Layers[i].op_type
      /\ o.shapes = Layers[i].shapes /\ o.inputs = NewInputs(i)
      /\ \A k \in DOMAIN o.shapes : o.sharding[k] = "replicated"
    BY <1>4, <1>5 DEF LayerOperator
<1>7. ASSUME NEW j \in DOMAIN Layers[i].inputs
      PROVE  From(i, Layers[i].inputs[j]) = Copy(Layers[i].inputs[j])
  <2> DEFINE t == Layers[i].inputs[j]
  <2>1. model \in Models /\ Created(op, parallel_tensor, before_allreduce, i)
      BY DEF BufferInvariant
  <2>2. PICK k \in 1 .. i - 1 : t \in {Layers[k].name} \X DOMAIN Layers[k].shapes
      BY <2>1, LayerFacts
  <2>3. PICK q \in DOMAIN Layers[k].shapes : t = << Layers[k].name, q >>
      BY <2>2
  <2>4. t \in DOMAIN parallel_tensor
      BY <2>1, <2>3, Zenon DEF Created
  <2>5. From(i, t) = parallel_tensor[t] \/ (t \in DOMAIN before_allreduce /\ From(i, t) = before_allreduce[t])
      BY DEF From
  <2> QED BY <2>4, <2>5 DEF LayersCopied
<1>8. NewInputs(i) = [j \in DOMAIN Layers[i].inputs |-> Copy(Layers[i].inputs[j])]
    BY <1>7, Zenon DEF NewInputs
<1> QED BY <1>3, <1>6, <1>8 DEF o

\* One step copies one layer; no other step touches the operators.
LEMMA CopiedStep ==
    OneShard /\ BufferInvariant /\ LayersCopied /\ [Next]_vars => LayersCopied'
<1> SUFFICES ASSUME OneShard, BufferInvariant, LayersCopied, [Next]_vars PROVE LayersCopied'
    OBVIOUS
<1>1. CASE CreateOperator
  <2> DEFINE l == Layers[at]
             o == Own(at)
             own == << l.name, "op" >>
             outputs == { << l.name, k >> : k \in DOMAIN l.shapes }
  <2>1. /\ phase = "create" /\ at <= Len(Layers) /\ UNCHANGED model
        /\ at \in 1 .. Len(Layers) + 1 /\ model \in Models
      BY <1>1 DEF CreateOperator, BufferInvariant
  <2>2. /\ Len(Layers) \in Nat /\ DOMAIN Layers = 1 .. Len(Layers) /\ at \in 1 .. Len(Layers)
        /\ DOMAIN l.shapes = 1 .. Len(l.shapes) /\ Len(l.shapes) \in Nat \ {0}
    <3>1. Len(Layers) \in Nat /\ DOMAIN Layers = 1 .. Len(Layers)
        BY <2>1, LayerFacts
    <3>2. at \in 1 .. Len(Layers)
        BY <2>1, <3>1
    <3> QED BY <2>1, <3>1, <3>2, LayerFacts
  <2>3. /\ NewOperators(at) = << o >>
        /\ o.name = own /\ o.op_type = l.op_type /\ o.shapes = l.shapes
        /\ o.inputs = [j \in DOMAIN l.inputs |-> Copy(l.inputs[j])]
        /\ \A k \in DOMAIN o.shapes : o.sharding[k] = "replicated"
      BY <2>1, <2>2, OwnIsLayer
  <2>4. Range(<< o >>) = {o} /\ Last(<< o >>) = o /\ DOMAIN << o >> = {1}
    <3> HIDE DEF o
    <3>1. DOMAIN << o >> = {1} /\ Len(<< o >>) = 1 /\ << o >>[1] = o
        OBVIOUS
    <3> QED BY <3>1 DEF Range, Last
  <2>5. op' = [n \in DOMAIN op \cup { p.name : p \in Range(NewOperators(at)) } |->
                  IF n \in DOMAIN op THEN op[n]
                  ELSE CHOOSE p \in Range(NewOperators(at)) : p.name = n]
      BY <1>1, Zenon DEF CreateOperator
  <2>6. /\ before_allreduce' = IF Last(NewOperators(at)).op_type = "ALLREDUCE"
              THEN [t \in DOMAIN before_allreduce \cup outputs |->
                       IF t \in outputs THEN << own, t[2] >> ELSE before_allreduce[t]]
              ELSE before_allreduce
        /\ parallel_tensor' = [t \in DOMAIN parallel_tensor \cup outputs |->
              IF t \notin outputs THEN parallel_tensor[t]
              ELSE IF t[2] = Len(l.shapes)
                   THEN IF Last(NewOperators(at)).name = own THEN << own, Len(l.shapes) >>
                        ELSE << Last(NewOperators(at)).name, 1 >>
                   ELSE << own, t[2] >>]
      BY <1>1, Zenon DEF CreateOperator
  <2> HIDE DEF o
  <2>7. /\ DOMAIN op' = Names \cup {own}
        /\ \A n \in Names : op'[n] = op[n]
        /\ own \notin Names => op'[own] = o
    <3>1. op' = [n \in DOMAIN op \cup {own} |->
                    IF n \in DOMAIN op THEN op[n] ELSE CHOOSE p \in {o} : p.name = n]
      <4>1. { p.name : p \in {o} } = {own}
          BY <2>3
      <4>2. Range(NewOperators(at)) = {o}
          BY <2>3, <2>4
      <4> DEFINE made(R) == [n \in DOMAIN op \cup { p.name : p \in R } |->
                               IF n \in DOMAIN op THEN op[n] ELSE CHOOSE p \in R : p.name = n]
      <4>3. op' = made({o})
          BY <2>5, <4>2
      <4> QED BY <4>1, <4>3
    <3>2. (CHOOSE p \in {o} : p.name = own) = o
        BY <2>3
    <3> QED BY <3>1, <3>2 DEF Names
  <2>8. Layers' = Layers
      BY <2>1 DEF Layers
  <2>9. ASSUME NEW n \in Names' PROVE \E i \in DOMAIN Layers' : IsLayer(n, i)'
    <3>1. CASE n \in Names
      <4>1. PICK i \in DOMAIN Layers : IsLayer(n, i)
          BY <3>1 DEF LayersCopied
      <4>2. IsLayer(n, i)'
          BY <2>7, <2>8, <3>1, <4>1 DEF IsLayer
      <4> QED BY <2>8, <4>2
    <3>2. CASE n \notin Names
      <4>1. n = own /\ op'[n] = o
          BY <2>7, <2>9, <3>2 DEF Names
      <4>2. PICK i \in DOMAIN Layers : i = at
          BY <2>2
      <4>3. IsLayer(n, i)'
        <5>1. \A m, k : IsLayer(m, k)' <=>
                 /\ m = << Layers'[k].name, "op" >> /\ op'[m].op_type = Layers'[k].op_type
                 /\ op'[m].shapes = Layers'[k].shapes
                 /\ op'[m].inputs = [j \in DOMAIN Layers'[k].inputs |-> Copy(Layers'[k].inputs[j])]
                 /\ \A x \in DOMAIN op'[m].shapes : op'[m].sharding[x] = "replicated"
            BY DEF IsLayer, Copy
        <5> QED BY <2>3, <2>8, <4>1, <4>2, <5>1
      <4> QED BY <2>8, <4>2, <4>3
    <3> QED BY <3>1, <3>2
  <2>10. \A t \in DOMAIN before_allreduce' : before_allreduce'[t] = Copy(t)
    <3> SUFFICES ASSUME NEW t \in DOMAIN before_allreduce' PROVE before_allreduce'[t] = Copy(t)
        OBVIOUS
    <3>1. \/ before_allreduce' = before_allreduce
          \/ before_allreduce' = [x \in DOMAIN before_allreduce \cup outputs |->
                                     IF x \in outputs THEN << own, x[2] >> ELSE before_allreduce[x]]
        BY <2>6
    <3>2. CASE t \in outputs
      <4>1. PICK k \in DOMAIN l.shapes : t = << l.name, k >>
          BY <3>2
      <4>2. Copy(t) = << own, t[2] >>
          BY <4>1 DEF Copy
      <4> QED BY <2>1, <3>1, <3>2, <4>2 DEF LayersCopied
    <3>3. CASE t \notin outputs
        BY <2>1, <3>1, <3>3 DEF LayersCopied
    <3> QED BY <3>2, <3>3
  <2>11. \A t \in DOMAIN parallel_tensor' : parallel_tensor'[t] = Copy(t)
    <3>1. ASSUME NEW t \in DOMAIN parallel_tensor' PROVE parallel_tensor'[t] = Copy(t)
      <4>1. CASE t \in outputs
        <5>1. PICK k \in DOMAIN l.shapes : t = << l.name, k >>
            BY <4>1
        <5> QED BY <2>3, <2>4, <2>6, <4>1, <5>1 DEF Copy
      <4>2. CASE t \notin outputs
          BY <2>1, <2>6, <3>1, <4>2 DEF LayersCopied
      <4> QED BY <4>1, <4>2
    <3> QED BY <3>1
  <2> QED BY <2>9, <2>10, <2>11 DEF LayersCopied
<1>2. CASE ~CreateOperator
  <2>1. UNCHANGED << model, op >> /\ (phase' = "create" => UNCHANGED << phase, before_allreduce, parallel_tensor >>)
      BY <1>2 DEF Next, OperatorsCreated, Visit, Serialized, Converted, AllocateOutput, CheckResets,
                  ApplyFusion, FusionEnds, Inference, EndOfForward, PeftBwd, EndOfBackward,
                  vars, createVars
  <2>2. Layers' = Layers /\ Names' = Names
      BY <2>1 DEF Layers, Names
  <2>3. \A n, i : IsLayer(n, i) => IsLayer(n, i)'
      BY <2>1, <2>2 DEF IsLayer
  <2> QED BY <2>1, <2>2, <2>3 DEF LayersCopied
<1> QED BY <1>1, <1>2

\* On one shard, without fusion, the operators are the layers.
LEMMA LayersCopiedHolds == Spec => [](OneShard => LayersCopied)
<1>1. Init => LayersCopied
    BY DEF Init, LayersCopied, Names
<1>2. BufferInvariant /\ (OneShard => LayersCopied) /\ [Next]_vars => (OneShard => LayersCopied)'
  <2> SUFFICES ASSUME BufferInvariant, OneShard => LayersCopied, [Next]_vars, OneShard'
               PROVE  LayersCopied'
      OBVIOUS
  <2>1. UNCHANGED model
      BY DEF Next, CreateOperator, OperatorsCreated, Visit, Serialized, Converted, AllocateOutput,
             CheckResets, ApplyFusion, FusionEnds, Inference, EndOfForward, PeftBwd, EndOfBackward, vars
  <2>2. OneShard
      BY <2>1 DEF OneShard, TensorParallel
  <2> QED BY <2>2, CopiedStep
<1> QED BY <1>1, <1>2, BufferInvariantHolds, PTL DEF Spec

\* An adapter is before the other operators that read the layer it adapts.
AdaptersFirst ==
    \A l \in Names : \A j \in DOMAIN Inputs(l) :
        \A a \in Adapters(Inputs(l)[j]) \ {l} : Position(Flat, a) < Position(Flat, l)

\* It stays there while the operators run, if these are not fused.
AdaptersFirstInRun ==
    phase \in {"forward", "backward"} /\ ~model.perform_fusion => AdaptersFirst

\* The order of the operators is that of the allocation.
LEMMA AdaptersStayFirst ==
    RunInvariant /\ AdaptersBeforeReaders /\ AdaptersFirstInRun /\ [Next]_vars => AdaptersFirstInRun'
<1> SUFFICES ASSUME RunInvariant, AdaptersBeforeReaders, AdaptersFirstInRun, [Next]_vars,
                    phase' \in {"forward", "backward"}, ~model'.perform_fusion
             PROVE  AdaptersFirst'
    BY DEF AdaptersFirstInRun
<1>1. /\ UNCHANGED << model, op >>
      /\ phase \in {"allocate", "forward", "backward"} => UNCHANGED operators
      /\ phase \in {"allocate", "fuse", "forward", "backward"}
    BY DEF Next, CreateOperator, OperatorsCreated, Visit, Serialized, Converted, AllocateOutput,
           CheckResets, ApplyFusion, FusionEnds, Inference, EndOfForward, PeftBwd, EndOfBackward,
           vars, createVars
<1>2. phase # "fuse"
    BY <1>1 DEF RunInvariant
<1>3. AdaptersFirst
    BY <1>1, <1>2 DEF AdaptersBeforeReaders, AdaptersFirst, AdaptersFirstInRun
<1>4. /\ Names' = Names /\ \A n : Inputs(n)' = Inputs(n)
      /\ \A t : Adapters(t)' = Adapters(t)
      /\ \A n : Position(Flat, n)' = Position(Flat, n)
    BY <1>1, <1>2 DEF Names, Inputs, Adapters, InPlaceInput, Position, Flat
<1> QED BY <1>3, <1>4 DEF AdaptersFirst

\* An adapter has one output, and no two adapt the same tensor, as it is for the layers.
LEMMA AdaptedOnce ==
    ASSUME LayersCopied, model \in Models
    PROVE  /\ \A u \in Tensors : op[u[1]].op_type = "LORA" => u = << u[1], 1 >>
           /\ \A u, v \in Tensors :
                 /\ op[u[1]].op_type = "LORA" /\ op[v[1]].op_type = "LORA"
                 /\ Region(u) = Region(v)
                 => u = v
<1>1. ASSUME NEW u \in Tensors, op[u[1]].op_type = "LORA"
      PROVE  \E i \in DOMAIN Layers :
                /\ Layers[i].op_type = "LORA" /\ u = << << Layers[i].name, "op" >>, 1 >>
                /\ \E n, k : Layers[i].inputs[2] = << n, k >>
                /\ Region(u) = Copy(Layers[i].inputs[2])
  <2>1. PICK n \in Names : u \in Outputs(n)
      BY DEF Tensors
  <2>2. PICK k \in DOMAIN op[n].shapes : u = << n, k >>
      BY <2>1 DEF Outputs
  <2>3. PICK i \in DOMAIN Layers : IsLayer(n, i)
      BY DEF LayersCopied
  <2>4. Layers[i].op_type = "LORA" /\ n = << Layers[i].name, "op" >>
      BY <1>1, <2>2, <2>3 DEF IsLayer
  <2>5. /\ Len(Layers[i].shapes) = 1 /\ DOMAIN Layers[i].shapes = 1 .. Len(Layers[i].shapes)
        /\ Len(Layers[i].inputs) = 2 /\ DOMAIN Layers[i].inputs = 1 .. Len(Layers[i].inputs)
        /\ \E m : Layers[i].inputs[2] \in {Layers[m].name} \X DOMAIN Layers[m].shapes
      BY <2>4, LayerFacts
  <2>6. k = 1
      BY <2>2, <2>3, <2>5 DEF IsLayer
  <2>7. Region(u) = op[n].inputs[2]
      BY <1>1, <2>2 DEF Region, InPlaceInput, Inputs
  <2>8. op[n].inputs[2] = Copy(Layers[i].inputs[2])
    <3>1. 2 \in DOMAIN Layers[i].inputs
        BY <2>5
    <3> QED BY <2>3, <3>1 DEF IsLayer
  <2>9. \E m, x : Layers[i].inputs[2] = << m, x >>
      BY <2>5
  <2> QED BY <2>2, <2>4, <2>6, <2>7, <2>8, <2>9
<1>2. \A u \in Tensors : op[u[1]].op_type = "LORA" => u = << u[1], 1 >>
  <2> SUFFICES ASSUME NEW u \in Tensors, op[u[1]].op_type = "LORA" PROVE u = << u[1], 1 >>
      OBVIOUS
  <2>1. PICK i \in DOMAIN Layers : u = << << Layers[i].name, "op" >>, 1 >>
      BY <1>1
  <2> QED BY <2>1
<1>3. ASSUME NEW u \in Tensors, NEW v \in Tensors,
             op[u[1]].op_type = "LORA", op[v[1]].op_type = "LORA", Region(u) = Region(v)
      PROVE  u = v
  <2>1. PICK i \in DOMAIN Layers :
                /\ Layers[i].op_type = "LORA" /\ u = << << Layers[i].name, "op" >>, 1 >>
                /\ \E n, k : Layers[i].inputs[2] = << n, k >>
                /\ Region(u) = Copy(Layers[i].inputs[2])
      BY <1>1, <1>3
  <2>2. PICK m \in DOMAIN Layers :
                /\ Layers[m].op_type = "LORA" /\ v = << << Layers[m].name, "op" >>, 1 >>
                /\ \E n, k : Layers[m].inputs[2] = << n, k >>
                /\ Region(v) = Copy(Layers[m].inputs[2])
      BY <1>1, <1>3
  <2>3. Copy(Layers[i].inputs[2]) = Copy(Layers[m].inputs[2])
      BY <1>3, <2>1, <2>2
  <2>4. Layers[i].inputs[2] = Layers[m].inputs[2]
      BY <2>1, <2>2, <2>3 DEF Copy
  <2>5. i = m
      BY <2>1, <2>2, <2>4, ModelAssumption DEF ModelAssumption, Layers
  <2> QED BY <2>1, <2>2, <2>5
<1> QED BY <1>2, <1>3

\* The position of an operator in the list.
LEMMA PositionInFlat ==
    ASSUME Grouping(operators, Names)
    PROVE  /\ \A i \in DOMAIN Flat : Position(Flat, Flat[i]) = i
           /\ \A n \in Names : Position(Flat, n) \in DOMAIN Flat /\ Flat[Position(Flat, n)] = n
<1>1. IsInjective(Flat) /\ Range(Flat) = Names
    BY FlatFacts
<1>2. \A i, k \in DOMAIN Flat : Flat[i] = Flat[k] => i = k
    BY <1>1 DEF IsInjective
<1>3. \A n \in Names : \E i \in DOMAIN Flat : Flat[i] = n
    BY <1>1 DEF Range
<1>4. \A n \in Names : Position(Flat, n) \in DOMAIN Flat /\ Flat[Position(Flat, n)] = n
    BY <1>3, Zenon DEF Position
<1>5. \A i \in DOMAIN Flat : Flat[i] \in Names
    BY <1>1 DEF Range
<1> QED BY <1>2, <1>4, <1>5

\* What an operator finds, when adapters are first.
LEMMA FindsAdapted ==
    ASSUME BufferInvariant, RunInvariant, LayersCopied, AdaptersFirst,
           phase = "forward", ~model.perform_fusion, at <= Len(Flat),
           NEW t \in Reads(Flat[at])
    PROVE  LET adapters == Adapters(t) \ {Flat[at]}
           IN  data[tensor_buffer[t]] =
                   IF adapters = {} THEN t ELSE << CHOOSE a \in adapters : TRUE, 1 >>
<1> DEFINE l == Flat[at]
           adapters == Adapters(t) \ {l}
           d == data[tensor_buffer[t]]
<1>1. /\ model \in Models /\ WellFormed(op) /\ Grouping(operators, Names)
      /\ Sorted(Flat) /\ LiveHeld /\ at \in 1 .. Len(Flat) + 1
    BY DEF BufferInvariant, RunInvariant
<1>2. /\ Flat \in Seq(Names) /\ IsInjective(Flat) /\ Range(Flat) = Names
      /\ Len(Flat) \in Nat /\ DOMAIN Flat = 1 .. Len(Flat)
    BY <1>1, FlatFacts
<1>3. at \in DOMAIN Flat /\ l \in Names /\ at \in Nat
    BY <1>1, <1>2
<1>4. \A i, k \in DOMAIN Flat : Flat[i] = Flat[k] => i = k
    BY <1>2 DEF IsInjective
<1>5. PICK j \in DOMAIN Inputs(l) : t = Inputs(l)[j]
    BY DEF Reads
<1>6. t \in Tensors
    BY <1>1, <1>3, <1>5, InputsAreTensors
<1>7. PICK w \in 1 .. at - 1 : Flat[w] = t[1]
    BY <1>1, <1>3, <1>5 DEF Sorted
<1>8. /\ d \in Tensors /\ Region(d) = Region(t)
      /\ \A x \in Tensors : \A p \in 1 .. at - 1 :
            Flat[p] = x[1] /\ Region(x) = Region(t) => \E q \in p .. at - 1 : Flat[q] = d[1]
  <2>1. at \in at .. Len(Flat)
      BY <1>2, <1>3
  <2>2. HoldsLatest(t)
      BY <1>1, <1>7, <2>1 DEF LiveHeld
  <2> QED BY <2>2 DEF HoldsLatest
<1> HIDE DEF d
<1>9. PICK q \in w .. at - 1 : Flat[q] = d[1]
    BY <1>6, <1>7, <1>8
<1>10. /\ w \in DOMAIN Flat /\ q \in DOMAIN Flat /\ q # at /\ q \in Nat /\ w \in Nat
       /\ d[1] # l
  <2>1. w \in DOMAIN Flat /\ q \in DOMAIN Flat /\ q # at /\ q \in Nat /\ w \in Nat
      BY <1>2, <1>3
  <2> QED BY <1>3, <1>4, <1>9, <2>1
<1>11. \* what an operator reads is never written at its place or later
       ASSUME NEW k \in DOMAIN Flat, NEW m \in DOMAIN Flat, k <= m,
              NEW u \in Reads(Flat[k]), Flat[m] = u[1]
       PROVE  FALSE
  <2>1. PICK i \in 1 .. k - 1 : Flat[i] = u[1]
      BY <1>1, <1>11 DEF Sorted, Reads
  <2>2. i \in DOMAIN Flat /\ i # m
      BY <1>2, <1>11
  <2> QED BY <1>4, <1>11, <2>1, <2>2
<1>12. /\ \A u \in Tensors : op[u[1]].op_type = "LORA" => u = << u[1], 1 >>
       /\ \A u, v \in Tensors :
             /\ op[u[1]].op_type = "LORA" /\ op[v[1]].op_type = "LORA"
             /\ Region(u) = Region(v)
             => u = v
    BY <1>1, AdaptedOnce
<1>13. ASSUME NEW a \in Names, op[a].op_type = "LORA"
       PROVE  << a, 1 >> \in Tensors /\ Region(<< a, 1 >>) = Inputs(a)[2]
  <2>1. 1 \in DOMAIN op[a].shapes
      BY <1>1 DEF WellFormed, OneWellFormed, Names
  <2>2. << a, 1 >> \in Tensors
      BY <2>1 DEF Tensors, Outputs
  <2> QED BY <1>13, <2>2 DEF Region, InPlaceInput
<1>14. \A a \in Names : a \in Adapters(t) <=> op[a].op_type = "LORA" /\ Inputs(a)[2] = t
    BY DEF Adapters, InPlaceInput
<1>15. Adapters(t) \subseteq Names
    BY DEF Adapters
<1>16. CASE op[t[1]].op_type = "LORA"
  <2>1. adapters = {}
    <3> SUFFICES ASSUME NEW a \in Adapters(t) PROVE FALSE
        OBVIOUS
    <3>1. op[a].op_type = "LORA" /\ Inputs(a)[2] = t /\ a \in Names
        BY <1>14, <1>15
    <3>2. << a, 1 >> \in Tensors
        BY <1>13, <3>1
    <3>3. \E x : x \in Tensors /\ x[1] = a
        BY <3>2
    <3>4. op[Inputs(a)[2][1]].op_type # "LORA"
        BY <1>1, <3>1, <3>3, RegionFacts
    <3> QED BY <1>16, <3>1, <3>4
  <2>2. d = t
    <3>1. CASE op[d[1]].op_type = "LORA"
        BY <1>6, <1>8, <1>12, <1>16, <3>1
    <3>2. CASE op[d[1]].op_type # "LORA"
      <4>1. Region(d) = d
          BY <1>1, <1>8, <3>2, RegionFacts
      <4>2. d \in Reads(t[1])
        <5>1. Region(t) = Inputs(t[1])[2] /\ Inputs(t[1])[2] \in Reads(t[1])
            BY <1>1, <1>6, <1>16, RegionFacts
        <5> QED BY <1>8, <4>1, <5>1
      <4>3. w <= q
          BY <1>10
      <4> QED BY <1>7, <1>9, <1>10, <1>11, <4>2, <4>3
    <3> QED BY <3>1, <3>2
  <2> QED BY <2>1, <2>2 DEF d
<1>17. CASE op[t[1]].op_type # "LORA" /\ adapters = {}
  <2>1. Region(t) = t
      BY <1>1, <1>6, <1>17, RegionFacts
  <2>2. op[d[1]].op_type # "LORA"
    <3> SUFFICES ASSUME op[d[1]].op_type = "LORA" PROVE FALSE
        OBVIOUS
    <3>1. d[1] \in Names /\ Inputs(d[1])[2] = t
        BY <1>1, <1>8, <2>1, RegionFacts
    <3>2. d[1] \in Adapters(t)
        BY <1>14, <3>1
    <3> QED BY <1>10, <1>17, <3>2
  <2>3. d = t
      BY <1>1, <1>8, <2>1, <2>2, RegionFacts
  <2> QED BY <1>17, <2>3 DEF d
<1>18. CASE op[t[1]].op_type # "LORA" /\ adapters # {}
  <2> DEFINE a == CHOOSE a \in adapters : TRUE
  <2>1. a \in adapters
      BY <1>18
  <2> HIDE DEF a
  <2>2. a \in Names /\ op[a].op_type = "LORA" /\ Inputs(a)[2] = t
      BY <1>14, <1>15, <2>1
  <2>3. << a, 1 >> \in Tensors /\ Region(<< a, 1 >>) = t /\ Region(t) = t
      BY <1>1, <1>6, <1>13, <1>18, <2>2, RegionFacts
  <2>4. PICK p \in DOMAIN Flat : p < at /\ Flat[p] = a
    <3>1. Position(Flat, a) < Position(Flat, l)
        BY <1>3, <1>5, <2>1 DEF AdaptersFirst
    <3> QED BY <1>1, <1>3, <2>2, <3>1, PositionInFlat
  <2>5. p \in 1 .. at - 1 /\ p \in Nat
      BY <1>2, <1>3, <2>4
  <2>6. PICK r \in p .. at - 1 : Flat[r] = d[1]
    <3>1. \A x \in Tensors : x[1] = a /\ Region(x) = t => \E r \in p .. at - 1 : Flat[r] = d[1]
        BY <1>8, <2>3, <2>4, <2>5
    <3>2. << a, 1 >>[1] = a
        OBVIOUS
    <3> QED BY <2>3, <3>1, <3>2
  <2>7. op[d[1]].op_type = "LORA"
    <3> SUFFICES ASSUME op[d[1]].op_type # "LORA" PROVE FALSE
        OBVIOUS
    <3>1. d = t
        BY <1>1, <1>8, <2>3, RegionFacts
    <3>2. t \in Reads(a)
      <4>1. \E x : x \in Tensors /\ x[1] = a
          BY <2>3
      <4> QED BY <1>1, <2>2, <4>1, RegionFacts
    <3>3. r \in DOMAIN Flat /\ p <= r
        BY <1>2, <1>3, <2>5
    <3> QED BY <1>11, <2>4, <2>6, <3>1, <3>2, <3>3
  <2>8. d = << a, 1 >>
    <3>1. << a, 1 >>[1] = a
        OBVIOUS
    <3> QED BY <1>8, <1>12, <2>2, <2>3, <2>7, <3>1
  <2> QED BY <1>18, <2>8 DEF a, d
<1> QED BY <1>16, <1>17, <1>18

\* On one shard and without fusion, the order of the adapters is all that ForwardReads
\* depends on: if every adapter is before the other readers of the layer it adapts, an
\* operator finds each input as its adapter left it (add_lora_layer inserts an adapter
\* right after its layer; the passes over the graph need not keep it there).
THEOREM ForwardReadsOnOneShard ==
    Spec /\ []AdaptersBeforeReaders => [](OneShard => ForwardReads)
<1>1. ASSUME BufferInvariant, RunInvariant, OneShard => LayersCopied, AdaptersFirstInRun
      PROVE  OneShard => ForwardReads
  <2> SUFFICES ASSUME OneShard, phase = "forward", at <= Len(Flat), NEW j \in DOMAIN Inputs(Flat[at])
               PROVE  LET l == Flat[at]
                          t == Inputs(l)[j]
                          adapters == Adapters(t) \ {l}
                      IN  /\ Sharding(t) = "partial" => op[l].op_type \in {"ALLREDUCE", "LORA"}
                          /\ data[tensor_buffer[t]] =
                                 IF adapters = {} THEN t ELSE << CHOOSE a \in adapters : TRUE, 1 >>
      BY DEF ForwardReads
  <2> DEFINE l == Flat[at]
             t == Inputs(l)[j]
  <2>1. LayersCopied /\ AdaptersFirst /\ ~model.perform_fusion
      BY <1>1 DEF OneShard, AdaptersFirstInRun
  <2>2. t \in Reads(l)
      BY DEF Reads
  <2>3. t \in Tensors
    <3>1. WellFormed(op) /\ Grouping(operators, Names) /\ at \in 1 .. Len(Flat) + 1
        BY <1>1, <2>1 DEF BufferInvariant, RunInvariant
    <3>2. l \in Names
        BY <3>1, FlatFacts
    <3> QED BY <3>1, <3>2, InputsAreTensors
  <2> HIDE DEF t
  <2>4. Sharding(t) = "replicated"
    <3>1. PICK n \in Names : t \in Outputs(n)
        BY <2>3 DEF Tensors
    <3>2. PICK k \in DOMAIN op[n].shapes : t = << n, k >>
        BY <3>1 DEF Outputs
    <3>3. op[n].sharding[k] = "replicated"
        BY <2>1 DEF LayersCopied, IsLayer
    <3>4. t[1] = n /\ t[2] = k
        BY <3>2
    <3> QED BY <3>3, <3>4 DEF Sharding
  <2>5. LET adapters == Adapters(t) \ {l}
        IN  data[tensor_buffer[t]] =
                IF adapters = {} THEN t ELSE << CHOOSE a \in adapters : TRUE, 1 >>
      BY <1>1, <2>1, <2>2, FindsAdapted
  <2> QED BY <2>4, <2>5 DEF t
<1>2. Init => AdaptersFirstInRun
    BY DEF Init, AdaptersFirstInRun
<1>3. RunInvariant /\ AdaptersBeforeReaders /\ AdaptersFirstInRun /\ [Next]_vars => AdaptersFirstInRun'
    BY AdaptersStayFirst
<1> QED BY <1>1, <1>2, <1>3, BufferInvariantHolds, RunInvariantHolds, LayersCopiedHolds, PTL DEF Spec

=============================================================================
