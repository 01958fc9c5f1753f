-------------------------- MODULE ClipFrames_proofs --------------------------
(***************************************************************************)
(* Clips, windows and frames promise each other what ClipFramesProps says, *)
(* for every video, every options and every size of batch and chunk.       *)
(***************************************************************************)
EXTENDS ClipFramesProps, FiniteSetTheorems, SequenceTheorems, WellFoundedInduction, TLAPS

-----------------------------------------------------------------------------
(* Recursion and sequences. *)

\* A set of numbers that is not empty has a least one.
LEMMA LeastNumber ==
  ASSUME NEW T, T \subseteq Nat, T # {}
  PROVE  \E m \in T : \A n \in T : m <= n
  <1> DEFINE R == StrictSubsetOrdering(Nat)
             Below == {1..n : n \in T}
  <1>1. IsWellFoundedOn(R, FiniteSubsetsOf(Nat))
    BY FS_StrictSubsetOrderingWellFounded
  <1>2. Below \subseteq FiniteSubsetsOf(Nat)
    <2> SUFFICES ASSUME NEW n \in T PROVE 1..n \in FiniteSubsetsOf(Nat)
      OBVIOUS
    <2>1. n \in Nat /\ 1..n \subseteq Nat
      OBVIOUS
    <2>2. IsFiniteSet(1..n)
      BY <2>1, FS_Interval
    <2> QED BY <2>1, <2>2 DEF FiniteSubsetsOf
  <1>3. \A a, b \in T : a < b => <<1..a, 1..b>> \in R
    <2> SUFFICES ASSUME NEW a \in T, NEW b \in T, a < b PROVE <<1..a, 1..b>> \in R
      OBVIOUS
    <2>1. /\ 1..a \subseteq 1..b /\ b \in 1..b /\ b \notin 1..a
          /\ 1..a \subseteq Nat /\ 1..b \subseteq Nat
      OBVIOUS
    <2> QED BY <2>1 DEF StrictSubsetOrdering
  <1>4. Below # {}
    OBVIOUS
  <1> HIDE DEF R
  <1>5. PICK X \in Below : \A Y \in Below : ~(<<Y, X>> \in R)
    BY <1>1, <1>2, <1>4, WFMin
  <1>6. PICK m \in T : X = 1..m
    OBVIOUS
  <1>7. ASSUME NEW n \in T PROVE m <= n
    <2>1. 1..n \in Below
      OBVIOUS
    <2>2. ~(n < m)
      BY <1>3, <1>5, <1>6, <2>1
    <2> QED BY <2>2
  <1> QED BY <1>7

\* What holds of 0 and of the successors of its members is all of 0..k.
LEMMA UpTo ==
  ASSUME NEW k \in Nat, NEW G, 0 \in G, \A n \in 0..(k - 1) : n \in G => n + 1 \in G
  PROVE  0..k \subseteq G
  <1> DEFINE Bad == (0..k) \ G
  <1>1. ASSUME Bad # {} PROVE FALSE
    <2>1. Bad \subseteq Nat
      OBVIOUS
    <2>2. PICK m \in Bad : \A n \in Bad : m <= n
      BY <1>1, <2>1, LeastNumber
    <2>3. m # 0 /\ m \in 0..k /\ m \notin G
      OBVIOUS
    <2>4. m - 1 \in 0..(k - 1) /\ (m - 1) + 1 = m
      BY <2>3
    <2>5. m - 1 \notin Bad
      BY <2>2, <2>4
    <2>6. m - 1 \in G
      BY <2>4, <2>5
    <2> QED BY <2>3, <2>4, <2>6
  <1> QED BY <1>1

\* A recursion on the numbers up to N, from base by step, with values in V.
Solves(f, V, N, base, step) ==
  f \in [0..N -> V] /\ f[0] = base /\ \A n \in 1..N : f[n] = step[<<f[n - 1], n>>]

\* The same of a function that may leave V.
Follows(g, V, N, base, step) ==
  g[0] = base /\ \A n \in 1..N : g[n - 1] \in V => g[n] = step[<<g[n - 1], n>>]

\* When the steps stay in V it has a solution.
LEMMA Recursion ==
  ASSUME NEW V, NEW N \in Nat, NEW base \in V, NEW step \in [V \X (1..N) -> V]
  PROVE  \E f : Solves(f, V, N, base, step)
  <1> DEFINE Chain(g, k) == /\ g \in [0..k -> V] /\ g[0] = base
                            /\ \A n \in 1..k : g[n] = step[<<g[n - 1], n>>]
             Good == {k \in 0..N : \E g : Chain(g, k)}
  <1>1. 0 \in Good
    <2> DEFINE h == [n \in 0..0 |-> base]
    <2>1. h \in [0..0 -> V] /\ h[0] = base
      OBVIOUS
    <2>2. Chain(h, 0)
      BY <2>1
    <2> HIDE DEF h, Chain
    <2> QED BY <2>2
  <1>2. ASSUME NEW k \in 0..(N - 1), k \in Good PROVE k + 1 \in Good
    <2>1. PICK g : Chain(g, k)
      BY <1>2
    <2> DEFINE h == [n \in 0..(k + 1) |-> IF n = k + 1 THEN step[<<g[k], n>>] ELSE g[n]]
    <2>2. /\ \A n \in 0..k : h[n] = g[n] /\ g[n] \in V
          /\ h[k + 1] = step[<<g[k], k + 1>>] /\ DOMAIN h = 0..(k + 1)
      BY <2>1
    <2>3. h[k + 1] \in V
      <3>1. g[k] \in V
        <4>1. k \in 0..k
          OBVIOUS
        <4> HIDE DEF h, Chain
        <4> QED BY <2>2, <4>1
      <3>2. k + 1 \in 1..N
        OBVIOUS
      <3>3. <<g[k], k + 1>> \in V \X (1..N)
        BY <3>1, <3>2
      <3> HIDE DEF h, Chain
      <3> QED BY <2>2, <3>3
    <2>4. h \in [0..(k + 1) -> V]
      <3>1. \A n \in 0..(k + 1) : h[n] \in V
        <4>1. \A n \in 0..(k + 1) : n \in 0..k \/ n = k + 1
          OBVIOUS
        <4> HIDE DEF h, Chain
        <4> QED BY <2>2, <2>3, <4>1
      <3> QED BY <3>1
    <2>5. ASSUME NEW n \in 1..(k + 1) PROVE h[n] = step[<<h[n - 1], n>>]
      <3>1. CASE n = k + 1
        BY <2>2, <3>1
      <3>2. CASE n \in 1..k
        <4>1. h[n] = g[n] /\ h[n - 1] = g[n - 1]
          BY <2>2, <3>2
        <4> QED BY <2>1, <3>2, <4>1
      <3> QED BY <3>1, <3>2
    <2>6. Chain(h, k + 1)
      BY <2>1, <2>2, <2>4, <2>5
    <2> HIDE DEF h, Chain
    <2> QED BY <2>6
  <1>3. 0..N \subseteq Good
    <2> HIDE DEF Good
    <2> QED BY <1>1, <1>2, UpTo
  <1>4. \E f : Chain(f, N)
    <2>1. N \in Good
      <3> HIDE DEF Good
      <3> QED BY <1>3
    <2> HIDE DEF Chain
    <2> QED BY <2>1
  <1> QED BY <1>4 DEF Solves

Agree(f, g, N) == \A n \in 0..N : g[n] = f[n]

\* And no other.
LEMMA OneSolution ==
  ASSUME NEW V, NEW N \in Nat, NEW base, NEW step, NEW f, Solves(f, V, N, base, step),
         NEW g, Follows(g, V, N, base, step)
  PROVE  Agree(f, g, N)
  <1> DEFINE Agreed == {n \in 0..N : g[n] = f[n]}
  <1>1. 0 \in Agreed
    BY DEF Solves, Follows
  <1>2. ASSUME NEW n \in 0..(N - 1), n \in Agreed PROVE n + 1 \in Agreed
    <2>1. g[n] = f[n] /\ f[n] \in V /\ n + 1 \in 1..N /\ (n + 1) - 1 = n
      BY <1>2 DEF Solves
    <2>2. g[n + 1] = step[<<g[n], n + 1>>] /\ f[n + 1] = step[<<f[n], n + 1>>]
      BY <2>1 DEF Solves, Follows
    <2> QED BY <2>1, <2>2
  <1> HIDE DEF Agreed
  <1>3. 0..N \subseteq Agreed
    BY <1>1, <1>2, UpTo
  <1> QED BY <1>3 DEF Agreed, Agree

\* A set of sequences that is closed under concatenation.
Closed(V) == <<>> \in V /\ (\A a, b \in V : a \o b \in V) /\ \A a \in V : <<>> \o a = a

\* The steps of FlattenSeq.
Flattens(g, V, N, seqs) ==
  /\ g \in [0..N -> V] /\ g[0] = <<>> /\ \A n \in 1..N : g[n] = g[n - 1] \o seqs[n]
  /\ FlattenSeq(seqs) = g[N]

\* FlattenSeq appends one by one the N members of a set that is closed under it.
LEMMA FlattenRecursion ==
  ASSUME NEW V, NEW N \in Nat, NEW seqs, Len(seqs) = N, N = 0 => seqs = <<>>,
         \A n \in 1..N : seqs[n] \in V, Closed(V)
  PROVE  \E g : Flattens(g, V, N, seqs)
  <1> DEFINE step == [p \in V \X (1..N) |-> p[1] \o seqs[p[2]]]
  <1>1. /\ step \in [V \X (1..N) -> V]
        /\ \A v \in V, n \in 1..N : step[<<v, n>>] = v \o seqs[n]
    BY DEF Closed
  <1> HIDE DEF step
  <1>2. PICK f : Solves(f, V, N, <<>>, step)
    <2>1. <<>> \in V
      BY DEF Closed
    <2> QED BY <1>1, <2>1, Recursion
  <1>3. ASSUME NEW n \in 1..N PROVE f[n - 1] \in V /\ f[n] = f[n - 1] \o seqs[n]
    <2>1. n - 1 \in 0..N
      OBVIOUS
    <2>2. f[n - 1] \in V
      BY <1>2, <2>1 DEF Solves
    <2> QED BY <1>1, <1>2, <2>2, Zenon DEF Solves
  <1>4. FlattenSeq(seqs) = f[N]
    <2>1. CASE N = 0
      BY <1>2, <2>1 DEF FlattenSeq, Solves
    <2>2. CASE N # 0
      <3> DEFINE Q(h) == h = [i \in 1..N |-> IF i = 1 THEN seqs[i] ELSE h[i - 1] \o seqs[i]]
                 r == CHOOSE h : Q(h)
                 h0 == [i \in 1..N |-> f[i]]
                 g == [n \in 0..N |-> IF n = 0 THEN <<>> ELSE r[n]]
      <3>1. FlattenSeq(seqs) = r[N]
        BY <2>2 DEF FlattenSeq
      <3>2. Q(h0)
        <4>1. ASSUME NEW i \in 1..N PROVE h0[i] = IF i = 1 THEN seqs[i] ELSE h0[i - 1] \o seqs[i]
          <5>1. CASE i = 1
            <6>1. f[1] = f[0] \o seqs[1] /\ seqs[1] \in V
              BY <1>3, <5>1
            <6> QED BY <1>2, <5>1, <6>1 DEF Closed, Solves
          <5>2. CASE i # 1
            BY <1>3, <5>2
          <5> QED BY <5>1, <5>2
        <4> QED BY <4>1
      <3>3. Q(r)
        <4> HIDE DEF Q, h0
        <4> QED BY <3>2
      <3>4. \A i \in 1..N : r[i] = IF i = 1 THEN seqs[i] ELSE r[i - 1] \o seqs[i]
        <4> HIDE DEF r
        <4> QED BY <3>3
      <3> HIDE DEF r, h0, Q
      <3>5. g[0] = <<>> /\ \A n \in 1..N : g[n] = r[n]
        OBVIOUS
      <3>6. ASSUME NEW n \in 1..N, g[n - 1] \in V PROVE g[n] = step[<<g[n - 1], n>>]
        <4>1. CASE n = 1
          <5>1. g[n] = seqs[n] /\ g[n - 1] = <<>>
            BY <1>2, <3>4, <3>5, <4>1
          <5>2. <<>> \o seqs[n] = seqs[n] /\ <<>> \in V
            BY DEF Closed
          <5> HIDE DEF g
          <5> QED BY <1>1, <5>1, <5>2
        <4>2. CASE n # 1
          <5>1. n - 1 \in 1..N
            BY <4>2
          <5>2. g[n] = r[n - 1] \o seqs[n] /\ g[n - 1] = r[n - 1]
            BY <3>4, <3>5, <4>2, <5>1
          <5> HIDE DEF g
          <5> QED BY <1>1, <3>6, <5>2
        <4> QED BY <4>1, <4>2
      <3>7. g[N] = f[N]
        <4> HIDE DEF g
        <4>1. \A n \in 0..N : g[n] = f[n]
          <5>1. Follows(g, V, N, <<>>, step)
            BY <3>5, <3>6 DEF Follows
          <5>2. Agree(f, g, N)
            BY <1>2, <5>1, OneSolution
          <5> QED BY <5>2 DEF Agree
        <4> QED BY <4>1
      <3> QED BY <2>2, <3>1, <3>5, <3>7
    <2> QED BY <2>1, <2>2
  <1> QED BY <1>2, <1>3, <1>4 DEF Solves, Flattens

\* FlattenSeq of a sequence of sequences over T.
LEMMA FlattenSteps ==
  ASSUME NEW T, NEW seqs \in Seq(Seq(T))
  PROVE  \E g : Flattens(g, Seq(T), Len(seqs), seqs)
  <1> DEFINE V == Seq(T)
             N == Len(seqs)
  <1>1. N \in Nat /\ (N = 0 => seqs = <<>>) /\ \A n \in 1..N : seqs[n] \in V
    OBVIOUS
  <1>2. <<>> \in V /\ \A a, b \in V : a \o b \in V
    BY ConcatProperties
  <1>3. Closed(V)
    BY <1>2, ConcatEmptySeq DEF Closed
  <1>4. Len(seqs) = N
    OBVIOUS
  <1> HIDE DEF V, N
  <1>5. \E g : Flattens(g, V, N, seqs)
    BY <1>1, <1>3, <1>4, FlattenRecursion
  <1> QED BY <1>5 DEF V, N

\* One more sequence.
LEMMA FlattenAppend ==
  ASSUME NEW T, NEW seqs \in Seq(Seq(T)), NEW s \in Seq(T)
  PROVE  /\ FlattenSeq(<<>>) = <<>> /\ FlattenSeq(seqs) \in Seq(T)
         /\ FlattenSeq(Append(seqs, s)) = FlattenSeq(seqs) \o s
  <1> DEFINE V == Seq(T)
             more == Append(seqs, s)
             N == Len(seqs)
             M == Len(more)
  <1>0. M = N + 1 /\ N \in Nat
    OBVIOUS
  <1>1. more \in Seq(V) /\ more[N + 1] = s /\ \A n \in 1..N : more[n] = seqs[n]
    OBVIOUS
  <1>2. FlattenSeq(<<>>) = <<>>
    BY DEF FlattenSeq
  <1>3. PICK g : Flattens(g, V, N, seqs)
    BY FlattenSteps
  <1> HIDE DEF more
  <1>4. PICK h : Flattens(h, V, M, more)
    BY <1>1, FlattenSteps
  <1> DEFINE Same == {n \in 0..N : g[n] = h[n]}
  <1> HIDE DEF N, M, V, Same
  <1>5. 0 \in Same
    <2>1. 0 \in 0..N
      BY <1>0
    <2> QED BY <1>3, <1>4, <2>1 DEF Same, Flattens
  <1>6. ASSUME NEW n \in 0..(N - 1), n \in Same PROVE n + 1 \in Same
    <2>1. n + 1 \in 1..N /\ n + 1 \in 1..(N + 1) /\ (n + 1) - 1 = n /\ g[n] = h[n]
      BY <1>0, <1>6 DEF Same
    <2>2. g[n + 1] = g[n] \o seqs[n + 1] /\ h[n + 1] = h[n] \o more[n + 1]
      BY <1>0, <1>3, <1>4, <2>1, Zenon DEF Flattens
    <2>3. more[n + 1] = seqs[n + 1]
      BY <1>1, <2>1
    <2>4. n + 1 \in 0..N
      BY <2>1
    <2> QED BY <2>1, <2>2, <2>3, <2>4, Zenon DEF Same
  <1>7. 0..N \subseteq Same
    BY <1>0, <1>5, <1>6, UpTo, Zenon
  <1>8. N \in 0..N /\ M \in 1..M /\ M - 1 = N
    BY <1>0
  <1>9. h[M] = h[N] \o s
    <2>1. h[M] = h[M - 1] \o more[M]
      BY <1>4, <1>8, Zenon DEF Flattens
    <2> QED BY <1>0, <1>1, <1>8, <2>1, Zenon
  <1>10. g[N] = h[N] /\ g[N] \in V
    BY <1>3, <1>7, <1>8 DEF Same, Flattens
  <1> QED BY <1>2, <1>3, <1>4, <1>9, <1>10 DEF more, V, Flattens

\* The steps of Chosen.
Chooses(g, V, N, seq, S) ==
  /\ g \in [0..N -> V] /\ g[0] = <<>>
  /\ \A n \in 1..N : g[n] = IF n \in S THEN Append(g[n - 1], seq[n]) ELSE g[n - 1]
  /\ Chosen(seq, S) = g[N]

\* A set of sequences that the first N members of seq can be appended to.
Open(V, N, seq) == <<>> \in V /\ \A v \in V, n \in 1..N : Append(v, seq[n]) \in V

\* The recursive function behind Chosen: one step per member of the sequence.
LEMMA ChosenRecursion ==
  ASSUME NEW V, NEW N \in Nat, NEW seq, Len(seq) = N, NEW S, Open(V, N, seq)
  PROVE  \E g : Chooses(g, V, N, seq, S)
  <1> DEFINE step == [p \in V \X (1..N) |-> IF p[2] \in S THEN Append(p[1], seq[p[2]]) ELSE p[1]]
  <1>1. /\ step \in [V \X (1..N) -> V]
        /\ \A v \in V, n \in 1..N : step[<<v, n>>] = IF n \in S THEN Append(v, seq[n]) ELSE v
    BY DEF Open
  <1> HIDE DEF step
  <1>2. PICK f : Solves(f, V, N, <<>>, step)
    <2>1. <<>> \in V
      BY DEF Open
    <2> QED BY <1>1, <2>1, Recursion
  <1>3. ASSUME NEW n \in 1..N
        PROVE  f[n - 1] \in V /\ f[n] = IF n \in S THEN Append(f[n - 1], seq[n]) ELSE f[n - 1]
    <2>1. n - 1 \in 0..N
      OBVIOUS
    <2>2. f[n - 1] \in V
      BY <1>2, <2>1 DEF Solves
    <2> QED BY <1>1, <1>2, <2>2, Zenon DEF Solves
  <1> DEFINE Q(h) == h = [n \in 0..N |-> IF n = 0 THEN <<>>
                                        ELSE IF n \in S THEN Append(h[n - 1], seq[n]) ELSE h[n - 1]]
             r == CHOOSE h : Q(h)
  <1>4. Chosen(seq, S) = r[N]
    BY DEF Chosen
  <1>5. Q(f)
    <2>1. f \in [0..N -> V] /\ f[0] = <<>>
      BY <1>2 DEF Solves
    <2>2. ASSUME NEW n \in 0..N
          PROVE  f[n] = IF n = 0 THEN <<>>
                        ELSE IF n \in S THEN Append(f[n - 1], seq[n]) ELSE f[n - 1]
      <3>1. n = 0 \/ n \in 1..N
        OBVIOUS
      <3> QED BY <1>3, <2>1, <3>1
    <2> QED BY <2>1, <2>2
  <1>6. Q(r)
    <2> HIDE DEF Q
    <2> QED BY <1>5
  <1>7. Follows(r, V, N, <<>>, step)
    <2> HIDE DEF r
    <2>1. r[0] = <<>>
      BY <1>6
    <2>2. ASSUME NEW n \in 1..N, r[n - 1] \in V PROVE r[n] = step[<<r[n - 1], n>>]
      <3>1. n \in 0..N /\ n # 0
        OBVIOUS
      <3>2. r[n] = IF n \in S THEN Append(r[n - 1], seq[n]) ELSE r[n - 1]
        BY <1>6, <3>1
      <3> HIDE DEF Q
      <3> QED BY <1>1, <2>2, <3>2
    <2> HIDE DEF Q
    <2> QED BY <2>1, <2>2 DEF Follows
  <1> HIDE DEF r, Q
  <1>8. r[N] = f[N]
    <2>1. \A n \in 0..N : r[n] = f[n]
      <3>1. Agree(f, r, N)
        BY <1>2, <1>7, OneSolution
      <3> QED BY <3>1 DEF Agree
    <2> QED BY <2>1
  <1> QED BY <1>2, <1>3, <1>4, <1>8 DEF Chooses, Solves

\* The same for a sequence of any type.
LEMMA ChosenSteps ==
  ASSUME NEW T, NEW seq \in Seq(T), NEW S
  PROVE  \E g : Chooses(g, Seq(T), Len(seq), seq, S)
  <1> DEFINE V == Seq(T)
             N == Len(seq)
  <1>1. N \in Nat
    OBVIOUS
  <1>2. Open(V, N, seq)
    BY DEF Open
  <1> HIDE DEF V
  <1> QED BY <1>1, <1>2, ChosenRecursion DEF V

\* Chosen keeps the order and takes each of its places: h says where a member comes from.
Places(h, out, seq, P) ==
  /\ h \in [1..Len(out) -> P]
  /\ \A k, l \in 1..Len(out) : k < l => h[k] < h[l]
  /\ \A k \in 1..Len(out) : out[k] = seq[h[k]]
  /\ \A i \in P : \E k \in 1..Len(out) : h[k] = i

\* The places of the chosen members, when one more is chosen.
LEMMA PlacesOfMore ==
  ASSUME NEW T, NEW seq \in Seq(T), NEW S, NEW n \in 1..Len(seq), n \in S,
         NEW out \in Seq(T), NEW h, Places(h, out, seq, S \cap (1..(n - 1)))
  PROVE  \E k : Places(k, Append(out, seq[n]), seq, S \cap (1..n))
  <1> DEFINE L == Len(out)
             more == Append(out, seq[n])
             k == [i \in 1..(L + 1) |-> IF i = L + 1 THEN n ELSE h[i]]
  <1>1. n \in Nat /\ L \in Nat /\ Len(more) = L + 1 /\ more[L + 1] = seq[n]
    OBVIOUS
  <1>2. \A i \in 1..L : more[i] = out[i]
    OBVIOUS
  <1>3. \A i \in 1..L : k[i] = h[i] /\ h[i] \in S /\ h[i] \in 1..(n - 1)
    <2>1. \A i \in 1..L : i \in 1..(L + 1) /\ i # L + 1
      BY <1>1
    <2>2. \A i \in 1..L : k[i] = h[i]
      <3> HIDE DEF L
      <3> QED BY <2>1
    <2>3. \A i \in 1..L : h[i] \in S /\ h[i] \in 1..(n - 1)
      BY DEF Places
    <2> HIDE DEF k
    <2> QED BY <2>2, <2>3
  <1>4. k[L + 1] = n
    BY <1>1
  <1>5. DOMAIN k = 1..(L + 1)
    OBVIOUS
  <1>6. \A i \in 1..(L + 1) : i \in 1..L \/ i = L + 1
    BY <1>1
  <1>7. k \in [1..(L + 1) -> S \cap (1..n)]
    <2>1. \A i \in 1..(L + 1) : k[i] \in S \cap (1..n)
      <3> HIDE DEF k, L
      <3> QED BY <1>1, <1>3, <1>4, <1>6
    <2> QED BY <2>1
  <1> HIDE DEF k, L, more
  <1>8. ASSUME NEW i \in 1..(L + 1), NEW j \in 1..(L + 1), i < j PROVE k[i] < k[j]
    <2>1. i \in 1..L
      BY <1>1, <1>8
    <2>2. CASE j = L + 1
      <3>1. k[i] \in 1..(n - 1) /\ k[j] = n
        BY <1>3, <1>4, <2>1, <2>2
      <3> QED BY <1>1, <3>1
    <2>3. CASE j \in 1..L
      BY <1>3, <1>8, <2>1, <2>3 DEF Places, L
    <2> QED BY <1>6, <2>2, <2>3
  <1>9. ASSUME NEW i \in 1..(L + 1) PROVE more[i] = seq[k[i]]
    <2>1. CASE i = L + 1
      BY <1>1, <1>4, <2>1
    <2>2. CASE i \in 1..L
      BY <1>2, <1>3, <2>2 DEF Places, L
    <2> QED BY <1>6, <2>1, <2>2
  <1>10. ASSUME NEW i \in S \cap (1..n) PROVE \E j \in 1..(L + 1) : k[j] = i
    <2>1. CASE i = n
      <3>1. L + 1 \in 1..(L + 1)
        BY <1>1
      <3> QED BY <1>4, <2>1, <3>1
    <2>2. CASE i # n
      <3>1. i \in S \cap (1..(n - 1))
        BY <1>1, <2>2
      <3>2. PICK j \in 1..L : h[j] = i
        BY <3>1 DEF Places, L
      <3>3. j \in 1..(L + 1)
        BY <1>1
      <3> QED BY <1>3, <3>2, <3>3
    <2> QED BY <2>1, <2>2
  <1>11. Places(k, more, seq, S \cap (1..n))
    BY <1>1, <1>7, <1>8, <1>9, <1>10 DEF Places
  <1> QED BY <1>11 DEF more

\* The chosen members have rising places, and every place of the set is among them.
LEMMA ChosenPlaces ==
  ASSUME NEW T, NEW seq \in Seq(T), NEW S
  PROVE  /\ Chosen(seq, S) \in Seq(T)
         /\ \E h : Places(h, Chosen(seq, S), seq, S \cap DOMAIN seq)
  <1> DEFINE N == Len(seq)
             V == Seq(T)
  <1>1. N \in Nat /\ DOMAIN seq = 1..N
    OBVIOUS
  <1>2. PICK g : Chooses(g, V, N, seq, S)
    BY ChosenSteps
  <1>3. \A n \in 0..N : g[n] \in V
    BY <1>2 DEF Chooses
  <1> DEFINE Good == {n \in 0..N : \E h : Places(h, g[n], seq, S \cap (1..n))}
  <1>4. 0 \in Good
    <2>1. g[0] = <<>> /\ 0 \in 0..N /\ S \cap (1..0) = {}
      BY <1>1, <1>2 DEF Chooses
    <2>2. Places(<<>>, <<>>, seq, {})
      BY DEF Places
    <2> QED BY <2>1, <2>2
  <1>5. ASSUME NEW n \in 0..(N - 1), n \in Good PROVE n + 1 \in Good
    <2>1. n \in 0..N /\ n + 1 \in 0..N /\ n + 1 \in 1..N /\ (n + 1) - 1 = n
      BY <1>1
    <2>2. PICK h : Places(h, g[n], seq, S \cap (1..n))
      BY <1>5
    <2>3. g[n] \in Seq(T)
      BY <1>3, <2>1
    <2>4. CASE n + 1 \in S
      <3>1. g[n + 1] = Append(g[n], seq[n + 1])
        BY <1>2, <2>1, <2>4 DEF Chooses
      <3>2. Places(h, g[n], seq, S \cap (1..((n + 1) - 1)))
        BY <2>1, <2>2
      <3>3. \E k : Places(k, Append(g[n], seq[n + 1]), seq, S \cap (1..(n + 1)))
        BY <2>1, <2>3, <2>4, <3>2, PlacesOfMore
      <3> QED BY <2>1, <3>1, <3>3
    <2>5. CASE n + 1 \notin S
      <3>1. g[n + 1] = g[n]
        BY <1>2, <2>1, <2>5 DEF Chooses
      <3>2. S \cap (1..(n + 1)) = S \cap (1..n)
        BY <2>1, <2>5
      <3> QED BY <2>1, <2>2, <3>1, <3>2
    <2> QED BY <2>4, <2>5
  <1> HIDE DEF Good
  <1>6. N \in Good
    <2>1. 0..N \subseteq Good
      <3> HIDE DEF N, V
      <3> QED BY <1>1, <1>4, <1>5, UpTo
    <2> QED BY <1>1, <2>1
  <1>7. Chosen(seq, S) = g[N] /\ N \in 0..N
    BY <1>1, <1>2 DEF Chooses
  <1>8. \E h : Places(h, g[N], seq, S \cap (1..N))
    BY <1>6 DEF Good
  <1> HIDE DEF N, V
  <1> QED BY <1>1, <1>3, <1>7, <1>8 DEF V

\* Where the members of a sequence of sequences are in its flat form: those of the j-th
\* come after the first o[j - 1].
Offsets(o, N, seqs) ==
  o \in [0..N -> Nat] /\ o[0] = 0 /\ \A j \in 1..N : o[j] = o[j - 1] + Len(seqs[j])

Laid(o, out, seqs, n) ==
  /\ Len(out) = o[n] /\ \A j \in 0..n : o[j] <= o[n]
  /\ \A j \in 1..n : \A i \in 1..Len(seqs[j]) : out[o[j - 1] + i] = seqs[j][i]
  /\ \A k \in 1..o[n] : \E j \in 1..n : \E i \in 1..Len(seqs[j]) : k = o[j - 1] + i

\* Where the parts lie, when one more part is appended.
LEMMA LaidMore ==
  ASSUME NEW T, NEW N \in Nat, NEW seqs, NEW o, Offsets(o, N, seqs), NEW n \in 0..(N - 1),
         seqs[n + 1] \in Seq(T), NEW out \in Seq(T), Laid(o, out, seqs, n)
  PROVE  Laid(o, out \o seqs[n + 1], seqs, n + 1)
  <1> DEFINE s == seqs[n + 1]
             more == out \o s
  <1>1. /\ n \in Nat /\ n + 1 \in 1..N /\ n \in 0..N /\ n + 1 \in 0..N
        /\ o[n] \in Nat /\ o[n + 1] = o[n] + Len(s)
    <2>1. n \in Nat /\ n + 1 \in 1..N /\ n \in 0..N /\ n + 1 \in 0..N /\ (n + 1) - 1 = n
      OBVIOUS
    <2> QED BY <2>1 DEF Offsets
  <1>2. Len(s) \in Nat /\ Len(out) \in Nat /\ Len(out) = o[n]
    BY DEF Laid
  <1>3. /\ Len(more) = o[n] + Len(s)
        /\ \A i \in 1..(o[n] + Len(s)) : more[i] = IF i <= o[n] THEN out[i] ELSE s[i - o[n]]
    <2>1. s \in Seq(T)
      OBVIOUS
    <2> HIDE DEF s
    <2>2. /\ Len(out \o s) = Len(out) + Len(s)
          /\ \A i \in 1..(Len(out) + Len(s)) : (out \o s)[i] = IF i <= Len(out) THEN out[i] ELSE s[i - Len(out)]
      BY <2>1, ConcatProperties
    <2> QED BY <1>2, <2>2
  <1> HIDE DEF more, s
  <1>4. \A j \in 0..(n + 1) : j \in 0..n \/ j = n + 1
    BY <1>1
  <1>5. \A j \in 1..(n + 1) : j \in 1..n \/ j = n + 1
    BY <1>1
  <1>6. \A j \in 0..(n + 1) : o[j] <= o[n + 1]
    <2>1. ASSUME NEW j \in 0..n PROVE o[j] <= o[n + 1]
      <3>1. j \in 0..N /\ o[j] \in Nat /\ o[j] <= o[n]
        BY <1>1, <2>1 DEF Laid, Offsets
      <3> QED BY <1>1, <1>2, <3>1
    <2> QED BY <1>1, <1>2, <1>4, <2>1
  <1>7. ASSUME NEW j \in 1..(n + 1), NEW i \in 1..Len(seqs[j]) PROVE more[o[j - 1] + i] = seqs[j][i]
    <2>1. CASE j = n + 1
      <3>1. j - 1 = n /\ i \in 1..Len(s) /\ i \in Nat
        BY <1>1, <1>7, <2>1 DEF s
      <3>2. o[n] + i \in 1..(o[n] + Len(s)) /\ ~(o[n] + i <= o[n]) /\ (o[n] + i) - o[n] = i
        BY <1>1, <1>2, <3>1
      <3> QED BY <1>3, <2>1, <3>1, <3>2 DEF s
    <2>2. CASE j \in 1..n
      <3>1. j \in 0..n /\ j - 1 \in 0..N /\ j \in 1..N
        BY <1>1, <2>2
      <3>2. o[j - 1] \in Nat /\ o[j] \in Nat /\ o[j] = o[j - 1] + Len(seqs[j]) /\ o[j] <= o[n]
        BY <3>1 DEF Laid, Offsets
      <3>3. i \in Nat /\ i >= 1 /\ i <= Len(seqs[j])
        <4>1. Len(seqs[j]) \in Int
          BY <3>2, <1>7
        <4> QED BY <4>1
      <3>4. o[j - 1] + i \in 1..(o[n] + Len(s)) /\ o[j - 1] + i <= o[n]
        <4> DEFINE x == o[j - 1]
                   y == o[j]
                   z == o[n]
                   v == Len(s)
                   u == Len(seqs[j])
        <4>1. /\ x \in Nat /\ y \in Nat /\ z \in Nat /\ v \in Nat /\ i \in Nat /\ u \in Int
              /\ y = x + u /\ y <= z /\ i >= 1 /\ i <= u
          BY <1>1, <1>2, <3>2, <3>3
        <4> HIDE DEF x, y, z, v, u
        <4>2. x + i \in 1..(z + v) /\ x + i <= z
          BY <4>1
        <4> QED BY <4>2 DEF x, z, v
      <3>5. more[o[j - 1] + i] = out[o[j - 1] + i]
        BY <1>3, <3>4
      <3> QED BY <2>2, <3>5 DEF Laid
    <2> QED BY <1>5, <2>1, <2>2
  <1>8. ASSUME NEW k \in 1..o[n + 1]
        PROVE  \E j \in 1..(n + 1) : \E i \in 1..Len(seqs[j]) : k = o[j - 1] + i
    <2>1. CASE k <= o[n]
      <3>1. k \in 1..o[n]
        BY <1>1, <1>2, <2>1
      <3>2. PICK j \in 1..n : \E i \in 1..Len(seqs[j]) : k = o[j - 1] + i
        BY <3>1 DEF Laid
      <3>3. j \in 1..(n + 1)
        BY <1>1
      <3> QED BY <3>2, <3>3
    <2>2. CASE ~(k <= o[n])
      <3>1. n + 1 \in 1..(n + 1) /\ (n + 1) - 1 = n
        BY <1>1
      <3>2. k - o[n] \in 1..Len(s) /\ k = o[n] + (k - o[n])
        BY <1>1, <1>2, <2>2
      <3> QED BY <3>1, <3>2 DEF s
    <2> QED BY <2>1, <2>2
  <1>9. Len(more) = o[n + 1]
    BY <1>1, <1>3
  <1> QED BY <1>6, <1>7, <1>8, <1>9 DEF Laid, more, s

\* FlattenSeq lays its parts end to end, at offsets that grow.
LEMMA FlattenLaid ==
  ASSUME NEW T, NEW seqs \in Seq(Seq(T))
  PROVE  /\ FlattenSeq(seqs) \in Seq(T)
         /\ \E o : /\ Offsets(o, Len(seqs), seqs) /\ Laid(o, FlattenSeq(seqs), seqs, Len(seqs))
                   /\ \A n \in 0..Len(seqs), j \in 0..Len(seqs) : j <= n => o[j] <= o[n]
  <1> DEFINE V == Seq(T)
             N == Len(seqs)
             flat == FlattenSeq(seqs)
  <1>1. N \in Nat /\ \A n \in 1..N : seqs[n] \in V
    OBVIOUS
  <1>2. PICK g : Flattens(g, V, N, seqs)
    BY FlattenSteps
  <1>3. \A n \in 0..N : g[n] \in V
    BY <1>2 DEF Flattens
  <1> DEFINE o == [n \in 0..N |-> Len(g[n])]
  <1>4. Offsets(o, N, seqs)
    <2>1. o \in [0..N -> Nat]
      BY <1>3
    <2>2. o[0] = 0
      BY <1>1, <1>2 DEF Flattens
    <2>3. ASSUME NEW j \in 1..N PROVE o[j] = o[j - 1] + Len(seqs[j])
      <3>1. j \in 0..N /\ j - 1 \in 0..N
        BY <1>1
      <3>2. g[j] = g[j - 1] \o seqs[j] /\ g[j - 1] \in V /\ seqs[j] \in V
        BY <1>1, <1>2, <1>3, <3>1 DEF Flattens
      <3>3. Len(g[j]) = Len(g[j - 1]) + Len(seqs[j])
        BY <3>2, ConcatProperties
      <3> QED BY <3>1, <3>3
    <2> HIDE DEF o
    <2> QED BY <2>1, <2>2, <2>3 DEF Offsets
  <1> DEFINE Good == {n \in 0..N : Laid(o, g[n], seqs, n)}
  <1>5. 0 \in Good
    <2>1. 0 \in 0..N /\ g[0] = <<>>
      BY <1>1, <1>2 DEF Flattens
    <2>2. o[0] = 0 /\ Len(<<>>) = 0
      BY <1>4 DEF Offsets
    <2> HIDE DEF o
    <2>3. Laid(o, <<>>, seqs, 0)
      BY <2>2 DEF Laid
    <2> QED BY <2>1, <2>3
  <1> HIDE DEF o, N, V
  <1>6. ASSUME NEW n \in 0..(N - 1), n \in Good PROVE n + 1 \in Good
    <2>1. n \in 0..N /\ n + 1 \in 0..N /\ n + 1 \in 1..N /\ (n + 1) - 1 = n
      BY <1>1
    <2>2. seqs[n + 1] \in Seq(T) /\ g[n] \in Seq(T) /\ g[n + 1] = g[n] \o seqs[n + 1]
      BY <1>1, <1>2, <1>3, <2>1 DEF V, Flattens
    <2>3. Laid(o, g[n], seqs, n)
      BY <1>6
    <2>4. Laid(o, g[n] \o seqs[n + 1], seqs, n + 1)
      BY <1>1, <1>4, <2>2, <2>3, LaidMore
    <2> QED BY <2>1, <2>2, <2>4
  <1>7. 0..N \subseteq Good
    <2> HIDE DEF Good
    <2> QED BY <1>1, <1>5, <1>6, UpTo
  <1>8. N \in 0..N /\ flat = g[N]
    BY <1>1, <1>2 DEF Flattens
  <1>9. flat \in Seq(T) /\ Laid(o, flat, seqs, N)
    BY <1>3, <1>7, <1>8 DEF V
  <1>10. ASSUME NEW n \in 0..N, NEW j \in 0..N, j <= n PROVE o[j] <= o[n]
    <2>1. j \in 0..n
      BY <1>10
    <2>2. Laid(o, g[n], seqs, n)
      BY <1>7
    <2> QED BY <2>1, <2>2 DEF Laid
  <1> QED BY <1>4, <1>9, <1>10 DEF N

-----------------------------------------------------------------------------
(* Arithmetic. *)

\* Division by a number that is not zero.
LEMMA DivMod ==
  ASSUME NEW a \in Nat, NEW b \in Nat \ {0}
  PROVE  /\ a \div b \in Nat /\ a % b \in Nat /\ a % b < b
         /\ a = b * (a \div b) + (a % b) /\ a = (a \div b) * b + (a % b)
  OBVIOUS

\* Products grow with their factors.
LEMMA Grows ==
  ASSUME NEW a \in Int, NEW b \in Int, a <= b, NEW w \in Nat
  PROVE  a * w <= b * w
  <1>1. (b - a) * w >= 0
    OBVIOUS
  <1>2. (b - a) * w = b * w - a * w
    OBVIOUS
  <1> QED BY <1>1, <1>2

\* A multiple of the larger number is the larger one.
LEMMA GrowsStrictly ==
  ASSUME NEW a \in Int, NEW b \in Int, a < b, NEW w \in Nat \ {0}
  PROVE  a * w < b * w
  <1>1. (b - a) * w >= w
    <2>1. ((b - a) - 1) * w >= 0
      OBVIOUS
    <2>2. ((b - a) - 1) * w = (b - a) * w - w
      OBVIOUS
    <2> QED BY <2>1, <2>2
  <1>2. (b - a) * w = b * w - a * w
    OBVIOUS
  <1> QED BY <1>1, <1>2

\* Sequences over T stay so when a member is appended or replaced.
LEMMA SeqMore ==
  ASSUME NEW T, NEW seq \in Seq(T), NEW x \in T
  PROVE  /\ Append(seq, x) \in Seq(T)
         /\ \A i \in DOMAIN seq : [seq EXCEPT ![i] = x] \in Seq(T)
  <1>1. Append(seq, x) \in Seq(T)
    OBVIOUS
  <1>2. ASSUME NEW i \in DOMAIN seq PROVE [seq EXCEPT ![i] = x] \in Seq(T)
    <2>1. PICK n \in Nat : n = Len(seq) /\ seq \in [1..n -> T]
      OBVIOUS
    <2>2. [seq EXCEPT ![i] = x] \in [1..n -> T]
      BY <2>1
    <2> QED BY <2>1, <2>2
  <1> QED BY <1>1, <1>2

\* A set of one element.
LEMMA OneMember ==
  ASSUME NEW S, NEW x \in S, \A y \in S : y = x
  PROVE  Cardinality(S) = 1
  <1>1. S = {x}
    OBVIOUS
  <1> QED BY <1>1, FS_Singleton

-----------------------------------------------------------------------------
(* Windows. *)

\* The k-th window of the given size.
WholeWindow(k) == Span((k - 1) * opt.window, k * opt.window - 1)

\* The windows of a clip of n frames, case by case.
LEMMA WindowsCases ==
  ASSUME opt \in Options, NEW n \in Nat
  PROVE  LET whole == n \div opt.window  rest == n % opt.window
             full == [k \in 1..whole |-> WholeWindow(k)]
         IN /\ n < 4 => Windows(n) = <<>>
            /\ n >= 4 /\ n <= opt.window => Windows(n) = <<Span(0, n - 1)>>
            /\ n >= 4 /\ n > opt.window /\ rest >= opt.threshold =>
                 Windows(n) = Append(full, Span(n - rest, n - 1))
            /\ n >= 4 /\ n > opt.window /\ rest < opt.threshold =>
                 Windows(n) = [full EXCEPT ![whole] = Span((whole - 1) * opt.window, n - 1)]
  <1> DEFINE whole == n \div opt.window
             rest == n % opt.window
             full == [k \in 1..whole |-> WholeWindow(k)]
  <1>1. opt.window \in Nat \ {0} /\ opt.threshold \in Nat
    BY DEF Options
  <1>2. whole \in Nat /\ rest \in Nat /\ n = opt.window * whole + rest /\ rest < opt.window
    BY <1>1, DivMod
  <1>3. n > opt.window => whole \in 1..whole
    <2>1. whole = 0 => opt.window * whole = 0
      BY <1>1
    <2> HIDE DEF whole, rest
    <2> QED BY <1>1, <1>2, <2>1
  <1>4. n > opt.window => full[whole].start = (whole - 1) * opt.window
    BY <1>3 DEF WholeWindow, Span
  <1>5. /\ n < 4 => Windows(n) = <<>>
        /\ n >= 4 /\ n <= opt.window => Windows(n) = <<Span(0, n - 1)>>
    BY <1>1 DEF Windows, WindowMinFrames
  <1>6. n >= 4 /\ n > opt.window /\ rest >= opt.threshold =>
          Windows(n) = Append(full, Span(n - rest, n - 1))
    BY <1>1 DEF Windows, WindowMinFrames, WholeWindow
  <1>7. n >= 4 /\ n > opt.window /\ rest < opt.threshold =>
          Windows(n) = [full EXCEPT ![whole] = Span(full[whole].start, n - 1)]
    <2>1. ~(rest >= opt.threshold) <=> rest < opt.threshold
      BY <1>1, <1>2
    <2>2. ASSUME n >= 4, n > opt.window, rest < opt.threshold
          PROVE  Windows(n) = [full EXCEPT ![whole] = Span(full[whole].start, n - 1)]
      <3>1. ~(n < 4) /\ ~(n <= opt.window) /\ ~(rest >= opt.threshold)
        BY <1>1, <2>1, <2>2
      <3> QED BY <3>1 DEF Windows, WindowMinFrames, WholeWindow
    <2> QED BY <2>2
  <1> QED BY <1>4, <1>5, <1>6, <1>7

\* Windows that hold each of the first n frames once.
Cover(ws, n) ==
  /\ ws \in Seq([start : Nat, end : Int])
  /\ \A j \in DOMAIN ws : ws[j].end < n
  /\ \A j, k \in DOMAIN ws : j < k => ws[j].end < ws[k].start
  /\ \A f \in 0..(n - 1) : \E j \in DOMAIN ws : InWindow(f, ws[j])

\* None of them has more frames than a window, or than a window and the threshold.
NotTooLong(w) == \/ Length(w) + 1 <= opt.window
                 \/ Length(w) + 1 < opt.window + Least(opt.window, opt.threshold)

\* The windows of a clip lie end to end from its first frame to its last, none too long.
LEMMA WindowsCover ==
  ASSUME opt \in Options, NEW n \in Nat, n >= 4
  PROVE  Cover(Windows(n), n) /\ \A j \in DOMAIN Windows(n) : NotTooLong(Windows(n)[j])
  <1> DEFINE W == opt.window
             whole == n \div W
             rest == n % W
             full == [k \in 1..whole |-> WholeWindow(k)]
             ws == Windows(n)
  <1>1. W \in Nat \ {0} /\ opt.threshold \in Nat
    BY DEF Options
  <1>2. whole \in Nat /\ rest \in Nat /\ rest < W /\ n = whole * W + rest
    BY <1>1, DivMod
  <1>3. CASE n <= W
    <2>1. ws = <<Span(0, n - 1)>>
      BY <1>3, WindowsCases
    <2> HIDE DEF ws
    <2>2. /\ DOMAIN ws = {1} /\ ws[1] = Span(0, n - 1) /\ ws[1].start = 0 /\ ws[1].end = n - 1
      BY <2>1 DEF Span
    <2>3. Span(0, n - 1) \in [start : Nat, end : Int]
      BY DEF Span
    <2>4. ws \in Seq([start : Nat, end : Int])
      BY <2>1, <2>3
    <2>5. NotTooLong(ws[1])
      BY <1>1, <1>3, <2>2 DEF NotTooLong, Length
    <2>6. \A f \in 0..(n - 1) : InWindow(f, ws[1])
      BY <2>2 DEF InWindow
    <2>7. Cover(ws, n)
      BY <2>2, <2>4, <2>6 DEF Cover
    <2> QED BY <2>2, <2>5, <2>7 DEF ws
  <1>4. CASE n > W
    <2>1. whole \in 1..whole
      <3>1. whole = 0 => whole * W = 0
        BY <1>1
      <3> HIDE DEF whole, rest, W
      <3> QED BY <1>1, <1>2, <1>4, <3>1
    <2> DEFINE N == IF rest >= opt.threshold THEN whole + 1 ELSE whole
               Start(k) == (k - 1) * W
               End(k) == IF k = N THEN n - 1 ELSE k * W - 1
    <2>2. Len(ws) = N /\ \A k \in 1..N : ws[k] = Span(Start(k), End(k))
      <3>1. CASE rest >= opt.threshold
        <4>1. ws = Append(full, Span(n - rest, n - 1))
          BY <1>4, <3>1, WindowsCases
        <4>2. Len(full) = whole /\ \A k \in 1..whole : full[k] = WholeWindow(k)
          BY <1>2
        <4>3. n - rest = (N - 1) * W
          BY <1>1, <1>2, <3>1
        <4> HIDE DEF ws, full
        <4>4. Len(ws) = whole + 1 /\ ws[whole + 1] = Span(n - rest, n - 1)
              /\ \A k \in 1..whole : ws[k] = full[k]
          <5>1. full \in Seq({WholeWindow(k) : k \in 1..whole})
            BY <1>2 DEF full
          <5> QED BY <4>1, <4>2, <5>1
        <4>5. ASSUME NEW k \in 1..N PROVE ws[k] = Span(Start(k), End(k))
          <5>1. CASE k = N
            BY <3>1, <4>3, <4>4, <5>1
          <5>2. CASE k # N
            <6>1. k \in 1..whole
              BY <1>2, <3>1, <5>2
            <6> QED BY <4>2, <4>4, <5>2, <6>1 DEF WholeWindow
          <5> QED BY <5>1, <5>2
        <4> QED BY <3>1, <4>4, <4>5
      <3>2. CASE rest < opt.threshold
        <4>1. ws = [full EXCEPT ![whole] = Span((whole - 1) * W, n - 1)]
          BY <1>4, <3>2, WindowsCases
        <4>2. N = whole
          BY <1>1, <1>2, <3>2
        <4>3. DOMAIN ws = 1..N /\ Len(ws) = N
          BY <1>2, <4>1, <4>2
        <4>4. ASSUME NEW k \in 1..N PROVE ws[k] = Span(Start(k), End(k))
          BY <2>1, <4>1, <4>2 DEF WholeWindow
        <4> QED BY <4>3, <4>4
      <3> QED BY <1>1, <1>2, <3>1, <3>2
    <2>3. N \in Nat \ {0} /\ (N = whole \/ N = whole + 1)
      BY <1>2, <2>1
    <2>4. /\ \A k \in 1..N : Start(k) \in Nat /\ End(k) \in Int
          /\ \A j, k \in 1..N : j < k => j * W <= Start(k)
          /\ \A k \in 1..N : k < N => k * W <= n
      <3> HIDE DEF whole, rest, W, N
      <3>1. \A k \in 1..N : Start(k) \in Nat /\ k * W \in Nat /\ End(k) \in Int
        BY <1>1, <2>3
      <3>2. \A j, k \in 1..N : j < k => j * W <= Start(k)
        BY <1>1, <2>3, Grows
      <3>3. \A k \in 1..N : k < N => k * W <= whole * W
        BY <1>1, <1>2, <2>3, Grows
      <3>4. whole * W <= n /\ whole * W \in Int
        BY <1>1, <1>2
      <3> QED BY <3>1, <3>2, <3>3, <3>4
    <2>5. ASSUME NEW f \in 0..(n - 1) PROVE \E k \in 1..N : Start(k) <= f /\ f <= End(k)
      <3> DEFINE q == f \div W
      <3>1. q \in Nat /\ q * W <= f /\ f < q * W + W /\ f \in Nat /\ f < n
        <4>1. f \in Nat /\ W \in Nat \ {0} /\ f < n
          BY <1>1
        <4>2. q \in Nat /\ f % W \in Nat /\ f % W < W /\ f = q * W + (f % W)
          BY <4>1, DivMod
        <4> DEFINE r == f % W
        <4> HIDE DEF r, q, W
        <4> QED BY <4>1, <4>2 DEF r
      <3>2. q <= whole
        <4>1. ASSUME q > whole PROVE FALSE
          <5>1. (whole + 1) * W <= q * W
            <6>1. q \in Int /\ whole + 1 \in Int /\ whole + 1 <= q /\ W \in Nat
              BY <1>1, <1>2, <3>1, <4>1
            <6> HIDE DEF q, whole, rest, W
            <6> QED BY <6>1, Grows
          <5>2. (whole + 1) * W = whole * W + W
            BY <1>1, <1>2
          <5> HIDE DEF q, whole, rest, W
          <5> QED BY <1>1, <1>2, <3>1, <5>1, <5>2
        <4> QED BY <1>2, <3>1, <4>1
      <3> HIDE DEF q, whole, rest, W
      <3>3. CASE q + 1 <= N
        <4>1. q + 1 \in 1..N /\ (q + 1) - 1 = q /\ (q + 1) * W = q * W + W
          BY <1>1, <2>3, <3>1, <3>3
        <4>2. Start(q + 1) <= f /\ f <= End(q + 1)
          BY <1>1, <3>1, <4>1
        <4> QED BY <4>1, <4>2
      <3>4. CASE q + 1 > N
        <4>1. N \in 1..N /\ (N - 1) * W <= q * W
          BY <1>1, <2>3, <3>1, <3>4, Grows
        <4>2. Start(N) <= f /\ f <= End(N)
          <5>1. (N - 1) * W \in Int /\ q * W \in Int
            BY <1>1, <2>3, <3>1
          <5> QED BY <3>1, <4>1, <5>1
        <4> QED BY <4>1, <4>2
      <3> QED BY <2>3, <3>1, <3>3, <3>4
    <2>6. ASSUME NEW k \in 1..N PROVE NotTooLong(ws[k])
      <3>1. ws[k].start = Start(k) /\ ws[k].end = End(k)
        <4>1. ws[k] = Span(Start(k), End(k))
          BY <2>2
        <4> HIDE DEF ws, Start, End
        <4> QED BY <4>1 DEF Span
      <3>2. k * W = Start(k) + W
        BY <1>1, <2>3
      <3>3. CASE k # N
        BY <1>1, <2>4, <3>1, <3>2, <3>3 DEF NotTooLong, Length
      <3>4. CASE k = N /\ rest >= opt.threshold
        <4>1. End(k) = n - 1 /\ n - Start(k) = rest
          BY <1>1, <1>2, <3>4
        <4> QED BY <1>1, <1>2, <2>4, <3>1, <4>1 DEF NotTooLong, Length
      <3>5. CASE k = N /\ rest < opt.threshold
        <4>1. End(k) = n - 1 /\ n - Start(k) = W + rest
          <5>1. k = whole /\ whole * W = Start(k) + W
            <6>1. N = whole
              BY <1>1, <1>2, <3>5
            <6> HIDE DEF whole, rest, Start, W, N
            <6> QED BY <3>2, <3>5, <6>1
          <5>2. Start(k) \in Int
            BY <2>4
          <5> HIDE DEF whole, rest, Start, W
          <5> QED BY <1>1, <1>2, <3>5, <5>1, <5>2
        <4> QED BY <1>1, <1>2, <2>4, <3>1, <3>5, <4>1 DEF NotTooLong, Length, Least
      <3> QED BY <1>1, <1>2, <3>3, <3>4, <3>5
    <2> HIDE DEF ws, whole, rest, W, N, Start, End
    <2>7. DOMAIN ws = 1..N /\ \A k \in 1..N : ws[k].start = Start(k) /\ ws[k].end = End(k)
      BY <2>2, <2>3 DEF Span
    <2>8. \A k \in 1..N : End(k) < n /\ (k < N => End(k) = k * W - 1)
      <3>1. \A k \in 1..N : k * W \in Int
        BY <1>1, <2>3
      <3> QED BY <2>3, <2>4, <3>1 DEF End
    <2>9. Cover(ws, n)
      <3>1. ws \in Seq([start : Nat, end : Int])
        <4> DEFINE T == [start : Nat, end : Int]
        <4>1. ASSUME NEW k \in 1..whole PROVE WholeWindow(k) \in T
          <5>1. (k - 1) * W \in Nat /\ k * W - 1 \in Int
            BY <1>1, <1>2
          <5> QED BY <5>1 DEF WholeWindow, Span, W
        <4>2. full \in Seq(T)
          <5>1. full \in [1..whole -> T]
            BY <4>1 DEF full
          <5> HIDE DEF T
          <5> QED BY <1>2, <5>1
        <4>3. CASE rest >= opt.threshold
          <5>1. ws = Append(full, Span(n - rest, n - 1))
            BY <1>4, <4>3, WindowsCases DEF ws, whole, rest, W, full
          <5>2. Span(n - rest, n - 1) \in T
            <6>1. n - rest \in Nat /\ n - 1 \in Int
              BY <1>1, <1>2, <1>4
            <6> QED BY <6>1 DEF Span
          <5> HIDE DEF T, full
          <5>3. ws \in Seq(T)
            BY <4>2, <5>1, <5>2, SeqMore
          <5> QED BY <5>3 DEF T
        <4>4. CASE rest < opt.threshold
          <5>1. ws = [full EXCEPT ![whole] = Span((whole - 1) * W, n - 1)]
            BY <1>4, <4>4, WindowsCases DEF ws, whole, rest, W, full
          <5>2. Span((whole - 1) * W, n - 1) \in T
            <6>1. (whole - 1) * W \in Nat /\ n - 1 \in Int
              BY <1>1, <1>2, <2>1
            <6> QED BY <6>1 DEF Span
          <5>3. whole \in DOMAIN full
            BY <2>1 DEF full
          <5> HIDE DEF T, full
          <5>4. ws \in Seq(T)
            BY <4>2, <5>1, <5>2, <5>3, SeqMore
          <5> QED BY <5>4 DEF T
        <4> QED BY <1>1, <1>2, <4>3, <4>4
      <3>2. \A j, k \in 1..N : j < k => ws[j].end < ws[k].start
        <4>1. \A j \in 1..N : j * W \in Int
          BY <1>1, <2>3
        <4>2. \A j, k \in 1..N : j < k => End(j) < Start(k)
          BY <2>3, <2>4, <2>8, <4>1
        <4> QED BY <2>7, <4>2
      <3>3. \A f \in 0..(n - 1) : \E k \in 1..N : InWindow(f, ws[k])
        <4>1. ASSUME NEW f \in 0..(n - 1) PROVE \E k \in 1..N : InWindow(f, ws[k])
          <5>1. PICK k \in 1..N : Start(k) <= f /\ f <= End(k)
            BY <2>5
          <5>2. f \in ws[k].start..ws[k].end
            BY <2>4, <2>7, <5>1
          <5> QED BY <5>2 DEF InWindow
        <4> QED BY <4>1
      <3> QED BY <2>7, <2>8, <3>1, <3>2, <3>3 DEF Cover
    <2> QED BY <2>6, <2>7, <2>9 DEF ws
  <1> QED BY <1>1, <1>3, <1>4

-----------------------------------------------------------------------------
(* Chunks. *)

Pending == [done : Seq(Seq(Interval)), open : Seq(Interval), weight : Nat]

\* The chunks under way are chunks of clips.
LEMMA PutClipType ==
  ASSUME NEW acc \in Pending, NEW s \in Interval
  PROVE  PutClip(acc, s) \in Pending
  <1>1. Length(s) \div Rate \in Nat
    <2>1. Length(s) \in Nat /\ Rate \in Nat \ {0}
      BY ClipFramesAssumption DEF Interval, Length
    <2> QED BY <2>1, DivMod
  <1> DEFINE w == acc.weight + (Length(s) \div Rate)
             V == Seq(Interval)
             opened == Append(acc.open, s)
             done == Append(acc.done, opened)
  <1>2. w \in Nat
    BY <1>1 DEF Pending
  <1>3. opened \in V
    BY DEF Pending
  <1>4. acc.done \in Seq(V) /\ acc.open \in V /\ <<>> \in V
    BY DEF Pending
  <1>5. done \in Seq(V)
    <2> HIDE DEF V, opened
    <2> QED BY <1>3, <1>4
  <1>6. PutClip(acc, s) = IF w >= ChunkWeight THEN [done |-> done, open |-> <<>>, weight |-> 0]
                          ELSE [done |-> acc.done, open |-> opened, weight |-> w]
    BY Zenon DEF PutClip
  <1> HIDE DEF w, opened, done, V
  <1> QED BY <1>2, <1>3, <1>4, <1>5, <1>6 DEF Pending, V

\* The chunks after n clips, by the step that puts the n-th.
LEMMA PutSteps ==
  ASSUME spans \in Seq(Interval)
  PROVE  /\ \A n \in 0..Len(spans) : Put[n] \in Pending
         /\ Put[0] = [done |-> <<>>, open |-> <<>>, weight |-> 0]
         /\ \A n \in 1..Len(spans) : Put[n] = PutClip(Put[n - 1], spans[n])
  <1> DEFINE N == Len(spans)
             V == Pending
             base == [done |-> <<>>, open |-> <<>>, weight |-> 0]
             step == [p \in V \X (1..N) |-> PutClip(p[1], spans[p[2]])]
             Q(h) == h = [n \in 0..N |-> IF n = 0 THEN base ELSE PutClip(h[n - 1], spans[n])]
  <1>1. N \in Nat /\ \A n \in 1..N : spans[n] \in Interval
    OBVIOUS
  <1>2. base \in V
    BY DEF Pending
  <1>3. /\ step \in [V \X (1..N) -> V]
        /\ \A v \in V, n \in 1..N : step[<<v, n>>] = PutClip(v, spans[n])
    <2> HIDE DEF V
    <2>1. \A p \in V \X (1..N) : PutClip(p[1], spans[p[2]]) \in V
      BY <1>1, PutClipType DEF V
    <2> QED BY <2>1
  <1> HIDE DEF step, V, base, N
  <1>4. PICK f : Solves(f, V, N, base, step)
    BY <1>1, <1>2, <1>3, Recursion
  <1>5. f \in [0..N -> V] /\ f[0] = base /\ \A n \in 1..N : f[n] = step[<<f[n - 1], n>>]
    BY <1>4 DEF Solves
  <1>6. ASSUME NEW n \in 1..N PROVE f[n - 1] \in V /\ f[n] = PutClip(f[n - 1], spans[n])
    <2>1. n - 1 \in 0..N
      BY <1>1
    <2>2. f[n - 1] \in V
      BY <1>5, <2>1
    <2> QED BY <1>3, <1>5, <2>2, Zenon
  <1>7. Q(f)
    <2>1. ASSUME NEW n \in 0..N
          PROVE  f[n] = IF n = 0 THEN base ELSE PutClip(f[n - 1], spans[n])
      <3>1. n = 0 \/ n \in 1..N
        BY <1>1
      <3> QED BY <1>5, <1>6, <3>1
    <2> QED BY <1>5, <2>1
  <1>8. Put = CHOOSE h : Q(h)
    BY Zenon DEF Put, base, N
  <1>9. Q(Put)
    <2> HIDE DEF Q
    <2> QED BY <1>7, <1>8
  <1>10. Follows(Put, V, N, base, step)
    <2>1. Put[0] = base
      BY <1>1, <1>9
    <2>2. ASSUME NEW n \in 1..N, Put[n - 1] \in V PROVE Put[n] = step[<<Put[n - 1], n>>]
      <3>1. n \in 0..N /\ n # 0
        BY <1>1
      <3>2. Put[n] = PutClip(Put[n - 1], spans[n])
        BY <1>9, <3>1
      <3> HIDE DEF Q
      <3> QED BY <1>3, <2>2, <3>2
    <2> HIDE DEF Q
    <2> QED BY <2>1, <2>2 DEF Follows
  <1> HIDE DEF Q
  <1>11. \A n \in 0..N : Put[n] = f[n]
    <2>1. Agree(f, Put, N)
      BY <1>1, <1>4, <1>10, OneSolution
    <2> QED BY <2>1 DEF Agree
  <1>12. \A n \in 1..N : n - 1 \in 0..N /\ n \in 0..N
    BY <1>1
  <1>13. 0 \in 0..N
    BY <1>1
  <1> QED BY <1>5, <1>6, <1>11, <1>12, <1>13 DEF N, V, base

\* The chunks in their order hold the clips in theirs: none is lost or doubled.
LEMMA ChunksHoldSpans ==
  ASSUME spans \in Seq(Interval)
  PROVE  Chunks \in Seq(Seq(Interval)) /\ FlattenSeq(Chunks) = spans
  <1> DEFINE V == Seq(Interval)
             N == Len(spans)
             So(n) == FlattenSeq(Put[n].done) \o Put[n].open
             Good == {n \in 0..N : So(n) = SubSeq(spans, 1, n)}
  <1>1. N \in Nat /\ \A n \in 1..N : spans[n] \in Interval
    OBVIOUS
  <1>2. \A n \in 0..N : Put[n].done \in Seq(V) /\ Put[n].open \in V
    BY PutSteps DEF Pending
  <1>3. \A d \in Seq(V) : FlattenSeq(d) \in V
    BY FlattenAppend
  <1>4. \A d \in Seq(V), s \in V : FlattenSeq(Append(d, s)) = FlattenSeq(d) \o s
    BY FlattenAppend
  <1>5. FlattenSeq(<<>>) = <<>>
    BY DEF FlattenSeq
  <1>6. \A a \in V : a \o <<>> = a
    BY ConcatEmptySeq
  <1>7. ASSUME NEW a \in V, NEW b \in V, NEW s \in Interval
        PROVE  a \o Append(b, s) = (a \o b) \o <<s>>
    <2>1. Append(b, s) = b \o <<s>> /\ <<s>> \in V
      BY AppendIsConcat
    <2>2. a \o (b \o <<s>>) = (a \o b) \o <<s>>
      BY <2>1, ConcatAssociative
    <2> QED BY <2>1, <2>2
  <1>8. 0 \in Good
    <2>1. Put[0].done = <<>> /\ Put[0].open = <<>>
      BY PutSteps
    <2>2. <<>> \o <<>> = <<>>
      BY <1>6
    <2>3. SubSeq(spans, 1, 0) = <<>>
      BY SubSeqEmpty
    <2>4. So(0) = <<>>
      BY <1>5, <2>1, <2>2, Zenon
    <2>5. 0 \in 0..N
      BY <1>1
    <2> QED BY <2>3, <2>4, <2>5
  <1>9. ASSUME NEW n \in 0..(N - 1), n \in Good PROVE n + 1 \in Good
    <2>1. n \in 0..N /\ n + 1 \in 0..N /\ n + 1 \in 1..N /\ (n + 1) - 1 = n
      BY <1>1
    <2> DEFINE acc == Put[n]
               s == spans[n + 1]
    <2>2. Put[n + 1] = PutClip(acc, s)
      BY <2>1, PutSteps
    <2>3. s \in Interval /\ acc.done \in V \cup Seq(V) /\ acc.done \in Seq(V) /\ acc.open \in V
      BY <1>1, <1>2, <2>1
    <2>4. acc \in Pending
      BY <2>1, PutSteps
    <2>5. SubSeq(spans, 1, n + 1) = SubSeq(spans, 1, n) \o <<s>>
      <3>1. 1 \in 1..N /\ n + 1 \in 1..N
        BY <1>1
      <3> QED BY <2>1, <3>1, SubSeqRecursiveSecond
    <2>6. FlattenSeq(acc.done) \o Append(acc.open, s) = So(n) \o <<s>>
      BY <1>3, <1>7, <2>3
    <2>7. \/ Put[n + 1].done = Append(acc.done, Append(acc.open, s)) /\ Put[n + 1].open = <<>>
          \/ Put[n + 1].done = acc.done /\ Put[n + 1].open = Append(acc.open, s)
      <3> DEFINE v == acc.weight + (Length(s) \div Rate)
                 more == Append(acc.open, s)
                 p == [done |-> Append(acc.done, more), open |-> <<>>, weight |-> 0]
                 q == [done |-> acc.done, open |-> more, weight |-> v]
      <3>1. Put[n + 1] = IF v >= ChunkWeight THEN p ELSE q
        BY <2>2, Zenon DEF PutClip
      <3>2. /\ p.done = Append(acc.done, more) /\ p.open = <<>>
            /\ q.done = acc.done /\ q.open = more
        OBVIOUS
      <3> HIDE DEF p, q, v
      <3>3. Put[n + 1] = p \/ Put[n + 1] = q
        BY <3>1, Zenon
      <3> HIDE DEF acc, more
      <3> QED BY <3>2, <3>3, Zenon DEF more
    <2>8. So(n + 1) = FlattenSeq(acc.done) \o Append(acc.open, s)
      <3>1. Append(acc.open, s) \in V
        BY <2>3
      <3>2. FlattenSeq(acc.done) \in V
        BY <1>3, <2>3
      <3>3. FlattenSeq(Append(acc.done, Append(acc.open, s))) = FlattenSeq(acc.done) \o Append(acc.open, s)
        BY <1>4, <2>3, <3>1
      <3>4. FlattenSeq(acc.done) \o Append(acc.open, s) \in V
        BY <3>1, <3>2, ConcatProperties
      <3>5. (FlattenSeq(acc.done) \o Append(acc.open, s)) \o <<>> = FlattenSeq(acc.done) \o Append(acc.open, s)
        BY <1>6, <3>4
      <3> HIDE DEF V, acc, s
      <3> QED BY <2>7, <3>3, <3>5, Zenon
    <2>9. So(n) = SubSeq(spans, 1, n)
      BY <1>9
    <2> QED BY <2>1, <2>5, <2>6, <2>8, <2>9
  <1>10. 0..N \subseteq Good
    <2> HIDE DEF Good
    <2> QED BY <1>1, <1>8, <1>9, UpTo
  <1>11. So(N) = spans
    <2>1. N \in 0..N /\ SubSeq(spans, 1, N) = spans
      BY <1>1, SubSeqFull
    <2> QED BY <1>10, <2>1
  <1> DEFINE acc == Put[N]
  <1>12. acc.done \in Seq(V) /\ acc.open \in V
    BY <1>1, <1>2
  <1>13. Chunks = IF acc.open = <<>> THEN acc.done ELSE Append(acc.done, acc.open)
    BY DEF Chunks
  <1>14. Append(acc.done, acc.open) \in Seq(V)
    <2> HIDE DEF V, acc
    <2> QED BY <1>12
  <1>15. FlattenSeq(Append(acc.done, acc.open)) = So(N)
    BY <1>4, <1>12
  <1>16. acc.open = <<>> => FlattenSeq(acc.done) = So(N)
    BY <1>3, <1>6, <1>12
  <1> HIDE DEF acc, V, So
  <1> QED BY <1>11, <1>12, <1>13, <1>14, <1>15, <1>16 DEF V

-----------------------------------------------------------------------------
(* Shots. *)

\* Rounding up: as many pieces of length b as it takes to reach a, and no more.
LEMMA CeilingBounds ==
  ASSUME NEW a \in Nat, NEW b \in Nat \ {0}
  PROVE  /\ Ceiling(a, b) \in Nat /\ Ceiling(a, b) * b >= a /\ (Ceiling(a, b) - 1) * b < a
         /\ \A k \in Nat : k * b < a <=> k < Ceiling(a, b)
  <1> DEFINE c == Ceiling(a, b)
             r == (a + b - 1) % b
  <1>1. c \in Nat /\ r \in Nat /\ r < b /\ a + b - 1 = c * b + r
    <2>1. a + b - 1 \in Nat
      OBVIOUS
    <2> QED BY <2>1, DivMod DEF Ceiling
  <1> HIDE DEF c, r
  <1>2. c * b \in Int /\ (c - 1) * b = c * b - b
    BY <1>1
  <1>3. c * b >= a /\ (c - 1) * b < a
    BY <1>1, <1>2
  <1>4. ASSUME NEW k \in Nat PROVE k * b < a <=> k < c
    <2>1. k * b \in Int /\ (c - 1) * b \in Int
      BY <1>1
    <2>2. k < c => k * b <= (c - 1) * b
      <3>1. k < c => k \in Int /\ c - 1 \in Int /\ k <= c - 1 /\ b \in Nat
        BY <1>1
      <3> QED BY <3>1, Grows
    <2>3. c <= k => c * b <= k * b
      <3>1. c \in Int /\ k \in Int /\ b \in Nat
        BY <1>1
      <3> QED BY <3>1, Grows
    <2> QED BY <1>1, <1>2, <1>3, <2>1, <2>2, <2>3
  <1> QED BY <1>1, <1>3, <1>4 DEF c

\* The verdicts of a batch are those of its own frames.
LEMMA CentreOfBatch ==
  ASSUME InputsInv, NEW b \in Nat, b * BatchStep < video.frames
  PROVE  LET i == b * BatchStep  c == Centre(Batch(i))
         IN /\ c \in Seq(Nat) /\ Len(c) = Least(BatchStep, video.frames - i)
            /\ \A k \in 1..Len(c) : c[k] = i + k - 1
  <1> DEFINE i == b * BatchStep
             S == BatchStep
             M == BatchMargin
             F == video.frames
             p == Most(M - i, 0)
             q == Most(i - M, 0)
             m == Least(i + S + M, F) - q
             front == [k \in 1..p |-> 0]
             rest == [k \in 1..m |-> q + k - 1]
             batch == Batch(i)
             c == Centre(batch)
  <1>1. S \in Nat \ {0} /\ M \in Nat \ {0} /\ M <= S /\ F \in Nat
    BY ClipFramesAssumption DEF InputsInv, Videos
  <1>2. i \in Nat /\ (i = 0 \/ i >= S) /\ i < F
    <2>1. b = 0 => b * S = 0
      BY <1>1
    <2>2. b >= 1 => 1 * S <= b * S
      BY <1>1, Grows
    <2>3. b * S \in Nat
      BY <1>1
    <2> HIDE DEF S, F
    <2> QED BY <1>1, <2>1, <2>2, <2>3 DEF S, F
  <1> HIDE DEF i, S, M, F
  <1>3. /\ p \in Nat /\ q \in Nat /\ m \in Nat
        /\ p + m = M + Least(i + S + M, F) - i /\ p <= M
        /\ q + M - p = i
    BY <1>1, <1>2 DEF Least, Most
  <1>4. batch = front \o rest
    BY Zenon DEF Batch, i, S, M, F
  <1> HIDE DEF p, q, m
  <1>5. front \in Seq(Nat) /\ Len(front) = p /\ \A k \in 1..p : front[k] = 0
    BY <1>3
  <1>6. rest \in Seq(Nat) /\ Len(rest) = m /\ \A k \in 1..m : rest[k] = q + k - 1
    <2>1. \A k \in 1..m : q + k - 1 \in Nat
      BY <1>3
    <2> QED BY <1>3, <2>1
  <1> HIDE DEF front, rest, batch
  <1>7. /\ batch \in Seq(Nat) /\ Len(batch) = p + m
        /\ \A k \in 1..(p + m) : batch[k] = IF k <= p THEN front[k] ELSE rest[k - p]
    <2> DEFINE whole == front \o rest
               V == Seq(Nat)
    <2>1. front \in V /\ rest \in V
      BY <1>5, <1>6
    <2>2. /\ whole \in V /\ Len(whole) = Len(front) + Len(rest)
          /\ \A k \in 1..(Len(front) + Len(rest)) :
               whole[k] = IF k <= Len(front) THEN front[k] ELSE rest[k - Len(front)]
      BY <2>1, ConcatProperties
    <2>3. batch = whole
      BY <1>4
    <2> HIDE DEF whole, V
    <2>4. Len(front) = p /\ Len(rest) = m
      BY <1>5, <1>6
    <2>5. /\ batch \in V /\ Len(batch) = p + m
          /\ \A k \in 1..(p + m) : batch[k] = IF k <= p THEN front[k] ELSE rest[k - p]
      BY <2>2, <2>3, <2>4, Zenon
    <2> QED BY <2>5 DEF V
  <1> DEFINE hi == Least(M + S, Len(batch))
  <1>8. /\ hi \in Nat /\ hi <= p + m /\ hi - (M + 1) + 1 = Least(S, F - i)
        /\ M + 1 <= hi
    <2> HIDE DEF batch
    <2> QED BY <1>1, <1>2, <1>3, <1>7 DEF Least
  <1>9. ASSUME NEW k \in 1..(hi - M) PROVE batch[M + k] = i + k - 1
    <2>1. M + k \in 1..(p + m) /\ ~(M + k <= p) /\ (M + k) - p \in 1..m
      <3>1. k \in Nat /\ k >= 1 /\ M + k <= hi /\ hi \in Nat
        <4> HIDE DEF hi
        <4> QED BY <1>1, <1>8
      <3>2. p \in Nat /\ m \in Nat /\ M \in Nat /\ p <= M /\ hi <= p + m
        BY <1>1, <1>3, <1>8
      <3> HIDE DEF hi
      <3> QED BY <3>1, <3>2
    <2>2. batch[M + k] = rest[(M + k) - p]
      BY <1>7, <2>1
    <2>3. rest[(M + k) - p] = q + ((M + k) - p) - 1
      BY <1>6, <2>1
    <2> QED BY <1>1, <1>2, <1>3, <2>2, <2>3
  <1>10. c = SubSeq(batch, M + 1, hi)
    BY DEF Centre, M, S
  <1> HIDE DEF hi
  <1>11. \A k \in (M + 1)..hi : batch[k] \in Nat
    <2>1. \A k \in (M + 1)..hi : k \in 1..(p + m)
      BY <1>1, <1>8, <1>3
    <2> QED BY <1>7, <2>1
  <1>12. /\ c \in Seq(Nat) /\ Len(c) = hi - (M + 1) + 1
         /\ \A k \in 1..(hi - (M + 1) + 1) : c[k] = batch[M + 1 + k - 1]
    BY <1>1, <1>8, <1>10, <1>11, SubSeqProperties
  <1> HIDE DEF c
  <1>13. ASSUME NEW k \in 1..Len(c) PROVE c[k] = i + k - 1
    <2>1. k \in 1..(hi - (M + 1) + 1) /\ k \in 1..(hi - M) /\ M + 1 + k - 1 = M + k
      BY <1>1, <1>8, <1>12
    <2> QED BY <1>9, <1>12, <2>1
  <1> QED BY <1>8, <1>12, <1>13 DEF c, batch, i, S, F

\* The frame judged at a place is the frame of this place.
LEMMA JudgedFrames ==
  ASSUME InputsInv, NEW f \in 0..(video.frames - 1)
  PROVE  Judged[f + 1] = f
  <1> DEFINE S == BatchStep
             F == video.frames
             B == Ceiling(F, S)
             centres == [b \in 1..B |-> Centre(Batch((b - 1) * S))]
             flat == FlattenSeq(centres)
  <1>1. S \in Nat \ {0} /\ F \in Nat
    BY ClipFramesAssumption DEF InputsInv, Videos
  <1>2. B \in Nat /\ B * S >= F /\ \A k \in Nat : k * S < F <=> k < B
    BY <1>1, CeilingBounds
  <1>3. \A b \in 1..B : b - 1 \in Nat /\ (b - 1) * S < F /\ (b - 1) * S \in Nat
    <2>1. \A b \in 1..B : b - 1 \in Nat /\ b - 1 < B
      BY <1>2
    <2> HIDE DEF B, S, F
    <2> QED BY <1>1, <1>2, <2>1
  <1>4. ASSUME NEW b \in 1..B
        PROVE  /\ centres[b] \in Seq(Nat) /\ Len(centres[b]) = Least(S, F - (b - 1) * S)
               /\ \A k \in 1..Len(centres[b]) : centres[b][k] = (b - 1) * S + k - 1
    BY <1>3, CentreOfBatch
  <1>5. centres \in Seq(Seq(Nat)) /\ Len(centres) = B
    <2>1. \A b \in 1..B : centres[b] \in Seq(Nat)
      BY <1>4
    <2> DEFINE V == Seq(Nat)
    <2>2. centres \in [1..B -> V]
      BY <2>1
    <2> HIDE DEF centres, V, B
    <2>3. centres \in Seq(V) /\ Len(centres) = B
      BY <1>2, <2>2
    <2> QED BY <2>3 DEF V
  <1>6. Judged = SubSeq(flat, 1, F)
    BY Zenon DEF Judged
  <1> HIDE DEF centres, B, S, F
  <1>7. PICK o : Offsets(o, B, centres) /\ Laid(o, flat, centres, B)
    BY <1>5, FlattenLaid
  <1>8. flat \in Seq(Nat)
    BY <1>5, FlattenLaid
  <1> HIDE DEF flat
  <1>9. /\ o \in [0..B -> Nat] /\ o[0] = 0
        /\ \A j \in 1..B : o[j] = o[j - 1] + Len(centres[j])
    BY <1>7 DEF Offsets
  <1> DEFINE Good == {b \in 0..B : o[b] = Least(b * S, F)}
  <1>10. 0 \in Good
    BY <1>1, <1>2, <1>9 DEF Least
  <1>11. ASSUME NEW b \in 0..(B - 1), b \in Good PROVE b + 1 \in Good
    <2>1. b + 1 \in 1..B /\ (b + 1) - 1 = b /\ b + 1 \in 0..B
      BY <1>2
    <2>2. o[b + 1] = o[b] + Len(centres[b + 1])
      BY <1>9, <2>1
    <2>3. b * S < F /\ b * S \in Nat /\ (b + 1) * S = b * S + S
      BY <1>1, <1>3, <2>1
    <2>4. Len(centres[b + 1]) = Least(S, F - b * S)
      BY <1>4, <2>1
    <2>5. o[b] = b * S
      BY <1>1, <1>11, <2>3 DEF Least
    <2>6. o[b + 1] = Least((b + 1) * S, F)
      <3> HIDE DEF Good
      <3> QED BY <1>1, <2>2, <2>3, <2>4, <2>5 DEF Least
    <2> QED BY <2>1, <2>6
  <1>12. 0..B \subseteq Good
    <2> HIDE DEF Good
    <2> QED BY <1>2, <1>10, <1>11, UpTo
  <1>13. o[B] = F
    <2>1. B \in 0..B /\ B * S \in Nat
      BY <1>1, <1>2
    <2>2. o[B] = Least(B * S, F)
      BY <1>12, <2>1
    <2> QED BY <1>1, <1>2, <2>1, <2>2 DEF Least
  <1>14. f + 1 \in 1..F /\ f \in Nat
    BY <1>1 DEF F
  <1>15. PICK j \in 1..B : \E i \in 1..Len(centres[j]) : f + 1 = o[j - 1] + i
    <2>1. f + 1 \in 1..o[B]
      BY <1>13, <1>14
    <2> QED BY <1>7, <2>1 DEF Laid
  <1>16. PICK i \in 1..Len(centres[j]) : f + 1 = o[j - 1] + i
    BY <1>15
  <1>17. flat[f + 1] = centres[j][i] /\ Len(flat) = F
    BY <1>7, <1>13, <1>16 DEF Laid
  <1>18. centres[j][i] = (j - 1) * S + i - 1
    BY <1>4, <1>16
  <1>19. o[j - 1] = (j - 1) * S
    <2>1. j - 1 \in 0..B /\ (j - 1) * S < F /\ (j - 1) * S \in Nat
      BY <1>2, <1>3
    <2>2. o[j - 1] = Least((j - 1) * S, F)
      BY <1>12, <2>1
    <2> QED BY <1>1, <2>1, <2>2 DEF Least
  <1>20. SubSeq(flat, 1, F)[f + 1] = flat[f + 1]
    <2>1. \A k \in 1..F : flat[k] \in Nat
      BY <1>8, <1>17, <1>1
    <2>2. \A k \in 1..(F - 1 + 1) : SubSeq(flat, 1, F)[k] = flat[1 + k - 1]
      BY <1>1, <2>1, SubSeqProperties
    <2>3. f + 1 \in 1..(F - 1 + 1) /\ 1 + (f + 1) - 1 = f + 1
      BY <1>1, <1>14
    <2> QED BY <2>2, <2>3
  <1>21. (j - 1) * S + i = f + 1 /\ i \in Int /\ (j - 1) * S \in Int
    <2>1. (j - 1) * S \in Int /\ i \in Int
      BY <1>1, <1>3, <1>4, <1>16
    <2> QED BY <1>16, <1>19, <2>1
  <1> QED BY <1>6, <1>14, <1>17, <1>18, <1>20, <1>21

Scene == [start : Nat, end : Nat]

Seeing == [cut : BOOLEAN, start : Nat, scenes : Seq(Scene)]

\* What is known of the shots keeps its type.
LEMMA NextFrameType ==
  ASSUME NEW acc \in Seeing, NEW f \in Nat
  PROVE  NextFrame(acc, f) \in Seeing
  <1> DEFINE more == Append(acc.scenes, Span(acc.start, f))
             V == Seq(Scene)
  <1>1. acc.scenes \in V /\ acc.start \in Nat /\ acc.cut \in BOOLEAN
    BY DEF Seeing
  <1>2. Span(acc.start, f) \in Scene
    BY <1>1 DEF Span, Scene
  <1>3. more \in V
    <2> HIDE DEF Scene
    <2> QED BY <1>1, <1>2
  <1>4. IsCut(f) \in BOOLEAN
    BY DEF IsCut
  <1> DEFINE n == NextFrame(acc, f)
             start == IF acc.cut /\ ~IsCut(f) THEN f ELSE acc.start
             scenes == IF ~acc.cut /\ IsCut(f) /\ f # 0 THEN more ELSE acc.scenes
  <1>5. n = [cut |-> IsCut(f), start |-> start, scenes |-> scenes]
    BY Zenon DEF NextFrame
  <1>6. start \in Nat /\ scenes \in V
    <2> HIDE DEF V, more
    <2> QED BY <1>1, <1>3
  <1> HIDE DEF n, start, scenes
  <1>7. n \in [cut : BOOLEAN, start : Nat, scenes : V]
    <2> HIDE DEF V
    <2> QED BY <1>4, <1>5, <1>6
  <1> QED BY <1>7 DEF Seeing, n

\* What is known after n frames, by the step for frame n - 1.
LEMMA SeenSteps ==
  ASSUME InputsInv
  PROVE  /\ \A n \in 0..video.frames : Seen[n] \in Seeing
         /\ Seen[0] = [cut |-> FALSE, start |-> 0, scenes |-> <<>>]
         /\ \A n \in 1..video.frames : Seen[n] = NextFrame(Seen[n - 1], n - 1)
  <1> DEFINE N == video.frames
             V == Seeing
             base == [cut |-> FALSE, start |-> 0, scenes |-> <<>>]
             step == [p \in V \X (1..N) |-> NextFrame(p[1], p[2] - 1)]
             Q(h) == h = [n \in 0..N |-> IF n = 0 THEN base ELSE NextFrame(h[n - 1], n - 1)]
  <1>1. N \in Nat
    BY DEF InputsInv, Videos
  <1>2. base \in V
    BY DEF Seeing
  <1> HIDE DEF N
  <1>3. /\ step \in [V \X (1..N) -> V]
        /\ \A v \in V, n \in 1..N : step[<<v, n>>] = NextFrame(v, n - 1)
    <2> HIDE DEF V
    <2>1. \A p \in V \X (1..N) : p[1] \in V /\ p[2] - 1 \in Nat
      BY <1>1
    <2>2. \A p \in V \X (1..N) : NextFrame(p[1], p[2] - 1) \in V
      BY <2>1, NextFrameType DEF V
    <2> QED BY <2>2
  <1> HIDE DEF step, V, base
  <1>4. PICK f : Solves(f, V, N, base, step)
    BY <1>1, <1>2, <1>3, Recursion
  <1>5. f \in [0..N -> V] /\ f[0] = base /\ \A n \in 1..N : f[n] = step[<<f[n - 1], n>>]
    BY <1>4 DEF Solves
  <1>6. ASSUME NEW n \in 1..N PROVE f[n - 1] \in V /\ f[n] = NextFrame(f[n - 1], n - 1)
    <2>1. n - 1 \in 0..N
      BY <1>1
    <2>2. f[n - 1] \in V
      BY <1>5, <2>1
    <2> QED BY <1>3, <1>5, <2>2, Zenon
  <1>7. Q(f)
    <2>1. ASSUME NEW n \in 0..N
          PROVE  f[n] = IF n = 0 THEN base ELSE NextFrame(f[n - 1], n - 1)
      <3>1. n = 0 \/ n \in 1..N
        BY <1>1
      <3> QED BY <1>5, <1>6, <3>1
    <2> QED BY <1>5, <2>1
  <1>8. Seen = CHOOSE h : Q(h)
    BY Zenon DEF Seen, base, N
  <1>9. Q(Seen)
    <2> HIDE DEF Q
    <2> QED BY <1>7, <1>8
  <1>10. Follows(Seen, V, N, base, step)
    <2>1. Seen[0] = base
      BY <1>1, <1>9
    <2>2. ASSUME NEW n \in 1..N, Seen[n - 1] \in V PROVE Seen[n] = step[<<Seen[n - 1], n>>]
      <3>1. n \in 0..N /\ n # 0
        BY <1>1
      <3>2. Seen[n] = NextFrame(Seen[n - 1], n - 1)
        BY <1>9, <3>1
      <3> HIDE DEF Q
      <3> QED BY <1>3, <2>2, <3>2
    <2> HIDE DEF Q
    <2> QED BY <2>1, <2>2 DEF Follows
  <1> HIDE DEF Q
  <1>11. \A n \in 0..N : Seen[n] = f[n]
    <2>1. Agree(f, Seen, N)
      BY <1>1, <1>4, <1>10, OneSolution
    <2> QED BY <2>1 DEF Agree
  <1>12. \A n \in 1..N : n - 1 \in 0..N /\ n \in 0..N
    BY <1>1
  <1>13. 0 \in 0..N
    BY <1>1
  <1> QED BY <1>5, <1>6, <1>11, <1>12, <1>13 DEF N, V, base

\* A run of frames before frame b that are no transitions, from a on and no earlier.
Run(a, b) == /\ a \in Nat /\ b \in Nat /\ \A f \in a..(b - 1) : f \notin video.cuts
             /\ a = 0 \/ a - 1 \in video.cuts

ShotEnds(n) == \E f \in 1..(n - 1) : f \in video.cuts /\ f - 1 \notin video.cuts

\* After n frames: whether the last of them is a transition, where the shot began that it is
\* in otherwise, and every shot that has ended, in order.
OnWatch(acc, n) ==
  /\ acc.cut <=> n # 0 /\ n - 1 \in video.cuts
  /\ ~acc.cut => Run(acc.start, n) /\ acc.start <= n /\ (n # 0 => acc.start < n)

Ended(s, n) == s.start < s.end /\ s.end < n /\ s.end \in video.cuts /\ Run(s.start, s.end)

Recorded(acc, n) ==
  /\ \A j \in DOMAIN acc.scenes : /\ Ended(acc.scenes[j], n)
                                  /\ ~acc.cut => acc.scenes[j].end <= acc.start
  /\ \A j, k \in DOMAIN acc.scenes : j < k => acc.scenes[j].end <= acc.scenes[k].start

Complete(acc, n) ==
  /\ acc.scenes # <<>> <=> ShotEnds(n)
  /\ \A s \in Scene : Ended(s, n) => \E j \in DOMAIN acc.scenes : acc.scenes[j] = s

\* There is one shot before a frame.
LEMMA OneRun ==
  ASSUME NEW a, NEW c, NEW n, Run(a, n), Run(c, n), a < n, c < n
  PROVE  a = c
  <1>1. a \in Nat /\ c \in Nat /\ n \in Nat
    BY DEF Run
  <1>2. ~(a < c)
    <2>1. a < c => c - 1 \in a..(n - 1) /\ c # 0
      BY <1>1
    <2> QED BY <2>1 DEF Run
  <1>3. ~(c < a)
    <2>1. c < a => a - 1 \in c..(n - 1) /\ a # 0
      BY <1>1
    <2> QED BY <2>1 DEF Run
  <1> QED BY <1>1, <1>2, <1>3

\* A run without a transition grows by a frame that is none.
LEMMA RunMore ==
  ASSUME NEW a, NEW n, Run(a, n), n \notin video.cuts
  PROVE  Run(a, n + 1)
  <1>1. a \in Nat /\ n \in Nat
    BY DEF Run
  <1>2. \A f \in a..((n + 1) - 1) : f \in a..(n - 1) \/ f = n
    BY <1>1
  <1> QED BY <1>1, <1>2 DEF Run

\* Whether a shot has ended, one frame later.
LEMMA ShotEndsMore ==
  ASSUME NEW n \in Nat
  PROVE  ShotEnds(n + 1) <=> ShotEnds(n) \/ (n # 0 /\ n \in video.cuts /\ n - 1 \notin video.cuts)
  <1>1. \A f : f \in 1..((n + 1) - 1) <=> f \in 1..(n - 1) \/ (n # 0 /\ f = n)
    OBVIOUS
  <1>2. ASSUME ShotEnds(n + 1)
        PROVE  ShotEnds(n) \/ (n # 0 /\ n \in video.cuts /\ n - 1 \notin video.cuts)
    <2>1. PICK f \in 1..((n + 1) - 1) : f \in video.cuts /\ f - 1 \notin video.cuts
      BY <1>2 DEF ShotEnds
    <2>2. f \in 1..(n - 1) \/ (n # 0 /\ f = n)
      BY <1>1, <2>1
    <2> QED BY <2>1, <2>2 DEF ShotEnds
  <1>3. ASSUME ShotEnds(n) PROVE ShotEnds(n + 1)
    <2>1. PICK f \in 1..(n - 1) : f \in video.cuts /\ f - 1 \notin video.cuts
      BY <1>3 DEF ShotEnds
    <2>2. f \in 1..((n + 1) - 1)
      BY <1>1, <2>1
    <2> QED BY <2>1, <2>2 DEF ShotEnds
  <1>4. ASSUME n # 0, n \in video.cuts, n - 1 \notin video.cuts PROVE ShotEnds(n + 1)
    <2>1. n \in 1..((n + 1) - 1)
      BY <1>1, <1>4
    <2> QED BY <1>4, <2>1 DEF ShotEnds
  <1> QED BY <1>2, <1>3, <1>4

\* Which shots have ended, one frame later.
LEMMA EndedMore ==
  ASSUME NEW n \in Nat, NEW s \in Scene
  PROVE  Ended(s, n + 1) <=> Ended(s, n) \/ (s.end = n /\ s.start < n /\ n \in video.cuts /\ Run(s.start, n))
  <1>1. s.start \in Nat /\ s.end \in Nat
    BY DEF Scene
  <1>2. s.end < n + 1 <=> s.end < n \/ s.end = n
    BY <1>1
  <1> QED BY <1>2 DEF Ended

\* A frame keeps what is known true to the transitions.
LEMMA WatchMore ==
  ASSUME NEW n \in Nat, NEW acc \in Seeing, OnWatch(acc, n), IsCut(n) <=> n \in video.cuts
  PROVE  OnWatch(NextFrame(acc, n), n + 1)
  <1> DEFINE next == NextFrame(acc, n)
  <1>1. next.cut <=> n \in video.cuts
    BY DEF NextFrame
  <1>2. (n + 1) - 1 = n /\ n + 1 # 0 /\ n < n + 1
    OBVIOUS
  <1>3. next.start = IF acc.cut /\ ~IsCut(n) THEN n ELSE acc.start
    BY DEF NextFrame
  <1> HIDE DEF next
  <1>4. ASSUME ~next.cut
        PROVE  Run(next.start, n + 1) /\ next.start < n + 1 /\ next.start <= n + 1
    <2>1. n \notin video.cuts /\ ~IsCut(n)
      BY <1>1, <1>4
    <2>2. CASE acc.cut
      <3>1. next.start = n /\ n - 1 \in video.cuts
        BY <1>3, <2>1, <2>2 DEF OnWatch
      <3>2. Run(n, n)
        BY <3>1 DEF Run
      <3>3. n <= n + 1
        OBVIOUS
      <3> QED BY <1>2, <2>1, <3>1, <3>2, <3>3, RunMore
    <2>3. CASE ~acc.cut
      <3>1. next.start = acc.start /\ Run(acc.start, n) /\ (n # 0 => acc.start < n)
        BY <1>3, <2>3 DEF OnWatch
      <3>2. Run(acc.start, n + 1)
        BY <2>1, <3>1, RunMore
      <3>3. acc.start < n + 1
        <4>1. acc.start \in Nat
          BY DEF Seeing
        <4>2. acc.start <= n
          BY <2>3 DEF OnWatch
        <4> QED BY <4>1, <4>2
      <3>4. acc.start <= n + 1
        <4>1. acc.start \in Nat
          BY DEF Seeing
        <4> QED BY <3>3, <4>1
      <3> QED BY <3>1, <3>2, <3>3, <3>4
    <2> QED BY <2>2, <2>3
  <1> QED BY <1>1, <1>2, <1>4 DEF OnWatch, next

\* What a verdict adds to the shots that have ended.
LEMMA RecordedMore ==
  ASSUME NEW n \in Nat, NEW acc \in Seeing, OnWatch(acc, n), Recorded(acc, n), Complete(acc, n),
         IsCut(n) <=> n \in video.cuts
  PROVE  Recorded(NextFrame(acc, n), n + 1) /\ Complete(NextFrame(acc, n), n + 1)
  <1> DEFINE next == NextFrame(acc, n)
             old == acc.scenes
             new == next.scenes
             L == Len(old)
             ends == ~acc.cut /\ n \in video.cuts /\ n # 0
             s0 == Span(acc.start, n)
  <1>1. old \in Seq(Scene) /\ acc.start \in Nat /\ L \in Nat /\ DOMAIN old = 1..L
    BY DEF Seeing
  <1>2. \A j \in 1..L : old[j] \in Scene /\ old[j].start \in Nat /\ old[j].end \in Nat
    <2>1. \A j \in 1..L : old[j] \in Scene
      BY <1>1
    <2> QED BY <2>1 DEF Scene
  <1>3. /\ new = IF ends THEN Append(old, s0) ELSE old
        /\ next.start = IF acc.cut /\ n \notin video.cuts THEN n ELSE acc.start
        /\ next.cut <=> n \in video.cuts
    BY DEF NextFrame
  <1>4. s0 \in Scene /\ s0.start = acc.start /\ s0.end = n
    BY <1>1 DEF Span, Scene
  <1>5. \A j \in 1..L : Ended(old[j], n) /\ (~acc.cut => old[j].end <= acc.start)
    BY <1>1 DEF Recorded
  <1>6. \A j, k \in 1..L : j < k => old[j].end <= old[k].start
    BY <1>1 DEF Recorded
  <1>7. ends => Ended(s0, n + 1) /\ s0.start < n
    <2>1. ends => Run(s0.start, n) /\ s0.start < n
      BY <1>4 DEF OnWatch
    <2> QED BY <1>4, <2>1, EndedMore
  <1> HIDE DEF next, s0
  <1>8. /\ ends => Len(new) = L + 1 /\ new[L + 1] = s0 /\ \A j \in 1..L : new[j] = old[j]
        /\ ends => DOMAIN new = 1..(L + 1)
    <2> HIDE DEF new, ends
    <2>1. ends => new = Append(old, s0)
      BY <1>3
    <2> QED BY <1>1, <1>4, <2>1, AppendProperties
  <1> HIDE DEF new, old, L
  <1>9. ~ends => new = old
    BY <1>3
  <1>10. \A j \in 1..L : Ended(old[j], n + 1)
    BY <1>2, <1>5, EndedMore
  <1>11. \A j \in DOMAIN new : (j \in 1..L /\ new[j] = old[j]) \/ (ends /\ j = L + 1 /\ new[j] = s0)
    <2>1. ends => \A j \in DOMAIN new : j \in 1..L \/ j = L + 1
      BY <1>1, <1>8
    <2> HIDE DEF ends
    <2> QED BY <1>1, <1>8, <1>9, <2>1
  <1>12. Recorded(next, n + 1)
    <2>1. ASSUME NEW j \in DOMAIN new PROVE Ended(new[j], n + 1) /\ (~next.cut => new[j].end <= next.start)
      <3>1. Ended(new[j], n + 1)
        BY <1>7, <1>10, <1>11
      <3>2. ASSUME ~next.cut PROVE new[j].end <= next.start
        <4>1. n \notin video.cuts /\ ~ends /\ j \in 1..L /\ new[j] = old[j]
          BY <1>3, <1>11, <3>2
        <4>2. CASE acc.cut
          <5>1. next.start = n /\ old[j].end < n /\ old[j].end \in Nat
            BY <1>2, <1>3, <1>5, <4>1, <4>2 DEF Ended
          <5> QED BY <4>1, <5>1
        <4>3. CASE ~acc.cut
          BY <1>3, <1>5, <4>1, <4>3
        <4> QED BY <4>2, <4>3
      <3> QED BY <3>1, <3>2
    <2>2. ASSUME NEW j \in DOMAIN new, NEW k \in DOMAIN new, j < k PROVE new[j].end <= new[k].start
      <3>1. CASE j \in 1..L /\ k \in 1..L /\ new[j] = old[j] /\ new[k] = old[k]
        BY <1>6, <2>2, <3>1
      <3>2. CASE j \in 1..L /\ new[j] = old[j] /\ ends /\ new[k] = s0
        BY <1>4, <1>5, <3>2
      <3>3. CASE ends /\ j = L + 1
        <4>1. k \in 1..(L + 1)
          BY <1>8, <3>3
        <4> QED BY <1>1, <2>2, <3>3, <4>1
      <3> HIDE DEF ends
      <3> QED BY <1>11, <3>1, <3>2, <3>3
    <2> QED BY <2>1, <2>2 DEF Recorded, new
  <1>13. Complete(next, n + 1)
    <2>1. new # <<>> <=> ShotEnds(n + 1)
      <3>1. old # <<>> <=> ShotEnds(n)
        BY DEF Complete, old
      <3>2. ends => new # <<>>
        <4>1. Len(<<>>) = 0 /\ L + 1 # 0
          BY <1>1
        <4> QED BY <1>8, <4>1
      <3>3. ends <=> n # 0 /\ n \in video.cuts /\ n - 1 \notin video.cuts
        BY DEF OnWatch
      <3> HIDE DEF ends
      <3> QED BY <1>9, <3>1, <3>2, <3>3, ShotEndsMore
    <2>2. ASSUME NEW s \in Scene, Ended(s, n + 1) PROVE \E j \in DOMAIN new : new[j] = s
      <3>1. CASE Ended(s, n)
        <4>1. PICK j \in 1..L : old[j] = s
          BY <1>1, <3>1 DEF Complete, old
        <4>2. j \in DOMAIN new /\ new[j] = old[j]
          <5>1. ends => j \in 1..(L + 1)
            BY <1>1
          <5> HIDE DEF ends
          <5> QED BY <1>1, <1>8, <1>9, <5>1
        <4> QED BY <4>1, <4>2
      <3>2. CASE s.end = n /\ s.start < n /\ n \in video.cuts /\ Run(s.start, n)
        <4>1. s.start \in Nat /\ n # 0
          BY <3>2 DEF Scene
        <4>2. n - 1 \notin video.cuts
          <5>1. n - 1 \in s.start..(n - 1)
            BY <3>2, <4>1
          <5> QED BY <3>2, <5>1 DEF Run
        <4>3. ~acc.cut
          BY <4>2 DEF OnWatch
        <4>4. acc.start = s.start
          BY <3>2, <4>1, <4>3, OneRun DEF OnWatch
        <4>5. s = s0
          BY <1>4, <3>2, <4>4 DEF Scene
        <4>6. ends /\ L + 1 \in DOMAIN new
          BY <1>1, <1>8, <3>2, <4>1, <4>3
        <4> QED BY <1>8, <4>5, <4>6
      <3> QED BY <2>2, <3>1, <3>2, EndedMore
    <2> QED BY <2>1, <2>2 DEF Complete, new
  <1> QED BY <1>12, <1>13 DEF next

\* After every frame.
LEMMA Watched ==
  ASSUME InputsInv, NEW n \in 0..video.frames
  PROVE  /\ Seen[n] \in Seeing /\ OnWatch(Seen[n], n)
         /\ Recorded(Seen[n], n) /\ Complete(Seen[n], n)
  <1> DEFINE F == video.frames
             Good == {m \in 0..F : OnWatch(Seen[m], m) /\ Recorded(Seen[m], m) /\ Complete(Seen[m], m)}
  <1>1. F \in Nat
    BY DEF InputsInv, Videos
  <1>2. 0 \in Good
    <2>1. Seen[0].cut = FALSE /\ Seen[0].start = 0 /\ Seen[0].scenes = <<>>
      BY SeenSteps
    <2>2. OnWatch(Seen[0], 0)
      BY <2>1 DEF OnWatch, Run
    <2>3. Recorded(Seen[0], 0)
      BY <2>1 DEF Recorded
    <2>4. Complete(Seen[0], 0)
      <3>1. ~ShotEnds(0)
        BY DEF ShotEnds
      <3>2. \A s \in Scene : ~Ended(s, 0)
        BY DEF Scene, Ended
      <3> QED BY <2>1, <3>1, <3>2 DEF Complete
    <2> QED BY <1>1, <2>2, <2>3, <2>4
  <1>3. ASSUME NEW m \in 0..(F - 1), m \in Good PROVE m + 1 \in Good
    <2>1. m \in 0..F /\ m + 1 \in 0..F /\ m + 1 \in 1..F /\ (m + 1) - 1 = m /\ m \in Nat
      BY <1>1
    <2>2. Seen[m + 1] = NextFrame(Seen[m], m) /\ Seen[m] \in Seeing
      BY <2>1, SeenSteps
    <2>3. IsCut(m) <=> m \in video.cuts
      BY <2>1, JudgedFrames DEF IsCut
    <2>4. OnWatch(Seen[m + 1], m + 1)
      BY <1>3, <2>1, <2>2, <2>3, WatchMore
    <2>5. Recorded(Seen[m + 1], m + 1) /\ Complete(Seen[m + 1], m + 1)
      BY <1>3, <2>1, <2>2, <2>3, RecordedMore
    <2> QED BY <2>1, <2>4, <2>5
  <1>4. 0..F \subseteq Good
    <2> HIDE DEF Good
    <2> QED BY <1>1, <1>2, <1>3, UpTo
  <1> QED BY <1>4, SeenSteps

\* The ends of a span.
LEMMA SpanFields ==
  ASSUME NEW a, NEW b
  PROVE  Span(a, b).start = a /\ Span(a, b).end = b
  BY DEF Span

\* A scene is the span of its ends.
LEMMA SceneIsSpan ==
  ASSUME NEW s \in Scene
  PROVE  s = Span(s.start, s.end) /\ s.start \in Nat /\ s.end \in Nat
  BY DEF Span, Scene

\* A shot is a longest run without a transition.
LEMMA ShotsAre ==
  ASSUME InputsInv, opt.detect, NEW s
  PROVE  s \in Shots <=> /\ s \in Scene /\ s.start < s.end /\ s.end <= video.frames
                         /\ Run(s.start, s.end)
                         /\ s.end = video.frames \/ s.end \in video.cuts
  <1> DEFINE F == video.frames
             All == {Span(a, b) : a \in Frame, b \in 1..F}
  <1>1. F \in Nat
    BY DEF InputsInv, Videos
  <1>2. Shots = {x \in All : /\ x.start < x.end /\ x.start..(x.end - 1) \cap video.cuts = {}
                             /\ x.start = 0 \/ x.start - 1 \in video.cuts
                             /\ x.end = F \/ x.end \in video.cuts}
    BY DEF Shots
  <1>3. ASSUME s \in All
        PROVE  s \in Scene /\ s.start \in Nat /\ s.end \in Nat /\ s.end <= F
    <2>1. PICK a \in Frame, b \in 1..F : s = Span(a, b)
      BY <1>3
    <2>2. s.start = a /\ s.end = b /\ a \in Nat /\ b \in Nat /\ b <= F
      BY <1>1, <2>1, SpanFields DEF Frame
    <2> QED BY <2>1, <2>2 DEF Scene, Span
  <1>4. ASSUME s \in Scene, s.start < s.end, s.end <= F
        PROVE  s \in All
    <2>1. s = Span(s.start, s.end) /\ s.start \in Nat /\ s.end \in Nat
      BY <1>4, SceneIsSpan
    <2>2. s.start \in Frame /\ s.end \in 1..F
      BY <1>1, <1>4, <2>1 DEF Frame
    <2> QED BY <2>1, <2>2
  <1> HIDE DEF All
  <1>5. ASSUME s \in Scene
        PROVE  Run(s.start, s.end) <=> /\ s.start..(s.end - 1) \cap video.cuts = {}
                                       /\ s.start = 0 \/ s.start - 1 \in video.cuts
    BY <1>5, SceneIsSpan DEF Run
  <1>6. s \in Shots <=> /\ s \in All /\ s.start < s.end /\ s.start..(s.end - 1) \cap video.cuts = {}
                        /\ s.start = 0 \/ s.start - 1 \in video.cuts
                        /\ s.end = F \/ s.end \in video.cuts
    BY <1>2
  <1>7. s \in All /\ s.start < s.end <=> s \in Scene /\ s.start < s.end /\ s.end <= F
    BY <1>3, <1>4
  <1> QED BY <1>5, <1>6, <1>7 DEF F

InOrder(seq) == \A j, k \in DOMAIN seq : j < k => seq[j].end <= seq[k].start

\* The shot that a scene is cut from, but for the last frame.
OfShot(s, shot) == /\ s.start = shot.start
                   /\ s.end = shot.end \/ (shot.end = video.frames /\ s.end = video.frames - 1)

Stretch == {s \in Scene : s.start <= s.end}

\* A scene of a shot is inside it.
LEMMA OfShotInside ==
  ASSUME InputsInv, NEW s \in Scene, NEW shot \in Scene, OfShot(s, shot)
  PROVE  Inside(s, shot)
  <1>1. video.frames \in Nat /\ s.start \in Nat /\ s.end \in Nat
    BY DEF Scene, InputsInv, Videos
  <1> QED BY <1>1 DEF OfShot, Inside

\* The scenes are the shots, in order, the last one without its last frame.
LEMMA ScenesAreShots ==
  ASSUME InputsInv, opt.detect, video.frames > 0
  PROVE  /\ Scenes \in Seq(Stretch) /\ InOrder(Scenes)
         /\ HasShots => /\ \A j \in DOMAIN Scenes : \E shot \in Shots : OfShot(Scenes[j], shot)
                        /\ \A shot \in Shots : \E j \in DOMAIN Scenes : OfShot(Scenes[j], shot)
         /\ ~HasShots => Scenes = IF opt.whole THEN <<Span(0, video.frames)>> ELSE <<>>
  <1> DEFINE F == video.frames
             seen == Seen[F]
             old == seen.scenes
             L == Len(old)
             tail == Span(seen.start, F - 1)
             shot0 == Span(seen.start, F)
  <1>1. F \in Nat \ {0} /\ F \in 0..F
    BY DEF InputsInv, Videos
  <1>2. seen \in Seeing /\ OnWatch(seen, F) /\ Recorded(seen, F) /\ Complete(seen, F)
    BY <1>1, Watched
  <1>3. HasShots <=> ShotEnds(F)
    <2>1. \A f : f \in Frame \ {0} <=> f \in 1..(F - 1)
      BY <1>1 DEF Frame
    <2> HIDE DEF F
    <2> QED BY <2>1 DEF HasShots, ShotEnds
  <1>4. Scenes = IF old = <<>> THEN IF opt.whole THEN <<Span(0, F)>> ELSE <<>>
                 ELSE IF seen.cut THEN old ELSE Append(old, tail)
    BY Zenon DEF Scenes
  <1>5. old \in Seq(Scene) /\ L \in Nat /\ DOMAIN old = 1..L /\ seen.start \in Nat
    BY <1>2 DEF Seeing
  <1>6. old # <<>> <=> HasShots
    BY <1>2, <1>3 DEF Complete
  <1> HIDE DEF seen, F
  <1>7. ASSUME NEW j \in 1..L
        PROVE  old[j] \in Stretch /\ old[j] \in Shots
    <2>1. old[j] \in Scene
      BY <1>5, <1>7
    <2>2. Ended(old[j], F)
      BY <1>2, <1>5 DEF Recorded
    <2>3. old[j].start \in Nat /\ old[j].end \in Nat
      BY <2>1, SceneIsSpan
    <2>4. old[j].start <= old[j].end /\ old[j].end <= F
      BY <1>1, <2>2, <2>3 DEF Ended
    <2> QED BY <2>1, <2>2, <2>4, ShotsAre DEF Ended, Stretch, F
  <1>8. old \in Seq(Stretch)
    <2>1. \A j \in 1..L : old[j] \in Stretch
      BY <1>7
    <2>2. old \in [1..L -> Stretch]
      BY <1>5, <2>1
    <2> HIDE DEF old, L
    <2> QED BY <1>5, <2>2
  <1>9. \A j, k \in 1..L : j < k => old[j].end <= old[k].start
    BY <1>2, <1>5 DEF Recorded
  <1>10. ASSUME ~HasShots
         PROVE  /\ Scenes = IF opt.whole THEN <<Span(0, F)>> ELSE <<>>
                /\ Scenes \in Seq(Stretch) /\ InOrder(Scenes)
    <2>1. Scenes = IF opt.whole THEN <<Span(0, F)>> ELSE <<>>
      BY <1>4, <1>6, <1>10
    <2>2. Span(0, F) \in Stretch
      BY <1>1 DEF Stretch, Scene, Span
    <2>3. <<Span(0, F)>> \in Seq(Stretch) /\ <<>> \in Seq(Stretch)
      BY <2>2
    <2>4. DOMAIN Scenes = {1} \/ DOMAIN Scenes = {}
      BY <2>1
    <2> QED BY <2>1, <2>3, <2>4 DEF InOrder
  <1>11. ASSUME NEW shot \in Shots, shot.end # F PROVE \E j \in 1..L : old[j] = shot
    <2>1. /\ shot \in Scene /\ shot.start < shot.end /\ shot.end <= F /\ Run(shot.start, shot.end)
          /\ shot.end \in video.cuts
      BY <1>11, ShotsAre DEF F
    <2>2. shot.end < F
      BY <1>1, <1>11, <2>1, SceneIsSpan
    <2>3. Ended(shot, F)
      BY <2>1, <2>2 DEF Ended
    <2> QED BY <1>2, <1>5, <2>1, <2>3 DEF Complete
  <1>12. CASE HasShots /\ seen.cut
    <2>1. Scenes = old
      BY <1>4, <1>6, <1>12
    <2>2. ASSUME NEW shot \in Shots PROVE shot.end # F
      <3>1. shot \in Scene /\ shot.start < shot.end /\ Run(shot.start, shot.end)
        BY ShotsAre
      <3>2. shot.end = F => F - 1 \in shot.start..(shot.end - 1)
        BY <1>1, <3>1, SceneIsSpan
      <3>3. F - 1 \in video.cuts
        BY <1>2, <1>12 DEF OnWatch
      <3> QED BY <3>1, <3>2, <3>3 DEF Run
    <2>3. \A shot \in Shots : \E j \in 1..L : old[j] = shot
      BY <1>11, <2>2
    <2>4. InOrder(Scenes)
      BY <1>5, <1>9, <2>1 DEF InOrder
    <2> HIDE DEF old, L
    <2> QED BY <1>5, <1>7, <1>8, <1>12, <2>1, <2>3, <2>4 DEF OfShot
  <1>13. CASE HasShots /\ ~seen.cut
    <2>1. Scenes = Append(old, tail)
      BY <1>4, <1>6, <1>13
    <2>2. Run(seen.start, F) /\ seen.start < F
      BY <1>1, <1>2, <1>13 DEF OnWatch
    <2>3. tail \in Stretch /\ tail.start = seen.start /\ tail.end = F - 1
      BY <1>1, <1>5, <2>2 DEF Stretch, Scene, Span
    <2>4. shot0 \in Shots /\ shot0.start = seen.start /\ shot0.end = F
      <3>1. shot0 \in Scene /\ shot0.start = seen.start /\ shot0.end = F
        BY <1>1, <1>5 DEF Scene, Span
      <3>2. F <= F
        BY <1>1
      <3> HIDE DEF shot0
      <3> QED BY <2>2, <3>1, <3>2, ShotsAre DEF F
    <2>5. OfShot(tail, shot0)
      BY <2>3, <2>4 DEF OfShot, F
    <2> HIDE DEF tail, old, L, shot0
    <2>6. /\ Scenes \in Seq(Stretch) /\ DOMAIN Scenes = 1..(L + 1)
          /\ Scenes[L + 1] = tail /\ \A j \in 1..L : Scenes[j] = old[j]
      <3>1. L = Len(old)
        BY DEF L
      <3>2. /\ Append(old, tail) \in Seq(Stretch) /\ Len(Append(old, tail)) = Len(old) + 1
            /\ \A i \in 1..Len(old) : Append(old, tail)[i] = old[i]
            /\ Append(old, tail)[Len(old) + 1] = tail
        BY <1>8, <2>3, AppendProperties
      <3>3. DOMAIN Append(old, tail) = 1..Len(Append(old, tail))
        BY <3>2, LenProperties
      <3> QED BY <2>1, <3>1, <3>2, <3>3, Zenon
    <2>7. \A j \in 1..(L + 1) : j \in 1..L \/ j = L + 1
      BY <1>5
    <2>8. L + 1 \in 1..(L + 1) /\ 1..L \subseteq 1..(L + 1)
      BY <1>5
    <2>9. InOrder(Scenes)
      <3>1. ASSUME NEW j \in 1..(L + 1), NEW k \in 1..(L + 1), j < k
            PROVE  Scenes[j].end <= Scenes[k].start
        <4>1. j \in 1..L
          BY <1>5, <3>1
        <4>2. CASE k \in 1..L
          BY <1>9, <2>6, <3>1, <4>1, <4>2
        <4>3. CASE k = L + 1
          <5>1. old[j].end <= seen.start
            BY <1>2, <1>5, <1>13, <4>1 DEF Recorded, old
          <5> QED BY <2>3, <2>6, <4>1, <4>3, <5>1
        <4> QED BY <2>7, <4>2, <4>3
      <3> QED BY <2>6, <3>1 DEF InOrder
    <2>10. ASSUME NEW j \in 1..(L + 1) PROVE \E shot \in Shots : OfShot(Scenes[j], shot)
      <3>1. CASE j \in 1..L
        BY <1>7, <2>6, <3>1 DEF OfShot
      <3>2. CASE j = L + 1
        BY <2>4, <2>5, <2>6, <3>2
      <3> QED BY <2>7, <3>1, <3>2
    <2>11. ASSUME NEW shot \in Shots PROVE \E j \in 1..(L + 1) : OfShot(Scenes[j], shot)
      <3>1. CASE shot.end # F
        <4>1. PICK j \in 1..L : old[j] = shot
          BY <1>11, <3>1
        <4> QED BY <2>6, <2>8, <4>1 DEF OfShot
      <3>2. CASE shot.end = F
        <4>1. shot \in Scene /\ shot.start < F /\ Run(shot.start, F)
          BY <3>2, ShotsAre
        <4>2. shot.start = seen.start
          BY <2>2, <4>1, OneRun
        <4>3. OfShot(tail, shot)
          BY <2>3, <3>2, <4>2 DEF OfShot, F
        <4> QED BY <2>6, <2>8, <4>3
      <3> QED BY <3>1, <3>2
    <2> QED BY <1>13, <2>6, <2>9, <2>10, <2>11
  <1> QED BY <1>10, <1>12, <1>13 DEF F

-----------------------------------------------------------------------------
(* Pieces of a scene. *)

\* The pairs that follow one another in a sequence are in R.
Sorted(seq, R) == \A a, b \in DOMAIN seq : a < b => <<seq[a], seq[b]>> \in R

Apart(seqs, R) == \A i, j \in DOMAIN seqs : i < j =>
                    \A a \in DOMAIN seqs[i], b \in DOMAIN seqs[j] : <<seqs[i][a], seqs[j][b]>> \in R

\* Sorted sequences whose members are apart are sorted when they are joined.
LEMMA FlatSorted ==
  ASSUME NEW T, NEW seqs \in Seq(Seq(T)), NEW R,
         \A j \in DOMAIN seqs : Sorted(seqs[j], R), Apart(seqs, R)
  PROVE  Sorted(FlattenSeq(seqs), R)
  <1> DEFINE V == Seq(T)
             N == Len(seqs)
             flat == FlattenSeq(seqs)
  <1>1. N \in Nat /\ DOMAIN seqs = 1..N /\ \A j \in 1..N : seqs[j] \in V
    OBVIOUS
  <1>2. \A s \in V : DOMAIN s = 1..Len(s) /\ Len(s) \in Nat
    OBVIOUS
  <1>3. flat \in V
    BY FlattenLaid
  <1>4. PICK o : /\ Offsets(o, N, seqs) /\ Laid(o, flat, seqs, N)
                 /\ \A n \in 0..N, j \in 0..N : j <= n => o[j] <= o[n]
    BY FlattenLaid
  <1> HIDE DEF V, N, flat
  <1>5. DOMAIN flat = 1..o[N] /\ o[N] \in Nat
    BY <1>2, <1>3, <1>4 DEF Laid
  <1>6. o \in [0..N -> Nat] /\ \A j \in 1..N : o[j] = o[j - 1] + Len(seqs[j])
    BY <1>4 DEF Offsets
  <1>7. ASSUME NEW k \in 1..o[N], NEW l \in 1..o[N], k < l
        PROVE  <<flat[k], flat[l]>> \in R
    <2>1. PICK i \in 1..N : \E a \in 1..Len(seqs[i]) : k = o[i - 1] + a
      BY <1>4 DEF Laid
    <2>2. PICK a \in 1..Len(seqs[i]) : k = o[i - 1] + a
      BY <2>1
    <2>3. PICK j \in 1..N : \E b \in 1..Len(seqs[j]) : l = o[j - 1] + b
      BY <1>4 DEF Laid
    <2>4. PICK b \in 1..Len(seqs[j]) : l = o[j - 1] + b
      BY <2>3
    <2>5. flat[k] = seqs[i][a] /\ flat[l] = seqs[j][b]
      BY <1>4, <2>2, <2>4 DEF Laid
    <2>6. i - 1 \in 0..N /\ j - 1 \in 0..N /\ i \in 0..N /\ j \in 0..N
      BY <1>1
    <2>7. o[i - 1] \in Nat /\ o[j - 1] \in Nat /\ Len(seqs[i]) \in Nat /\ Len(seqs[j]) \in Nat
      BY <1>1, <1>2, <1>6, <2>6
    <2>8. ~(j < i)
      <3>1. j < i => o[j] <= o[i - 1]
        <4>1. j < i => j <= i - 1
          BY <2>6
        <4> QED BY <1>4, <2>6, <4>1
      <3>2. o[j] = o[j - 1] + Len(seqs[j])
        BY <1>6
      <3> DEFINE x == o[i - 1]
                 y == o[j - 1]
                 z == Len(seqs[j])
      <3>3. /\ x \in Nat /\ y \in Nat /\ z \in Nat /\ a \in Nat /\ a >= 1 /\ b \in Nat /\ b <= z
            /\ k = x + a /\ l = y + b /\ o[j] = y + z /\ k < l
        <4>1. a \in 1..Len(seqs[i]) /\ Len(seqs[i]) \in Nat
          BY <2>7
        <4>2. b \in 1..z /\ z \in Nat
          BY <2>7
        <4>3. a \in Nat /\ a >= 1
          BY <4>1
        <4>4. b \in Nat /\ b <= z
          BY <4>2
        <4> HIDE DEF x, y, z
        <4> QED BY <1>7, <2>2, <2>4, <2>7, <3>2, <4>2, <4>3, <4>4 DEF x, y, z
      <3>4. j < i => o[j] <= x
        BY <3>1
      <3> HIDE DEF x, y, z
      <3> QED BY <3>3, <3>4
    <2>9. CASE i = j
      <3>1. a < b
        <4> DEFINE x == o[i - 1]
        <4>1. x \in Nat /\ k = x + a /\ l = x + b /\ k < l
          BY <1>7, <2>2, <2>4, <2>7, <2>9
        <4>2. a \in Int /\ b \in Int
          BY <2>7
        <4> HIDE DEF x
        <4> QED BY <4>1, <4>2
      <3>2. Sorted(seqs[i], R) /\ a \in DOMAIN seqs[i] /\ b \in DOMAIN seqs[i]
        BY <1>1, <1>2, <2>9
      <3> QED BY <2>5, <2>9, <3>1, <3>2 DEF Sorted
    <2>10. CASE i < j
      <3>1. a \in DOMAIN seqs[i] /\ b \in DOMAIN seqs[j]
        BY <1>1, <1>2
      <3> QED BY <1>1, <2>5, <2>10, <3>1 DEF Apart
    <2> QED BY <2>6, <2>8, <2>9, <2>10
  <1> QED BY <1>5, <1>7 DEF Sorted, flat

Gathers(flat, seqs) ==
  /\ \A k \in DOMAIN flat : \E j \in DOMAIN seqs : \E i \in DOMAIN seqs[j] : flat[k] = seqs[j][i]
  /\ \A j \in DOMAIN seqs : \A i \in DOMAIN seqs[j] : \E k \in DOMAIN flat : flat[k] = seqs[j][i]

\* The members of a joined sequence are those of its parts.
LEMMA FlatMembers ==
  ASSUME NEW T, NEW seqs \in Seq(Seq(T))
  PROVE  FlattenSeq(seqs) \in Seq(T) /\ Gathers(FlattenSeq(seqs), seqs)
  <1> DEFINE V == Seq(T)
             N == Len(seqs)
             flat == FlattenSeq(seqs)
  <1>1. N \in Nat /\ DOMAIN seqs = 1..N /\ \A j \in 1..N : seqs[j] \in V
    OBVIOUS
  <1>2. \A s \in V : DOMAIN s = 1..Len(s) /\ Len(s) \in Nat
    OBVIOUS
  <1>3. flat \in V
    BY FlattenLaid
  <1>4. PICK o : /\ Offsets(o, N, seqs) /\ Laid(o, flat, seqs, N)
                 /\ \A n \in 0..N, j \in 0..N : j <= n => o[j] <= o[n]
    BY FlattenLaid
  <1> HIDE DEF V, N, flat
  <1>5. DOMAIN flat = 1..o[N] /\ o[N] \in Nat
    BY <1>2, <1>3, <1>4 DEF Laid
  <1>6. o \in [0..N -> Nat] /\ \A j \in 1..N : o[j] = o[j - 1] + Len(seqs[j])
    BY <1>4 DEF Offsets
  <1>7. ASSUME NEW k \in 1..o[N]
        PROVE  \E j \in 1..N : \E i \in DOMAIN seqs[j] : flat[k] = seqs[j][i]
    <2>1. PICK j \in 1..N : \E i \in 1..Len(seqs[j]) : k = o[j - 1] + i
      BY <1>4 DEF Laid
    <2>2. PICK i \in 1..Len(seqs[j]) : k = o[j - 1] + i
      BY <2>1
    <2>3. flat[k] = seqs[j][i] /\ i \in DOMAIN seqs[j]
      BY <1>1, <1>2, <1>4, <2>2 DEF Laid
    <2> QED BY <2>3
  <1>8. ASSUME NEW j \in 1..N, NEW i \in DOMAIN seqs[j]
        PROVE  \E k \in 1..o[N] : flat[k] = seqs[j][i]
    <2>1. i \in 1..Len(seqs[j]) /\ Len(seqs[j]) \in Nat
      BY <1>1, <1>2
    <2>2. j - 1 \in 0..N /\ j \in 0..N /\ N \in 0..N /\ j <= N
      BY <1>1
    <2>3. o[j - 1] \in Nat /\ o[j] = o[j - 1] + Len(seqs[j]) /\ o[j] <= o[N]
      BY <1>4, <1>6, <2>2
    <2>4. o[j - 1] + i \in 1..o[N]
      BY <1>5, <2>1, <2>3
    <2>5. flat[o[j - 1] + i] = seqs[j][i]
      BY <1>4, <2>1 DEF Laid
    <2> QED BY <2>4, <2>5
  <1>9. DOMAIN seqs = 1..N /\ DOMAIN flat = 1..o[N]
    BY <1>1, <1>5
  <1>10. \A k \in DOMAIN flat : \E j \in DOMAIN seqs : \E i \in DOMAIN seqs[j] : flat[k] = seqs[j][i]
    BY <1>7, <1>9, Zenon
  <1>11. \A j \in DOMAIN seqs : \A i \in DOMAIN seqs[j] : \E k \in DOMAIN flat : flat[k] = seqs[j][i]
    BY <1>8, <1>9, Zenon
  <1>12. Gathers(flat, seqs)
    BY <1>10, <1>11, Zenon DEF Gathers
  <1> QED BY <1>3, <1>12 DEF V, flat

\* Choosing keeps what was sorted so, and every chosen member.
LEMMA ChosenSorted ==
  ASSUME NEW T, NEW seq \in Seq(T), NEW S, NEW R, Sorted(seq, R)
  PROVE  Sorted(Chosen(seq, S), R)
  <1> DEFINE out == Chosen(seq, S)
             P == S \cap DOMAIN seq
  <1>1. out \in Seq(T)
    BY ChosenPlaces
  <1>2. PICK h : Places(h, out, seq, P)
    BY ChosenPlaces
  <1>3. DOMAIN out = 1..Len(out)
    BY <1>1
  <1> HIDE DEF out
  <1> QED BY <1>2, <1>3 DEF Sorted, Places, out

Takes(out, seq, S) ==
  /\ \A k \in DOMAIN out : \E i \in S \cap DOMAIN seq : out[k] = seq[i]
  /\ \A i \in S \cap DOMAIN seq : \E k \in DOMAIN out : out[k] = seq[i]

\* The members of a chosen sequence are those at the places of the set.
LEMMA ChosenMembers ==
  ASSUME NEW T, NEW seq \in Seq(T), NEW S
  PROVE  Chosen(seq, S) \in Seq(T) /\ Takes(Chosen(seq, S), seq, S)
  <1> DEFINE out == Chosen(seq, S)
             P == S \cap DOMAIN seq
  <1>1. out \in Seq(T)
    BY ChosenPlaces
  <1>2. PICK h : Places(h, out, seq, P)
    BY ChosenPlaces
  <1>3. DOMAIN out = 1..Len(out)
    BY <1>1
  <1> HIDE DEF out, P
  <1>4. \A k \in 1..Len(out) : h[k] \in P /\ out[k] = seq[h[k]]
    BY <1>2 DEF Places
  <1>5. \A i \in P : \E k \in 1..Len(out) : h[k] = i
    BY <1>2 DEF Places
  <1>6. \A k \in DOMAIN out : \E i \in P : out[k] = seq[i]
    BY <1>3, <1>4
  <1>7. \A i \in P : \E k \in DOMAIN out : out[k] = seq[i]
    BY <1>3, <1>4, <1>5
  <1>8. Takes(out, seq, S)
    BY <1>6, <1>7 DEF Takes, P
  <1> QED BY <1>1, <1>8 DEF out

Piece(s, k) == Span(s.start + (k - 1) * opt.max, Least(s.start + k * opt.max, s.end))

Count(s) == Ceiling(Length(s), opt.max)

\* The pieces of a stretch: inside it, of the maximal length but for the last, end to end.
LEMMA PieceBounds ==
  ASSUME opt \in Options, NEW s \in Stretch
  PROVE  /\ Count(s) \in Nat
         /\ \A k \in 1..Count(s) :
              /\ Piece(s, k) \in Scene /\ s.start <= Piece(s, k).start
              /\ Piece(s, k).start < Piece(s, k).end /\ Piece(s, k).end <= s.end
              /\ Length(Piece(s, k)) <= opt.max /\ Piece(s, k).start = s.start + (k - 1) * opt.max
              /\ k < Count(s) => /\ Piece(s, k).end = s.start + k * opt.max
                                 /\ Piece(s, k).end < s.end /\ Length(Piece(s, k)) = opt.max
              /\ k = Count(s) => Piece(s, k).end = s.end
         /\ \A k, l \in 1..Count(s) : k < l => Piece(s, k).end <= Piece(s, l).start
  <1> DEFINE m == opt.max
             L == Length(s)
             K == Count(s)
             a == s.start
             b == s.end
  <1>1. m \in Nat \ {0} /\ a \in Nat /\ b \in Nat /\ a <= b /\ L = b - a /\ L \in Nat
    BY DEF Options, Stretch, Scene, Length
  <1>2. K \in Nat /\ K * m >= L /\ \A k \in Nat : k * m < L <=> k < K
    BY <1>1, CeilingBounds DEF Count
  <1> HIDE DEF m, L, K, a, b
  <1>3. ASSUME NEW k \in 1..K
        PROVE  /\ (k - 1) * m \in Nat /\ k * m \in Nat /\ (k - 1) * m < L /\ k * m = (k - 1) * m + m
               /\ k < K => k * m < L
               /\ k = K => k * m >= L
    <2>1. k - 1 \in Nat /\ k \in Nat /\ k - 1 < K
      BY <1>2
    <2> QED BY <1>1, <1>2, <2>1
  <1>4. ASSUME NEW k \in 1..K
        PROVE  /\ Piece(s, k).start = a + (k - 1) * m /\ Piece(s, k).end = Least(a + k * m, b)
               /\ Piece(s, k) = Span(a + (k - 1) * m, Least(a + k * m, b))
    BY SpanFields DEF Piece, a, b, m
  <1>5. ASSUME NEW k \in 1..K
        PROVE  /\ Piece(s, k) \in Scene /\ a <= Piece(s, k).start
               /\ Piece(s, k).start < Piece(s, k).end /\ Piece(s, k).end <= b
               /\ Length(Piece(s, k)) <= m
               /\ k < K => /\ Piece(s, k).end = a + k * m /\ Piece(s, k).end < b
                           /\ Length(Piece(s, k)) = m
               /\ k = K => Piece(s, k).end = b
    <2> DEFINE x == (k - 1) * m
               y == k * m
    <2>1. /\ x \in Nat /\ y \in Nat /\ x < L /\ y = x + m
          /\ k < K => y < L
          /\ k = K => y >= L
      BY <1>3
    <2>2. Piece(s, k).start = a + x /\ Piece(s, k).end = Least(a + y, b)
      BY <1>4
    <2>3. a + x \in Nat /\ Least(a + y, b) \in Nat
      BY <1>1, <2>1 DEF Least
    <2>4. Piece(s, k) \in Scene
      BY <1>4, <2>3 DEF Span, Scene
    <2> DEFINE e == Least(a + y, b)
    <2>5. Length(Piece(s, k)) = e - (a + x)
      BY <2>2 DEF Length
    <2>6. k < K \/ k = K
      BY <1>2
    <2> HIDE DEF x, y
    <2>7. /\ k < K => e = a + y /\ e < b /\ e - (a + x) = m
          /\ k = K => e = b
      BY <1>1, <2>1 DEF Least
    <2>8. a + x < e /\ e <= b /\ e - (a + x) <= m
      BY <1>1, <2>1 DEF Least
    <2>9. a <= a + x
      BY <1>1, <2>1
    <2>10. Piece(s, k).start = a + x /\ Piece(s, k).end = e
      BY <2>2
    <2> HIDE DEF e
    <2>11. /\ a <= Piece(s, k).start /\ Piece(s, k).start < Piece(s, k).end /\ Piece(s, k).end <= b
           /\ Length(Piece(s, k)) <= m
      BY <2>5, <2>8, <2>9, <2>10
    <2>12. k < K => /\ Piece(s, k).end = a + k * m /\ Piece(s, k).end < b
                    /\ Length(Piece(s, k)) = m
      BY <2>5, <2>7, <2>10 DEF y
    <2> QED BY <2>4, <2>7, <2>10, <2>11, <2>12
  <1>6. ASSUME NEW k \in 1..K, NEW l \in 1..K, k < l
        PROVE  Piece(s, k).end <= Piece(s, l).start
    <2>1. k * m <= (l - 1) * m
      <3>1. k \in Int /\ l - 1 \in Int /\ k <= l - 1 /\ m \in Nat
        BY <1>1, <1>2, <1>6
      <3> QED BY <3>1, Grows
    <2>2. k < K
      BY <1>2, <1>6
    <2>3. Piece(s, k).end = a + k * m /\ Piece(s, l).start = a + (l - 1) * m
      BY <1>4, <1>5, <2>2
    <2>4. k * m \in Nat /\ (l - 1) * m \in Nat
      BY <1>3
    <2> QED BY <1>1, <2>1, <2>3, <2>4
  <1> QED BY <1>2, <1>4, <1>5, <1>6 DEF K, m, a, b

\* Every frame is in a piece.
LEMMA PieceOf ==
  ASSUME opt \in Options, NEW s \in Stretch, NEW f \in s.start..(s.end - 1)
  PROVE  \E k \in 1..Count(s) : f \in Piece(s, k).start..(Piece(s, k).end - 1)
  <1> DEFINE m == opt.max
             L == Length(s)
             K == Count(s)
             a == s.start
             b == s.end
             g == f - a
             q == g \div m
  <1>1. m \in Nat \ {0} /\ a \in Nat /\ b \in Nat /\ a <= b /\ L = b - a /\ L \in Nat
    BY DEF Options, Stretch, Scene, Length
  <1>2. K \in Nat /\ \A k \in Nat : k * m < L <=> k < K
    BY <1>1, CeilingBounds DEF Count
  <1>3. g \in Nat /\ g < L /\ f = a + g
    BY <1>1
  <1>4. q \in Nat /\ g % m \in Nat /\ g % m < m /\ g = q * m + (g % m)
    BY <1>1, <1>3, DivMod
  <1> DEFINE r == g % m
  <1> HIDE DEF m, L, K, a, b, g, q, r
  <1>5. q * m \in Nat /\ q * m <= g /\ g < q * m + m /\ (q + 1) * m = q * m + m
    BY <1>1, <1>3, <1>4 DEF r
  <1>6. q < K
    BY <1>1, <1>2, <1>3, <1>4, <1>5
  <1>7. q + 1 \in 1..K /\ (q + 1) - 1 = q
    BY <1>2, <1>4, <1>6
  <1>8. Piece(s, q + 1).start = a + q * m /\ Piece(s, q + 1).end = Least(a + (q + 1) * m, b)
    BY <1>7, SpanFields DEF Piece, a, b, m
  <1>9. f \in Piece(s, q + 1).start..(Piece(s, q + 1).end - 1)
    BY <1>1, <1>3, <1>5, <1>8 DEF Least
  <1> QED BY <1>7, <1>9 DEF K

Cut == [start : Nat, end : Int]

\* The pairs of which one ends before the other starts.
Before == {p \in Cut \X Cut : p[1].end <= p[2].start}

\* The kinds of span, from the narrowest to the widest.
LEMMA SceneIsCut ==
  Scene \subseteq Cut /\ Interval \subseteq Scene /\ Stretch \subseteq Scene
  BY DEF Scene, Cut, Interval, Stretch

\* The pieces that are kept are in order, and only a short last one is not kept.
LEMMA PiecesAre ==
  ASSUME opt \in Options, NEW s \in Stretch
  PROVE  /\ Pieces(s) \in Seq(Scene) /\ Sorted(Pieces(s), Before)
         /\ \A i \in DOMAIN Pieces(s) : \E k \in 1..Count(s) : Pieces(s)[i] = Piece(s, k)
         /\ \A k \in 1..Count(s) : k < Count(s) \/ Length(Piece(s, k)) >= opt.min =>
              \E i \in DOMAIN Pieces(s) : Pieces(s)[i] = Piece(s, k)
  <1> DEFINE K == Count(s)
             cut == [k \in 1..K |-> Piece(s, k)]
             S == {k \in DOMAIN cut : cut[k].end # s.end \/ Length(cut[k]) >= opt.min}
  <1>1. Pieces(s) = Chosen(cut, S)
    BY Zenon DEF Pieces, Piece, Count
  <1>2. K \in Nat
    BY PieceBounds
  <1>3. \A k \in 1..K : Piece(s, k) \in Scene
    BY PieceBounds
  <1>4. cut \in Seq(Scene) /\ DOMAIN cut = 1..K /\ \A k \in 1..K : cut[k] = Piece(s, k)
    <2>1. cut \in [1..K -> Scene]
      BY <1>3
    <2> HIDE DEF K
    <2> QED BY <1>2, <2>1
  <1>5. ASSUME NEW k \in 1..K, NEW l \in 1..K, k < l PROVE <<Piece(s, k), Piece(s, l)>> \in Before
    <2>1. Piece(s, k).end <= Piece(s, l).start
      BY <1>5, PieceBounds
    <2> QED BY <1>3, <2>1, SceneIsCut DEF Before
  <1> HIDE DEF cut, K
  <1>6. Sorted(cut, Before)
    BY <1>4, <1>5 DEF Sorted
  <1>7. /\ Pieces(s) \in Seq(Scene)
        /\ \A i \in DOMAIN Pieces(s) : \E k \in S \cap DOMAIN cut : Pieces(s)[i] = cut[k]
        /\ \A k \in S \cap DOMAIN cut : \E i \in DOMAIN Pieces(s) : Pieces(s)[i] = cut[k]
    <2> HIDE DEF S
    <2>1. cut \in Seq(Scene)
      BY <1>4
    <2>2. Chosen(cut, S) \in Seq(Scene) /\ Takes(Chosen(cut, S), cut, S)
      BY <2>1, ChosenMembers
    <2> QED BY <1>1, <2>2 DEF Takes
  <1>8. Sorted(Pieces(s), Before)
    <2> HIDE DEF S
    <2> QED BY <1>1, <1>4, <1>6, ChosenSorted
  <1>9. ASSUME NEW k \in 1..K, k < K \/ Length(Piece(s, k)) >= opt.min PROVE k \in S \cap DOMAIN cut
    <2>1. k < K => Piece(s, k).end < s.end /\ Piece(s, k).end \in Nat /\ s.end \in Nat
      BY <1>3, PieceBounds DEF K, Scene, Stretch
    <2>2. k < K => Piece(s, k).end # s.end
      BY <2>1
    <2> QED BY <1>4, <1>9, <2>2
  <1> HIDE DEF S
  <1> QED BY <1>4, <1>7, <1>8, <1>9 DEF K

Crops(s) == [k \in DOMAIN Shortened(s) |-> Cropped(Shortened(s)[k])]

\* Cropping moves both ends inwards by the crop.
LEMMA CroppedIs ==
  ASSUME opt \in Options, NEW p \in Scene
  PROVE  /\ Crop \in Nat /\ Cropped(p) \in Cut
         /\ Cropped(p).start = p.start + Crop /\ Cropped(p).end = p.end - Crop
         /\ Length(Cropped(p)) = Length(p) - 2 * Crop
         /\ Cropped(p) = Span(p.start + Crop, p.end - Crop)
  <1>1. p.start \in Nat /\ p.end \in Nat /\ p = Span(p.start, p.end)
    BY SceneIsSpan
  <1>2. opt.crop \in Nat \/ opt.crop = NoCrop
    BY DEF Options
  <1>3. CASE opt.crop = NoCrop
    <2>1. Crop = 0 /\ Cropped(p) = p
      BY <1>3 DEF Crop, Most, NoCrop, Cropped
    <2>2. p \in Cut
      BY SceneIsCut
    <2>3. p.start + Crop = p.start /\ p.end - Crop = p.end
      BY <1>1, <2>1
    <2>4. Length(p) - 2 * Crop = Length(p)
      BY <1>1, <2>1 DEF Length
    <2> QED BY <1>1, <2>1, <2>2, <2>3, <2>4
  <1>4. CASE opt.crop \in Nat
    <2>1. Crop = opt.crop /\ opt.crop # NoCrop
      BY <1>4 DEF Crop, Most, NoCrop
    <2>2. Cropped(p) = Span(p.start + Crop, p.end - Crop)
      BY <2>1 DEF Cropped
    <2>3. Cropped(p).start = p.start + Crop /\ Cropped(p).end = p.end - Crop
      BY <2>2, SpanFields
    <2>4. p.start + Crop \in Nat /\ p.end - Crop \in Int
      BY <1>1, <1>4, <2>1
    <2>5. Cropped(p) \in Cut
      BY <2>2, <2>4 DEF Span, Cut
    <2>6. Length(Cropped(p)) = Length(p) - 2 * Crop
      BY <1>1, <1>4, <2>1, <2>3 DEF Length
    <2> QED BY <1>4, <2>1, <2>2, <2>3, <2>5, <2>6
  <1> QED BY <1>2, <1>3, <1>4

\* What a scene is cut into before it is cropped.
LEMMA ShortenedIs ==
  ASSUME opt \in Options, NEW s \in Stretch
  PROVE  /\ Shortened(s) \in Seq(Scene) /\ Sorted(Shortened(s), Before)
         /\ \A i \in DOMAIN Shortened(s) :
              Inside(Shortened(s)[i], s) /\ Length(Shortened(s)[i]) <= opt.max
         /\ opt.mode # "stride" => DOMAIN Shortened(s) = {1}
  <1>1. CASE opt.mode = "stride"
    <2>1. Shortened(s) = Pieces(s)
      BY <1>1 DEF Shortened
    <2>2. ASSUME NEW i \in DOMAIN Pieces(s)
          PROVE  Inside(Pieces(s)[i], s) /\ Length(Pieces(s)[i]) <= opt.max
      <3>1. PICK k \in 1..Count(s) : Pieces(s)[i] = Piece(s, k)
        BY PiecesAre
      <3> QED BY <3>1, PieceBounds DEF Inside
    <2> QED BY <1>1, <2>1, <2>2, PiecesAre
  <1>2. CASE opt.mode # "stride"
    <2> DEFINE e == Least(s.start + opt.max, s.end)
               p == Span(s.start, e)
    <2>1. /\ s.start \in Nat /\ s.end \in Nat /\ s.start <= s.end /\ opt.max \in Nat
      BY DEF Stretch, Scene, Options
    <2>2. e \in Nat /\ e <= s.end /\ e - s.start <= opt.max /\ s.start <= s.start
      BY <2>1 DEF Least
    <2>3. Shortened(s) = <<p>>
      BY <1>2, Zenon DEF Shortened
    <2>4. p.start = s.start /\ p.end = e /\ p \in Scene
      BY <2>1, <2>2 DEF Span, Scene
    <2> HIDE DEF p
    <2>5. Inside(p, s) /\ Length(p) <= opt.max
      BY <2>2, <2>4 DEF Inside, Length
    <2>6. <<p>> \in Seq(Scene) /\ DOMAIN <<p>> = {1} /\ <<p>>[1] = p
      BY <2>4
    <2>7. Sorted(<<p>>, Before)
      BY <2>6 DEF Sorted
    <2> QED BY <1>2, <2>3, <2>5, <2>6, <2>7
  <1> QED BY <1>1, <1>2

\* The cropped pieces of a scene are in order and inside it.
LEMMA CropsAre ==
  ASSUME opt \in Options, NEW s \in Stretch
  PROVE  /\ Crops(s) \in Seq(Cut) /\ Sorted(Crops(s), Before)
         /\ \A i \in DOMAIN Crops(s) : Inside(Crops(s)[i], s) /\ Length(Crops(s)[i]) <= opt.max
  <1> DEFINE short == Shortened(s)
             N == Len(short)
  <1>1. /\ short \in Seq(Scene) /\ N \in Nat /\ DOMAIN short = 1..N
        /\ Sorted(short, Before)
        /\ \A i \in 1..N : short[i] \in Scene
    BY ShortenedIs
  <1>2. \A i \in 1..N : Inside(short[i], s) /\ Length(short[i]) <= opt.max
    BY <1>1, ShortenedIs
  <1> HIDE DEF short, N
  <1>3. /\ DOMAIN Crops(s) = 1..N
        /\ \A i \in 1..N : Crops(s)[i] = Cropped(short[i]) /\ Crops(s)[i] \in Cut
    BY <1>1, CroppedIs DEF Crops, short
  <1>4. Crops(s) \in Seq(Cut)
    <2>1. Crops(s) = [i \in 1..N |-> Crops(s)[i]]
      BY <1>1, <1>3 DEF Crops, short
    <2>2. Crops(s) \in [1..N -> Cut]
      BY <1>3, <2>1
    <2> QED BY <1>1, <2>2
  <1>5. ASSUME NEW i \in 1..N
        PROVE  /\ short[i].start <= Crops(s)[i].start /\ Crops(s)[i].end <= short[i].end
               /\ Length(Crops(s)[i]) <= Length(short[i])
               /\ short[i].start \in Nat /\ short[i].end \in Nat
               /\ Crops(s)[i].start \in Nat /\ Crops(s)[i].end \in Int
    <2>1. short[i] \in Scene /\ Crops(s)[i] = Cropped(short[i])
      BY <1>1, <1>3
    <2>2. /\ Crop \in Nat /\ Crops(s)[i].start = short[i].start + Crop
          /\ Crops(s)[i].end = short[i].end - Crop
          /\ Length(Crops(s)[i]) = Length(short[i]) - 2 * Crop
      BY <2>1, CroppedIs
    <2>3. short[i].start \in Nat /\ short[i].end \in Nat
      BY <2>1, SceneIsSpan
    <2>4. Length(short[i]) \in Int
      BY <2>3 DEF Length
    <2> QED BY <2>2, <2>3, <2>4
  <1>6. ASSUME NEW i \in 1..N PROVE Inside(Crops(s)[i], s) /\ Length(Crops(s)[i]) <= opt.max
    <2>1. Inside(short[i], s) /\ Length(short[i]) <= opt.max
      BY <1>2
    <2>2. s.start \in Nat /\ s.end \in Nat /\ opt.max \in Nat
      BY DEF Stretch, Scene, Options
    <2>3. Length(short[i]) \in Int /\ Length(Crops(s)[i]) \in Int
      BY <1>5 DEF Length
    <2> QED BY <1>5, <2>1, <2>2, <2>3 DEF Inside
  <1>7. ASSUME NEW i \in 1..N, NEW j \in 1..N, i < j
        PROVE  <<Crops(s)[i], Crops(s)[j]>> \in Before
    <2>1. short[i].end <= short[j].start
      BY <1>1, <1>7 DEF Sorted, Before
    <2>2. Crops(s)[i].end <= Crops(s)[j].start
      BY <1>5, <2>1
    <2> QED BY <1>3, <2>2 DEF Before
  <1> QED BY <1>3, <1>4, <1>6, <1>7 DEF Sorted

\* The pairs of cropped pieces of different scenes, in the order of the scenes.
OfScenes == {p \in Cut \X Cut : \E i, j \in DOMAIN Scenes :
               i < j /\ p = <<Crops(Scenes[i])[1], Crops(Scenes[j])[1]>>}

\* A clip inside one of the scenes.
InScene(c) == \E j \in DOMAIN Scenes : Inside(c, Scenes[j])

Kept(c) == \E k \in DOMAIN FilteredScenes : FilteredScenes[k] = c

AllCrops == [i \in DOMAIN Scenes |-> Crops(Scenes[i])]

\* The cropped pieces, scene by scene.
LEMMA AllCropsAre ==
  ASSUME InputsInv, opt.detect, video.frames > 0
  PROVE  /\ AllCrops \in Seq(Seq(Cut)) /\ DOMAIN AllCrops = DOMAIN Scenes
         /\ \A j \in DOMAIN Scenes : Scenes[j] \in Stretch /\ AllCrops[j] = Crops(Scenes[j])
  <1> DEFINE N == Len(Scenes)
             V == Seq(Cut)
  <1>1. Scenes \in Seq(Stretch)
    BY ScenesAreShots
  <1>2. N \in Nat /\ DOMAIN Scenes = 1..N /\ \A j \in 1..N : Scenes[j] \in Stretch
    BY <1>1
  <1> HIDE DEF N
  <1>3. \A j \in 1..N : Crops(Scenes[j]) \in V
    BY <1>2, CropsAre DEF InputsInv
  <1>4. AllCrops = [j \in 1..N |-> Crops(Scenes[j])]
    BY <1>2 DEF AllCrops
  <1>5. AllCrops \in [1..N -> V]
    <2> HIDE DEF V
    <2> QED BY <1>3, <1>4
  <1>6. AllCrops \in Seq(V)
    <2> HIDE DEF V
    <2> QED BY <1>2, <1>5
  <1> QED BY <1>2, <1>4, <1>6

\* The clips of the shots: in order, of the lengths asked for, and every piece that is long enough.
LEMMA FilteredAre ==
  ASSUME InputsInv, opt.detect, video.frames > 0
  PROVE  /\ FilteredScenes \in Seq(Interval) /\ Sorted(FilteredScenes, Before)
         /\ \A k \in DOMAIN FilteredScenes :
              /\ opt.min <= Length(FilteredScenes[k]) /\ Length(FilteredScenes[k]) <= opt.max
              /\ InScene(FilteredScenes[k])
         /\ \A j \in DOMAIN Scenes : \A i \in DOMAIN Crops(Scenes[j]) :
              Length(Crops(Scenes[j])[i]) >= opt.min => Kept(Crops(Scenes[j])[i])
         /\ opt.mode # "stride" => Sorted(FilteredScenes, OfScenes)
  <1> DEFINE all == FlattenSeq(AllCrops)
             S == {i \in DOMAIN all : /\ Length(all[i]) >= opt.min
                                      /\ opt.crop = NoCrop \/ Length(all[i]) > 0}
             out == FilteredScenes
  <1>1. out = Chosen(all, S)
    <2>1. \A s : [k \in DOMAIN Shortened(s) |-> Cropped(Shortened(s)[k])] = Crops(s)
      BY Zenon DEF Crops
    <2>2. [i \in DOMAIN Scenes |->
             LET pieces == Shortened(Scenes[i]) IN [k \in DOMAIN pieces |-> Cropped(pieces[k])]] = AllCrops
      BY Zenon DEF Crops, AllCrops
    <2> QED BY <2>2, Zenon DEF FilteredScenes
  <1>2. /\ AllCrops \in Seq(Seq(Cut)) /\ DOMAIN AllCrops = DOMAIN Scenes
        /\ \A j \in DOMAIN Scenes : Scenes[j] \in Stretch /\ AllCrops[j] = Crops(Scenes[j])
    BY AllCropsAre
  <1>3. opt \in Options /\ opt.min \in Nat \ {0} /\ opt.max \in Nat
    BY DEF InputsInv, Options
  <1>4. all \in Seq(Cut) /\ Gathers(all, AllCrops)
    BY <1>2, FlatMembers
  <1>5. DOMAIN Scenes \subseteq Nat
    <2>1. Scenes \in Seq(Stretch)
      BY ScenesAreShots
    <2> QED BY <2>1
  <1>6. \A j \in DOMAIN Scenes : Crops(Scenes[j]) \in Seq(Cut)
    BY <1>2, <1>3, CropsAre
  <1>7. Sorted(all, Before)
    <2>1. \A j \in DOMAIN AllCrops : Sorted(AllCrops[j], Before)
      BY <1>2, <1>3, CropsAre
    <2>2. ASSUME NEW i \in DOMAIN Scenes, NEW j \in DOMAIN Scenes, i < j,
                 NEW a \in DOMAIN AllCrops[i], NEW b \in DOMAIN AllCrops[j]
          PROVE  <<AllCrops[i][a], AllCrops[j][b]>> \in Before
      <3> DEFINE c == Crops(Scenes[i])[a]
                 d == Crops(Scenes[j])[b]
      <3>1. Inside(c, Scenes[i]) /\ Inside(d, Scenes[j])
        BY <1>2, <1>3, CropsAre
      <3>2. Scenes[i].end <= Scenes[j].start
        BY <2>2, ScenesAreShots DEF InOrder
      <3>3. c \in Cut /\ d \in Cut
        <4>1. Crops(Scenes[i]) \in Seq(Cut) /\ Crops(Scenes[j]) \in Seq(Cut)
          BY <1>6
        <4>2. a \in DOMAIN Crops(Scenes[i]) /\ b \in DOMAIN Crops(Scenes[j])
          BY <1>2
        <4> QED BY <4>1, <4>2
      <3>4. c.start \in Nat /\ c.end \in Int /\ d.start \in Nat /\ d.end \in Int
        BY <3>3 DEF Cut
      <3>5. Scenes[i].end \in Nat /\ Scenes[j].start \in Nat
        BY <1>2 DEF Stretch, Scene
      <3> HIDE DEF c, d
      <3>6. c.end <= d.start
        BY <3>1, <3>2, <3>4, <3>5 DEF Inside
      <3>7. <<c, d>> \in Before
        BY <3>3, <3>6 DEF Before
      <3> QED BY <1>2, <3>7 DEF c, d
    <2>3. Apart(AllCrops, Before)
      BY <1>2, <2>2 DEF Apart
    <2> QED BY <1>2, <2>1, <2>3, FlatSorted
  <1> HIDE DEF all, S
  <1>8. out \in Seq(Cut) /\ Takes(out, all, S) /\ Sorted(out, Before)
    BY <1>1, <1>4, <1>7, ChosenMembers, ChosenSorted
  <1>9. ASSUME NEW k \in DOMAIN out
        PROVE  \E j \in DOMAIN Scenes : \E i \in DOMAIN Crops(Scenes[j]) :
                 /\ out[k] = Crops(Scenes[j])[i] /\ opt.min <= Length(out[k])
    <2>1. PICK l \in S \cap DOMAIN all : out[k] = all[l]
      BY <1>8 DEF Takes
    <2>2. PICK j \in DOMAIN AllCrops : \E i \in DOMAIN AllCrops[j] : all[l] = AllCrops[j][i]
      BY <1>4, <2>1 DEF Gathers
    <2>3. PICK i \in DOMAIN AllCrops[j] : all[l] = AllCrops[j][i]
      BY <2>2
    <2>4. Length(all[l]) >= opt.min
      BY <2>1 DEF S
    <2>5. all[l] \in Cut
      BY <1>4, <2>1
    <2>6. Length(all[l]) \in Int
      BY <2>5 DEF Cut, Length
    <2>7. j \in DOMAIN Scenes /\ i \in DOMAIN Crops(Scenes[j]) /\ out[k] = Crops(Scenes[j])[i]
      BY <1>2, <2>1, <2>2, <2>3
    <2>8. opt.min <= Length(out[k])
      BY <1>3, <2>1, <2>4, <2>6
    <2> QED BY <2>7, <2>8
  <1> HIDE DEF out
  <1>10. ASSUME NEW k \in DOMAIN out
         PROVE  /\ out[k] \in Interval /\ InScene(out[k])
                /\ opt.min <= Length(out[k]) /\ Length(out[k]) <= opt.max
    <2>1. PICK j \in DOMAIN Scenes : \E i \in DOMAIN Crops(Scenes[j]) :
                 /\ out[k] = Crops(Scenes[j])[i] /\ opt.min <= Length(out[k])
      BY <1>9
    <2>2. PICK i \in DOMAIN Crops(Scenes[j]) :
                 /\ out[k] = Crops(Scenes[j])[i] /\ opt.min <= Length(out[k])
      BY <2>1
    <2>3. Inside(out[k], Scenes[j]) /\ Length(out[k]) <= opt.max
      BY <1>2, <1>3, <2>2, CropsAre
    <2>4. out[k] \in Cut
      BY <1>8
    <2>5. out[k].start \in Nat /\ out[k].end \in Int /\ out[k] = Span(out[k].start, out[k].end)
      BY <2>4 DEF Cut, Span
    <2>6. out[k].start < out[k].end /\ out[k].end \in Nat
      BY <1>3, <2>2, <2>5 DEF Length
    <2>7. out[k] \in Interval
      BY <2>5, <2>6 DEF Interval, Span
    <2> QED BY <2>2, <2>3, <2>7 DEF InScene
  <1>11. out \in Seq(Interval)
    <2>1. PICK n \in Nat : n = Len(out) /\ out \in [1..n -> Cut]
      BY <1>8
    <2>2. out \in [1..n -> Interval]
      BY <1>10, <2>1
    <2> QED BY <2>2
  <1>12. ASSUME NEW j \in DOMAIN Scenes, NEW i \in DOMAIN Crops(Scenes[j]),
                Length(Crops(Scenes[j])[i]) >= opt.min
         PROVE  Kept(Crops(Scenes[j])[i])
    <2> DEFINE c == Crops(Scenes[j])[i]
    <2>1. PICK l \in DOMAIN all : all[l] = c
      BY <1>2, <1>4 DEF Gathers
    <2>2. c \in Cut
      <3>1. Crops(Scenes[j]) \in Seq(Cut)
        BY <1>6
      <3> QED BY <3>1
    <2>3. Length(c) > 0
      BY <1>3, <1>12, <2>2 DEF Cut, Length
    <2>4. l \in S
      BY <1>12, <2>1, <2>3 DEF S
    <2>5. PICK k \in DOMAIN out : out[k] = all[l]
      BY <1>8, <2>1, <2>4 DEF Takes
    <2> QED BY <2>1, <2>5 DEF Kept, out
  <1>13. ASSUME opt.mode # "stride" PROVE Sorted(out, OfScenes)
    <2>1. \A j \in DOMAIN Scenes : DOMAIN Crops(Scenes[j]) = {1}
      BY <1>2, <1>3, <1>13, ShortenedIs DEF Crops
    <2>2. \A j \in DOMAIN AllCrops : Sorted(AllCrops[j], OfScenes)
      BY <1>2, <2>1 DEF Sorted
    <2>3. ASSUME NEW i \in DOMAIN Scenes, NEW j \in DOMAIN Scenes, i < j,
                 NEW a \in DOMAIN AllCrops[i], NEW b \in DOMAIN AllCrops[j]
          PROVE  <<AllCrops[i][a], AllCrops[j][b]>> \in OfScenes
      <3>1. a = 1 /\ b = 1 /\ AllCrops[i] = Crops(Scenes[i]) /\ AllCrops[j] = Crops(Scenes[j])
        BY <1>2, <2>1
      <3>2. Crops(Scenes[i])[1] \in Cut /\ Crops(Scenes[j])[1] \in Cut
        <4>1. Crops(Scenes[i]) \in Seq(Cut) /\ Crops(Scenes[j]) \in Seq(Cut)
          BY <1>6
        <4>2. 1 \in DOMAIN Crops(Scenes[i]) /\ 1 \in DOMAIN Crops(Scenes[j])
          BY <2>1
        <4> QED BY <4>1, <4>2
      <3> QED BY <2>3, <3>1, <3>2 DEF OfScenes
    <2>4. Apart(AllCrops, OfScenes)
      BY <1>2, <2>3 DEF Apart
    <2>5. Sorted(all, OfScenes)
      BY <1>2, <2>2, <2>4, FlatSorted DEF all
    <2> QED BY <1>1, <1>4, <2>5, ChosenSorted
  <1> QED BY <1>8, <1>10, <1>11, <1>12, <1>13 DEF out

-----------------------------------------------------------------------------
(* What a shot loses. *)

\* A function has no more values than arguments.
LEMMA ImageBound ==
  ASSUME NEW S, IsFiniteSet(S), NEW T, NEW f \in [S -> T]
  PROVE  /\ IsFiniteSet({f[x] : x \in S})
         /\ Cardinality({f[x] : x \in S}) <= Cardinality(S)
  <1> DEFINE I == {f[x] : x \in S}
  <1>1. f \in Surjection(S, I)
    BY DEF Surjection
  <1> HIDE DEF I
  <1>2. IsFiniteSet(I) /\ Cardinality(I) <= Cardinality(S)
    BY <1>1, FS_Surjection
  <1> QED BY <1>2 DEF I

\* A union has no more members than its parts together.
LEMMA UnionBound ==
  ASSUME NEW S, IsFiniteSet(S), NEW T, IsFiniteSet(T)
  PROVE  IsFiniteSet(S \cup T) /\ Cardinality(S \cup T) <= Cardinality(S) + Cardinality(T)
  <1>1. /\ IsFiniteSet(S \cup T)
        /\ Cardinality(S \cup T) = Cardinality(S) + Cardinality(T) - Cardinality(S \cap T)
    BY FS_Union
  <1>2. IsFiniteSet(S \cap T)
    BY FS_Intersection
  <1>3. Cardinality(S \cap T) \in Nat /\ Cardinality(S) \in Nat /\ Cardinality(T) \in Nat
    BY <1>2, FS_CardinalityType
  <1> QED BY <1>1, <1>3

\* The clips of a sequence that are inside a shot, and the frames of it that they hold.
ClipsOf(cs, shot) == {i \in DOMAIN cs : Inside(cs[i], shot)}

CoveredBy(cs, shot) == {f \in shot.start..(shot.end - 1) :
                          \E i \in ClipsOf(cs, shot) : f \in cs[i].start..(cs[i].end - 1)}

\* Every piece of at least this length is a clip, cropped at both ends.
Fits(s, k, crop) == Length(Piece(s, k)) >= opt.min + 2 * crop

ClipOfPiece(cs, s, k, crop) ==
  \E i \in DOMAIN cs : cs[i] = Span(Piece(s, k).start + crop, Piece(s, k).end - crop)

\* There are at least as many clips of a shot as pieces that fit.
LEMMA FewFitting ==
  ASSUME opt \in Options, NEW s \in Stretch, NEW shot \in Scene, NEW crop \in Nat,
         NEW cs \in Seq(Interval), s.start = shot.start, s.end <= shot.end,
         \A k \in 1..Count(s) : Fits(s, k, crop) => ClipOfPiece(cs, s, k, crop)
  PROVE  LET fit == {k \in 1..Count(s) : Fits(s, k, crop)}
         IN /\ IsFiniteSet(fit) /\ IsFiniteSet(ClipsOf(cs, shot))
            /\ Cardinality(fit) <= Cardinality(ClipsOf(cs, shot))
  <1> DEFINE fit == {k \in 1..Count(s) : Fits(s, k, crop)}
             C == ClipsOf(cs, shot)
             Of(k, i) == cs[i] = Span(Piece(s, k).start + crop, Piece(s, k).end - crop)
             g == [k \in fit |-> CHOOSE i \in DOMAIN cs : Of(k, i)]
  <1>1. IsFiniteSet(C)
    <2>1. DOMAIN cs = 1..Len(cs) /\ Len(cs) \in Nat
      OBVIOUS
    <2>2. IsFiniteSet(1..Len(cs))
      BY <2>1, FS_Interval
    <2>3. C \subseteq 1..Len(cs)
      BY <2>1 DEF ClipsOf
    <2> QED BY <2>2, <2>3, FS_Subset
  <1>2. ASSUME NEW k \in fit PROVE g[k] \in DOMAIN cs /\ Of(k, g[k])
    <2>1. \E i \in DOMAIN cs : Of(k, i)
      BY <1>2 DEF ClipOfPiece
    <2> HIDE DEF Of
    <2> QED BY <2>1
  <1>3. ASSUME NEW k \in fit PROVE g[k] \in C
    <2>1. k \in 1..Count(s)
      OBVIOUS
    <2>2. /\ s.start <= Piece(s, k).start /\ Piece(s, k).end <= s.end /\ Piece(s, k) \in Scene
      BY <2>1, PieceBounds
    <2>3. /\ cs[g[k]].start = Piece(s, k).start + crop
          /\ cs[g[k]].end = Piece(s, k).end - crop
      BY <1>2, SpanFields
    <2>4. /\ s.start \in Nat /\ s.end \in Nat /\ shot.start \in Nat /\ shot.end \in Nat
          /\ Piece(s, k).start \in Nat /\ Piece(s, k).end \in Nat
      BY <2>2 DEF Stretch, Scene
    <2>5. Inside(cs[g[k]], shot)
      <3> DEFINE a == Piece(s, k).start
                 b == Piece(s, k).end
                 p == s.start
                 q == s.end
                 y == shot.end
      <3>1. /\ a \in Nat /\ b \in Nat /\ p \in Nat /\ q \in Nat /\ y \in Nat /\ crop \in Nat
            /\ p <= a /\ b <= q /\ q <= y
        BY <2>2, <2>4
      <3> HIDE DEF a, b, p, q, y
      <3>2. p <= a + crop /\ b - crop <= y
        BY <3>1
      <3> HIDE DEF g
      <3> QED BY <2>3, <3>2 DEF Inside, a, b, p, y
    <2> HIDE DEF g, fit
    <2> QED BY <1>2, <2>5 DEF ClipsOf
  <1>4. ASSUME NEW k \in fit, NEW l \in fit, g[k] = g[l] PROVE k = l
    <2>1. /\ Piece(s, k) \in Scene /\ Piece(s, l) \in Scene
          /\ Piece(s, k).start < Piece(s, k).end /\ Piece(s, l).start < Piece(s, l).end
          /\ k < l => Piece(s, k).end <= Piece(s, l).start
          /\ l < k => Piece(s, l).end <= Piece(s, k).start
          /\ k \in Int /\ l \in Int
      BY PieceBounds
    <2>2. cs[g[k]].start = Piece(s, k).start + crop /\ cs[g[l]].start = Piece(s, l).start + crop
      BY <1>2, SpanFields
    <2>3. /\ Piece(s, k).start \in Nat /\ Piece(s, k).end \in Nat
          /\ Piece(s, l).start \in Nat /\ Piece(s, l).end \in Nat
      BY <2>1 DEF Scene
    <2> HIDE DEF g, fit
    <2>4. Piece(s, k).start = Piece(s, l).start
      BY <1>4, <2>2, <2>3
    <2> QED BY <2>1, <2>3, <2>4
  <1> HIDE DEF fit, C
  <1>5. g \in Injection(fit, C)
    <2>1. g \in [fit -> C]
      BY <1>3
    <2> HIDE DEF g
    <2> QED BY <1>4, <2>1 DEF Injection, IsInjective
  <1>6. IsFiniteSet(fit) /\ Cardinality(fit) <= Cardinality(C)
    <2> HIDE DEF g
    <2> QED BY <1>1, <1>5, FS_Injection
  <1> QED BY <1>1, <1>6 DEF fit, C

\* A shot loses no more than the crops of its clips, an end that is too short and e frames.
LEMMA Coverage ==
  ASSUME opt \in Options, NEW s \in Stretch, NEW shot \in Scene, NEW crop \in Nat, crop <= Crop,
         NEW cs \in Seq(Interval), NEW e \in {0, 1}, s.start = shot.start, shot.end = s.end + e,
         opt.max >= opt.min + 2 * Crop,
         \A k \in 1..Count(s) : Fits(s, k, crop) => ClipOfPiece(cs, s, k, crop)
  PROVE  Length(shot) - Cardinality(CoveredBy(cs, shot))
           <= 2 * Crop * Cardinality(ClipsOf(cs, shot)) + opt.min - 1 + 2 * Crop + e
  <1> DEFINE K == Count(s)
             fit == {k \in 1..K : Fits(s, k, crop)}
             C == ClipsOf(cs, shot)
             X == fit \X (0..(crop - 1))
             fa == [p \in X |-> Piece(s, p[1]).start + p[2]]
             fb == [p \in X |-> Piece(s, p[1]).end - 1 - p[2]]
             A == {fa[p] : p \in X}
             B == {fb[p] : p \in X}
             R == IF K > 0 /\ ~Fits(s, K, crop) THEN Piece(s, K).start..(Piece(s, K).end - 1) ELSE {}
             E == IF e = 1 THEN {s.end} ELSE {}
             All == shot.start..(shot.end - 1)
             covered == CoveredBy(cs, shot)
             lost == All \ covered
  <1>1. /\ s.start \in Nat /\ s.end \in Nat /\ s.start <= s.end /\ shot.start \in Nat /\ shot.end \in Nat
        /\ opt.min \in Nat \ {0} /\ opt.max \in Nat \ {0} /\ Crop \in Nat /\ K \in Nat
        /\ s.end <= shot.end
    <2>1. Crop \in Nat
      BY DEF Options, Crop, Most, NoCrop
    <2>2. K \in Nat
      BY PieceBounds
    <2>3. s.start \in Nat /\ s.end \in Nat /\ s.start <= s.end /\ shot.start \in Nat /\ shot.end \in Nat
      BY DEF Stretch, Scene
    <2>4. opt.min \in Nat \ {0} /\ opt.max \in Nat \ {0}
      BY DEF Options
    <2>5. s.end <= shot.end
      BY <2>3
    <2> QED BY <2>1, <2>2, <2>3, <2>4, <2>5
  <1>2. IsFiniteSet(fit) /\ IsFiniteSet(C) /\ Cardinality(fit) <= Cardinality(C)
    BY <1>1, FewFitting
  <1>3. \A k \in 1..K : /\ Piece(s, k) \in Scene /\ Piece(s, k).start \in Nat /\ Piece(s, k).end \in Nat
                        /\ Piece(s, k).start < Piece(s, k).end /\ Piece(s, k).end <= s.end
                        /\ Length(Piece(s, k)) = Piece(s, k).end - Piece(s, k).start
    BY PieceBounds DEF Scene, Length
  <1>4. \A k \in 1..K : k < K => Fits(s, k, crop)
    <2>1. \A k \in 1..K : k < K => Length(Piece(s, k)) = opt.max
      BY PieceBounds
    <2> QED BY <1>1, <2>1 DEF Fits
  <1> HIDE DEF K
  <1>5. lost \subseteq ((A \cup B) \cup R) \cup E
    <2> SUFFICES ASSUME NEW f \in lost, f \notin R, f \notin E PROVE f \in A \cup B
      OBVIOUS
    <2>1. f \in s.start..(s.end - 1) /\ f \in All /\ f \notin covered
      BY <1>1
    <2>2. PICK k \in 1..K : f \in Piece(s, k).start..(Piece(s, k).end - 1)
      BY <2>1, PieceOf DEF K
    <2>3. k \in fit
      <3>1. CASE k < K
        BY <1>4, <3>1
      <3>2. CASE k = K
        BY <1>1, <2>2, <3>2
      <3> QED BY <1>1, <3>1, <3>2
    <2> DEFINE a == Piece(s, k).start
               b == Piece(s, k).end
    <2>4. PICK i \in DOMAIN cs : cs[i] = Span(a + crop, b - crop)
      BY <2>3 DEF ClipOfPiece, K
    <2>5. cs[i].start = a + crop /\ cs[i].end = b - crop
      BY <2>4, SpanFields
    <2>6. a \in Nat /\ b \in Nat /\ b <= s.end /\ s.start <= a
      BY <1>3, PieceBounds DEF K
    <2>12. f \in Int /\ a <= f /\ f < b
      BY <2>2, <2>6
    <2>7. i \in C
      <3>1. Inside(cs[i], shot)
        <4> HIDE DEF a, b
        <4>1. shot.start <= a + crop /\ b - crop <= shot.end
          <5>1. /\ shot.start \in Nat /\ shot.end \in Nat /\ s.end \in Nat /\ s.end <= shot.end
                /\ shot.start <= a /\ b <= s.end /\ a \in Nat /\ b \in Nat /\ crop \in Nat
            BY <1>1, <2>6
          <5> DEFINE x == shot.start
                     y == shot.end
                     z == s.end
          <5> HIDE DEF x, y, z
          <5>2. /\ x \in Nat /\ y \in Nat /\ z \in Nat /\ z <= y /\ x <= a /\ b <= z
                /\ a \in Nat /\ b \in Nat /\ crop \in Nat
            BY <5>1, Zenon DEF x, y, z
          <5>3. x <= a + crop /\ b - crop <= y
            BY <5>2
          <5> QED BY <5>3 DEF x, y
        <4> QED BY <2>5, <4>1 DEF Inside
      <3> QED BY <3>1 DEF ClipsOf
    <2>8. f \notin cs[i].start..(cs[i].end - 1)
      BY <2>1, <2>7 DEF CoveredBy
    <2>9. f < a + crop \/ f >= b - crop
      <3>1. f \notin (a + crop)..((b - crop) - 1)
        BY <2>5, <2>8, Zenon
      <3> HIDE DEF a, b
      <3> QED BY <2>6, <2>12, <3>1
    <2>10. CASE f < a + crop
      <3>1. f - a \in 0..(crop - 1) /\ f = a + (f - a)
        <4> HIDE DEF a, b
        <4> QED BY <2>6, <2>10, <2>12
      <3>2. <<k, f - a>> \in X
        BY <2>3, <3>1
      <3>3. fa[<<k, f - a>>] = a + (f - a)
        BY <3>2
      <3> QED BY <3>1, <3>2, <3>3
    <2>11. CASE f >= b - crop
      <3> DEFINE d == b - 1 - f
      <3>1. d \in 0..(crop - 1) /\ f = b - 1 - d
        <4> HIDE DEF a, b
        <4> QED BY <2>6, <2>11, <2>12
      <3>2. <<k, d>> \in X
        BY <2>3, <3>1
      <3>3. fb[<<k, d>>] = b - 1 - d
        BY <3>2
      <3> QED BY <3>1, <3>2, <3>3
    <2> QED BY <2>9, <2>10, <2>11
  <1>6. IsFiniteSet(X) /\ Cardinality(X) = Cardinality(fit) * crop
    <2>1. IsFiniteSet(0..(crop - 1)) /\ Cardinality(0..(crop - 1)) = crop
      <3>1. 0 \in Int /\ crop - 1 \in Int
        OBVIOUS
      <3>2. /\ IsFiniteSet(0..(crop - 1))
            /\ Cardinality(0..(crop - 1)) = IF 0 > crop - 1 THEN 0 ELSE (crop - 1) - 0 + 1
        BY <3>1, FS_Interval
      <3> QED BY <3>2
    <2> HIDE DEF fit
    <2> QED BY <1>2, <2>1, FS_Product
  <1>7. \A p \in X : p[1] \in 1..K /\ p[2] \in Nat
    OBVIOUS
  <1> HIDE DEF X, fit
  <1>8. IsFiniteSet(A) /\ Cardinality(A) <= Cardinality(X)
    <2>1. fa \in [X -> Int]
      BY <1>3, <1>7
    <2> HIDE DEF fa
    <2> QED BY <1>6, <2>1, ImageBound
  <1>9. IsFiniteSet(B) /\ Cardinality(B) <= Cardinality(X)
    <2>1. fb \in [X -> Int]
      BY <1>3, <1>7
    <2> HIDE DEF fb
    <2> QED BY <1>6, <2>1, ImageBound
  <1>10. IsFiniteSet(R) /\ Cardinality(R) <= opt.min + 2 * crop - 1
    <2>1. CASE K > 0 /\ ~Fits(s, K, crop)
      <3> DEFINE a == Piece(s, K).start
                 b == Piece(s, K).end
      <3>1. a \in Nat /\ b \in Nat /\ a < b /\ b - a < opt.min + 2 * crop
        <4>1. K \in 1..K
          BY <1>1, <2>1
        <4>2. a \in Nat /\ b \in Nat /\ a < b /\ Length(Piece(s, K)) = b - a
          BY <1>3, <4>1
        <4>3. ~(b - a >= opt.min + 2 * crop)
          BY <2>1, <4>2 DEF Fits
        <4>4. opt.min + 2 * crop \in Int
          BY <1>1
        <4> DEFINE v == opt.min + 2 * crop
        <4> HIDE DEF a, b, v
        <4>5. b - a < v
          BY <4>2, <4>3, <4>4 DEF v
        <4> QED BY <4>2, <4>5 DEF v
      <3> HIDE DEF a, b
      <3>2. IsFiniteSet(a..(b - 1)) /\ Cardinality(a..(b - 1)) = (b - 1) - a + 1
        <4>1. a \in Int /\ b - 1 \in Int /\ ~(a > b - 1)
          BY <3>1
        <4> QED BY <4>1, FS_Interval
      <3>3. R = a..(b - 1)
        BY <2>1 DEF a, b
      <3> DEFINE l == opt.min
      <3>4. l \in Nat /\ b - a < l + 2 * crop
        BY <1>1, <3>1
      <3> HIDE DEF l
      <3>5. (b - 1) - a + 1 <= l + 2 * crop - 1
        BY <3>1, <3>4
      <3> HIDE DEF R
      <3> QED BY <3>2, <3>3, <3>5 DEF l
    <2>2. CASE ~(K > 0 /\ ~Fits(s, K, crop))
      <3>1. R = {} /\ IsFiniteSet({}) /\ Cardinality({}) = 0
        BY <2>2, FS_EmptySet
      <3>2. 0 <= opt.min + 2 * crop - 1
        BY <1>1
      <3> HIDE DEF R
      <3> QED BY <3>1, <3>2
    <2> QED BY <2>1, <2>2
  <1>11. IsFiniteSet(E) /\ Cardinality(E) = e
    BY FS_EmptySet, FS_Singleton
  <1> HIDE DEF A, B, R, E
  <1>12. /\ IsFiniteSet(((A \cup B) \cup R) \cup E)
         /\ Cardinality(((A \cup B) \cup R) \cup E)
              <= Cardinality(A) + Cardinality(B) + Cardinality(R) + Cardinality(E)
    <2>1. IsFiniteSet(A \cup B) /\ Cardinality(A \cup B) <= Cardinality(A) + Cardinality(B)
      BY <1>8, <1>9, UnionBound
    <2>2. /\ IsFiniteSet((A \cup B) \cup R)
          /\ Cardinality((A \cup B) \cup R) <= Cardinality(A \cup B) + Cardinality(R)
      BY <1>10, <2>1, UnionBound
    <2>3. /\ IsFiniteSet(((A \cup B) \cup R) \cup E)
          /\ Cardinality(((A \cup B) \cup R) \cup E) <= Cardinality((A \cup B) \cup R) + Cardinality(E)
      BY <1>11, <2>2, UnionBound
    <2>4. /\ Cardinality(A) \in Nat /\ Cardinality(B) \in Nat /\ Cardinality(R) \in Nat
          /\ Cardinality(E) \in Nat /\ Cardinality(A \cup B) \in Nat
          /\ Cardinality((A \cup B) \cup R) \in Nat /\ Cardinality(((A \cup B) \cup R) \cup E) \in Nat
      BY <1>8, <1>9, <1>10, <1>11, <2>1, <2>2, <2>3, FS_CardinalityType
    <2> QED BY <2>1, <2>2, <2>3, <2>4
  <1>13. IsFiniteSet(All) /\ Cardinality(All) = Length(shot)
    <2>1. /\ IsFiniteSet(All)
          /\ Cardinality(All) = IF shot.start > shot.end - 1 THEN 0 ELSE (shot.end - 1) - shot.start + 1
      <3>1. shot.start \in Int /\ shot.end - 1 \in Int
        BY <1>1
      <3> QED BY <3>1, FS_Interval
    <2>2. shot.start \in Nat /\ shot.end \in Nat /\ shot.start <= shot.end
      BY <1>1
    <2> HIDE DEF All
    <2> QED BY <2>1, <2>2 DEF Length
  <1>14. /\ IsFiniteSet(lost) /\ Cardinality(lost) = Length(shot) - Cardinality(covered)
         /\ Cardinality(covered) \in Nat /\ Length(shot) \in Nat
    <2>1. covered \subseteq All
      BY DEF CoveredBy
    <2>2. All \cap covered = covered
      BY <2>1
    <2>3. IsFiniteSet(covered)
      BY <1>13, <2>1, FS_Subset
    <2> HIDE DEF All, covered
    <2>4. IsFiniteSet(All \ covered) /\ Cardinality(All \ covered) = Cardinality(All) - Cardinality(All \cap covered)
      BY <1>13, FS_Difference
    <2>5. Cardinality(covered) \in Nat /\ Cardinality(All) \in Nat
      BY <1>13, <2>3, FS_CardinalityType
    <2> QED BY <1>13, <2>2, <2>4, <2>5
  <1> HIDE DEF lost, covered, All, C
  <1>15. Cardinality(lost) <= Cardinality(((A \cup B) \cup R) \cup E)
    BY <1>5, <1>12, FS_Subset
  <1>16. /\ Cardinality(A) \in Nat /\ Cardinality(B) \in Nat /\ Cardinality(R) \in Nat
         /\ Cardinality(E) \in Nat /\ Cardinality(fit) \in Nat /\ Cardinality(C) \in Nat
         /\ Cardinality(X) \in Nat /\ Cardinality(lost) \in Nat
         /\ Cardinality(((A \cup B) \cup R) \cup E) \in Nat
    BY <1>2, <1>6, <1>8, <1>9, <1>10, <1>11, <1>12, <1>14, FS_CardinalityType
  <1> DEFINE n == Cardinality(fit)
             c == Cardinality(C)
  <1>17. n * crop <= c * Crop /\ n * crop \in Nat /\ c * Crop \in Nat
    <2>1. n \in Nat /\ c \in Nat /\ n <= c
      BY <1>2, <1>16
    <2> HIDE DEF n, c
    <2>2. n * crop <= c * crop
      BY <2>1, Grows
    <2>3. crop * c <= Crop * c
      BY <1>1, <2>1, Grows
    <2>4. c * crop = crop * c /\ c * Crop = Crop * c
      BY <1>1, <2>1
    <2>5. n * crop \in Nat /\ c * Crop \in Nat /\ crop * c \in Nat
      BY <1>1, <2>1
    <2> QED BY <2>2, <2>3, <2>4, <2>5
  <1>18. 2 * Crop * c = 2 * (c * Crop)
    BY <1>1, <1>16
  <1>19. Cardinality(X) = n * crop
    BY <1>6
  <1> DEFINE ll == Cardinality(lost)
             xx == Cardinality(X)
             mm == n * crop
             cc == c * Crop
  <1>20. ll <= 2 * cc + opt.min - 1 + 2 * Crop + e
    <2>1. ll <= Cardinality(A) + Cardinality(B) + Cardinality(R) + Cardinality(E)
      BY <1>12, <1>15, <1>16
    <2>2. ll <= xx + xx + (opt.min + 2 * crop - 1) + e
      <3> DEFINE aa == Cardinality(A)
                 bb == Cardinality(B)
                 rr == Cardinality(R)
                 q == opt.min + 2 * crop - 1
      <3>1. /\ aa \in Nat /\ bb \in Nat /\ rr \in Nat /\ ll \in Nat /\ xx \in Nat /\ e \in Nat
            /\ aa <= xx /\ bb <= xx /\ rr <= q /\ Cardinality(E) = e /\ q \in Int
        <4>1. q \in Int /\ e \in Nat
          BY <1>1
        <4> QED BY <1>8, <1>9, <1>10, <1>11, <1>16, <4>1
      <3>2. ll <= aa + bb + rr + e
        BY <2>1, <3>1
      <3> HIDE DEF aa, bb, rr, ll, xx, q
      <3>3. ll <= xx + xx + q + e
        BY <3>1, <3>2
      <3> QED BY <3>3 DEF q
    <2>3. xx = mm /\ mm <= cc /\ mm \in Nat /\ cc \in Nat /\ ll \in Nat /\ xx \in Nat /\ e \in Int
      BY <1>16, <1>17, <1>19
    <2>4. crop <= Crop /\ crop \in Nat /\ Crop \in Nat /\ opt.min \in Nat
      BY <1>1
    <2> DEFINE low == opt.min
    <2>5. low \in Nat /\ ll <= xx + xx + (low + 2 * crop - 1) + e
      BY <2>2, <2>4
    <2> HIDE DEF ll, xx, mm, cc, low
    <2>6. ll <= 2 * cc + low - 1 + 2 * Crop + e
      BY <2>3, <2>4, <2>5
    <2> QED BY <2>6 DEF low
  <1>21. Length(shot) - Cardinality(covered) <= 2 * Crop * c + opt.min - 1 + 2 * Crop + e
    BY <1>14, <1>18, <1>20
  <1> QED BY <1>21 DEF covered, C

-----------------------------------------------------------------------------
(* Clips. *)

Whole == Span(0, video.frames)

\* ShotsBecomeClips of a sequence of clips.
Used(cs, s) ==
  IF opt.detect /\ opt.mode = "truncate"
  THEN Length(s) > opt.min + 2 * Crop => Cardinality(ClipsOf(cs, s)) = 1
  ELSE Length(s) - Cardinality(CoveredBy(cs, s))
         <= 2 * Crop * Cardinality(ClipsOf(cs, s)) + opt.min - 1 + 2 * Crop
            + (IF opt.detect /\ s.end = video.frames THEN 1 ELSE 0)

FullUse(cs) == opt.max >= opt.min + 2 * Crop /\ (HasShots \/ ~opt.detect) => \A s \in Shots : Used(cs, s)

Wanted(c) ==
  /\ opt.min <= Length(c) /\ Length(c) <= opt.max
  /\ (opt.detect /\ ~HasShots /\ opt.whole) \/ \E s \in Shots : Inside(c, s)

GoodClips(cs) == /\ cs \in Seq(Interval) /\ Sorted(cs, Before)
                 /\ \A i \in DOMAIN cs : Wanted(cs[i])

\* Being inside is transitive.
LEMMA InsideInside ==
  ASSUME NEW c \in Scene, NEW s \in Scene, NEW shot \in Scene, Inside(c, s), Inside(s, shot)
  PROVE  Inside(c, shot)
  <1>1. /\ c.start \in Nat /\ c.end \in Nat /\ s.start \in Nat /\ s.end \in Nat
        /\ shot.start \in Nat /\ shot.end \in Nat
    BY DEF Scene
  <1> QED BY <1>1 DEF Inside

\* The clips of the shots follow each other, have their lengths and stay in one shot.
LEMMA DetectedAreGood ==
  ASSUME InputsInv, opt.detect, video.frames > 0
  PROVE  GoodClips(FilteredScenes)
  <1> DEFINE out == FilteredScenes
  <1>1. /\ out \in Seq(Interval) /\ Sorted(out, Before)
        /\ \A k \in DOMAIN out : /\ opt.min <= Length(out[k]) /\ Length(out[k]) <= opt.max
                                 /\ InScene(out[k])
    BY FilteredAre
  <1> HIDE DEF out
  <1>2. ASSUME NEW k \in DOMAIN out PROVE Wanted(out[k])
    <2>1. PICK j \in DOMAIN Scenes : Inside(out[k], Scenes[j])
      BY <1>1 DEF InScene
    <2>2. CASE HasShots
      <3>1. PICK shot \in Shots : OfShot(Scenes[j], shot)
        BY <2>1, <2>2, ScenesAreShots
      <3>2. Scenes[j] \in Scene
        <4>1. Scenes \in Seq(Stretch)
          BY ScenesAreShots
        <4> QED BY <4>1, SceneIsCut
      <3>3. shot \in Scene
        BY ShotsAre
      <3>4. out[k] \in Scene
        BY <1>1, SceneIsCut
      <3>5. Inside(out[k], shot)
        BY <2>1, <3>1, <3>2, <3>3, <3>4, OfShotInside, InsideInside
      <3> QED BY <1>1, <3>5 DEF Wanted
    <2>3. CASE ~HasShots
      <3>1. Scenes = IF opt.whole THEN <<Span(0, video.frames)>> ELSE <<>>
        BY <2>3, ScenesAreShots
      <3>2. opt.whole
        BY <2>1, <3>1
      <3> QED BY <1>1, <2>3, <3>2 DEF Wanted
    <2> QED BY <2>2, <2>3
  <1> QED BY <1>1, <1>2 DEF GoodClips, out

\* Pieces that leave room for the crop become clips.
LEMMA DetectedPieces ==
  ASSUME InputsInv, opt.detect, video.frames > 0, opt.mode = "stride", NEW j \in DOMAIN Scenes,
         NEW k \in 1..Count(Scenes[j]), Fits(Scenes[j], k, Crop)
  PROVE  ClipOfPiece(FilteredScenes, Scenes[j], k, Crop)
  <1> DEFINE s == Scenes[j]
             p == Piece(s, k)
  <1>1. s \in Stretch
    <2>1. Scenes \in Seq(Stretch)
      BY ScenesAreShots
    <2> QED BY <2>1
  <1>2. opt \in Options /\ opt.min \in Nat \ {0}
    BY DEF InputsInv, Options
  <1>3. p \in Scene
    BY <1>1, <1>2, PieceBounds
  <1>4. /\ Crop \in Nat /\ Length(Cropped(p)) = Length(p) - 2 * Crop
        /\ Cropped(p) = Span(p.start + Crop, p.end - Crop)
    BY <1>2, <1>3, CroppedIs
  <1>5. Length(p) \in Int /\ Length(p) >= opt.min + 2 * Crop
    BY <1>3 DEF Scene, Length, Fits
  <1> HIDE DEF s, p
  <1>6. PICK i \in DOMAIN Pieces(s) : Pieces(s)[i] = p
    <2>1. Length(p) >= opt.min
      BY <1>2, <1>4, <1>5
    <2>2. \A l \in 1..Count(s) : l < Count(s) \/ Length(Piece(s, l)) >= opt.min =>
              \E i \in DOMAIN Pieces(s) : Pieces(s)[i] = Piece(s, l)
      BY <1>1, <1>2, PiecesAre
    <2> QED BY <2>1, <2>2 DEF p, s
  <1>7. i \in DOMAIN Crops(s) /\ Crops(s)[i] = Cropped(p)
    BY <1>6 DEF Crops, Shortened
  <1>8. Length(Crops(s)[i]) >= opt.min
    BY <1>2, <1>4, <1>5, <1>7
  <1>9. Kept(Crops(s)[i])
    BY <1>7, <1>8, FilteredAre DEF s
  <1>10. PICK l \in DOMAIN FilteredScenes : FilteredScenes[l] = Cropped(p)
    BY <1>7, <1>9 DEF Kept
  <1> QED BY <1>4, <1>10 DEF ClipOfPiece, p, s

\* In truncate mode two clips inside one shot are one.
LEMMA OneTruncated ==
  ASSUME InputsInv, opt.detect, video.frames > 0, opt.mode # "stride", HasShots, NEW shot \in Shots,
         NEW k \in DOMAIN FilteredScenes, NEW l \in DOMAIN FilteredScenes, k < l
  PROVE  ~(Inside(FilteredScenes[k], shot) /\ Inside(FilteredScenes[l], shot))
  <1> DEFINE out == FilteredScenes
  <1>1. out \in Seq(Interval) /\ Sorted(out, OfScenes)
    BY FilteredAre
  <1> HIDE DEF out
  <1>2. out[k] \in Interval /\ out[l] \in Interval
    BY <1>1 DEF out
  <1>3. <<out[k], out[l]>> \in OfScenes
    BY <1>1 DEF Sorted, out
  <1>4. PICK i \in DOMAIN Scenes, j \in DOMAIN Scenes :
               i < j /\ <<out[k], out[l]>> = <<Crops(Scenes[i])[1], Crops(Scenes[j])[1]>>
    BY <1>3 DEF OfScenes
  <1> DEFINE s == Scenes[i]
             t == Scenes[j]
             c == out[k]
             d == out[l]
  <1>5. Scenes \in Seq(Stretch)
    BY ScenesAreShots
  <1>6. s \in Stretch /\ t \in Stretch /\ s.end <= t.start
    BY <1>4, <1>5, ScenesAreShots DEF InOrder
  <1>7. Inside(c, s) /\ Inside(d, t)
    <2>1. opt \in Options
      BY DEF InputsInv
    <2>2. 1 \in DOMAIN Crops(s) /\ 1 \in DOMAIN Crops(t)
      BY <1>6, <2>1, ShortenedIs DEF Crops
    <2>3. c = Crops(s)[1] /\ d = Crops(t)[1]
      BY <1>4
    <2> HIDE DEF s, t, c, d
    <2> QED BY <1>6, <2>1, <2>2, <2>3, CropsAre
  <1>8. PICK u \in Shots : OfShot(t, u)
    BY ScenesAreShots
  <1>9. /\ c.start \in Nat /\ c.end \in Nat /\ c.start < c.end
        /\ d.start \in Nat /\ d.end \in Nat /\ d.start < d.end
        /\ s.start \in Nat /\ s.end \in Nat /\ t.start \in Nat /\ t.end \in Nat
    BY <1>2, <1>6 DEF Interval, Stretch, Scene
  <1>10. /\ shot \in Scene /\ Run(shot.start, shot.end)
         /\ u \in Scene /\ Run(u.start, u.end) /\ u.start < u.end
         /\ shot.start \in Nat /\ shot.end \in Nat /\ u.start \in Nat /\ u.end \in Nat
    BY ShotsAre DEF Scene
  <1>11. ASSUME Inside(c, shot), Inside(d, shot) PROVE FALSE
    <2>1. shot.start <= c.start /\ d.end <= shot.end /\ c.end <= s.end /\ t.start <= d.start
      BY <1>7, <1>11 DEF Inside
    <2>2. u.start = t.start /\ t.start < shot.end /\ shot.start < t.start
      BY <1>6, <1>8, <1>9, <1>10, <2>1 DEF OfShot
    <2>3. u.start # 0 /\ u.start - 1 \in shot.start..(shot.end - 1)
      BY <1>10, <2>2
    <2> QED BY <1>10, <2>3 DEF Run
  <1> QED BY <1>11 DEF out

\* The clips of the shots leave out no more of a shot than they may.
LEMMA DetectedAreUsed ==
  ASSUME InputsInv, opt.detect, video.frames > 0
  PROVE  FullUse(FilteredScenes)
  <1> DEFINE out == FilteredScenes
  <1> SUFFICES ASSUME opt.max >= opt.min + 2 * Crop, HasShots, NEW shot \in Shots
               PROVE  Used(out, shot)
    BY DEF FullUse
  <1>1. PICK j \in DOMAIN Scenes : OfShot(Scenes[j], shot)
    BY ScenesAreShots
  <1> DEFINE s == Scenes[j]
  <1>2. s \in Stretch
    <2>1. Scenes \in Seq(Stretch)
      BY ScenesAreShots
    <2> QED BY <2>1
  <1>3. shot \in Scene /\ s \in Scene
    BY <1>2, ShotsAre, SceneIsCut
  <1>4. /\ s.start \in Nat /\ s.end \in Nat /\ shot.start \in Nat /\ shot.end \in Nat /\ video.frames \in Nat
        /\ s.start <= s.end
    BY <1>2, <1>3 DEF Stretch, Scene, InputsInv, Videos
  <1>5. opt \in Options /\ opt.min \in Nat \ {0} /\ opt.max \in Nat
    BY DEF InputsInv, Options
  <1>6. out \in Seq(Interval)
    BY FilteredAre
  <1>7. Crop \in Nat
    BY <1>5 DEF Options, Crop, Most, NoCrop
  <1>8. CASE opt.mode = "stride"
    <2> DEFINE e == IF s.end = shot.end THEN 0 ELSE 1
               C == Cardinality(ClipsOf(out, shot))
               V == Length(shot) - Cardinality(CoveredBy(out, shot))
    <2>1. e \in {0, 1} /\ s.start = shot.start /\ shot.end = s.end + e
          /\ (e = 1 => shot.end = video.frames)
      BY <1>1, <1>4 DEF OfShot
    <2>2. \A k \in 1..Count(s) : Fits(s, k, Crop) => ClipOfPiece(out, s, k, Crop)
      BY <1>8, DetectedPieces
    <2>3. Crop <= Crop
      BY <1>7
    <2> HIDE DEF e, s, out
    <2>4. V <= 2 * Crop * C + opt.min - 1 + 2 * Crop + e
      BY <1>2, <1>3, <1>5, <1>6, <1>7, <2>1, <2>2, <2>3, Coverage
    <2>5. V <= 2 * Crop * C + opt.min - 1 + 2 * Crop + (IF opt.detect /\ shot.end = video.frames THEN 1 ELSE 0)
      <3>1. CASE shot.end = video.frames
        <4> DEFINE g == 2 * Crop * C + opt.min - 1 + 2 * Crop
        <4>1. V \in Int /\ g \in Int
          <5>1. IsFiniteSet(ClipsOf(out, shot))
            <6>1. s.end <= shot.end
              BY <1>4, <2>1
            <6> QED BY <1>2, <1>3, <1>5, <1>6, <1>7, <2>1, <2>2, <6>1, FewFitting
          <5>2. C \in Nat
            BY <5>1, FS_CardinalityType
          <5>3. IsFiniteSet(CoveredBy(out, shot))
            <6>1. IsFiniteSet(shot.start..(shot.end - 1))
              <7>1. shot.start \in Int /\ shot.end - 1 \in Int
                BY <1>4
              <7> QED BY <7>1, FS_Interval
            <6>2. CoveredBy(out, shot) \subseteq shot.start..(shot.end - 1)
              BY DEF CoveredBy
            <6> QED BY <6>1, <6>2, FS_Subset
          <5>4. Cardinality(CoveredBy(out, shot)) \in Nat
            BY <5>3, FS_CardinalityType
          <5>5. Length(shot) \in Int
            BY <1>4 DEF Length
          <5> HIDE DEF C
          <5> QED BY <1>5, <1>7, <5>2, <5>4, <5>5
        <4>2. V <= g + e
          BY <2>4
        <4> HIDE DEF V, g
        <4>3. V <= g + 1
          BY <2>1, <4>1, <4>2
        <4> QED BY <3>1, <4>3 DEF g
      <3>2. CASE shot.end # video.frames
        <4>1. e = 0
          BY <2>1, <3>2
        <4> QED BY <2>4, <3>2, <4>1
      <3> QED BY <3>1, <3>2
    <2> QED BY <1>8, <2>5 DEF Used, out
  <1>9. CASE opt.mode # "stride"
    <2>1. opt.mode = "truncate"
      BY <1>5, <1>9 DEF Options
    <2> SUFFICES ASSUME Length(shot) > opt.min + 2 * Crop
                 PROVE  Cardinality(ClipsOf(out, shot)) = 1
      BY <2>1 DEF Used
    <2> DEFINE p == Span(s.start, Least(s.start + opt.max, s.end))
    <2>2. s.start = shot.start /\ s.end >= shot.end - 1
      BY <1>1, <1>4 DEF OfShot
    <2>3. s.end - s.start >= opt.min + 2 * Crop
      BY <1>4, <1>5, <1>7, <2>2 DEF Length
    <2>4. Shortened(s) = <<p>>
      BY <1>9, Zenon DEF Shortened
    <2>5. p.start = s.start /\ p.end = Least(s.start + opt.max, s.end)
      BY SpanFields
    <2>6. p \in Scene
      BY <1>4, <1>5 DEF Span, Scene, Least
    <2>7. Length(p) >= opt.min + 2 * Crop /\ Length(p) \in Int
      BY <1>4, <1>5, <1>7, <2>3, <2>5 DEF Least, Length
    <2>8. Crops(s) = <<Cropped(p)>>
      <3> HIDE DEF p, s
      <3> QED BY <2>4 DEF Crops
    <2> HIDE DEF p, s
    <2>9. Length(Cropped(p)) >= opt.min
      BY <1>5, <1>7, <2>6, <2>7, CroppedIs
    <2>10. 1 \in DOMAIN Crops(s) /\ Crops(s)[1] = Cropped(p)
      BY <2>8
    <2>11. Kept(Crops(s)[1])
      BY <2>9, <2>10, FilteredAre DEF s
    <2>12. PICK k \in DOMAIN out : out[k] = Crops(s)[1]
      BY <2>11 DEF Kept
    <2>13. Inside(out[k], s)
      BY <1>2, <1>5, <2>10, <2>12, CropsAre
    <2>14. out[k] \in Scene
      BY <1>6, SceneIsCut
    <2>15. Inside(out[k], shot)
      BY <1>1, <1>3, <2>13, <2>14, OfShotInside, InsideInside DEF s
    <2>16. k \in ClipsOf(out, shot)
      BY <2>15 DEF ClipsOf
    <2>17. ASSUME NEW l \in ClipsOf(out, shot) PROVE l = k
      <3>1. l \in DOMAIN out /\ Inside(out[l], shot)
        BY DEF ClipsOf
      <3>2. ~(k < l) /\ ~(l < k)
        BY <1>9, <2>15, <3>1, OneTruncated
      <3>3. k \in Int /\ l \in Int
        <4>1. DOMAIN out = 1..Len(out)
          BY <1>6
        <4> HIDE DEF out
        <4> QED BY <3>1, <4>1
      <3> QED BY <3>2, <3>3
    <2> QED BY <2>16, <2>17, OneMember
  <1> QED BY <1>8, <1>9

\* The clips by stride are as good, and leave out no more.
LEMMA StridesAre ==
  ASSUME InputsInv, ~opt.detect, video.frames > 0
  PROVE  GoodClips(Strides) /\ FullUse(Strides)
  <1> DEFINE F == video.frames
             s == Whole
             K == Count(s)
             cut == [k \in 1..Ceiling(F, opt.max) |-> Span((k - 1) * opt.max, Least(k * opt.max, F))]
             S == {k \in DOMAIN cut : Length(cut[k]) >= opt.min}
             out == Strides
  <1>1. /\ opt \in Options /\ opt.min \in Nat \ {0} /\ opt.max \in Nat \ {0} /\ F \in Nat
    BY DEF InputsInv, Options, Videos
  <1>2. s \in Stretch /\ s \in Scene /\ s.start = 0 /\ s.end = F
    BY <1>1 DEF Whole, Span, Stretch, Scene
  <1>3. Shots = {s}
    BY DEF Shots, Whole
  <1>4. Length(s) = F
    BY <1>1, <1>2 DEF Length
  <1>5. ASSUME NEW k \in Int PROVE Span((k - 1) * opt.max, Least(k * opt.max, F)) = Piece(s, k)
    <2>1. 0 + (k - 1) * opt.max = (k - 1) * opt.max /\ 0 + k * opt.max = k * opt.max
      BY <1>1
    <2> HIDE DEF s
    <2> QED BY <1>2, <2>1, Zenon DEF Piece
  <1>6. out = Chosen(cut, S)
    BY Zenon DEF Strides
  <1>7. K \in Nat /\ K = Ceiling(F, opt.max) /\ \A k \in 1..K : Piece(s, k) \in Scene
    <2>1. K = Ceiling(F, opt.max)
      BY <1>4 DEF Count
    <2> QED BY <1>1, <1>2, <2>1, PieceBounds
  <1> HIDE DEF s, K, out, F
  <1>8. cut \in Seq(Scene) /\ DOMAIN cut = 1..K /\ \A k \in 1..K : cut[k] = Piece(s, k)
    <2>1. DOMAIN cut = 1..K /\ \A k \in 1..K : cut[k] = Piece(s, k)
      BY <1>5, <1>7
    <2>2. cut \in [1..K -> Scene]
      <3>1. cut = [k \in 1..K |-> cut[k]]
        BY <2>1
      <3> HIDE DEF cut
      <3> QED BY <1>7, <2>1, <3>1
    <2> HIDE DEF cut
    <2> QED BY <1>7, <2>1, <2>2
  <1>9. Sorted(cut, Before)
    <2>1. ASSUME NEW k \in 1..K, NEW l \in 1..K, k < l PROVE <<Piece(s, k), Piece(s, l)>> \in Before
      <3>1. Piece(s, k).end <= Piece(s, l).start
        BY <1>1, <1>2, <2>1, PieceBounds DEF K
      <3> QED BY <1>7, <3>1, SceneIsCut DEF Before
    <2> HIDE DEF cut
    <2> QED BY <1>8, <2>1 DEF Sorted
  <1> HIDE DEF cut, S
  <1>10. out \in Seq(Scene) /\ Takes(out, cut, S) /\ Sorted(out, Before)
    BY <1>6, <1>8, <1>9, ChosenMembers, ChosenSorted
  <1>11. ASSUME NEW i \in DOMAIN out
         PROVE  out[i] \in Interval /\ Wanted(out[i])
    <2>1. PICK k \in S \cap DOMAIN cut : out[i] = cut[k]
      BY <1>10 DEF Takes
    <2>2. k \in 1..K /\ out[i] = Piece(s, k) /\ Length(out[i]) >= opt.min
      BY <1>8, <2>1 DEF S
    <2>3. /\ out[i] \in Scene /\ s.start <= out[i].start /\ out[i].start < out[i].end
          /\ out[i].end <= s.end /\ Length(out[i]) <= opt.max
      BY <1>1, <1>2, <2>2, PieceBounds DEF K
    <2>4. opt.min <= Length(out[i])
      BY <1>1, <2>2, <2>3 DEF Scene, Length
    <2>5. Inside(out[i], s) /\ s \in Shots
      BY <1>3, <2>3 DEF Inside
    <2>6. out[i] \in Interval
      BY <2>3 DEF Interval, Scene
    <2> QED BY <2>3, <2>4, <2>5, <2>6 DEF Wanted
  <1>12. out \in Seq(Interval)
    <2>1. PICK n \in Nat : n = Len(out) /\ out \in [1..n -> Scene]
      BY <1>10
    <2>2. out \in [1..n -> Interval]
      BY <1>11, <2>1
    <2> QED BY <2>2
  <1>13. GoodClips(out)
    BY <1>10, <1>11, <1>12 DEF GoodClips
  <1>14. ASSUME NEW k \in 1..K, Fits(s, k, 0) PROVE ClipOfPiece(out, s, k, 0)
    <2>1. Piece(s, k) \in Scene /\ k \in DOMAIN cut /\ cut[k] = Piece(s, k)
      BY <1>7, <1>8
    <2>2. Length(Piece(s, k)) >= opt.min
      BY <1>1, <1>14 DEF Fits
    <2>3. k \in S
      BY <2>1, <2>2 DEF S
    <2>4. PICK i \in DOMAIN out : out[i] = cut[k]
      BY <1>10, <2>1, <2>3 DEF Takes
    <2> DEFINE p == Piece(s, k)
    <2>5. p = Span(p.start, p.end) /\ p.start \in Nat /\ p.end \in Nat
      BY <2>1, SceneIsSpan
    <2> HIDE DEF p
    <2>6. p.start + 0 = p.start /\ p.end - 0 = p.end
      BY <2>5
    <2>7. out[i] = Span(p.start + 0, p.end - 0)
      BY <2>1, <2>4, <2>5, <2>6 DEF p
    <2> QED BY <2>7 DEF ClipOfPiece, p
  <1>15. ASSUME opt.max >= opt.min + 2 * Crop PROVE Used(out, s)
    <2>1. Crop \in Nat /\ 0 <= Crop /\ s.end = s.end + 0
      BY <1>1, <1>2 DEF Options, Crop, Most, NoCrop
    <2>2. Length(s) - Cardinality(CoveredBy(out, s))
            <= 2 * Crop * Cardinality(ClipsOf(out, s)) + opt.min - 1 + 2 * Crop + 0
      BY <1>1, <1>2, <1>12, <1>14, <1>15, <2>1, Coverage DEF K
    <2> QED BY <2>2 DEF Used
  <1>16. FullUse(out)
    BY <1>3, <1>15 DEF FullUse
  <1> QED BY <1>13, <1>16 DEF out

\* The first clips of good clips are good.
LEMMA LimitedAre ==
  ASSUME InputsInv, NEW cs, GoodClips(cs)
  PROVE  GoodClips(Limited(cs)) /\ (opt.limit = 0 => Limited(cs) = cs)
  <1>1. opt.limit \in Nat
    BY DEF InputsInv, Options
  <1>2. CASE ~(opt.limit > 0)
    BY <1>1, <1>2 DEF Limited
  <1>3. CASE opt.limit > 0
    <2> DEFINE m == Least(opt.limit, Len(cs))
               out == Limited(cs)
    <2>1. cs \in Seq(Interval) /\ Sorted(cs, Before) /\ \A i \in DOMAIN cs : Wanted(cs[i])
      BY DEF GoodClips
    <2>2. Len(cs) \in Nat /\ DOMAIN cs = 1..Len(cs) /\ \A i \in 1..Len(cs) : cs[i] \in Interval
      BY <2>1
    <2>3. m \in Nat /\ m <= Len(cs)
      BY <1>1, <2>2 DEF Least
    <2>4. out = SubSeq(cs, 1, m)
      BY <1>3 DEF Limited
    <2> HIDE DEF out, m
    <2>5. /\ out \in Seq(Interval) /\ Len(out) = m
          /\ \A i \in 1..m : out[i] = cs[i] /\ i \in 1..Len(cs)
      <3>1. \A i \in 1..m : cs[i] \in Interval /\ i \in 1..Len(cs)
        BY <2>2, <2>3
      <3>2. /\ out \in Seq(Interval) /\ Len(out) = IF 1 <= m THEN m - 1 + 1 ELSE 0
            /\ \A i \in 1..(m - 1 + 1) : out[i] = cs[1 + i - 1]
        BY <2>3, <2>4, <3>1, SubSeqProperties
      <3>3. m - 1 + 1 = m /\ \A i \in 1..m : 1 + i - 1 = i
        BY <2>3
      <3> QED BY <2>3, <3>1, <3>2, <3>3
    <2>6. DOMAIN out = 1..m
      BY <2>5
    <2>7. Sorted(out, Before)
      BY <2>1, <2>2, <2>5, <2>6 DEF Sorted
    <2>8. \A i \in DOMAIN out : Wanted(out[i])
      BY <2>1, <2>2, <2>5, <2>6
    <2>9. GoodClips(out)
      BY <2>5, <2>7, <2>8 DEF GoodClips
    <2> QED BY <1>1, <1>3, <2>9 DEF out
  <1> QED BY <1>2, <1>3

\* What is true of the clips that a step to "cut" leaves.
Clipped(cs) == GoodClips(cs) /\ (opt.limit = 0 => FullUse(cs))

\* What either way of cutting yields is what is promised of the clips.
LEMMA CutsAreClipped ==
  ASSUME InputsInv, video.frames > 0
  PROVE  /\ opt.detect => Clipped(Limited(FilteredScenes))
         /\ ~opt.detect => Clipped(Limited(Strides))
  <1>1. opt.detect => Clipped(Limited(FilteredScenes))
    BY DetectedAreGood, DetectedAreUsed, LimitedAre DEF Clipped
  <1>2. ~opt.detect => Clipped(Limited(Strides))
    BY StridesAre, LimitedAre DEF Clipped
  <1> QED BY <1>1, <1>2

-----------------------------------------------------------------------------
(* The invariants of the clips. *)

\* An encoded clip is as encoded.
LEMMA EncodedClip ==
  ASSUME NEW s \in Interval
  PROVE  Encoded(Encode(s))
  BY DEF Encoded, Encode

\* Filling in what a clip was sampled for leaves the clip as encoded.
LEMMA EncodedStays ==
  ASSUME NEW c, Encoded(c)
  PROVE  Encoded(Extract(c)) /\ Encoded(Prepared(c))
  <1>1. \A x : Encoded([c EXCEPT !.extracted = x])
    BY DEF Encoded
  <1>2. \A x, y : Encoded([c EXCEPT !.windows = x, !.sampled = y])
    BY DEF Encoded
  <1> QED BY <1>1, <1>2, Zenon DEF Extract, Prepared

\* Before the first step there are no clips.
LEMMA InitClips == Init => ClipsInv
  BY ClipFramesAssumption DEF Init, ClipsInv, InputsInv, SpansInv, TasksInv

\* Every step keeps the clips of all chunks as they were encoded.
LEMMA StepClips ==
  ASSUME ClipsInv, [Next]_vars
  PROVE  ClipsInv'
  <1> USE DEF ClipsInv
  <1>1. InputsInv /\ SpansInv /\ TasksInv
    OBVIOUS
  <1>2. InputsInv'
    BY DEF Next, vars, InputsInv, DetectShots, CutByStride, Transcode, ExtractFrames, PrepareWindows
  <1>3. opt' = opt /\ video' = video
    BY DEF Next, vars, DetectShots, CutByStride, Transcode, ExtractFrames, PrepareWindows
  <1>4. \A c : (Encoded(c))' <=> Encoded(c)
    BY <1>3 DEF Encoded
  <1>5. CASE DetectShots \/ CutByStride
    <2>1. spans' \in Seq(Interval)
      <3>1. CASE DetectShots
        BY <3>1, CutsAreClipped DEF DetectShots, Clipped, GoodClips
      <3>2. CASE CutByStride
        BY <3>2, CutsAreClipped DEF CutByStride, Clipped, GoodClips
      <3> QED BY <1>5, <3>1, <3>2
    <2>2. tasks = <<>> /\ tasks' = tasks
      BY <1>5 DEF TasksInv, DetectShots, CutByStride
    <2>3. TasksInv'
      BY <2>2 DEF TasksInv
    <2> QED BY <1>2, <2>1, <2>3 DEF SpansInv
  <1>6. CASE Transcode
    <2>1. Chunks \in Seq(Seq(Interval))
      BY ChunksHoldSpans DEF SpansInv
    <2>2. \A t \in DOMAIN Chunks : \A i \in DOMAIN Chunks[t] : Chunks[t][i] \in Interval
      <3>1. \A t \in DOMAIN Chunks : Chunks[t] \in Seq(Interval)
        <4> DEFINE V == Seq(Interval)
        <4> HIDE DEF V
        <4>1. Chunks \in Seq(V)
          BY <2>1 DEF V
        <4>2. \A t \in DOMAIN Chunks : Chunks[t] \in V
          BY <4>1
        <4> QED BY <4>2 DEF V
      <3> QED BY <3>1
    <2>3. /\ tasks' = [t \in DOMAIN Chunks |->
                         [stage |-> "transcoded", clips |-> [i \in DOMAIN Chunks[t] |-> Encode(Chunks[t][i])]]]
          /\ phase' = "cracked" /\ spans' = spans
      BY <1>6 DEF Transcode
    <2>4. ASSUME NEW t \in DOMAIN tasks'
          PROVE  /\ tasks'[t].stage = "transcoded"
                 /\ \A i \in DOMAIN tasks'[t].clips : Encoded(tasks'[t].clips[i])
      <3>1. /\ tasks'[t].stage = "transcoded" /\ t \in DOMAIN Chunks
            /\ DOMAIN tasks'[t].clips = DOMAIN Chunks[t]
            /\ \A i \in DOMAIN Chunks[t] : tasks'[t].clips[i] = Encode(Chunks[t][i])
        BY <2>3
      <3> QED BY <2>2, <3>1, EncodedClip
    <2>5. TasksInv'
      BY <1>4, <2>3, <2>4 DEF TasksInv
    <2> QED BY <1>2, <2>3, <2>5 DEF SpansInv
  <1>7. ASSUME NEW t \in DOMAIN tasks, ExtractFrames(t) \/ PrepareWindows(t)
        PROVE  ClipsInv'
    <2>1. spans' = spans /\ phase' = phase /\ tasks # <<>>
      BY <1>7 DEF ExtractFrames, PrepareWindows
    <2>2. DOMAIN tasks' = DOMAIN tasks /\ \A u \in DOMAIN tasks : u # t => tasks'[u] = tasks[u]
      BY <1>7, Zenon DEF ExtractFrames, PrepareWindows
    <2>3. /\ tasks'[t].stage \in {"transcoded", "extracted", "prepared", "raised"}
          /\ \A i \in DOMAIN tasks'[t].clips : Encoded(tasks'[t].clips[i])
      <3>1. CASE ExtractFrames(t)
        <4>1. tasks'[t] = [stage |-> "extracted",
                           clips |-> [i \in DOMAIN tasks[t].clips |-> Extract(tasks[t].clips[i])]]
          BY <3>1 DEF ExtractFrames
        <4> QED BY <4>1, EncodedStays DEF TasksInv
      <3>2. CASE PrepareWindows(t)
        <4>1. \/ tasks'[t] = [stage |-> "raised", clips |-> tasks[t].clips]
              \/ tasks'[t] = [stage |-> "prepared",
                              clips |-> [i \in DOMAIN tasks[t].clips |-> Prepared(tasks[t].clips[i])]]
          BY <3>2 DEF PrepareWindows
        <4> QED BY <4>1, EncodedStays DEF TasksInv
      <3> QED BY <1>7, <3>1, <3>2
    <2>4. TasksInv'
      BY <1>4, <2>1, <2>2, <2>3 DEF TasksInv
    <2> QED BY <1>2, <2>1, <2>4 DEF SpansInv
  <1>8. CASE UNCHANGED vars
    BY <1>2, <1>4, <1>8 DEF vars, SpansInv, TasksInv
  <1> QED BY <1>5, <1>6, <1>7, <1>8 DEF Next

\* Inputs stay as they came, every clip is an interval of frames, and every clip of a chunk
\* is as it was encoded whatever was sampled of it since.
THEOREM Clips == Spec => []ClipsInv
  BY InitClips, StepClips, PTL DEF Spec

\* Every step keeps the promise of the clips: they are cut once.
LEMMA StepShots ==
  ASSUME ClipsInv, ShotsBecomeClips, [Next]_vars
  PROVE  ShotsBecomeClips'
  <1> USE DEF ClipsInv
  <1>1. opt' = opt /\ video' = video
    BY DEF Next, vars, DetectShots, CutByStride, Transcode, ExtractFrames, PrepareWindows
  <1>2. CASE phase # "input"
    <2>1. spans' = spans
      BY <1>2 DEF Next, vars, DetectShots, CutByStride, Transcode, ExtractFrames, PrepareWindows
    <2>2. HasShots' = HasShots /\ Shots' = Shots /\ Crop' = Crop
      BY <1>1 DEF HasShots, Shots, Frame, Crop
    <2>3. ASSUME NEW s PROVE (ShotIsUsed(s))' <=> ShotIsUsed(s)
      <3>1. (ClipsIn(s))' = ClipsIn(s)
        BY <2>1 DEF ClipsIn
      <3>2. (CoveredOf(s))' = CoveredOf(s)
        BY <2>1, <3>1 DEF CoveredOf
      <3>3. (MayLose(s))' = MayLose(s)
        BY <1>1, <2>2, <3>1 DEF MayLose
      <3> QED BY <1>1, <2>2, <3>1, <3>2, <3>3 DEF ShotIsUsed
    <2>4. (\A s \in Shots : ShotIsUsed(s))' <=> \A s \in Shots : ShotIsUsed(s)
      BY <2>2, <2>3
    <2> QED BY <1>1, <1>2, <2>1, <2>2, <2>4 DEF ShotsBecomeClips
  <1>3. CASE phase = "input" /\ phase' # "input"
    <2> DEFINE cs == spans'
    <2>1. Clipped(cs)
      <3>1. DetectShots \/ CutByStride
        <4>1. ~Transcode
          BY <1>3 DEF Transcode
        <4>2. \A t \in DOMAIN tasks : ~(ExtractFrames(t) \/ PrepareWindows(t))
          BY <1>3 DEF ExtractFrames, PrepareWindows
        <4> QED BY <1>3, <4>1, <4>2 DEF Next, vars
      <3> QED BY <3>1, CutsAreClipped DEF DetectShots, CutByStride
    <2>2. /\ cs \in Seq(Interval) /\ Sorted(cs, Before) /\ \A i \in DOMAIN cs : Wanted(cs[i])
          /\ opt.limit = 0 => FullUse(cs)
      BY <2>1 DEF Clipped, GoodClips
    <2>3. \A i, j \in DOMAIN cs : i < j => cs[i].end <= cs[j].start
      BY <2>2 DEF Sorted, Before
    <2>4. ASSUME NEW i \in DOMAIN cs PROVE Length(cs[i]) \in Most(opt.min, 1)..opt.max
      <3>1. opt.min \in Nat \ {0} /\ opt.max \in Nat
        BY DEF InputsInv, Options
      <3>2. cs[i] \in Interval
        BY <2>2
      <3>3. Length(cs[i]) \in Nat
        BY <3>2 DEF Interval, Length
      <3>4. opt.min <= Length(cs[i]) /\ Length(cs[i]) <= opt.max
        BY <2>2 DEF Wanted
      <3> HIDE DEF cs
      <3> QED BY <3>1, <3>3, <3>4 DEF Most
    <2>5. ASSUME NEW i \in DOMAIN cs
          PROVE  (opt.detect /\ ~HasShots /\ opt.whole) \/ \E s \in Shots : Inside(cs[i], s)
      BY <2>2 DEF Wanted
    <2>6. HasShots' = HasShots /\ Shots' = Shots /\ Crop' = Crop
      BY <1>1 DEF HasShots, Shots, Frame, Crop
    <2>7. ASSUME NEW s PROVE (ShotIsUsed(s))' <=> Used(cs, s)
      BY <1>1, <2>6 DEF ShotIsUsed, Used, ClipsIn, ClipsOf, CoveredOf, CoveredBy, MayLose
    <2> HIDE DEF cs
    <2>8. opt.limit = 0 /\ opt.max >= opt.min + 2 * Crop /\ (HasShots \/ ~opt.detect)
             => \A s \in Shots : (ShotIsUsed(s))'
      BY <2>2, <2>7 DEF FullUse
    <2> QED BY <1>1, <2>3, <2>4, <2>5, <2>6, <2>8 DEF ShotsBecomeClips, cs
  <1>4. CASE phase' = "input"
    BY <1>4 DEF ShotsBecomeClips
  <1> QED BY <1>2, <1>3, <1>4

\* The clips of a video are in order and apart, of the lengths asked for and each inside one
\* shot; and no shot loses more than the crop and the minimal length explain.
THEOREM ShotsAreCut == Spec => []ShotsBecomeClips
  <1>1. Init => ShotsBecomeClips
    BY DEF Init, ShotsBecomeClips
  <1> QED BY <1>1, StepShots, Clips, PTL DEF Spec

-----------------------------------------------------------------------------
(* Windows of a clip.                                                      *)

\* A clip has a positive duration and at least one frame.
LEMMA EncodedLength ==
  ASSUME InputsInv, NEW s \in Interval
  PROVE  Length(s) \in Nat \ {0}
  <1>1. s.start \in Nat /\ s.end \in Nat /\ s.start < s.end
    BY DEF Interval
  <1> QED BY <1>1 DEF Length

\* What sampling and windowing leave of a clip, and what they set.
LEMMA ExtractFields ==
  ASSUME NEW c, Encoded(c)
  PROVE  /\ Extract(c).span = c.span /\ Extract(c).frames = c.frames
         /\ Extract(c).extracted =
              [r \in Range(opt.rates) |-> Every(Samples(c, SharedRate), SharedRate \div r)]
  <1>1. \A x : LET d == [c EXCEPT !.extracted = x]
               IN d.span = c.span /\ d.frames = c.frames /\ d.extracted = x
    BY DEF Encoded
  <1> QED BY <1>1, Zenon DEF Extract

\* Preparation sets the windows and leaves span, frames and extracted frames alone.
LEMMA PreparedFields ==
  ASSUME NEW c, Encoded(c)
  PROVE  /\ Prepared(c).span = c.span /\ Prepared(c).frames = c.frames
         /\ Prepared(c).extracted = c.extracted /\ Prepared(c).windows = WindowsOf(c)
  <1>1. \A x, y : LET d == [c EXCEPT !.windows = x, !.sampled = y]
                  IN /\ d.span = c.span /\ d.frames = c.frames
                     /\ d.extracted = c.extracted /\ d.windows = x
    BY DEF Encoded
  <1> QED BY <1>1, Zenon DEF Prepared

\* One step of one chunk: the others stay, and its clips keep their spans.
LEMMA ChunkSteps ==
  ASSUME ClipsInv, NEW t \in DOMAIN tasks, ExtractFrames(t) \/ PrepareWindows(t)
  PROVE  /\ UNCHANGED <<video, opt, phase, spans>>
         /\ DOMAIN tasks' = DOMAIN tasks /\ \A u \in DOMAIN tasks : u # t => tasks'[u] = tasks[u]
         /\ DOMAIN tasks'[t].clips = DOMAIN tasks[t].clips
         /\ \A i \in DOMAIN tasks[t].clips :
              /\ Encoded(tasks[t].clips[i]) /\ tasks'[t].clips[i].span = tasks[t].clips[i].span
              /\ tasks'[t].stage = "extracted" => tasks'[t].clips[i] = Extract(tasks[t].clips[i])
              /\ tasks'[t].stage = "prepared" => tasks'[t].clips[i] = Prepared(tasks[t].clips[i])
              /\ tasks'[t].stage = "raised" => tasks'[t].clips[i] = tasks[t].clips[i]
         /\ tasks'[t].stage \in {"extracted", "prepared", "raised"}
         /\ tasks'[t].stage = "extracted" <=> ExtractFrames(t)
         /\ tasks'[t].stage = "prepared" =>
              \A i \in DOMAIN tasks[t].clips : \A j \in DOMAIN WindowsOf(tasks[t].clips[i]) :
                InRange(WindowsOf(tasks[t].clips[i])[j])
         /\ tasks'[t].stage = "raised" =>
              \E i \in DOMAIN tasks[t].clips : \E j \in DOMAIN WindowsOf(tasks[t].clips[i]) :
                ~InRange(WindowsOf(tasks[t].clips[i])[j])
  <1> DEFINE fits == \A i \in DOMAIN tasks[t].clips : \A j \in DOMAIN WindowsOf(tasks[t].clips[i]) :
                       InRange(WindowsOf(tasks[t].clips[i])[j])
             extracted == [stage |-> "extracted",
                           clips |-> [i \in DOMAIN tasks[t].clips |-> Extract(tasks[t].clips[i])]]
             prepared == [stage |-> "prepared",
                          clips |-> [i \in DOMAIN tasks[t].clips |-> Prepared(tasks[t].clips[i])]]
             raised == [stage |-> "raised", clips |-> tasks[t].clips]
  <1>1. UNCHANGED <<video, opt, phase, spans>>
    BY DEF ExtractFrames, PrepareWindows
  <1>2. DOMAIN tasks' = DOMAIN tasks /\ \A u \in DOMAIN tasks : u # t => tasks'[u] = tasks[u]
    BY Zenon DEF ExtractFrames, PrepareWindows
  <1>3. \A i \in DOMAIN tasks[t].clips : Encoded(tasks[t].clips[i])
    BY DEF ClipsInv, TasksInv
  <1>4. CASE ExtractFrames(t)
    <2>1. tasks'[t] = extracted
      BY <1>4 DEF ExtractFrames
    <2>2. tasks'[t].stage = "extracted" /\ tasks'[t].clips = extracted.clips
      BY <2>1
    <2>3. /\ DOMAIN tasks'[t].clips = DOMAIN tasks[t].clips
          /\ \A i \in DOMAIN tasks[t].clips : tasks'[t].clips[i] = Extract(tasks[t].clips[i])
      BY <2>2
    <2> QED BY <1>1, <1>2, <1>3, <1>4, <2>2, <2>3, ExtractFields
  <1>5. CASE PrepareWindows(t)
    <2>0. tasks[t].stage = "extracted" /\ tasks' = [tasks EXCEPT ![t] = IF fits THEN prepared ELSE raised]
      BY <1>5 DEF PrepareWindows
    <2>1. ~ExtractFrames(t)
      BY <2>0 DEF ExtractFrames
    <2>2. tasks'[t] = IF fits THEN prepared ELSE raised
      BY <2>0
    <2>3. CASE fits
      <3>1. tasks'[t].stage = "prepared" /\ tasks'[t].clips = prepared.clips
        BY <2>2, <2>3
      <3>2. /\ DOMAIN tasks'[t].clips = DOMAIN tasks[t].clips
            /\ \A i \in DOMAIN tasks[t].clips : tasks'[t].clips[i] = Prepared(tasks[t].clips[i])
        BY <3>1
      <3> QED BY <1>1, <1>2, <1>3, <2>1, <2>3, <3>1, <3>2, PreparedFields
    <2>4. CASE ~fits
      <3>1. tasks'[t].stage = "raised" /\ tasks'[t].clips = tasks[t].clips
        BY <2>2, <2>4
      <3> QED BY <1>1, <1>2, <1>3, <2>1, <2>4, <3>1
    <2> QED BY <2>3, <2>4
  <1> QED BY <1>4, <1>5

\* Every frame of the clip is in one of its windows, and none is too long.
OnceWindowed(c) ==
  /\ \A f \in 0..(c.frames - 1) :
       Cardinality(WindowsWith(c, f)) = IF c.frames < WindowMinFrames THEN 0 ELSE 1
  /\ \A j \in DOMAIN c.windows : c.windows[j].end < c.frames /\ NotTooLong(c.windows[j])

\* The computed windows of a prepared clip hold each of its frames once.
LEMMA ComputedWindows ==
  ASSUME InputsInv, Computed, NEW c, Encoded(c)
  PROVE  OnceWindowed(Prepared(c))
  <1> DEFINE d == Prepared(c)
             n == c.frames
             ws == Windows(n)
  <1>1. d.frames = n /\ d.windows = ws
    BY PreparedFields DEF Computed, WindowsOf
  <1>2. n \in Nat \ {0} /\ opt \in Options
    BY EncodedLength DEF Encoded, InputsInv
  <1> HIDE DEF d
  <1>3. CASE n < 4
    <2>1. ws = <<>>
      BY <1>2, <1>3 DEF Windows, WindowMinFrames
    <2>2. \A f : WindowsWith(d, f) = {}
      BY <1>1, <2>1 DEF WindowsWith
    <2>3. \A f : Cardinality(WindowsWith(d, f)) = 0
      BY <2>2, FS_EmptySet
    <2>4. DOMAIN d.windows = {} /\ d.frames < WindowMinFrames
      BY <1>1, <1>3, <2>1 DEF WindowMinFrames
    <2> HIDE DEF ws, n
    <2>5. OnceWindowed(d)
      BY <2>3, <2>4 DEF OnceWindowed
    <2> QED BY <2>5 DEF d
  <1>4. CASE n >= 4
    <2>1. Cover(ws, n) /\ \A j \in DOMAIN ws : NotTooLong(ws[j])
      BY <1>2, <1>4, WindowsCover
    <2> HIDE DEF ws
    <2>2. ASSUME NEW f \in 0..(n - 1)
          PROVE  Cardinality(WindowsWith(d, f)) = 1
      <3>1. PICK j \in DOMAIN ws : InWindow(f, ws[j])
        BY <2>1 DEF Cover
      <3>2. ASSUME NEW k \in DOMAIN ws, InWindow(f, ws[k])
            PROVE  k = j
        <4>1. ws \in Seq([start : Nat, end : Int])
          BY <2>1 DEF Cover
        <4>2. ws[j] \in [start : Nat, end : Int] /\ ws[k] \in [start : Nat, end : Int]
          <5> DEFINE R == [start : Nat, end : Int]
          <5> HIDE DEF R
          <5>1. ws \in Seq(R)
            BY <4>1 DEF R
          <5>2. ws[j] \in R /\ ws[k] \in R
            BY <3>1, <3>2, <5>1
          <5> QED BY <5>2 DEF R
        <4>3. ws[j].start \in Nat /\ ws[j].end \in Int /\ ws[k].start \in Nat /\ ws[k].end \in Int
          BY <4>2
        <4>4. ws[j].start <= f /\ f <= ws[j].end /\ ws[k].start <= f /\ f <= ws[k].end
          BY <3>1, <3>2, <4>3, <1>2 DEF InWindow
        <4>5. ~(j < k) /\ ~(k < j)
          <5>1. j < k => ws[j].end < ws[k].start
            BY <2>1, <3>1 DEF Cover
          <5>2. k < j => ws[k].end < ws[j].start
            BY <2>1, <3>1 DEF Cover
          <5> QED BY <5>1, <5>2, <4>3, <4>4, <1>2
        <4>6. j \in Nat /\ k \in Nat
          <5> DEFINE R == [start : Nat, end : Int]
          <5> HIDE DEF R
          <5>1. ws \in Seq(R)
            BY <4>1 DEF R
          <5>2. DOMAIN ws = 1..Len(ws) /\ Len(ws) \in Nat
            BY <5>1
          <5> QED BY <3>1, <5>2
        <4> QED BY <4>5, <4>6
      <3>3. WindowsWith(d, f) = {k \in DOMAIN ws : InWindow(f, ws[k])}
        BY <1>1 DEF WindowsWith
      <3>4. j \in WindowsWith(d, f) /\ \A k \in WindowsWith(d, f) : k = j
        BY <3>1, <3>2, <3>3
      <3> QED BY <3>4, OneMember
    <2>3. \A j \in DOMAIN ws : ws[j].end < n
      BY <2>1 DEF Cover
    <2> QED BY <1>1, <1>2, <1>4, <2>1, <2>2, <2>3 DEF OnceWindowed, WindowMinFrames, d
  <1> QED BY <1>2, <1>3, <1>4

\* The spans of the clips, chunk by chunk.
ChunkSpans == [t \in DOMAIN tasks |-> [i \in DOMAIN tasks[t].clips |-> tasks[t].clips[i].span]]

\* Every step keeps the promises of the chunks and the windows.
LEMMA StepWindows ==
  ASSUME ClipsInv, EveryFrameInOneWindow, [Next]_vars
  PROVE  EveryFrameInOneWindow'
  <1> DEFINE Windowed == Computed => \A t \in DOMAIN tasks : tasks[t].stage = "prepared" =>
                                       \A i \in DOMAIN tasks[t].clips : OnceWindowed(tasks[t].clips[i])
             Chunked == phase = "cracked" => FlattenSeq(ChunkSpans) = spans
  <1>1. Windowed /\ Chunked
    BY DEF EveryFrameInOneWindow, OnceWindowed, NotTooLong, ChunkSpans
  <1>2. SUFFICES Windowed' /\ Chunked'
    BY DEF EveryFrameInOneWindow, OnceWindowed, NotTooLong, ChunkSpans
  <1>3. opt' = opt /\ video' = video
    BY DEF Next, vars, DetectShots, CutByStride, Transcode, ExtractFrames, PrepareWindows
  <1>4. \A c : (OnceWindowed(c))' <=> OnceWindowed(c)
    BY <1>3 DEF OnceWindowed, NotTooLong, WindowsWith, InWindow
  <1>5. CASE DetectShots \/ CutByStride
    <2>1. tasks = <<>> /\ tasks' = tasks /\ phase' # "cracked"
      BY <1>5 DEF ClipsInv, TasksInv, DetectShots, CutByStride
    <2> QED BY <2>1
  <1>6. CASE Transcode
    <2>1. Chunks \in Seq(Seq(Interval)) /\ FlattenSeq(Chunks) = spans
      BY ChunksHoldSpans DEF ClipsInv, SpansInv
    <2>2. /\ tasks' = [t \in DOMAIN Chunks |->
                         [stage |-> "transcoded", clips |-> [i \in DOMAIN Chunks[t] |-> Encode(Chunks[t][i])]]]
          /\ spans' = spans
      BY <1>6 DEF Transcode
    <2>3. ASSUME NEW t \in DOMAIN Chunks
          PROVE  /\ tasks'[t].stage = "transcoded"
                 /\ [i \in DOMAIN tasks'[t].clips |-> tasks'[t].clips[i].span] = Chunks[t]
      <3>1. /\ tasks'[t].stage = "transcoded" /\ DOMAIN tasks'[t].clips = DOMAIN Chunks[t]
            /\ \A i \in DOMAIN Chunks[t] : tasks'[t].clips[i] = Encode(Chunks[t][i])
        BY <2>2
      <3>2. \A i \in DOMAIN Chunks[t] : tasks'[t].clips[i].span = Chunks[t][i]
        <4>1. \A s : Encode(s).span = s
          BY Zenon DEF Encode
        <4> QED BY <3>1, <4>1, Zenon
      <3>3. Chunks[t] = [i \in DOMAIN Chunks[t] |-> Chunks[t][i]]
        <4> DEFINE V == Seq(Interval)
        <4> HIDE DEF V
        <4>1. Chunks[t] \in V
          BY <2>1 DEF V
        <4>2. Chunks[t] \in Seq(Interval)
          BY <4>1 DEF V
        <4> QED BY <4>2
      <3> QED BY <3>1, <3>2, <3>3
    <2>4. ChunkSpans' = Chunks
      <3>1. DOMAIN tasks' = DOMAIN Chunks
        BY <2>2
      <3>2. Chunks = [t \in DOMAIN Chunks |-> Chunks[t]]
        BY <2>1
      <3> QED BY <2>3, <3>1, <3>2 DEF ChunkSpans
    <2>5. \A t \in DOMAIN tasks' : tasks'[t].stage # "prepared"
      BY <2>2, <2>3
    <2> QED BY <2>1, <2>2, <2>4, <2>5
  <1>7. ASSUME NEW t \in DOMAIN tasks, ExtractFrames(t) \/ PrepareWindows(t)
        PROVE  Windowed' /\ Chunked'
    <2>1. /\ phase' = phase /\ spans' = spans /\ DOMAIN tasks' = DOMAIN tasks
          /\ \A u \in DOMAIN tasks : u # t => tasks'[u] = tasks[u]
          /\ DOMAIN tasks'[t].clips = DOMAIN tasks[t].clips
          /\ \A i \in DOMAIN tasks[t].clips : tasks'[t].clips[i].span = tasks[t].clips[i].span
      BY <1>7, ChunkSteps
    <2>2. ASSUME NEW u \in DOMAIN tasks
          PROVE  [i \in DOMAIN tasks'[u].clips |-> tasks'[u].clips[i].span]
                   = [i \in DOMAIN tasks[u].clips |-> tasks[u].clips[i].span]
      BY <2>1
    <2>3. ChunkSpans' = ChunkSpans
      BY <2>1, <2>2 DEF ChunkSpans
    <2>4. ASSUME Computed, tasks'[t].stage = "prepared", NEW i \in DOMAIN tasks'[t].clips
          PROVE  OnceWindowed(tasks'[t].clips[i])
      <3>1. i \in DOMAIN tasks[t].clips /\ tasks'[t].clips[i] = Prepared(tasks[t].clips[i])
        BY <1>7, <2>1, <2>4, ChunkSteps
      <3>2. Encoded(tasks[t].clips[i])
        BY <3>1 DEF ClipsInv, TasksInv
      <3> QED BY <2>4, <3>1, <3>2, ComputedWindows DEF ClipsInv
    <2>5. Computed' <=> Computed
      BY <1>3 DEF Computed
    <2>6. Windowed'
      BY <1>1, <1>4, <2>1, <2>4, <2>5
    <2> QED BY <1>1, <2>1, <2>3, <2>6
  <1>8. CASE UNCHANGED vars
    BY <1>1, <1>3, <1>4, <1>8 DEF vars, ChunkSpans, Computed
  <1> QED BY <1>5, <1>6, <1>7, <1>8 DEF Next

\* Before the first step there are no chunks.
LEMMA InitWindows == Init => EveryFrameInOneWindow
  BY DEF Init, EveryFrameInOneWindow

\* Every clip is in one chunk, in the order of the video; and every frame of a clip is in
\* exactly one computed window, or in none when the clip is too short for any.
THEOREM WindowsHoldFrames == Spec => []EveryFrameInOneWindow
  BY InitWindows, StepWindows, Clips, PTL DEF Spec

-----------------------------------------------------------------------------
(* How many frames of a window are sampled, and which.                     *)

\* The quotient that is taken is the nearest one.
LEMMA Nearest ==
  ASSUME NEW a \in Nat, NEW b \in Nat \ {0}
  PROVE  /\ RoundDiv(a, b) \in Nat
         /\ 2 * (RoundDiv(a, b) * b) <= 2 * a + b /\ 2 * a <= 2 * (RoundDiv(a, b) * b) + b
  <1> DEFINE q == a \div b
             m == a % b
             p == q * b
             r == RoundDiv(a, b)
  <1>1. q \in Nat /\ m \in Nat /\ m < b /\ a = p + m
    BY DivMod
  <1>2. p \in Nat /\ (q + 1) * b = p + b
    BY <1>1
  <1>3. \/ r = q /\ 2 * m <= b
        \/ r = q + 1 /\ 2 * m >= b
    <2>1. r = IF 2 * m < b \/ (2 * m = b /\ q % 2 = 0) THEN q ELSE q + 1
      BY Zenon DEF RoundDiv
    <2>2. 2 * m < b \/ 2 * m = b \/ 2 * m > b
      <3> HIDE DEF m
      <3> QED BY <1>1
    <2> HIDE DEF m, q, r
    <2> QED BY <1>1, <2>1, <2>2
  <1>4. \/ r = q /\ r * b = p /\ 2 * m <= b
        \/ r = q + 1 /\ r * b = p + b /\ 2 * m >= b
    <2> HIDE DEF m, q, r
    <2> QED BY <1>2, <1>3 DEF p
  <1> HIDE DEF m, q, r, p
  <1> QED BY <1>1, <1>2, <1>4 DEF r

\* It is exact at the bounds, so that it keeps to them.
LEMMA NearestBound ==
  ASSUME NEW a \in Nat, NEW b \in Nat \ {0}, NEW x \in Nat
  PROVE  /\ a <= x * b => RoundDiv(a, b) <= x
         /\ x * b <= a => x <= RoundDiv(a, b)
  <1> DEFINE r == RoundDiv(a, b)
             y == x * b
             z == r * b
  <1>1. r \in Nat /\ 2 * z <= 2 * a + b /\ 2 * a <= 2 * z + b
    BY Nearest
  <1> HIDE DEF r
  <1>2. y \in Nat /\ z \in Nat
    BY <1>1
  <1>3. ASSUME x < r PROVE y + b <= z
    <2>1. (x + 1) * b <= r * b
      BY <1>1, <1>3, Grows
    <2> QED BY <2>1
  <1>4. ASSUME r < x PROVE z + b <= y
    <2>1. (r + 1) * b <= x * b
      BY <1>1, <1>4, Grows
    <2> QED BY <1>1, <2>1
  <1> HIDE DEF y, z
  <1>5. a <= y => r <= x
    BY <1>1, <1>2, <1>3
  <1>6. y <= a => x <= r
    BY <1>1, <1>2, <1>4
  <1> QED BY <1>5, <1>6 DEF r, y

\* Numbers that are further apart than the divisor have different quotients.
LEMMA NearestOrder ==
  ASSUME NEW a \in Nat, NEW c \in Nat, NEW b \in Nat \ {0}, a + b < c
  PROVE  RoundDiv(a, b) < RoundDiv(c, b)
  <1> DEFINE r == RoundDiv(a, b)
             s == RoundDiv(c, b)
             y == r * b
             z == s * b
  <1>1. /\ r \in Nat /\ 2 * y <= 2 * a + b /\ 2 * a <= 2 * y + b
        /\ s \in Nat /\ 2 * z <= 2 * c + b /\ 2 * c <= 2 * z + b
    BY Nearest
  <1> HIDE DEF r, s
  <1>2. y \in Nat /\ z \in Nat
    BY <1>1
  <1>3. ASSUME s <= r PROVE z <= y
    BY <1>1, <1>3, Grows
  <1> HIDE DEF y, z
  <1>4. r < s
    BY <1>1, <1>2, <1>3
  <1> QED BY <1>4 DEF r, s

\* The numbers a clip is described by.
LEMMA ClipNumbers ==
  ASSUME InputsInv, NEW c, Encoded(c)
  PROVE  c.frames \in Nat \ {0} /\ Rate \in Nat \ {0} /\ opt.fps \in Nat \ {0}
  <1>1. c.frames \in Nat \ {0}
    BY EncodedLength DEF Encoded
  <1>2. Rate \in Nat \ {0}
    BY ClipFramesAssumption
  <1> QED BY <1>1, <1>2 DEF InputsInv, Options

\* Of a window of three frames or more two are sampled at least, one less than there are
\* at most.
LEMMA CountInRange ==
  ASSUME InputsInv, NEW c, Encoded(c), NEW w, Length(w) \in Nat, Length(w) >= 2
  PROVE  /\ FrameCount(w) \in 2..Length(w) /\ FrameCount(w) <= MaxSampled
         /\ InRange(w)
  <1> DEFINE l == Length(w)
             top == Least(MaxSampled, l)
             h == top \div 2
             most == 2 * h
             U == Rate
             X == l * opt.fps
             q == RoundDiv(X, 2 * U)
             n == FrameCount(w)
  <1>1. MaxSampled \in Nat /\ MaxSampled >= 2
    BY ClipFramesAssumption
  <1>2. top \in Nat /\ top >= 2 /\ top <= MaxSampled /\ top <= l
    <2> HIDE DEF l
    <2> QED BY <1>1 DEF Least, l
  <1>3. h \in Nat /\ h >= 1 /\ most <= top
    <2> HIDE DEF top
    <2> QED BY <1>2
  <1>4. X \in Nat /\ U \in Nat \ {0}
    <2>1. /\ l \in Nat /\ opt.fps \in Nat /\ U \in Nat \ {0}
      BY ClipNumbers
    <2>2. \A x, y \in Nat : x * y \in Nat
      OBVIOUS
    <2> HIDE DEF l, U
    <2> QED BY <2>1, <2>2
  <1>5. n = IF X <= MinSampled * U THEN Least(MinSampled, most)
            ELSE IF X >= most * U THEN most ELSE 2 * q
    BY Zenon DEF FrameCount
  <1> HIDE DEF X, U, n, l, top
  <1>6. CASE X <= 4 * U
    <2>1. n = Least(4, most)
      BY <1>5, <1>6 DEF MinSampled
    <2> HIDE DEF h
    <2>2. n \in Nat /\ n >= 2 /\ n <= most
      BY <1>3, <2>1 DEF Least
    <2> QED BY <1>1, <1>2, <1>3, <2>2 DEF InRange, n, l
  <1>7. CASE X > 4 * U /\ X >= most * U
    <2>1. n = most
      <3> HIDE DEF h, q
      <3>1. ~(X <= 4 * U)
        BY <1>4, <1>7
      <3> QED BY <1>5, <1>7, <3>1 DEF MinSampled
    <2> HIDE DEF h
    <2> QED BY <1>1, <1>2, <1>3, <2>1 DEF InRange, n, l
  <1>8. CASE X > 4 * U /\ X < most * U
    <2>1. 2 * U \in Nat \ {0} /\ 2 * (2 * U) = 4 * U /\ h * (2 * U) = most * U /\ most * U \in Nat
      <3> HIDE DEF h
      <3> QED BY <1>3, <1>4
    <2>2. q \in Nat /\ 2 <= q
      <3>1. 2 * (2 * U) <= X
        BY <1>4, <1>8, <2>1
      <3> QED BY <1>4, <2>1, <3>1, Nearest, NearestBound
    <2>3. q <= h
      <3>1. X <= h * (2 * U)
        <4> HIDE DEF h
        <4> QED BY <1>4, <1>8, <2>1
      <3> HIDE DEF h
      <3> QED BY <1>3, <1>4, <2>1, <3>1, NearestBound
    <2>4. n = 2 * q
      <3> HIDE DEF h, q
      <3>1. ~(X <= 4 * U) /\ ~(X >= most * U)
        BY <1>4, <1>8, <2>1
      <3> QED BY <1>5, <3>1 DEF MinSampled
    <2> HIDE DEF h, q
    <2>5. n \in Nat /\ n >= 2 /\ n <= most
      BY <1>3, <2>2, <2>3, <2>4
    <2> QED BY <1>1, <1>2, <1>3, <2>5 DEF InRange, n, l
  <1>9. (X <= 4 * U) \/ (X > 4 * U /\ X >= most * U) \/ (X > 4 * U /\ X < most * U)
    <2>1. 4 * U \in Nat /\ most * U \in Nat
      <3> HIDE DEF h
      <3> QED BY <1>3, <1>4
    <2> HIDE DEF h
    <2> QED BY <1>4, <2>1
  <1> QED BY <1>6, <1>7, <1>8, <1>9

Inner(w, F) == /\ w.start \in Nat /\ w.end \in Nat /\ Length(w) \in Nat /\ Length(w) >= 2
               /\ w.end < F

Increasing == {p \in Nat \X Nat : p[1] < p[2]}

\* The frames that are sampled of a window are frames of it, in order and each once.
LEMMA IdsOfWindow ==
  ASSUME InputsInv, NEW c, Encoded(c), NEW w, Inner(w, c.frames)
  PROVE  /\ FrameIds(w) \in Seq(0..(c.frames - 1)) /\ Len(FrameIds(w)) = FrameCount(w)
         /\ \A k \in DOMAIN FrameIds(w) : FrameIds(w)[k] \in w.start..w.end
         /\ Sorted(FrameIds(w), Increasing)
  <1> DEFINE n == FrameCount(w)
             b == n - 1
             l == Length(w) - 1
             A(k) == w.start * b + (k - 1) * l
             ids == FrameIds(w)
             last == w.start + l
  <1>1. /\ w.start \in Nat /\ w.end \in Nat /\ l \in Nat \ {0} /\ last \in Nat
        /\ w.end = last + 1 /\ w.end < c.frames
    BY DEF Inner, Length
  <1>2. n \in 2..(l + 1)
    <2>1. n \in 2..Length(w)
      BY CountInRange DEF Inner
    <2> HIDE DEF n
    <2> QED BY <2>1 DEF Inner
  <1>3. c.frames \in Nat \ {0}
    BY ClipNumbers
  <1>4. ids = [k \in 1..n |-> RoundDiv(A(k), b)]
    BY Zenon DEF FrameIds
  <1> HIDE DEF n, l, ids
  <1>5. b \in Nat \ {0} /\ b <= l /\ n \in Nat
    BY <1>1, <1>2
  <1>6. ASSUME NEW k \in 1..n
        PROVE  A(k) \in Nat /\ w.start * b <= A(k) /\ A(k) <= last * b
    <2>1. k - 1 \in Nat /\ k - 1 <= b
      BY <1>5
    <2>2. w.start * b \in Nat /\ (k - 1) * l \in Nat
      BY <1>1, <1>5, <2>1
    <2>3. (k - 1) * l <= b * l
      BY <1>1, <1>5, <2>1, Grows
    <2>4. last * b = w.start * b + b * l
      <3>1. \A x, y, z \in Nat : (x + y) * z = x * z + z * y
        OBVIOUS
      <3>2. w.start \in Nat /\ l \in Nat /\ b \in Nat
        BY <1>1, <1>5
      <3> HIDE DEF b
      <3> QED BY <3>1, <3>2
    <2>5. b * l \in Nat
      BY <1>1, <1>5
    <2> QED BY <2>2, <2>3, <2>4, <2>5
  <1>7. ASSUME NEW k \in 1..n
        PROVE  RoundDiv(A(k), b) \in Nat /\ w.start <= RoundDiv(A(k), b) /\ RoundDiv(A(k), b) <= w.end
    <2>1. A(k) \in Nat /\ w.start * b <= A(k) /\ A(k) <= last * b
      BY <1>6
    <2> HIDE DEF A, b, last
    <2>2. RoundDiv(A(k), b) \in Nat /\ w.start <= RoundDiv(A(k), b) /\ RoundDiv(A(k), b) <= last
      BY <1>1, <1>5, <2>1, Nearest, NearestBound
    <2> QED BY <1>1, <2>2
  <1>8. ASSUME NEW k \in 1..n, NEW m \in 1..n, k < m
        PROVE  RoundDiv(A(k), b) < RoundDiv(A(m), b)
    <2>1. A(k) \in Nat /\ A(m) \in Nat
      BY <1>6
    <2>2. CASE b < l
      <3>1. A(k) + b < A(m)
        <4>1. (k - 1) * l + l <= (m - 1) * l
          <5>1. ((k - 1) + 1) * l <= (m - 1) * l
            BY <1>1, <1>5, <1>8, Grows
          <5>2. ((k - 1) + 1) * l = (k - 1) * l + l
            BY <1>1, <1>5
          <5> QED BY <5>1, <5>2
        <4>2. (k - 1) * l \in Nat /\ (m - 1) * l \in Nat /\ w.start * b \in Nat
          BY <1>1, <1>5
        <4> QED BY <1>1, <1>5, <2>2, <4>1, <4>2
      <3> HIDE DEF A, b
      <3> QED BY <1>5, <2>1, <3>1, NearestOrder
    <2>3. CASE b = l
      <3>1. ASSUME NEW j \in 1..n PROVE RoundDiv(A(j), b) = w.start + (j - 1)
        <4>1. w.start + (j - 1) \in Nat /\ A(j) = (w.start + (j - 1)) * b
          BY <1>1, <1>5, <2>3
        <4>2. A(j) \in Nat /\ RoundDiv(A(j), b) \in Nat
          BY <1>6, <1>7
        <4> DEFINE x == w.start + (j - 1)
        <4>3. x \in Nat /\ x * b <= A(j) /\ A(j) <= x * b
          BY <4>1, <4>2
        <4> HIDE DEF A, b, x
        <4>4. RoundDiv(A(j), b) <= x /\ x <= RoundDiv(A(j), b)
          BY <1>5, <4>2, <4>3, NearestBound
        <4>5. RoundDiv(A(j), b) = x
          BY <4>2, <4>3, <4>4
        <4> QED BY <4>5 DEF x
      <3> HIDE DEF A, b
      <3> QED BY <1>1, <1>8, <3>1
    <2> QED BY <1>1, <1>5, <2>2, <2>3
  <1> HIDE DEF A, b, last
  <1>9. DOMAIN ids = 1..n /\ \A k \in 1..n : ids[k] = RoundDiv(A(k), b)
    BY <1>4
  <1>10. \A k \in 1..n : ids[k] \in Nat /\ w.start <= ids[k] /\ ids[k] <= w.end
    BY <1>7, <1>9
  <1>11. \A k \in 1..n : ids[k] \in 0..(c.frames - 1) /\ ids[k] \in w.start..w.end
    BY <1>1, <1>3, <1>10
  <1>12. ids \in Seq(0..(c.frames - 1)) /\ Len(ids) = n
    <2> DEFINE B == 0..(c.frames - 1)
    <2>1. \A k \in 1..n : ids[k] \in B
      BY <1>11
    <2> HIDE DEF B
    <2>2. ids \in [1..n -> B]
      BY <1>4, <1>9, <2>1
    <2>3. ids \in Seq(B) /\ Len(ids) = n
      BY <1>5, <2>2
    <2> QED BY <2>3 DEF B
  <1>13. Sorted(ids, Increasing)
    <2> SUFFICES ASSUME NEW k \in 1..n, NEW m \in 1..n, k < m
                 PROVE  <<ids[k], ids[m]>> \in Increasing
      BY <1>9 DEF Sorted
    <2>1. ids[k] < ids[m]
      BY <1>8, <1>9
    <2> QED BY <1>10, <2>1 DEF Increasing
  <1> QED BY <1>9, <1>11, <1>12, <1>13 DEF ids, n

-----------------------------------------------------------------------------
(* Decoding by frame number.                                               *)

Walk == [next : Nat \ {0}, out : Seq(Nat)]
Numbered == [frame : Nat, count : Nat]

Reads(wanted, acc, f) ==
  IF acc.next <= Len(wanted) /\ wanted[acc.next].frame = f
  THEN [next |-> acc.next + 1, out |-> acc.out \o Copies(f, wanted[acc.next].count)]
  ELSE acc

Missed(wanted, acc) == SubSeq(wanted, acc.next, Len(wanted))

\* The steps of Decode.
Decodes(g, V, F, wanted) ==
  /\ g \in [0..F -> V] /\ g[0] = [next |-> 1, out |-> <<>>]
  /\ \A n \in 1..F : g[n] = Reads(wanted, g[n - 1], n - 1)
  /\ Decode(wanted, F) =
       g[F].out \o FlattenSeq([k \in DOMAIN Missed(wanted, g[F]) |->
                                 Copies(Junk, Missed(wanted, g[F])[k].count)])

\* A sequence of copies.
LEMMA CopiesAre ==
  ASSUME NEW T, NEW x \in T, NEW n \in Nat
  PROVE  /\ Copies(x, n) \in Seq(T) /\ Len(Copies(x, n)) = n
         /\ \A i \in 1..n : Copies(x, n)[i] = x
  BY DEF Copies

\* The walk over the frames keeps its type.
LEMMA ReadsType ==
  ASSUME NEW wanted \in Seq(Numbered), NEW acc \in Walk, NEW f \in Nat
  PROVE  Reads(wanted, acc, f) \in Walk
  <1>1. CASE acc.next <= Len(wanted) /\ wanted[acc.next].frame = f
    <2>1. acc.next \in Nat \ {0} /\ acc.out \in Seq(Nat) /\ Len(wanted) \in Nat
      BY DEF Walk
    <2>2. wanted[acc.next] \in Numbered
      <3> DEFINE i == acc.next
      <3>1. i \in 1..Len(wanted)
        BY <1>1, <2>1
      <3> HIDE DEF i
      <3> QED BY <3>1 DEF i
    <2>3. wanted[acc.next].count \in Nat
      BY <2>2 DEF Numbered
    <2>4. Copies(f, wanted[acc.next].count) \in Seq(Nat)
      BY <2>3, CopiesAre
    <2>5. acc.out \o Copies(f, wanted[acc.next].count) \in Seq(Nat)
      BY <2>1, <2>4
    <2> QED BY <1>1, <2>1, <2>5 DEF Reads, Walk
  <1>2. CASE ~(acc.next <= Len(wanted) /\ wanted[acc.next].frame = f)
    BY <1>2 DEF Reads
  <1> QED BY <1>1, <1>2

\* The walk of Decode, frame by frame.
LEMMA DecodeSteps ==
  ASSUME NEW F \in Nat, NEW wanted \in Seq(Numbered)
  PROVE  \E g : Decodes(g, Walk, F, wanted)
  <1> DEFINE V == Walk
             base == [next |-> 1, out |-> <<>>]
             step == [p \in V \X (1..F) |-> Reads(wanted, p[1], p[2] - 1)]
             Q(h) == h = [n \in 0..F |-> IF n = 0 THEN base ELSE Reads(wanted, h[n - 1], n - 1)]
             r == CHOOSE h : Q(h)
  <1>1. base \in V
    BY DEF Walk
  <1>2. /\ step \in [V \X (1..F) -> V]
        /\ \A v \in V, n \in 1..F : step[<<v, n>>] = Reads(wanted, v, n - 1)
    <2>1. \A v \in V, n \in 1..F : Reads(wanted, v, n - 1) \in V
      BY ReadsType
    <2> HIDE DEF V
    <2> QED BY <2>1
  <1>3. Decode(wanted, F) =
          r[F].out \o FlattenSeq([k \in DOMAIN Missed(wanted, r[F]) |->
                                    Copies(Junk, Missed(wanted, r[F])[k].count)])
    BY Zenon DEF Decode, Reads, Missed
  <1> HIDE DEF step, V, base
  <1>4. PICK f : Solves(f, V, F, base, step)
    BY <1>1, <1>2, Recursion
  <1>5. f \in [0..F -> V] /\ f[0] = base /\ \A n \in 1..F : f[n] = step[<<f[n - 1], n>>]
    BY <1>4 DEF Solves
  <1>6. ASSUME NEW n \in 1..F PROVE f[n - 1] \in V /\ f[n] = Reads(wanted, f[n - 1], n - 1)
    <2>1. n - 1 \in 0..F
      OBVIOUS
    <2>2. f[n - 1] \in V
      BY <1>5, <2>1
    <2> QED BY <1>2, <1>5, <2>2, Zenon
  <1>7. Q(f)
    <2>1. ASSUME NEW n \in 0..F
          PROVE  f[n] = IF n = 0 THEN base ELSE Reads(wanted, f[n - 1], n - 1)
      <3>1. n = 0 \/ n \in 1..F
        OBVIOUS
      <3> QED BY <1>5, <1>6, <3>1
    <2> QED BY <1>5, <2>1
  <1>8. Q(r)
    <2> HIDE DEF Q
    <2> QED BY <1>7
  <1> HIDE DEF r
  <1>9. Follows(r, V, F, base, step)
    <2>1. r[0] = base
      BY <1>8
    <2>2. ASSUME NEW n \in 1..F, r[n - 1] \in V PROVE r[n] = step[<<r[n - 1], n>>]
      <3>1. n \in 0..F /\ n # 0
        OBVIOUS
      <3>2. r[n] = Reads(wanted, r[n - 1], n - 1)
        BY <1>8, <3>1
      <3> HIDE DEF Q
      <3> QED BY <1>2, <2>2, <3>2
    <2> HIDE DEF Q
    <2> QED BY <2>1, <2>2 DEF Follows
  <1> HIDE DEF Q
  <1>10. r[F] = f[F]
    <2>1. \A n \in 0..F : r[n] = f[n]
      <3>1. Agree(f, r, F)
        BY <1>4, <1>9, OneSolution
      <3> QED BY <3>1 DEF Agree
    <2> QED BY <2>1
  <1>11. \A n \in 1..F : f[n] = Reads(wanted, f[n - 1], n - 1)
    BY <1>6
  <1>12. Decodes(f, V, F, wanted)
    BY <1>3, <1>5, <1>10, <1>11, Zenon DEF Decodes, base
  <1> QED BY <1>12 DEF V

Runs(wanted) == [j \in DOMAIN wanted |-> Copies(wanted[j].frame, wanted[j].count)]

\* After n frames, the entries below n are passed and their frames are out.
Passed(acc, wanted, g, n) ==
  /\ acc.next \in 1..(Len(wanted) + 1) /\ acc.out = g[acc.next - 1]
  /\ \A j \in 1..Len(wanted) : j < acc.next <=> wanted[j].frame < n

\* What the walk has written, one frame later, when the numbers rise strictly.
LEMMA PassedMore ==
  ASSUME NEW wanted \in Seq(Numbered), NEW g, Flattens(g, Seq(Nat), Len(wanted), Runs(wanted)),
         \A i, j \in 1..Len(wanted) : i < j => wanted[i].frame < wanted[j].frame,
         NEW acc \in Walk, NEW n \in Nat, Passed(acc, wanted, g, n)
  PROVE  Passed(Reads(wanted, acc, n), wanted, g, n + 1)
  <1> DEFINE N == Len(wanted)
             x == acc.next
             num(j) == wanted[j].frame
             new == Reads(wanted, acc, n)
  <1>1. N \in Nat /\ x \in 1..(N + 1) /\ acc.out = g[x - 1]
        /\ \A j \in 1..N : j < x <=> num(j) < n
    BY DEF Passed
  <1>2. \A j \in 1..N : num(j) \in Nat
    <2>1. \A j \in 1..N : wanted[j] \in Numbered
      OBVIOUS
    <2> QED BY <2>1 DEF Numbered
  <1>3. \A i, j \in 1..N : i < j => num(i) < num(j)
    OBVIOUS
  <1>4. CASE x <= N /\ num(x) = n
    <2>1. new = [next |-> x + 1, out |-> acc.out \o Copies(n, wanted[x].count)]
      BY <1>4 DEF Reads
    <2>2. x \in 1..N
      BY <1>1, <1>4
    <2>3. g[x] = g[x - 1] \o Copies(n, wanted[x].count)
      <3>1. Runs(wanted)[x] = Copies(n, wanted[x].count)
        BY <1>4, <2>2 DEF Runs
      <3> HIDE DEF x
      <3> QED BY <2>2, <3>1 DEF Flattens
    <2>4. new.next = x + 1 /\ new.out = g[x]
      <3> HIDE DEF new
      <3>1. new.next = x + 1 /\ new.out = acc.out \o Copies(n, wanted[x].count)
        BY <2>1, Zenon
      <3> QED BY <1>1, <2>3, <3>1, Zenon
    <2> HIDE DEF x, num, new, N
    <2>5. ASSUME NEW j \in 1..N PROVE j < x + 1 <=> num(j) < n + 1
      <3>1. j = x => num(j) = n
        BY <1>4
      <3>2. j < x => num(j) < n
        BY <1>1
      <3>3. x < j => n < num(j)
        BY <1>3, <1>4, <2>2
      <3>4. j \in Nat /\ x \in Nat /\ num(j) \in Nat
        BY <1>1, <1>2, <2>2
      <3> QED BY <3>1, <3>2, <3>3, <3>4
    <2>6. x + 1 \in 1..(N + 1) /\ (x + 1) - 1 = x
      BY <1>1, <2>2
    <2>7. \A j \in 1..Len(wanted) : j < new.next <=> wanted[j].frame < n + 1
      BY <2>4, <2>5 DEF N, num
    <2>8. new.next \in 1..(Len(wanted) + 1) /\ new.out = g[new.next - 1]
      BY <2>4, <2>6 DEF N
    <2> QED BY <2>7, <2>8 DEF Passed, new
  <1>5. CASE ~(x <= N /\ num(x) = n)
    <2>1. new = acc
      BY <1>5 DEF Reads
    <2> HIDE DEF x, num, new, N
    <2>2. ASSUME NEW j \in 1..N PROVE j < x <=> num(j) < n + 1
      <3>1. j \in Nat /\ x \in Nat /\ num(j) \in Nat
        BY <1>1, <1>2
      <3>2. j < x => num(j) < n
        BY <1>1
      <3>3. ASSUME ~(j < x) PROVE n < num(j)
        <4>1. x \in 1..N /\ x <= j
          BY <1>1, <3>1, <3>3
        <4>2. ~(num(x) < n) /\ num(x) # n /\ num(x) \in Nat
          BY <1>1, <1>2, <1>5, <4>1
        <4>3. x = j \/ num(x) < num(j)
          BY <1>3, <3>1, <4>1
        <4> QED BY <3>1, <4>2, <4>3
      <3> QED BY <3>1, <3>2, <3>3
    <2>3. \A j \in 1..Len(wanted) : j < acc.next <=> wanted[j].frame < n + 1
      BY <2>2 DEF N, num, x
    <2>4. Passed(acc, wanted, g, n + 1)
      BY <2>3 DEF Passed
    <2> QED BY <2>1, <2>4 DEF new
  <1> QED BY <1>4, <1>5

\* Numbers that are wanted in order, each once, are all found.
LEMMA DecodeAll ==
  ASSUME NEW F \in Nat, NEW wanted \in Seq(Numbered),
         \A i, j \in 1..Len(wanted) : i < j => wanted[i].frame < wanted[j].frame,
         \A j \in 1..Len(wanted) : wanted[j].frame < F
  PROVE  Runs(wanted) \in Seq(Seq(Nat)) /\ Decode(wanted, F) = FlattenSeq(Runs(wanted))
  <1> DEFINE N == Len(wanted)
             V == Walk
  <1>1. Runs(wanted) \in Seq(Seq(Nat)) /\ Len(Runs(wanted)) = N
    <2>1. \A j \in 1..N : Copies(wanted[j].frame, wanted[j].count) \in Seq(Nat)
      <3> TAKE j \in 1..N
      <3>1. wanted[j] \in Numbered
        OBVIOUS
      <3>2. wanted[j].frame \in Nat /\ wanted[j].count \in Nat
        BY <3>1 DEF Numbered
      <3> QED BY <3>2, CopiesAre
    <2> DEFINE S == Seq(Nat)
    <2>2. \A j \in 1..N : Runs(wanted)[j] \in S
      BY <2>1 DEF Runs
    <2>3. Runs(wanted) = [j \in 1..N |-> Runs(wanted)[j]] /\ N \in Nat
      BY DEF Runs
    <2> HIDE DEF S, N
    <2>4. Runs(wanted) \in Seq(S) /\ Len(Runs(wanted)) = N
      BY <2>2, <2>3
    <2> QED BY <2>4 DEF S
  <1>2. PICK g : Flattens(g, Seq(Nat), N, Runs(wanted))
    BY <1>1, FlattenSteps
  <1>3. PICK f : Decodes(f, V, F, wanted)
    BY DecodeSteps
  <1> HIDE DEF V
  <1>4. f \in [0..F -> V] /\ f[0] = [next |-> 1, out |-> <<>>]
        /\ \A n \in 1..F : f[n] = Reads(wanted, f[n - 1], n - 1)
    BY <1>3 DEF Decodes
  <1> DEFINE G == {n \in 0..F : Passed(f[n], wanted, g, n)}
  <1>5. 0 \in G
    <2>1. f[0].next = 1 /\ f[0].out = <<>> /\ g[0] = <<>>
      BY <1>2, <1>4 DEF Flattens
    <2>2. \A j \in 1..N : ~(wanted[j].frame < 0) /\ ~(j < 1)
      <3>1. \A j \in 1..N : wanted[j] \in Numbered
        OBVIOUS
      <3>2. \A j \in 1..N : wanted[j].frame \in Nat
        BY <3>1 DEF Numbered
      <3> QED BY <3>2
    <2>3. 1 \in 1..(N + 1) /\ 1 - 1 = 0
      OBVIOUS
    <2>4. Passed(f[0], wanted, g, 0)
      BY <2>1, <2>2, <2>3 DEF Passed
    <2> QED BY <2>4
  <1>6. ASSUME NEW n \in 0..(F - 1), n \in G PROVE n + 1 \in G
    <2>1. n \in 0..F /\ n + 1 \in 1..F /\ (n + 1) - 1 = n /\ n \in Nat /\ n + 1 \in 0..F
      OBVIOUS
    <2>2. f[n] \in V /\ f[n + 1] = Reads(wanted, f[n], n)
      BY <1>4, <2>1
    <2>3. Passed(f[n], wanted, g, n)
      BY <1>6
    <2>4. Passed(f[n + 1], wanted, g, n + 1)
      BY <1>2, <2>1, <2>2, <2>3, PassedMore DEF V
    <2> QED BY <2>1, <2>4
  <1>7. Passed(f[F], wanted, g, F)
    <2> HIDE DEF G
    <2>1. 0..F \subseteq G
      BY <1>5, <1>6, UpTo
    <2>2. F \in G
      BY <2>1
    <2> QED BY <2>2 DEF G
  <1>8. f[F].next = N + 1
    <2> DEFINE x == f[F].next
    <2>1. x \in 1..(N + 1) /\ N \in Nat /\ \A j \in 1..N : j < x
      BY <1>7 DEF Passed
    <2> HIDE DEF x, N
    <2>2. x \in 1..N => x < x
      BY <2>1
    <2>3. x = N + 1
      BY <2>1, <2>2
    <2> QED BY <2>3 DEF x
  <1>9. f[F].out = FlattenSeq(Runs(wanted))
    <2>1. (N + 1) - 1 = N
      OBVIOUS
    <2>2. f[F].out = g[N]
      BY <1>7, <1>8, <2>1 DEF Passed
    <2> QED BY <1>2, <2>2 DEF Flattens
  <1>10. Missed(wanted, f[F]) = <<>>
    BY <1>8 DEF Missed
  <1>11. FlattenSeq([k \in DOMAIN Missed(wanted, f[F]) |-> Copies(Junk, Missed(wanted, f[F])[k].count)]) = <<>>
    <2>1. [k \in DOMAIN Missed(wanted, f[F]) |-> Copies(Junk, Missed(wanted, f[F])[k].count)] = <<>>
      BY <1>10
    <2> QED BY <2>1 DEF FlattenSeq
  <1>12. FlattenSeq(Runs(wanted)) \in Seq(Nat)
    BY <1>1, FlattenLaid
  <1>13. Decode(wanted, F) = FlattenSeq(Runs(wanted)) \o <<>>
    BY <1>3, <1>9, <1>11, Zenon DEF Decodes
  <1>14. \A s \in Seq(Nat) : s \o <<>> = s
    OBVIOUS
  <1> QED BY <1>1, <1>12, <1>13, <1>14, Zenon

-----------------------------------------------------------------------------
(* Frames that are wanted more than once.                                  *)

\* A set of numbers above a that leaves out none below a member is an interval.
LEMMA LeadingPart ==
  ASSUME NEW a \in Nat, NEW b \in Nat, a <= b, NEW S, S \subseteq (a + 1)..b,
         \A i \in S, k \in (a + 1)..b : k < i => k \in S
  PROVE  /\ Cardinality(S) \in Nat /\ a + Cardinality(S) <= b
         /\ \A k \in Nat : k \in S <=> a < k /\ k <= a + Cardinality(S)
  <1> DEFINE T == {n \in a..b : n + 1 \notin S}
  <1>1. T \subseteq Nat /\ T # {}
    <2>1. b \in T
      OBVIOUS
    <2> QED BY <2>1
  <1>2. PICK m \in T : \A n \in T : m <= n
    <2> HIDE DEF T
    <2> QED BY <1>1, LeastNumber
  <1>3. m \in a..b /\ m + 1 \notin S /\ \A n \in a..b : n + 1 \notin S => m <= n
    BY <1>2
  <1>4. ASSUME NEW k \in Nat PROVE k \in S <=> a < k /\ k <= m
    <2>1. ASSUME a < k, k <= m PROVE k \in S
      <3>1. k - 1 \in a..b /\ ~(m <= k - 1) /\ (k - 1) + 1 = k
        BY <1>3, <2>1
      <3> QED BY <1>3, <3>1
    <2>2. ASSUME k \in S PROVE a < k /\ k <= m
      <3>1. k \in (a + 1)..b
        BY <2>2
      <3>2. ~(m + 1 < k)
        <4>1. ASSUME m + 1 < k PROVE FALSE
          <5>1. m + 1 \in (a + 1)..b
            BY <1>3, <3>1, <4>1
          <5> QED BY <1>3, <2>2, <4>1, <5>1
        <4> QED BY <4>1
      <3>3. k # m + 1
        BY <1>3, <2>2
      <3> QED BY <1>3, <3>1, <3>2, <3>3
    <2> QED BY <2>1, <2>2
  <1>5. S = (a + 1)..m
    <2>1. \A k \in S : k \in Nat
      OBVIOUS
    <2>2. \A k \in S : k \in (a + 1)..m
      BY <1>3, <1>4, <2>1
    <2>3. \A k \in (a + 1)..m : k \in S
      BY <1>3, <1>4
    <2> HIDE DEF T
    <2> QED BY <2>2, <2>3
  <1>6. Cardinality(S) = m - a
    <2>1. a + 1 \in Int /\ m \in Int
      BY <1>3
    <2>2. Cardinality((a + 1)..m) = IF a + 1 > m THEN 0 ELSE m - (a + 1) + 1
      BY <2>1, FS_Interval
    <2> QED BY <1>3, <1>5, <2>2
  <1> QED BY <1>3, <1>4, <1>6

\* h says on which of M levels each of L places is.
Rising(h, L, M) == /\ h \in [1..L -> 1..M]
                   /\ \A k, l \in 1..L : k < l => h[k] <= h[l]

Level(h, L, j) == {k \in 1..L : h[k] = j}

Counts(o, h, L, M) == /\ o \in [0..M -> Nat] /\ o[0] = 0
                      /\ \A j \in 1..M : o[j] = o[j - 1] + Cardinality(Level(h, L, j))

\* Of a rising sequence, the entries up to a level are the first ones, as many as are counted.
LEMMA Levels ==
  ASSUME NEW L \in Nat, NEW M \in Nat, NEW h, Rising(h, L, M), NEW o, Counts(o, h, L, M)
  PROVE  \A j \in 0..M : o[j] <= L /\ \A k \in 1..L : k <= o[j] <=> h[k] <= j
  <1> DEFINE G == {j \in 0..M : o[j] <= L /\ \A k \in 1..L : k <= o[j] <=> h[k] <= j}
  <1>0. h \in [1..L -> 1..M] /\ \A k, l \in 1..L : k < l => h[k] <= h[l]
    BY DEF Rising
  <1>1. 0 \in G
    <2>1. o[0] = 0
      BY DEF Counts
    <2>2. \A k \in 1..L : h[k] \in 1..M
      BY <1>0
    <2>3. \A k \in 1..L : ~(k <= 0) /\ ~(h[k] <= 0)
      BY <2>2
    <2> QED BY <2>1, <2>3
  <1>2. ASSUME NEW j \in 0..(M - 1), j \in G PROVE j + 1 \in G
    <2> DEFINE S == Level(h, L, j + 1)
               n == Cardinality(S)
               a == o[j]
    <2>1. /\ j \in Nat /\ j + 1 \in 1..M /\ (j + 1) - 1 = j /\ j \in 0..M /\ j + 1 \in 0..M
      OBVIOUS
    <2>2. a \in Nat /\ o[j + 1] = a + n
      BY <2>1 DEF Counts
    <2>3. a <= L /\ \A k \in 1..L : k <= a <=> h[k] <= j
      BY <1>2
    <2>4. \A k \in 1..L : h[k] \in Nat
      BY <1>0
    <2>5. \A k \in S : k \in 1..L /\ h[k] = j + 1
      BY DEF Level
    <2>6. \A k \in 1..L : h[k] = j + 1 => k \in S
      BY DEF Level
    <2> HIDE DEF S, a, n
    <2>7. S \subseteq (a + 1)..L
      <3>1. ASSUME NEW k \in S PROVE k \in (a + 1)..L
        <4>1. k \in 1..L /\ ~(k <= a)
          BY <2>1, <2>3, <2>4, <2>5
        <4> QED BY <2>2, <4>1
      <3> QED BY <3>1
    <2>8. ASSUME NEW i \in S, NEW k \in (a + 1)..L, k < i PROVE k \in S
      <3>1. k \in 1..L /\ i \in 1..L /\ ~(k <= a)
        BY <2>2, <2>5, <2>8
      <3>2. h[k] <= h[i] /\ h[i] = j + 1 /\ ~(h[k] <= j)
        BY <1>0, <2>3, <2>5, <2>8, <3>1
      <3>3. h[k] = j + 1
        BY <2>1, <2>4, <3>1, <3>2
      <3> QED BY <2>6, <3>1, <3>3
    <2>9. n \in Nat /\ a + n <= L /\ \A k \in Nat : k \in S <=> a < k /\ k <= a + n
      BY <2>2, <2>3, <2>7, <2>8, LeadingPart DEF n
    <2>10. ASSUME NEW k \in 1..L PROVE k <= a + n <=> h[k] <= j + 1
      <3>1. k \in Nat /\ h[k] \in Nat
        BY <2>4
      <3>2. k \in S <=> h[k] = j + 1
        BY <2>5, <2>6
      <3>3. k \in S <=> a < k /\ k <= a + n
        BY <2>9, <3>1
      <3>4. k <= a <=> h[k] <= j
        BY <2>3
      <3> QED BY <2>1, <2>2, <2>9, <3>1, <3>2, <3>3, <3>4
    <2> QED BY <2>1, <2>2, <2>9, <2>10
  <1> HIDE DEF G
  <1>3. 0..M \subseteq G
    BY <1>1, <1>2, UpTo
  <1> QED BY <1>3 DEF G

\* Which of the numbers in ids each member of T is.
Lists(ids, T) == \A k \in DOMAIN T : \E j \in DOMAIN ids : T[k] = ids[j]

Rises(T) == \A k, l \in DOMAIN T : k < l => T[k] <= T[l]

\* The distinct numbers of T, each with how often T has it.
Counted(ids, T) ==
  [j \in DOMAIN ids |-> [frame |-> ids[j], count |-> Cardinality({k \in DOMAIN T : T[k] = ids[j]})]]

\* A function on 1..N is a sequence of length N.
LEMMA FunctionIsSeq ==
  ASSUME NEW R, NEW N \in Nat, NEW f, f = [j \in 1..N |-> f[j]], \A j \in 1..N : f[j] \in R
  PROVE  f \in Seq(R) /\ Len(f) = N /\ DOMAIN f = 1..N
  <1>1. f \in [1..N -> R]
    BY Zenon
  <1> QED BY <1>1

\* Every number with how often it occurs.
LEMMA CountedIs ==
  ASSUME NEW T \in Seq(Nat), NEW ids \in Seq(Nat)
  PROVE  /\ Counted(ids, T) \in Seq(Numbered) /\ Len(Counted(ids, T)) = Len(ids)
         /\ \A j \in 1..Len(ids) : /\ Counted(ids, T)[j].frame = ids[j]
                                   /\ Counted(ids, T)[j].count = Cardinality({k \in 1..Len(T) : T[k] = ids[j]})
                                   /\ Counted(ids, T)[j].count \in Nat
  <1> DEFINE N == Len(ids)
             L == Len(T)
             n(j) == Cardinality({k \in 1..L : T[k] = ids[j]})
             w == Counted(ids, T)
  <1>1. N \in Nat /\ L \in Nat /\ \A j \in 1..N : ids[j] \in Nat
    OBVIOUS
  <1>2. w = [j \in 1..N |-> [frame |-> ids[j], count |-> n(j)]]
    <2>1. DOMAIN T = 1..L /\ DOMAIN ids = 1..N
      OBVIOUS
    <2> HIDE DEF N, L
    <2> QED BY <2>1, Zenon DEF Counted
  <1> HIDE DEF w, N, L
  <1>3. \A j \in 1..N : n(j) \in Nat
    <2> TAKE j \in 1..N
    <2>1. IsFiniteSet(1..L)
      BY <1>1, FS_Interval
    <2>2. {k \in 1..L : T[k] = ids[j]} \in SUBSET (1..L)
      OBVIOUS
    <2> QED BY <2>1, <2>2, FS_Subset, FS_CardinalityType
  <1> HIDE DEF n
  <1>4. \A j \in 1..N : w[j] \in Numbered /\ w[j].frame = ids[j] /\ w[j].count = n(j)
    BY <1>1, <1>2, <1>3 DEF Numbered
  <1>5. w \in Seq(Numbered) /\ Len(w) = N
    <2> DEFINE R == Numbered
    <2> HIDE DEF R
    <2>1. \A j \in 1..N : w[j] \in R
      BY <1>4 DEF R
    <2>2. w = [j \in 1..N |-> w[j]]
      BY <1>2
    <2>3. w \in Seq(R) /\ Len(w) = N
      BY <1>1, <2>1, <2>2, FunctionIsSeq
    <2> QED BY <2>3 DEF R
  <1> QED BY <1>3, <1>4, <1>5 DEF w, N, L, n

\* Copied as often as they occur, the distinct numbers of a rising sequence are that sequence.
LEMMA RunsOfCounted ==
  ASSUME NEW T \in Seq(Nat), NEW ids \in Seq(Nat), Sorted(ids, Increasing), Rises(T), Lists(ids, T)
  PROVE  FlattenSeq(Runs(Counted(ids, T))) = T
  <1> DEFINE M == Len(ids)
             L == Len(T)
             w == Counted(ids, T)
             runs == Runs(w)
             out == FlattenSeq(runs)
             h == [k \in 1..L |-> CHOOSE j \in 1..M : T[k] = ids[j]]
  <1>1. M \in Nat /\ L \in Nat /\ DOMAIN T = 1..L /\ DOMAIN ids = 1..M
    OBVIOUS
  <1>2. \A j \in 1..M : ids[j] \in Nat
    OBVIOUS
  <1>3. \A i, j \in 1..M : i < j => ids[i] < ids[j]
    BY <1>1 DEF Sorted, Increasing
  <1>4. \A k \in 1..L : h[k] \in 1..M /\ T[k] = ids[h[k]]
    <2> TAKE k \in 1..L
    <2>1. \E j \in 1..M : T[k] = ids[j]
      BY <1>1 DEF Lists
    <2> HIDE DEF M
    <2> QED BY <2>1
  <1>5. h \in [1..L -> 1..M]
    <2>1. h = [k \in 1..L |-> h[k]]
      OBVIOUS
    <2> HIDE DEF h, M, L
    <2> QED BY <1>4, <2>1
  <1>6. /\ w \in Seq(Numbered) /\ Len(w) = M
        /\ \A j \in 1..M : /\ w[j].frame = ids[j] /\ w[j].count \in Nat
                           /\ w[j].count = Cardinality({k \in 1..L : T[k] = ids[j]})
    BY CountedIs
  <1> HIDE DEF h, w, M, L
  <1>7. Rising(h, L, M)
    <2>1. ASSUME NEW k \in 1..L, NEW l \in 1..L, k < l PROVE h[k] <= h[l]
      <3>1. h[k] \in 1..M /\ h[l] \in 1..M /\ T[k] = ids[h[k]] /\ T[l] = ids[h[l]]
        BY <1>4
      <3>2. T[k] <= T[l]
        BY <1>1, <2>1 DEF Rises
      <3>3. h[l] < h[k] => ids[h[l]] < ids[h[k]]
        BY <1>3, <3>1
      <3>4. ids[h[l]] \in Nat /\ ids[h[k]] \in Nat
        BY <1>2, <3>1
      <3>5. ~(h[l] < h[k])
        BY <3>1, <3>2, <3>3, <3>4
      <3>6. h[k] \in Nat /\ h[l] \in Nat
        BY <1>1, <3>1
      <3> QED BY <3>5, <3>6
    <2> QED BY <1>5, <2>1 DEF Rising
  <1>8. \A j \in 1..M : Level(h, L, j) = {k \in 1..L : T[k] = ids[j]}
    <2> TAKE j \in 1..M
    <2>1. ASSUME NEW k \in 1..L PROVE h[k] = j <=> T[k] = ids[j]
      <3>1. h[k] \in 1..M /\ T[k] = ids[h[k]]
        BY <1>4
      <3>2. h[k] < j => ids[h[k]] < ids[j]
        BY <1>3, <3>1
      <3>3. j < h[k] => ids[j] < ids[h[k]]
        BY <1>3, <3>1
      <3>4. ids[j] \in Nat /\ ids[h[k]] \in Nat
        BY <1>2, <3>1
      <3> QED BY <3>1, <3>2, <3>3, <3>4
    <2> QED BY <2>1 DEF Level
  <1>9. runs \in Seq(Seq(Nat)) /\ Len(runs) = M
        /\ \A j \in 1..M : Len(runs[j]) = w[j].count /\ \A i \in 1..w[j].count : runs[j][i] = ids[j]
    <2>1. \A j \in 1..M : /\ Copies(ids[j], w[j].count) \in Seq(Nat)
                          /\ Len(Copies(ids[j], w[j].count)) = w[j].count
                          /\ \A i \in 1..w[j].count : Copies(ids[j], w[j].count)[i] = ids[j]
      <3> TAKE j \in 1..M
      <3>1. ids[j] \in Nat /\ w[j].count \in Nat
        BY <1>2, <1>6
      <3> QED BY <3>1, CopiesAre
    <2>2. DOMAIN w = 1..M
      BY <1>6
    <2>3. runs = [j \in 1..M |-> Copies(ids[j], w[j].count)]
      BY <1>6, <2>2 DEF Runs
    <2> DEFINE S == Seq(Nat)
    <2>4. \A j \in 1..M : runs[j] = Copies(ids[j], w[j].count) /\ runs[j] \in S
      BY <2>1, <2>3
    <2> HIDE DEF S, runs
    <2>5. runs \in Seq(S) /\ Len(runs) = M
      <3>1. runs = [j \in 1..M |-> runs[j]]
        BY <2>3
      <3> QED BY <1>1, <2>4, <3>1, FunctionIsSeq
    <2> QED BY <2>1, <2>4, <2>5 DEF S
  <1> HIDE DEF runs
  <1>10. PICK o : Offsets(o, M, runs) /\ Laid(o, out, runs, M)
    BY <1>9, FlattenLaid
  <1>11. out \in Seq(Nat)
    BY <1>9, FlattenLaid
  <1> HIDE DEF out
  <1>12. Counts(o, h, L, M)
    <2>1. \A j \in 1..M : Len(runs[j]) = Cardinality(Level(h, L, j))
      BY <1>6, <1>8, <1>9
    <2> QED BY <1>10, <2>1 DEF Offsets, Counts
  <1>13. \A j \in 0..M : o[j] \in Nat /\ o[j] <= L /\ \A k \in 1..L : k <= o[j] <=> h[k] <= j
    BY <1>1, <1>7, <1>12, Levels DEF Counts
  <1>14. o[M] = L
    <2>1. M \in 0..M
      BY <1>1
    <2>2. L \in 1..L => L <= o[M]
      <3>1. L \in 1..L => h[L] \in 1..M
        BY <1>4
      <3>2. L \in 1..L => h[L] <= M
        BY <1>1, <3>1
      <3> QED BY <1>13, <2>1, <3>2
    <2>3. o[M] \in Nat /\ o[M] <= L
      BY <1>13, <2>1
    <2>4. L = 0 \/ L \in 1..L
      BY <1>1
    <2> QED BY <1>1, <2>2, <2>3, <2>4
  <1>15. Len(out) = L
    BY <1>10, <1>14 DEF Laid
  <1>16. ASSUME NEW k \in 1..L PROVE out[k] = T[k]
    <2>0. PICK j \in 1..M : \E i \in 1..Len(runs[j]) : k = o[j - 1] + i
      BY <1>10, <1>14 DEF Laid
    <2>1. PICK i \in 1..Len(runs[j]) : k = o[j - 1] + i
      BY <2>0
    <2>2. out[k] = ids[j]
      <3>1. out[o[j - 1] + i] = runs[j][i]
        BY <1>10 DEF Laid
      <3>2. runs[j][i] = ids[j]
        BY <1>9
      <3> QED BY <2>1, <3>1, <3>2
    <2>3. o[j] = o[j - 1] + Len(runs[j]) /\ j - 1 \in 0..M /\ j \in 0..M /\ Len(runs[j]) \in Nat
      BY <1>1, <1>6, <1>9, <1>10 DEF Offsets
    <2>4. o[j - 1] \in Nat /\ ~(k <= o[j - 1]) /\ k <= o[j]
      BY <1>13, <2>1, <2>3
    <2>5. ~(h[k] <= j - 1) /\ h[k] <= j
      BY <1>13, <2>3, <2>4
    <2>6. h[k] = j
      BY <1>4, <2>5
    <2> QED BY <1>4, <2>2, <2>6
  <1>17. out = T
    <2>1. DOMAIN out = 1..L /\ DOMAIN T = 1..L
      BY <1>1, <1>11, <1>15
    <2>2. out = [k \in 1..L |-> out[k]] /\ T = [k \in 1..L |-> T[k]]
      BY <1>11, <2>1
    <2> QED BY <1>16, <2>2
  <1> QED BY <1>17 DEF out, runs, w

-----------------------------------------------------------------------------
(* Frames for the captioner.                                               *)

\* The steps of Slices.
Sliced(u, seq, counts) ==
  /\ u \in [0..Len(counts) -> Nat] /\ u[0] = 0
  /\ \A j \in 1..Len(counts) : u[j] = u[j - 1] + counts[j]
  /\ \A j \in 1..Len(counts) : Slices(seq, counts)[j] = SubSeq(seq, u[j - 1] + 1, u[j])

\* The places at which the slices begin.
LEMMA SlicesSteps ==
  ASSUME NEW seq, NEW counts \in Seq(Nat)
  PROVE  \E u : Sliced(u, seq, counts)
  <1> DEFINE V == Nat
             N == Len(counts)
             base == 0
             step == [p \in V \X (1..N) |-> p[1] + counts[p[2]]]
             Q(h) == h = [j \in 0..N |-> IF j = 0 THEN 0 ELSE h[j - 1] + counts[j]]
             r == CHOOSE h : Q(h)
  <1>1. base \in V /\ N \in Nat
    OBVIOUS
  <1>2. /\ step \in [V \X (1..N) -> V]
        /\ \A v \in V, n \in 1..N : step[<<v, n>>] = v + counts[n]
    <2>1. \A v \in V, n \in 1..N : v + counts[n] \in V
      OBVIOUS
    <2> HIDE DEF V
    <2> QED BY <2>1
  <1>3. \A j \in 1..N : Slices(seq, counts)[j] = SubSeq(seq, r[j - 1] + 1, r[j])
    <2>1. Slices(seq, counts) = [j \in DOMAIN counts |-> SubSeq(seq, r[j - 1] + 1, r[j])]
      BY Zenon DEF Slices
    <2>2. DOMAIN counts = 1..N
      OBVIOUS
    <2> HIDE DEF r, N
    <2> QED BY <2>1, <2>2
  <1> HIDE DEF step, V, base, N
  <1>4. PICK f : Solves(f, V, N, base, step)
    BY <1>1, <1>2, Recursion
  <1>5. f \in [0..N -> V] /\ f[0] = base /\ \A n \in 1..N : f[n] = step[<<f[n - 1], n>>]
    BY <1>4 DEF Solves
  <1>6. ASSUME NEW n \in 1..N PROVE f[n - 1] \in V /\ f[n] = f[n - 1] + counts[n]
    <2>1. n - 1 \in 0..N
      BY <1>1
    <2>2. f[n - 1] \in V
      BY <1>5, <2>1
    <2> QED BY <1>2, <1>5, <2>2, Zenon
  <1>7. Q(f)
    <2>1. ASSUME NEW n \in 0..N
          PROVE  f[n] = IF n = 0 THEN 0 ELSE f[n - 1] + counts[n]
      <3>1. n = 0 \/ n \in 1..N
        BY <1>1
      <3> QED BY <1>5, <1>6, <3>1 DEF base
    <2> QED BY <1>5, <2>1
  <1>8. Q(r)
    <2> HIDE DEF Q
    <2> QED BY <1>7
  <1> HIDE DEF r
  <1>9. Follows(r, V, N, base, step)
    <2>1. r[0] = base
      BY <1>1, <1>8 DEF base
    <2>2. ASSUME NEW n \in 1..N, r[n - 1] \in V PROVE r[n] = step[<<r[n - 1], n>>]
      <3>1. n \in 0..N /\ n # 0
        BY <1>1
      <3>2. r[n] = r[n - 1] + counts[n]
        BY <1>8, <3>1
      <3> HIDE DEF Q
      <3> QED BY <1>2, <2>2, <3>2
    <2> HIDE DEF Q
    <2> QED BY <2>1, <2>2 DEF Follows
  <1> HIDE DEF Q
  <1>10. \A n \in 0..N : r[n] = f[n]
    <2>1. Agree(f, r, N)
      BY <1>1, <1>4, <1>9, OneSolution
    <2> QED BY <2>1 DEF Agree
  <1>11. \A j \in 1..N : j \in 0..N /\ j - 1 \in 0..N
    BY <1>1
  <1>12. \A j \in 1..N : Slices(seq, counts)[j] = SubSeq(seq, f[j - 1] + 1, f[j])
    BY <1>3, <1>10, <1>11
  <1>13. Sliced(f, seq, counts)
    BY <1>5, <1>6, <1>12 DEF Sliced, V, N, base
  <1> QED BY <1>13

\* Cut by the lengths of what was put together, the whole falls into it again.
LEMMA SlicesOfWhole ==
  ASSUME NEW T, NEW seqs \in Seq(Seq(T)), NEW counts \in Seq(Nat), Len(counts) = Len(seqs),
         \A j \in 1..Len(seqs) : counts[j] = Len(seqs[j])
  PROVE  \A j \in 1..Len(seqs) : Slices(FlattenSeq(seqs), counts)[j] = seqs[j]
  <1> DEFINE N == Len(seqs)
             flat == FlattenSeq(seqs)
  <1>1. PICK u : Sliced(u, flat, counts)
    BY SlicesSteps
  <1>2. flat \in Seq(T)
    BY FlattenLaid
  <1>3. PICK o : /\ Offsets(o, N, seqs) /\ Laid(o, flat, seqs, N)
                 /\ \A n \in 0..N, j \in 0..N : j <= n => o[j] <= o[n]
    BY FlattenLaid
  <1>4. N \in Nat /\ \A j \in 1..N : seqs[j] \in Seq(T)
    <2> DEFINE V == Seq(T)
    <2> HIDE DEF V
    <2>1. seqs \in Seq(V)
      BY DEF V
    <2>2. N \in Nat /\ \A j \in 1..N : seqs[j] \in V
      BY <2>1
    <2> QED BY <2>2 DEF V
  <1> HIDE DEF flat, N
  <1>5. /\ u[0] = 0 /\ \A j \in 1..N : u[j] = u[j - 1] + counts[j]
        /\ \A j \in 1..N : Slices(flat, counts)[j] = SubSeq(flat, u[j - 1] + 1, u[j])
    BY <1>1 DEF Sliced, N
  <1>6. o \in [0..N -> Nat] /\ o[0] = 0 /\ \A j \in 1..N : o[j] = o[j - 1] + counts[j]
    BY <1>3 DEF Offsets, N
  <1> DEFINE G == {n \in 0..N : u[n] = o[n]}
  <1>7. 0 \in G
    BY <1>4, <1>5, <1>6
  <1>8. ASSUME NEW n \in 0..(N - 1), n \in G PROVE n + 1 \in G
    <2>1. n + 1 \in 1..N /\ n + 1 \in 0..N /\ (n + 1) - 1 = n
      BY <1>4
    <2> QED BY <1>5, <1>6, <1>8, <2>1
  <1> HIDE DEF G
  <1>9. 0..N \subseteq G
    BY <1>4, <1>7, <1>8, UpTo
  <1>10. ASSUME NEW j \in 1..N PROVE Slices(flat, counts)[j] = seqs[j]
    <2> DEFINE s == seqs[j]
               a == o[j - 1]
               b == o[j]
               cut == SubSeq(flat, a + 1, b)
    <2>1. j \in 0..N /\ j - 1 \in 0..N /\ N \in 0..N /\ j <= N
      BY <1>4
    <2>2. s \in Seq(T) /\ Len(s) \in Nat /\ DOMAIN s = 1..Len(s)
      BY <1>4
    <2>3. a \in Nat /\ b \in Nat /\ b = a + Len(s) /\ b <= o[N] /\ o[N] \in Nat
      BY <1>3, <1>6, <2>1 DEF Offsets
    <2>4. \A i \in 1..Len(s) : flat[a + i] = s[i]
      BY <1>3 DEF Laid
    <2>5. Slices(flat, counts)[j] = cut
      BY <1>5, <1>9, <2>1 DEF G
    <2>6. Len(flat) = o[N]
      BY <1>3 DEF Laid
    <2> HIDE DEF s, a, b
    <2>7. \A i \in (a + 1)..b : flat[i] \in T
      BY <1>2, <2>3, <2>6
    <2>8. /\ cut \in Seq(T) /\ Len(cut) = IF a + 1 <= b THEN b - (a + 1) + 1 ELSE 0
          /\ \A i \in 1..(b - (a + 1) + 1) : cut[i] = flat[(a + 1) + i - 1]
      BY <2>3, <2>7, SubSeqProperties
    <2> HIDE DEF cut
    <2>9. Len(cut) = Len(s) /\ b - (a + 1) + 1 = Len(s)
      BY <2>2, <2>3, <2>8
    <2>10. \A i \in 1..Len(s) : cut[i] = s[i]
      <3> TAKE i \in 1..Len(s)
      <3>1. (a + 1) + i - 1 = a + i
        BY <2>3
      <3> QED BY <2>4, <2>8, <2>9, <3>1
    <2>11. cut = s
      <3>1. DOMAIN cut = 1..Len(s)
        BY <2>8, <2>9
      <3>2. cut = [i \in 1..Len(s) |-> cut[i]] /\ s = [i \in 1..Len(s) |-> s[i]]
        BY <2>2, <2>8, <3>1
      <3> QED BY <2>10, <3>2
    <2> QED BY <2>5, <2>11 DEF s
  <1> QED BY <1>10 DEF N, flat

\* The number of samples is one for every window, even for one that has no frames.
LEMMA CountIsInteger ==
  ASSUME InputsInv, NEW c, Encoded(c), NEW w, Length(w) \in Int
  PROVE  FrameCount(w) \in Int
  <1> DEFINE l == Length(w)
             most == 2 * (Least(MaxSampled, l) \div 2)
             U == Rate
             X == l * opt.fps
             q == RoundDiv(X, 2 * U)
             n == FrameCount(w)
  <1>1. n = IF X <= MinSampled * U THEN Least(MinSampled, most)
            ELSE IF X >= most * U THEN most ELSE 2 * q
    BY Zenon DEF FrameCount
  <1>2. U \in Nat \ {0} /\ opt.fps \in Nat
    BY ClipNumbers
  <1>3. X \in Int
    <2>1. \A x, y \in Int : x * y \in Int
      OBVIOUS
    <2> HIDE DEF l
    <2> QED BY <1>2, <2>1 DEF l
  <1>4. most \in Int
    <2> DEFINE top == Least(MaxSampled, l)
    <2>1. top \in Int
      BY ClipFramesAssumption DEF Least
    <2> HIDE DEF top
    <2>2. 2 * (top \div 2) \in Int
      BY <2>1
    <2> QED BY <2>2 DEF top
  <1> HIDE DEF X, most, U, n
  <1>5. Least(MinSampled, most) \in Int
    BY <1>4 DEF Least, MinSampled
  <1>6. CASE X <= 4 * U
    BY <1>1, <1>5, <1>6 DEF MinSampled, n
  <1>7. CASE ~(X <= 4 * U)
    <2>1. X \in Nat /\ 2 * U \in Nat \ {0}
      BY <1>2, <1>3, <1>7
    <2>2. q \in Nat
      BY <2>1, Nearest
    <2> HIDE DEF q
    <2>3. n \in {most, 2 * q}
      BY <1>1, <1>7 DEF MinSampled
    <2> QED BY <1>4, <2>2, <2>3 DEF n
  <1> QED BY <1>6, <1>7

\* The windows of a clip lie in time, wherever they come from.
LEMMA WindowsAreCuts ==
  ASSUME InputsInv, NEW c, Encoded(c)
  PROVE  WindowsOf(c) \in Seq(Cut)
  <1>1. CASE opt.gt # <<>>
    <2>1. opt.gt \in Seq([start : Nat, end : Nat])
      BY DEF InputsInv, Options
    <2>2. [start : Nat, end : Nat] \subseteq Cut
      BY DEF Cut
    <2> DEFINE R == [start : Nat, end : Nat]
    <2> HIDE DEF R
    <2>3. opt.gt \in Seq(Cut)
      <3> DEFINE gt == opt.gt
      <3> HIDE DEF gt
      <3>1. gt \in Seq(R)
        BY <2>1 DEF R, gt
      <3>2. Len(gt) \in Nat /\ gt = [k \in 1..Len(gt) |-> gt[k]] /\ \A k \in 1..Len(gt) : gt[k] \in R
        BY <3>1
      <3>3. \A k \in 1..Len(gt) : gt[k] \in Cut
        BY <2>2, <3>2 DEF R
      <3> HIDE DEF Cut
      <3>4. gt \in Seq(Cut)
        BY <3>2, <3>3, FunctionIsSeq
      <3> QED BY <3>4 DEF gt
    <2> QED BY <1>1, <2>3 DEF WindowsOf
  <1>2. CASE opt.gt = <<>>
    <2>1. c.frames \in Nat /\ opt \in Options
      BY ClipNumbers DEF InputsInv
    <2>2. WindowsOf(c) = Windows(c.frames)
      BY <1>2 DEF WindowsOf
    <2>3. CASE c.frames < 4
      BY <2>2, <2>3 DEF Windows, WindowMinFrames
    <2>4. CASE c.frames >= 4
      BY <2>1, <2>2, <2>4, WindowsCover DEF Cover, Cut
    <2> QED BY <2>1, <2>3, <2>4
  <1> QED BY <1>1, <1>2

\* Of a window that Sound admits two frames and more can be sampled.
LEMMA SoundIsInner ==
  ASSUME InputsInv, NEW c, Encoded(c), Sound(c, WindowsOf(c)), NEW j \in DOMAIN WindowsOf(c)
  PROVE  Inner(WindowsOf(c)[j], c.frames)
  <1> DEFINE w == WindowsOf(c)[j]
  <1>1. w \in Cut
    BY WindowsAreCuts
  <1>2. w.start \in Nat /\ w.end \in Int
    BY <1>1 DEF Cut
  <1>3. Length(w) >= 2 /\ w.end < c.frames
    BY DEF Sound
  <1>4. w.end \in Nat /\ Length(w) \in Nat
    BY <1>2, <1>3 DEF Length
  <1> QED BY <1>2, <1>3, <1>4 DEF Inner

IdSeqs(c) == [j \in DOMAIN WindowsOf(c) |-> FrameIds(WindowsOf(c)[j])]

WindowCounts(c) == [j \in DOMAIN WindowsOf(c) |-> FrameCount(WindowsOf(c)[j])]

Once(ids) == [k \in DOMAIN ids |-> [frame |-> ids[k], count |-> 1]]

\* The sampled frames are slices of one decoded sequence.
LEMMA PreparedSampled ==
  ASSUME NEW c, Encoded(c)
  PROVE  Prepared(c).sampled = Slices(Decode(Once(FlattenSeq(IdSeqs(c))), c.frames), WindowCounts(c))
  <1>1. \A x, y : [c EXCEPT !.windows = x, !.sampled = y].sampled = y
    BY DEF Encoded
  <1> QED BY <1>1, Zenon DEF Prepared, IdSeqs, WindowCounts, Once

\* A rising sequence of numbers wanted once each is decoded as it is.
LEMMA DecodeOnce ==
  ASSUME NEW F \in Nat, NEW ids \in Seq(Nat), Sorted(ids, Increasing),
         \A k \in 1..Len(ids) : ids[k] < F
  PROVE  Decode(Once(ids), F) = ids
  <1> DEFINE N == Len(ids)
             w == Counted(ids, ids)
  <1>1. N \in Nat /\ DOMAIN ids = 1..N /\ \A k \in 1..N : ids[k] \in Nat
    OBVIOUS
  <1>2. \A i, j \in 1..N : i < j => ids[i] < ids[j]
    BY <1>1 DEF Sorted, Increasing
  <1> HIDE DEF N
  <1>3. \A j \in 1..N : Cardinality({k \in DOMAIN ids : ids[k] = ids[j]}) = 1
    <2> TAKE j \in 1..N
    <2> DEFINE S == {k \in DOMAIN ids : ids[k] = ids[j]}
    <2>1. j \in S
      BY <1>1
    <2>2. \A k \in S : k = j
      <3> TAKE k \in S
      <3>1. k \in 1..N /\ ids[k] = ids[j]
        BY <1>1
      <3>2. ~(k < j) /\ ~(j < k)
        BY <1>1, <1>2, <3>1
      <3> QED BY <1>1, <3>1, <3>2
    <2> HIDE DEF S
    <2>3. Cardinality(S) = 1
      BY <2>1, <2>2, OneMember
    <2> QED BY <2>3 DEF S
  <1>4. Once(ids) = w
    BY <1>1, <1>3 DEF Once, Counted
  <1>5. /\ w \in Seq(Numbered) /\ Len(w) = N
        /\ \A j \in 1..N : w[j].frame = ids[j]
    BY CountedIs DEF N
  <1> HIDE DEF w
  <1>6. Decode(w, F) = FlattenSeq(Runs(w))
    <2>1. \A i, j \in 1..Len(w) : i < j => w[i].frame < w[j].frame
      BY <1>2, <1>5
    <2>2. \A j \in 1..Len(w) : w[j].frame < F
      BY <1>5 DEF N
    <2> QED BY <1>5, <2>1, <2>2, DecodeAll
  <1>7. Rises(ids) /\ Lists(ids, ids)
    BY <1>1, <1>2 DEF Rises, Lists
  <1>8. FlattenSeq(Runs(w)) = ids
    BY <1>7, RunsOfCounted DEF w
  <1> QED BY <1>4, <1>6, <1>8

\* The captioner gets of each window the frames that were chosen for it.
LEMMA SampledAreIds ==
  ASSUME InputsInv, NEW c, Encoded(c), Sound(c, WindowsOf(c)), NEW j \in DOMAIN WindowsOf(c)
  PROVE  Prepared(c).sampled[j] = FrameIds(WindowsOf(c)[j])
  <1> DEFINE ws == WindowsOf(c)
             N == Len(ws)
             F == c.frames
             B == 0..(F - 1)
             seqs == IdSeqs(c)
             flat == FlattenSeq(seqs)
             counts == WindowCounts(c)
  <1>1. ws \in Seq(Cut) /\ N \in Nat /\ DOMAIN ws = 1..N
    <2>1. ws \in Seq(Cut)
      BY WindowsAreCuts
    <2> HIDE DEF ws
    <2> QED BY <2>1
  <1>2. F \in Nat \ {0}
    BY ClipNumbers
  <1>3. ASSUME NEW k \in 1..N
        PROVE  /\ FrameIds(ws[k]) \in Seq(B) /\ Len(FrameIds(ws[k])) = FrameCount(ws[k])
               /\ \A i \in DOMAIN FrameIds(ws[k]) : FrameIds(ws[k])[i] \in ws[k].start..ws[k].end
               /\ Sorted(FrameIds(ws[k]), Increasing)
               /\ FrameCount(ws[k]) \in Nat /\ ws[k].start \in Nat /\ ws[k].end \in Nat
    <2>1. Inner(ws[k], F)
      BY <1>1, SoundIsInner
    <2>2. FrameCount(ws[k]) \in Nat
      <3>1. FrameCount(ws[k]) \in 2..Length(ws[k])
        BY <2>1, CountInRange DEF Inner
      <3>2. Length(ws[k]) \in Nat
        BY <2>1 DEF Inner
      <3> HIDE DEF ws
      <3> QED BY <3>1, <3>2
    <2> QED BY <2>1, <2>2, IdsOfWindow DEF Inner
  <1>4. \A k, l \in 1..N : k < l => ws[k].end < ws[l].start
    BY <1>1 DEF Sound
  <1> HIDE DEF ws, N
  <1>5. /\ seqs = [k \in 1..N |-> FrameIds(ws[k])]
        /\ counts = [k \in 1..N |-> FrameCount(ws[k])]
    BY <1>1, Zenon DEF IdSeqs, WindowCounts, ws
  <1>6. /\ seqs \in Seq(Seq(B)) /\ Len(seqs) = N /\ DOMAIN seqs = 1..N
        /\ \A k \in 1..N : seqs[k] = FrameIds(ws[k])
    <2> DEFINE V == Seq(B)
    <2>1. \A k \in 1..N : seqs[k] = FrameIds(ws[k]) /\ seqs[k] \in V
      BY <1>3, <1>5
    <2>2. seqs = [k \in 1..N |-> seqs[k]]
      BY <1>5
    <2> HIDE DEF seqs, V
    <2>3. seqs \in Seq(V) /\ Len(seqs) = N /\ DOMAIN seqs = 1..N
      BY <1>1, <2>1, <2>2, FunctionIsSeq
    <2> QED BY <2>1, <2>3 DEF V
  <1>7. /\ counts \in Seq(Nat) /\ Len(counts) = N
        /\ \A k \in 1..N : counts[k] = FrameCount(ws[k])
    <2>1. \A k \in 1..N : counts[k] = FrameCount(ws[k]) /\ counts[k] \in Nat
      BY <1>3, <1>5
    <2>2. counts = [k \in 1..N |-> counts[k]]
      BY <1>5
    <2> HIDE DEF counts
    <2> QED BY <1>1, <2>1, <2>2, FunctionIsSeq
  <1>8. \A k \in 1..N : Sorted(seqs[k], Increasing)
    BY <1>3, <1>6
  <1>9. Apart(seqs, Increasing)
    <2> SUFFICES ASSUME NEW k \in 1..N, NEW l \in 1..N, k < l,
                        NEW a \in DOMAIN seqs[k], NEW b \in DOMAIN seqs[l]
                 PROVE  <<seqs[k][a], seqs[l][b]>> \in Increasing
      BY <1>6 DEF Apart
    <2>1. seqs[k][a] \in ws[k].start..ws[k].end /\ seqs[l][b] \in ws[l].start..ws[l].end
      BY <1>3, <1>6
    <2>2. ws[k].start \in Nat /\ ws[k].end \in Nat /\ ws[l].start \in Nat /\ ws[l].end \in Nat
      BY <1>3
    <2>3. ws[k].end < ws[l].start
      BY <1>4
    <2> DEFINE x == seqs[k][a]
               y == seqs[l][b]
    <2>4. x \in Nat /\ y \in Nat /\ x < y
      <3> HIDE DEF x, y
      <3> QED BY <2>1, <2>2, <2>3 DEF x, y
    <2> HIDE DEF x, y
    <2>5. <<x, y>> \in Increasing
      BY <2>4 DEF Increasing
    <2> QED BY <2>5 DEF x, y
  <1> HIDE DEF seqs, counts, F
  <1>10. flat \in Seq(B)
    <2> HIDE DEF B
    <2> QED BY <1>6, FlattenLaid
  <1>11. Sorted(flat, Increasing)
    <2> HIDE DEF B
    <2> QED BY <1>6, <1>8, <1>9, FlatSorted
  <1> HIDE DEF flat
  <1>12. flat \in Seq(Nat) /\ \A k \in 1..Len(flat) : flat[k] < F
    <2>1. \A k \in 1..Len(flat) : flat[k] \in B
      <3> HIDE DEF B
      <3> QED BY <1>10
    <2>2. \A x \in B : x \in Nat /\ x < F
      BY <1>2
    <2>3. Len(flat) \in Nat /\ flat = [k \in 1..Len(flat) |-> flat[k]]
      BY <1>10
    <2>4. \A k \in 1..Len(flat) : flat[k] \in Nat /\ flat[k] < F
      BY <2>1, <2>2
    <2> QED BY <2>3, <2>4, FunctionIsSeq
  <1>13. Decode(Once(flat), F) = flat
    BY <1>2, <1>11, <1>12, DecodeOnce
  <1>14. \A k \in 1..N : Slices(flat, counts)[k] = seqs[k]
    <2>1. \A k \in 1..Len(seqs) : counts[k] = Len(seqs[k])
      BY <1>3, <1>6, <1>7
    <2> HIDE DEF B
    <2> QED BY <1>6, <1>7, <2>1, SlicesOfWhole DEF flat
  <1>15. Prepared(c).sampled = Slices(flat, counts)
    BY <1>13, PreparedSampled DEF flat, seqs, counts, F
  <1>16. j \in 1..N
    BY <1>1 DEF ws
  <1> QED BY <1>6, <1>14, <1>15, <1>16 DEF ws

\* What the windows of a clip show.
ShownRight(c) ==
  /\ Len(c.sampled) = Len(c.windows)
  /\ Sound(c, c.windows) => \A j \in DOMAIN c.windows : Faithful(c, j)
  /\ Computed => Sound(c, c.windows)

\* Preparation gives every window of a sound clip its own frames, in order.
LEMMA PreparedShowsRight ==
  ASSUME InputsInv, NEW c, Encoded(c),
         \A j \in DOMAIN WindowsOf(c) : InRange(WindowsOf(c)[j])
  PROVE  ShownRight(Prepared(c))
  <1> DEFINE d == Prepared(c)
             ws == WindowsOf(c)
  <1>1. d.frames = c.frames /\ d.windows = ws
    BY PreparedFields
  <1>2. ws \in Seq(Cut) /\ Len(ws) \in Nat /\ DOMAIN ws = 1..Len(ws)
    <2>1. ws \in Seq(Cut)
      BY WindowsAreCuts
    <2> HIDE DEF ws
    <2> QED BY <2>1
  <1>3. Len(d.sampled) = Len(ws)
    <2> DEFINE read == Decode(Once(FlattenSeq(IdSeqs(c))), c.frames)
               counts == WindowCounts(c)
    <2>1. d.sampled = Slices(read, counts)
      BY PreparedSampled
    <2>2. DOMAIN counts = DOMAIN ws
      BY DEF WindowCounts
    <2>3. \E g : Slices(read, counts) = [j \in DOMAIN counts |-> g[j]]
      <3> DEFINE s == Slices(read, counts)
                 at == CHOOSE u : u = [j \in 0..Len(counts) |-> IF j = 0 THEN 0 ELSE u[j - 1] + counts[j]]
      <3>1. s = [j \in DOMAIN counts |-> SubSeq(read, at[j - 1] + 1, at[j])]
        BY Zenon DEF Slices
      <3> HIDE DEF at, s
      <3>2. s = [j \in DOMAIN counts |-> s[j]]
        BY <3>1
      <3> QED BY <3>2 DEF s
    <2> HIDE DEF d, ws, read, counts
    <2>4. PICK g : d.sampled = [j \in 1..Len(ws) |-> g[j]]
      BY <1>2, <2>1, <2>2, <2>3
    <2> QED BY <1>2, <2>4
  <1>4. Sound(d, ws) <=> Sound(c, ws)
    BY <1>1 DEF Sound
  <1>5. ASSUME Sound(c, ws), NEW j \in DOMAIN ws PROVE Faithful(d, j)
    <2> DEFINE w == ws[j]
               shown == d.sampled[j]
    <2>1. shown = FrameIds(w)
      BY <1>5, SampledAreIds
    <2>2. Inner(w, c.frames)
      BY <1>5, SoundIsInner
    <2>3. FrameCount(w) \in 2..Length(w) /\ FrameCount(w) <= MaxSampled /\ Length(w) \in Nat
      BY <2>2, CountInRange DEF Inner
    <2>4. /\ shown \in Seq(0..(c.frames - 1)) /\ Len(shown) = FrameCount(w)
          /\ \A k \in DOMAIN shown : shown[k] \in w.start..w.end
          /\ Sorted(shown, Increasing)
      BY <2>1, <2>2, IdsOfWindow
    <2> HIDE DEF shown, w
    <2>5. \A k, l \in DOMAIN shown : k < l => shown[k] < shown[l]
      BY <2>4 DEF Sorted, Increasing
    <2>6. Len(shown) \in 2..MaxSampled
      <3>1. MaxSampled \in Nat
        BY ClipFramesAssumption
      <3> QED BY <2>3, <2>4, <3>1
    <2>7. d.windows[j] = w
      BY <1>1 DEF w
    <2> QED BY <2>4, <2>5, <2>6, <2>7 DEF Faithful, InWindow, shown
  <1>6. ASSUME Computed PROVE Sound(c, ws)
    <2>1. ws = Windows(c.frames) /\ c.frames \in Nat /\ opt \in Options
      BY <1>6, ClipNumbers DEF Computed, WindowsOf, InputsInv
    <2>2. CASE c.frames < 4
      <3>1. ws = <<>>
        BY <2>1, <2>2 DEF Windows, WindowMinFrames
      <3> QED BY <3>1 DEF Sound
    <2>3. CASE c.frames >= 4
      <3>1. Cover(ws, c.frames)
        BY <2>1, <2>3, WindowsCover
      <3> HIDE DEF ws
      <3>2. ASSUME NEW j \in DOMAIN ws
            PROVE  Length(ws[j]) >= 2 /\ ws[j].start >= 0 /\ ws[j].end < c.frames
        <4>1. ws[j] \in Cut
          BY <1>2
        <4>2. ws[j].start \in Nat /\ ws[j].end \in Int /\ Length(ws[j]) \in Int
          BY <4>1 DEF Cut, Length
        <4>3. InRange(ws[j])
          BY DEF ws
        <4>4. FrameCount(ws[j]) \in Int
          BY <4>2, CountIsInteger
        <4> QED BY <3>1, <4>2, <4>3, <4>4 DEF InRange, Cover
      <3> QED BY <3>1, <3>2 DEF Cover, Sound
    <2> QED BY <2>1, <2>2, <2>3
  <1> QED BY <1>1, <1>3, <1>4, <1>5, <1>6 DEF ShownRight

\* Every step keeps the promise of the sampled frames.
LEMMA StepFrames ==
  ASSUME ClipsInv, FramesMatchWindows, [Next]_vars
  PROVE  FramesMatchWindows'
  <1> DEFINE Right(u) ==
               /\ tasks[u].stage = "prepared" => \A i \in DOMAIN tasks[u].clips : ShownRight(tasks[u].clips[i])
               /\ tasks[u].stage = "raised" =>
                    \E i \in DOMAIN tasks[u].clips : ~Sound(tasks[u].clips[i], WindowsOf(tasks[u].clips[i]))
  <1>1. \A u \in DOMAIN tasks : Right(u)
    BY DEF FramesMatchWindows, ShownRight
  <1>2. SUFFICES \A u \in DOMAIN tasks' : Right(u)'
    BY DEF FramesMatchWindows, ShownRight
  <1>3. opt' = opt /\ InputsInv
    BY DEF Next, vars, DetectShots, CutByStride, Transcode, ExtractFrames, PrepareWindows, ClipsInv
  <1>4. \A c : (ShownRight(c))' <=> ShownRight(c)
    BY <1>3 DEF ShownRight, Computed, Sound, Faithful, InWindow
  <1>5. \A c : (Sound(c, WindowsOf(c)))' <=> Sound(c, WindowsOf(c))
    BY <1>3 DEF Sound, WindowsOf, Windows
  <1>6. CASE DetectShots \/ CutByStride
    <2>1. tasks' = <<>>
      BY <1>6 DEF ClipsInv, TasksInv, DetectShots, CutByStride
    <2> QED BY <2>1
  <1>7. CASE Transcode
    <2>1. \A u \in DOMAIN tasks' : tasks'[u].stage = "transcoded"
      BY <1>7 DEF Transcode
    <2> QED BY <2>1
  <1>8. ASSUME NEW t \in DOMAIN tasks, ExtractFrames(t) \/ PrepareWindows(t)
        PROVE  \A u \in DOMAIN tasks' : Right(u)'
    <2>1. DOMAIN tasks' = DOMAIN tasks /\ \A u \in DOMAIN tasks : u # t => tasks'[u] = tasks[u]
      BY <1>8, ChunkSteps
    <2>2. ASSUME NEW u \in DOMAIN tasks, u # t PROVE Right(u)'
      <3>1. tasks'[u] = tasks[u]
        BY <2>1, <2>2
      <3>2. Right(u)
        BY <1>1
      <3> QED BY <1>4, <1>5, <3>1, <3>2
    <2>3. ASSUME tasks'[t].stage = "prepared", NEW i \in DOMAIN tasks'[t].clips
          PROVE  ShownRight(tasks'[t].clips[i])
      <3> DEFINE c == tasks[t].clips[i]
      <3>1. i \in DOMAIN tasks[t].clips /\ Encoded(c) /\ tasks'[t].clips[i] = Prepared(c)
        BY <1>8, <2>3, ChunkSteps
      <3>2. \A j \in DOMAIN WindowsOf(c) : InRange(WindowsOf(c)[j])
        BY <1>8, <2>3, <3>1, ChunkSteps
      <3> HIDE DEF c
      <3> QED BY <1>3, <3>1, <3>2, PreparedShowsRight
    <2>4. ASSUME tasks'[t].stage = "raised"
          PROVE  \E i \in DOMAIN tasks'[t].clips : ~Sound(tasks'[t].clips[i], WindowsOf(tasks'[t].clips[i]))
      <3>1. PICK i \in DOMAIN tasks[t].clips : \E j \in DOMAIN WindowsOf(tasks[t].clips[i]) :
                                                 ~InRange(WindowsOf(tasks[t].clips[i])[j])
        BY <1>8, <2>4, ChunkSteps
      <3> DEFINE c == tasks[t].clips[i]
      <3>2. i \in DOMAIN tasks'[t].clips /\ tasks'[t].clips[i] = c /\ Encoded(c)
        BY <1>8, <2>4, ChunkSteps
      <3>3. PICK j \in DOMAIN WindowsOf(c) : ~InRange(WindowsOf(c)[j])
        BY <3>1
      <3> HIDE DEF c
      <3>4. ~Sound(c, WindowsOf(c))
        <4>1. ASSUME Sound(c, WindowsOf(c)) PROVE FALSE
          <5>1. Inner(WindowsOf(c)[j], c.frames)
            BY <1>3, <3>2, <4>1, SoundIsInner
          <5> QED BY <1>3, <3>2, <3>3, <5>1, CountInRange DEF Inner
        <4> QED BY <4>1
      <3> QED BY <3>2, <3>4
    <2>5. Right(t)'
      <3>1. \A i \in DOMAIN tasks'[t].clips : tasks'[t].stage = "prepared" => (ShownRight(tasks[t].clips[i]))'
        BY <1>4, <2>3
      <3>2. tasks'[t].stage = "raised" =>
              \E i \in DOMAIN tasks'[t].clips : (Sound(tasks[t].clips[i], WindowsOf(tasks[t].clips[i])))' = FALSE
        BY <1>5, <2>4
      <3> QED BY <3>1, <3>2
    <2> QED BY <2>1, <2>2, <2>5
  <1>9. CASE UNCHANGED vars
    BY <1>1, <1>4, <1>5, <1>9 DEF vars
  <1> QED BY <1>6, <1>7, <1>8, <1>9 DEF Next

\* The captioner is shown of a window frames of that window, in order and each once, and
\* preparation raises only for windows that cannot be sampled.
THEOREM FramesAreOfWindows == Spec => []FramesMatchWindows
  <1>1. Init => FramesMatchWindows
    BY DEF Init, FramesMatchWindows
  <1> QED BY <1>1, StepFrames, Clips, PTL DEF Spec
-----------------------------------------------------------------------------
(* Frames at several rates.                                                *)

\* Of F frames, one every s, x is the closest to w, the earlier of two.
ClosestOf(x, s, F, w) ==
  /\ x \in 0..(F - 1)
  /\ \A g \in 0..(F - 1) : (g < x => (g + x) * s < 2 * w) /\ (x < g => 2 * w <= (g + x) * s)

\* The frame closest to a later time is no earlier.
LEMMA ClosestRises ==
  ASSUME NEW s \in Nat, NEW F \in Nat, NEW v \in Nat, NEW w \in Nat, v <= w,
         NEW x, NEW y, ClosestOf(x, s, F, v), ClosestOf(y, s, F, w)
  PROVE  x <= y
  <1>1. x \in 0..(F - 1) /\ y \in 0..(F - 1)
    BY DEF ClosestOf
  <1>2. ASSUME y < x PROVE FALSE
    <2>1. (y + x) * s < 2 * v /\ 2 * w <= (x + y) * s
      BY <1>1, <1>2 DEF ClosestOf
    <2>2. (x + y) * s = (y + x) * s /\ (y + x) * s \in Int
      BY <1>1
    <2> QED BY <2>1, <2>2
  <1> QED BY <1>1, <1>2

Gap(a, b) == Most(a - b, -(a - b))

\* No frame is nearer than the closest one.
LEMMA ClosestDistance ==
  ASSUME NEW s \in Nat, NEW F \in Nat, NEW w \in Nat, NEW x, ClosestOf(x, s, F, w),
         NEW g \in 0..(F - 1)
  PROVE  Gap(x * s, w) <= Gap(g * s, w)
  <1> DEFINE X == x * s
             G == g * s
  <1>1. x \in 0..(F - 1)
    BY DEF ClosestOf
  <1>2. X \in Int /\ G \in Int /\ (g + x) * s = G + X
    BY <1>1
  <1>3. g < x => G + X < 2 * w /\ G <= X
    BY <1>1, <1>2, Grows DEF ClosestOf
  <1>4. x < g => 2 * w <= G + X /\ X <= G
    BY <1>1, <1>2, Grows DEF ClosestOf
  <1>5. g = x => G = X
    OBVIOUS
  <1>6. g < x \/ x < g \/ g = x
    BY <1>1
  <1> HIDE DEF X, G
  <1>7. Gap(X, w) <= Gap(G, w)
    BY <1>2, <1>3, <1>4, <1>5, <1>6 DEF Gap, Most
  <1> QED BY <1>7 DEF X, G

\* Distances scale.
LEMMA GapScaled ==
  ASSUME NEW a \in Int, NEW b \in Int, NEW n \in Nat
  PROVE  Gap(a, b) \in Nat /\ Gap(a * n, b * n) = Gap(a, b) * n
  <1>1. a * n \in Int /\ b * n \in Int /\ (a - b) * n = a * n - b * n /\ (b - a) * n = b * n - a * n
    OBVIOUS
  <1>2. CASE a <= b
    <2>1. a * n <= b * n
      BY <1>2, Grows
    <2>2. Gap(a, b) = b - a /\ Gap(a * n, b * n) = b * n - a * n
      BY <1>1, <1>2, <2>1 DEF Gap, Most
    <2> QED BY <1>1, <1>2, <2>2
  <1>3. CASE b <= a
    <2>1. b * n <= a * n
      BY <1>3, Grows
    <2>2. Gap(a, b) = a - b /\ Gap(a * n, b * n) = a * n - b * n
      BY <1>1, <1>3, <2>1 DEF Gap, Most
    <2> QED BY <1>1, <1>3, <2>2
  <1> QED BY <1>2, <1>3

\* The nearer one of the frames on either side.
LEMMA ClosestOfTwo ==
  ASSUME NEW s \in Nat \ {0}, NEW F \in Nat, NEW w \in Nat, NEW h \in 1..(F - 1),
         (h - 1) * s <= w, w <= h * s
  PROVE  ClosestOf(IF h * s - w < w - (h - 1) * s THEN h ELSE h - 1, s, F, w)
  <1> DEFINE A == h * s
             B == (h - 1) * s
  <1>1. A \in Int /\ B \in Int /\ h - 1 \in 0..(F - 1) /\ h \in 0..(F - 1) /\ h \in Nat
    OBVIOUS
  <1>2. \A g \in 0..(F - 1) : g * s \in Int /\ (g + h) * s = g * s + A /\ (g + (h - 1)) * s = g * s + B
    BY <1>1
  <1>3. \A g \in 0..(F - 1) : (g <= h - 1 => g * s <= B) /\ (h <= g => A <= g * s)
    BY <1>1, Grows
  <1>4. \A g \in 0..(F - 1) : g < h - 1 => g * s < B
    BY <1>1, GrowsStrictly
  <1>5. \A g \in 0..(F - 1) : g < h <=> g <= h - 1
    BY <1>1
  <1>6. CASE A - w < w - B
    <2>1. ASSUME NEW g \in 0..(F - 1)
          PROVE  (g < h => (g + h) * s < 2 * w) /\ (h < g => 2 * w <= (g + h) * s)
      <3> DEFINE G == g * s
      <3>1. G \in Int /\ (g + h) * s = G + A
        BY <1>2
      <3>2. (g < h => G <= B) /\ (h < g => A <= G)
        BY <1>1, <1>3, <1>5
      <3> HIDE DEF A, B, G
      <3>3. (g < h => G + A < 2 * w) /\ (h < g => 2 * w <= G + A)
        <4>1. w <= A /\ B <= w
          BY DEF A, B
        <4> QED BY <1>1, <1>6, <3>1, <3>2, <4>1
      <3> QED BY <3>1, <3>3
    <2>2. ClosestOf(h, s, F, w)
      BY <1>1, <2>1 DEF ClosestOf
    <2> QED BY <1>6, <2>2
  <1>7. CASE ~(A - w < w - B)
    <2> DEFINE x == h - 1
    <2>1. ASSUME NEW g \in 0..(F - 1)
          PROVE  (g < x => (g + x) * s < 2 * w) /\ (x < g => 2 * w <= (g + x) * s)
      <3> DEFINE G == g * s
      <3>1. G \in Int /\ (g + x) * s = G + B
        BY <1>2
      <3>2. (g < x => G < B) /\ (x < g => A <= G)
        BY <1>1, <1>3, <1>4
      <3> HIDE DEF A, B, G
      <3>3. (g < x => G + B < 2 * w) /\ (x < g => 2 * w <= G + B)
        <4>1. w <= A /\ B <= w
          BY DEF A, B
        <4> QED BY <1>1, <1>7, <3>1, <3>2, <4>1
      <3> QED BY <3>1, <3>3
    <2>2. ClosestOf(x, s, F, w)
      <3>1. x \in 0..(F - 1)
        BY <1>1
      <3> HIDE DEF x
      <3> QED BY <2>1, <3>1 DEF ClosestOf
    <2> QED BY <1>7, <2>2
  <1> QED BY <1>6, <1>7

NearFrame(s, F, w) ==
  LET right == Least(Most(Cardinality({i \in 0..(F - 1) : i * s < w}), 1), F - 1)
  IN IF w >= (F - 1) * s THEN F - 1
     ELSE IF right * s - w < w - (right - 1) * s THEN right ELSE right - 1

\* The frame that the search finds is the closest.
LEMMA NearFrameIsClosest ==
  ASSUME NEW s \in Nat \ {0}, NEW F \in Nat \ {0}, NEW w \in Nat
  PROVE  ClosestOf(NearFrame(s, F, w), s, F, w)
  <1> DEFINE S == {i \in 0..(F - 1) : i * s < w}
             P == {i \in 1..(F - 1) : i * s < w}
             n == Cardinality(P)
             M == F - 1
  <1>0. M \in Nat /\ M * s \in Nat
    OBVIOUS
  <1>1. CASE w >= M * s
    <2>1. NearFrame(s, F, w) = M
      BY <1>1 DEF NearFrame
    <2>2. ASSUME NEW g \in 0..M
          PROVE  (g < M => (g + M) * s < 2 * w) /\ (M < g => 2 * w <= (g + M) * s)
      <3>1. g * s \in Int /\ (g + M) * s = g * s + M * s
        BY <1>0
      <3>2. g < M => g * s < M * s
        BY <1>0, GrowsStrictly
      <3> QED BY <1>0, <1>1, <3>1, <3>2
    <2>3. ClosestOf(M, s, F, w)
      BY <1>0, <2>2 DEF ClosestOf
    <2> QED BY <2>1, <2>3
  <1>2. CASE ~(w >= M * s)
    <2>1. M >= 1
      BY <1>0, <1>2
    <2>2. /\ n \in Nat /\ 0 + n <= M
          /\ \A k \in Nat : k \in P <=> 0 < k /\ k <= 0 + n
      <3>1. P \subseteq (0 + 1)..M
        OBVIOUS
      <3>2. \A i \in P, k \in (0 + 1)..M : k < i => k \in P
        <4>1. ASSUME NEW i \in P, NEW k \in (0 + 1)..M, k < i PROVE k \in P
          <5>1. k * s <= i * s /\ i * s < w /\ k * s \in Int /\ i * s \in Int
            BY <4>1, Grows
          <5> QED BY <5>1
        <4> QED BY <4>1
      <3>3. 0 \in Nat /\ M \in Nat /\ 0 <= M
        <4> HIDE DEF M
        <4> QED BY <1>0
      <3> HIDE DEF P, M
      <3> DEFINE z == 0
      <3>4. /\ z \in Nat /\ M \in Nat /\ z <= M /\ P \subseteq (z + 1)..M
            /\ \A i \in P, k \in (z + 1)..M : k < i => k \in P
        BY <3>1, <3>2, <3>3
      <3> HIDE DEF z
      <3>5. /\ Cardinality(P) \in Nat /\ z + Cardinality(P) <= M
            /\ \A k \in Nat : k \in P <=> z < k /\ k <= z + Cardinality(P)
        BY <3>4, LeadingPart
      <3> QED BY <3>5 DEF z
    <2>3. n < M
      <3>1. M \notin P
        BY <1>0, <1>2
      <3> HIDE DEF P, M, n
      <3> QED BY <1>0, <2>1, <2>2, <3>1
    <2>4. Least(Most(Cardinality(S), 1), M) = n + 1
      <3>1. CASE w = 0
        <4>1. \A i \in 0..M : i * s >= 0
          BY <1>0
        <4>2. S = {} /\ P = {}
          BY <3>1, <4>1
        <4>3. Cardinality(S) = 0 /\ n = 0
          BY <4>2, FS_EmptySet
        <4> HIDE DEF S, n, M
        <4> QED BY <1>0, <2>1, <4>3 DEF Least, Most
      <3>2. CASE w # 0
        <4>1. S = P \cup {0}
          BY <1>0, <3>2
        <4>2. 0 \notin P /\ IsFiniteSet(P)
          <5>1. IsFiniteSet(1..M)
            <6>1. 1 \in Int /\ M \in Int
              BY <1>0
            <6> QED BY <6>1, FS_Interval
          <5>2. P \subseteq 1..M /\ 0 \notin P
            BY <1>0
          <5> HIDE DEF P, M
          <5> QED BY <5>1, <5>2, FS_Subset
        <4>3. Cardinality(S) = n + 1
          BY <4>1, <4>2, FS_AddElement
        <4> HIDE DEF S, n, M
        <4> QED BY <1>0, <2>2, <2>3, <4>3 DEF Least, Most
      <3> QED BY <3>1, <3>2
    <2>5. n * s <= w
      <3>1. CASE n = 0
        BY <3>1
      <3>2. CASE n # 0
        <4>1. n \in P
          BY <2>2, <3>2
        <4>2. n * s < w /\ n * s \in Int
          BY <2>2, <4>1
        <4> QED BY <4>2
      <3> QED BY <3>1, <3>2
    <2>6. w <= (n + 1) * s
      <3>1. n + 1 \notin P /\ n + 1 \in 1..M
        <4> HIDE DEF P, n, M
        <4> QED BY <1>0, <2>2, <2>3
      <3>2. ~((n + 1) * s < w) /\ (n + 1) * s \in Int
        <4> HIDE DEF n
        <4> QED BY <2>2, <3>1
      <3> QED BY <3>2
    <2> DEFINE h == n + 1
    <2>7. h \in 1..M /\ (h - 1) * s <= w /\ w <= h * s
      <3>1. h - 1 = n /\ h \in 1..M
        <4> HIDE DEF n, M
        <4> QED BY <1>0, <2>2, <2>3
      <3> HIDE DEF n
      <3> QED BY <2>5, <2>6, <3>1
    <2>8. NearFrame(s, F, w) = IF h * s - w < w - (h - 1) * s THEN h ELSE h - 1
      BY <1>2, <2>4 DEF NearFrame
    <2> HIDE DEF h
    <2> QED BY <2>7, <2>8, ClosestOfTwo
  <1> QED BY <1>1, <1>2

\* So is the one for the k-th sample of a clip at rate r.
LEMMA ClosestFrameIs ==
  ASSUME InputsInv, NEW c, Encoded(c), NEW r \in Nat \ {0}, NEW k \in Nat
  PROVE  ClosestOf(ClosestFrame(c, r, k), r, c.frames, k * Rate)
  <1> DEFINE F == c.frames
             w == k * Rate
  <1>1. F \in Nat \ {0} /\ Rate \in Nat
    BY ClipNumbers
  <1>2. w \in Nat
    BY <1>1
  <1>3. ClosestFrame(c, r, k) = NearFrame(r, F, w)
    BY DEF ClosestFrame, NearFrame
  <1> HIDE DEF F, w
  <1>4. ClosestOf(NearFrame(r, F, w), r, F, w)
    BY <1>1, <1>2, NearFrameIsClosest
  <1> QED BY <1>3, <1>4 DEF w, F

\* The frames for the samples of a clip, one after the other.
ClosestSeq(c, r) == [k \in 1..SampleCount(c, r) |-> ClosestFrame(c, r, k - 1)]

\* One more sample would be later than the last frame.
LEMMA SampleNumbers ==
  ASSUME InputsInv, NEW c, Encoded(c), NEW r \in Nat \ {0}
  PROVE  /\ SampleCount(c, r) \in Nat
         /\ (c.frames - 1) * r < SampleCount(c, r) * Rate
  <1> DEFINE U == Rate
             last == (c.frames - 1) * r
             a == 2 * (c.frames - 1) * r + U
             N == SampleCount(c, r)
  <1>1. c.frames \in Nat \ {0} /\ U \in Nat \ {0}
    BY ClipNumbers
  <1>2. last \in Nat /\ a = 2 * last + U
    <2>1. c.frames - 1 \in Nat
      BY <1>1
    <2>2. 2 * (c.frames - 1) * r = 2 * last
      BY <1>1, <2>1
    <2> HIDE DEF U
    <2> QED BY <1>1, <2>1, <2>2
  <1>3. N = Ceiling(a, 2 * U)
    BY DEF SampleCount
  <1> HIDE DEF U, last, a, N
  <1>4. N \in Nat /\ N * (2 * U) >= a
    BY <1>1, <1>2, <1>3, CeilingBounds
  <1>5. N * (2 * U) = 2 * (N * U) /\ N * U \in Nat
    BY <1>1, <1>4
  <1>6. last < N * U
    BY <1>1, <1>2, <1>4, <1>5
  <1> QED BY <1>4, <1>6 DEF N, U, last

\* The frames for all samples are closest, are frames of the clip, and rise.
LEMMA ClosestSeqIs ==
  ASSUME InputsInv, NEW c, Encoded(c), NEW r \in Nat \ {0}
  PROVE  /\ ClosestSeq(c, r) \in Seq(Nat) /\ Len(ClosestSeq(c, r)) = SampleCount(c, r)
         /\ \A k \in 1..SampleCount(c, r) :
              ClosestOf(ClosestSeq(c, r)[k], r, c.frames, (k - 1) * Rate)
         /\ \A k \in 1..SampleCount(c, r) : ClosestSeq(c, r)[k] \in 0..(c.frames - 1)
         /\ Rises(ClosestSeq(c, r))
  <1> DEFINE N == SampleCount(c, r)
             T == ClosestSeq(c, r)
             s == r
             U == Rate
             F == c.frames
  <1>1. N \in Nat
    BY SampleNumbers
  <1>2. F \in Nat \ {0} /\ s \in Nat \ {0} /\ U \in Nat \ {0}
    BY ClipNumbers
  <1>3. DOMAIN T = 1..N /\ \A k \in 1..N : T[k] = ClosestFrame(c, r, k - 1)
    BY DEF ClosestSeq
  <1>4. ASSUME NEW k \in 1..N
        PROVE  ClosestOf(T[k], s, F, (k - 1) * U)
    <2>1. k - 1 \in Nat
      BY <1>1
    <2>2. ClosestOf(ClosestFrame(c, r, k - 1), s, F, (k - 1) * U)
      BY <2>1, ClosestFrameIs
    <2> QED BY <1>3, <2>2
  <1>5. \A k \in 1..N : T[k] \in 0..(F - 1)
    BY <1>4 DEF ClosestOf
  <1>6. T = [k \in 1..N |-> T[k]]
    BY DEF ClosestSeq
  <1> HIDE DEF N, T, s, U, F
  <1>7. T \in Seq(Nat) /\ Len(T) = N
    <2>1. \A k \in 1..N : T[k] \in Nat
      BY <1>2, <1>5
    <2> QED BY <1>1, <1>6, <2>1, FunctionIsSeq
  <1>8. ASSUME NEW k \in 1..N, NEW l \in 1..N, k < l PROVE T[k] <= T[l]
    <2>1. (k - 1) * U \in Nat /\ (l - 1) * U \in Nat /\ (k - 1) * U <= (l - 1) * U
      BY <1>1, <1>2, <1>8, Grows
    <2>2. ClosestOf(T[k], s, F, (k - 1) * U) /\ ClosestOf(T[l], s, F, (l - 1) * U)
      BY <1>4
    <2> QED BY <1>2, <2>1, <2>2, ClosestRises
  <1>9. Rises(T)
    BY <1>3, <1>8 DEF Rises
  <1> QED BY <1>4, <1>5, <1>7, <1>9 DEF N, T, s, U, F

\* Decoded once and copied, these are the frames of the samples.
LEMMA SamplesAreClosest ==
  ASSUME InputsInv, NEW c, Encoded(c), NEW r \in Nat \ {0}
  PROVE  Samples(c, r) = ClosestSeq(c, r)
  <1> DEFINE T == ClosestSeq(c, r)
             F == c.frames
             base == [i \in 1..F |-> i - 1]
             S == {T[k] + 1 : k \in DOMAIN T}
             ids == Chosen(base, S)
             wanted == Counted(ids, T)
  <1>1. F \in Nat \ {0}
    BY ClipNumbers
  <1>2. T \in Seq(Nat) /\ Rises(T) /\ \A k \in DOMAIN T : T[k] \in 0..(F - 1)
    <2>1. T \in Seq(Nat) /\ Len(T) = SampleCount(c, r) /\ Rises(T)
      BY ClosestSeqIs
    <2>2. \A k \in 1..SampleCount(c, r) : T[k] \in 0..(F - 1)
      BY ClosestSeqIs
    <2> HIDE DEF T, F
    <2> QED BY <2>1, <2>2
  <1>3. Samples(c, r) = Decode(wanted, F)
    BY DEF Samples, ClosestSeq, Counted
  <1> HIDE DEF T, F
  <1>4. base \in Seq(Nat) /\ DOMAIN base = 1..F /\ \A i \in 1..F : base[i] = i - 1
    BY <1>1
  <1>5. Sorted(base, Increasing)
    BY <1>1, <1>4 DEF Sorted, Increasing
  <1> HIDE DEF base
  <1>6. Sorted(ids, Increasing)
    BY <1>4, <1>5, ChosenSorted
  <1>7. ids \in Seq(Nat) /\ Takes(ids, base, S)
    BY <1>4, ChosenMembers
  <1> HIDE DEF ids
  <1>8. \A j \in DOMAIN ids : ids[j] \in 0..(F - 1)
    <2>1. ASSUME NEW j \in DOMAIN ids PROVE ids[j] \in 0..(F - 1)
      <3>1. PICK i \in S \cap DOMAIN base : ids[j] = base[i]
        BY <1>7 DEF Takes
      <3> QED BY <1>1, <1>4, <3>1
    <2> QED BY <2>1
  <1>9. Lists(ids, T)
    <2>1. ASSUME NEW k \in DOMAIN T PROVE \E j \in DOMAIN ids : T[k] = ids[j]
      <3> DEFINE i == T[k] + 1
      <3>1. i \in 1..F /\ i - 1 = T[k] /\ i \in S
        BY <1>1, <1>2
      <3> HIDE DEF i, S
      <3>2. i \in S \cap DOMAIN base
        BY <1>4, <3>1
      <3>3. PICK j \in DOMAIN ids : ids[j] = base[i]
        BY <1>7, <3>2 DEF Takes
      <3> QED BY <1>4, <3>1, <3>3
    <2> QED BY <2>1 DEF Lists
  <1> HIDE DEF S
  <1>10. FlattenSeq(Runs(wanted)) = T
    BY <1>2, <1>6, <1>7, <1>9, RunsOfCounted
  <1>11. /\ wanted \in Seq(Numbered) /\ Len(wanted) = Len(ids)
         /\ \A j \in 1..Len(ids) : wanted[j].frame = ids[j]
    BY <1>2, <1>7, CountedIs
  <1> HIDE DEF wanted
  <1>12. DOMAIN ids = 1..Len(ids) /\ Len(ids) \in Nat
    BY <1>7
  <1>13. \A i, j \in 1..Len(wanted) : i < j => wanted[i].frame < wanted[j].frame
    <2>1. \A i, j \in 1..Len(ids) : i < j => ids[i] < ids[j]
      BY <1>6, <1>12 DEF Sorted, Increasing
    <2>2. \A j \in 1..Len(ids) : wanted[j].frame = ids[j]
      BY <1>11
    <2>3. Len(wanted) = Len(ids)
      BY <1>11
    <2> QED BY <2>1, <2>2, <2>3
  <1>14. \A j \in 1..Len(wanted) : wanted[j].frame < F
    BY <1>1, <1>8, <1>11, <1>12
  <1>15. Decode(wanted, F) = FlattenSeq(Runs(wanted))
    BY <1>1, <1>11, <1>13, <1>14, DecodeAll
  <1> QED BY <1>3, <1>10, <1>15 DEF T

-----------------------------------------------------------------------------
(* The common rate.                                                        *)

\* A multiple leaves no remainder.
LEMMA Multiples ==
  ASSUME NEW a \in Nat \ {0}, NEW q \in Nat
  PROVE  (q * a) % a = 0 /\ (q * a) \div a = q
  <1> DEFINE m == q * a
             x == m \div a
             y == m % a
  <1>1. m \in Nat
    OBVIOUS
  <1>2. x \in Nat /\ y \in Nat /\ y < a /\ m = x * a + y
    BY <1>1, DivMod
  <1> HIDE DEF x, y
  <1>3. ~(x < q)
    <2>1. ASSUME x < q PROVE FALSE
      <3>1. (x + 1) * a <= q * a /\ (x + 1) * a = x * a + a /\ x * a \in Int
        BY <1>2, <2>1, Grows
      <3> QED BY <1>1, <1>2, <3>1
    <2> QED BY <2>1
  <1>4. ~(q < x)
    <2>1. ASSUME q < x PROVE FALSE
      <3>1. (q + 1) * a <= x * a /\ (q + 1) * a = q * a + a /\ x * a \in Int
        BY <1>2, <2>1, Grows
      <3> QED BY <1>1, <1>2, <3>1
    <2> QED BY <2>1
  <1>5. x = q
    BY <1>2, <1>3, <1>4
  <1>6. y = 0
    BY <1>1, <1>2, <1>5
  <1> QED BY <1>5, <1>6 DEF x, y

Divides(a, m) == \E q \in Nat : m = q * a

\* Dividing is leaving no remainder.
LEMMA DividesIs ==
  ASSUME NEW a \in Nat \ {0}, NEW m \in Nat
  PROVE  Divides(a, m) <=> m % a = 0
  <1>1. ASSUME m % a = 0 PROVE Divides(a, m)
    <2>1. m \div a \in Nat /\ m = (m \div a) * a + 0
      BY <1>1, DivMod
    <2>2. m = (m \div a) * a
      BY <2>1
    <2> QED BY <2>1, <2>2 DEF Divides
  <1>2. ASSUME Divides(a, m) PROVE m % a = 0
    BY <1>2, Multiples DEF Divides
  <1> QED BY <1>1, <1>2

\* Dividing is transitive.
LEMMA DividesFurther ==
  ASSUME NEW a \in Nat, NEW b \in Nat, NEW m, Divides(a, b), Divides(b, m)
  PROVE  Divides(a, m)
  <1>1. PICK p \in Nat : b = p * a
    BY DEF Divides
  <1>2. PICK q \in Nat : m = q * b
    BY DEF Divides
  <1>3. q * p \in Nat /\ m = (q * p) * a
    BY <1>1, <1>2
  <1> QED BY <1>3 DEF Divides

\* The common multiple is positive, and both numbers divide it.
LEMMA CommonMultipleIs ==
  ASSUME NEW a \in Nat \ {0}, NEW b \in Nat \ {0}
  PROVE  /\ CommonMultiple(a, b) \in Nat \ {0}
         /\ Divides(a, CommonMultiple(a, b)) /\ Divides(b, CommonMultiple(a, b))
  <1> DEFINE S == {m \in 1..(a * b) : m % a = 0 /\ m % b = 0}
  <1>1. a * b \in Nat \ {0}
    OBVIOUS
  <1>2. a * b \in S
    <2>1. (a * b) % b = 0
      BY Multiples
    <2>2. (b * a) % a = 0 /\ b * a = a * b
      BY Multiples
    <2> QED BY <1>1, <2>1, <2>2
  <1>3. PICK m \in S : \A n \in S : m <= n
    <2>1. S \subseteq Nat /\ S # {}
      <3> DEFINE M == a * b
      <3>1. M \in Nat /\ M \in S
        BY <1>1, <1>2
      <3> HIDE DEF M
      <3> QED BY <3>1
    <2> HIDE DEF S
    <2> QED BY <2>1, LeastNumber
  <1>4. /\ m \in 1..(a * b) /\ m % a = 0 /\ m % b = 0
        /\ \A l \in 1..(m - 1) : l % a # 0 \/ l % b # 0
    <2>1. ASSUME NEW l \in 1..(m - 1), l % a = 0, l % b = 0 PROVE FALSE
      <3>1. l \in S /\ l < m
        BY <1>1, <1>3, <2>1
      <3> QED BY <1>1, <1>3, <3>1
    <2> QED BY <1>3, <2>1
  <1>5. /\ CommonMultiple(a, b) \in 1..(a * b)
        /\ CommonMultiple(a, b) % a = 0 /\ CommonMultiple(a, b) % b = 0
    BY <1>4 DEF CommonMultiple
  <1> DEFINE k == CommonMultiple(a, b)
  <1> HIDE DEF k
  <1>6. k \in Nat \ {0} /\ k % a = 0 /\ k % b = 0
    BY <1>1, <1>5 DEF k
  <1>7. Divides(a, k) /\ Divides(b, k)
    BY <1>6, DividesIs
  <1> QED BY <1>6, <1>7 DEF k

\* The steps of SharedRate.
Shares(u, rates) ==
  /\ u \in [0..Len(rates) -> Nat \ {0}] /\ u[0] = 1
  /\ \A n \in 1..Len(rates) : u[n] = CommonMultiple(u[n - 1], rates[n])

\* The common rate, one rate after the other.
LEMMA SharedRateSteps ==
  ASSUME InputsInv
  PROVE  \E u : Shares(u, opt.rates) /\ SharedRate = u[Len(opt.rates)]
  <1> DEFINE V == Nat \ {0}
             rates == opt.rates
             N == Len(rates)
             base == 1
             step == [p \in V \X (1..N) |-> CommonMultiple(p[1], rates[p[2]])]
             Q(h) == h = [n \in 0..N |-> IF n = 0 THEN 1 ELSE CommonMultiple(h[n - 1], rates[n])]
             r == CHOOSE h : Q(h)
  <1>0. rates \in Seq(V)
    BY DEF InputsInv, Options
  <1>1. base \in V /\ N \in Nat
    BY <1>0
  <1>2. /\ step \in [V \X (1..N) -> V]
        /\ \A v \in V, n \in 1..N : step[<<v, n>>] = CommonMultiple(v, rates[n])
    <2>1. \A v \in V, n \in 1..N : CommonMultiple(v, rates[n]) \in V
      <3>1. \A n \in 1..N : rates[n] \in V
        BY <1>0
      <3> HIDE DEF rates, N
      <3> QED BY <3>1, CommonMultipleIs
    <2> HIDE DEF V, N, rates
    <2> QED BY <2>1
  <1>3. SharedRate = r[N]
    BY Zenon DEF SharedRate
  <1> HIDE DEF step, V, base, N, rates
  <1>4. PICK f : Solves(f, V, N, base, step)
    BY <1>1, <1>2, Recursion
  <1>5. f \in [0..N -> V] /\ f[0] = base /\ \A n \in 1..N : f[n] = step[<<f[n - 1], n>>]
    BY <1>4 DEF Solves
  <1>6. ASSUME NEW n \in 1..N PROVE f[n - 1] \in V /\ f[n] = CommonMultiple(f[n - 1], rates[n])
    <2>1. n - 1 \in 0..N
      BY <1>1
    <2>2. f[n - 1] \in V
      BY <1>5, <2>1
    <2> QED BY <1>2, <1>5, <2>2, Zenon
  <1>7. Q(f)
    <2>1. ASSUME NEW n \in 0..N
          PROVE  f[n] = IF n = 0 THEN 1 ELSE CommonMultiple(f[n - 1], rates[n])
      <3>1. n = 0 \/ n \in 1..N
        BY <1>1
      <3> QED BY <1>5, <1>6, <3>1 DEF base
    <2> QED BY <1>5, <2>1
  <1>8. Q(r)
    <2> HIDE DEF Q
    <2> QED BY <1>7
  <1> HIDE DEF r
  <1>9. Follows(r, V, N, base, step)
    <2>1. r[0] = base
      BY <1>1, <1>8 DEF base
    <2>2. ASSUME NEW n \in 1..N, r[n - 1] \in V PROVE r[n] = step[<<r[n - 1], n>>]
      <3>1. n \in 0..N /\ n # 0
        BY <1>1
      <3>2. r[n] = CommonMultiple(r[n - 1], rates[n])
        BY <1>8, <3>1
      <3> HIDE DEF Q
      <3> QED BY <1>2, <2>2, <3>2
    <2> HIDE DEF Q
    <2> QED BY <2>1, <2>2 DEF Follows
  <1> HIDE DEF Q
  <1>10. Agree(f, r, N)
    BY <1>1, <1>4, <1>9, OneSolution
  <1>11. N \in 0..N
    BY <1>1
  <1>12. SharedRate = f[N]
    BY <1>3, <1>10, <1>11 DEF Agree
  <1>13. Shares(f, rates)
    BY <1>5, <1>6 DEF Shares, V, N, base
  <1> QED BY <1>12, <1>13 DEF N, rates

\* The common rate is a multiple of every rate.
LEMMA SharedRateIs ==
  ASSUME InputsInv
  PROVE  /\ SharedRate \in Nat \ {0}
         /\ \A r \in Range(opt.rates) : r \in Nat \ {0} /\ Divides(r, SharedRate)
  <1> DEFINE rates == opt.rates
             N == Len(rates)
  <1>1. rates \in Seq(Nat \ {0})
    BY DEF InputsInv, Options
  <1>2. PICK u : Shares(u, rates) /\ SharedRate = u[N]
    BY SharedRateSteps
  <1> HIDE DEF rates
  <1>3. N \in Nat /\ DOMAIN rates = 1..N /\ \A n \in 1..N : rates[n] \in Nat \ {0}
    BY <1>1
  <1>4. /\ \A n \in 0..N : u[n] \in Nat \ {0}
        /\ \A n \in 1..N : u[n] = CommonMultiple(u[n - 1], rates[n])
    BY <1>2 DEF Shares
  <1> HIDE DEF N
  <1> DEFINE G == {n \in 0..N : \A i \in 1..n : Divides(rates[i], u[n])}
  <1>5. 0 \in G
    BY <1>3
  <1>6. ASSUME NEW n \in 0..(N - 1), n \in G PROVE n + 1 \in G
    <2>1. n + 1 \in 1..N /\ n + 1 \in 0..N /\ n \in 0..N /\ (n + 1) - 1 = n
      BY <1>3
    <2>2. u[n] \in Nat \ {0} /\ u[n + 1] \in Nat \ {0} /\ rates[n + 1] \in Nat \ {0}
      BY <1>3, <1>4, <2>1
    <2>3. u[n + 1] = CommonMultiple(u[n], rates[n + 1])
      BY <1>4, <2>1, Zenon
    <2>4. Divides(u[n], u[n + 1]) /\ Divides(rates[n + 1], u[n + 1])
      BY <2>2, <2>3, CommonMultipleIs
    <2>5. ASSUME NEW i \in 1..(n + 1) PROVE Divides(rates[i], u[n + 1])
      <3>1. i = n + 1 \/ i \in 1..n
        BY <2>1
      <3>2. CASE i \in 1..n
        <4>1. Divides(rates[i], u[n])
          BY <1>6, <3>2
        <4>2. rates[i] \in Nat
          BY <1>3, <2>1, <3>2
        <4> QED BY <2>2, <2>4, <4>1, <4>2, DividesFurther
      <3> QED BY <2>4, <3>1, <3>2
    <2> QED BY <2>1, <2>5
  <1>7. 0..N \subseteq G
    <2> HIDE DEF G
    <2> QED BY <1>3, <1>5, <1>6, UpTo
  <1>8. N \in 0..N
    BY <1>3
  <1>9. \A i \in 1..N : Divides(rates[i], u[N])
    BY <1>7, <1>8
  <1>10. ASSUME NEW r \in Range(rates) PROVE r \in Nat \ {0} /\ Divides(r, SharedRate)
    <2>1. PICK i \in 1..N : r = rates[i]
      BY <1>3 DEF Range
    <2> QED BY <1>2, <1>3, <1>9, <2>1
  <1> QED BY <1>2, <1>4, <1>8, <1>10 DEF rates

-----------------------------------------------------------------------------
(* Frames for every consumer.                                              *)

\* Of the samples at m times the rate r, every m-th is the one for r.
LEMMA EveryIsClosest ==
  ASSUME InputsInv, NEW c, Encoded(c), NEW r \in Nat \ {0}, NEW m \in Nat \ {0}
  PROVE  LET shown == Every(ClosestSeq(c, m * r), m)
         IN /\ \A k \in DOMAIN shown :
                 /\ shown[k] \in 0..(c.frames - 1)
                 /\ \A f \in 0..(c.frames - 1) : Distance(r, shown[k], k - 1) <= Distance(r, f, k - 1)
            /\ Len(shown) * Rate > (c.frames - 1) * r
  <1> DEFINE F == c.frames
             U == Rate
             R == m * r
             T == ClosestSeq(c, R)
             N == SampleCount(c, R)
             n == Ceiling(N, m)
             shown == Every(T, m)
  <1>1. F \in Nat \ {0} /\ U \in Nat \ {0} /\ R \in Nat \ {0}
    BY ClipNumbers
  <1>2. N \in Nat /\ (F - 1) * R < N * U
    BY <1>1, SampleNumbers
  <1>3. /\ Len(T) = N
        /\ \A k \in 1..N : ClosestOf(T[k], R, F, (k - 1) * U)
        /\ \A k \in 1..N : T[k] \in 0..(F - 1)
    BY <1>1, ClosestSeqIs
  <1>4. \A x : \A k : Distance(r, x, k) = Gap(x * r, k * U)
    BY DEF Distance, Gap
  <1>5. shown = [k \in 1..n |-> T[(k - 1) * m + 1]]
    BY <1>3 DEF Every
  <1>6. n \in Nat /\ n * m >= N /\ \A k \in Nat : k * m < N <=> k < n
    BY <1>2, CeilingBounds
  <1> HIDE DEF F, U, R, T, N, n, shown
  <1>7. DOMAIN shown = 1..n /\ Len(shown) = n /\ \A k \in 1..n : shown[k] = T[(k - 1) * m + 1]
    BY <1>5, <1>6
  <1>8. \A x \in Int : x * R = (x * r) * m /\ x * r \in Int
    <2>1. ASSUME NEW x \in Int
          PROVE  x * R = (x * r) * m /\ x * r \in Int
      <3>1. x * R = (x * r) * m
        BY <1>1 DEF R
      <3> QED BY <3>1
    <2> QED BY <2>1
  <1>9. ASSUME NEW k \in 1..n, NEW f \in 0..(F - 1)
        PROVE  /\ shown[k] \in 0..(F - 1)
               /\ Gap(shown[k] * r, (k - 1) * U) <= Gap(f * r, (k - 1) * U)
    <2> DEFINE i == k - 1
               j == i * m + 1
               x == shown[k]
    <2>1. i \in Nat /\ i < n
      BY <1>6
    <2>2. i * m < N /\ i * m \in Nat
      <3> HIDE DEF i
      <3>1. i * m < N
        BY <1>6, <2>1
      <3>2. i * m \in Nat
        BY <2>1
      <3> QED BY <3>1, <3>2
    <2>3. j \in 1..N /\ j - 1 = i * m
      <3> DEFINE y == i * m
      <3>1. y \in Nat /\ y < N
        BY <2>2
      <3> HIDE DEF y
      <3>2. y + 1 \in 1..N /\ (y + 1) - 1 = y
        BY <1>2, <3>1
      <3> QED BY <3>2 DEF y
    <2>4. x = T[j]
      BY <1>7
    <2> HIDE DEF i, j, x
    <2>5. x \in 0..(F - 1) /\ ClosestOf(x, R, F, (i * m) * U)
      BY <1>3, <2>3, <2>4
    <2>6. (i * m) * U = (i * U) * m /\ i * U \in Nat /\ (i * m) * U \in Nat /\ R \in Nat
      BY <1>1, <2>1
    <2>7. Gap(x * R, (i * m) * U) <= Gap(f * R, (i * m) * U)
      BY <1>1, <2>5, <2>6, ClosestDistance
    <2> DEFINE A == x * r
               B == i * U
               C == f * r
    <2>8. /\ A \in Int /\ C \in Int /\ B \in Int
          /\ x * R = A * m /\ f * R = C * m
      <3>1. x \in Int /\ f \in Int
        BY <1>1, <2>5
      <3>2. B \in Int
        BY <2>6
      <3> HIDE DEF B
      <3> QED BY <1>8, <3>1, <3>2, Zenon
    <2>9. Gap(A * m, B * m) <= Gap(C * m, B * m)
      <3>1. x * R = A * m /\ f * R = C * m /\ (i * m) * U = B * m
        BY <2>6, <2>8
      <3> HIDE DEF A, B, C
      <3> QED BY <2>7, <3>1, Zenon
    <2> HIDE DEF A, B, C
    <2>10. /\ Gap(A, B) \in Nat /\ Gap(A * m, B * m) = Gap(A, B) * m
           /\ Gap(C, B) \in Nat /\ Gap(C * m, B * m) = Gap(C, B) * m
      <3>1. A \in Int /\ B \in Int /\ C \in Int
        BY <2>8, Zenon
      <3>2. m \in Nat
        OBVIOUS
      <3>3. Gap(A, B) \in Nat /\ Gap(A * m, B * m) = Gap(A, B) * m
        BY <3>1, <3>2, GapScaled
      <3>4. Gap(C, B) \in Nat /\ Gap(C * m, B * m) = Gap(C, B) * m
        BY <3>1, <3>2, GapScaled
      <3> QED BY <3>3, <3>4
    <2>11. ~(Gap(C, B) < Gap(A, B))
      <3>1. ASSUME Gap(C, B) < Gap(A, B) PROVE FALSE
        <4> DEFINE p == Gap(C, B)
                   q == Gap(A, B)
        <4>1. p \in Int /\ q \in Int /\ p < q /\ q * m <= p * m
          BY <2>9, <2>10, <3>1
        <4> HIDE DEF p, q
        <4>2. p * m < q * m /\ p * m \in Int /\ q * m \in Int
          BY <4>1, GrowsStrictly
        <4> QED BY <4>1, <4>2
      <3> QED BY <3>1
    <2>12. Gap(A, B) <= Gap(C, B)
      BY <2>10, <2>11
    <2> QED BY <2>5, <2>12 DEF A, B, C, i, x
  <1>10. n * U > (F - 1) * r
    <2> DEFINE z == (F - 1) * r
               y == n * U
    <2>1. N * U <= (n * m) * U /\ N * U \in Int /\ (n * m) * U = y * m /\ y \in Int
      BY <1>1, <1>2, <1>6, Grows
    <2>2. z \in Int /\ (F - 1) * R = z * m
      BY <1>1, <1>8
    <2> HIDE DEF z, y
    <2>3. z * m < y * m
      <3>1. z * m < N * U /\ N * U <= y * m
        BY <1>2, <2>1, <2>2
      <3>2. z * m \in Int /\ y * m \in Int
        BY <2>1, <2>2
      <3> QED BY <2>1, <3>1, <3>2
    <2>4. ~(y <= z)
      <3>1. ASSUME y <= z PROVE FALSE
        <4>1. y * m <= z * m /\ y * m \in Int /\ z * m \in Int
          BY <2>1, <2>2, <3>1, Grows
        <4> QED BY <2>3, <4>1
      <3> QED BY <3>1
    <2>5. y > z
      BY <2>1, <2>2, <2>4
    <2> QED BY <2>5 DEF y, z
  <1>11. \A k \in DOMAIN shown :
           /\ shown[k] \in 0..(F - 1)
           /\ \A f \in 0..(F - 1) : Distance(r, shown[k], k - 1) <= Distance(r, f, k - 1)
    <2>1. 0 \in 0..(F - 1)
      BY <1>1
    <2>2. \A k \in 1..n : \A f \in 0..(F - 1) :
            /\ shown[k] \in 0..(F - 1)
            /\ Distance(r, shown[k], k - 1) <= Distance(r, f, k - 1)
      BY <1>4, <1>9
    <2> QED BY <1>7, <2>1, <2>2
  <1> QED BY <1>7, <1>10, <1>11 DEF shown, T, R, F, U

\* What the consumers of a clip find.
ShownClosest(c) ==
  \A r \in Range(opt.rates) :
    LET shown == c.extracted[r]
    IN /\ \A k \in DOMAIN shown :
            /\ shown[k] \in 0..(c.frames - 1)
            /\ \A f \in 0..(c.frames - 1) : Distance(r, shown[k], k - 1) <= Distance(r, f, k - 1)
       /\ Len(shown) * Rate > (c.frames - 1) * r

\* Extraction gives the consumer of every rate its closest frames.
LEMMA ExtractShowsClosest ==
  ASSUME InputsInv, NEW c, Encoded(c)
  PROVE  ShownClosest(Extract(c))
  <1> DEFINE e == Extract(c)
             S == SharedRate
  <1>1. /\ e.span = c.span /\ e.frames = c.frames
        /\ e.extracted = [r \in Range(opt.rates) |-> Every(Samples(c, S), S \div r)]
    BY ExtractFields, Zenon
  <1>2. \A r \in Range(opt.rates) : e.extracted[r] = Every(Samples(c, S), S \div r)
    <2> HIDE DEF e, S
    <2> QED BY <1>1
  <1>5. S \in Nat \ {0} /\ \A r \in Range(opt.rates) : r \in Nat \ {0} /\ Divides(r, S)
    BY SharedRateIs
  <1> HIDE DEF e, S
  <1>6. ASSUME NEW r \in Range(opt.rates)
        PROVE  LET shown == e.extracted[r]
               IN /\ \A k \in DOMAIN shown :
                       /\ shown[k] \in 0..(c.frames - 1)
                       /\ \A f \in 0..(c.frames - 1) : Distance(r, shown[k], k - 1) <= Distance(r, f, k - 1)
                  /\ Len(shown) * Rate > (c.frames - 1) * r
    <2>1. r \in Nat \ {0} /\ Divides(r, S)
      BY <1>5
    <2>2. PICK m \in Nat : S = m * r
      BY <2>1 DEF Divides
    <2>3. m # 0
      BY <1>5, <2>1, <2>2
    <2>4. S \div r = m
      BY <2>1, <2>2, Multiples
    <2>5. Samples(c, S) = ClosestSeq(c, m * r)
      BY <1>5, <2>2, SamplesAreClosest
    <2>6. e.extracted[r] = Every(ClosestSeq(c, m * r), m)
      BY <1>2, <2>4, <2>5
    <2> HIDE DEF e
    <2> QED BY <2>1, <2>3, <2>6, EveryIsClosest
  <1>7. ShownClosest(e)
    BY <1>1, <1>6 DEF ShownClosest
  <1> QED BY <1>7 DEF e

\* Every step keeps the promise of the rates.
LEMMA StepRates ==
  ASSUME ClipsInv, RatesAgree, [Next]_vars
  PROVE  RatesAgree'
  <1> DEFINE Right(u) == tasks[u].stage # "transcoded" =>
                           \A i \in DOMAIN tasks[u].clips : ShownClosest(tasks[u].clips[i])
  <1>1. \A u \in DOMAIN tasks : Right(u)
    BY DEF RatesAgree, ShownClosest
  <1>2. SUFFICES \A u \in DOMAIN tasks' : Right(u)'
    BY DEF RatesAgree, ShownClosest
  <1>3. opt' = opt /\ InputsInv
    BY DEF Next, vars, DetectShots, CutByStride, Transcode, ExtractFrames, PrepareWindows, ClipsInv
  <1>4. \A c : (ShownClosest(c))' <=> ShownClosest(c)
    BY <1>3 DEF ShownClosest, Distance
  <1>5. CASE DetectShots \/ CutByStride
    <2>1. tasks' = <<>>
      BY <1>5 DEF ClipsInv, TasksInv, DetectShots, CutByStride
    <2> QED BY <2>1
  <1>6. CASE Transcode
    <2>1. \A u \in DOMAIN tasks' : tasks'[u].stage = "transcoded"
      BY <1>6 DEF Transcode
    <2> QED BY <2>1
  <1>7. ASSUME NEW t \in DOMAIN tasks, ExtractFrames(t) \/ PrepareWindows(t)
        PROVE  \A u \in DOMAIN tasks' : Right(u)'
    <2>1. DOMAIN tasks' = DOMAIN tasks /\ \A u \in DOMAIN tasks : u # t => tasks'[u] = tasks[u]
      BY <1>7, ChunkSteps
    <2>2. ASSUME NEW u \in DOMAIN tasks, u # t PROVE Right(u)'
      <3>1. tasks'[u] = tasks[u]
        BY <2>1, <2>2
      <3>2. Right(u)
        BY <1>1
      <3> QED BY <1>4, <3>1, <3>2
    <2>3. ASSUME NEW i \in DOMAIN tasks'[t].clips
          PROVE  ShownClosest(tasks'[t].clips[i])
      <3> DEFINE c == tasks[t].clips[i]
      <3>1. /\ i \in DOMAIN tasks[t].clips /\ Encoded(c)
            /\ tasks'[t].stage = "extracted" => tasks'[t].clips[i] = Extract(c)
            /\ tasks'[t].stage = "prepared" => tasks'[t].clips[i] = Prepared(c)
            /\ tasks'[t].stage = "raised" => tasks'[t].clips[i] = c
            /\ tasks'[t].stage \in {"extracted", "prepared", "raised"}
            /\ tasks'[t].stage = "extracted" <=> ExtractFrames(t)
        BY <1>7, <2>3, ChunkSteps
      <3>2. PrepareWindows(t) => tasks[t].stage = "extracted"
        BY DEF PrepareWindows
      <3>3. CASE tasks'[t].stage = "extracted"
        BY <1>3, <3>1, <3>3, ExtractShowsClosest
      <3>4. CASE tasks'[t].stage # "extracted"
        <4>1. tasks[t].stage = "extracted"
          BY <1>7, <3>1, <3>2, <3>4
        <4>2. ShownClosest(c)
          BY <1>1, <3>1, <4>1
        <4> HIDE DEF c
        <4>3. ShownClosest(Prepared(c))
          <5>1. /\ Prepared(c).span = c.span /\ Prepared(c).frames = c.frames
                /\ Prepared(c).extracted = c.extracted
            BY <3>1, PreparedFields
          <5> DEFINE p == Prepared(c)
          <5> HIDE DEF p
          <5>2. p.span = c.span /\ p.frames = c.frames /\ p.extracted = c.extracted
            BY <5>1 DEF p
          <5>3. ShownClosest(p)
            BY <4>2, <5>2 DEF ShownClosest
          <5> QED BY <5>3 DEF p
        <4> QED BY <3>1, <3>4, <4>2, <4>3
      <3> QED BY <3>3, <3>4
    <2>4. Right(t)'
      BY <1>4, <2>3
    <2> QED BY <2>1, <2>2, <2>4
  <1>8. CASE UNCHANGED vars
    BY <1>1, <1>4, <1>8 DEF vars
  <1> QED BY <1>5, <1>6, <1>7, <1>8 DEF Next

\* A consumer finds, for each of its samples, the closest frame whatever the others ask for,
\* and its frames reach to the end of the clip.
THEOREM RatesAreKept == Spec => []RatesAgree
  <1>1. Init => RatesAgree
    BY DEF Init, RatesAgree
  <1> QED BY <1>1, StepRates, Clips, PTL DEF Spec
=============================================================================
