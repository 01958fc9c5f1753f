--------------------------- MODULE ShardRun_proofs ---------------------------
(***************************************************************************)
(* The safety properties of the shard pipeline, for any clips, bins, sizes *)
(* and packers, and for runs that die at any step.                         *)
(***************************************************************************)
EXTENDS ShardRunProps, FiniteSetTheorems, FunctionTheorems, WellFoundedInduction, TLAPS

-----------------------------------------------------------------------------
(* Induction.                                                              *)

\* A set of numbers that is not empty has a least one: induction in the form of
\* a smallest counterexample, from the well-foundedness of finite sets.
LEMMA LeastNumber ==
  ASSUME NEW T, T \subseteq Nat, T # {}
  PROVE  \E m \in T : \A n \in T : m <= n
  <1> DEFINE R == StrictSubsetOrdering(Nat)
             Below == {1..n : n \in T}
  <1>1. IsWellFoundedOn(R, FiniteSubsetsOf(Nat))
    BY FS_StrictSubsetOrderingWellFounded
  <1>2. Below \subseteq FiniteSubsetsOf(Nat)
    <2> SUFFICES ASSUME NEW n \in T PROVE 1..n \in FiniteSubsetsOf(Nat)
      OBVIOUS
    <2>1. n \in Nat /\ 1..n \subseteq Nat
      OBVIOUS
    <2>2. IsFiniteSet(1..n)
      BY <2>1, FS_Interval
    <2> QED BY <2>1, <2>2 DEF FiniteSubsetsOf
  <1>3. \A a, b \in T : a < b => <<1..a, 1..b>> \in R
    <2> SUFFICES ASSUME NEW a \in T, NEW b \in T, a < b PROVE <<1..a, 1..b>> \in R
      OBVIOUS
    <2>1. /\ 1..a \subseteq 1..b /\ b \in 1..b /\ b \notin 1..a
          /\ 1..a \subseteq Nat /\ 1..b \subseteq Nat
      OBVIOUS
    <2> QED BY <2>1 DEF StrictSubsetOrdering
  <1>4. Below # {}
    OBVIOUS
  <1> HIDE DEF R
  <1>5. PICK X \in Below : \A Y \in Below : ~(<<Y, X>> \in R)
    BY <1>1, <1>2, <1>4, WFMin
  <1>6. PICK m \in T : X = 1..m
    OBVIOUS
  <1>7. ASSUME NEW n \in T PROVE m <= n
    <2>1. 1..n \in Below
      OBVIOUS
    <2>2. ~(n < m)
      BY <1>3, <1>5, <1>6, <2>1
    <2> QED BY <2>2
  <1> QED BY <1>7

\* What holds of 0 and of the successors of its members is all of 0..k.
LEMMA UpTo ==
  ASSUME NEW k \in Nat, NEW G, 0 \in G, \A n \in 0..(k - 1) : n \in G => n + 1 \in G
  PROVE  0..k \subseteq G
  <1> DEFINE Bad == (0..k) \ G
  <1>1. ASSUME Bad # {} PROVE FALSE
    <2>1. Bad \subseteq Nat
      OBVIOUS
    <2>2. PICK m \in Bad : \A n \in Bad : m <= n
      BY <1>1, <2>1, LeastNumber
    <2>3. m # 0 /\ m \in 0..k /\ m \notin G
      OBVIOUS
    <2>4. m - 1 \in 0..(k - 1) /\ (m - 1) + 1 = m
      BY <2>3
    <2>5. m - 1 \notin Bad
      BY <2>2, <2>4
    <2>6. m - 1 \in G
      BY <2>4, <2>5
    <2> QED BY <2>3, <2>4, <2>6
  <1> QED BY <1>1

-----------------------------------------------------------------------------
(* The groups of a bin.                                                    *)

\* One sample further.
Scan(b, g, n) == IF n \in InBin(b) THEN AddSample(g, n) ELSE g

\* The recursion of Grouped is well founded: it is the last of a chain of steps.
LEMMA GroupedInSteps ==
  ASSUME NEW b
  PROVE  \E g : /\ g[0] = NoGroups
                /\ \A n \in 1..NumClips : g[n] = Scan(b, g[n - 1], n)
                /\ Grouped(b) = g[NumClips]
  <1> DEFINE Chain(g, k) == g = [n \in 0..k |-> IF n = 0 THEN NoGroups ELSE Scan(b, g[n - 1], n)]
             Good == {k \in Nat : \E g : Chain(g, k)}
  <1>1. NumClips \in Nat
    BY ShardAssumption
  <1>2. 0 \in Good
    <2>1. Chain([n \in 0..0 |-> NoGroups], 0)
      OBVIOUS
    <2> QED BY <2>1
  <1>3. ASSUME NEW k \in 0..(NumClips - 1), k \in Good PROVE k + 1 \in Good
    <2>1. PICK g : Chain(g, k)
      BY <1>3
    <2> DEFINE h == [n \in 0..(k + 1) |-> IF n = k + 1 THEN Scan(b, g[k], n) ELSE g[n]]
    <2>2. \A n \in 0..k : h[n] = g[n]
      BY <1>1
    <2>3. \A n \in 0..(k + 1) : h[n] = IF n = 0 THEN NoGroups ELSE Scan(b, h[n - 1], n)
      <3> SUFFICES ASSUME NEW n \in 0..(k + 1)
                   PROVE  h[n] = IF n = 0 THEN NoGroups ELSE Scan(b, h[n - 1], n)
        OBVIOUS
      <3>1. CASE n = k + 1
        BY <1>1, <2>2, <3>1
      <3>2. CASE n \in 0..k
        <4>1. h[n] = g[n] /\ (n # 0 => h[n - 1] = g[n - 1])
          BY <1>1, <2>2, <3>2
        <4> HIDE DEF h
        <4> QED BY <2>1, <3>2, <4>1
      <3> QED BY <1>1, <3>1, <3>2
    <2>4. Chain(h, k + 1)
      BY <2>3
    <2> HIDE DEF h, Chain
    <2> QED BY <1>1, <2>4
  <1> HIDE DEF Good
  <1>4. NumClips \in Good
    BY <1>1, <1>2, <1>3, UpTo
  <1> DEFINE f == CHOOSE g : Chain(g, NumClips)
  <1>5. Chain(f, NumClips)
    BY <1>4 DEF Good
  <1>6. Grouped(b) = f[NumClips]
    BY DEF Grouped, Scan
  <1> HIDE DEF f
  <1>7. /\ f[0] = NoGroups
        /\ \A n \in 1..NumClips : f[n] = Scan(b, f[n - 1], n)
    BY <1>1, <1>5
  <1> QED BY <1>6, <1>7

\* The metadata of a clip are what the readers take them for.
LEMMA MetaOfClip ==
  ASSUME meta \in [Clip -> Metas], NEW c \in Clip
  PROVE  /\ meta[c].bin \in Bins \cup {NoBin} /\ meta[c].size \in Nat
         /\ meta[c].captioned \in Seq(BOOLEAN)
  BY ShardAssumption DEF IsMeta

\* Groups of members of S, none of them twice.
Apart(q, S) ==
  /\ q \in Seq(Seq(Clip))
  /\ \A i \in DOMAIN q : \A u \in DOMAIN q[i] : q[i][u] \in S
  /\ \A i, j \in DOMAIN q : \A u \in DOMAIN q[i], v \in DOMAIN q[j] :
       q[i][u] = q[j][v] => i = j /\ u = v

\* A new clip in a group of its own.
LEMMA ApartNew ==
  ASSUME NEW q, NEW S, Apart(q, S), NEW c \in Clip, c \notin S
  PROVE  Apart(Append(q, <<c>>), S \cup {c})
  <1> DEFINE r == Append(q, <<c>>)
             n == Len(q) + 1
  <1>1. q \in Seq(Seq(Clip)) /\ <<c>> \in Seq(Clip) /\ Len(q) \in Nat
    BY DEF Apart
  <1>2. r \in Seq(Seq(Clip)) /\ DOMAIN r = 1..n /\ DOMAIN q = 1..(n - 1)
    BY <1>1
  <1>3. r[n] = <<c>> /\ \A i \in 1..(n - 1) : r[i] = q[i]
    BY <1>1
  <1>4. DOMAIN r[n] = {1} /\ r[n][1] = c
    BY <1>3
  <1> HIDE DEF r
  <1>5. \A i \in DOMAIN r : \A u \in DOMAIN r[i] :
          IF i = n THEN u = 1 /\ r[i][u] = c
          ELSE i \in DOMAIN q /\ r[i] = q[i] /\ r[i][u] \in S
    BY <1>1, <1>2, <1>3, <1>4 DEF Apart
  <1>6. \A i \in DOMAIN r : \A u \in DOMAIN r[i] : r[i][u] \in S \cup {c}
    BY <1>5
  <1>7. ASSUME NEW i \in DOMAIN r, NEW j \in DOMAIN r, NEW u \in DOMAIN r[i], NEW v \in DOMAIN r[j],
               r[i][u] = r[j][v]
        PROVE  i = j /\ u = v
    <2>1. (i = n) <=> (j = n)
      BY <1>5, <1>7
    <2>2. CASE i = n
      BY <1>5, <2>1, <2>2
    <2>3. CASE i # n
      BY <1>5, <1>7, <2>1, <2>3 DEF Apart
    <2> QED BY <2>2, <2>3
  <1> HIDE DEF n
  <1>8. Apart(r, S \cup {c})
    BY <1>2, <1>6, <1>7 DEF Apart
  <1> QED BY <1>8 DEF r

\* A new clip in the last group.
LEMMA ApartGrown ==
  ASSUME NEW f \in Seq(Seq(Clip)), NEW o \in Seq(Clip), NEW S, Apart(Append(f, o), S),
         NEW c \in Clip, c \notin S
  PROVE  Apart(Append(f, Append(o, c)), S \cup {c})
  <1> DEFINE p == Append(f, o)
             e == Append(o, c)
             r == Append(f, e)
             n == Len(f) + 1
             m == Len(o) + 1
  <1>1. n \in Nat /\ m \in Nat /\ e \in Seq(Clip) /\ r \in Seq(Seq(Clip))
    OBVIOUS
  <1>2. /\ DOMAIN p = 1..n /\ DOMAIN r = 1..n /\ p[n] = o /\ r[n] = e
        /\ \A i \in 1..(n - 1) : r[i] = p[i]
    OBVIOUS
  <1>3. /\ DOMAIN o = 1..(m - 1) /\ DOMAIN e = 1..m /\ e[m] = c
        /\ \A u \in 1..(m - 1) : e[u] = o[u]
    OBVIOUS
  <1>4. /\ \A i \in DOMAIN p : \A u \in DOMAIN p[i] : p[i][u] \in S
        /\ \A i, j \in DOMAIN p : \A u \in DOMAIN p[i], v \in DOMAIN p[j] :
             p[i][u] = p[j][v] => i = j /\ u = v
    BY DEF Apart
  <1> HIDE DEF p, e, r, n, m
  <1>5. \A i \in DOMAIN r : \A u \in DOMAIN r[i] :
          \/ i = n /\ u = m /\ r[i][u] = c
          \/ i \in DOMAIN p /\ u \in DOMAIN p[i] /\ r[i][u] = p[i][u] /\ r[i][u] \in S
    <2> SUFFICES ASSUME NEW i \in DOMAIN r, NEW u \in DOMAIN r[i]
                 PROVE  \/ i = n /\ u = m /\ r[i][u] = c
                        \/ /\ i \in DOMAIN p /\ u \in DOMAIN p[i]
                           /\ r[i][u] = p[i][u] /\ r[i][u] \in S
      OBVIOUS
    <2>1. CASE i = n /\ u = m
      BY <1>2, <1>3, <2>1
    <2>2. CASE i = n /\ u # m
      <3>1. u \in 1..(m - 1)
        BY <1>1, <1>2, <1>3, <2>2
      <3> QED BY <1>2, <1>3, <1>4, <2>2, <3>1
    <2>3. CASE i # n
      <3>1. i \in 1..(n - 1) /\ r[i] = p[i] /\ i \in DOMAIN p
        BY <1>1, <1>2, <2>3
      <3> QED BY <1>4, <3>1
    <2> QED BY <2>1, <2>2, <2>3
  <1>6. \A i \in DOMAIN r : \A u \in DOMAIN r[i] : r[i][u] \in S \cup {c}
    BY <1>5
  <1>7. ASSUME NEW i \in DOMAIN r, NEW j \in DOMAIN r, NEW u \in DOMAIN r[i], NEW v \in DOMAIN r[j],
               r[i][u] = r[j][v]
        PROVE  i = j /\ u = v
    BY <1>4, <1>5, <1>7
  <1>8. Apart(r, S \cup {c})
    BY <1>1, <1>6, <1>7 DEF Apart
  <1> QED BY <1>8 DEF r, e

\* The groups before the last one.
LEMMA ApartFront ==
  ASSUME NEW f \in Seq(Seq(Clip)), NEW o \in Seq(Clip), NEW S, Apart(Append(f, o), S)
  PROVE  Apart(f, S)
  <1> DEFINE p == Append(f, o)
  <1>1. \A i \in DOMAIN f : i \in DOMAIN p /\ p[i] = f[i]
    OBVIOUS
  <1>2. Apart(p, S)
    OBVIOUS
  <1> HIDE DEF p
  <1> QED BY <1>1, <1>2 DEF Apart

\* What is known of the grouping before sample n + 1.
GroupedTo(b, g, n) ==
  /\ g \in [full : Seq(Seq(Clip)), open : Seq(Clip), size : Nat]
  /\ Apart(Append(g.full, g.open), InBin(b) \cap 1..n)

\* One sample further, it still is.
LEMMA ScanKeeps ==
  ASSUME meta \in [Clip -> Metas], NEW b, NEW n \in 1..NumClips, NEW g, GroupedTo(b, g, n - 1)
  PROVE  GroupedTo(b, Scan(b, g, n), n)
  <1> DEFINE S == InBin(b) \cap 1..(n - 1)
             T == InBin(b) \cap 1..n
             h == Scan(b, g, n)
  <1>1. n \in Nat /\ n \in Clip /\ n \notin S /\ meta[n].size \in Nat
    BY ShardAssumption, MetaOfClip DEF Clip
  <1>2. /\ g.full \in Seq(Seq(Clip)) /\ g.open \in Seq(Clip) /\ g.size \in Nat
        /\ Apart(Append(g.full, g.open), S)
        /\ g = [full |-> g.full, open |-> g.open, size |-> g.size]
    BY DEF GroupedTo
  <1>3. CASE n \notin InBin(b)
    <2>1. h = g /\ T = S
      BY <1>1, <1>3 DEF Scan
    <2> QED BY <2>1 DEF GroupedTo
  <1>4. CASE n \in InBin(b)
    <2>1. T = S \cup {n}
      BY <1>1, <1>4
    <2>2. h = AddSample(g, n)
      BY <1>4 DEF Scan
    <2> HIDE DEF S, T
    <2>3. CASE g.open # <<>> /\ g.size + meta[n].size > TargetSize
      <3>1. h = [full |-> Append(g.full, g.open), open |-> <<n>>, size |-> meta[n].size]
        BY <2>2, <2>3 DEF AddSample
      <3>2. Apart(Append(h.full, h.open), T)
        <4>1. Apart(Append(Append(g.full, g.open), <<n>>), S \cup {n})
          BY <1>1, <1>2, ApartNew
        <4>2. h.full = Append(g.full, g.open) /\ h.open = <<n>>
          BY <3>1
        <4> QED BY <2>1, <4>1, <4>2
      <3>3. h \in [full : Seq(Seq(Clip)), open : Seq(Clip), size : Nat]
        BY <1>1, <1>2, <3>1
      <3> QED BY <3>2, <3>3 DEF GroupedTo, T
    <2>4. CASE ~(g.open # <<>> /\ g.size + meta[n].size > TargetSize)
      <3>1. h = [full |-> g.full, open |-> Append(g.open, n), size |-> g.size + meta[n].size]
        BY <1>2, <2>2, <2>4 DEF AddSample
      <3>2. Apart(Append(h.full, h.open), T)
        <4>1. Apart(Append(g.full, Append(g.open, n)), S \cup {n})
          BY <1>1, <1>2, ApartGrown
        <4>2. h.full = g.full /\ h.open = Append(g.open, n)
          BY <3>1
        <4> QED BY <2>1, <4>1, <4>2
      <3>3. h \in [full : Seq(Seq(Clip)), open : Seq(Clip), size : Nat]
        BY <1>1, <1>2, <3>1
      <3> QED BY <3>2, <3>3 DEF GroupedTo, T
    <2> QED BY <2>3, <2>4
  <1> QED BY <1>3, <1>4

\* The groups of a bin hold clips of this bin, and each clip once.
LEMMA GroupsApart ==
  ASSUME meta \in [Clip -> Metas], NEW b
  PROVE  Apart(Groups(b), InBin(b))
  <1>1. PICK g : /\ g[0] = NoGroups
                 /\ \A n \in 1..NumClips : g[n] = Scan(b, g[n - 1], n)
                 /\ Grouped(b) = g[NumClips]
    BY GroupedInSteps
  <1> DEFINE Good == {n \in 0..NumClips : GroupedTo(b, g[n], n)}
  <1>2. NumClips \in Nat
    BY ShardAssumption
  <1>3. 0 \in Good
    <2>1. Append(<<>>, <<>>) = << <<>> >>
      OBVIOUS
    <2>2. Apart(<< <<>> >>, InBin(b) \cap 1..0)
      <3>1. << <<>> >> \in Seq(Seq(Clip)) /\ \A i \in DOMAIN << <<>> >> : << <<>> >>[i] = <<>>
        OBVIOUS
      <3>2. \A i \in DOMAIN << <<>> >> : DOMAIN << <<>> >>[i] = {}
        BY <3>1
      <3> QED BY <3>1, <3>2 DEF Apart
    <2>3. NoGroups \in [full : Seq(Seq(Clip)), open : Seq(Clip), size : Nat]
          /\ NoGroups.full = <<>> /\ NoGroups.open = <<>>
      BY DEF NoGroups
    <2>4. GroupedTo(b, NoGroups, 0)
      BY <2>1, <2>2, <2>3 DEF GroupedTo
    <2> QED BY <1>1, <1>2, <2>4
  <1>4. ASSUME NEW n \in 0..(NumClips - 1), n \in Good PROVE n + 1 \in Good
    <2>1. n + 1 \in 1..NumClips /\ (n + 1) - 1 = n /\ n + 1 \in 0..NumClips
      BY <1>2
    <2>2. g[n + 1] = Scan(b, g[n], n + 1)
      BY <1>1, <2>1
    <2>3. GroupedTo(b, g[n], (n + 1) - 1)
      BY <1>4, <2>1
    <2>4. GroupedTo(b, Scan(b, g[n], n + 1), n + 1)
      BY <2>1, <2>3, ScanKeeps
    <2> QED BY <2>1, <2>2, <2>4
  <1>5. NumClips \in Good
    <2> HIDE DEF Good
    <2> QED BY <1>2, <1>3, <1>4, UpTo
  <1> DEFINE h == Grouped(b)
  <1>6. GroupedTo(b, h, NumClips)
    BY <1>1, <1>5
  <1>7. InBin(b) \cap 1..NumClips = InBin(b)
    BY DEF InBin, Kept, Samples, Clip
  <1>8. /\ h.full \in Seq(Seq(Clip)) /\ h.open \in Seq(Clip)
        /\ Apart(Append(h.full, h.open), InBin(b))
    BY <1>6, <1>7 DEF GroupedTo
  <1>9. Apart(h.full, InBin(b))
    BY <1>8, ApartFront
  <1>10. Groups(b) \in {h.full, Append(h.full, h.open)}
    BY DEF Groups
  <1> QED BY <1>8, <1>9, <1>10

-----------------------------------------------------------------------------
(* The plan.                                                               *)

\* Division: quotient and remainder are those of one number.
LEMMA Division ==
  ASSUME NEW x \in Nat, NEW n \in Nat \ {0}
  PROVE  x = n * (x \div n) + (x % n)
  OBVIOUS

\* A task of the plan is a group of its bin.
LEMMA PlannedTask ==
  ASSUME meta \in [Clip -> Metas], NEW t \in Plan
  PROVE  /\ t.bin \in AllBins /\ t.clips \in Seq(Clip)
         /\ t = [bin |-> t.bin, part |-> t.part, tar |-> t.tar, clips |-> t.clips]
         /\ \A i \in DOMAIN t.clips : t.clips[i] \in InBin(t.bin)
         /\ \E k \in DOMAIN Groups(t.bin) : t = TaskOf(t.bin, k)
  <1>1. PICK b \in AllBins : \E k \in DOMAIN Groups(b) : t = TaskOf(b, k)
    BY DEF Plan
  <1>2. PICK k \in DOMAIN Groups(b) : t = TaskOf(b, k)
    BY <1>1
  <1>3. t.bin = b /\ t.clips = Groups(b)[k]
        /\ t = [bin |-> t.bin, part |-> t.part, tar |-> t.tar, clips |-> t.clips]
    BY <1>2 DEF TaskOf
  <1>4. Apart(Groups(b), InBin(b))
    BY GroupsApart
  <1>5. t.clips \in Seq(Clip) /\ \A i \in DOMAIN t.clips : t.clips[i] \in InBin(b)
    BY <1>3, <1>4 DEF Apart
  <1> QED BY <1>1, <1>2, <1>3, <1>5

\* Two tasks do not share a place.
LEMMA SamePlace ==
  ASSUME meta \in [Clip -> Metas], NEW t \in Plan, NEW u \in Plan, Place(t) = Place(u)
  PROVE  t = u
  <1>1. t.bin = u.bin /\ t.part = u.part /\ t.tar = u.tar
    BY DEF Place
  <1>2. PICK k \in DOMAIN Groups(t.bin) : t = TaskOf(t.bin, k)
    BY PlannedTask
  <1>3. PICK l \in DOMAIN Groups(t.bin) : u = TaskOf(t.bin, l)
    BY PlannedTask, <1>1
  <1>4. k \in Nat \ {0} /\ l \in Nat \ {0}
    <2>1. Groups(t.bin) \in Seq(Seq(Clip))
      BY GroupsApart DEF Apart
    <2> QED BY <2>1
  <1>5. /\ (k - 1) \div MaxTarsPerPart = (l - 1) \div MaxTarsPerPart
        /\ (k - 1) % MaxTarsPerPart = (l - 1) % MaxTarsPerPart
    <2>1. /\ t.part = (k - 1) \div MaxTarsPerPart /\ t.tar = (k - 1) % MaxTarsPerPart
          /\ u.part = (l - 1) \div MaxTarsPerPart /\ u.tar = (l - 1) % MaxTarsPerPart
      BY <1>2, <1>3 DEF TaskOf
    <2> QED BY <1>1, <2>1
  <1>6. k - 1 = l - 1
    <2>1. k - 1 \in Nat /\ l - 1 \in Nat /\ MaxTarsPerPart \in Nat \ {0}
      BY <1>4, ShardAssumption
    <2> QED BY <1>5, <2>1, Division
  <1>7. k = l
    BY <1>4, <1>6
  <1> QED BY <1>2, <1>3, <1>7

\* Two tasks do not share a clip, and no task has a clip twice.
LEMMA SharedClip ==
  ASSUME meta \in [Clip -> Metas], NEW t \in Plan, NEW u \in Plan,
         NEW i \in DOMAIN t.clips, NEW j \in DOMAIN u.clips, t.clips[i] = u.clips[j]
  PROVE  t = u /\ i = j
  <1>1. t.clips[i] \in InBin(t.bin) /\ u.clips[j] \in InBin(u.bin)
    BY PlannedTask
  <1>2. t.bin = u.bin
    BY <1>1 DEF InBin
  <1>3. PICK k \in DOMAIN Groups(t.bin) : t = TaskOf(t.bin, k)
    BY PlannedTask
  <1>4. PICK l \in DOMAIN Groups(t.bin) : u = TaskOf(t.bin, l)
    BY PlannedTask, <1>2
  <1>5. t.clips = Groups(t.bin)[k] /\ u.clips = Groups(t.bin)[l]
    BY <1>3, <1>4 DEF TaskOf
  <1>6. k = l /\ i = j
    BY <1>5, GroupsApart DEF Apart
  <1> QED BY <1>3, <1>4, <1>6

\* What a run plans depends on its input only.
LEMMA PlanStands ==
  ASSUME UNCHANGED input
  PROVE  Plan' = Plan /\ AllBins' = AllBins
  <1>1. meta' = meta /\ dedup' = dedup
    BY DEF input
  <1>2. Kept' = Kept
    BY <1>1 DEF Kept, Samples, Removed
  <1>3. ASSUME NEW b PROVE InBin(b)' = InBin(b)
    BY <1>1, <1>2 DEF InBin
  <1>4. AllBins' = AllBins
    BY <1>1, <1>2 DEF AllBins
  <1>5. ASSUME NEW b PROVE Grouped(b)' = Grouped(b)
    BY ZenonT(60), <1>1, <1>3 DEF Grouped, AddSample
  <1>6. ASSUME NEW b PROVE Groups(b)' = Groups(b)
    BY <1>5 DEF Groups
  <1>7. ASSUME NEW b, NEW i PROVE TaskOf(b, i)' = TaskOf(b, i)
    BY <1>6 DEF TaskOf
  <1> QED BY <1>4, <1>6, <1>7 DEF Plan

\* Nor does what is written of a task.
LEMMA TarStands ==
  ASSUME UNCHANGED input, NEW t, NEW k
  PROVE  TarOf(t, k)' = TarOf(t, k)
  <1>1. meta' = meta
    BY DEF input
  <1>2. ASSUME NEW c PROVE Entry(k, c)' = Entry(k, c)
    BY <1>1 DEF Entry, Captioned, StaysValid
  <1> QED BY <1>2 DEF TarOf

\* A run that finds the output empty plans just that.
LEMMA EmptyOutputPlan ==
  ASSUME meta \in [Clip -> Metas], tars = {}
  PROVE  Tasks = Plan
  <1>1. ASSUME NEW b PROVE TasksOf(b) = {TaskOf(b, i) : i \in DOMAIN Groups(b)}
    <2>1. FirstPart(b) = 0
      BY DEF FirstPart
    <2>2. \A i \in DOMAIN Groups(b) : i \in Nat \ {0}
      BY GroupsApart DEF Apart
    <2>3. ASSUME NEW i \in DOMAIN Groups(b)
          PROVE  0 + ((i - 1) \div MaxTarsPerPart) = (i - 1) \div MaxTarsPerPart
      BY <2>2, ShardAssumption
    <2> QED BY <2>1, <2>3 DEF TasksOf, TaskOf
  <1> QED BY <1>1 DEF Tasks, Plan

-----------------------------------------------------------------------------
(* The invariant.                                                          *)

\* The invariant holds before the first step.
THEOREM InitShardInv ==
  Init => ShardInv
  <1> SUFFICES ASSUME Init PROVE ShardInv
    OBVIOUS
  <1>1. TypeOK
    <2>1. [p \in Packers |-> NoTask] \in Held
      BY DEF NoTask, Held
    <2>2. /\ meta \in [Clip -> Metas] /\ dedup \in Dedups /\ phase = "down"
          /\ planned = {} /\ todo = {} /\ encoded = {} /\ packed = {}
          /\ packing = [p \in Packers |-> NoTask]
          /\ tars = {} /\ listed = FALSE /\ deaths = 0
      BY DEF Init
    <2>3. packing \in Held
      BY <2>1, <2>2
    <2>4. tars \subseteq PlanTars
      BY <2>2
    <2> QED BY <2>2, <2>3, <2>4 DEF TypeOK
  <1>2. RunInv /\ PackedInv /\ SummaryInv
    BY DEF Init, RunInv, PackedInv, SummaryInv, Over, NoTask
  <1> QED BY <1>1, <1>2 DEF ShardInv

\* The types of what a step leaves alone.
LEMMA TypesStand ==
  ASSUME TypeOK, UNCHANGED input
  PROVE  /\ meta' \in [Clip -> Metas] /\ dedup' \in Dedups
         /\ Plan' = Plan /\ PlanTars' = PlanTars /\ Held' = Held
  <1>1. meta' = meta /\ dedup' = dedup /\ meta \in [Clip -> Metas] /\ dedup \in Dedups
    BY DEF input, TypeOK
  <1>2. Plan' = Plan
    BY PlanStands
  <1>3. \A t, k : TarOf(t, k)' = TarOf(t, k)
    BY TarStands
  <1>4. PlanTars' = PlanTars
    BY <1>2, <1>3 DEF PlanTars, Kinds
  <1>5. Held' = Held
    BY <1>2 DEF Held, Kinds
  <1> QED BY <1>1, <1>2, <1>4, <1>5

\* Before the summary, nothing is vouched for.
LEMMA NotListed ==
  ASSUME SummaryInv, phase # "done"
  PROVE  ~listed
  BY DEF SummaryInv

\* A run that starts.
LEMMA StartKeeps ==
  ASSUME ShardInv, Start
  PROVE  ShardInv'
  <1>1. /\ phase = "down" /\ tars = {} /\ wdinfo = {} /\ ~listed
        /\ planned' = Tasks /\ todo' = planned' /\ phase' \in {"up", "done"}
        /\ encoded' = {} /\ packed' = {} /\ packing' = [p \in Packers |-> NoTask]
        /\ UNCHANGED input /\ tars' = tars /\ wdinfo' = wdinfo /\ listed' = listed
        /\ deaths' = deaths
    BY DEF Start, AcceptsOutput, output
  <1>2. TypeOK
    BY DEF ShardInv
  <1>3. Tasks = Plan /\ Plan' = Plan
    BY <1>1, <1>2, EmptyOutputPlan, PlanStands DEF TypeOK
  <1>4. TypeOK'
    <2>1. [p \in Packers |-> NoTask] \in Held
      BY DEF NoTask, Held
    <2> QED BY <1>1, <1>2, <1>3, <2>1, TypesStand DEF TypeOK
  <1>5. RunInv'
    BY <1>1, <1>3 DEF RunInv, Over
  <1>6. PackedInv'
    BY <1>1 DEF PackedInv, Over, NoTask
  <1>7. SummaryInv'
    BY <1>1 DEF SummaryInv, Over
  <1> QED BY <1>4, <1>5, <1>6, <1>7 DEF ShardInv

\* A task goes on to its encoding, or to a packer.
LEMMA MoveKeeps ==
  ASSUME ShardInv, (\E t \in todo : Encode(t)) \/ (\E p \in Packers : Take(p))
  PROVE  ShardInv'
  <1>1. /\ phase = "up" /\ phase' = phase /\ UNCHANGED input /\ tars' = tars /\ wdinfo' = wdinfo
        /\ listed' = listed /\ deaths' = deaths /\ planned' = planned /\ packed' = packed
        /\ todo' \subseteq todo
    BY DEF Encode, Take, output
  <1>2. TypeOK /\ ~listed
    BY <1>1, NotListed DEF ShardInv
  <1>3. Plan' = Plan /\ \A t, k : TarOf(t, k)' = TarOf(t, k)
    BY <1>1, PlanStands, TarStands
  <1>4. /\ encoded' \subseteq Plan
        /\ packing' \in Held
        /\ \A p \in Packers : \/ packing'[p] = packing[p]
                              \/ packing'[p].written = {} /\ \E t : packing'[p].task = {t}
    <2>1. CASE \E t \in todo : Encode(t)
      BY <1>2, <2>1 DEF Encode, TypeOK, Held
    <2>2. CASE \E p \in Packers : Take(p)
      <3>1. PICK p \in Packers : Take(p)
        BY <2>2
      <3>2. PICK t \in encoded : /\ packing[p] = NoTask /\ encoded' = encoded \ {t}
                                /\ packing' = [packing EXCEPT ![p].task = {t}]
        BY <3>1 DEF Take
      <3>3. /\ packing' \in Held
            /\ packing'[p].task = {t} /\ packing'[p].written = NoTask.written
            /\ \A q \in Packers \ {p} : packing'[q] = packing[q]
        BY <1>2, <3>2 DEF TypeOK, Held
      <3> QED BY <1>2, <3>2, <3>3 DEF NoTask, TypeOK
    <2> QED BY <2>1, <2>2
  <1>5. TypeOK'
    BY <1>1, <1>2, <1>4, TypesStand DEF TypeOK
  <1>6. RunInv'
    BY <1>1, <1>2, <1>3 DEF ShardInv, RunInv, Over
  <1>7. PackedInv'
    BY <1>1, <1>2, <1>3, <1>4 DEF ShardInv, PackedInv, Over, IsPacked
  <1>8. SummaryInv'
    BY <1>1, <1>2 DEF ShardInv, SummaryInv, Over
  <1> QED BY <1>5, <1>6, <1>7, <1>8 DEF ShardInv

\* There is a next kind until all are written.
LEMMA NextKind ==
  ASSUME NEW done \in SUBSET Kinds, done # Kinds
  PROVE  Turn[Cardinality(done) + 1] \in Kinds
  <1>1. IsFiniteSet(Kinds) /\ Cardinality(Kinds) = 3
    <2>1. IsFiniteSet({}) /\ Cardinality({}) = 0
      BY FS_EmptySet
    <2>2. IsFiniteSet({"video"}) /\ Cardinality({"video"}) = 1
      BY FS_Singleton
    <2>3. IsFiniteSet({"video"} \cup {"t5_xxl"}) /\ Cardinality({"video"} \cup {"t5_xxl"}) = 2
      BY <2>2, FS_AddElement
    <2>4. IsFiniteSet(({"video"} \cup {"t5_xxl"}) \cup {"metas"})
          /\ Cardinality(({"video"} \cup {"t5_xxl"}) \cup {"metas"}) = 3
      BY <2>3, FS_AddElement
    <2>5. Kinds = ({"video"} \cup {"t5_xxl"}) \cup {"metas"}
      BY DEF Kinds
    <2> QED BY <2>4, <2>5
  <1>2. Cardinality(done) \in Nat /\ Cardinality(done) <= 3 /\ Cardinality(done) # 3
    BY <1>1, FS_Subset, FS_CardinalityType
  <1>3. Cardinality(done) + 1 \in {1, 2, 3}
    BY <1>2
  <1> QED BY <1>3 DEF Turn, Kinds

\* A tar is written.
LEMMA WriteKeeps ==
  ASSUME ShardInv, NEW p \in Packers, Write(p)
  PROVE  ShardInv'
  <1> DEFINE done == packing[p].written
             kind == Turn[Cardinality(done) + 1]
  <1>1. PICK t \in packing[p].task :
          /\ phase = "up" /\ done # Kinds /\ phase' = phase
          /\ tars' = tars \cup {TarOf(t, kind)}
          /\ packing' = [packing EXCEPT ![p].written = @ \cup {kind}]
          /\ UNCHANGED input /\ planned' = planned /\ todo' = todo /\ encoded' = encoded
          /\ packed' = packed /\ wdinfo' = wdinfo /\ listed' = listed /\ deaths' = deaths
    BY DEF Write, TarOf
  <1>2. TypeOK /\ ~listed
    BY <1>1, NotListed DEF ShardInv
  <1>3. Plan' = Plan /\ \A u, k : TarOf(u, k)' = TarOf(u, k)
    BY <1>1, PlanStands, TarStands
  <1>4. t \in Plan /\ done \in SUBSET Kinds
    BY <1>2 DEF TypeOK, Held
  <1>5. kind \in Kinds
    BY <1>1, <1>4, NextKind
  <1> HIDE DEF kind
  <1>6. /\ packing' \in Held
        /\ \A q \in Packers \ {p} : packing'[q] = packing[q]
        /\ packing'[p].task = packing[p].task /\ packing'[p].written = done \cup {kind}
    BY <1>1, <1>2, <1>5 DEF TypeOK, Held
  <1>7. \A u \in packing[p].task : u = t
    BY DEF ShardInv, PackedInv
  <1>8. TypeOK'
    <2>1. TarOf(t, kind) \in PlanTars
      BY <1>4, <1>5 DEF PlanTars
    <2>2. tars' \subseteq PlanTars
      BY <1>1, <1>2, <2>1 DEF TypeOK
    <2> QED BY <1>1, <1>2, <1>6, <2>2, TypesStand DEF TypeOK
  <1>9. RunInv'
    BY <1>1, <1>2, <1>3 DEF ShardInv, RunInv, Over
  <1>10. PackedInv'
    BY <1>1, <1>2, <1>3, <1>6, <1>7 DEF ShardInv, PackedInv, Over, IsPacked
  <1>11. SummaryInv'
    BY <1>1, <1>2 DEF ShardInv, SummaryInv, Over
  <1> QED BY <1>8, <1>9, <1>10, <1>11 DEF ShardInv

\* A packer hands on a task whose tars are all written.
LEMMA HandKeeps ==
  ASSUME ShardInv, NEW p \in Packers, Hand(p)
  PROVE  ShardInv'
  <1>1. /\ phase = "up" /\ phase' = phase /\ packing[p].written = Kinds
        /\ packed' = packed \cup packing[p].task /\ packing' = [packing EXCEPT ![p] = NoTask]
        /\ UNCHANGED input /\ planned' = planned /\ todo' = todo /\ encoded' = encoded
        /\ tars' = tars /\ wdinfo' = wdinfo /\ listed' = listed /\ deaths' = deaths
    BY DEF Hand, Written, output
  <1>2. TypeOK /\ ~listed
    BY <1>1, NotListed DEF ShardInv
  <1>3. Plan' = Plan /\ \A t, k : TarOf(t, k)' = TarOf(t, k)
    BY <1>1, PlanStands, TarStands
  <1>4. /\ packed' \subseteq Plan
        /\ packing' \in Held
        /\ \A q \in Packers : packing'[q] \in {packing[q], NoTask}
    BY <1>1, <1>2 DEF TypeOK, Held, NoTask
  <1>5. TypeOK'
    BY <1>1, <1>2, <1>4, TypesStand DEF TypeOK
  <1>6. RunInv'
    BY <1>1, <1>2, <1>3 DEF ShardInv, RunInv, Over
  <1>7. PackedInv'
    <2>1. \A t \in packed' : IsPacked(t)
      BY <1>1 DEF ShardInv, PackedInv, IsPacked
    <2>2. \A t \in packed' : IsPacked(t)'
      BY <1>1, <1>3, <2>1 DEF IsPacked, Kinds
    <2>3. \A q \in Packers : /\ \A t, u \in packing'[q].task : t = u
                             /\ \A t \in packing'[q].task :
                                  \A k \in packing'[q].written : TarOf(t, k) \in tars
      BY <1>1, <1>4 DEF ShardInv, PackedInv, NoTask
    <2> QED BY <1>1, <1>3, <2>2, <2>3 DEF PackedInv
  <1>8. SummaryInv'
    BY <1>1, <1>2 DEF ShardInv, SummaryInv, Over
  <1> QED BY <1>5, <1>6, <1>7, <1>8 DEF ShardInv

\* The stages are through.
LEMMA ReturnKeeps ==
  ASSUME ShardInv, Return
  PROVE  ShardInv'
  <1>1. /\ phase = "up" /\ phase' = "summing" /\ packed = planned
        /\ UNCHANGED input /\ planned' = planned /\ todo' = todo /\ encoded' = encoded
        /\ packed' = packed /\ packing' = packing
        /\ tars' = tars /\ wdinfo' = wdinfo /\ listed' = listed /\ deaths' = deaths
    BY DEF Return, work, output
  <1>2. TypeOK /\ ~listed /\ wdinfo = {}
    BY <1>1, NotListed DEF ShardInv, SummaryInv
  <1>3. Plan' = Plan /\ \A t, k : TarOf(t, k)' = TarOf(t, k)
    BY <1>1, PlanStands, TarStands
  <1>4. TypeOK'
    BY <1>1, <1>2, TypesStand DEF TypeOK
  <1>5. RunInv'
    BY <1>1, <1>3 DEF ShardInv, RunInv, Over
  <1>6. PackedInv'
    BY <1>1, <1>3 DEF ShardInv, PackedInv, IsPacked
  <1>7. SummaryInv'
    BY <1>1, <1>2 DEF SummaryInv, Over
  <1> QED BY <1>4, <1>5, <1>6, <1>7 DEF ShardInv

\* While the summary is written, what it is about stands.
LEMMA DataStands ==
  ASSUME packed' = packed, tars' = tars, UNCHANGED input, NEW b
  PROVE  Data(b)' = Data(b) /\ HasCount(b)' = HasCount(b) /\ AllBins' = AllBins
  BY PlanStands DEF Data, HasCount, KeyCount

\* A bin's wdinfo.json, or the list.
LEMMA SummaryKeeps ==
  ASSUME ShardInv, WriteWdinfo \/ WriteList
  PROVE  ShardInv'
  <1>1. /\ phase = "summing" /\ UNCHANGED input /\ planned' = planned /\ todo' = todo
        /\ encoded' = encoded /\ packed' = packed /\ packing' = packing
        /\ tars' = tars /\ deaths' = deaths /\ listed' \in {listed, TRUE}
        /\ phase' \in {"summing", "done"}
    BY DEF WriteWdinfo, WriteList, work
  <1>2. TypeOK /\ ~listed
    BY <1>1, NotListed DEF ShardInv
  <1>3. /\ Plan' = Plan /\ \A t, k : TarOf(t, k)' = TarOf(t, k)
        /\ AllBins' = AllBins /\ \A b : Data(b)' = Data(b) /\ HasCount(b)' = HasCount(b)
    BY <1>1, PlanStands, TarStands, DataStands
  <1>4. TypeOK'
    BY <1>1, <1>2, TypesStand DEF TypeOK
  <1>5. RunInv'
    BY <1>1, <1>3 DEF ShardInv, RunInv, Over
  <1>6. PackedInv'
    <2>1. phase' # "up" /\ Over
      BY <1>1 DEF Over
    <2> QED BY <1>1, <1>3, <2>1 DEF ShardInv, PackedInv, IsPacked
  <1>7. SummaryInv'
    <2>1. \A d \in wdinfo' : \E b \in AllBins : HasCount(b) /\ d = Data(b)
      <3>1. \A d \in wdinfo : \E b \in AllBins : HasCount(b) /\ d = Data(b)
        BY <1>1 DEF ShardInv, SummaryInv, Over
      <3>2. \A d \in wdinfo' : d \in wdinfo \/ \E b \in AllBins : HasCount(b) /\ d = Data(b)
        BY DEF WriteWdinfo, WriteList, NotTold
      <3> QED BY <3>1, <3>2
    <2>2. \A d \in wdinfo' : \E b \in AllBins' : HasCount(b)' /\ d = Data(b)'
      BY <1>3, <2>1
    <2>3. listed' => phase' = "done" /\ NotTold' = {}
      BY <1>2, <1>3 DEF WriteWdinfo, WriteList, NotTold
    <2> QED BY <1>1, <2>2, <2>3 DEF SummaryInv
  <1> QED BY <1>4, <1>5, <1>6, <1>7 DEF ShardInv

\* A run fails or dies.
LEMMA FailKeeps ==
  ASSUME ShardInv, EncodeFails \/ WdinfoFails \/ Die
  PROVE  ShardInv'
  <1>1. /\ phase \in {"up", "summing"} /\ phase' = "down" /\ todo' = {} /\ encoded' = {}
        /\ packing' = [p \in Packers |-> NoTask]
        /\ UNCHANGED input /\ planned' = planned /\ packed' = packed
        /\ tars' = tars /\ wdinfo' = wdinfo /\ listed' = listed
        /\ deaths' \in {deaths, deaths + 1}
    BY DEF EncodeFails, WdinfoFails, Die, Fail, output
  <1>2. TypeOK /\ ~listed
    BY <1>1, NotListed DEF ShardInv
  <1>3. Plan' = Plan
    BY <1>1, PlanStands
  <1>4. TypeOK'
    <2>1. [p \in Packers |-> NoTask] \in Held
      BY DEF NoTask, Held
    <2> QED BY <1>1, <1>2, <2>1, TypesStand DEF TypeOK
  <1>5. RunInv' /\ SummaryInv'
    BY <1>1, <1>2 DEF RunInv, SummaryInv, Over
  <1>6. PackedInv'
    BY <1>1, <1>2 DEF PackedInv, Over, NoTask
  <1> QED BY <1>4, <1>5, <1>6 DEF ShardInv

\* The user empties the output.
LEMMA ClearKeeps ==
  ASSUME ShardInv, Clear
  PROVE  ShardInv'
  <1>1. /\ phase = "down" /\ phase' = phase /\ tars' = {} /\ wdinfo' = {} /\ listed' = FALSE
        /\ UNCHANGED input /\ planned' = planned /\ todo' = todo /\ encoded' = encoded
        /\ packed' = packed /\ packing' = packing /\ deaths' = deaths
    BY DEF Clear, work
  <1>2. TypeOK
    BY DEF ShardInv
  <1>3. Plan' = Plan
    BY <1>1, PlanStands
  <1>4. TypeOK'
    BY <1>1, <1>2, TypesStand DEF TypeOK
  <1>5. RunInv' /\ SummaryInv'
    BY <1>1 DEF RunInv, SummaryInv, Over
  <1>6. PackedInv'
    BY <1>1 DEF ShardInv, PackedInv, Over
  <1> QED BY <1>4, <1>5, <1>6 DEF ShardInv

\* Nothing happens.
LEMMA ShardStutter ==
  ASSUME ShardInv, UNCHANGED vars
  PROVE  ShardInv'
  <1>1. /\ UNCHANGED input /\ UNCHANGED output /\ UNCHANGED work
        /\ phase' = phase /\ deaths' = deaths
    BY DEF vars
  <1>2. /\ Plan' = Plan /\ \A t, k : TarOf(t, k)' = TarOf(t, k)
        /\ AllBins' = AllBins /\ \A b : Data(b)' = Data(b) /\ HasCount(b)' = HasCount(b)
    BY <1>1, PlanStands, TarStands, DataStands DEF output, work
  <1>3. TypeOK'
    BY <1>1, <1>2, TypesStand DEF ShardInv, TypeOK, output, work
  <1>4. RunInv' /\ PackedInv'
    BY <1>1, <1>2 DEF ShardInv, RunInv, PackedInv, Over, IsPacked, output, work
  <1>5. SummaryInv'
    BY <1>1, <1>2 DEF ShardInv, SummaryInv, Over, NotTold, output, work
  <1> QED BY <1>3, <1>4, <1>5 DEF ShardInv

\* Every step keeps the invariant.
THEOREM StepShardInv ==
  ShardInv /\ [Next]_vars => ShardInv'
  <1> SUFFICES ASSUME ShardInv, [Next]_vars PROVE ShardInv'
    OBVIOUS
  <1>1. CASE Start
    BY <1>1, StartKeeps
  <1>2. CASE (\E t \in todo : Encode(t)) \/ (\E p \in Packers : Take(p))
    BY <1>2, MoveKeeps
  <1>3. CASE \E p \in Packers : Write(p)
    BY <1>3, WriteKeeps
  <1>4. CASE \E p \in Packers : Hand(p)
    BY <1>4, HandKeeps
  <1>5. CASE Return
    BY <1>5, ReturnKeeps
  <1>6. CASE WriteWdinfo \/ WriteList
    BY <1>6, SummaryKeeps
  <1>7. CASE EncodeFails \/ WdinfoFails \/ Die
    BY <1>7, FailKeeps
  <1>8. CASE Clear
    BY <1>8, ClearKeeps
  <1>9. CASE UNCHANGED vars
    BY <1>9, ShardStutter
  <1> QED BY <1>1, <1>2, <1>3, <1>4, <1>5, <1>6, <1>7, <1>8, <1>9 DEF Next

\* Whatever runs died on an output, there has only ever been one plan for it,
\* and what is vouched for is the whole of it.
THEOREM ShardHolds ==
  Spec => []ShardInv
  BY InitShardInv, StepShardInv, PTL DEF Spec

-----------------------------------------------------------------------------
(* The properties.                                                         *)

\* A tar is that of a task of the plan.
LEMMA TarOfTask ==
  ASSUME TypeOK, NEW x \in tars
  PROVE  \E t \in Plan, k \in Kinds : x = TarOf(t, k)
  BY DEF TypeOK, PlanTars

\* What a tar tells of its task.
LEMMA TarTells ==
  ASSUME meta \in [Clip -> Metas], NEW t \in Plan, NEW k \in Kinds
  PROVE  /\ TarOf(t, k).bin = t.bin /\ TarOf(t, k).part = t.part /\ TarOf(t, k).tar = t.tar
         /\ TarOf(t, k).kind = k /\ Place(TarOf(t, k)) = Place(t)
         /\ DOMAIN TarOf(t, k).entries = DOMAIN t.clips
         /\ \A i \in DOMAIN t.clips : /\ TarOf(t, k).entries[i] = Entry(k, t.clips[i])
                                      /\ TarOf(t, k).entries[i].clip = t.clips[i]
         /\ ClipsIn(TarOf(t, k)) = {t.clips[i] : i \in DOMAIN t.clips}
  <1>1. /\ TarOf(t, k).bin = t.bin /\ TarOf(t, k).part = t.part /\ TarOf(t, k).tar = t.tar
        /\ TarOf(t, k).kind = k
        /\ TarOf(t, k).entries = [i \in DOMAIN t.clips |-> Entry(k, t.clips[i])]
    BY DEF TarOf
  <1>2. Place(TarOf(t, k)) = Place(t)
    BY <1>1 DEF Place
  <1>3. \A c : Entry(k, c).clip = c
    BY DEF Entry, Kinds
  <1>4. /\ DOMAIN TarOf(t, k).entries = DOMAIN t.clips
        /\ \A i \in DOMAIN t.clips : /\ TarOf(t, k).entries[i] = Entry(k, t.clips[i])
                                     /\ TarOf(t, k).entries[i].clip = t.clips[i]
    BY <1>1, <1>3
  <1>5. ClipsIn(TarOf(t, k)) = {t.clips[i] : i \in DOMAIN t.clips}
    BY <1>4 DEF ClipsIn
  <1> QED BY <1>1, <1>2, <1>4, <1>5

\* A clip is in at most one tar of each kind and no two tasks share a tar
\* (_group_samples_into_tasks), however many runs died on this output before.
THEOREM PackedOnceHolds ==
  Spec => []PackedOnce
  <1>1. ShardInv => PackedOnce
    <2> SUFFICES ASSUME ShardInv, NEW x \in tars, NEW y \in tars, x.kind = y.kind, x # y
                 PROVE  Place(x) # Place(y) /\ ClipsIn(x) \cap ClipsIn(y) = {}
      BY DEF PackedOnce
    <2>1. TypeOK /\ meta \in [Clip -> Metas]
      BY DEF ShardInv, TypeOK
    <2>2. PICK t \in Plan, k \in Kinds : x = TarOf(t, k)
      BY <2>1, TarOfTask
    <2>3. PICK u \in Plan, l \in Kinds : y = TarOf(u, l)
      BY <2>1, TarOfTask
    <2>4. x.kind = k /\ y.kind = l
      BY <2>1, <2>2, <2>3, TarTells
    <2>5. t # u
      BY <2>2, <2>3, <2>4
    <2>6. Place(x) # Place(y)
      BY <2>1, <2>2, <2>3, <2>5, SamePlace, TarTells
    <2>7. ASSUME NEW c \in ClipsIn(x), c \in ClipsIn(y) PROVE FALSE
      <3>1. PICK i \in DOMAIN t.clips : c = t.clips[i]
        BY <2>1, <2>2, TarTells
      <3>2. PICK j \in DOMAIN u.clips : c = u.clips[j]
        BY <2>1, <2>3, <2>7, TarTells
      <3> QED BY <2>1, <2>5, <3>1, <3>2, SharedClip
    <2> QED BY <2>6, <2>7
  <1> QED BY <1>1, ShardHolds, PTL

\* Where the embeddings of a clip and its windows differ in number, the metadata
\* say that the clip is not valid (T5StageForShard), in every tar that is ever
\* there.
THEOREM EmbeddingsFitHolds ==
  Spec => []EmbeddingsFit
  <1>1. ShardInv => EmbeddingsFit
    <2> SUFFICES ASSUME ShardInv, NEW x \in tars, NEW y \in tars,
                        x.kind = "t5_xxl", y.kind = "metas", Place(x) = Place(y),
                        NEW i \in DOMAIN x.entries, y.entries[i].valid
                 PROVE  x.entries[i].embeddings = y.entries[i].windows
      BY DEF EmbeddingsFit
    <2>1. TypeOK /\ meta \in [Clip -> Metas]
      BY DEF ShardInv, TypeOK
    <2>2. PICK t \in Plan : x = TarOf(t, "t5_xxl")
      BY <2>1, TarOfTask, TarTells
    <2>3. PICK u \in Plan : y = TarOf(u, "metas")
      BY <2>1, TarOfTask, TarTells
    <2>4. t = u
      <3>1. Place(x) = Place(t) /\ Place(y) = Place(u)
        BY <2>1, <2>2, <2>3, TarTells DEF Kinds
      <3> QED BY <2>1, <3>1, SamePlace
    <2> DEFINE c == t.clips[i]
    <2>5. /\ i \in DOMAIN t.clips /\ x.entries[i] = Entry("t5_xxl", c)
          /\ y.entries[i] = Entry("metas", c)
      BY <2>1, <2>2, <2>3, <2>4, TarTells DEF Kinds
    <2>6. c \in Clip
      BY <2>1, <2>5, PlannedTask
    <2> HIDE DEF c
    <2>7. StaysValid(c)
      BY <2>5 DEF Entry
    <2>8. Cardinality(Captioned(c)) = Len(meta[c].captioned)
      <3> DEFINE n == Len(meta[c].captioned)
      <3>1. n \in Nat /\ DOMAIN meta[c].captioned = 1..n
        BY <2>1, <2>6, MetaOfClip
      <3>2. Captioned(c) = 1..n
        BY <2>7, <3>1 DEF StaysValid
      <3>3. Cardinality(1..n) = n
        BY <3>1, FS_Interval
      <3> QED BY <3>2, <3>3
    <2> QED BY <2>5, <2>8 DEF Entry
  <1> QED BY <1>1, ShardHolds, PTL

\* The keys counted of a bin are the clips in its tasks.
LEMMA KeysAreClips ==
  ASSUME meta \in [Clip -> Metas], packed \subseteq Plan, NEW b
  PROVE  KeyCount(b) = Cardinality(UNION {{t.clips[i] : i \in DOMAIN t.clips}
                                            : t \in {x \in packed : x.bin = b}})
  <1> DEFINE tasks == {x \in packed : x.bin = b}
             pairs == UNION {{t} \X DOMAIN t.clips : t \in tasks}
             clips == UNION {{t.clips[i] : i \in DOMAIN t.clips} : t \in tasks}
             of == [s \in pairs |-> s[1].clips[s[2]]]
  <1>1. \A s \in pairs : s = <<s[1], s[2]>> /\ s[1] \in tasks /\ s[2] \in DOMAIN s[1].clips
    OBVIOUS
  <1>2. \A t \in tasks : \A i \in DOMAIN t.clips : <<t, i>> \in pairs
    OBVIOUS
  <1>3. \A t \in tasks : t \in Plan /\ t.clips \in Seq(Clip)
    BY PlannedTask
  <1>4. clips \subseteq Clip
    BY <1>3
  <1>5. IsFiniteSet(clips)
    <2>1. IsFiniteSet(Clip)
      BY ShardAssumption, FS_Interval DEF Clip
    <2> HIDE DEF clips
    <2> QED BY <1>4, <2>1, FS_Subset
  <1>6. \A c : c \in clips <=> \E t \in tasks : \E i \in DOMAIN t.clips : c = t.clips[i]
    OBVIOUS
  <1> HIDE DEF pairs, clips, tasks
  <1>7. of \in Bijection(pairs, clips)
    <2>1. of \in [pairs -> clips]
      BY <1>1, <1>6
    <2>2. ASSUME NEW r \in pairs, NEW s \in pairs, of[r] = of[s] PROVE r = s
      <3>1. r[1].clips[r[2]] = s[1].clips[s[2]]
        BY <2>2
      <3>2. r[1] = s[1] /\ r[2] = s[2]
        BY <1>1, <1>3, <3>1, SharedClip
      <3> QED BY <1>1, <3>2
    <2>3. ASSUME NEW c \in clips PROVE \E s \in pairs : of[s] = c
      <3>0. PICK t \in tasks : \E i \in DOMAIN t.clips : c = t.clips[i]
        BY <1>6
      <3>1. PICK i \in DOMAIN t.clips : c = t.clips[i]
        BY <3>0
      <3>2. <<t, i>> \in pairs /\ of[<<t, i>>] = c
        BY <1>2, <3>1
      <3> QED BY <3>2
    <2> HIDE DEF of
    <2> QED BY <2>1, <2>2, <2>3 DEF Bijection, Injection, Surjection, IsInjective
  <1>8. Cardinality(pairs) = Cardinality(clips)
    <2>1. ExistsBijection(pairs, clips)
      BY <1>7 DEF ExistsBijection
    <2>2. ExistsBijection(clips, pairs)
      BY <2>1, Fun_ExistsBijSymmetric
    <2> QED BY <1>5, <2>2, FS_Bijection
  <1> QED BY <1>8 DEF KeyCount, pairs, clips, tasks

\* The tars of a bin and a kind, when all of the plan is there.
LEMMA TarsOfKind ==
  ASSUME TypeOK, \A t \in Plan : IsPacked(t), NEW b, NEW k \in Kinds
  PROVE  {x \in tars : x.bin = b /\ x.kind = k} = {TarOf(t, k) : t \in {u \in Plan : u.bin = b}}
  <1>1. meta \in [Clip -> Metas]
    BY DEF TypeOK
  <1>2. ASSUME NEW x \in tars, x.bin = b, x.kind = k
        PROVE  \E t \in Plan : t.bin = b /\ x = TarOf(t, k)
    <2>1. PICK t \in Plan, l \in Kinds : x = TarOf(t, l)
      BY TarOfTask
    <2>2. l = k /\ t.bin = b
      BY <1>1, <1>2, <2>1, TarTells
    <2> QED BY <2>1, <2>2
  <1>3. ASSUME NEW t \in Plan, t.bin = b
        PROVE  TarOf(t, k) \in tars /\ TarOf(t, k).bin = b /\ TarOf(t, k).kind = k
    BY <1>1, <1>3, TarTells DEF IsPacked
  <1> QED BY <1>2, <1>3

\* The list vouches for the dataset: every tar that a wdinfo.json names is there
\* in all three kinds with the same clips in the same order, no bin is missing,
\* and the key count is the number of clips in the bin's tars
\* (write_shard_summary), whatever failed or died before.
THEOREM ListedIsCompleteHolds ==
  Spec => []ListedIsComplete
  <1>1. ShardInv => ListedIsComplete
    <2> SUFFICES ASSUME ShardInv, listed PROVE ListedIsComplete
      BY DEF ListedIsComplete
    <2>1. TypeOK /\ meta \in [Clip -> Metas] /\ Over
      BY DEF ShardInv, TypeOK, Over
    <2>2. packed = Plan /\ NotTold = {}
      BY <2>1 DEF ShardInv, RunInv, SummaryInv
    <2>3. \A t \in Plan : IsPacked(t)
      BY <2>1, <2>2 DEF ShardInv, PackedInv
    <2>4. \A d \in wdinfo : \E b \in AllBins : HasCount(b) /\ d = Data(b)
      BY <2>1 DEF ShardInv, SummaryInv
    <2>5. {d.bin : d \in wdinfo} = {x.bin : x \in tars}
      <3>1. ASSUME NEW d \in wdinfo PROVE \E x \in tars : d.bin = x.bin
        <4>1. PICK b \in AllBins : HasCount(b) /\ d = Data(b)
          BY <2>4
        <4>2. PICK t \in Plan : t.bin = b
          BY <2>2, <4>1 DEF HasCount
        <4>3. TarOf(t, "video") \in tars /\ TarOf(t, "video").bin = b
          BY <2>1, <2>3, <4>2, TarTells DEF IsPacked, Kinds
        <4>4. d.bin = b
          BY <4>1 DEF Data
        <4> QED BY <4>3, <4>4
      <3>2. ASSUME NEW x \in tars PROVE \E d \in wdinfo : d.bin = x.bin
        <4>1. PICK t \in Plan, k \in Kinds : x = TarOf(t, k)
          BY <2>1, TarOfTask
        <4>2. x.bin \in AllBins
          BY <2>1, <4>1, TarTells, PlannedTask
        <4> QED BY <2>2, <4>2 DEF NotTold
      <3> QED BY <3>1, <3>2
    <2>6. ASSUME NEW d \in wdinfo
          PROVE  LET here(k) == {x \in tars : x.bin = d.bin /\ x.kind = k}
                     keys(x) == [i \in DOMAIN x.entries |-> x.entries[i].clip]
                 IN /\ \A k \in Kinds : {<<x.part, x.tar, keys(x)>> : x \in here(k)}
                                        = {<<x.part, x.tar, keys(x)>> : x \in here("video")}
                    /\ d.files = {<<x.part, x.tar>> : x \in here("video")}
                    /\ d.keys = Cardinality(UNION {ClipsIn(x) : x \in here("video")})
      <3> DEFINE here(k) == {x \in tars : x.bin = d.bin /\ x.kind = k}
                 keys(x) == [i \in DOMAIN x.entries |-> x.entries[i].clip]
                 tasks == {t \in Plan : t.bin = d.bin}
      <3>1. PICK b \in AllBins : HasCount(b) /\ d = Data(b)
        BY <2>4
      <3>2. d.bin = b /\ d.keys = KeyCount(b)
            /\ d.files = {<<x.part, x.tar>> : x \in {y \in tars : y.bin = b /\ y.kind = "video"}}
        BY <3>1 DEF Data
      <3>3. \A k \in Kinds : here(k) = {TarOf(t, k) : t \in tasks}
        BY <2>1, <2>3, TarsOfKind
      <3>4. \A t \in tasks, k \in Kinds :
              <<TarOf(t, k).part, TarOf(t, k).tar, keys(TarOf(t, k))>> = <<t.part, t.tar, t.clips>>
        <4> SUFFICES ASSUME NEW t \in tasks, NEW k \in Kinds
                     PROVE  <<TarOf(t, k).part, TarOf(t, k).tar, keys(TarOf(t, k))>>
                              = <<t.part, t.tar, t.clips>>
          OBVIOUS
        <4>1. t.clips \in Seq(Clip)
          BY <2>1, PlannedTask
        <4>2. keys(TarOf(t, k)) = [i \in DOMAIN t.clips |-> t.clips[i]]
          BY <2>1, TarTells
        <4>3. [i \in DOMAIN t.clips |-> t.clips[i]] = t.clips
          BY <4>1
        <4> QED BY <2>1, <4>2, <4>3, TarTells
      <3> HIDE DEF here, keys, tasks
      <3>5. \A k \in Kinds : {<<x.part, x.tar, keys(x)>> : x \in here(k)}
                              = {<<t.part, t.tar, t.clips>> : t \in tasks}
        BY <3>3, <3>4
      <3>6. \A k \in Kinds : {<<x.part, x.tar, keys(x)>> : x \in here(k)}
                              = {<<x.part, x.tar, keys(x)>> : x \in here("video")}
        BY <3>5 DEF Kinds
      <3>7. d.files = {<<x.part, x.tar>> : x \in here("video")}
        BY <3>2 DEF here
      <3>8. d.keys = Cardinality(UNION {ClipsIn(x) : x \in here("video")})
        <4>1. \A t \in tasks : ClipsIn(TarOf(t, "video")) = {t.clips[i] : i \in DOMAIN t.clips}
          BY <2>1, TarTells DEF tasks, Kinds
        <4>2. {ClipsIn(x) : x \in here("video")} = {{t.clips[i] : i \in DOMAIN t.clips} : t \in tasks}
          <5>1. {ClipsIn(x) : x \in here("video")} = {ClipsIn(TarOf(t, "video")) : t \in tasks}
            BY <3>3 DEF Kinds
          <5> DEFINE clipsOf(t) == {t.clips[i] : i \in DOMAIN t.clips}
          <5>2. \A t \in tasks : ClipsIn(TarOf(t, "video")) = clipsOf(t)
            BY <4>1
          <5> HIDE DEF clipsOf
          <5>3. {ClipsIn(TarOf(t, "video")) : t \in tasks} = {clipsOf(t) : t \in tasks}
            BY <5>2
          <5> QED BY <5>1, <5>3 DEF clipsOf
        <4>3. KeyCount(b) = Cardinality(UNION {{t.clips[i] : i \in DOMAIN t.clips} : t \in tasks})
          BY <2>1, <2>2, <3>2, KeysAreClips DEF tasks
        <4> QED BY <3>2, <4>2, <4>3
      <3> QED BY <3>6, <3>7, <3>8 DEF here, keys
    <2> QED BY <2>5, <2>6 DEF ListedIsComplete
  <1> QED BY <1>1, ShardHolds, PTL
=============================================================================
