-------------------------- MODULE StageChain_proofs --------------------------
(***************************************************************************)
(* Proofs about StageChain for every number of clips and windows and every *)
(* set of configurations, not only those of the run.                       *)
(***************************************************************************)
EXTENDS StageChainProps, FiniteSetTheorems, TLAPS

-----------------------------------------------------------------------------
(* The stages of a configuration and their order.                          *)

\* A stretch of the chain, its stages in order, all between the ranks a and b.
Stretch(q, a, b) ==
  /\ q \in Seq(Stage)
  /\ \A i \in DOMAIN q : a <= Rank[q[i]] /\ Rank[q[i]] <= b
  /\ \A i, j \in DOMAIN q : i < j => Rank[q[i]] < Rank[q[j]]

\* Ranks are numbers.
LEMMA RankType == \A s \in Stage : Rank[s] \in Nat
  BY DEF Stage, Rank

\* The stages by name.
LEMMA StageNames ==
  Stage = {"transcode", "motion_decode", "motion_filter", "frame_extraction", "aesthetic",
           "qwen_prep", "classifier", "semantic", "embed_frames", "embed", "gemma4",
           "caption_prep", "preview", "caption", "enhance", "judge_text", "judge_mp4",
           "t5", "output"}
  BY DEF Stage, Rank

\* A stretch of later stages continues a stretch of earlier ones.
LEMMA StretchAppend ==
  ASSUME NEW q, NEW r, NEW a \in Nat, NEW b \in Nat, NEW c \in Nat, NEW d \in Nat,
         a <= b, b < c, c <= d, Stretch(q, a, b), Stretch(r, c, d)
  PROVE  Stretch(q \o r, a, d) /\ Elems(q \o r) = Elems(q) \cup Elems(r)
  <1>1. /\ q \in Seq(Stage) /\ r \in Seq(Stage) /\ q \o r \in Seq(Stage)
        /\ DOMAIN q = 1..Len(q) /\ DOMAIN r = 1..Len(r)
        /\ DOMAIN (q \o r) = 1..(Len(q) + Len(r))
        /\ Len(q) \in Nat /\ Len(r) \in Nat
    BY DEF Stretch
  <1>2. \A i \in 1..Len(q) : (q \o r)[i] = q[i]
    BY <1>1
  <1>3. \A i \in 1..Len(r) : (q \o r)[Len(q) + i] = r[i]
    BY <1>1
  <1>4. \A i \in 1..(Len(q) + Len(r)) :
            i \in 1..Len(q) \/ (i - Len(q) \in 1..Len(r) /\ (q \o r)[i] = r[i - Len(q)])
    BY <1>1
  <1>5. Elems(q \o r) = Elems(q) \cup Elems(r)
    <2>1. Elems(q) \cup Elems(r) \subseteq Elems(q \o r)
      <3>1. \A i \in DOMAIN q : q[i] \in Elems(q \o r)
        BY <1>1, <1>2 DEF Elems
      <3>2. ASSUME NEW i \in DOMAIN r PROVE r[i] \in Elems(q \o r)
        <4>1. Len(q) + i \in DOMAIN (q \o r)
          BY <1>1
        <4> QED BY <1>1, <1>3, <4>1 DEF Elems
      <3> QED BY <3>1, <3>2 DEF Elems
    <2>2. Elems(q \o r) \subseteq Elems(q) \cup Elems(r)
      BY <1>1, <1>2, <1>4 DEF Elems
    <2> QED BY <2>1, <2>2
  <1>6. \A i \in DOMAIN q : Rank[q[i]] \in Nat
    <2>1. \A i \in DOMAIN q : q[i] \in Stage
      BY <1>1
    <2> QED BY <2>1, RankType
  <1>7. \A i \in DOMAIN r : Rank[r[i]] \in Nat
    <2>1. \A i \in DOMAIN r : r[i] \in Stage
      BY <1>1
    <2> QED BY <2>1, RankType
  <1>8. \A i \in DOMAIN (q \o r) : a <= Rank[(q \o r)[i]] /\ Rank[(q \o r)[i]] <= d
    BY <1>1, <1>2, <1>4, <1>6, <1>7 DEF Stretch
  <1>9. ASSUME NEW i \in DOMAIN (q \o r), NEW j \in DOMAIN (q \o r), i < j
        PROVE  Rank[(q \o r)[i]] < Rank[(q \o r)[j]]
    <2>1. CASE j \in 1..Len(q)
      BY <1>1, <1>2, <1>9, <2>1 DEF Stretch
    <2>2. CASE i \in 1..Len(q) /\ j \notin 1..Len(q)
      BY <1>1, <1>2, <1>4, <1>6, <1>7, <2>2 DEF Stretch
    <2>3. CASE i \notin 1..Len(q) /\ j \notin 1..Len(q)
      <3>1. /\ i - Len(q) \in DOMAIN r /\ j - Len(q) \in DOMAIN r /\ i - Len(q) < j - Len(q)
            /\ (q \o r)[i] = r[i - Len(q)] /\ (q \o r)[j] = r[j - Len(q)]
        BY <1>1, <1>4, <1>9, <2>3
      <3>2. \A x, y \in DOMAIN r : x < y => Rank[r[x]] < Rank[r[y]]
        BY DEF Stretch
      <3> QED BY <3>1, <3>2
    <2> QED BY <1>1, <1>9, <2>1, <2>2, <2>3
  <1> QED BY <1>1, <1>5, <1>8, <1>9 DEF Stretch

\* An empty stretch, and stretches of one, two or three stages.
LEMMA ShortStretches ==
  ASSUME NEW a \in Nat, NEW b \in Nat
  PROVE  /\ Stretch(<<>>, a, b) /\ Elems(<<>>) = {}
         /\ \A s \in Stage : a <= Rank[s] /\ Rank[s] <= b => Stretch(<<s>>, a, b)
         /\ \A s : Elems(<<s>>) = {s}
         /\ \A s, t \in Stage : a <= Rank[s] /\ Rank[s] < Rank[t] /\ Rank[t] <= b
                                => Stretch(<<s, t>>, a, b)
         /\ \A s, t : Elems(<<s, t>>) = {s, t}
  <1>1. Stretch(<<>>, a, b) /\ Elems(<<>>) = {}
    BY DEF Stretch, Elems
  <1>2. \A s \in Stage : a <= Rank[s] /\ Rank[s] <= b => Stretch(<<s>>, a, b)
    BY DEF Stretch
  <1>3. \A s : Elems(<<s>>) = {s}
    BY DEF Elems
  <1>4. ASSUME NEW s \in Stage, NEW t \in Stage, a <= Rank[s], Rank[s] < Rank[t], Rank[t] <= b
        PROVE  Stretch(<<s, t>>, a, b)
    BY <1>4, RankType DEF Stretch
  <1>5. \A s, t : Elems(<<s, t>>) = {s, t}
    BY DEF Elems
  <1> QED BY <1>1, <1>2, <1>3, <1>4, <1>5

\* A stretch that may be left out.
LEMMA WhenStretch ==
  ASSUME NEW x, NEW q, NEW a \in Nat, NEW b \in Nat, Stretch(q, a, b)
  PROVE  Stretch(When(x, q), a, b) /\ Elems(When(x, q)) = IF x THEN Elems(q) ELSE {}
  <1>1. CASE x
    BY <1>1 DEF When
  <1>2. CASE ~x
    BY <1>2, ShortStretches DEF When
  <1> QED BY <1>1, <1>2

\* The stages a configuration has, by name.
Present(c) ==
  {"transcode", "output"}
    \cup (IF c.motion # "disable" THEN {"motion_decode", "motion_filter"} ELSE {})
    \cup (IF FramesUsed(c) THEN {"frame_extraction"} ELSE {})
    \cup (IF c.aesthetic # "disable" THEN {"aesthetic"} ELSE {})
    \cup (IF QwenUsed(c) THEN {"qwen_prep"} ELSE {})
    \cup (IF c.classifier THEN {"classifier"} ELSE {})
    \cup (IF c.semantic # "disable" THEN {"semantic"} ELSE {})
    \cup (IF c.embedding \notin {"none", "openai"} THEN {"embed_frames"} ELSE {})
    \cup (IF c.embedding # "none" THEN {"embed"} ELSE {})
    \cup (IF c.caption = "gemma4" THEN {"gemma4"} ELSE {})
    \cup (IF c.caption \notin {"none", "gemma4"} THEN {"caption_prep", "caption"} ELSE {})
    \cup (IF c.caption \notin {"none", "gemma4"} /\ c.previews THEN {"preview"} ELSE {})
    \cup (IF c.caption # "none" /\ c.enhance THEN {"enhance"} ELSE {})
    \cup {JudgeStage(c.judges[i]) : i \in DOMAIN c.judges}
    \cup (IF c.predict THEN {"t5"} ELSE {})

\* The Qwen stages.
LEMMA QwenStretch ==
  ASSUME NEW c
  PROVE  /\ Stretch(QwenStages(c), 6, 8)
         /\ Elems(QwenStages(c)) = (IF QwenUsed(c) THEN {"qwen_prep"} ELSE {})
                                     \cup (IF c.classifier THEN {"classifier"} ELSE {})
                                     \cup (IF c.semantic # "disable" THEN {"semantic"} ELSE {})
  <1> DEFINE q1 == When(QwenUsed(c), <<"qwen_prep">>)
             q2 == When(c.classifier, <<"classifier">>)
             q3 == When(c.semantic # "disable", <<"semantic">>)
  <1>1. /\ Stretch(<<"qwen_prep">>, 6, 6) /\ Stretch(<<"classifier">>, 7, 7)
        /\ Stretch(<<"semantic">>, 8, 8)
    BY ShortStretches, StageNames DEF Rank
  <1>2. Stretch(q1, 6, 6) /\ Elems(q1) = IF QwenUsed(c) THEN {"qwen_prep"} ELSE {}
    BY <1>1, WhenStretch, ShortStretches
  <1>3. Stretch(q2, 7, 7) /\ Elems(q2) = IF c.classifier THEN {"classifier"} ELSE {}
    BY <1>1, WhenStretch, ShortStretches
  <1>4. Stretch(q3, 8, 8) /\ Elems(q3) = IF c.semantic # "disable" THEN {"semantic"} ELSE {}
    BY <1>1, WhenStretch, ShortStretches
  <1>5. QwenStages(c) = q1 \o q2 \o q3
    BY DEF QwenStages
  <1> HIDE DEF q1, q2, q3
  <1>6. Stretch(q1 \o q2, 6, 7) /\ Elems(q1 \o q2) = Elems(q1) \cup Elems(q2)
    BY <1>2, <1>3, StretchAppend
  <1>7. /\ Stretch((q1 \o q2) \o q3, 6, 8)
        /\ Elems((q1 \o q2) \o q3) = Elems(q1 \o q2) \cup Elems(q3)
    BY <1>4, <1>6, StretchAppend
  <1> QED BY <1>2, <1>3, <1>4, <1>5, <1>6, <1>7

\* The embedding stages.
LEMMA EmbeddingStretch ==
  ASSUME NEW c
  PROVE  /\ Stretch(EmbeddingStages(c), 9, 10)
         /\ Elems(EmbeddingStages(c))
              = (IF c.embedding \notin {"none", "openai"} THEN {"embed_frames"} ELSE {})
                  \cup (IF c.embedding # "none" THEN {"embed"} ELSE {})
  <1> DEFINE q1 == When(c.embedding \notin {"none", "openai"}, <<"embed_frames">>)
             q2 == When(c.embedding # "none", <<"embed">>)
  <1>1. Stretch(<<"embed_frames">>, 9, 9) /\ Stretch(<<"embed">>, 10, 10)
    BY ShortStretches, StageNames DEF Rank
  <1>2. /\ Stretch(q1, 9, 9)
        /\ Elems(q1) = IF c.embedding \notin {"none", "openai"} THEN {"embed_frames"} ELSE {}
    BY <1>1, WhenStretch, ShortStretches
  <1>3. Stretch(q2, 10, 10) /\ Elems(q2) = IF c.embedding # "none" THEN {"embed"} ELSE {}
    BY <1>1, WhenStretch, ShortStretches
  <1>4. EmbeddingStages(c) = q1 \o q2
    BY DEF EmbeddingStages
  <1> HIDE DEF q1, q2
  <1> QED BY <1>2, <1>3, <1>4, StretchAppend

\* The captioning stages.
LEMMA CaptioningStretch ==
  ASSUME NEW c
  PROVE  /\ Stretch(CaptioningStages(c), 11, 15)
         /\ Elems(CaptioningStages(c))
              = (IF c.caption = "gemma4" THEN {"gemma4"} ELSE {})
                  \cup (IF c.caption \notin {"none", "gemma4"}
                        THEN {"caption_prep", "caption"} ELSE {})
                  \cup (IF c.caption \notin {"none", "gemma4"} /\ c.previews
                        THEN {"preview"} ELSE {})
                  \cup (IF c.caption # "none" /\ c.enhance THEN {"enhance"} ELSE {})
  <1> DEFINE p == When(c.previews, <<"preview">>)
             v == <<"caption_prep">> \o p \o <<"caption">>
             q == CASE c.caption = "none"   -> <<>>
                    [] c.caption = "gemma4" -> <<"gemma4">>
                    [] OTHER -> v
             r == When(c.caption # "none" /\ c.enhance, <<"enhance">>)
  <1>1. /\ Stretch(<<"caption_prep">>, 11, 12) /\ Stretch(<<"preview">>, 13, 13)
        /\ Stretch(<<"caption">>, 14, 14) /\ Stretch(<<"gemma4">>, 11, 14)
        /\ Stretch(<<"enhance">>, 15, 15) /\ Stretch(<<>>, 11, 14)
    BY ShortStretches, StageNames DEF Rank
  <1>2. Stretch(p, 13, 13) /\ Elems(p) = IF c.previews THEN {"preview"} ELSE {}
    BY <1>1, WhenStretch, ShortStretches
  <1>3. /\ Stretch(r, 15, 15)
        /\ Elems(r) = IF c.caption # "none" /\ c.enhance THEN {"enhance"} ELSE {}
    BY <1>1, WhenStretch, ShortStretches
  <1>4. /\ Stretch(v, 11, 14)
        /\ Elems(v) = {"caption_prep", "caption"} \cup IF c.previews THEN {"preview"} ELSE {}
    <2> HIDE DEF p
    <2>1. /\ Stretch(<<"caption_prep">> \o p, 11, 13)
          /\ Elems(<<"caption_prep">> \o p) = Elems(<<"caption_prep">>) \cup Elems(p)
      BY <1>1, <1>2, StretchAppend
    <2>2. /\ Stretch((<<"caption_prep">> \o p) \o <<"caption">>, 11, 14)
          /\ Elems((<<"caption_prep">> \o p) \o <<"caption">>)
               = Elems(<<"caption_prep">> \o p) \cup Elems(<<"caption">>)
      BY <1>1, <2>1, StretchAppend
    <2> QED BY <1>2, <2>1, <2>2, ShortStretches
  <1>5. CaptioningStages(c) = q \o r
    BY DEF CaptioningStages
  <1> HIDE DEF p, v, r
  <1>6. /\ Stretch(q, 11, 14)
        /\ Elems(q) = (IF c.caption = "gemma4" THEN {"gemma4"} ELSE {})
                        \cup (IF c.caption \notin {"none", "gemma4"} THEN Elems(v) ELSE {})
    <2>1. CASE c.caption = "none"
      BY <1>1, <2>1, ShortStretches
    <2>2. CASE c.caption = "gemma4"
      BY <1>1, <2>2, ShortStretches
    <2>3. CASE c.caption \notin {"none", "gemma4"}
      BY <1>4, <2>3
    <2> QED BY <2>1, <2>2, <2>3
  <1> HIDE DEF q
  <1>7. Stretch(q \o r, 11, 15) /\ Elems(q \o r) = Elems(q) \cup Elems(r)
    BY <1>3, <1>6, StretchAppend
  <1> QED BY <1>3, <1>4, <1>5, <1>6, <1>7

\* The judges.
LEMMA JudgeStretch ==
  ASSUME NEW c \in Config
  PROVE  LET q == [i \in DOMAIN c.judges |-> JudgeStage(c.judges[i])]
         IN  Stretch(q, 16, 17) /\ Elems(q) = {JudgeStage(c.judges[i]) : i \in DOMAIN c.judges}
  <1> DEFINE q == [i \in DOMAIN c.judges |-> JudgeStage(c.judges[i])]
  <1>1. c.judges \in {<<>>, <<"text">>, <<"mp4_bytes">>, <<"text", "mp4_bytes">>}
    BY DEF Config
  <1>2. q \in {<<>>, <<"judge_text">>, <<"judge_mp4">>, <<"judge_text", "judge_mp4">>}
    <2>1. CASE c.judges = <<>>
      BY <2>1
    <2>2. CASE c.judges = <<"text">>
      BY <2>2 DEF JudgeStage
    <2>3. CASE c.judges = <<"mp4_bytes">>
      BY <2>3 DEF JudgeStage
    <2>4. CASE c.judges = <<"text", "mp4_bytes">>
      BY <2>4 DEF JudgeStage
    <2> QED BY <1>1, <2>1, <2>2, <2>3, <2>4
  <1>3. Elems(q) = {JudgeStage(c.judges[i]) : i \in DOMAIN c.judges}
    BY DEF Elems
  <1> HIDE DEF q
  <1>4. \A x \in {<<>>, <<"judge_text">>, <<"judge_mp4">>, <<"judge_text", "judge_mp4">>} :
            Stretch(x, 16, 17)
    <2>1. /\ Rank["judge_text"] = 16 /\ Rank["judge_mp4"] = 17
          /\ "judge_text" \in Stage /\ "judge_mp4" \in Stage
      BY StageNames DEF Rank
    <2>2. Stretch(<<>>, 16, 17) /\ Stretch(<<"judge_text">>, 16, 17) /\ Stretch(<<"judge_mp4">>, 16, 17)
      BY <2>1, ShortStretches
    <2>3. Stretch(<<"judge_text", "judge_mp4">>, 16, 17)
      BY <2>1, ShortStretches
    <2> QED BY <2>2, <2>3
  <1> QED BY <1>2, <1>3, <1>4 DEF q

\* The whole chain of a configuration is in order, and has the stages the
\* configuration asks for.
LEMMA StagesInOrder ==
  ASSUME NEW c \in Config
  PROVE  Stretch(Stages(c), 1, 19) /\ Elems(Stages(c)) = Present(c)
  <1> DEFINE p1 == <<"transcode">>
             p2 == When(c.motion # "disable", <<"motion_decode", "motion_filter">>)
             p3 == When(FramesUsed(c), <<"frame_extraction">>)
             p4 == When(c.aesthetic # "disable", <<"aesthetic">>)
             p5 == QwenStages(c)
             p6 == EmbeddingStages(c)
             p7 == CaptioningStages(c)
             p8 == [i \in DOMAIN c.judges |-> JudgeStage(c.judges[i])]
             p9 == When(c.predict, <<"t5">>)
             p10 == <<"output">>
  <1>1. Stages(c) = p1 \o p2 \o p3 \o p4 \o p5 \o p6 \o p7 \o p8 \o p9 \o p10
    BY DEF Stages
  <1>2. Stretch(p1, 1, 1) /\ Elems(p1) = {"transcode"}
    BY ShortStretches, StageNames DEF Rank
  <1>3. /\ Stretch(p2, 2, 3)
        /\ Elems(p2) = IF c.motion # "disable" THEN {"motion_decode", "motion_filter"} ELSE {}
    <2>1. Stretch(<<"motion_decode", "motion_filter">>, 2, 3)
      BY ShortStretches, StageNames DEF Rank
    <2> QED BY <2>1, WhenStretch, ShortStretches
  <1>4. Stretch(p3, 4, 4) /\ Elems(p3) = IF FramesUsed(c) THEN {"frame_extraction"} ELSE {}
    <2>1. Stretch(<<"frame_extraction">>, 4, 4)
      BY ShortStretches, StageNames DEF Rank
    <2> QED BY <2>1, WhenStretch, ShortStretches
  <1>5. Stretch(p4, 5, 5) /\ Elems(p4) = IF c.aesthetic # "disable" THEN {"aesthetic"} ELSE {}
    <2>1. Stretch(<<"aesthetic">>, 5, 5)
      BY ShortStretches, StageNames DEF Rank
    <2> QED BY <2>1, WhenStretch, ShortStretches
  <1>6. Stretch(p5, 6, 8)
    BY QwenStretch
  <1>7. Stretch(p6, 9, 10)
    BY EmbeddingStretch
  <1>8. Stretch(p7, 11, 15)
    BY CaptioningStretch
  <1>9. Stretch(p8, 16, 17) /\ Elems(p8) = {JudgeStage(c.judges[i]) : i \in DOMAIN c.judges}
    BY JudgeStretch
  <1>10. Stretch(p9, 18, 18) /\ Elems(p9) = IF c.predict THEN {"t5"} ELSE {}
    <2>1. Stretch(<<"t5">>, 18, 18)
      BY ShortStretches, StageNames DEF Rank
    <2> QED BY <2>1, WhenStretch, ShortStretches
  <1>11. Stretch(p10, 19, 19) /\ Elems(p10) = {"output"}
    BY ShortStretches, StageNames DEF Rank
  <1> HIDE DEF p1, p2, p3, p4, p5, p6, p7, p8, p9, p10
  <1>12. Stretch(p1 \o p2, 1, 3) /\ Elems(p1 \o p2) = Elems(p1) \cup Elems(p2)
    BY <1>2, <1>3, StretchAppend
  <1> DEFINE q2 == p1 \o p2
  <1> HIDE DEF q2
  <1>13. Stretch(q2 \o p3, 1, 4) /\ Elems(q2 \o p3) = Elems(q2) \cup Elems(p3)
    BY <1>4, <1>12, StretchAppend DEF q2
  <1> DEFINE q3 == q2 \o p3
  <1> HIDE DEF q3
  <1>14. Stretch(q3 \o p4, 1, 5) /\ Elems(q3 \o p4) = Elems(q3) \cup Elems(p4)
    BY <1>5, <1>13, StretchAppend DEF q3
  <1> DEFINE q4 == q3 \o p4
  <1> HIDE DEF q4
  <1>15. Stretch(q4 \o p5, 1, 8) /\ Elems(q4 \o p5) = Elems(q4) \cup Elems(p5)
    BY <1>6, <1>14, StretchAppend DEF q4
  <1> DEFINE q5 == q4 \o p5
  <1> HIDE DEF q5
  <1>16. Stretch(q5 \o p6, 1, 10) /\ Elems(q5 \o p6) = Elems(q5) \cup Elems(p6)
    BY <1>7, <1>15, StretchAppend DEF q5
  <1> DEFINE q6 == q5 \o p6
  <1> HIDE DEF q6
  <1>17. Stretch(q6 \o p7, 1, 15) /\ Elems(q6 \o p7) = Elems(q6) \cup Elems(p7)
    BY <1>8, <1>16, StretchAppend DEF q6
  <1> DEFINE q7 == q6 \o p7
  <1> HIDE DEF q7
  <1>18. Stretch(q7 \o p8, 1, 17) /\ Elems(q7 \o p8) = Elems(q7) \cup Elems(p8)
    BY <1>9, <1>17, StretchAppend DEF q7
  <1> DEFINE q8 == q7 \o p8
  <1> HIDE DEF q8
  <1>19. Stretch(q8 \o p9, 1, 18) /\ Elems(q8 \o p9) = Elems(q8) \cup Elems(p9)
    BY <1>10, <1>18, StretchAppend DEF q8
  <1> DEFINE q9 == q8 \o p9
  <1> HIDE DEF q9
  <1>20. Stretch(q9 \o p10, 1, 19) /\ Elems(q9 \o p10) = Elems(q9) \cup Elems(p10)
    BY <1>11, <1>19, StretchAppend DEF q9
  <1>21. Stages(c) = q9 \o p10
    BY <1>1 DEF q9, q8, q7, q6, q5, q4, q3, q2
  <1>22. Elems(q4) = Elems(p1) \cup Elems(p2) \cup Elems(p3) \cup Elems(p4)
    BY <1>12, <1>13, <1>14 DEF q2, q3, q4
  <1>23. Elems(q7) = Elems(q4) \cup Elems(p5) \cup Elems(p6) \cup Elems(p7)
    BY <1>15, <1>16, <1>17 DEF q5, q6, q7
  <1>24. Elems(q9 \o p10) = Elems(q7) \cup Elems(p8) \cup Elems(p9) \cup Elems(p10)
    BY <1>18, <1>19, <1>20 DEF q8, q9
  <1>25. Elems(Stages(c)) = Present(c)
    <2>1. Elems(q4) = {"transcode"} \cup (IF c.motion # "disable" THEN {"motion_decode", "motion_filter"} ELSE {})
                        \cup (IF FramesUsed(c) THEN {"frame_extraction"} ELSE {})
                        \cup (IF c.aesthetic # "disable" THEN {"aesthetic"} ELSE {})
      BY <1>2, <1>3, <1>4, <1>5, <1>22
    <2>2. Elems(p5) = (IF QwenUsed(c) THEN {"qwen_prep"} ELSE {})
                        \cup (IF c.classifier THEN {"classifier"} ELSE {})
                        \cup (IF c.semantic # "disable" THEN {"semantic"} ELSE {})
      BY QwenStretch DEF p5
    <2>3. Elems(p6) = (IF c.embedding \notin {"none", "openai"} THEN {"embed_frames"} ELSE {})
                        \cup (IF c.embedding # "none" THEN {"embed"} ELSE {})
      BY EmbeddingStretch DEF p6
    <2>4. Elems(p7) = (IF c.caption = "gemma4" THEN {"gemma4"} ELSE {})
                        \cup (IF c.caption \notin {"none", "gemma4"}
                              THEN {"caption_prep", "caption"} ELSE {})
                        \cup (IF c.caption \notin {"none", "gemma4"} /\ c.previews
                              THEN {"preview"} ELSE {})
                        \cup (IF c.caption # "none" /\ c.enhance THEN {"enhance"} ELSE {})
      BY CaptioningStretch DEF p7
    <2>5. Elems(Stages(c)) = Elems(q4) \cup Elems(p5) \cup Elems(p6) \cup Elems(p7) \cup Elems(p8)
                               \cup Elems(p9) \cup Elems(p10)
      BY <1>21, <1>23, <1>24
    <2>6. \A s : s \in Elems(Stages(c)) <=> s \in Present(c)
      BY <1>9, <1>10, <1>11, <2>1, <2>2, <2>3, <2>4, <2>5, ZenonT(60) DEF Present
    <2> QED BY <2>6
  <1> QED BY <1>20, <1>21, <1>25

\* Which stages a configuration has, one by one.
LEMMA PresentWhen ==
  ASSUME NEW c \in Config
  PROVE  /\ "transcode" \in Present(c) /\ "output" \in Present(c)
         /\ "motion_decode" \in Present(c) <=> c.motion # "disable"
         /\ "motion_filter" \in Present(c) <=> c.motion # "disable"
         /\ "frame_extraction" \in Present(c) <=> FramesUsed(c)
         /\ "aesthetic" \in Present(c) <=> c.aesthetic # "disable"
         /\ "qwen_prep" \in Present(c) <=> QwenUsed(c)
         /\ "classifier" \in Present(c) <=> c.classifier
         /\ "semantic" \in Present(c) <=> c.semantic # "disable"
         /\ "embed_frames" \in Present(c) <=> c.embedding \notin {"none", "openai"}
         /\ "embed" \in Present(c) <=> c.embedding # "none"
         /\ "gemma4" \in Present(c) <=> c.caption = "gemma4"
         /\ "caption_prep" \in Present(c) <=> c.caption \notin {"none", "gemma4"}
         /\ "caption" \in Present(c) <=> c.caption \notin {"none", "gemma4"}
         /\ "preview" \in Present(c) <=> c.caption \notin {"none", "gemma4"} /\ c.previews
         /\ \A k \in Kinds : JudgeStage(k) \in Present(c) => \E i \in DOMAIN c.judges : c.judges[i] = k
         /\ \A i \in DOMAIN c.judges : JudgeStage(c.judges[i]) \in Present(c)
  <1>1. \A i \in DOMAIN c.judges : JudgeStage(c.judges[i]) \in {"judge_text", "judge_mp4"}
    BY DEF JudgeStage
  <1> DEFINE J == {JudgeStage(c.judges[i]) : i \in DOMAIN c.judges}
  <1>2. J \subseteq {"judge_text", "judge_mp4"}
    BY <1>1
  <1>3. \A s : s \in Present(c) <=>
          \/ s \in {"transcode", "output"}
          \/ c.motion # "disable" /\ s \in {"motion_decode", "motion_filter"}
          \/ FramesUsed(c) /\ s = "frame_extraction"
          \/ c.aesthetic # "disable" /\ s = "aesthetic"
          \/ QwenUsed(c) /\ s = "qwen_prep"
          \/ c.classifier /\ s = "classifier"
          \/ c.semantic # "disable" /\ s = "semantic"
          \/ c.embedding \notin {"none", "openai"} /\ s = "embed_frames"
          \/ c.embedding # "none" /\ s = "embed"
          \/ c.caption = "gemma4" /\ s = "gemma4"
          \/ c.caption \notin {"none", "gemma4"} /\ s \in {"caption_prep", "caption"}
          \/ (c.caption \notin {"none", "gemma4"} /\ c.previews) /\ s = "preview"
          \/ (c.caption # "none" /\ c.enhance) /\ s = "enhance"
          \/ s \in J
          \/ c.predict /\ s = "t5"
    BY DEF Present
  <1>4. \A k \in Kinds : JudgeStage(k) \in Present(c) => \E i \in DOMAIN c.judges : c.judges[i] = k
    <2> SUFFICES ASSUME NEW k \in Kinds, JudgeStage(k) \in Present(c)
                 PROVE  \E i \in DOMAIN c.judges : c.judges[i] = k
      OBVIOUS
    <2>1. JudgeStage(k) \in {"judge_text", "judge_mp4"}
      BY DEF JudgeStage
    <2>2. JudgeStage(k) \in J
      BY <1>3, <2>1
    <2>3. PICK i \in DOMAIN c.judges : JudgeStage(k) = JudgeStage(c.judges[i])
      BY <2>2
    <2>4. c.judges[i] \in Kinds
      <3>1. \A q \in {<<>>, <<"text">>, <<"mp4_bytes">>, <<"text", "mp4_bytes">>} :
              \A n \in DOMAIN q : q[n] \in Kinds
        BY DEF Kinds
      <3> QED BY <3>1 DEF Config
    <2> QED BY <2>3, <2>4 DEF JudgeStage, Kinds
  <1>5. \A i \in DOMAIN c.judges : JudgeStage(c.judges[i]) \in Present(c)
    BY <1>3
  <1> HIDE DEF J
  <1>6. /\ "transcode" \in Present(c) /\ "output" \in Present(c)
        /\ "motion_decode" \in Present(c) <=> c.motion # "disable"
        /\ "motion_filter" \in Present(c) <=> c.motion # "disable"
        /\ "frame_extraction" \in Present(c) <=> FramesUsed(c)
        /\ "aesthetic" \in Present(c) <=> c.aesthetic # "disable"
        /\ "qwen_prep" \in Present(c) <=> QwenUsed(c)
        /\ "classifier" \in Present(c) <=> c.classifier
        /\ "semantic" \in Present(c) <=> c.semantic # "disable"
    BY <1>2, <1>3
  <1>7. /\ "embed_frames" \in Present(c) <=> c.embedding \notin {"none", "openai"}
        /\ "embed" \in Present(c) <=> c.embedding # "none"
        /\ "gemma4" \in Present(c) <=> c.caption = "gemma4"
        /\ "caption_prep" \in Present(c) <=> c.caption \notin {"none", "gemma4"}
        /\ "caption" \in Present(c) <=> c.caption \notin {"none", "gemma4"}
        /\ "preview" \in Present(c) <=> c.caption \notin {"none", "gemma4"} /\ c.previews
    BY <1>2, <1>3
  <1> QED BY <1>4, <1>5, <1>6, <1>7

\* The rank of each stage.
LEMMA Ranks ==
  /\ Rank["transcode"] = 1 /\ Rank["motion_decode"] = 2 /\ Rank["motion_filter"] = 3
  /\ Rank["frame_extraction"] = 4 /\ Rank["aesthetic"] = 5 /\ Rank["qwen_prep"] = 6
  /\ Rank["classifier"] = 7 /\ Rank["semantic"] = 8 /\ Rank["embed_frames"] = 9
  /\ Rank["embed"] = 10 /\ Rank["gemma4"] = 11 /\ Rank["caption_prep"] = 12
  /\ Rank["preview"] = 13 /\ Rank["caption"] = 14 /\ Rank["enhance"] = 15
  /\ Rank["judge_text"] = 16 /\ Rank["judge_mp4"] = 17 /\ Rank["t5"] = 18 /\ Rank["output"] = 19
  BY DEF Rank

-----------------------------------------------------------------------------
(* Going through the stages.                                               *)

\* A stage finds itself first among those left and leaves the later ones.
LEMMA AtStage ==
  ASSUME TypeOK, TodoOrdered, NEW s, NEW r, Take(s, r)
  PROVE  /\ s \in Present(cfg) /\ s \in Left
         /\ Left = {t \in Present(cfg) : Rank[s] <= Rank[t]}
         /\ Left' = {t \in Present(cfg) : Rank[s] < Rank[t]}
         /\ Left = {s} \cup Left' /\ s \notin Left'
         /\ TodoOrdered' /\ cfg' = cfg /\ raised = "no"
         /\ raised' = IF r THEN s ELSE "no"
  <1>1. /\ todo \in Seq(Stage) /\ todo # <<>> /\ s = todo[1] /\ todo' = Tail(todo)
        /\ cfg' = cfg /\ raised = "no" /\ raised' = IF r THEN s ELSE "no"
    BY DEF Take, TodoOrdered
  <1>2. InRun = Present(cfg) /\ InRun' = InRun
    <2>1. cfg \in Config
      BY ChainAssumption DEF TypeOK
    <2> QED BY <1>1, <2>1, StagesInOrder DEF InRun
  <1>3. /\ Len(todo) \in Nat /\ Len(todo) >= 1 /\ DOMAIN todo = 1..Len(todo)
        /\ Tail(todo) \in Seq(Stage) /\ Len(Tail(todo)) = Len(todo) - 1
        /\ DOMAIN Tail(todo) = 1..(Len(todo) - 1)
        /\ \A i \in 1..(Len(todo) - 1) : Tail(todo)[i] = todo[i + 1]
    BY <1>1
  <1>4. \A i \in DOMAIN todo : Rank[todo[i]] \in Nat
    <2>1. \A i \in DOMAIN todo : todo[i] \in Stage
      BY <1>1, <1>3
    <2> QED BY <2>1, RankType
  <1>5. \A i, j \in DOMAIN todo : i < j => Rank[todo[i]] < Rank[todo[j]]
    BY DEF TodoOrdered
  <1>6. s \in Left /\ Left \subseteq InRun
    BY <1>1, <1>3 DEF Left, Elems, TodoOrdered
  <1>7. \A i \in 2..Len(todo) : Rank[s] < Rank[todo[i]]
    BY <1>1, <1>3, <1>5
  <1>8. Left' = {todo[i] : i \in 2..Len(todo)}
    <2>1. \A i \in 2..Len(todo) : i - 1 \in 1..(Len(todo) - 1) /\ todo[i] = Tail(todo)[i - 1]
      BY <1>3
    <2>2. \A i \in 1..(Len(todo) - 1) : i + 1 \in 2..Len(todo) /\ Tail(todo)[i] = todo[i + 1]
      BY <1>3
    <2>3. Left' = {Tail(todo)[i] : i \in 1..(Len(todo) - 1)}
      BY <1>1, <1>3 DEF Left, Elems
    <2> QED BY <2>1, <2>2, <2>3
  <1>9. Left = {s} \cup Left'
    <2>1. \A i \in DOMAIN todo : i = 1 \/ i \in 2..Len(todo)
      BY <1>3
    <2>2. \A i \in 2..Len(todo) : i \in DOMAIN todo
      BY <1>3
    <2>3. Left = {todo[i] : i \in DOMAIN todo}
      BY DEF Left, Elems
    <2> QED BY <1>1, <1>6, <1>8, <2>1, <2>2, <2>3
  <1>10. \A t \in Left' : Rank[s] < Rank[t]
    BY <1>7, <1>8
  <1>11. \A t \in InRun \ Left : Rank[t] < Rank[s]
    BY <1>6 DEF TodoOrdered
  <1>12. \A t \in InRun : Rank[t] \in Nat
    <2>1. InRun \subseteq Stage
      <3>1. Stretch(Stages(cfg), 1, 19)
        BY ChainAssumption, StagesInOrder DEF TypeOK
      <3> QED BY <3>1 DEF Stretch, InRun, Elems
    <2> QED BY <2>1, RankType
  <1>13. Left = {t \in InRun : Rank[s] <= Rank[t]} /\ Left' = {t \in InRun : Rank[s] < Rank[t]}
    BY <1>6, <1>9, <1>10, <1>11, <1>12
  <1>14. TodoOrdered'
    <2>1. todo' \in Seq(Stage) /\ Left' \subseteq InRun'
      BY <1>1, <1>2, <1>3, <1>6, <1>9
    <2>2. \A i, j \in DOMAIN todo' : i < j => Rank[todo'[i]] < Rank[todo'[j]]
      BY <1>1, <1>3, <1>5
    <2>3. \A t \in InRun' \ Left', u \in Left' : Rank[t] < Rank[u]
      BY <1>2, <1>6, <1>12, <1>13
    <2> QED BY <2>1, <2>2, <2>3 DEF TodoOrdered
  <1>15. s \notin Left'
    BY <1>6, <1>12, <1>13
  <1> QED BY <1>1, <1>2, <1>6, <1>9, <1>13, <1>14, <1>15

-----------------------------------------------------------------------------
(* What each group of stages does to a clip.                               *)

\* The stages before captioning leave windows alone; but for the Qwen stages
\* they leave the Qwen inputs and marks alone, and errors only grow.
FrontStage == \/ Transcode \/ MotionDecode \/ MotionFilter \/ FrameExtraction \/ Aesthetic
              \/ EmbedFrames \/ EmbedInternVideo2 \/ EmbedCosmosEmbed1 \/ EmbedCRadio
              \/ EmbedOpenAI
QwenStage == QwenPrep \/ Classifier \/ Semantic
WindowStage == \/ CaptionPrep \/ Gemma4Direct \/ Preview
               \/ CaptionVllm \/ CaptionGemini \/ CaptionOpenAI
               \/ Enhance \/ (\E k \in Kinds : Judge(k)) \/ T5

Front(r, q) ==
  /\ q \in ClipType /\ q.wins = r.wins /\ q.win = r.win
  /\ q.prepared = r.prepared /\ q.inputs = r.inputs /\ q.rejectedBy = r.rejectedBy
  /\ r.errors \subseteq q.errors /\ ("qwen" \in q.errors => "qwen" \in r.errors)

\* A field of the front of a clip is set, or an error noted.
LEMMA FrontField ==
  ASSUME NEW r \in ClipType
  PROVE  /\ Front(r, r)
         /\ \A b \in BOOLEAN : /\ Front(r, [r EXCEPT !.enc = b]) /\ Front(r, [r EXCEPT !.motion = b])
                               /\ Front(r, [r EXCEPT !.emb = b]) /\ Front(r, [r EXCEPT !.embIn = b])
         /\ \A f \in SUBSET {1, 2} : Front(r, [r EXCEPT !.frames = f])
         /\ \A e \in Marks \ {"qwen"} : Front(r, Flag(r, e))
  BY SMTT(40) DEF ClipType, Front, Flag

\* One change after another.
LEMMA FrontTwice ==
  ASSUME NEW r, NEW p, NEW q, Front(r, p), Front(p, q)
  PROVE  Front(r, q)
  BY DEF Front

\* The stages of the front.
LEMMA FrontEffect ==
  ASSUME TypeOK, FrontStage, NEW c \in Clip
  PROVE  Front(clip[c], clip'[c])
  <1> DEFINE r == clip[c]
  <1>1. r \in ClipType
    BY DEF TypeOK
  <1>2. /\ Front(r, r)
        /\ \A b \in BOOLEAN : /\ Front(r, [r EXCEPT !.enc = b]) /\ Front(r, [r EXCEPT !.motion = b])
                              /\ Front(r, [r EXCEPT !.emb = b]) /\ Front(r, [r EXCEPT !.embIn = b])
        /\ \A f \in SUBSET {1, 2} : Front(r, [r EXCEPT !.frames = f])
        /\ \A e \in Marks \ {"qwen"} : Front(r, Flag(r, e))
    BY <1>1, FrontField
  <1>3. /\ {"transcode", "encoded_data", "motion_decode", "frame_extraction", "frames",
            "embedding"} \subseteq Marks \ {"qwen"}
        /\ TargetFps(cfg) \in SUBSET {1, 2} /\ AestheticRest(r.frames) \in SUBSET {1, 2}
    BY <1>1 DEF Marks, TargetFps, AestheticRest, ClipType
  <1>4. CASE Transcode
    <2>1. PICK ok \in SUBSET passing :
            clip'[c] = IF c \in passing THEN IF c \in ok THEN [r EXCEPT !.enc = TRUE]
                                             ELSE Flag(r, "transcode")
                       ELSE r
      BY <1>4 DEF Transcode, Over
    <2> QED BY <1>2, <1>3, <2>1
  <1>5. CASE MotionDecode
    <2>1. PICK ok \in SUBSET Encoded :
            clip'[c] = IF c \in passing THEN IF c \in ok THEN [r EXCEPT !.motion = TRUE]
                                             ELSE Flag(r, IF r.enc THEN "motion_decode" ELSE "encoded_data")
                       ELSE r
      BY <1>5 DEF MotionDecode, Over
    <2> QED BY <1>2, <1>3, <2>1
  <1>6. CASE MotionFilter
    <2>1. clip'[c] = IF c \in passing THEN [r EXCEPT !.motion = FALSE] ELSE r
      BY <1>6 DEF MotionFilter, Over
    <2> QED BY <1>2, <2>1
  <1>7. CASE FrameExtraction
    <2> DEFINE f == Flag(r, "frame_extraction")
    <2>1. PICK ok \in SUBSET Encoded :
            clip'[c] = IF c \in passing
                       THEN IF c \in ok THEN [r EXCEPT !.frames = TargetFps(cfg)]
                            ELSE IF r.enc THEN [f EXCEPT !.enc = FALSE]
                            ELSE Flag(r, "encoded_data")
                       ELSE r
      BY <1>7 DEF FrameExtraction, Over
    <2>2. Front(r, f) /\ f \in ClipType
      BY <1>2, <1>3 DEF Front
    <2> HIDE DEF f
    <2>3. Front(r, [f EXCEPT !.enc = FALSE])
      BY <2>2, FrontField, FrontTwice
    <2> QED BY <1>2, <1>3, <2>1, <2>3
  <1>8. CASE Aesthetic
    <2>1. clip'[c] = IF c \in passing
                     THEN IF ~r.enc THEN Flag(r, "encoded_data")
                          ELSE IF 1 \notin r.frames THEN Flag(r, "frames")
                          ELSE [r EXCEPT !.frames = AestheticRest(r.frames)]
                     ELSE r
      BY <1>8 DEF Aesthetic, Over
    <2> QED BY <1>2, <1>3, <2>1
  <1>9. CASE EmbedFrames
    <2> DEFINE e == [r EXCEPT !.embIn = TRUE]
    <2>1. clip'[c] = IF c \in passing
                     THEN IF ~r.enc THEN Flag(r, "encoded_data")
                          ELSE IF 2 \notin r.frames THEN Flag(r, "frames")
                          ELSE [r EXCEPT !.embIn = TRUE, !.frames = {}]
                     ELSE r
      BY <1>9 DEF EmbedFrames, Over, EmbedInput
    <2>2. Front(r, [r EXCEPT !.embIn = TRUE, !.frames = {}])
      BY <1>1 DEF ClipType, Front
    <2> QED BY <1>2, <1>3, <2>1, <2>2
  <1>10. CASE EmbedInternVideo2 \/ EmbedCosmosEmbed1 \/ EmbedCRadio
    <2>1. PICK m, ok : Embed(m, ok)
      BY <1>10 DEF EmbedInternVideo2, EmbedCosmosEmbed1, EmbedCRadio
    <2> DEFINE e == IF c \in ok THEN [r EXCEPT !.emb = TRUE] ELSE Flag(r, "embedding")
    <2>2. clip'[c] = IF c \in passing THEN [e EXCEPT !.embIn = FALSE] ELSE r
      BY <2>1 DEF Embed, Over
    <2>3. Front(r, e) /\ e \in ClipType
      BY <1>2, <1>3 DEF Front
    <2> HIDE DEF e
    <2>4. Front(r, [e EXCEPT !.embIn = FALSE])
      BY <2>3, FrontField, FrontTwice
    <2> QED BY <1>2, <2>2, <2>4
  <1>11. CASE EmbedOpenAI
    <2>1. PICK ok : clip'[c] = IF c \in passing
                               THEN IF c \in ok THEN [r EXCEPT !.emb = TRUE, !.frames = {}]
                                    ELSE Flag(r, "embedding")
                               ELSE r
      BY <1>11 DEF EmbedOpenAI, Over
    <2>2. Front(r, [r EXCEPT !.emb = TRUE, !.frames = {}])
      BY <1>1 DEF ClipType, Front
    <2> QED BY <1>2, <1>3, <2>1, <2>2
  <1> QED BY <1>4, <1>5, <1>6, <1>7, <1>8, <1>9, <1>10, <1>11 DEF FrontStage

\* What the Qwen stages may do to a clip, and nothing else.
Middle(r, q) ==
  /\ q \in ClipType /\ q.wins = r.wins /\ q.win = r.win
  /\ q.enc = r.enc /\ q.frames = r.frames /\ q.emb = r.emb
  /\ r.errors \subseteq q.errors

\* A Qwen stage does its work on the clips it goes over, and may clear the
\* inputs of all.
LEMMA QwenRecord ==
  ASSUME TypeOK, NEW c \in Clip, NEW key \in QwenKeys, NEW judged, Qwen(key, judged)
  PROVE  \E bad \in SUBSET judged :
           /\ MoveOut(QwenOut(key, bad), key)
           /\ clip'[c] = QwenClear(IF c \in passing THEN QwenMark(clip[c], key, c \in bad)
                                   ELSE clip[c], key)
  BY DEF Qwen, TypeOK

\* What a Qwen stage makes of one clip.
LEMMA QwenMarked ==
  ASSUME NEW r \in ClipType, NEW key \in QwenKeys, NEW bad \in BOOLEAN
  PROVE  LET q == QwenMark(r, key, bad)
         IN  /\ Middle(r, q) /\ q.prepared = r.prepared /\ q.inputs = r.inputs
             /\ key \in r.inputs => q.errors = r.errors
             /\ key \in r.inputs /\ ~bad => q.rejectedBy = r.rejectedBy
             /\ key \notin r.inputs \/ bad => q.rejectedBy = key
  <1> DEFINE t == r.typed \/ key = "classifier"
             E == r.errors \cup {"qwen", IF r.prepared THEN "window" ELSE "windows"}
             p == [r EXCEPT !.typed = t]
             e == [r EXCEPT !.errors = E]
  <1>1. t \in BOOLEAN /\ E \in SUBSET Marks /\ r.errors \subseteq E
    BY DEF ClipType, Marks
  <1>2. QwenMark(r, key, bad) =
          IF key \in r.inputs THEN IF bad THEN [p EXCEPT !.rejectedBy = key] ELSE p
          ELSE [e EXCEPT !.rejectedBy = key]
    BY DEF QwenMark
  <1> HIDE DEF t, E
  <1>3. Middle(r, p) /\ p.prepared = r.prepared /\ p.inputs = r.inputs
        /\ p.errors = r.errors /\ p.rejectedBy = r.rejectedBy
    BY <1>1 DEF ClipType, Middle
  <1>4. Middle(r, e) /\ e.prepared = r.prepared /\ e.inputs = r.inputs
    BY <1>1 DEF ClipType, Middle
  <1>5. ASSUME NEW x \in ClipType
        PROVE  LET y == [x EXCEPT !.rejectedBy = key]
               IN  /\ Middle(x, y) /\ y.prepared = x.prepared /\ y.inputs = x.inputs
                   /\ y.errors = x.errors /\ y.rejectedBy = key
    BY DEF ClipType, Middle
  <1>6. p \in ClipType /\ e \in ClipType
    BY <1>3, <1>4 DEF Middle
  <1> HIDE DEF p, e
  <1>7. \A x, y, z : Middle(x, y) /\ Middle(y, z) => Middle(x, z)
    BY DEF Middle
  <1> QED BY <1>2, <1>3, <1>4, <1>5, <1>6, <1>7

\* Clearing the inputs touches nothing else.
LEMMA QwenCleared ==
  ASSUME NEW r \in ClipType, NEW key
  PROVE  LET q == QwenClear(r, key)
         IN  /\ Middle(r, q) /\ q.prepared = r.prepared /\ q.errors = r.errors
             /\ q.rejectedBy = r.rejectedBy
             /\ ~ClearsInputs(key) => q.inputs = r.inputs
  BY DEF QwenClear, ClipType, Middle

\* One clip, through a Qwen stage.
LEMMA QwenClip ==
  ASSUME TypeOK, NEW c \in Clip, NEW key \in QwenKeys, NEW bad,
         clip'[c] = QwenClear(IF c \in passing THEN QwenMark(clip[c], key, c \in bad)
                              ELSE clip[c], key)
  PROVE  /\ Middle(clip[c], clip'[c]) /\ clip'[c].prepared = clip[c].prepared
         /\ ~ClearsInputs(key) => clip'[c].inputs = clip[c].inputs
         /\ c \notin passing => /\ clip'[c].errors = clip[c].errors
                                /\ clip'[c].rejectedBy = clip[c].rejectedBy
         /\ c \in passing =>
              /\ key \in clip[c].inputs => clip'[c].errors = clip[c].errors
              /\ key \in clip[c].inputs /\ c \notin bad => clip'[c].rejectedBy = clip[c].rejectedBy
              /\ key \notin clip[c].inputs \/ c \in bad => clip'[c].rejectedBy = key
  <1> DEFINE r == clip[c]
             q == QwenMark(r, key, c \in bad)
  <1>1. r \in ClipType
    BY DEF TypeOK
  <1>2. /\ Middle(r, q) /\ q.prepared = r.prepared /\ q.inputs = r.inputs
        /\ key \in r.inputs => q.errors = r.errors
        /\ key \in r.inputs /\ c \notin bad => q.rejectedBy = r.rejectedBy
        /\ key \notin r.inputs \/ c \in bad => q.rejectedBy = key
    <2> DEFINE b == c \in bad
    <2>1. b \in BOOLEAN
      OBVIOUS
    <2> HIDE DEF b
    <2>2. LET m == QwenMark(r, key, b)
          IN  /\ Middle(r, m) /\ m.prepared = r.prepared /\ m.inputs = r.inputs
              /\ key \in r.inputs => m.errors = r.errors
              /\ key \in r.inputs /\ ~b => m.rejectedBy = r.rejectedBy
              /\ key \notin r.inputs \/ b => m.rejectedBy = key
      BY <1>1, <2>1, QwenMarked
    <2> QED BY <2>2 DEF b
  <1>3. q \in ClipType
    BY <1>2 DEF Middle
  <1> HIDE DEF q, r
  <1>4. \A x \in ClipType :
          /\ Middle(x, QwenClear(x, key)) /\ QwenClear(x, key).prepared = x.prepared
          /\ QwenClear(x, key).errors = x.errors
          /\ QwenClear(x, key).rejectedBy = x.rejectedBy
          /\ ~ClearsInputs(key) => QwenClear(x, key).inputs = x.inputs
    BY QwenCleared
  <1>5. \A x, y, z : Middle(x, y) /\ Middle(y, z) => Middle(x, z)
    BY DEF Middle
  <1>6. clip'[c] = QwenClear(IF c \in passing THEN q ELSE r, key)
    BY DEF q, r
  <1>7. CASE c \in passing
    <2>1. clip'[c] = QwenClear(q, key)
      BY <1>6, <1>7
    <2> HIDE DEF q
    <2>2. Middle(q, clip'[c])
      BY <1>3, <1>4, <2>1
    <2>3. Middle(r, clip'[c])
      BY <1>2, <1>5, <2>2
    <2> QED BY <1>2, <1>3, <1>4, <1>7, <2>1, <2>3 DEF r
  <1>8. CASE c \notin passing
    <2>1. clip'[c] = QwenClear(r, key)
      BY <1>6, <1>8
    <2> QED BY <1>1, <1>4, <1>8, <2>1 DEF r
  <1> QED BY <1>7, <1>8

\* The preparation of the Qwen inputs.
LEMMA QwenPrepClip ==
  ASSUME TypeOK, QwenPrep, NEW c \in Clip
  PROVE  /\ Middle(clip[c], clip'[c]) /\ clip'[c].rejectedBy = clip[c].rejectedBy
         /\ c \notin passing => clip'[c] = clip[c]
         /\ "qwen" \in clip'[c].errors => "qwen" \in clip[c].errors
         /\ \/ clip'[c].inputs = QwenInputs(cfg)
            \/ clip'[c].prepared = clip[c].prepared /\ clip'[c].inputs = clip[c].inputs
  <1> DEFINE r == clip[c]
             p == [r EXCEPT !.prepared = TRUE, !.inputs = QwenInputs(cfg)]
  <1>1. r \in ClipType
    BY DEF TypeOK
  <1>2. QwenInputs(cfg) \in SUBSET QwenKeys
    BY DEF QwenInputs, QwenKeys
  <1>3. clip'[c] \in {r, p, Flag(r, "qwen_input"), Flag(r, "encoded_data")}
        /\ (c \notin passing => clip'[c] = r)
    BY DEF QwenPrep, Over, TypeOK
  <1>4. Middle(r, r)
    BY <1>1 DEF Middle
  <1>5. Middle(r, p) /\ p.rejectedBy = r.rejectedBy /\ p.errors = r.errors
        /\ p.inputs = QwenInputs(cfg)
    BY <1>1, <1>2 DEF Middle, ClipType
  <1>6. \A e \in {"qwen_input", "encoded_data"} :
          LET q == Flag(r, e)
          IN  /\ Middle(r, q) /\ q.rejectedBy = r.rejectedBy
              /\ q.prepared = r.prepared /\ q.inputs = r.inputs
              /\ "qwen" \in q.errors => "qwen" \in r.errors
    BY <1>1 DEF Middle, ClipType, Flag, Marks
  <1> QED BY <1>3, <1>4, <1>5, <1>6

\* What the captioning stages and those behind them may do to a clip outside
\* its windows, and nothing else.
Back(r, q) ==
  /\ q \in ClipType /\ q.enc = r.enc /\ q.frames = r.frames /\ q.emb = r.emb
  /\ q.prepared = r.prepared /\ q.inputs = r.inputs /\ q.rejectedBy = r.rejectedBy
  /\ r.errors \subseteq q.errors /\ ("qwen" \in q.errors => "qwen" \in r.errors)

\* The data of a window that the stages hand on.
Core(x, y) == y.mp4 = x.mp4 /\ y.input = x.input /\ y.caption = x.caption /\ y.verdict = x.verdict

\* The changes of a clip and of a window, as operators.
Rewound(r, W, f) == [r EXCEPT !.wins = W, !.win = f]
Rewritten(r, f) == [r EXCEPT !.win = f]
Excused(r, f, E) == [r EXCEPT !.win = f, !.errors = @ \cup E]
Loaded(x, m, i) == [x EXCEPT !.mp4 = m, !.input = i]
Excuses == SUBSET (Marks \ {"qwen"})
Captioned(x) == [x EXCEPT !.caption = "text"]
Failed(x) == [x EXCEPT !.failed = TRUE]
Drained(x, m, a) == [x EXCEPT !.caption = a, !.input = FALSE, !.mp4 = m]

\* The windows of a clip are replaced, or an error noted.
LEMMA BackField ==
  ASSUME NEW r \in ClipType
  PROVE  /\ Back(r, r)
         /\ \A e \in Marks \ {"qwen"} : /\ Back(r, Flag(r, e))
                                        /\ Flag(r, e).wins = r.wins /\ Flag(r, e).win = r.win
         /\ \A f \in [Window -> WindowType] :
              /\ Back(r, Rewritten(r, f))
              /\ Rewritten(r, f).wins = r.wins /\ Rewritten(r, f).win = f
         /\ \A W \in SUBSET Window, f \in [Window -> WindowType] :
              /\ Back(r, Rewound(r, W, f))
              /\ Rewound(r, W, f).wins = W /\ Rewound(r, W, f).win = f
  <1>1. Back(r, r)
    BY DEF Back
  <1>2. ASSUME NEW e \in Marks \ {"qwen"}
        PROVE  Back(r, Flag(r, e)) /\ Flag(r, e).wins = r.wins /\ Flag(r, e).win = r.win
    BY DEF Back, ClipType, Flag
  <1>3. ASSUME NEW f \in [Window -> WindowType]
        PROVE  /\ Back(r, Rewritten(r, f))
               /\ Rewritten(r, f).wins = r.wins /\ Rewritten(r, f).win = f
    BY DEF Back, ClipType, Rewritten
  <1>4. ASSUME NEW W \in SUBSET Window, NEW f \in [Window -> WindowType]
        PROVE  /\ Back(r, Rewound(r, W, f))
               /\ Rewound(r, W, f).wins = W /\ Rewound(r, W, f).win = f
    BY DEF Back, ClipType, Rewound
  <1> QED BY <1>1, <1>2, <1>3, <1>4

\* The windows of a clip are replaced and errors noted.
LEMMA ExcusedClip ==
  ASSUME NEW r \in ClipType, NEW E \in Excuses,
         NEW f \in [Window -> WindowType]
  PROVE  /\ Back(r, Excused(r, f, E))
         /\ Excused(r, f, E).wins = r.wins /\ Excused(r, f, E).win = f
         /\ Excused(r, f, E).errors = r.errors \cup E
  BY DEF Back, ClipType, Excused, Excuses

\* A field of a window is set.
LEMMA WindowField ==
  ASSUME NEW x \in WindowType
  PROVE  /\ Core(x, x) /\ Failed(x) \in WindowType /\ Core(x, Failed(x))
         /\ Captioned(x) \in WindowType /\ Captioned(x).mp4 = x.mp4 /\ Captioned(x).input = x.input
         /\ Captioned(x).verdict = x.verdict /\ Captioned(x).caption = "text"
  BY DEF WindowType, Core, Captioned, Failed

\* A window gets its bytes and its model input.
LEMMA LoadedWindow ==
  ASSUME NEW x \in WindowType, NEW m \in BOOLEAN, NEW i \in BOOLEAN
  PROVE  /\ Loaded(x, m, i) \in WindowType /\ Loaded(x, m, i).caption = x.caption
         /\ Loaded(x, m, i).verdict = x.verdict
         /\ Loaded(x, m, i).mp4 = m /\ Loaded(x, m, i).input = i
  BY DEF WindowType, Loaded

\* A window gets its caption from the engine, and its input is freed.
LEMMA DrainedWindow ==
  ASSUME NEW x \in WindowType, NEW m \in BOOLEAN, NEW a \in {"no", "empty", "text"}
  PROVE  /\ Drained(x, m, a) \in WindowType /\ Drained(x, m, a).caption = a
         /\ Drained(x, m, a).verdict = x.verdict
         /\ Drained(x, m, a).mp4 = m /\ Drained(x, m, a).input = FALSE
  BY DEF WindowType, Drained

\* The preparation of the captions.
LEMMA CaptionPrepClip ==
  ASSUME TypeOK, CaptionPrep, NEW c \in Clip
  PROVE  /\ Back(clip[c], clip'[c])
         /\ c \notin passing => clip'[c] = clip[c]
         /\ \/ clip'[c].wins = clip[c].wins /\ clip'[c].win = clip[c].win
            \/ \A w \in Window :
                 IF w \in clip'[c].wins
                 THEN /\ clip'[c].win[w].mp4 = KeepMp4(cfg)
                      /\ clip'[c].win[w].input = (cfg.caption = "vllm")
                      /\ clip'[c].win[w].caption = clip[c].win[w].caption
                      /\ clip'[c].win[w].verdict = clip[c].win[w].verdict
                 ELSE clip'[c].win[w] = clip[c].win[w]
  <1> DEFINE r == clip[c]
             keep == KeepMp4(cfg)
             vllm == cfg.caption = "vllm"
             f(W) == [w \in Window |->
                        IF w \in W THEN Loaded(r.win[w], keep, vllm)
                        ELSE r.win[w]]
  <1>1. r \in ClipType /\ \A w \in Window : r.win[w] \in WindowType
    BY DEF TypeOK, ClipType
  <1>2. keep \in BOOLEAN /\ vllm \in BOOLEAN
    BY DEF KeepMp4
  <1>3. PICK wins \in [Encoded -> SUBSET Window] :
          clip'[c] = IF c \in passing
                     THEN IF r.enc THEN Windowed(c, wins[c], keep, vllm)
                          ELSE Flag(r, "encoded_data")
                     ELSE r
    BY DEF CaptionPrep, Over
  <1>4. CASE c \in passing /\ r.enc
    <2>1. c \in Encoded
      BY <1>4 DEF Encoded
    <2>2. wins[c] \in SUBSET Window
      BY <1>3, <2>1
    <2>3. clip'[c] = Rewound(r, wins[c], f(wins[c]))
      BY <1>3, <1>4 DEF Windowed, Loaded, Rewound
    <2> DEFINE W == wins[c]
    <2>4. \A w \in Window :
            /\ f(W)[w] = IF w \in W THEN Loaded(r.win[w], keep, vllm)
                         ELSE r.win[w]
      OBVIOUS
    <2> HIDE DEF r, keep, vllm, W
    <2>5. f(W) \in [Window -> WindowType]
      BY <1>1, <1>2, LoadedWindow
    <2> DEFINE g == f(W)
    <2>6. g \in [Window -> WindowType] /\ W \in SUBSET Window
          /\ clip'[c] = Rewound(r, W, g)
      BY <2>2, <2>3, <2>5 DEF W
    <2>7. \A w \in Window : g[w] = IF w \in W THEN Loaded(r.win[w], keep, vllm)
                                   ELSE r.win[w]
      BY <2>4
    <2> HIDE DEF f, g
    <2>8. Back(r, clip'[c]) /\ clip'[c].wins = W /\ clip'[c].win = g
      BY <1>1, <2>6, BackField
    <2>9. \A w \in Window :
            IF w \in W
            THEN /\ g[w].mp4 = keep /\ g[w].input = vllm
                 /\ g[w].caption = r.win[w].caption /\ g[w].verdict = r.win[w].verdict
            ELSE g[w] = r.win[w]
      <3> SUFFICES ASSUME NEW w \in Window, w \in W
                   PROVE  /\ g[w].mp4 = keep /\ g[w].input = vllm
                          /\ g[w].caption = r.win[w].caption /\ g[w].verdict = r.win[w].verdict
        BY <2>7
      <3>1. g[w] = Loaded(r.win[w], keep, vllm) /\ r.win[w] \in WindowType
        BY <1>1, <2>7
      <3>2. LET x == r.win[w]
            IN  /\ Loaded(x, keep, vllm).caption = x.caption
                /\ Loaded(x, keep, vllm).verdict = x.verdict
                /\ Loaded(x, keep, vllm).mp4 = keep /\ Loaded(x, keep, vllm).input = vllm
        BY <1>2, <3>1, LoadedWindow
      <3> QED BY <1>2, <3>1, <3>2
    <2> QED BY <1>4, <2>8, <2>9 DEF r, keep, vllm
  <1>5. CASE ~(c \in passing /\ r.enc)
    <2>1. clip'[c] = r \/ (c \in passing /\ clip'[c] = Flag(r, "encoded_data"))
      BY <1>3, <1>5
    <2>2. "encoded_data" \in Marks \ {"qwen"}
      BY DEF Marks
    <2> HIDE DEF r
    <2>3. Back(r, clip'[c]) /\ clip'[c].wins = r.wins /\ clip'[c].win = r.win
          /\ (c \notin passing => clip'[c] = r)
      BY <1>1, <2>1, <2>2, BackField
    <2> QED BY <2>3 DEF r
  <1> QED BY <1>4, <1>5

\* Gemma4, that windows and captions in one stage.
LEMMA Gemma4Clip ==
  ASSUME TypeOK, Gemma4Direct, NEW c \in Clip
  PROVE  /\ Back(clip[c], clip'[c])
         /\ c \notin passing => clip'[c] = clip[c]
         /\ \/ clip'[c].wins = clip[c].wins /\ clip'[c].win = clip[c].win
            \/ \A w \in Window :
                 /\ clip'[c].win[w].input => clip[c].win[w].input
                 /\ clip'[c].win[w].verdict = clip[c].win[w].verdict
  <1> DEFINE r == clip[c]
  <1>1. r \in ClipType /\ \A w \in Window : r.win[w] \in WindowType
    BY DEF TypeOK, ClipType
  <1>2a. PICK wins \in [Encoded -> SUBSET Window] : \E ok :
          clip'[c] =
            IF c \in passing
            THEN IF ~r.enc THEN Flag(r, "encoded_data")
                 ELSE [Windowed(c, wins[c], FALSE, FALSE) EXCEPT !.win =
                         [w \in Window |->
                            IF w \notin wins[c] THEN @[w]
                            ELSE IF <<c, w>> \in ok THEN [@[w] EXCEPT !.caption = "text"]
                            ELSE [@[w] EXCEPT !.failed = TRUE]]]
            ELSE r
    BY DEF Gemma4Direct, Over
  <1>2. PICK ok :
          clip'[c] =
            IF c \in passing
            THEN IF ~r.enc THEN Flag(r, "encoded_data")
                 ELSE [Windowed(c, wins[c], FALSE, FALSE) EXCEPT !.win =
                         [w \in Window |->
                            IF w \notin wins[c] THEN @[w]
                            ELSE IF <<c, w>> \in ok THEN [@[w] EXCEPT !.caption = "text"]
                            ELSE [@[w] EXCEPT !.failed = TRUE]]]
            ELSE r
    BY <1>2a
  <1>3. CASE c \in passing /\ r.enc
    <2> DEFINE W == wins[c]
               f == [w \in Window |->
                       IF w \in W THEN Loaded(r.win[w], FALSE, FALSE)
                       ELSE r.win[w]]
               p == Rewound(r, W, f)
               g == [w \in Window |->
                       IF w \notin W THEN p.win[w]
                       ELSE IF <<c, w>> \in ok THEN Captioned(p.win[w])
                       ELSE Failed(p.win[w])]
    <2>1. c \in Encoded
      BY <1>3 DEF Encoded
    <2>2. W \in SUBSET Window
      BY <1>2a, <2>1
    <2>3. clip'[c] = Rewritten(p, g)
      BY <1>2, <1>3 DEF Windowed, Loaded, Captioned, Failed, Rewound, Rewritten
    <2>4. \A w \in Window : f[w] = IF w \in W THEN Loaded(r.win[w], FALSE, FALSE)
                                   ELSE r.win[w]
      OBVIOUS
    <2>5. f \in [Window -> WindowType]
      <3> HIDE DEF r, W
      <3> QED BY <1>1, LoadedWindow
    <2> HIDE DEF f, W, r
    <2>6. Back(r, p) /\ p.win = f /\ p.wins = W
      BY <1>1, <2>2, <2>5, BackField
    <2>7. \A w \in Window : g[w] = IF w \notin W THEN f[w]
                                   ELSE IF <<c, w>> \in ok THEN Captioned(f[w])
                                   ELSE Failed(f[w])
      <3> HIDE DEF p
      <3> QED BY <2>6
    <2>8. DOMAIN g = Window /\ g = [w \in Window |-> g[w]]
      OBVIOUS
    <2>9. p \in ClipType
      BY <2>6 DEF Back
    <2> HIDE DEF g, p
    <2>10. g \in [Window -> WindowType]
      <3>1. ASSUME NEW w \in Window PROVE g[w] \in WindowType
        <4>1. f[w] \in WindowType
          BY <2>5
        <4>2. Captioned(f[w]) \in WindowType /\ Failed(f[w]) \in WindowType
          BY <4>1, WindowField
        <4> QED BY <2>7, <4>1, <4>2
      <3> QED BY <2>8, <3>1
    <2>11. Back(p, clip'[c]) /\ clip'[c].win = g
      BY <2>3, <2>9, <2>10, BackField
    <2>12. Back(r, clip'[c])
      BY <2>6, <2>11 DEF Back
    <2>13. \A w \in Window : /\ f[w] \in WindowType /\ (f[w].input => r.win[w].input)
                             /\ f[w].verdict = r.win[w].verdict
      <3> SUFFICES ASSUME NEW w \in Window
                   PROVE  /\ f[w] \in WindowType /\ (f[w].input => r.win[w].input)
                          /\ f[w].verdict = r.win[w].verdict
        OBVIOUS
      <3>1. r.win[w] \in WindowType /\ f[w] \in WindowType
        BY <1>1, <2>5
      <3>2. LET x == r.win[w]
            IN  Loaded(x, FALSE, FALSE).verdict = x.verdict /\ Loaded(x, FALSE, FALSE).input = FALSE
        BY <3>1, LoadedWindow
      <3> QED BY <2>4, <3>1, <3>2
    <2>14. \A w \in Window : (g[w].input => f[w].input) /\ g[w].verdict = f[w].verdict
      <3> SUFFICES ASSUME NEW w \in Window
                   PROVE  (g[w].input => f[w].input) /\ g[w].verdict = f[w].verdict
        OBVIOUS
      <3>1. /\ Captioned(f[w]).input = f[w].input /\ Captioned(f[w]).verdict = f[w].verdict
            /\ Core(f[w], Failed(f[w]))
        BY <2>13, WindowField
      <3> QED BY <2>7, <3>1 DEF Core
    <2> QED BY <1>3, <2>11, <2>12, <2>13, <2>14 DEF r
  <1>4. CASE ~(c \in passing /\ r.enc)
    <2>1. clip'[c] = r \/ (c \in passing /\ clip'[c] = Flag(r, "encoded_data"))
      BY <1>2, <1>4
    <2>2. "encoded_data" \in Marks \ {"qwen"}
      BY DEF Marks
    <2> HIDE DEF r
    <2>3. Back(r, clip'[c]) /\ clip'[c].wins = r.wins /\ clip'[c].win = r.win
          /\ (c \notin passing => clip'[c] = r)
      BY <1>1, <2>1, <2>2, BackField
    <2> QED BY <2>3 DEF r
  <1> QED BY <1>3, <1>4

\* Marking a window leaves its data alone.
LEMMA MarkedWindow ==
  ASSUME NEW x \in WindowType, NEW b \in BOOLEAN
  PROVE  /\ [x EXCEPT !.webp = b] \in WindowType /\ Core(x, [x EXCEPT !.webp = b])
         /\ [x EXCEPT !.enhanced = b] \in WindowType /\ Core(x, [x EXCEPT !.enhanced = b])
         /\ [x EXCEPT !.t5 = b] \in WindowType /\ Core(x, [x EXCEPT !.t5 = b])
  BY DEF WindowType, Core

\* Previews, enhancement and T5 leave the data of every window alone.
LEMMA QuietClip ==
  ASSUME TypeOK, Preview \/ Enhance \/ T5, NEW c \in Clip
  PROVE  /\ Back(clip[c], clip'[c]) /\ clip'[c].wins = clip[c].wins
         /\ \A w \in Window : Core(clip[c].win[w], clip'[c].win[w])
  <1> DEFINE r == clip[c]
  <1>1. r \in ClipType /\ r.wins \in SUBSET Window /\ \A w \in Window : r.win[w] \in WindowType
    BY DEF TypeOK, ClipType
  <1>2. ASSUME NEW E \in Excuses, NEW f,
               f = [w \in Window |-> f[w]],
               \A w \in Window : f[w] \in WindowType /\ Core(r.win[w], f[w]),
               clip'[c] = Rewritten(r, f) \/ clip'[c] = Excused(r, f, E)
        PROVE  /\ Back(r, clip'[c]) /\ clip'[c].wins = r.wins
               /\ \A w \in Window : Core(r.win[w], clip'[c].win[w])
    <2> HIDE DEF r
    <2>1. f \in [Window -> WindowType]
      <3> DEFINE g == f
      <3>1. \A w \in Window : g[w] \in WindowType
        BY <1>2
      <3> HIDE DEF g
      <3>2. [w \in Window |-> g[w]] \in [Window -> WindowType]
        BY <3>1
      <3> QED BY <1>2, <3>2 DEF g
    <2>2. Back(r, clip'[c]) /\ clip'[c].wins = r.wins /\ clip'[c].win = f
      <3>1. /\ Back(r, Rewritten(r, f))
            /\ Rewritten(r, f).wins = r.wins /\ Rewritten(r, f).win = f
        BY <1>1, <2>1, BackField
      <3>2. E \in Excuses
        OBVIOUS
      <3>3. /\ Back(r, Excused(r, f, E))
            /\ Excused(r, f, E).wins = r.wins /\ Excused(r, f, E).win = f
        BY <1>1, <2>1, <3>2, ExcusedClip
      <3>4. clip'[c] = Rewritten(r, f) \/ clip'[c] = Excused(r, f, E)
        BY <1>2
      <3> QED BY <3>1, <3>3, <3>4
    <2> QED BY <1>2, <2>2
  <1>2a. {} \in Excuses
    BY DEF Excuses
  <1>3. CASE c \notin passing
    <2>1. clip'[c] = r
      BY <1>3 DEF Preview, Enhance, T5, OverWindows, Over
    <2> HIDE DEF r
    <2>2. Back(r, clip'[c]) /\ \A w \in Window : Core(r.win[w], clip'[c].win[w])
      BY <1>1, <2>1, BackField, WindowField
    <2> QED BY SMTT(40), <2>1, <2>2 DEF r
  <1>4. CASE c \in passing /\ Preview
    <2>1. PICK ok :
            clip'[c] = [r EXCEPT !.win = [w \in Window |->
                          IF w \in r.wins THEN [r.win[w] EXCEPT !.webp = <<c, w>> \in ok]
                          ELSE @[w]]]
      BY <1>4 DEF Preview, OverWindows, Over
    <2> DEFINE f == [w \in Window |->
                       IF w \in r.wins THEN [r.win[w] EXCEPT !.webp = <<c, w>> \in ok]
                       ELSE r.win[w]]
    <2>2. clip'[c] = Rewritten(r, f)
      BY <2>1 DEF Rewritten
    <2>3. f = [w \in Window |-> f[w]]
      OBVIOUS
    <2>4. ASSUME NEW w \in Window PROVE f[w] \in WindowType /\ Core(r.win[w], f[w])
      <3> DEFINE b == <<c, w>> \in ok
                 x == r.win[w]
      <3>1. b \in BOOLEAN /\ x \in WindowType
        BY <1>1
      <3>2. f[w] = IF w \in r.wins THEN [x EXCEPT !.webp = b] ELSE x
        OBVIOUS
      <3> HIDE DEF b, x, f
      <3>3. /\ [x EXCEPT !.webp = b] \in WindowType /\ Core(x, [x EXCEPT !.webp = b])
            /\ Core(x, x)
        BY <3>1, MarkedWindow, WindowField
      <3>4. f[w] \in WindowType /\ Core(x, f[w])
        BY <3>1, <3>2, <3>3
      <3> QED BY <3>4 DEF x
    <2> HIDE DEF f, r
    <2>5. /\ Back(r, clip'[c]) /\ clip'[c].wins = r.wins
          /\ \A w \in Window : Core(r.win[w], clip'[c].win[w])
      BY <1>2, <1>2a, <2>2, <2>3, <2>4
    <2> QED BY <2>5 DEF r
  <1>5. CASE c \in passing /\ T5
    <2>1. clip'[c] = [r EXCEPT !.win = [w \in Window |->
                        IF w \in r.wins
                        THEN [r.win[w] EXCEPT !.t5 = r.win[w].caption # "no"]
                        ELSE @[w]]]
      BY <1>5 DEF T5, OverWindows, Over
    <2> DEFINE f == [w \in Window |->
                       IF w \in r.wins THEN [r.win[w] EXCEPT !.t5 = r.win[w].caption # "no"]
                       ELSE r.win[w]]
    <2>2. clip'[c] = Rewritten(r, f)
      BY <2>1 DEF Rewritten
    <2>3. f = [w \in Window |-> f[w]]
      OBVIOUS
    <2>4. ASSUME NEW w \in Window PROVE f[w] \in WindowType /\ Core(r.win[w], f[w])
      <3> DEFINE x == r.win[w]
                 b == x.caption # "no"
      <3>1. b \in BOOLEAN /\ x \in WindowType
        BY <1>1
      <3>2. f[w] = IF w \in r.wins THEN [x EXCEPT !.t5 = b] ELSE x
        OBVIOUS
      <3> HIDE DEF b, x, f
      <3>3. /\ [x EXCEPT !.t5 = b] \in WindowType /\ Core(x, [x EXCEPT !.t5 = b])
            /\ Core(x, x)
        BY <3>1, MarkedWindow, WindowField
      <3>4. f[w] \in WindowType /\ Core(x, f[w])
        BY <3>1, <3>2, <3>3
      <3> QED BY <3>4 DEF x
    <2> HIDE DEF f, r
    <2>5. /\ Back(r, clip'[c]) /\ clip'[c].wins = r.wins
          /\ \A w \in Window : Core(r.win[w], clip'[c].win[w])
      BY <1>2, <1>2a, <2>2, <2>3, <2>4
    <2> QED BY <2>5 DEF r
  <1>6. CASE c \in passing /\ Enhance
    <2> DEFINE lacking == {w \in r.wins : r.win[w].caption = "no"}
               E == (IF r.wins = {} THEN {"windows"} ELSE {})
                      \cup (IF lacking = {} THEN {} ELSE {"window"})
               f == [w \in Window |-> [r.win[w] EXCEPT !.enhanced = w \in r.wins \ lacking]]
    <2>1. clip'[c] = [r EXCEPT !.win = f,
                               !.errors = @ \cup (IF r.wins = {} THEN {"windows"} ELSE {})
                                            \cup (IF lacking = {} THEN {} ELSE {"window"})]
      BY <1>6 DEF Enhance, Over
    <2>2. clip'[c] = Excused(r, f, E)
      <3>1. r.errors \cup E = r.errors \cup (IF r.wins = {} THEN {"windows"} ELSE {})
                                       \cup (IF lacking = {} THEN {} ELSE {"window"})
        OBVIOUS
      <3> HIDE DEF f, lacking, E, r
      <3> QED BY <2>1, <3>1 DEF Excused
    <2>3. f = [w \in Window |-> f[w]] /\ E \in Excuses
      BY DEF Marks, Excuses
    <2>4. ASSUME NEW w \in Window PROVE f[w] \in WindowType /\ Core(r.win[w], f[w])
      <3> DEFINE x == r.win[w]
                 b == w \in r.wins \ lacking
      <3>1. b \in BOOLEAN /\ x \in WindowType
        BY <1>1
      <3>2. f[w] = [x EXCEPT !.enhanced = b]
        OBVIOUS
      <3> HIDE DEF b, x, f
      <3>3. [x EXCEPT !.enhanced = b] \in WindowType /\ Core(x, [x EXCEPT !.enhanced = b])
        BY <3>1, MarkedWindow
      <3> QED BY <3>2, <3>3 DEF x
    <2> HIDE DEF f, E, lacking, r
    <2>5. /\ Back(r, clip'[c]) /\ clip'[c].wins = r.wins
          /\ \A w \in Window : Core(r.win[w], clip'[c].win[w])
      BY <1>2, <2>2, <2>3, <2>4
    <2> QED BY <2>5 DEF r
  <1> QED BY <1>3, <1>4, <1>5, <1>6

\* A function on the windows with values in a set.
LEMMA WindowsFunction ==
  ASSUME NEW f, f = [w \in Window |-> f[w]], NEW T, \A w \in Window : f[w] \in T
  PROVE  f \in [Window -> T]
  <1> DEFINE g == f
  <1>1. \A w \in Window : g[w] \in T
    OBVIOUS
  <1> HIDE DEF g
  <1>2. [w \in Window |-> g[w]] \in [Window -> T]
    BY <1>1
  <1> QED BY <1>2 DEF g

\* The captions of the local engine.
LEMMA CaptionVllmClip ==
  ASSUME TypeOK, CaptionVllm
  PROVE  \E answer \in {"text", "empty"} :
         /\ videoErrors' = CaptionErrors(answer)
         /\ \A c \in Clip :
           /\ Back(clip[c], clip'[c])
           /\ c \notin passing => clip'[c] = clip[c]
           /\ clip'[c].wins = clip[c].wins
           /\ c \in passing => \A w \in Window :
                IF w \in clip[c].wins
                THEN /\ ~clip'[c].win[w].input
                     /\ KeepMp4(cfg) => clip'[c].win[w].mp4 = clip[c].win[w].mp4
                     /\ clip[c].win[w].input => clip'[c].win[w].caption = answer
                     /\ clip'[c].win[w].verdict = clip[c].win[w].verdict
                ELSE clip'[c].win[w] = clip[c].win[w]
  <1>1. PICK answer \in {"text", "empty"} :
          /\ videoErrors' = CaptionErrors(answer)
          /\ clip' = [c \in Clip |-> IF c \in passing
                    THEN [clip[c] EXCEPT !.win = [w \in Window |->
                            IF w \in clip[c].wins
                            THEN [clip[c].win[w] EXCEPT
                                    !.caption = IF clip[c].win[w].input THEN answer ELSE @,
                                    !.input = FALSE, !.mp4 = @ /\ KeepMp4(cfg)]
                            ELSE @[w]]]
                    ELSE clip[c]]
    BY DEF CaptionVllm, OverWindows, Over
  <1> SUFFICES ASSUME NEW c \in Clip
               PROVE  /\ Back(clip[c], clip'[c])
                      /\ c \notin passing => clip'[c] = clip[c]
                      /\ clip'[c].wins = clip[c].wins
                      /\ c \in passing => \A w \in Window :
                           IF w \in clip[c].wins
                           THEN /\ ~clip'[c].win[w].input
                                /\ KeepMp4(cfg) => clip'[c].win[w].mp4 = clip[c].win[w].mp4
                                /\ clip[c].win[w].input => clip'[c].win[w].caption = answer
                                /\ clip'[c].win[w].verdict = clip[c].win[w].verdict
                           ELSE clip'[c].win[w] = clip[c].win[w]
    BY <1>1
  <1> DEFINE r == clip[c]
             keep == KeepMp4(cfg)
             say(x) == IF x.input THEN answer ELSE x.caption
             f == [w \in Window |-> IF w \in r.wins
                                    THEN Drained(r.win[w], r.win[w].mp4 /\ keep, say(r.win[w]))
                                    ELSE r.win[w]]
  <1>2. r \in ClipType /\ r.wins \in SUBSET Window /\ \A w \in Window : r.win[w] \in WindowType
    BY DEF TypeOK, ClipType
  <1>3. CASE c \notin passing
    <2>1. clip'[c] = r
      BY <1>1, <1>3
    <2>2. Back(r, r)
      BY <1>2, BackField
    <2> QED BY <1>3, <2>1, <2>2
  <1>4. CASE c \in passing
    <2>1. clip'[c] = Rewritten(r, f)
      BY <1>1, <1>4 DEF Rewritten, Drained
    <2>2. f = [w \in Window |-> f[w]]
      OBVIOUS
    <2>3. \A w \in Window : f[w] = IF w \in r.wins
                                   THEN Drained(r.win[w], r.win[w].mp4 /\ keep, say(r.win[w]))
                                   ELSE r.win[w]
      OBVIOUS
    <2> HIDE DEF f, r, keep
    <2>4. ASSUME NEW w \in Window
          PROVE  /\ f[w] \in WindowType
                 /\ w \notin r.wins => f[w] = r.win[w]
                 /\ w \in r.wins => /\ ~f[w].input /\ (keep => f[w].mp4 = r.win[w].mp4)
                                    /\ r.win[w].input => f[w].caption = answer
                                    /\ f[w].verdict = r.win[w].verdict
      <3> DEFINE x == r.win[w]
                 m == x.mp4 /\ keep
                 a == say(x)
      <3>1. x \in WindowType
        BY <1>2
      <3>2. m \in BOOLEAN /\ a \in {"no", "empty", "text"} /\ (keep => m = x.mp4)
            /\ (x.input => a = answer)
        BY <1>1, <3>1 DEF WindowType
      <3>3. f[w] = IF w \in r.wins THEN Drained(x, m, a) ELSE x
        BY <2>3
      <3> HIDE DEF x, m, a
      <3>4. /\ Drained(x, m, a) \in WindowType /\ Drained(x, m, a).caption = a
            /\ Drained(x, m, a).verdict = x.verdict
            /\ Drained(x, m, a).mp4 = m /\ Drained(x, m, a).input = FALSE
        BY ZenonT(60), <3>1, <3>2, DrainedWindow
      <3>5. /\ f[w] \in WindowType /\ (w \notin r.wins => f[w] = x)
            /\ w \in r.wins => /\ ~f[w].input /\ (keep => f[w].mp4 = x.mp4)
                               /\ x.input => f[w].caption = answer
                               /\ f[w].verdict = x.verdict
        BY <3>1, <3>2, <3>3, <3>4
      <3> QED BY <3>5 DEF x
    <2>5. f \in [Window -> WindowType]
      BY <2>2, <2>4, WindowsFunction
    <2>6. Back(r, clip'[c]) /\ clip'[c].wins = r.wins /\ clip'[c].win = f
      BY <1>2, <2>1, <2>5, BackField
    <2> QED BY <1>4, <2>4, <2>6 DEF r, keep
  <1> QED BY <1>3, <1>4

\* The captions of a service.
LEMMA AnsweredClip ==
  ASSUME TypeOK, CaptionGemini \/ CaptionOpenAI, NEW c \in Clip
  PROVE  /\ Back(clip[c], clip'[c])
         /\ clip'[c].wins = clip[c].wins
         /\ \A w \in Window :
              /\ clip'[c].win[w].input = clip[c].win[w].input
              /\ clip'[c].win[w].mp4 = clip[c].win[w].mp4
              /\ clip'[c].win[w].verdict = clip[c].win[w].verdict
              /\ (c \in passing /\ w \in clip[c].wins /\ clip'[c].win[w].caption = "no")
                   => clip'[c].errors # {}
  <1> DEFINE r == clip[c]
  <1>1. r \in ClipType /\ r.wins \in SUBSET Window /\ \A w \in Window : r.win[w] \in WindowType
    BY DEF TypeOK, ClipType
  <1>2. PICK ok : Answered(ok)
    BY DEF CaptionGemini, CaptionOpenAI
  <1> DEFINE E == {"caption" : w \in {v \in r.wins : <<c, v>> \notin ok}}
             f == [w \in Window |-> IF <<c, w>> \in ok THEN Captioned(r.win[w]) ELSE r.win[w]]
  <1>3. clip'[c] = IF c \in passing THEN Excused(r, f, E) ELSE r
    BY <1>2 DEF Answered, Over, Excused, Captioned
  <1>4. f = [w \in Window |-> f[w]]
    OBVIOUS
  <1>5. \A w \in Window : f[w] = IF <<c, w>> \in ok THEN Captioned(r.win[w]) ELSE r.win[w]
    OBVIOUS
  <1>6. E \in Excuses /\ \A w \in r.wins : <<c, w>> \notin ok => "caption" \in E
    BY DEF Excuses, Marks
  <1> HIDE DEF E, f, r
  <1>7. ASSUME NEW w \in Window
        PROVE  /\ f[w] \in WindowType /\ f[w].input = r.win[w].input /\ f[w].mp4 = r.win[w].mp4
               /\ f[w].verdict = r.win[w].verdict
               /\ <<c, w>> \in ok => f[w].caption = "text"
    BY <1>1, <1>5, WindowField
  <1>8. f \in [Window -> WindowType]
    BY <1>4, <1>7, WindowsFunction
  <1>9. /\ Back(r, Excused(r, f, E)) /\ Excused(r, f, E).wins = r.wins
        /\ Excused(r, f, E).win = f /\ Excused(r, f, E).errors = r.errors \cup E
    BY <1>1, <1>6, <1>8, ExcusedClip
  <1>10. Back(r, r)
    BY <1>1, BackField
  <1>11. CASE c \in passing
    <2>1. \A w \in Window : w \in r.wins /\ f[w].caption = "no" => r.errors \cup E # {}
      BY <1>6, <1>7
    <2> QED BY <1>3, <1>7, <1>9, <1>11, <2>1 DEF r
  <1>12. CASE c \notin passing
    BY <1>3, <1>10, <1>12 DEF r
  <1> QED BY <1>11, <1>12

\* The verdicts of a judge.
LEMMA JudgeClip ==
  ASSUME TypeOK, NEW k \in Kinds, Judge(k), NEW c \in Clip
  PROVE  /\ Back(clip[c], clip'[c])
         /\ clip'[c].wins = clip[c].wins
         /\ \A w \in Window :
              /\ clip'[c].win[w].input = clip[c].win[w].input
              /\ clip'[c].win[w].mp4 = clip[c].win[w].mp4
              /\ clip'[c].win[w].caption = clip[c].win[w].caption
              /\ \A j \in Kinds \ {k} : clip'[c].win[w].verdict[j] = clip[c].win[w].verdict[j]
              /\ (c \in passing /\ w \in clip[c].wins) =>
                   IF clip[c].win[w].caption = "text" /\ clip[c].win[w].verdict[k] = "no"
                   THEN clip'[c].win[w].verdict[k] # "no"
                   ELSE clip'[c].win[w].verdict[k] = clip[c].win[w].verdict[k]
  <1> DEFINE r == clip[c]
  <1>1. r \in ClipType /\ r.wins \in SUBSET Window /\ \A w \in Window : r.win[w] \in WindowType
    BY DEF TypeOK, ClipType
  <1>2. PICK sure :
          clip'[c] = IF c \in passing
                     THEN [r EXCEPT !.win = [w \in Window |->
                             IF w \in r.wins
                             THEN [r.win[w] EXCEPT !.verdict[k] =
                                     IF <<c, w>> \notin Judged(k) THEN @
                                     ELSE IF <<c, w>> \in sure THEN "verdict" ELSE "none"]
                             ELSE @[w]]]
                     ELSE r
    BY DEF Judge, OverWindows, Over
  <1> DEFINE say(w) == IF <<c, w>> \notin Judged(k) THEN r.win[w].verdict[k]
                       ELSE IF <<c, w>> \in sure THEN "verdict" ELSE "none"
             f == [w \in Window |-> IF w \in r.wins
                                    THEN [r.win[w] EXCEPT !.verdict[k] = say(w)]
                                    ELSE r.win[w]]
  <1>3. clip'[c] = IF c \in passing THEN Rewritten(r, f) ELSE r
    BY <1>2 DEF Rewritten
  <1>4. f = [w \in Window |-> f[w]]
    OBVIOUS
  <1>5. ASSUME NEW w \in Window
        PROVE  /\ f[w] \in WindowType /\ f[w].input = r.win[w].input /\ f[w].mp4 = r.win[w].mp4
               /\ f[w].caption = r.win[w].caption
               /\ \A j \in Kinds \ {k} : f[w].verdict[j] = r.win[w].verdict[j]
               /\ w \in r.wins => f[w].verdict[k] = say(w)
    <2> DEFINE x == r.win[w]
               a == say(w)
               y == [x EXCEPT !.verdict[k] = a]
    <2>1. x \in WindowType /\ a \in {"no", "none", "verdict"}
      BY <1>1 DEF WindowType
    <2>2. f[w] = IF w \in r.wins THEN y ELSE x
      OBVIOUS
    <2> HIDE DEF x, a, f
    <2>3. /\ y \in WindowType /\ y.input = x.input /\ y.mp4 = x.mp4 /\ y.caption = x.caption
          /\ (\A j \in Kinds \ {k} : y.verdict[j] = x.verdict[j]) /\ y.verdict[k] = a
      BY <2>1 DEF WindowType
    <2> HIDE DEF y
    <2>4. /\ f[w] \in WindowType /\ f[w].input = x.input /\ f[w].mp4 = x.mp4
          /\ f[w].caption = x.caption
          /\ \A j \in Kinds \ {k} : f[w].verdict[j] = x.verdict[j]
          /\ w \in r.wins => f[w].verdict[k] = a
      BY <2>1, <2>2, <2>3
    <2> QED BY <2>4 DEF x, a
  <1>6. f \in [Window -> WindowType]
    <2> HIDE DEF f
    <2> QED BY <1>4, <1>5, WindowsFunction
  <1>7. ASSUME c \in passing, NEW w \in Window, w \in r.wins
        PROVE  IF r.win[w].caption = "text" /\ r.win[w].verdict[k] = "no"
               THEN say(w) # "no" ELSE say(w) = r.win[w].verdict[k]
    BY <1>7 DEF Judged, Slots
  <1> HIDE DEF r, f, say
  <1>8. /\ Back(r, Rewritten(r, f)) /\ Rewritten(r, f).wins = r.wins /\ Rewritten(r, f).win = f
        /\ Back(r, r)
    BY <1>1, <1>6, BackField
  <1>9. CASE c \in passing
    BY <1>3, <1>5, <1>7, <1>8, <1>9 DEF r
  <1>10. CASE c \notin passing
    BY <1>3, <1>8, <1>10 DEF r
  <1> QED BY <1>9, <1>10

-----------------------------------------------------------------------------
(* Types, and who moves clips.                                             *)

\* The stage each action takes the task through.
LEMMA Entered ==
  /\ (Transcode => Take("transcode", FALSE)) /\ (MotionDecode => Take("motion_decode", FALSE))
  /\ (MotionFilter => Take("motion_filter", FALSE)) /\ (FrameExtraction => Take("frame_extraction", FALSE))
  /\ (Aesthetic => Take("aesthetic", FALSE)) /\ (QwenPrep => Take("qwen_prep", FALSE))
  /\ (Classifier => Take("classifier", FALSE)) /\ (Semantic => Take("semantic", FALSE))
  /\ (EmbedInternVideo2 => Take("embed", FALSE)) /\ (EmbedCosmosEmbed1 => Take("embed", FALSE))
  /\ (EmbedCRadio => Take("embed", FALSE)) /\ (EmbedOpenAI => Take("embed", FALSE))
  /\ (Gemma4Direct => Take("gemma4", FALSE)) /\ (CaptionPrep => Take("caption_prep", FALSE))
  /\ (CaptionVllm => Take("caption", FALSE)) /\ (CaptionGemini => Take("caption", FALSE))
  /\ (CaptionOpenAI => Take("caption", FALSE)) /\ (Enhance => Take("enhance", FALSE))
  /\ (T5 => Take("t5", FALSE))
  <1>1. /\ (Transcode => Take("transcode", FALSE)) /\ (MotionDecode => Take("motion_decode", FALSE))
        /\ (MotionFilter => Take("motion_filter", FALSE)) /\ (FrameExtraction => Take("frame_extraction", FALSE))
        /\ (Aesthetic => Take("aesthetic", FALSE)) /\ (QwenPrep => Take("qwen_prep", FALSE))
    BY DEF Transcode, MotionDecode, MotionFilter, FrameExtraction, Aesthetic, QwenPrep, Enter, EnterUnless
  <1>2. (Classifier => Take("classifier", FALSE)) /\ (Semantic => Take("semantic", FALSE))
    BY DEF Classifier, Semantic, Qwen, Enter, EnterUnless
  <1>3. /\ (EmbedInternVideo2 => Take("embed", FALSE)) /\ (EmbedCosmosEmbed1 => Take("embed", FALSE))
        /\ (EmbedCRadio => Take("embed", FALSE)) /\ (EmbedOpenAI => Take("embed", FALSE))
    BY DEF EmbedInternVideo2, EmbedCosmosEmbed1, EmbedCRadio, EmbedOpenAI, Embed, Enter, EnterUnless
  <1>4. (Gemma4Direct => Take("gemma4", FALSE)) /\ (CaptionPrep => Take("caption_prep", FALSE))
    BY DEF Gemma4Direct, CaptionPrep, Enter, EnterUnless
  <1>5. /\ (CaptionVllm => Take("caption", FALSE)) /\ (CaptionGemini => Take("caption", FALSE))
        /\ (CaptionOpenAI => Take("caption", FALSE)) /\ (Enhance => Take("enhance", FALSE)) /\ (T5 => Take("t5", FALSE))
    BY DEF CaptionVllm, CaptionGemini, CaptionOpenAI, Enhance, T5, Enter, EnterUnless
  <1> QED BY <1>1, <1>2, <1>3, <1>4, <1>5

\* The judges and the stages that may raise take it through theirs.
LEMMA EnteredRaising ==
  /\ \A k \in Kinds : Judge(k) => Take(JudgeStage(k), FALSE)
  /\ EmbedFrames => Take("embed_frames", CRadioBreaks)
  /\ Preview => \E r \in BOOLEAN : Take("preview", r)
  /\ Output => \E r \in BOOLEAN : Take("output", r)
  <1>1. \A k \in Kinds : Judge(k) => Take(JudgeStage(k), FALSE)
    BY DEF Judge, Enter, EnterUnless
  <1>2. EmbedFrames => Take("embed_frames", CRadioBreaks)
    BY DEF EmbedFrames, Enter, EnterUnless
  <1>3. ASSUME Preview PROVE \E r \in BOOLEAN : Take("preview", r)
    <2> DEFINE b == \E s \in Slots(passing) : ~clip[s[1]].win[s[2]].mp4
    <2>1. Take("preview", b) /\ b \in BOOLEAN
      BY <1>3 DEF Preview, Enter, EnterUnless
    <2> HIDE DEF b
    <2> QED BY <2>1
  <1>4. ASSUME Output PROVE \E r \in BOOLEAN : Take("output", r)
    <2> DEFINE b == \E s \in Slots(passing \cup filtered) : clip[s[1]].win[s[2]].input
    <2>1. Take("output", b) /\ b \in BOOLEAN
      BY <1>4 DEF Output, Enter, EnterUnless
    <2> HIDE DEF b
    <2> QED BY <2>1
  <1> QED BY <1>1, <1>2, <1>3, <1>4

\* The stages in four groups.
LEMMA Groups4 == Work <=> FrontStage \/ QwenStage \/ WindowStage \/ Output
  BY DEF Work, FrontStage, QwenStage, WindowStage

\* The captioning stages and those behind them leave the lists of clips alone
\* and touch only the clips of video.clips.
LEMMA WindowEffect ==
  ASSUME TypeOK, WindowStage
  PROVE  NoneMoved /\ \A c \in Clip : Back(clip[c], clip'[c])
  <1>1. CASE CaptionPrep
    BY <1>1, CaptionPrepClip DEF CaptionPrep
  <1>2. CASE Gemma4Direct
    BY <1>2, Gemma4Clip DEF Gemma4Direct
  <1>3. CASE Preview \/ Enhance \/ T5
    BY <1>3, QuietClip DEF Preview, Enhance, T5
  <1>4. CASE CaptionVllm
    <2>1. \A c \in Clip : Back(clip[c], clip'[c])
      BY <1>4, CaptionVllmClip
    <2> QED BY <1>4, <2>1 DEF CaptionVllm
  <1>5. CASE CaptionGemini \/ CaptionOpenAI
    BY <1>5, AnsweredClip DEF CaptionGemini, CaptionOpenAI
  <1>6. CASE \E k \in Kinds : Judge(k)
    BY <1>6, JudgeClip DEF Judge
  <1> QED BY <1>1, <1>2, <1>3, <1>4, <1>5, <1>6 DEF WindowStage

\* The Qwen stages, on every clip.
LEMMA QwenEffect ==
  ASSUME TypeOK, QwenStage, NEW c \in Clip
  PROVE  Middle(clip[c], clip'[c])
  <1>1. CASE QwenPrep
    BY <1>1, QwenPrepClip
  <1>2. ASSUME NEW key \in QwenKeys, NEW judged, Qwen(key, judged)
        PROVE  Middle(clip[c], clip'[c])
    BY <1>2, QwenRecord, QwenClip
  <1>3. CASE Classifier
    BY <1>2, <1>3 DEF Classifier, QwenKeys
  <1>4. CASE Semantic
    BY <1>2, <1>4 DEF Semantic, QwenKeys
  <1> QED BY <1>1, <1>3, <1>4 DEF QwenStage

\* Only the local captioner notes anything on the video.
LEMMA VideoErrorsStay ==
  ASSUME TypeOK, Work
  PROVE  /\ videoErrors' \subseteq {"captioning"}
         /\ ~CaptionVllm => videoErrors' = videoErrors
  <1>1. CASE FrontStage
    BY <1>1 DEF FrontStage, Transcode, MotionDecode, MotionFilter, FrameExtraction, Aesthetic,
         EmbedFrames, EmbedInternVideo2, EmbedCosmosEmbed1, EmbedCRadio, EmbedOpenAI, Embed,
         Enter, EnterUnless, TypeOK
  <1>2. CASE QwenStage
    BY <1>2 DEF QwenStage, QwenPrep, Classifier, Semantic, Qwen, Enter, EnterUnless, TypeOK
  <1>3. CASE WindowStage /\ ~CaptionVllm
    BY <1>3 DEF WindowStage, CaptionPrep, Gemma4Direct, Preview, CaptionGemini, CaptionOpenAI,
         Enhance, Judge, T5, Enter, EnterUnless, TypeOK
  <1>4. CASE CaptionVllm
    <2>1. PICK answer \in {"text", "empty"} : videoErrors' = CaptionErrors(answer)
      BY <1>4, CaptionVllmClip
    <2> QED BY <1>4, <2>1 DEF CaptionErrors, TypeOK
  <1>5. CASE Output
    BY <1>5 DEF Output, EnterUnless, TypeOK
  <1> QED BY <1>1, <1>2, <1>3, <1>4, <1>5, Groups4

\* Every stage keeps a clip a clip, its errors, and the configuration.
LEMMA EveryStage ==
  ASSUME TypeOK, Work
  PROVE  /\ cfg' = cfg /\ clip' \in [Clip -> ClipType]
         /\ \A c \in Clip : clip[c].errors \subseteq clip'[c].errors
  <1>1. cfg' = cfg
    <2>1. \A s, r : Take(s, r) => cfg' = cfg
      BY DEF Take
    <2>2. \A s : Take(s, FALSE) => cfg' = cfg
      BY <2>1
    <2>3. CASE FrontStage \/ QwenStage
      <3>1. EmbedFrames => cfg' = cfg
        BY <2>1, EnteredRaising
      <3>2. FrontStage /\ ~EmbedFrames => cfg' = cfg
        BY <2>2, Entered DEF FrontStage
      <3>3. QwenStage => cfg' = cfg
        BY <2>2, Entered DEF QwenStage
      <3> QED BY <2>3, <3>1, <3>2, <3>3
    <2>4. CASE WindowStage \/ Output
      <3>1. (\E k \in Kinds : Judge(k)) => cfg' = cfg
        BY <2>2, EnteredRaising
      <3>2. Preview \/ Output => cfg' = cfg
        BY <2>1, EnteredRaising
      <3> QED BY <2>2, <2>4, <3>1, <3>2, Entered DEF WindowStage
    <2> QED BY <2>3, <2>4, Groups4
  <1>2. clip' = [c \in Clip |-> clip'[c]]
    <2>1. CASE FrontStage
      BY <2>1 DEF FrontStage, Transcode, MotionDecode, MotionFilter, FrameExtraction, Aesthetic,
           EmbedFrames, EmbedInternVideo2, EmbedCosmosEmbed1, EmbedCRadio, EmbedOpenAI, Embed, Over
    <2>2. CASE QwenStage
      BY ZenonT(60), <2>2 DEF QwenStage, QwenPrep, Classifier, Semantic, Qwen, Over
    <2>3. CASE CaptionPrep \/ Gemma4Direct \/ CaptionGemini \/ CaptionOpenAI \/ Enhance
      BY ZenonT(60), <2>3 DEF CaptionPrep, Gemma4Direct, CaptionGemini, CaptionOpenAI, Enhance, Answered, Over
    <2>4. CASE Preview \/ CaptionVllm \/ T5 \/ \E k \in Kinds : Judge(k)
      BY <2>4 DEF Preview, CaptionVllm, T5, Judge, OverWindows, Over
    <2>5. CASE Output
      BY <2>5 DEF Output, TypeOK
    <2> QED BY SMTT(40), <2>1, <2>2, <2>3, <2>4, <2>5, Groups4 DEF WindowStage
  <1>3. ASSUME NEW c \in Clip
        PROVE  clip'[c] \in ClipType /\ clip[c].errors \subseteq clip'[c].errors
    <2>1. CASE FrontStage
      BY <2>1, FrontEffect DEF Front
    <2>2. CASE QwenStage
      BY <2>2, QwenEffect DEF Middle
    <2>3. CASE WindowStage
      BY <2>3, WindowEffect DEF Back
    <2>4. CASE Output
      BY <2>4 DEF Output, TypeOK
    <2> QED BY <2>1, <2>2, <2>3, <2>4, Groups4
  <1>4. clip' \in [Clip -> ClipType]
    <2> DEFINE f == clip'
    <2>1. \A c \in Clip : f[c] \in ClipType
      BY <1>3
    <2> HIDE DEF f
    <2>2. [c \in Clip |-> f[c]] \in [Clip -> ClipType]
      BY <2>1
    <2> QED BY <1>2, <2>2 DEF f
  <1> QED BY <1>1, <1>3, <1>4

\* Moving clips keeps the books.
LEMMA MoveCounted ==
  ASSUME TypeOK, ClipsCounted, NEW out \in SUBSET passing, NEW key \in Reasons,
         MoveOut(out, key),
         \A c \in Clip \ out : clip'[c].rejectedBy = clip[c].rejectedBy,
         \A c \in out : clip'[c].rejectedBy = IF key \in QwenKeys THEN key
                                              ELSE clip[c].rejectedBy,
         "output" \in Left'
  PROVE  /\ passing' \in SUBSET Clip /\ filtered' \in SUBSET Clip
         /\ stats' \in [Reasons \cup {"passed"} -> Nat]
         /\ ClipsCounted'
  <1>1. /\ passing' = passing \ out /\ filtered' = filtered \cup out
        /\ stats' = [stats EXCEPT ![key] = @ + Cardinality(out)]
        /\ passing \in SUBSET Clip /\ filtered \in SUBSET Clip
        /\ stats \in [Reasons \cup {"passed"} -> Nat]
    BY DEF MoveOut, TypeOK
  <1>2. /\ passing \cap filtered = {} /\ passing \cup filtered = Clip
        /\ FilteredCount = Cardinality(filtered)
        /\ \A k \in QwenKeys : stats[k] = Cardinality({c \in filtered : clip[c].rejectedBy = k})
        /\ \A c \in passing : clip[c].rejectedBy = "no"
    BY DEF ClipsCounted
  <1>3. /\ IsFiniteSet(out) /\ Cardinality(out) \in Nat
        /\ \A S \in SUBSET filtered : IsFiniteSet(S) /\ Cardinality(S) \in Nat
    <2>1. IsFiniteSet(Clip)
      BY ChainAssumption
    <2>2. \A S \in SUBSET Clip : IsFiniteSet(S)
      BY <2>1, FS_Subset
    <2> QED BY <1>1, <2>2, FS_CardinalityType
  <1>4. ASSUME NEW S \in SUBSET filtered
        PROVE  Cardinality(S \cup out) = Cardinality(S) + Cardinality(out)
    <2>1. S \cap out = {}
      BY <1>1, <1>2
    <2>2. /\ Cardinality(S \cup out) = Cardinality(S) + Cardinality(out) - Cardinality(S \cap out)
      BY <1>3, FS_Union
    <2> QED BY <1>3, <2>1, <2>2, FS_EmptySet
  <1>5. stats' \in [Reasons \cup {"passed"} -> Nat]
    BY <1>1, <1>3
  <1>6. \A k \in Reasons : stats'[k] = IF k = key THEN stats[k] + Cardinality(out) ELSE stats[k]
    BY <1>1
  <1>7. FilteredCount' = Cardinality(filtered')
    <2>1. Cardinality(filtered') = FilteredCount + Cardinality(out)
      BY <1>1, <1>2, <1>4
    <2>2. {"motion", "aesthetic", "classifier", "semantic"} = Reasons
      BY DEF Reasons
    <2>3. \A k \in Reasons : stats[k] \in Nat
      BY <1>1
    <2>4. /\ key = "motion" \/ key = "aesthetic" \/ key = "classifier" \/ key = "semantic"
          /\ stats["motion"] \in Nat /\ stats["aesthetic"] \in Nat
          /\ stats["classifier"] \in Nat /\ stats["semantic"] \in Nat
      BY <2>2, <2>3
    <2>5. FilteredCount' = FilteredCount + Cardinality(out)
      BY <1>3, <1>6, <2>2, <2>4 DEF FilteredCount
    <2> QED BY <2>1, <2>5
  <1>8. ASSUME NEW k \in QwenKeys
        PROVE  stats'[k] = Cardinality({c \in filtered' : clip'[c].rejectedBy = k})
    <2> DEFINE S == {c \in filtered : clip[c].rejectedBy = k}
               T == {c \in filtered' : clip'[c].rejectedBy = k}
    <2>1. k # "no" /\ k \in Reasons
      BY DEF QwenKeys, Reasons
    <2>2. CASE k = key
      <3>1. T = S \cup out
        BY <1>1, <1>2, <2>2
      <3>2. S \in SUBSET filtered
        OBVIOUS
      <3>3. stats[k] = Cardinality(S) /\ stats'[k] = stats[k] + Cardinality(out)
        BY <1>2, <1>6, <2>1, <2>2
      <3> HIDE DEF S, T
      <3>4. stats'[k] = Cardinality(T)
        BY <1>4, <3>1, <3>2, <3>3
      <3> QED BY <3>4 DEF T
    <2>3. CASE k # key
      <3>1. T = S
        BY <1>1, <1>2, <2>1, <2>3
      <3> QED BY <1>2, <1>6, <2>1, <2>3, <3>1
    <2> QED BY <2>2, <2>3
  <1>9. passing' \cap filtered' = {} /\ passing' \cup filtered' = Clip
    BY <1>1, <1>2
  <1>10. \A c \in passing' : clip'[c].rejectedBy = "no"
    BY <1>1, <1>2
  <1> QED BY <1>1, <1>5, <1>7, <1>8, <1>9, <1>10 DEF ClipsCounted

\* Where each group of stages stands in the chain.
LEMMA Standing ==
  /\ FrontStage => \E s \in Stage, r \in BOOLEAN : Take(s, r) /\ Rank[s] <= 10
  /\ QwenStage => \E s \in Stage, r \in BOOLEAN : /\ Take(s, r)
                                                  /\ 6 <= Rank[s] /\ Rank[s] <= 8
  /\ WindowStage => \E s \in Stage, r \in BOOLEAN : /\ Take(s, r)
                                                    /\ 11 <= Rank[s] /\ Rank[s] <= 18
  /\ Output => \E r \in BOOLEAN : Take("output", r)
  <1>1. ASSUME FrontStage
        PROVE  \E s \in Stage, r \in BOOLEAN : Take(s, r) /\ Rank[s] <= 10
    <2>1. CASE EmbedFrames
      <3> DEFINE b == CRadioBreaks
      <3>1. Take("embed_frames", b)
        BY <2>1, EnteredRaising
      <3>2. b \in BOOLEAN
        BY DEF CRadioBreaks
      <3> HIDE DEF b
      <3> QED BY <3>1, <3>2, StageNames, Ranks
    <2>2. CASE FrontStage /\ ~EmbedFrames
      <3>1. \E s \in {"transcode", "motion_decode", "motion_filter", "frame_extraction",
                      "aesthetic", "embed"} : Take(s, FALSE)
        BY <2>2, Entered DEF FrontStage
      <3>2. \A s \in {"transcode", "motion_decode", "motion_filter", "frame_extraction",
                      "aesthetic", "embed"} : s \in Stage /\ Rank[s] <= 10
        BY StageNames, Ranks
      <3> QED BY <3>1, <3>2
    <2> QED BY <1>1, <2>1, <2>2
  <1>2. ASSUME QwenStage
        PROVE  \E s \in Stage, r \in BOOLEAN : Take(s, r) /\ 6 <= Rank[s] /\ Rank[s] <= 8
    <2>1. \E s \in {"qwen_prep", "classifier", "semantic"} : Take(s, FALSE)
      BY <1>2, Entered DEF QwenStage
    <2>2. \A s \in {"qwen_prep", "classifier", "semantic"} :
            s \in Stage /\ 6 <= Rank[s] /\ Rank[s] <= 8
      BY StageNames, Ranks
    <2> QED BY <2>1, <2>2
  <1>3. ASSUME WindowStage
        PROVE  \E s \in Stage, r \in BOOLEAN : Take(s, r) /\ 11 <= Rank[s] /\ Rank[s] <= 18
    <2>1. CASE Preview
      <3>1. "preview" \in Stage /\ 11 <= Rank["preview"] /\ Rank["preview"] <= 18
        BY StageNames, Ranks
      <3> QED BY <2>1, <3>1, EnteredRaising
    <2>2. CASE \E k \in Kinds : Judge(k)
      <3>1. PICK k \in Kinds : Take(JudgeStage(k), FALSE)
        BY <2>2, EnteredRaising
      <3>2. /\ JudgeStage(k) \in Stage
            /\ 11 <= Rank[JudgeStage(k)] /\ Rank[JudgeStage(k)] <= 18
        BY StageNames, Ranks DEF JudgeStage
      <3> QED BY <3>1, <3>2
    <2>3. CASE WindowStage /\ ~Preview /\ ~\E k \in Kinds : Judge(k)
      <3>1. \E s \in {"gemma4", "caption_prep", "caption", "enhance", "t5"} : Take(s, FALSE)
        BY <2>3, Entered DEF WindowStage
      <3>2. \A s \in {"gemma4", "caption_prep", "caption", "enhance", "t5"} :
              s \in Stage /\ 11 <= Rank[s] /\ Rank[s] <= 18
        BY StageNames, Ranks
      <3> QED BY <3>1, <3>2
    <2> QED BY <1>3, <2>1, <2>2, <2>3
  <1> QED BY <1>1, <1>2, <1>3, EnteredRaising

\* Until the writer's stage, it is still to come.
LEMMA OutputLast ==
  ASSUME TypeOK, TodoOrdered, NEW s \in Stage, NEW r, Take(s, r), Rank[s] <= 18
  PROVE  "output" \in Left'
  <1>1. "output" \in Present(cfg) /\ Rank["output"] = 19 /\ Rank[s] \in Nat
    BY ChainAssumption, PresentWhen, Ranks, RankType DEF TypeOK
  <1>2. Left' = {t \in Present(cfg) : Rank[s] < Rank[t]}
    BY AtStage
  <1> QED BY <1>1, <1>2

\* A stage that moves nobody keeps the books.
LEMMA NoneCounted ==
  ASSUME TypeOK, ClipsCounted, NoneMoved, "output" \in Left',
         \A c \in Clip : clip'[c].rejectedBy = clip[c].rejectedBy
  PROVE  ClipsCounted'
  <1>1. \A k \in QwenKeys :
          {c \in filtered' : clip'[c].rejectedBy = k} = {c \in filtered : clip[c].rejectedBy = k}
    BY DEF NoneMoved, TypeOK
  <1>2. \A c \in passing' : clip'[c].rejectedBy = "no"
    BY DEF NoneMoved, ClipsCounted, TypeOK
  <1>3. FilteredCount' = FilteredCount /\ filtered' = filtered /\ passing' = passing
        /\ stats' = stats
    BY DEF NoneMoved, FilteredCount
  <1> QED BY <1>1, <1>2, <1>3 DEF ClipsCounted

\* The stages keep their order, the variables their types and the filters their
\* books; no stage takes a clip back.
LEMMA StepCounted ==
  ASSUME TypeOK, TodoOrdered, ClipsCounted, Work
  PROVE  TypeOK' /\ TodoOrdered' /\ ClipsCounted' /\ passing' \subseteq passing
  <1> DEFINE Lists == /\ passing' \in SUBSET Clip /\ filtered' \in SUBSET Clip
                      /\ stats' \in [Reasons \cup {"passed"} -> Nat]
                      /\ passing' \subseteq passing
  <1>1. TodoOrdered'
    <2>1. \E s, r : Take(s, r)
      BY Standing, Groups4
    <2> QED BY <2>1, AtStage
  <1>2. NoneMoved => Lists
    BY DEF NoneMoved, TypeOK
  <1>3. CASE FrontStage
    <2>1. /\ "output" \in Left'
          /\ \A c \in Clip : clip'[c].rejectedBy = clip[c].rejectedBy
      <3>1. PICK s \in Stage, r \in BOOLEAN : Take(s, r) /\ Rank[s] <= 10
        BY <1>3, Standing
      <3>2. Rank[s] <= 18
        BY <3>1, RankType
      <3>3. "output" \in Left'
        BY <3>1, <3>2, OutputLast
      <3> QED BY <1>3, <3>3, FrontEffect DEF Front
    <2>2. ASSUME MotionFilter \/ Aesthetic
          PROVE  Lists /\ ClipsCounted'
      <3>1. PICK out \in SUBSET passing, key \in {"motion", "aesthetic"} : MoveOut(out, key)
        BY <2>2 DEF MotionFilter, Aesthetic
      <3>2. key \in Reasons /\ key \notin QwenKeys
        BY DEF Reasons, QwenKeys
      <3>3. \A c \in out : clip'[c].rejectedBy = IF key \in QwenKeys THEN key
                                                 ELSE clip[c].rejectedBy
        BY <2>1, <3>1, <3>2 DEF TypeOK
      <3>4. \A c \in Clip \ out : clip'[c].rejectedBy = clip[c].rejectedBy
        BY <2>1
      <3>5. passing' \subseteq passing
        BY <3>1 DEF MoveOut
      <3>6. "output" \in Left'
        BY <2>1
      <3>7. TypeOK /\ ClipsCounted /\ out \in SUBSET passing /\ key \in Reasons /\ MoveOut(out, key)
        BY <3>1, <3>2
      <3> HIDE DEF Lists
      <3>8. /\ passing' \in SUBSET Clip /\ filtered' \in SUBSET Clip
            /\ stats' \in [Reasons \cup {"passed"} -> Nat]
            /\ ClipsCounted'
        BY <3>3, <3>4, <3>6, <3>7, MoveCounted
      <3> QED BY <3>5, <3>8 DEF Lists
    <2>3. ASSUME ~(MotionFilter \/ Aesthetic)
          PROVE  NoneMoved
      BY <1>3, <2>3 DEF FrontStage, Transcode, MotionDecode, FrameExtraction, EmbedFrames,
           EmbedInternVideo2, EmbedCosmosEmbed1, EmbedCRadio, EmbedOpenAI, Embed
    <2>4. NoneMoved => ClipsCounted'
      BY <2>1, NoneCounted
    <2>5. Lists /\ ClipsCounted'
      BY <1>2, <2>2, <2>3, <2>4
    <2> HIDE DEF Lists
    <2> QED BY <1>1, <2>5, EveryStage, VideoErrorsStay DEF TypeOK, Lists
  <1>4. CASE QwenStage
    <2>1. "output" \in Left'
      <3>1. PICK s \in Stage, r \in BOOLEAN : Take(s, r) /\ 6 <= Rank[s] /\ Rank[s] <= 8
        BY <1>4, Standing
      <3>2. Rank[s] <= 18
        BY <3>1, RankType
      <3> QED BY <3>1, <3>2, OutputLast
    <2>2. CASE QwenPrep
      <3>1. NoneMoved /\ \A c \in Clip : clip'[c].rejectedBy = clip[c].rejectedBy
        BY <2>2, QwenPrepClip DEF QwenPrep
      <3> QED BY <1>1, <1>2, <2>1, <3>1, NoneCounted, EveryStage, VideoErrorsStay DEF TypeOK
    <2>3. ASSUME NEW key \in QwenKeys, NEW judged \in SUBSET passing, Qwen(key, judged)
          PROVE  Lists /\ ClipsCounted'
      <3>1. PICK bad \in SUBSET {c \in judged : key \in clip[c].inputs} :
              /\ MoveOut(QwenOut(key, bad), key)
              /\ clip' = [c \in Clip |->
                   QwenClear(IF c \in passing THEN QwenMark(clip[c], key, c \in bad)
                             ELSE clip[c], key)]
        BY <2>3 DEF Qwen
      <3> DEFINE out == QwenOut(key, bad)
      <3>2. out \in SUBSET passing /\ out = bad \cup {c \in passing : key \notin clip[c].inputs}
        BY <3>1 DEF QwenOut
      <3>3. key \in Reasons
        BY DEF QwenKeys, Reasons
      <3>4. ASSUME NEW c \in Clip
            PROVE  /\ c \notin passing => clip'[c].rejectedBy = clip[c].rejectedBy
                   /\ c \in passing =>
                        /\ (key \in clip[c].inputs /\ c \notin bad)
                             => clip'[c].rejectedBy = clip[c].rejectedBy
                        /\ (key \notin clip[c].inputs \/ c \in bad) => clip'[c].rejectedBy = key
        <4>1. clip'[c] = QwenClear(IF c \in passing THEN QwenMark(clip[c], key, c \in bad)
                                   ELSE clip[c], key)
          BY <3>1
        <4> QED BY <4>1, QwenClip
      <3>5. \A c \in Clip \ out : clip'[c].rejectedBy = clip[c].rejectedBy
        BY <3>2, <3>4
      <3>6. \A c \in out : clip'[c].rejectedBy = IF key \in QwenKeys THEN key
                                                 ELSE clip[c].rejectedBy
        BY <3>2, <3>4 DEF TypeOK
      <3>7. MoveOut(out, key)
        BY <3>1
      <3> HIDE DEF out
      <3>8. passing' \subseteq passing
        BY <3>7 DEF MoveOut
      <3> QED BY <2>1, <3>2, <3>3, <3>5, <3>6, <3>7, <3>8, MoveCounted
    <2>4. CASE Classifier \/ Semantic
      <3>1. \E key \in QwenKeys, judged \in SUBSET passing : Qwen(key, judged)
        BY <2>4 DEF Classifier, Semantic, QwenKeys
      <3>2. Lists /\ ClipsCounted'
        BY <2>3, <3>1
      <3> HIDE DEF Lists
      <3> QED BY <1>1, <3>2, EveryStage, VideoErrorsStay DEF TypeOK, Lists
    <2> QED BY <1>4, <2>2, <2>4 DEF QwenStage
  <1>5. CASE WindowStage
    <2>1. "output" \in Left'
      <3>1. PICK s \in Stage, r \in BOOLEAN : Take(s, r) /\ 11 <= Rank[s] /\ Rank[s] <= 18
        BY <1>5, Standing
      <3> QED BY <3>1, OutputLast
    <2>2. NoneMoved /\ \A c \in Clip : clip'[c].rejectedBy = clip[c].rejectedBy
      BY <1>5, WindowEffect DEF Back
    <2>3. Lists /\ ClipsCounted'
      BY <1>2, <2>1, <2>2, NoneCounted
    <2> HIDE DEF Lists
    <2> QED BY <1>1, <2>3, EveryStage, VideoErrorsStay DEF TypeOK, Lists
  <1>6. CASE Output
    <2>1. /\ stats' = [stats EXCEPT !["passed"] = Cardinality(passing)]
          /\ clip' = clip /\ passing' = passing /\ filtered' = filtered
      BY <1>6 DEF Output
    <2>2. Cardinality(passing) \in Nat
      BY ChainAssumption, FS_Subset, FS_CardinalityType DEF TypeOK
    <2>3. /\ stats' \in [Reasons \cup {"passed"} -> Nat] /\ stats'["passed"] = Cardinality(passing)
          /\ \A k \in Reasons : stats'[k] = stats[k]
      BY <2>1, <2>2 DEF TypeOK, Reasons
    <2>4. /\ stats'["motion"] = stats["motion"] /\ stats'["aesthetic"] = stats["aesthetic"]
          /\ stats'["classifier"] = stats["classifier"] /\ stats'["semantic"] = stats["semantic"]
      BY <2>3 DEF Reasons
    <2>5. FilteredCount' = FilteredCount /\ \A k \in QwenKeys : stats'[k] = stats[k]
      BY <2>4 DEF FilteredCount, QwenKeys
    <2>6. ClipsCounted'
      BY <2>1, <2>3, <2>5 DEF ClipsCounted
    <2>7. Lists
      BY <2>1, <2>3 DEF TypeOK
    <2> HIDE DEF Lists
    <2> QED BY <1>1, <2>6, <2>7, EveryStage, VideoErrorsStay DEF TypeOK, Lists
  <1> QED BY <1>3, <1>4, <1>5, <1>6, Groups4

-----------------------------------------------------------------------------
(* The Qwen inputs, the frames and the embeddings.                         *)

\* What some stage enters, every stage finds: the others of the chain that are
\* left are the same.
LEMMA OthersStay ==
  ASSUME TypeOK, TodoOrdered, NEW s, NEW r, Take(s, r)
  PROVE  \A t : t # s => (t \in Left <=> t \in Left')
  BY AtStage

\* The stages not left when a stage is entered, and those that are.
LEMMA AheadAndBehind ==
  ASSUME TypeOK, TodoOrdered, NEW s, NEW r, Take(s, r), NEW t \in Present(cfg)
  PROVE  /\ t \in Left <=> Rank[s] <= Rank[t]
         /\ t \in Left' <=> Rank[s] < Rank[t]
  BY AtStage

\* The Qwen stages find their inputs.
LEMMA StepQwenInputs ==
  ASSUME TypeOK, TodoOrdered, ClipsCounted, QwenInputsThere, Work
  PROVE  QwenInputsThere'
  <1>1. passing' \subseteq passing /\ cfg' = cfg
    BY StepCounted, EveryStage
  <1>2. Left' \subseteq Left
    BY Standing, Groups4, AtStage
  <1>3. /\ \A c \in Clip : "qwen" \in clip[c].errors => c \notin passing /\ ~clip[c].prepared
        /\ \A c \in passing, k \in QwenKeys : (k \in Left /\ clip[c].prepared) => k \in clip[c].inputs
    BY DEF QwenInputsThere
  <1>4. passing \subseteq Clip
    BY DEF TypeOK
  <1>5. ASSUME \A c \in Clip : /\ clip'[c].prepared = clip[c].prepared
                               /\ clip'[c].inputs = clip[c].inputs
                               /\ "qwen" \in clip'[c].errors => "qwen" \in clip[c].errors
        PROVE  QwenInputsThere'
    BY <1>1, <1>2, <1>3, <1>4, <1>5 DEF QwenInputsThere
  <1>6. CASE FrontStage
    BY <1>5, <1>6, FrontEffect DEF Front
  <1>7. CASE WindowStage
    BY <1>5, <1>7, WindowEffect DEF Back
  <1>8. CASE Output
    BY <1>5, <1>8 DEF Output
  <1>9. CASE QwenPrep
    <2>1. ASSUME NEW c \in Clip, "qwen" \in clip'[c].errors
          PROVE  c \notin passing' /\ ~clip'[c].prepared
      <3>1. c \notin passing /\ ~clip[c].prepared
        BY <1>3, <1>9, <2>1, QwenPrepClip
      <3>2. clip'[c] = clip[c]
        BY <1>9, <3>1, QwenPrepClip
      <3> QED BY <1>1, <3>1, <3>2
    <2>2. ASSUME NEW c \in passing', NEW k \in QwenKeys, k \in Left', clip'[c].prepared
          PROVE  k \in clip'[c].inputs
      <3>1. c \in Clip /\ c \in passing /\ k \in Left
        BY <1>1, <1>2, <1>4, <2>2
      <3>2. CASE clip'[c].inputs = QwenInputs(cfg)
        <4>1. k \in Present(cfg)
          BY <3>1, <1>9, Entered, AtStage
        <4>2. k \in QwenInputs(cfg)
          BY <4>1, ChainAssumption, PresentWhen DEF TypeOK, QwenInputs, QwenKeys
        <4> QED BY <3>2, <4>2
      <3>3. CASE clip'[c].prepared = clip[c].prepared /\ clip'[c].inputs = clip[c].inputs
        BY <1>3, <2>2, <3>1, <3>3
      <3> QED BY <1>9, <3>1, <3>2, <3>3, QwenPrepClip
    <2> QED BY <2>1, <2>2 DEF QwenInputsThere
  <1>10. ASSUME NEW key \in QwenKeys, NEW judged \in SUBSET passing, Qwen(key, judged)
         PROVE  QwenInputsThere'
    <2>1. Take(key, FALSE)
      BY <1>10 DEF Qwen, Enter, EnterUnless
    <2>2. key \in Left /\ key \notin Left'
      BY <2>1, AtStage
    <2>3. ASSUME NEW c \in Clip
          PROVE  /\ clip'[c].prepared = clip[c].prepared
                 /\ ~ClearsInputs(key) => clip'[c].inputs = clip[c].inputs
                 /\ c \notin passing => clip'[c].errors = clip[c].errors
                 /\ (c \in passing /\ key \in clip[c].inputs) => clip'[c].errors = clip[c].errors
                 /\ (c \in passing /\ key \notin clip[c].inputs) => c \notin passing'
      <3>1. PICK bad \in SUBSET judged :
              /\ MoveOut(QwenOut(key, bad), key)
              /\ clip'[c] = QwenClear(IF c \in passing THEN QwenMark(clip[c], key, c \in bad)
                                      ELSE clip[c], key)
        BY <1>10, QwenRecord
      <3>2. (c \in passing /\ key \notin clip[c].inputs) => c \notin passing'
        BY <3>1 DEF MoveOut, QwenOut
      <3>3. /\ clip'[c].prepared = clip[c].prepared
            /\ ~ClearsInputs(key) => clip'[c].inputs = clip[c].inputs
            /\ c \notin passing => clip'[c].errors = clip[c].errors
            /\ (c \in passing /\ key \in clip[c].inputs) => clip'[c].errors = clip[c].errors
        BY <3>1, QwenClip
      <3> QED BY <3>2, <3>3
    <2>4. ASSUME NEW c \in Clip, "qwen" \in clip'[c].errors
          PROVE  c \notin passing' /\ ~clip'[c].prepared
      <3>1. CASE c \in passing /\ key \notin clip[c].inputs
        BY <1>3, <2>2, <2>3, <3>1
      <3>2. CASE ~(c \in passing /\ key \notin clip[c].inputs)
        BY <1>1, <1>3, <2>3, <2>4, <3>2
      <3> QED BY <3>1, <3>2
    <2>5. ASSUME NEW c \in passing', NEW k \in QwenKeys, k \in Left', clip'[c].prepared
          PROVE  k \in clip'[c].inputs
      <3>1. c \in Clip /\ c \in passing /\ k \in Left /\ k # key
        BY <1>1, <1>2, <1>4, <2>2, <2>5
      <3>2. k \in Present(cfg) /\ Rank[key] < Rank[k]
        BY <2>1, <2>5, AtStage
      <3>3. key = "classifier" /\ k = "semantic"
        BY <3>1, <3>2, Ranks DEF QwenKeys
      <3>4. cfg.semantic # "disable"
        BY <3>2, <3>3, ChainAssumption, PresentWhen DEF TypeOK
      <3>5. clip'[c].inputs = clip[c].inputs /\ clip[c].prepared
        BY <2>3, <2>5, <3>1, <3>3, <3>4 DEF ClearsInputs
      <3> QED BY <1>3, <3>1, <3>5
    <2> QED BY <2>4, <2>5 DEF QwenInputsThere
  <1>11. CASE Classifier \/ Semantic
    <2>1. \E key \in QwenKeys, judged \in SUBSET passing : Qwen(key, judged)
      BY <1>11 DEF Classifier, Semantic, QwenKeys
    <2> QED BY <1>10, <2>1
  <1> QED BY <1>6, <1>7, <1>8, <1>9, <1>11, Groups4 DEF QwenStage

\* What is still wanted of the frames, in the stages left.
LEMMA WantedIs ==
  /\ Wanted = (IF "aesthetic" \in Left THEN {1} ELSE {})
                \cup (IF "embed_frames" \in Left \/ (cfg.embedding = "openai" /\ "embed" \in Left)
                      THEN {2} ELSE {})
  /\ Wanted' = (IF "aesthetic" \in Left' THEN {1} ELSE {})
                 \cup (IF "embed_frames" \in Left' \/ (cfg'.embedding = "openai" /\ "embed" \in Left')
                       THEN {2} ELSE {})
  <1>1. \A s : (StillToCome(s) <=> s \in Left) /\ (StillToCome(s)' <=> s \in Left')
    BY DEF StillToCome, Left, Elems
  <1>2. /\ StillToCome("aesthetic") <=> "aesthetic" \in Left
        /\ StillToCome("embed_frames") <=> "embed_frames" \in Left
        /\ StillToCome("embed") <=> "embed" \in Left
        /\ StillToCome("aesthetic")' <=> "aesthetic" \in Left'
        /\ StillToCome("embed_frames")' <=> "embed_frames" \in Left'
        /\ StillToCome("embed")' <=> "embed" \in Left'
    BY DEF StillToCome, Left, Elems
  <1> QED BY <1>2 DEF Wanted

\* The frames are held for those who still read them.
LEMMA StepFrames ==
  ASSUME TypeOK, TodoOrdered, ClipsCounted, FramesHeld, Work
  PROVE  FramesHeld'
  <1> SUFFICES ASSUME FramesUsed(cfg'), NEW c \in passing'
               PROVE  IF "frame_extraction" \in Left' THEN clip'[c].frames = {}
                      ELSE \/ clip'[c].enc /\ clip'[c].frames = Wanted'
                           \/ ~clip'[c].enc /\ clip'[c].frames = {}
                           \/ "embedding" \in clip'[c].errors
    BY DEF FramesHeld
  <1> DEFINE r == clip[c]
             q == clip'[c]
  <1>1. /\ c \in passing /\ c \in Clip /\ cfg' = cfg /\ r.errors \subseteq q.errors
        /\ r \in ClipType
    BY StepCounted, EveryStage DEF TypeOK
  <1>2. IF "frame_extraction" \in Left THEN r.frames = {}
        ELSE \/ r.enc /\ r.frames = Wanted
             \/ ~r.enc /\ r.frames = {}
             \/ "embedding" \in r.errors
    BY <1>1 DEF FramesHeld
  <1>3. cfg \in Config /\ "frame_extraction" \in Present(cfg)
    BY <1>1, ChainAssumption, PresentWhen DEF TypeOK
  <1>4. ASSUME NEW s, NEW e, Take(s, e),
               s \notin {"frame_extraction", "aesthetic", "embed_frames", "embed"},
               q.frames = r.frames,
               "frame_extraction" \in Left \/ q.enc = r.enc
        PROVE  IF "frame_extraction" \in Left' THEN q.frames = {}
               ELSE \/ q.enc /\ q.frames = Wanted'
                    \/ ~q.enc /\ q.frames = {}
                    \/ "embedding" \in q.errors
    <2>1. /\ "frame_extraction" \in Left <=> "frame_extraction" \in Left'
          /\ "aesthetic" \in Left <=> "aesthetic" \in Left'
          /\ "embed_frames" \in Left <=> "embed_frames" \in Left'
          /\ "embed" \in Left <=> "embed" \in Left'
      BY <1>4, OthersStay
    <2>2. Wanted' = Wanted
      BY <1>1, <2>1, WantedIs
    <2> QED BY <1>1, <1>2, <1>4, <2>1, <2>2
  <1>5. CASE Transcode \/ MotionDecode \/ MotionFilter
    <2>1. PICK s \in {"transcode", "motion_decode", "motion_filter"}, e \in BOOLEAN :
            Take(s, e)
      BY <1>5, Entered
    <2>2. "frame_extraction" \in Left
      <3>1. Rank[s] <= Rank["frame_extraction"]
        BY Ranks
      <3> QED BY <1>3, <2>1, <3>1, AheadAndBehind
    <2>3. q.frames = r.frames
      BY <1>1, <1>5 DEF Transcode, MotionDecode, MotionFilter, Over, Flag, ClipType
    <2> QED BY <1>4, <2>1, <2>2, <2>3
  <1>6. CASE FrameExtraction
    <2>1. Take("frame_extraction", FALSE)
      BY <1>6, Entered
    <2>2. "frame_extraction" \in Left /\ "frame_extraction" \notin Left'
      BY <2>1, AtStage
    <2>3. Wanted' = TargetFps(cfg)
      <3>1. /\ "aesthetic" \in Left' <=> cfg.aesthetic # "disable"
            /\ "embed_frames" \in Left' <=> cfg.embedding \notin {"none", "openai"}
            /\ "embed" \in Left' <=> cfg.embedding # "none"
        <4>1. Left' = {t \in Present(cfg) : 4 < Rank[t]}
          BY <2>1, AtStage, Ranks
        <4> QED BY <1>3, <4>1, PresentWhen, Ranks
      <3> QED BY <1>1, <3>1, WantedIs DEF TargetFps
    <2>4. PICK ok \in SUBSET Encoded :
            q = IF c \in ok THEN [r EXCEPT !.frames = TargetFps(cfg)]
                ELSE IF r.enc THEN [Flag(r, "frame_extraction") EXCEPT !.enc = FALSE]
                ELSE Flag(r, "encoded_data")
      BY <1>1, <1>6 DEF FrameExtraction, Over
    <2>5. c \in ok => r.enc
      BY <2>4 DEF Encoded
    <2>6. r.frames = {}
      BY <1>2, <2>2
    <2>7. \/ q.enc /\ q.frames = TargetFps(cfg)
          \/ ~q.enc /\ q.frames = {}
      BY <1>1, <2>4, <2>5, <2>6 DEF Flag, ClipType
    <2> QED BY <2>2, <2>3, <2>7
  <1>7. CASE Aesthetic
    <2>1. PICK e \in BOOLEAN : Take("aesthetic", e)
      BY <1>7, Entered
    <2>2. /\ "frame_extraction" \notin Left /\ "frame_extraction" \notin Left'
          /\ "aesthetic" \in Left /\ "aesthetic" \notin Left'
          /\ "embed_frames" \in Left <=> "embed_frames" \in Left'
          /\ "embed" \in Left <=> "embed" \in Left'
      <3>1. ~(Rank["aesthetic"] <= Rank["frame_extraction"])
            /\ ~(Rank["aesthetic"] < Rank["frame_extraction"])
        BY Ranks
      <3>2. "frame_extraction" \notin Left /\ "frame_extraction" \notin Left'
        BY <1>3, <2>1, <3>1, AheadAndBehind
      <3>3. "aesthetic" \in Left /\ "aesthetic" \notin Left'
        BY <2>1, AtStage
      <3> QED BY <2>1, <3>2, <3>3, OthersStay
    <2>3. Wanted' = Wanted \ {1} /\ 1 \in Wanted
      BY <1>1, <2>2, WantedIs
    <2>4. q = IF ~r.enc THEN Flag(r, "encoded_data")
              ELSE IF 1 \notin r.frames THEN Flag(r, "frames")
              ELSE [r EXCEPT !.frames = r.frames \ {1}]
      BY <1>1, <1>7 DEF Aesthetic, Over, AestheticRest
    <2>5. /\ q.enc = r.enc
          /\ ~r.enc => q.frames = r.frames
          /\ r.enc /\ 1 \in r.frames => q.frames = r.frames \ {1}
      BY <1>1, <2>4 DEF Flag, ClipType
    <2> QED BY <1>1, <1>2, <2>2, <2>3, <2>5
  <1>8. CASE EmbedFrames
    <2>1. Take("embed_frames", CRadioBreaks)
      BY <1>8, EnteredRaising
    <2>2. /\ "frame_extraction" \notin Left /\ "frame_extraction" \notin Left'
          /\ "embed_frames" \in Left /\ "embed_frames" \notin Left'
          /\ "embed_frames" \in Present(cfg)
      BY <1>3, <2>1, AheadAndBehind, AtStage, Ranks
    <2>3. "aesthetic" \notin Left /\ cfg.embedding \notin {"none", "openai"}
      <3>1. "aesthetic" \in Left => 9 <= 5
        BY <2>1, AtStage, Ranks
      <3> QED BY <1>3, <2>2, <3>1, PresentWhen
    <2>4. Wanted = {2} /\ Wanted' = {}
      BY <1>1, <2>1, <2>2, <2>3, OthersStay, WantedIs
    <2>5. q = IF ~r.enc THEN Flag(r, "encoded_data")
              ELSE IF 2 \notin r.frames THEN Flag(r, "frames")
              ELSE [r EXCEPT !.embIn = TRUE, !.frames = {}]
      BY <1>1, <1>8 DEF EmbedFrames, Over, EmbedInput
    <2>6. /\ q.enc = r.enc
          /\ ~r.enc => q.frames = r.frames
          /\ r.enc /\ 2 \in r.frames => q.frames = {}
      BY <1>1, <2>5 DEF Flag, ClipType
    <2> QED BY <1>1, <1>2, <2>2, <2>4, <2>6
  <1>9. CASE EmbedInternVideo2 \/ EmbedCosmosEmbed1 \/ EmbedCRadio
    <2>1a. PICK m \in {"internvideo2", "cosmos-embed1", "cradio"} : \E ok : Embed(m, ok)
      BY <1>9 DEF EmbedInternVideo2, EmbedCosmosEmbed1, EmbedCRadio
    <2>1. PICK ok : Embed(m, ok)
      BY <2>1a
    <2>2. cfg.embedding # "openai" /\ \E e \in BOOLEAN : Take("embed", e)
      BY <2>1 DEF Embed, Enter, EnterUnless
    <2>3. /\ "frame_extraction" \in Left <=> "frame_extraction" \in Left'
          /\ "aesthetic" \in Left <=> "aesthetic" \in Left'
          /\ "embed_frames" \in Left <=> "embed_frames" \in Left'
      BY <2>2, OthersStay
    <2>4. Wanted' = Wanted
      BY <1>1, <2>2, <2>3, WantedIs
    <2>5. q.enc = r.enc /\ q.frames = r.frames
      <3> DEFINE e == IF c \in ok THEN [r EXCEPT !.emb = TRUE] ELSE Flag(r, "embedding")
      <3>1. q = [e EXCEPT !.embIn = FALSE]
        BY <1>1, <2>1 DEF Embed, Over
      <3>2. e.enc = r.enc /\ e.frames = r.frames
        BY <1>1 DEF Flag, ClipType
      <3>3. Front(r, e)
        BY <1>1, FrontField DEF Marks
      <3>4. e \in ClipType
        BY <3>3 DEF Front
      <3> HIDE DEF e
      <3> QED BY <3>1, <3>2, <3>4 DEF ClipType
    <2> QED BY <1>1, <1>2, <2>3, <2>4, <2>5
  <1>10. CASE EmbedOpenAI
    <2>1. cfg.embedding = "openai" /\ \E e \in BOOLEAN : Take("embed", e)
      BY <1>10 DEF EmbedOpenAI, Enter, EnterUnless
    <2>2. "frame_extraction" \notin Left /\ "frame_extraction" \notin Left'
      <3>1. ~(Rank["embed"] <= Rank["frame_extraction"])
            /\ ~(Rank["embed"] < Rank["frame_extraction"])
        BY Ranks
      <3> QED BY <1>3, <2>1, <3>1, AheadAndBehind
    <2>3. /\ "aesthetic" \notin Left' /\ "embed_frames" \notin Left' /\ "embed" \notin Left'
      <3>1. Left' = {t \in Present(cfg) : 10 < Rank[t]}
        BY <2>1, AtStage, Ranks
      <3> QED BY <3>1, Ranks
    <2>4. Wanted' = {}
      BY <1>1, <2>3, WantedIs
    <2>5. PICK ok \in SUBSET {d \in passing : 2 \in clip[d].frames} :
            q = IF c \in ok THEN [r EXCEPT !.emb = TRUE, !.frames = {}] ELSE Flag(r, "embedding")
      BY <1>1, <1>10 DEF EmbedOpenAI, Over
    <2>6. \/ q.enc = r.enc /\ q.frames = {}
          \/ "embedding" \in q.errors
      BY <1>1, <2>5 DEF Flag, ClipType
    <2>7. q.enc \in BOOLEAN
      BY <1>1, EveryStage DEF ClipType
    <2> QED BY <2>2, <2>4, <2>6, <2>7
  <1>11. CASE QwenStage
    <2>1. PICK s \in Stage, e \in BOOLEAN : Take(s, e) /\ 6 <= Rank[s] /\ Rank[s] <= 8
      BY <1>11, Standing
    <2>2. s \notin {"frame_extraction", "aesthetic", "embed_frames", "embed"}
      BY <2>1, Ranks
    <2> QED BY <1>1, <1>4, <1>11, <2>1, <2>2, QwenEffect DEF Middle
  <1>12. CASE WindowStage
    <2>1. PICK s \in Stage, e \in BOOLEAN : Take(s, e) /\ 11 <= Rank[s] /\ Rank[s] <= 18
      BY <1>12, Standing
    <2>2. s \notin {"frame_extraction", "aesthetic", "embed_frames", "embed"}
      BY <2>1, Ranks
    <2> QED BY <1>1, <1>4, <1>12, <2>1, <2>2, WindowEffect DEF Back
  <1>13. CASE Output
    <2>1. PICK e \in BOOLEAN : Take("output", e)
      BY <1>13, Standing
    <2>2. q = r
      BY <1>13 DEF Output
    <2> QED BY <1>4, <2>1, <2>2
  <1> QED BY <1>5, <1>6, <1>7, <1>8, <1>9, <1>10, <1>11, <1>12, <1>13, Groups4 DEF FrontStage

\* The embeddings are there or their lack is explained.
LEMMA StepEmbeddings ==
  ASSUME TypeOK, TodoOrdered, ClipsCounted, EmbeddingsExplained, Work
  PROVE  EmbeddingsExplained'
  <1> SUFFICES ASSUME cfg'.embedding # "none", "embed" \notin Left', NEW c \in passing'
               PROVE  clip'[c].emb \/ clip'[c].errors # {}
    BY DEF EmbeddingsExplained
  <1> DEFINE r == clip[c]
             q == clip'[c]
  <1>1. /\ c \in passing /\ c \in Clip /\ cfg' = cfg /\ r.errors \subseteq q.errors
        /\ r \in ClipType
    BY StepCounted, EveryStage DEF TypeOK
  <1>2. "embed" \in Present(cfg)
    BY <1>1, ChainAssumption, PresentWhen DEF TypeOK
  <1>3. ASSUME NEW s, NEW e, Take(s, e), s # "embed", q.emb = r.emb
        PROVE  q.emb \/ q.errors # {}
    <2>1. "embed" \notin Left
      BY <1>3, OthersStay
    <2> QED BY <1>1, <1>3, <2>1 DEF EmbeddingsExplained
  <1>4. ASSUME NEW s, NEW e, Take(s, e), Rank[s] < Rank["embed"]
        PROVE  FALSE
    BY <1>2, <1>4, AheadAndBehind
  <1>5. CASE FrontStage
    <2>1. CASE Transcode \/ MotionDecode \/ MotionFilter \/ FrameExtraction \/ Aesthetic
      <3>1. PICK s \in {"transcode", "motion_decode", "motion_filter", "frame_extraction",
                        "aesthetic"}, e \in BOOLEAN : Take(s, e)
        BY <2>1, Entered
      <3>2. Rank[s] < Rank["embed"]
        BY Ranks
      <3> QED BY <1>4, <3>1, <3>2
    <2>2. CASE EmbedFrames
      <3>1. Rank["embed_frames"] < Rank["embed"]
        BY Ranks
      <3> QED BY <1>4, <2>2, <3>1, EnteredRaising
    <2>3. CASE EmbedInternVideo2 \/ EmbedCosmosEmbed1 \/ EmbedCRadio
      <3>1. PICK ok : \E m : Embed(m, ok)
        BY <2>3 DEF EmbedInternVideo2, EmbedCosmosEmbed1, EmbedCRadio
      <3> DEFINE e == IF c \in ok THEN [r EXCEPT !.emb = TRUE] ELSE Flag(r, "embedding")
      <3>2. q = [e EXCEPT !.embIn = FALSE]
        BY <1>1, <3>1 DEF Embed, Over
      <3>3. e.emb = TRUE \/ "embedding" \in e.errors
        BY <1>1 DEF Flag, ClipType
      <3>4. Front(r, e)
        BY <1>1, FrontField DEF Marks
      <3>5. e \in ClipType
        BY <3>4 DEF Front
      <3> HIDE DEF e
      <3>6. q.emb = e.emb /\ q.errors = e.errors
        BY <3>2, <3>5 DEF ClipType
      <3> QED BY <3>3, <3>6
    <2>4. CASE EmbedOpenAI
      <3>1. PICK ok : q = IF c \in ok THEN [r EXCEPT !.emb = TRUE, !.frames = {}]
                          ELSE Flag(r, "embedding")
        BY <1>1, <2>4 DEF EmbedOpenAI, Over
      <3> QED BY <1>1, <3>1 DEF Flag, ClipType
    <2> QED BY <1>5, <2>1, <2>2, <2>3, <2>4 DEF FrontStage
  <1>6. CASE QwenStage
    <2>1. PICK s \in Stage, e \in BOOLEAN : Take(s, e) /\ 6 <= Rank[s] /\ Rank[s] <= 8
      BY <1>6, Standing
    <2>2. s # "embed"
      BY <2>1, Ranks
    <2> QED BY <1>1, <1>3, <1>6, <2>1, <2>2, QwenEffect DEF Middle
  <1>7. CASE WindowStage
    <2>1. PICK s \in Stage, e \in BOOLEAN : Take(s, e) /\ 11 <= Rank[s] /\ Rank[s] <= 18
      BY <1>7, Standing
    <2>2. s # "embed"
      BY <2>1, Ranks
    <2> QED BY <1>1, <1>3, <1>7, <2>1, <2>2, WindowEffect DEF Back
  <1>8. CASE Output
    <2>1. PICK e \in BOOLEAN : Take("output", e)
      BY <1>8, Standing
    <2> QED BY <1>3, <1>8, <2>1 DEF Output
  <1> QED BY <1>5, <1>6, <1>7, <1>8, Groups4

-----------------------------------------------------------------------------
(* The windows.                                                            *)

\* The stages before captioning, and the writer, leave the windows alone.
LEMMA EarlyWindows ==
  ASSUME TypeOK, FrontStage \/ QwenStage \/ Output, NEW c \in Clip
  PROVE  clip'[c].wins = clip[c].wins /\ clip'[c].win = clip[c].win
  BY FrontEffect, QwenEffect DEF Front, Middle, Output

\* Before captioning, the captioning stages of the run and those behind them are
\* still to come.
LEMMA EarlyStanding ==
  ASSUME TypeOK, TodoOrdered, FrontStage \/ QwenStage, NEW t \in Present(cfg), 11 <= Rank[t]
  PROVE  t \in Left /\ t \in Left'
  <1>1. PICK s \in Stage, r \in BOOLEAN : Take(s, r) /\ Rank[s] <= 10
    <2>1. CASE FrontStage
      BY <2>1, Standing
    <2>2. CASE QwenStage
      <3>1. PICK s \in Stage, r \in BOOLEAN : Take(s, r) /\ 6 <= Rank[s] /\ Rank[s] <= 8
        BY <2>2, Standing
      <3>2. Rank[s] <= 10
        BY <3>1, RankType
      <3> QED BY <3>1, <3>2
    <2> QED BY <2>1, <2>2
  <1>2. /\ t \in Left <=> Rank[s] <= Rank[t]
        /\ t \in Left' <=> Rank[s] < Rank[t]
    BY <1>1, AheadAndBehind
  <1>3. Rank[s] \in Nat /\ Rank[t] \in Nat
    <2>1. t \in Stage
      <3>1. Stretch(Stages(cfg), 1, 19) /\ Elems(Stages(cfg)) = Present(cfg)
        BY ChainAssumption, StagesInOrder DEF TypeOK
      <3> QED BY <3>1 DEF Stretch, Elems
    <2> QED BY <2>1, RankType
  <1> QED BY <1>1, <1>2, <1>3

\* Model inputs stay in transit.
LEMMA StepInputs ==
  ASSUME TypeOK, TodoOrdered, ClipsCounted, InputsInTransit, Work
  PROVE  InputsInTransit'
  <1>1. passing' \subseteq passing /\ passing \subseteq Clip /\ cfg' = cfg /\ cfg \in Config
    BY StepCounted, EveryStage, ChainAssumption DEF TypeOK
  <1>2. \A c \in Clip, w \in Window : clip[c].win[w].input =>
          /\ cfg.caption = "vllm" /\ "caption_prep" \notin Left /\ "caption" \in Left
          /\ c \in passing /\ w \in clip[c].wins
    BY DEF InputsInTransit
  <1>3. (cfg.caption = "vllm" /\ "caption" \in Left) =>
          \A c \in passing : \A w \in clip[c].wins : clip[c].win[w].input
    BY DEF InputsInTransit
  <1>4. cfg.caption = "vllm" => "caption_prep" \in Present(cfg) /\ "caption" \in Present(cfg)
    BY <1>1, PresentWhen
  <1>5. \A c \in Clip : clip[c].wins \subseteq Window
    BY DEF TypeOK, ClipType
  <1>6. CASE FrontStage \/ QwenStage
    <2>1. cfg.caption = "vllm" => "caption_prep" \in Left /\ "caption" \in Left
      BY <1>4, <1>6, EarlyStanding, Ranks
    <2>2. \A c \in Clip : clip'[c].wins = clip[c].wins /\ clip'[c].win = clip[c].win
      BY <1>6, EarlyWindows
    <2>3. \A c \in Clip, w \in Window : ~clip'[c].win[w].input
      BY <1>2, <2>1, <2>2
    <2>4. (cfg.caption = "vllm" /\ "caption" \in Left') =>
            \A c \in passing' : \A w \in clip'[c].wins : clip'[c].win[w].input
      BY <1>1, <1>3, <2>1, <2>2
    <2> QED BY <1>1, <2>3, <2>4 DEF InputsInTransit
  <1>7. CASE Output
    <2>1. PICK e \in BOOLEAN : Take("output", e)
      BY <1>7, Standing
    <2>2. "caption" \notin Left /\ "caption" \notin Left'
      <3>1. Left = {t \in Present(cfg) : 19 <= Rank[t]} /\ Left = {"output"} \cup Left'
        BY <2>1, AtStage, Ranks
      <3> QED BY <3>1, Ranks
    <2>3. clip' = clip
      BY <1>7 DEF Output
    <2> QED BY <1>1, <1>2, <2>2, <2>3 DEF InputsInTransit
  <1>8. CASE CaptionPrep
    <2>1. PICK e \in BOOLEAN : Take("caption_prep", e)
      BY <1>8, Entered
    <2>2. "caption_prep" \in Left /\ "caption_prep" \notin Left'
          /\ ("caption" \in Left <=> "caption" \in Left')
      BY <2>1, AtStage, OthersStay
    <2>3. passing' = passing
      BY <1>8 DEF CaptionPrep, NoneMoved
    <2>4. cfg.caption = "vllm" => "caption" \in Left'
      <3>1. Rank["caption_prep"] < Rank["caption"]
        BY Ranks
      <3> QED BY <1>4, <2>1, <3>1, AheadAndBehind
    <2>5. ASSUME NEW c \in Clip, NEW w \in Window, clip'[c].win[w].input
          PROVE  cfg.caption = "vllm" /\ c \in passing /\ w \in clip'[c].wins
      <3>1. ~clip[c].win[w].input
        BY <1>2, <2>2
      <3> QED BY <1>8, <2>5, <3>1, CaptionPrepClip
    <2>6. ASSUME cfg.caption = "vllm", NEW c \in passing, NEW w \in clip'[c].wins
          PROVE  clip'[c].win[w].input
      <3>1. c \in Clip
        BY <1>1
      <3>2. clip'[c].wins \subseteq Window
        BY <1>8, <3>1, CaptionPrepClip DEF Back, ClipType
      <3>3. CASE clip'[c].wins = clip[c].wins /\ clip'[c].win = clip[c].win
        BY <1>3, <2>2, <2>4, <2>6, <3>3
      <3>4. CASE ~(clip'[c].wins = clip[c].wins /\ clip'[c].win = clip[c].win)
        <4>1. clip'[c].win[w].input = (cfg.caption = "vllm")
          BY <1>8, <3>1, <3>2, <3>4, CaptionPrepClip
        <4> QED BY <2>6, <4>1
      <3> QED BY <3>3, <3>4
    <2> QED BY <1>1, <2>2, <2>3, <2>4, <2>5, <2>6 DEF InputsInTransit
  <1>9. CASE Gemma4Direct
    <2>1. cfg.caption = "gemma4"
      BY <1>1, <1>9, Entered, AtStage, PresentWhen
    <2>2. \A c \in Clip, w \in Window : ~clip'[c].win[w].input
      BY <1>2, <1>9, <2>1, Gemma4Clip
    <2> QED BY <1>1, <2>1, <2>2 DEF InputsInTransit
  <1>10. ASSUME NEW s, NEW e, Take(s, e), s \notin {"caption_prep", "caption"},
                passing' = passing,
                \A c \in Clip : clip'[c].wins = clip[c].wins,
                \A c \in Clip, w \in Window : clip'[c].win[w].input = clip[c].win[w].input
         PROVE  InputsInTransit'
    <2>1. /\ "caption_prep" \in Left <=> "caption_prep" \in Left'
          /\ "caption" \in Left <=> "caption" \in Left'
      BY <1>10, OthersStay
    <2>2. \A c \in Clip, w \in Window : clip'[c].win[w].input =>
            /\ cfg.caption = "vllm" /\ "caption_prep" \notin Left' /\ "caption" \in Left'
            /\ c \in passing' /\ w \in clip'[c].wins
      BY <1>2, <1>10, <2>1
    <2>3. (cfg.caption = "vllm" /\ "caption" \in Left') =>
            \A c \in passing' : \A w \in clip'[c].wins : clip'[c].win[w].input
      BY <1>1, <1>3, <1>5, <1>10, <2>1
    <2> QED BY <1>1, <2>2, <2>3 DEF InputsInTransit
  <1>11. CASE Preview \/ Enhance \/ T5
    <2>1. PICK s \in {"preview", "enhance", "t5"}, e \in BOOLEAN : Take(s, e)
      BY <1>11, Entered, EnteredRaising
    <2>2. s \notin {"caption_prep", "caption"}
      OBVIOUS
    <2>3. passing' = passing
      BY <1>11 DEF Preview, Enhance, T5, NoneMoved
    <2>4. /\ \A c \in Clip : clip'[c].wins = clip[c].wins
          /\ \A c \in Clip, w \in Window : clip'[c].win[w].input = clip[c].win[w].input
      BY <1>11, QuietClip DEF Core
    <2> QED BY <1>10, <2>1, <2>2, <2>3, <2>4
  <1>12. CASE \E k \in Kinds : Judge(k)
    <2>1. PICK k \in Kinds : Judge(k)
      BY <1>12
    <2>2. PICK e \in BOOLEAN : Take(JudgeStage(k), e)
      BY <2>1, EnteredRaising
    <2>3. JudgeStage(k) \notin {"caption_prep", "caption"}
      BY DEF JudgeStage
    <2>4. passing' = passing
      BY <2>1 DEF Judge, NoneMoved
    <2>5. /\ \A c \in Clip : clip'[c].wins = clip[c].wins
          /\ \A c \in Clip, w \in Window : clip'[c].win[w].input = clip[c].win[w].input
      BY <2>1, JudgeClip
    <2> QED BY <1>10, <2>2, <2>3, <2>4, <2>5
  <1>13. CASE CaptionVllm
    <2>1. PICK e \in BOOLEAN : Take("caption", e)
      BY <1>13, Entered
    <2>2. "caption" \notin Left'
      BY <2>1, AtStage
    <2>3. ASSUME NEW c \in Clip, NEW w \in Window PROVE ~clip'[c].win[w].input
      BY <1>2, <1>13, CaptionVllmClip
    <2> QED BY <2>2, <2>3 DEF InputsInTransit
  <1>14. CASE CaptionGemini \/ CaptionOpenAI
    <2>1. cfg.caption # "vllm"
      BY <1>14 DEF CaptionGemini, CaptionOpenAI
    <2>2. \A c \in Clip, w \in Window : ~clip'[c].win[w].input
      BY <1>2, <1>14, <2>1, AnsweredClip
    <2> QED BY <1>1, <2>1, <2>2 DEF InputsInTransit
  <1> QED BY <1>6, <1>7, <1>8, <1>9, <1>11, <1>12, <1>13, <1>14, Groups4 DEF WindowStage

\* The bytes stay where somebody needs them.
LEMMA StepBytes ==
  ASSUME TypeOK, TodoOrdered, ClipsCounted, BytesKept, Work
  PROVE  BytesKept'
  <1> SUFFICES ASSUME KeepMp4(cfg), cfg.caption # "gemma4", NEW c \in passing,
                      NEW w \in clip'[c].wins
               PROVE  clip'[c].win[w].mp4
    BY StepCounted, EveryStage DEF BytesKept
  <1>1. c \in Clip /\ cfg \in Config /\ w \in Window /\ clip[c].wins \subseteq Window
    BY EveryStage, ChainAssumption DEF TypeOK, ClipType
  <1>2. w \in clip[c].wins => clip[c].win[w].mp4
    BY DEF BytesKept
  <1>3. CASE FrontStage \/ QwenStage \/ Output
    BY <1>1, <1>2, <1>3, EarlyWindows
  <1>4. CASE CaptionPrep
    BY <1>1, <1>2, <1>4, CaptionPrepClip
  <1>5. CASE Gemma4Direct
    BY <1>1, <1>5, Entered, AtStage, PresentWhen
  <1>6. CASE Preview \/ Enhance \/ T5
    BY <1>1, <1>2, <1>6, QuietClip DEF Core
  <1>7. CASE CaptionVllm
    BY <1>1, <1>2, <1>7, CaptionVllmClip
  <1>8. CASE CaptionGemini \/ CaptionOpenAI
    BY <1>1, <1>2, <1>8, AnsweredClip
  <1>9. CASE \E k \in Kinds : Judge(k)
    BY <1>1, <1>2, <1>9, JudgeClip
  <1> QED BY <1>3, <1>4, <1>5, <1>6, <1>7, <1>8, <1>9, Groups4 DEF WindowStage

\* What is on record of the caption of window w of clip r, errors E on the video.
Said(r, w, E) ==
  /\ (cfg.caption \in ServiceCaption /\ r.win[w].caption = "no") => r.errors # {}
  /\ cfg.caption = "vllm" => \/ r.win[w].caption = "text"
                             \/ r.win[w].caption = "empty" /\ E # {}

\* The captions are there or their lack is explained.
LEMMA StepCaptions ==
  ASSUME TypeOK, TodoOrdered, ClipsCounted, InputsInTransit, CaptionsExplained, Work
  PROVE  CaptionsExplained'
  <1> SUFFICES ASSUME cfg.caption \in {"vllm"} \cup ServiceCaption, "caption" \notin Left',
                      NEW c \in passing, NEW w \in clip'[c].wins
               PROVE  Said(clip'[c], w, videoErrors')
    BY StepCounted, EveryStage DEF CaptionsExplained, Said, ServiceCaption
  <1>1. /\ c \in Clip /\ cfg \in Config /\ w \in Window /\ clip[c].wins \subseteq Window
        /\ clip[c].errors \subseteq clip'[c].errors
    BY EveryStage, ChainAssumption DEF TypeOK, ClipType
  <1>2. "caption" \in Present(cfg) /\ cfg.caption # "gemma4"
    BY <1>1, PresentWhen DEF ServiceCaption
  <1>3. ASSUME NEW s, NEW e, Take(s, e), s # "caption",
               w \in clip[c].wins, clip'[c].win[w].caption = clip[c].win[w].caption
        PROVE  Said(clip'[c], w, videoErrors')
    <2>1. "caption" \notin Left
      BY <1>3, OthersStay
    <2>2. videoErrors' = videoErrors
      BY <1>3, Entered, VideoErrorsStay DEF Take
    <2>3. Said(clip[c], w, videoErrors)
      BY <1>3, <2>1 DEF CaptionsExplained, Said
    <2> QED BY <1>1, <1>3, <2>2, <2>3 DEF Said
  <1>4. ASSUME NEW s, NEW e, Take(s, e), Rank[s] < Rank["caption"]
        PROVE  FALSE
    BY <1>2, <1>4, AheadAndBehind
  <1>5. CASE FrontStage \/ QwenStage
    BY <1>2, <1>5, EarlyStanding, Ranks
  <1>6. CASE Output
    BY <1>1, <1>3, <1>6, Standing, EarlyWindows
  <1>7. CASE CaptionPrep \/ Preview
    <2>1. PICK s \in {"caption_prep", "preview"}, e \in BOOLEAN : Take(s, e)
      BY <1>7, Entered, EnteredRaising
    <2>2. Rank[s] < Rank["caption"]
      BY Ranks
    <2> QED BY <1>4, <2>1, <2>2
  <1>8. CASE Gemma4Direct
    BY <1>1, <1>2, <1>8, Entered, AtStage, PresentWhen
  <1>9. CASE Enhance \/ T5
    <2>1. PICK s \in {"enhance", "t5"}, e \in BOOLEAN : Take(s, e)
      BY <1>9, Entered
    <2> QED BY <1>1, <1>3, <1>9, <2>1, QuietClip DEF Core
  <1>10. CASE \E k \in Kinds : Judge(k)
    <2>1. PICK k \in Kinds : Judge(k)
      BY <1>10
    <2>2. JudgeStage(k) # "caption" /\ \E e \in BOOLEAN : Take(JudgeStage(k), e)
      BY <2>1, EnteredRaising DEF JudgeStage
    <2> QED BY <1>1, <1>3, <2>1, <2>2, JudgeClip
  <1>11. CASE CaptionVllm
    <2>1. "caption" \in Left /\ cfg.caption = "vllm"
      BY <1>11, Entered, AtStage DEF CaptionVllm
    <2>2. w \in clip[c].wins
      BY <1>1, <1>11, CaptionVllmClip
    <2>3. clip[c].win[w].input
      BY <2>1, <2>2 DEF InputsInTransit
    <2>4. PICK answer \in {"text", "empty"} : /\ videoErrors' = CaptionErrors(answer)
                                              /\ clip'[c].win[w].caption = answer
      BY <1>1, <1>11, <2>2, <2>3, CaptionVllmClip
    <2>5. answer = "empty" => CaptionErrors(answer) # {}
      <3>1. <<c, w>> \in Slots(passing) /\ clip[<<c, w>>[1]].win[<<c, w>>[2]].input
        BY <1>1, <2>2, <2>3 DEF Slots
      <3> QED BY <3>1 DEF CaptionErrors
    <2> QED BY <2>1, <2>4, <2>5 DEF Said, ServiceCaption
  <1>12. CASE CaptionGemini \/ CaptionOpenAI
    <2>1. cfg.caption # "vllm"
      BY <1>12 DEF CaptionGemini, CaptionOpenAI
    <2> QED BY <1>1, <1>12, <2>1, AnsweredClip DEF Said
  <1> QED BY <1>5, <1>6, <1>7, <1>8, <1>9, <1>10, <1>11, <1>12, Groups4 DEF WindowStage

\* Verdicts follow captions.
LEMMA StepVerdicts ==
  ASSUME TypeOK, TodoOrdered, ClipsCounted, VerdictsFollow, Work
  PROVE  VerdictsFollow'
  <1> SUFFICES ASSUME NEW k \in Kinds
               PROVE  IF JudgeStage(k) \in InRun' \ Left'
                      THEN \A c \in passing' : \A w \in clip'[c].wins :
                             clip'[c].win[w].caption = "text" <=> clip'[c].win[w].verdict[k] # "no"
                      ELSE \A c \in Clip, w \in Window : clip'[c].win[w].verdict[k] = "no"
    BY DEF VerdictsFollow
  <1> DEFINE sk == JudgeStage(k)
  <1>1. /\ passing' \subseteq passing /\ passing \subseteq Clip /\ cfg' = cfg /\ cfg \in Config
        /\ \A c \in Clip : clip[c].wins \subseteq Window /\ clip'[c].wins \subseteq Window
    BY StepCounted, EveryStage, ChainAssumption DEF TypeOK, ClipType
  <1>2. InRun = Present(cfg) /\ InRun' = Present(cfg)
    BY <1>1, StagesInOrder DEF InRun
  <1>3. IF sk \in Present(cfg) \ Left
        THEN \A c \in passing : \A w \in clip[c].wins :
               clip[c].win[w].caption = "text" <=> clip[c].win[w].verdict[k] # "no"
        ELSE \A c \in Clip, w \in Window : clip[c].win[w].verdict[k] = "no"
    BY <1>2 DEF VerdictsFollow
  <1>4. Rank[sk] \in {16, 17}
    BY Ranks DEF JudgeStage
  <1>5. ASSUME sk \notin Present(cfg) \/ (sk \in Left /\ sk \in Left'),
               \A c \in Clip, w \in Window :
                 clip'[c].win[w].verdict[k] = clip[c].win[w].verdict[k]
        PROVE  IF sk \in Present(cfg) \ Left'
               THEN \A c \in passing' : \A w \in clip'[c].wins :
                      clip'[c].win[w].caption = "text" <=> clip'[c].win[w].verdict[k] # "no"
               ELSE \A c \in Clip, w \in Window : clip'[c].win[w].verdict[k] = "no"
    BY <1>3, <1>5
  <1>6. ASSUME sk \in Left <=> sk \in Left',
               \A c \in Clip : clip'[c].wins = clip[c].wins,
               \A c \in Clip, w \in Window :
                 /\ clip'[c].win[w].verdict[k] = clip[c].win[w].verdict[k]
                 /\ clip'[c].win[w].caption = clip[c].win[w].caption
        PROVE  IF sk \in Present(cfg) \ Left'
               THEN \A c \in passing' : \A w \in clip'[c].wins :
                      clip'[c].win[w].caption = "text" <=> clip'[c].win[w].verdict[k] # "no"
               ELSE \A c \in Clip, w \in Window : clip'[c].win[w].verdict[k] = "no"
    BY <1>1, <1>3, <1>6
  <1>7. CASE FrontStage \/ QwenStage
    <2>1. sk \notin Present(cfg) \/ (sk \in Left /\ sk \in Left')
      BY <1>4, <1>7, EarlyStanding
    <2>2. \A c \in Clip : clip'[c].win = clip[c].win
      BY <1>7, EarlyWindows
    <2> HIDE DEF sk
    <2> QED BY <1>2, <1>5, <2>1, <2>2 DEF sk
  <1>8. CASE Output
    <2>1. PICK e \in BOOLEAN : Take("output", e)
      BY <1>8, Standing
    <2>2. sk # "output"
      BY DEF JudgeStage
    <2>3. sk \in Left <=> sk \in Left'
      BY <2>1, <2>2, OthersStay
    <2>4. clip' = clip
      BY <1>8 DEF Output
    <2> QED BY <1>2, <1>6, <2>3, <2>4
  <1>9. ASSUME NEW s, NEW e, Take(s, e), Rank[s] \in 11..15
        PROVE  sk \notin Present(cfg) \/ (sk \in Left /\ sk \in Left')
    <2>1. Rank[s] <= Rank[sk] /\ Rank[s] < Rank[sk]
      BY <1>4, <1>9
    <2> QED BY <1>9, <2>1, AheadAndBehind
  <1>10. CASE CaptionPrep \/ Gemma4Direct \/ Preview \/ Enhance
              \/ CaptionVllm \/ CaptionGemini \/ CaptionOpenAI
    <2>1. PICK s \in {"caption_prep", "gemma4", "preview", "enhance", "caption"}, e \in BOOLEAN :
            Take(s, e)
      BY <1>10, Entered, EnteredRaising
    <2>2. Rank[s] \in 11..15
      BY Ranks
    <2>3. sk \notin Present(cfg) \/ (sk \in Left /\ sk \in Left')
      BY <1>9, <2>1, <2>2
    <2>4. ASSUME NEW c \in Clip, NEW w \in Window
          PROVE  clip'[c].win[w].verdict = clip[c].win[w].verdict
      <3>1. CASE CaptionPrep
        BY <3>1, CaptionPrepClip
      <3>2. CASE Gemma4Direct
        BY <3>2, Gemma4Clip
      <3>3. CASE Preview \/ Enhance
        BY <3>3, QuietClip DEF Core
      <3>4. CASE CaptionVllm
        BY <3>4, CaptionVllmClip
      <3>5. CASE CaptionGemini \/ CaptionOpenAI
        BY <3>5, AnsweredClip
      <3> QED BY <1>10, <3>1, <3>2, <3>3, <3>4, <3>5
    <2> HIDE DEF sk
    <2> QED BY <1>2, <1>5, <2>3, <2>4 DEF sk
  <1>11. CASE T5
    <2>1. PICK e \in BOOLEAN : Take("t5", e)
      BY <1>11, Entered
    <2>2. sk # "t5"
      BY DEF JudgeStage
    <2>3. sk \in Left <=> sk \in Left'
      BY <2>1, <2>2, OthersStay
    <2> QED BY <1>2, <1>6, <1>11, <2>3, QuietClip DEF Core
  <1>12. ASSUME NEW j \in Kinds \ {k}, Judge(j)
         PROVE  IF sk \in Present(cfg) \ Left'
                THEN \A c \in passing' : \A w \in clip'[c].wins :
                       clip'[c].win[w].caption = "text" <=> clip'[c].win[w].verdict[k] # "no"
                ELSE \A c \in Clip, w \in Window : clip'[c].win[w].verdict[k] = "no"
    <2>1. PICK e \in BOOLEAN : Take(JudgeStage(j), e)
      BY <1>12, EnteredRaising
    <2>2. sk # JudgeStage(j)
      BY DEF JudgeStage, Kinds
    <2>3. sk \in Left <=> sk \in Left'
      BY <2>1, <2>2, OthersStay
    <2>4. ASSUME NEW c \in Clip
          PROVE  /\ clip'[c].wins = clip[c].wins
                 /\ \A w \in Window :
                      /\ clip'[c].win[w].verdict[k] = clip[c].win[w].verdict[k]
                      /\ clip'[c].win[w].caption = clip[c].win[w].caption
      BY <1>12, JudgeClip
    <2> QED BY <1>6, <2>3, <2>4
  <1>13. CASE Judge(k)
    <2>1. PICK e \in BOOLEAN : Take(sk, e)
      BY <1>13, EnteredRaising
    <2>2. sk \in Present(cfg) /\ sk \in Left /\ sk \notin Left'
      BY <2>1, AtStage
    <2>3. \A c \in Clip, w \in Window : clip[c].win[w].verdict[k] = "no"
      BY <1>3, <2>2
    <2>4. ASSUME NEW c \in passing, NEW w \in clip'[c].wins
          PROVE  clip'[c].win[w].caption = "text" <=> clip'[c].win[w].verdict[k] # "no"
      <3>1. c \in Clip /\ clip'[c].wins = clip[c].wins /\ w \in Window
        BY <1>1, <1>13, JudgeClip
      <3>2. /\ clip'[c].win[w].caption = clip[c].win[w].caption
            /\ IF clip[c].win[w].caption = "text" /\ clip[c].win[w].verdict[k] = "no"
               THEN clip'[c].win[w].verdict[k] # "no"
               ELSE clip'[c].win[w].verdict[k] = clip[c].win[w].verdict[k]
        BY <1>13, <3>1, JudgeClip
      <3> QED BY <2>3, <3>1, <3>2
    <2> QED BY <1>1, <1>2, <2>2, <2>4
  <1>14. CASE WindowStage
    BY <1>2, <1>10, <1>11, <1>12, <1>13, <1>14 DEF WindowStage
  <1> QED BY <1>7, <1>8, <1>14, Groups4

\* No stage but C-RADIO's misses what an earlier one should have left it.
LEMMA StepRaises ==
  ASSUME TypeOK, TodoOrdered, InputsInTransit, BytesKept, OnlyOwnFaultsRaise, Work
  PROVE  OnlyOwnFaultsRaise'
  <1>1. cfg' = cfg /\ cfg \in Config
    BY EveryStage, ChainAssumption DEF TypeOK
  <1>2. \A s : Take(s, FALSE) => raised' = "no"
    BY DEF Take
  <1>3. CASE FrontStage
    <2>1. CASE EmbedFrames
      <3>1. cfg.embedding # "cradio" => ~CRadioBreaks
        BY DEF CRadioBreaks
      <3>2. raised = "no" /\ raised' = IF CRadioBreaks THEN "embed_frames" ELSE raised
        BY <2>1 DEF EmbedFrames, Take, EnterUnless
      <3> QED BY <1>1, <3>1, <3>2 DEF OnlyOwnFaultsRaise
    <2>2. CASE ~EmbedFrames
      BY <1>2, <1>3, <2>2, Entered DEF FrontStage, OnlyOwnFaultsRaise
    <2> QED BY <2>1, <2>2
  <1>4. CASE QwenStage
    BY <1>2, <1>4, Entered DEF QwenStage, OnlyOwnFaultsRaise
  <1>5. CASE Preview
    <2>1. "preview" \in Present(cfg)
      BY <1>5, EnteredRaising, AtStage
    <2>2. KeepMp4(cfg) /\ cfg.caption # "gemma4"
      BY <1>1, <2>1, PresentWhen DEF KeepMp4
    <2>3. ~\E s \in Slots(passing) : ~clip[s[1]].win[s[2]].mp4
      BY <2>2 DEF BytesKept, Slots
    <2>4. raised' = raised /\ raised = "no"
      BY <1>5, <2>3 DEF Preview, Take, EnterUnless
    <2> QED BY <2>4 DEF OnlyOwnFaultsRaise
  <1>6. CASE \E k \in Kinds : Judge(k)
    BY <1>2, <1>6, EnteredRaising DEF OnlyOwnFaultsRaise
  <1>7. CASE Output
    <2>1. "caption" \notin Left
      <3>1. PICK e \in BOOLEAN : Take("output", e)
        BY <1>7, Standing
      <3>2. Left = {t \in Present(cfg) : 19 <= Rank[t]}
        BY <3>1, AtStage, Ranks
      <3> QED BY <3>2, Ranks
    <2>2. ~\E s \in Slots(passing \cup filtered) : clip[s[1]].win[s[2]].input
      BY <2>1 DEF InputsInTransit, Slots, TypeOK
    <2>3. raised' = raised /\ raised = "no"
      BY <1>7, <2>2 DEF Output, Take, EnterUnless
    <2> QED BY <2>3 DEF OnlyOwnFaultsRaise
  <1>8. CASE WindowStage /\ ~Preview /\ ~\E k \in Kinds : Judge(k)
    BY <1>2, <1>8, Entered DEF WindowStage, OnlyOwnFaultsRaise
  <1> QED BY <1>3, <1>4, <1>5, <1>6, <1>7, <1>8, Groups4

-----------------------------------------------------------------------------
(* The invariant and what follows from it.                                 *)

\* The chain starts in order: no clip has anything, everything is left.
LEMMA ChainInit == Init => ChainInv
  <1> SUFFICES ASSUME Init PROVE ChainInv
    OBVIOUS
  <1>1. /\ cfg \in Configs /\ cfg \in Config /\ todo = Stages(cfg)
        /\ clip = [c \in Clip |-> FreshClip] /\ passing = Clip /\ filtered = {}
        /\ stats = [r \in Reasons \cup {"passed"} |-> 0] /\ raised = "no"
        /\ videoErrors = {}
    BY ChainAssumption DEF Init
  <1>2. FreshWindow \in WindowType
    BY DEF FreshWindow, WindowType, Kinds
  <1>3. FreshClip \in ClipType
    BY <1>2 DEF FreshClip, ClipType, QwenKeys
  <1>4. TypeOK
    BY <1>1, <1>3 DEF TypeOK
  <1>5. Left = InRun /\ InRun = Present(cfg)
    BY <1>1, StagesInOrder DEF Left, InRun
  <1>6. TodoOrdered
    BY <1>1, <1>5, StagesInOrder DEF TodoOrdered, Stretch
  <1>7. \A c \in Clip : /\ clip[c].errors = {} /\ clip[c].rejectedBy = "no" /\ clip[c].wins = {}
                        /\ ~clip[c].prepared /\ clip[c].frames = {}
                        /\ \A w \in Window : clip[c].win[w] = FreshWindow
    BY <1>1 DEF FreshClip
  <1>8. "output" \in Left /\ (FramesUsed(cfg) => "frame_extraction" \in Left)
        /\ (cfg.embedding # "none" => "embed" \in Left)
        /\ (cfg.caption \notin {"none", "gemma4"} => "caption" \in Left)
    BY <1>1, <1>5, PresentWhen
  <1>9. ClipsCounted
    <2>1. \A k \in QwenKeys : {c \in filtered : clip[c].rejectedBy = k} = {}
      BY <1>1
    <2>2. FilteredCount = 0 /\ \A k \in QwenKeys : stats[k] = 0
      BY <1>1 DEF FilteredCount, Reasons, QwenKeys
    <2> QED BY <1>1, <1>7, <1>8, <2>1, <2>2, FS_EmptySet DEF ClipsCounted
  <1>10. QwenInputsThere /\ FramesHeld /\ EmbeddingsExplained /\ OnlyOwnFaultsRaise
    BY <1>1, <1>7, <1>8 DEF QwenInputsThere, FramesHeld, EmbeddingsExplained, OnlyOwnFaultsRaise
  <1>11. InputsInTransit /\ BytesKept /\ CaptionsExplained
    BY <1>1, <1>7 DEF InputsInTransit, BytesKept, CaptionsExplained, FreshWindow
  <1>12. VerdictsFollow
    BY <1>5, <1>7 DEF VerdictsFollow, FreshWindow
  <1> QED BY <1>4, <1>6, <1>9, <1>10, <1>11, <1>12 DEF ChainInv

\* Every stage keeps the invariant.
LEMMA ChainStep == ChainInv /\ [Next]_vars => ChainInv'
  <1> SUFFICES ASSUME ChainInv, [Next]_vars PROVE ChainInv'
    OBVIOUS
  <1> USE DEF ChainInv
  <1>1. CASE Work
    <2>1. TypeOK' /\ TodoOrdered' /\ ClipsCounted'
      BY <1>1, StepCounted
    <2>2. QwenInputsThere' /\ FramesHeld' /\ EmbeddingsExplained'
      BY <1>1, StepQwenInputs, StepFrames, StepEmbeddings
    <2>3. InputsInTransit' /\ BytesKept' /\ CaptionsExplained'
      BY <1>1, StepInputs, StepBytes, StepCaptions
    <2>4. VerdictsFollow' /\ OnlyOwnFaultsRaise'
      BY <1>1, StepVerdicts, StepRaises
    <2> QED BY <2>1, <2>2, <2>3, <2>4
  <1>2. CASE UNCHANGED <<cfg, todo, clip, passing, filtered, stats, videoErrors>>
             /\ (raised' = raised \/ raised' = "own")
    <2> USE <1>2
    <2>1. Left' = Left /\ InRun' = InRun /\ Wanted' = Wanted
      BY DEF Left, InRun, Wanted, StillToCome
    <2>2. TypeOK' /\ TodoOrdered' /\ ClipsCounted'
      BY <2>1 DEF TypeOK, TodoOrdered, ClipsCounted, FilteredCount
    <2>3. QwenInputsThere' /\ FramesHeld' /\ EmbeddingsExplained'
      BY <2>1 DEF QwenInputsThere, FramesHeld, EmbeddingsExplained
    <2>4. InputsInTransit' /\ BytesKept' /\ CaptionsExplained' /\ VerdictsFollow' /\ OnlyOwnFaultsRaise'
      BY <2>1 DEF InputsInTransit, BytesKept, CaptionsExplained, VerdictsFollow, OnlyOwnFaultsRaise
    <2> QED BY <2>2, <2>3, <2>4
  <1> QED BY <1>1, <1>2 DEF Next, OwnFault, vars

\* What the stages owe each other holds in every run of every configuration: the
\* inductive invariant of the chain.
THEOREM ChainHolds == Spec => []ChainInv
  <1> QED BY ChainInit, ChainStep, PTL DEF Spec

\* Every variable keeps its type through every stage.
THEOREM ChainTypeCorrect == Spec => []TypeOK
  <1>1. ChainInv => TypeOK
    BY DEF ChainInv
  <1> QED BY <1>1, ChainHolds, PTL

\* No filter loses or doubles a clip, and the counters add up to the clips.
THEOREM ClipAccountingHolds == Spec => []ClipAccounting
  <1>1. ChainInv => ClipAccounting
    <2> SUFFICES ASSUME ChainInv PROVE ClipAccounting
      OBVIOUS
    <2>1. /\ passing \cap filtered = {} /\ passing \cup filtered = Clip
          /\ FilteredCount = Cardinality(filtered)
          /\ \A k \in QwenKeys : stats[k] = Cardinality({c \in filtered : clip[c].rejectedBy = k})
          /\ "output" \notin Left => stats["passed"] = Cardinality(passing)
      BY DEF ChainInv, ClipsCounted
    <2>2. todo = <<>> => "output" \notin Left
      BY DEF Left, Elems
    <2>3. Cardinality(filtered) + Cardinality(passing) = Cardinality(Clip)
      <3>1. IsFiniteSet(passing) /\ IsFiniteSet(filtered)
        BY <2>1, ChainAssumption, FS_Subset
      <3>2. /\ Cardinality(filtered \cup passing) =
                 Cardinality(filtered) + Cardinality(passing) - Cardinality(filtered \cap passing)
        BY <3>1, FS_Union
      <3>3. filtered \cap passing = {} /\ filtered \cup passing = Clip
        BY <2>1
      <3>4. Cardinality({}) = 0 /\ Cardinality(filtered) \in Nat /\ Cardinality(passing) \in Nat
        BY <3>1, FS_EmptySet, FS_CardinalityType
      <3>5. Cardinality(Clip)
              = Cardinality(filtered) + Cardinality(passing) - Cardinality({})
        BY <3>2, <3>3, Zenon
      <3> QED BY <3>4, <3>5
    <2> QED BY <2>1, <2>2, <2>3 DEF ClipAccounting
  <1> QED BY <1>1, ChainHolds, PTL

\* A clip in play holds exactly the frames somebody still has to read.
THEOREM FramesMatchConsumersHolds == Spec => []FramesMatchConsumers
  <1>1. ChainInv => FramesMatchConsumers
    BY DEF ChainInv, FramesHeld, FramesMatchConsumers, StillToCome, Left, Elems
  <1> QED BY <1>1, ChainHolds, PTL

\* A clip that reaches the writer without an embedding, or without a caption of a
\* service, carries an error; one whose captions the vLLM captioner gave up lies in
\* a video that does.  (Nothing is said of Gemma4.)
THEOREM MissingHasReasonHolds == Spec => []MissingHasReason
  <1>1. ChainInv => MissingHasReason
    <2> SUFFICES ASSUME ChainInv, AtOutput, NEW c \in passing
                 PROVE  /\ (cfg.embedding # "none" /\ ~clip[c].emb) => clip[c].errors # {}
                        /\ \A w \in clip[c].wins : Said(clip[c], w, videoErrors)
      BY DEF MissingHasReason, Said
    <2>1. "embed" \notin Left /\ "caption" \notin Left
      BY DEF AtOutput, Left, Elems
    <2> QED BY <2>1 DEF ChainInv, EmbeddingsExplained, CaptionsExplained, Said
  <1> QED BY <1>1, ChainHolds, PTL

\* A judge that watches the video finds the bytes of every window it judges, in
\* every configuration that prepares its windows before captioning them.
THEOREM EvidenceKeptByPrepHolds == Spec => []EvidenceKeptByPrep
  <1>1. ChainInv => EvidenceKeptByPrep
    <2> SUFFICES ASSUME ChainInv, cfg.caption # "gemma4", todo # <<>>, Head(todo) = "judge_mp4",
                        NEW s \in Slots(passing)
                 PROVE  clip[s[1]].win[s[2]].mp4
      BY DEF EvidenceKeptByPrep, EvidenceKept
    <2>1. cfg \in Config /\ TodoOrdered /\ TypeOK /\ BytesKept
      BY ChainAssumption DEF ChainInv, TypeOK
    <2>2. "judge_mp4" \in Present(cfg)
      <3>1. "judge_mp4" \in Left
        BY <2>1 DEF TodoOrdered, Left, Elems
      <3> QED BY <2>1, <3>1, StagesInOrder DEF TodoOrdered, InRun
    <2>3. \E i \in DOMAIN cfg.judges : cfg.judges[i] = "mp4_bytes"
      <3>1. "mp4_bytes" \in Kinds /\ JudgeStage("mp4_bytes") = "judge_mp4"
        BY DEF Kinds, JudgeStage
      <3> QED BY <2>1, <2>2, <3>1, PresentWhen
    <2>4. KeepMp4(cfg)
      BY <2>3 DEF KeepMp4
    <2> QED BY <2>1, <2>4 DEF BytesKept, Slots
  <1> QED BY <1>1, ChainHolds, PTL

\* When the writer is reached, every judge of the run has seen exactly the windows
\* with a caption.
THEOREM JudgesSeeCaptionsHolds == Spec => []JudgesSeeCaptions
  <1>1. ChainInv => JudgesSeeCaptions
    <2> SUFFICES ASSUME ChainInv, AtOutput, NEW s \in Slots(passing), NEW i \in DOMAIN cfg.judges
                 PROVE  clip[s[1]].win[s[2]].caption = "text"
                          <=> clip[s[1]].win[s[2]].verdict[cfg.judges[i]] # "no"
      BY DEF JudgesSeeCaptions
    <2> DEFINE k == cfg.judges[i]
    <2>1. cfg \in Config /\ VerdictsFollow
      BY ChainAssumption DEF ChainInv, TypeOK
    <2>2. k \in Kinds
      <3>1. \A q \in {<<>>, <<"text">>, <<"mp4_bytes">>, <<"text", "mp4_bytes">>} :
              \A n \in DOMAIN q : q[n] \in Kinds
        BY DEF Kinds
      <3> QED BY <2>1, <3>1 DEF Config
    <2>3. JudgeStage(k) \in InRun
      BY <2>1, PresentWhen, StagesInOrder DEF InRun
    <2>4. JudgeStage(k) \notin Left
      BY DEF AtOutput, Left, Elems, JudgeStage
    <2> HIDE DEF k
    <2>5. clip[s[1]].win[s[2]].caption = "text" <=> clip[s[1]].win[s[2]].verdict[k] # "no"
      BY <2>1, <2>2, <2>3, <2>4 DEF VerdictsFollow, Slots
    <2> QED BY <2>5 DEF k
  <1> QED BY <1>1, ChainHolds, PTL

\* No stage dies for want of what an earlier one should have left it, except
\* C-RADIO's frame stage; what else kills a run is a call of the stage's own.
THEOREM OnlyOwnFaultsRaiseHolds == Spec => []OnlyOwnFaultsRaise
  <1>1. ChainInv => OnlyOwnFaultsRaise
    BY DEF ChainInv
  <1> QED BY <1>1, ChainHolds, PTL

\* The classifier leaves the semantic filter its inputs: a clip fails for want of
\* a prepared window only when its preparation failed.
THEOREM NoFalsePrepFailureHolds == Spec => []NoFalsePrepFailure
  <1>1. ChainInv => NoFalsePrepFailure
    BY DEF ChainInv, QwenInputsThere, NoFalsePrepFailure
  <1> QED BY <1>1, ChainHolds, PTL
=============================================================================
