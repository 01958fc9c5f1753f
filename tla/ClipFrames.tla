----------------------------- MODULE ClipFrames -----------------------------
(***************************************************************************)
(* From the frames of a video to the frames that models are shown: shots   *)
(* or strides become spans, spans become clips in chunks, and every clip   *)
(* is sampled twice, at the rates of the frame consumers and window by     *)
(* window for the captioner.  The unit of time is a frame of the video;    *)
(* floating point is exact.                                                *)
(***************************************************************************)
EXTENDS Integers, FiniteSets, Sequences, SequencesExt

CONSTANTS
  Inputs,       \* the inputs: a video [frames, cuts] and the options of a run
  Rate,         \* frames in a second of video
  BatchStep,    \* TransNetV2: frames a batch decides on (50 in the code)
  BatchMargin,  \* and the context on either side (25)
  ChunkWeight,  \* seconds of clips that close a chunk (num_clips_per_chunk * 8)
  MaxSampled    \* most frames of a window (768)

NoCrop == -1
Span(start, end) == [start |-> start, end |-> end]

\* A video, and the options as the pipelines pass them on.
Videos == [frames : Nat, cuts : SUBSET Nat]
Options ==
  [detect : BOOLEAN, whole : BOOLEAN, mode : {"stride", "truncate"},
   min : Nat \ {0}, max : Nat \ {0}, crop : Nat \cup {NoCrop}, limit : Nat,
   window : Nat \ {0}, threshold : Nat, fps : Nat \ {0},
   rates : Seq(Nat \ {0}), gt : Seq([start : Nat, end : Nat])]

ASSUME ClipFramesAssumption ==
  /\ {Rate, BatchStep, ChunkWeight} \subseteq Nat \ {0}
  /\ BatchMargin \in 1..BatchStep
  /\ MaxSampled \in Nat /\ MaxSampled >= 2
  /\ \A input \in Inputs : input.video \in Videos /\ input.opt \in Options

VARIABLES
  video,   \* frames: how many; cuts: those the model takes for transitions
  opt,     \* the options
  phase,   \* "input", "cut" or "cracked"
  spans,   \* the clips of the video: [start, end), in frames
  tasks    \* the chunks: their stage and their clips

vars == <<video, opt, phase, spans, tasks>>

Junk == -1     \* memory that nothing was written to
MinSampled == 4
WindowMinFrames == 4

Least(a, b) == IF a < b THEN a ELSE b
Most(a, b) == IF a > b THEN a ELSE b
Ceiling(a, b) == (a + b - 1) \div b

\* The elements of seq at the places in S, in their order.
Chosen(seq, S) ==
  LET after[n \in 0..Len(seq)] ==
        IF n = 0 THEN <<>> ELSE IF n \in S THEN Append(after[n - 1], seq[n]) ELSE after[n - 1]
  IN after[Len(seq)]

\* Python and torch round halves to the even neighbour.
RoundDiv(a, b) == LET q == a \div b  twice == 2 * (a % b)
                  IN IF twice < b \/ (twice = b /\ q % 2 = 0) THEN q ELSE q + 1

Length(s) == s.end - s.start

Init == /\ \E input \in Inputs : video = input.video /\ opt = input.opt
        /\ phase = "input" /\ spans = <<>> /\ tasks = <<>>

-----------------------------------------------------------------------------
(* Shot detection.                                                         *)

\* The frames of the batch for i .. i + BatchStep - 1; only the front is padded.
Batch(i) == [k \in 1..Most(BatchMargin - i, 0) |-> 0]
            \o [k \in 1..(Least(i + BatchStep + BatchMargin, video.frames) - Most(i - BatchMargin, 0))
                  |-> Most(i - BatchMargin, 0) + k - 1]

Centre(batch) == SubSeq(batch, BatchMargin + 1, Least(BatchMargin + BatchStep, Len(batch)))

\* Frame i - 1 is judged by the verdict on the frame at i.
Judged == LET centres == [b \in 1..Ceiling(video.frames, BatchStep) |-> Centre(Batch((b - 1) * BatchStep))]
          IN SubSeq(FlattenSeq(centres), 1, video.frames)

IsCut(f) == Judged[f + 1] \in video.cuts

\* Mutant: a shot starts where the one before ends, at the transition.
NextFrameAtCut(acc, f) ==
  LET ends == IsCut(f) /\ ~acc.cut /\ f # 0
  IN [cut |-> IsCut(f),
      start |-> IF ends THEN f ELSE acc.start,
      scenes |-> IF ends THEN Append(acc.scenes, Span(acc.start, f)) ELSE acc.scenes]

NextFrame(acc, f) ==
  [cut |-> IsCut(f),
   start |-> IF acc.cut /\ ~IsCut(f) THEN f ELSE acc.start,
   scenes |-> IF ~acc.cut /\ IsCut(f) /\ f # 0
              THEN Append(acc.scenes, Span(acc.start, f)) ELSE acc.scenes]

\* What is known after n frames.
Seen[n \in 0..video.frames] ==
  IF n = 0 THEN [cut |-> FALSE, start |-> 0, scenes |-> <<>>] ELSE NextFrame(Seen[n - 1], n - 1)

\* The trailing scene ends at the last frame and so without it.
Scenes ==
  LET last == video.frames - 1
      seen == Seen[video.frames]
  IN IF seen.scenes = <<>>
     THEN IF opt.whole THEN <<Span(0, video.frames)>> ELSE <<>>
     ELSE IF seen.cut THEN seen.scenes ELSE Append(seen.scenes, Span(seen.start, last))

\* A last piece below the minimum is left out.
Pieces(s) ==
  LET cut == [k \in 1..Ceiling(Length(s), opt.max) |->
                Span(s.start + (k - 1) * opt.max, Least(s.start + k * opt.max, s.end))]
  IN Chosen(cut, {k \in DOMAIN cut : cut[k].end # s.end \/ Length(cut[k]) >= opt.min})

Shortened(s) ==
  IF opt.mode = "stride" THEN Pieces(s) ELSE <<Span(s.start, Least(s.start + opt.max, s.end))>>

Cropped(s) == IF opt.crop = NoCrop THEN s ELSE Span(s.start + opt.crop, s.end - opt.crop)

FilteredScenes ==
  LET cropped == [i \in DOMAIN Scenes |->
                    LET pieces == Shortened(Scenes[i]) IN [k \in DOMAIN pieces |-> Cropped(pieces[k])]]
      all == FlattenSeq(cropped)
  IN Chosen(all, {i \in DOMAIN all : /\ Length(all[i]) >= opt.min
                                     /\ opt.crop = NoCrop \/ Length(all[i]) > 0})

Limited(seq) == IF opt.limit > 0 THEN SubSeq(seq, 1, Least(opt.limit, Len(seq))) ELSE seq

DetectShots == /\ phase = "input" /\ opt.detect /\ video.frames > 0
               /\ spans' = Limited(FilteredScenes) /\ phase' = "cut"
               /\ UNCHANGED <<video, opt, tasks>>

-----------------------------------------------------------------------------
(* The alternative, and the chunks.                                        *)

\* The pipeline strides by the clip length.
Strides ==
  LET cut == [k \in 1..Ceiling(video.frames, opt.max) |->
                Span((k - 1) * opt.max, Least(k * opt.max, video.frames))]
  IN Chosen(cut, {k \in DOMAIN cut : Length(cut[k]) >= opt.min})

CutByStride == /\ phase = "input" /\ ~opt.detect /\ video.frames > 0
               /\ spans' = Limited(Strides) /\ phase' = "cut"
               /\ UNCHANGED <<video, opt, tasks>>

\* A clip keeps the rate of the video: the stage never tells the encoder the source's
\* frame rate, without which max_output_frames caps nothing.
Encode(s) == [span |-> s, frames |-> Length(s),
              extracted |-> [r \in {} |-> <<>>], windows |-> <<>>, sampled |-> <<>>]

\* Whole seconds count, so a clip of less than one weighs nothing.
PutClip(acc, s) ==
  LET weight == acc.weight + (Length(s) \div Rate)
  IN IF weight >= ChunkWeight
     THEN [done |-> Append(acc.done, Append(acc.open, s)), open |-> <<>>, weight |-> 0]
     ELSE [done |-> acc.done, open |-> Append(acc.open, s), weight |-> weight]

Put[n \in 0..Len(spans)] ==
  IF n = 0 THEN [done |-> <<>>, open |-> <<>>, weight |-> 0] ELSE PutClip(Put[n - 1], spans[n])

Chunks == LET acc == Put[Len(spans)]
          IN IF acc.open = <<>> THEN acc.done ELSE Append(acc.done, acc.open)

\* Nothing is left of a video without clips.
Transcode ==
  /\ phase = "cut" /\ phase' = "cracked"
  /\ tasks' = [t \in DOMAIN Chunks |->
                 [stage |-> "transcoded", clips |-> [i \in DOMAIN Chunks[t] |-> Encode(Chunks[t][i])]]]
  /\ UNCHANGED <<video, opt, spans>>

-----------------------------------------------------------------------------
(* Decoding by frame number: one walk over the clip, in which a number     *)
(* that has been passed does not come again.                               *)

Copies(x, n) == [i \in 1..n |-> x]

\* What is decoded for wanted, a sequence of frame numbers and counts.
Decode(wanted, frames) ==
  LET Frame(acc, f) ==
        IF acc.next <= Len(wanted) /\ wanted[acc.next].frame = f
        THEN [next |-> acc.next + 1, out |-> acc.out \o Copies(f, wanted[acc.next].count)]
        ELSE acc
      walk[n \in 0..frames] ==
        IF n = 0 THEN [next |-> 1, out |-> <<>>] ELSE Frame(walk[n - 1], n - 1)
      walked == walk[frames]
      missed == SubSeq(wanted, walked.next, Len(wanted))
  IN walked.out \o FlattenSeq([k \in DOMAIN missed |-> Copies(Junk, missed[k].count)])

-----------------------------------------------------------------------------
(* Frames for the embedding and the filters, at several rates.  Frame i of *)
(* a clip is shown at i / Rate seconds.                                    *)

\* The frame for the k-th sample at rate r: the closest, the earlier of two.
ClosestFrame(c, r, k) ==
  LET At(i) == i * r
      want == k * Rate
      right == Least(Most(Cardinality({i \in 0..(c.frames - 1) : At(i) < want}), 1), c.frames - 1)
  IN IF want >= At(c.frames - 1) THEN c.frames - 1
     ELSE IF At(right) - want < want - At(right - 1) THEN right ELSE right - 1

\* Samples up to the last frame and half an interval more.
SampleCount(c, r) == Ceiling(2 * (c.frames - 1) * r + Rate, 2 * Rate)

\* Repeated frames are decoded once and copied.
Samples(c, r) ==
  LET closest == [k \in 1..SampleCount(c, r) |-> ClosestFrame(c, r, k - 1)]
      ids == Chosen([i \in 1..c.frames |-> i - 1], {closest[k] + 1 : k \in DOMAIN closest})
  IN Decode([j \in DOMAIN ids |->
               [frame |-> ids[j], count |-> Cardinality({k \in DOMAIN closest : closest[k] = ids[j]})]],
            c.frames)

CommonMultiple(a, b) == CHOOSE m \in 1..(a * b) : m % a = 0 /\ m % b = 0
                                                  /\ \A l \in 1..(m - 1) : l % a # 0 \/ l % b # 0

\* Mutant: the fastest rate serves all.
FastestRate == FoldSet(Most, 1, Range(opt.rates))

SharedRate ==
  LET shared[n \in 0..Len(opt.rates)] ==
        IF n = 0 THEN 1 ELSE CommonMultiple(shared[n - 1], opt.rates[n])
  IN shared[Len(opt.rates)]

Every(seq, n) == [k \in 1..Ceiling(Len(seq), n) |-> seq[(k - 1) * n + 1]]

Extract(c) ==
  [c EXCEPT !.extracted = [r \in Range(opt.rates) |-> Every(Samples(c, SharedRate), SharedRate \div r)]]

ExtractFrames(t) ==
  /\ tasks[t].stage = "transcoded"
  /\ tasks' = [tasks EXCEPT ![t] = [stage |-> "extracted",
                                    clips |-> [i \in DOMAIN @.clips |-> Extract(@.clips[i])]]]
  /\ UNCHANGED <<video, opt, phase, spans>>

-----------------------------------------------------------------------------
(* Windows of a clip and their frames.  Both ends of a window are in it.   *)

\* Mutant: a remainder below the threshold is forgotten.
WindowsDropRest(n) ==
  LET whole == n \div opt.window  rest == n % opt.window
      full == [k \in 1..whole |-> Span((k - 1) * opt.window, k * opt.window - 1)]
  IN IF n < WindowMinFrames THEN <<>>
     ELSE IF n <= opt.window THEN <<Span(0, n - 1)>>
     ELSE IF rest >= opt.threshold THEN Append(full, Span(n - rest, n - 1)) ELSE full

Windows(n) ==
  LET whole == n \div opt.window  rest == n % opt.window
      full == [k \in 1..whole |-> Span((k - 1) * opt.window, k * opt.window - 1)]
  IN IF n < WindowMinFrames THEN <<>>
     ELSE IF n <= opt.window THEN <<Span(0, n - 1)>>
     ELSE IF rest >= opt.threshold THEN Append(full, Span(n - rest, n - 1))
     ELSE [full EXCEPT ![whole] = Span(@.start, n - 1)]

\* Ground-truth windows are those of the video, whatever the clip.
WindowsOf(c) == IF opt.gt # <<>> THEN opt.gt ELSE Windows(c.frames)

\* How many frames of a window are sampled, if that is in range.
FrameCount(w) ==
  LET most == 2 * (Least(MaxSampled, Length(w)) \div 2)
      wanted == Length(w) * opt.fps
  IN IF wanted <= MinSampled * Rate THEN Least(MinSampled, most)
     ELSE IF wanted >= most * Rate THEN most ELSE 2 * RoundDiv(wanted, 2 * Rate)

InRange(w) == FrameCount(w) >= 2 /\ FrameCount(w) <= Length(w)

\* Evenly spread from the first frame to the last but one.
FrameIds(w) ==
  LET n == FrameCount(w)
  IN [k \in 1..n |-> RoundDiv(w.start * (n - 1) + (k - 1) * (Length(w) - 1), n - 1)]

\* Mutant: the place of the slice does not move.
SlicesAgain(seq, counts) == [j \in DOMAIN counts |-> SubSeq(seq, 1, counts[j])]

Slices(seq, counts) ==
  LET upTo[j \in 0..Len(counts)] == IF j = 0 THEN 0 ELSE upTo[j - 1] + counts[j]
  IN [j \in DOMAIN counts |-> SubSeq(seq, upTo[j - 1] + 1, upTo[j])]

Prepared(c) ==
  LET ws == WindowsOf(c)
      ids == FlattenSeq([j \in DOMAIN ws |-> FrameIds(ws[j])])
      read == Decode([k \in DOMAIN ids |-> [frame |-> ids[k], count |-> 1]], c.frames)
  IN [c EXCEPT !.windows = ws,
               !.sampled = Slices(read, [j \in DOMAIN ws |-> FrameCount(ws[j])])]

\* A window that is too short raises out of the stage, after any retries.
PrepareWindows(t) ==
  LET clips == tasks[t].clips
      fits == \A i \in DOMAIN clips : \A j \in DOMAIN WindowsOf(clips[i]) :
                InRange(WindowsOf(clips[i])[j])
  IN /\ tasks[t].stage = "extracted"
     /\ tasks' = [tasks EXCEPT ![t] =
                    IF fits THEN [stage |-> "prepared", clips |-> [i \in DOMAIN clips |-> Prepared(clips[i])]]
                            ELSE [stage |-> "raised", clips |-> clips]]
     /\ UNCHANGED <<video, opt, phase, spans>>

Next == \/ DetectShots \/ CutByStride \/ Transcode
        \/ \E t \in DOMAIN tasks : ExtractFrames(t) \/ PrepareWindows(t)

Spec == Init /\ [][Next]_vars
=============================================================================
