-------------------------- MODULE ClipFramesProps --------------------------
(* What the clips, windows and frames of ClipFrames promise each other.    *)
EXTENDS ClipFrames

Frame == 0..(video.frames - 1)

-----------------------------------------------------------------------------
(* Clips.                                                                  *)

Crop == Most(opt.crop, 0)

\* Some shot ends at a transition; without one the video is taken whole or not at all.
HasShots == \E f \in Frame \ {0} : f \in video.cuts /\ f - 1 \notin video.cuts

\* The longest runs of frames that are no transitions; strides take the video for one shot.
Shots == IF ~opt.detect THEN {Span(0, video.frames)}
         ELSE {s \in {Span(a, b) : a \in Frame, b \in 1..video.frames} :
                 /\ s.start < s.end /\ s.start..(s.end - 1) \cap video.cuts = {}
                 /\ s.start = 0 \/ s.start - 1 \in video.cuts
                 /\ s.end = video.frames \/ s.end \in video.cuts}

Inside(c, s) == s.start <= c.start /\ c.end <= s.end

ClipsIn(s) == {i \in DOMAIN spans : Inside(spans[i], s)}

CoveredOf(s) == {f \in s.start..(s.end - 1) : \E i \in ClipsIn(s) : f \in spans[i].start..(spans[i].end - 1)}

\* What a shot may lose: the crop of each clip, an end that is too short, the last frame of the video.
MayLose(s) == 2 * Crop * Cardinality(ClipsIn(s)) + opt.min - 1 + 2 * Crop
              + (IF opt.detect /\ s.end = video.frames THEN 1 ELSE 0)

ShotIsUsed(s) ==
  IF opt.detect /\ opt.mode = "truncate"
  THEN Length(s) > opt.min + 2 * Crop => Cardinality(ClipsIn(s)) = 1
  ELSE Length(s) - Cardinality(CoveredOf(s)) <= MayLose(s)

\* The clips of a video follow each other without overlap, have the lengths that were
\* asked for and stay inside one shot, unless a video without shots is taken whole; and
\* no shot loses more than cropping and the minimal length explain, whenever the maximum
\* leaves room for both (clipping/transnetv2_extraction_stages.py, clip_extraction_stages.py).
ShotsBecomeClips ==
  phase # "input" =>
    /\ \A i, j \in DOMAIN spans : i < j => spans[i].end <= spans[j].start
    /\ \A i \in DOMAIN spans :
         /\ Length(spans[i]) \in Most(opt.min, 1)..opt.max
         /\ (opt.detect /\ ~HasShots /\ opt.whole) \/ \E s \in Shots : Inside(spans[i], s)
    /\ opt.limit = 0 /\ opt.max >= opt.min + 2 * Crop /\ (HasShots \/ ~opt.detect)
         => \A s \in Shots : ShotIsUsed(s)

-----------------------------------------------------------------------------
(* Windows.                                                                *)

Computed == opt.gt = <<>>

InWindow(f, w) == f \in w.start..w.end

WindowsWith(c, f) == {j \in DOMAIN c.windows : InWindow(f, c.windows[j])}

\* Every clip is in one chunk, in the order of the video; and with computed windows every
\* frame of a prepared clip is in exactly one window of it, or in none if the clip is too
\* short for any, and no window outgrows the window size by the threshold or more
\* (grouping.split_by_chunk_size, windowing_utils.compute_windows).
EveryFrameInOneWindow ==
  /\ phase = "cracked" =>
       FlattenSeq([t \in DOMAIN tasks |-> [i \in DOMAIN tasks[t].clips |-> tasks[t].clips[i].span]]) = spans
  /\ Computed =>
       \A t \in DOMAIN tasks : tasks[t].stage = "prepared" =>
         \A i \in DOMAIN tasks[t].clips :
           LET c == tasks[t].clips[i]
           IN /\ \A f \in 0..(c.frames - 1) :
                   Cardinality(WindowsWith(c, f)) = IF c.frames < WindowMinFrames THEN 0 ELSE 1
              /\ \A j \in DOMAIN c.windows :
                   /\ c.windows[j].end < c.frames
                   /\ \/ Length(c.windows[j]) + 1 <= opt.window
                      \/ Length(c.windows[j]) + 1 < opt.window + Least(opt.window, opt.threshold)

\* Windows that can be sampled: in order, apart, inside the clip and of three frames or more.
Sound(c, ws) ==
  /\ \A j \in DOMAIN ws : Length(ws[j]) >= 2 /\ ws[j].start >= 0 /\ ws[j].end < c.frames
  /\ \A j, k \in DOMAIN ws : j < k => ws[j].end < ws[k].start

Faithful(c, j) ==
  LET shown == c.sampled[j]
  IN /\ Len(shown) \in 2..MaxSampled
     /\ \A k \in DOMAIN shown : InWindow(shown[k], c.windows[j])
     /\ \A k, l \in DOMAIN shown : k < l => shown[k] < shown[l]

\* The frames the captioner is shown of a window are frames of this window, in order and
\* none of them twice or uninitialized, for computed windows and for ground-truth windows
\* that fit the clip; and preparation raises only for windows of less than three frames
\* (vision_process.read_video_cpu, decoder_utils.decode_video_cpu_frame_ids).
FramesMatchWindows ==
  \A t \in DOMAIN tasks :
    /\ tasks[t].stage = "prepared" =>
         \A i \in DOMAIN tasks[t].clips :
           LET c == tasks[t].clips[i]
           IN /\ Len(c.sampled) = Len(c.windows)
              /\ Sound(c, c.windows) => \A j \in DOMAIN c.windows : Faithful(c, j)
              /\ Computed => Sound(c, c.windows)
    /\ tasks[t].stage = "raised" =>
         \E i \in DOMAIN tasks[t].clips : ~Sound(tasks[t].clips[i], WindowsOf(tasks[t].clips[i]))

-----------------------------------------------------------------------------
(* Rates.                                                                  *)

Distance(r, f, k) == LET d == f * r - k * Rate IN Most(d, -d)

\* Whatever other rates are asked for, the k-th frame a consumer of rate r finds is the
\* one closest to k / r seconds, and its frames reach to the end of the clip: one more
\* would be later than the last frame (decoder_utils.sample_closest, the shared rate of
\* clip_frame_extraction_stages.py:103-166).
RatesAgree ==
  \A t \in DOMAIN tasks : tasks[t].stage # "transcoded" =>
    \A i \in DOMAIN tasks[t].clips : \A r \in Range(opt.rates) :
      LET c == tasks[t].clips[i]
          shown == c.extracted[r]
      IN /\ \A k \in DOMAIN shown :
              /\ shown[k] \in 0..(c.frames - 1)
              /\ \A f \in 0..(c.frames - 1) : Distance(r, shown[k], k - 1) <= Distance(r, f, k - 1)
         /\ Len(shown) * Rate > (c.frames - 1) * r

-----------------------------------------------------------------------------
(* Why they hold: what is true of the inputs, the clips and the chunks.    *)

Interval == {s \in [start : Nat, end : Nat] : s.start < s.end}

InputsInv == video \in Videos /\ opt \in Options

SpansInv == spans \in Seq(Interval)

Encoded(c) == /\ DOMAIN c = {"span", "frames", "extracted", "windows", "sampled"}
              /\ c.span \in Interval /\ c.frames = Length(c.span)

\* The clips of a chunk are as encoded at every stage, and there are none before the end.
TasksInv == /\ phase # "cracked" => tasks = <<>>
            /\ \A t \in DOMAIN tasks :
                 /\ tasks[t].stage \in {"transcoded", "extracted", "prepared", "raised"}
                 /\ \A i \in DOMAIN tasks[t].clips : Encoded(tasks[t].clips[i])

ClipsInv == InputsInv /\ SpansInv /\ TasksInv
=============================================================================
