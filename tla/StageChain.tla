----------------------------- MODULE StageChain -----------------------------
(***************************************************************************)
(* One clip-chunk task going through the stages that the split pipeline    *)
(* assembles between transcoding and the clip writer: filters, frame       *)
(* extraction, embedding, captioning, previews, judges and T5.             *)
(*                                                                         *)
(* Every stage is one action on the whole task, as process_data is: it     *)
(* walks video.clips (here "passing"), may move clips to                   *)
(* video.filtered_clips ("filtered"), and records what went wrong with a   *)
(* clip in clip.errors.  What the models, decoders and services answer is  *)
(* chosen with \E; a configuration is chosen once, in Init.  A stage that  *)
(* lets an exception out sets "raised": the run dies there.  It may raise  *)
(* for want of what an earlier stage should have left (EnterUnless), or    *)
(* because a call of its own failed that no try of it covers (OwnFault).   *)
(***************************************************************************)
EXTENDS Integers, FiniteSets, Sequences

CONSTANTS
  Clip,     \* the clips of the chunk
  Window,   \* the caption windows a clip can have
  Configs   \* the configurations checked: a set of records, see Config

\* What the command line chooses.  "score-only" of the aesthetic filter is its
\* negative threshold; judges are the evidence kinds of the judge variants.
Config == [motion    : {"disable", "enable", "score-only"},
           aesthetic : {"disable", "enable", "score-only"},
           semantic  : {"disable", "enable", "score-only"},
           classifier: BOOLEAN,
           embedding : {"none", "internvideo2", "cosmos-embed1", "cradio", "openai"},
           caption   : {"none", "vllm", "gemini", "openai", "gemma4"},
           previews  : BOOLEAN,
           enhance   : BOOLEAN,
           judges    : {<<>>, <<"text">>, <<"mp4_bytes">>, <<"text", "mp4_bytes">>},
           predict   : BOOLEAN]

ServiceCaption == {"gemini", "openai"}

ASSUME ChainAssumption == IsFiniteSet(Clip) /\ Configs \subseteq Config

VARIABLES
  cfg,       \* the configuration of the run
  todo,      \* the stages the task has still to go through
  clip,      \* the data and errors of each clip
  passing,   \* video.clips
  filtered,  \* video.filtered_clips
  stats,     \* video.clip_stats: num_filtered_by_*, num_passed
  videoErrors, \* video.errors: what went wrong with the chunk as a whole
  raised     \* "no", "own" for a call of a stage's own that failed, or the
             \* stage that missed what an earlier one should have left it

vars == <<cfg, todo, clip, passing, filtered, stats, videoErrors, raised>>

Kinds == {"text", "mp4_bytes"}
QwenKeys == {"classifier", "semantic"}

FreshWindow == [mp4 |-> FALSE, input |-> FALSE, caption |-> "no", enhanced |-> FALSE,
                verdict |-> [k \in Kinds |-> "no"], t5 |-> FALSE, webp |-> FALSE,
                failed |-> FALSE]

FreshClip == [enc |-> FALSE, motion |-> FALSE, frames |-> {}, embIn |-> FALSE,
              emb |-> FALSE, prepared |-> FALSE, inputs |-> {}, typed |-> FALSE,
              rejectedBy |-> "no", wins |-> {},
              win |-> [w \in Window |-> FreshWindow], errors |-> {}]

-----------------------------------------------------------------------------
(* Assembly: _assemble_stages, the phases and PipelineBuilder.             *)

When(b, s) == IF b THEN s ELSE <<>>

FramesUsed(c) == c.aesthetic # "disable" \/ c.embedding # "none"
QwenUsed(c) == c.semantic # "disable" \/ c.classifier

\* The frame rates the extraction stage keeps: one for each consumer.
TargetFps(c) == (IF c.aesthetic # "disable" THEN {1} ELSE {})
                  \cup (IF c.embedding # "none" THEN {2} ELSE {})

\* Mutants: one consumer of the bytes is forgotten.
KeepMp4NoJudges(c) == c.previews \/ c.predict \/ c.caption \in ServiceCaption
KeepMp4NoPreviews(c) == \/ c.predict \/ c.caption \in ServiceCaption
                        \/ \E i \in DOMAIN c.judges : c.judges[i] = "mp4_bytes"

\* Whether the windows keep their mp4 bytes behind the caption stage.
KeepMp4(c) == \/ c.previews \/ c.predict
              \/ c.caption \in ServiceCaption
              \/ \E i \in DOMAIN c.judges : c.judges[i] = "mp4_bytes"

JudgeStage(k) == IF k = "text" THEN "judge_text" ELSE "judge_mp4"

Phases(c) == <<"transcode">>
  \o When(c.motion # "disable", <<"motion">>)
  \o When(FramesUsed(c), <<"frames">>)
  \o When(c.aesthetic # "disable", <<"aesthetic">>)
  \o When(QwenUsed(c), <<"qwen">>)
  \o When(c.embedding # "none", <<"embedding">>)
  \o When(c.caption # "none", <<"captioning">>)
  \o When(c.judges # <<>>, <<"judge">>)
  \o When(c.predict, <<"t5">>)
  \o <<"output">>

Requires == [transcode |-> {}, motion |-> {"transcoded"}, frames |-> {"transcoded"},
             aesthetic |-> {"frames_extracted"}, qwen |-> {"transcoded"},
             embedding |-> {"frames_extracted"}, captioning |-> {"transcoded"},
             judge |-> {"captioned"}, t5 |-> {"captioned"}, output |-> {"transcoded"}]
Populates == [transcode |-> {"transcoded"}, motion |-> {"motion_scored"},
              frames |-> {"frames_extracted"}, aesthetic |-> {"aesthetics_scored"},
              qwen |-> {"qwen_filtered"}, embedding |-> {"embedded"},
              captioning |-> {"captioned"}, judge |-> {"judged"},
              t5 |-> {"t5_encoded"}, output |-> {}]

\* PipelineBuilder.add_phase: each phase finds its tokens among those before it.
BuilderAccepts(ps) ==
  \A i \in DOMAIN ps : Requires[ps[i]] \subseteq UNION {Populates[ps[j]] : j \in 1..(i - 1)}

QwenStages(c) == When(QwenUsed(c), <<"qwen_prep">>)
  \o When(c.classifier, <<"classifier">>)
  \o When(c.semantic # "disable", <<"semantic">>)

EmbeddingStages(c) ==
  When(c.embedding \notin {"none", "openai"}, <<"embed_frames">>)
  \o When(c.embedding # "none", <<"embed">>)

CaptioningStages(c) ==
  (CASE c.caption = "none"   -> <<>>
     [] c.caption = "gemma4" -> <<"gemma4">>
     [] OTHER -> <<"caption_prep">> \o When(c.previews, <<"preview">>) \o <<"caption">>)
  \o When(c.caption # "none" /\ c.enhance, <<"enhance">>)

Stages(c) == <<"transcode">>
  \o When(c.motion # "disable", <<"motion_decode", "motion_filter">>)
  \o When(FramesUsed(c), <<"frame_extraction">>)
  \o When(c.aesthetic # "disable", <<"aesthetic">>)
  \o QwenStages(c) \o EmbeddingStages(c) \o CaptioningStages(c)
  \o [i \in DOMAIN c.judges |-> JudgeStage(c.judges[i])]
  \o When(c.predict, <<"t5">>)
  \o <<"output">>

Reasons == {"motion", "aesthetic", "classifier", "semantic"}

Init == /\ cfg \in {c \in Configs : BuilderAccepts(Phases(c))}
        /\ todo = Stages(cfg)
        /\ clip = [c \in Clip |-> FreshClip]
        /\ passing = Clip /\ filtered = {}
        /\ stats = [r \in Reasons \cup {"passed"} |-> 0]
        /\ videoErrors = {} /\ raised = "no"

-----------------------------------------------------------------------------
(* What the stages have in common.                                         *)

\* A stage takes the task; what it raises kills the run.
Take(s, raises) == /\ raised = "no" /\ todo # <<>> /\ Head(todo) = s
                   /\ todo' = Tail(todo)
                   /\ raised' = IF raises THEN s ELSE raised
                   /\ UNCHANGED cfg

\* All stages but one note what goes wrong on the clips, not on the video.
EnterUnless(s, raises) == Take(s, raises) /\ UNCHANGED videoErrors

Enter(s) == EnterUnless(s, FALSE)

Flag(r, e) == [r EXCEPT !.errors = @ \cup {e}]

\* The loop over video.clips: every passing clip becomes F of itself.
Over(F(_)) == clip' = [c \in Clip |-> IF c \in passing THEN F(c) ELSE clip[c]]

\* Clips below a threshold move to filtered_clips and are counted.
MoveOut(out, reason) == /\ passing' = passing \ out
                        /\ filtered' = filtered \cup out
                        /\ stats' = [stats EXCEPT ![reason] = @ + Cardinality(out)]

NoneMoved == UNCHANGED <<passing, filtered, stats>>

Encoded == {c \in passing : clip[c].enc}

-----------------------------------------------------------------------------
(* Transcoding, motion, frames and aesthetics.                             *)

\* ffmpeg encodes the clips batch by batch; a failed batch, or a clip whose
\* metadata cannot be read back, leaves clips without encoded_data.
Transcode ==
  /\ Enter("transcode")
  /\ \E ok \in SUBSET passing :
       Over(LAMBDA c : IF c \in ok THEN [clip[c] EXCEPT !.enc = TRUE]
                       ELSE Flag(clip[c], "transcode"))
  /\ NoneMoved

MotionDecode ==
  /\ Enter("motion_decode")
  /\ \E ok \in SUBSET Encoded :
       Over(LAMBDA c : IF c \in ok THEN [clip[c] EXCEPT !.motion = TRUE]
                       ELSE Flag(clip[c], IF clip[c].enc THEN "motion_decode" ELSE "encoded_data"))
  /\ NoneMoved

\* A clip without motion data scores -1, below every threshold.
MotionFilter ==
  /\ Enter("motion_filter")
  /\ \E still \in SUBSET passing :
       /\ {c \in passing : ~clip[c].motion} \subseteq still
       /\ MoveOut(IF cfg.motion = "score-only" THEN {} ELSE still, "motion")
  /\ Over(LAMBDA c : [clip[c] EXCEPT !.motion = FALSE])

\* A clip that cannot be decoded loses its encoded_data.
FrameExtraction ==
  /\ Enter("frame_extraction")
  /\ \E ok \in SUBSET Encoded :
       Over(LAMBDA c : IF c \in ok THEN [clip[c] EXCEPT !.frames = TargetFps(cfg)]
                       ELSE IF clip[c].enc
                            THEN [Flag(clip[c], "frame_extraction") EXCEPT !.enc = FALSE]
                            ELSE Flag(clip[c], "encoded_data"))
  /\ NoneMoved

\* Mutant: the stage drops the frames of every rate.
AestheticRestNone(frames) == {}

\* What the aesthetic stage leaves of the shared frames: it pops its own rate.
AestheticRest(frames) == frames \ {1}

\* A clip it cannot score gets -1, which only a threshold above -1 filters.
Aesthetic ==
  /\ Enter("aesthetic")
  /\ \E low \in SUBSET passing :
       /\ {c \in passing : ~clip[c].enc \/ 1 \notin clip[c].frames} \subseteq low
       /\ MoveOut(IF cfg.aesthetic = "score-only" THEN {} ELSE low, "aesthetic")
  /\ Over(LAMBDA c : IF ~clip[c].enc THEN Flag(clip[c], "encoded_data")
                     ELSE IF 1 \notin clip[c].frames THEN Flag(clip[c], "frames")
                     ELSE [clip[c] EXCEPT !.frames = AestheticRest(@)])

-----------------------------------------------------------------------------
(* The Qwen video-type classifier and semantic filter, and their shared    *)
(* preparation.  One filter window stands for those of a clip.             *)

QwenInputs(c) == (IF c.classifier THEN {"classifier"} ELSE {})
                   \cup (IF c.semantic # "disable" THEN {"semantic"} ELSE {})

\* The preparation can find no window in a clip, or fail to make the model input
\* of one; what cutting or decoding the windows raises is left to OwnFault.
QwenPrep ==
  /\ Enter("qwen_prep")
  /\ \E ready \in SUBSET Encoded : \E failed \in SUBSET (Encoded \ ready) :
       Over(LAMBDA c :
              IF c \in ready THEN [clip[c] EXCEPT !.prepared = TRUE, !.inputs = QwenInputs(cfg)]
              ELSE IF c \in failed THEN Flag(clip[c], "qwen_input")
              ELSE IF clip[c].enc THEN clip[c]
              ELSE Flag(clip[c], "encoded_data"))
  /\ NoneMoved

\* Mutant: each stage clears what it has read.
ClearsInputsAlways(key) == TRUE

\* Only the last stage that reads the inputs may clear them.
ClearsInputs(key) == key = "semantic" \/ cfg.semantic = "disable"

\* What a Qwen stage records on a passing clip: bad clips fail its criteria,
\* those without an input for it count as failed in preparation.
QwenMark(r, key, bad) ==
  LET mark(q) == [q EXCEPT !.rejectedBy = key]
  IN IF key \in r.inputs
     THEN IF bad THEN mark([r EXCEPT !.typed = @ \/ key = "classifier"])
          ELSE [r EXCEPT !.typed = @ \/ key = "classifier"]
     ELSE mark([r EXCEPT !.errors =
                  @ \cup {"qwen", IF r.prepared THEN "window" ELSE "windows"}])

\* The loop at the end of _filter_clips: the inputs of every clip of the video,
\* filtered before or not.
QwenClear(r, key) == IF ClearsInputs(key) THEN [r EXCEPT !.inputs = {}] ELSE r

\* Mutant: clips filtered before are taken again.
QwenOutOfAll(key, bad) == bad \cup {c \in Clip : key \notin clip[c].inputs}

\* The clips a Qwen stage moves out: those judged bad, those without results.
QwenOut(key, bad) == bad \cup {c \in passing : key \notin clip[c].inputs}

Qwen(key, judged) ==
  /\ Enter(key)
  /\ \E bad \in SUBSET {c \in judged : key \in clip[c].inputs} :
       /\ MoveOut(QwenOut(key, bad), key)
       /\ clip' = [c \in Clip |->
                    QwenClear(IF c \in passing THEN QwenMark(clip[c], key, c \in bad)
                              ELSE clip[c], key)]

Classifier == Qwen("classifier", passing)

\* Score-only spares the clips the model rejects, not those it could not see.
Semantic == Qwen("semantic", IF cfg.semantic = "score-only" THEN {} ELSE passing)

-----------------------------------------------------------------------------
(* Embeddings.                                                             *)

\* The model's input frames; the last consumer drops the extracted ones.
EmbedInput(r) == IF ~r.enc THEN Flag(r, "encoded_data")
                 ELSE IF 2 \notin r.frames THEN Flag(r, "frames")
                 ELSE [r EXCEPT !.embIn = TRUE, !.frames = {}]

\* CRadioFrameCreationStage asks a dictionary that is not there.
CRadioBreaks == cfg.embedding = "cradio" /\ \E c \in passing : clip[c].frames = {}

EmbedFrames ==
  /\ EnterUnless("embed_frames", CRadioBreaks)
  /\ Over(LAMBDA c : EmbedInput(clip[c]))
  /\ NoneMoved

\* A local model embeds the clips that have input frames, and drops the frames.
Ready == {c \in passing : clip[c].embIn}
Embed(model, ok) ==
  /\ cfg.embedding = model /\ Enter("embed")
  /\ Over(LAMBDA c : [IF c \in ok THEN [clip[c] EXCEPT !.emb = TRUE]
                      ELSE Flag(clip[c], "embedding") EXCEPT !.embIn = FALSE])
  /\ NoneMoved

\* Cosmos-Embed1 and C-RADIO may return nothing for a clip.
EmbedInternVideo2 == Embed("internvideo2", Ready)
EmbedCosmosEmbed1 == \E ok \in SUBSET Ready : Embed("cosmos-embed1", ok)
EmbedCRadio == \E ok \in SUBSET Ready : Embed("cradio", ok)

\* The service is asked clip by clip; a clip it fails keeps its frames.
EmbedOpenAI ==
  /\ cfg.embedding = "openai" /\ Enter("embed")
  /\ \E ok \in SUBSET {c \in passing : 2 \in clip[c].frames} :
       Over(LAMBDA c : IF c \in ok THEN [clip[c] EXCEPT !.emb = TRUE, !.frames = {}]
                       ELSE Flag(clip[c], "embedding"))
  /\ NoneMoved

-----------------------------------------------------------------------------
(* Captions, previews, judges, T5.                                         *)

Slots(S) == {s \in S \X Window : s[2] \in clip[s[1]].wins}

\* Every window of every passing clip becomes F of itself.
OverWindows(F(_, _)) ==
  Over(LAMBDA c : [clip[c] EXCEPT !.win =
         [w \in Window |-> IF w \in clip[c].wins THEN F(c, w) ELSE @[w]]])

\* make_windows_for_video: windows for each encoded clip, for some clips none;
\* what cutting or decoding them raises is left to OwnFault.
Windowed(c, wins, mp4, input) ==
  [clip[c] EXCEPT !.wins = wins,
     !.win = [w \in Window |->
                IF w \in wins THEN [@[w] EXCEPT !.mp4 = mp4, !.input = input] ELSE @[w]]]

CaptionPrep ==
  /\ Enter("caption_prep")
  /\ \E wins \in [Encoded -> SUBSET Window] :
       Over(LAMBDA c : IF clip[c].enc
                       THEN Windowed(c, wins[c], KeepMp4(cfg), cfg.caption = "vllm")
                       ELSE Flag(clip[c], "encoded_data"))
  /\ NoneMoved

\* Gemma4 windows, decodes and captions in one stage, without keeping mp4 bytes.
\* Only its model call is inside a try: for the windowing see OwnFault.
Gemma4Direct ==
  /\ Enter("gemma4")
  /\ \E wins \in [Encoded -> SUBSET Window] :
     \E ok \in SUBSET UNION {{c} \X wins[c] : c \in Encoded} :
       Over(LAMBDA c :
              IF ~clip[c].enc THEN Flag(clip[c], "encoded_data")
              ELSE [Windowed(c, wins[c], FALSE, FALSE) EXCEPT !.win =
                      [w \in Window |->
                         IF w \notin wins[c] THEN @[w]
                         ELSE IF <<c, w>> \in ok THEN [@[w] EXCEPT !.caption = "text"]
                         ELSE [@[w] EXCEPT !.failed = TRUE]]])
  /\ NoneMoved

\* A window without mp4 bytes raises; ffmpeg failing leaves it without a webp.
Preview ==
  /\ EnterUnless("preview", \E s \in Slots(passing) : ~clip[s[1]].win[s[2]].mp4)
  /\ \E ok \in SUBSET Slots(passing) :
       OverWindows(LAMBDA c, w : [clip[c].win[w] EXCEPT !.webp = <<c, w>> \in ok])
  /\ NoneMoved

\* A failed attempt notes an error on the video, the next one that succeeds takes
\* it back; when every retry failed the note stays and all captions are "".
CaptionErrors(answer) ==
  IF \A s \in Slots(passing) : ~clip[s[1]].win[s[2]].input THEN videoErrors
  ELSE IF answer = "empty" THEN videoErrors \cup {"captioning"}
  ELSE videoErrors \ {"captioning"}

\* The engine answers all windows (with some words), or none; then the inputs
\* are freed, and the mp4 bytes unless somebody needs them.
CaptionVllm ==
  /\ cfg.caption = "vllm" /\ Take("caption", FALSE)
  /\ \E answer \in {"text", "empty"} :
       /\ OverWindows(LAMBDA c, w :
            [clip[c].win[w] EXCEPT
               !.caption = IF clip[c].win[w].input THEN answer ELSE @,
               !.input = FALSE,
               !.mp4 = @ /\ KeepMp4(cfg)])
       /\ videoErrors' = CaptionErrors(answer)
  /\ NoneMoved

\* Mutant: a failed request is logged and not noted.
AnsweredQuietly(ok) ==
  Over(LAMBDA c :
    [clip[c] EXCEPT !.win = [w \in Window |-> IF <<c, w>> \in ok THEN [@[w] EXCEPT !.caption = "text"]
                                              ELSE @[w]]])

\* The services are asked window by window; a failure is noted on the clip.
Answered(ok) ==
  Over(LAMBDA c :
    [clip[c] EXCEPT
       !.win = [w \in Window |-> IF <<c, w>> \in ok THEN [@[w] EXCEPT !.caption = "text"]
                                 ELSE @[w]],
       !.errors = @ \cup {"caption" : w \in {v \in clip[c].wins : <<c, v>> \notin ok}}])

WithMp4 == {s \in Slots(passing) : clip[s[1]].win[s[2]].mp4}

CaptionGemini == /\ cfg.caption = "gemini" /\ Enter("caption")
                 /\ \E ok \in SUBSET WithMp4 : Answered(ok)
                 /\ NoneMoved

CaptionOpenAI == /\ cfg.caption = "openai" /\ Enter("caption")
                 /\ \E ok \in SUBSET WithMp4 : Answered(ok)
                 /\ NoneMoved

Enhance ==
  /\ Enter("enhance")
  /\ Over(LAMBDA c :
       LET lacking == {w \in clip[c].wins : clip[c].win[w].caption = "no"}
       IN [clip[c] EXCEPT
             !.win = [w \in Window |->
                        [@[w] EXCEPT !.enhanced = w \in clip[c].wins \ lacking]],
             !.errors = @ \cup (IF clip[c].wins = {} THEN {"windows"} ELSE {})
                          \cup (IF lacking = {} THEN {} ELSE {"window"})])
  /\ NoneMoved

\* Mutant: windows without a caption are judged too.
JudgedAll(k) == {s \in Slots(passing) : clip[s[1]].win[s[2]].verdict[k] = "no"}

\* Windows with a caption that is not empty, and not yet judged by this judge.
Judged(k) == {s \in Slots(passing) : /\ clip[s[1]].win[s[2]].caption = "text"
                                     /\ clip[s[1]].win[s[2]].verdict[k] = "no"}

\* A batch may fail, and a judge that watches the video says nothing of a window
\* without bytes: both are recorded as a judgement without a verdict.
Judge(k) ==
  /\ Enter(JudgeStage(k))
  /\ \E sure \in SUBSET {s \in Judged(k) : k = "text" \/ clip[s[1]].win[s[2]].mp4} :
       OverWindows(LAMBDA c, w :
         [clip[c].win[w] EXCEPT !.verdict[k] =
            IF <<c, w>> \notin Judged(k) THEN @
            ELSE IF <<c, w>> \in sure THEN "verdict" ELSE "none"])
  /\ NoneMoved

T5 == /\ Enter("t5")
      /\ OverWindows(LAMBDA c, w : [clip[c].win[w] EXCEPT !.t5 = clip[c].win[w].caption # "no"])
      /\ NoneMoved

-----------------------------------------------------------------------------
\* The writer counts the clips that passed, then cleans up: its loop deletes
\* from the model inputs it iterates over, and raises when there are any.
Output ==
  /\ EnterUnless("output", \E s \in Slots(passing \cup filtered) : clip[s[1]].win[s[2]].input)
  /\ stats' = [stats EXCEPT !["passed"] = Cardinality(passing)]
  /\ UNCHANGED <<clip, passing, filtered>>

-----------------------------------------------------------------------------
(* Exceptions of the stages' own making.                                   *)

\* What no try covers: split_video_into_windows (clips too short, a decode or an
\* ffmpeg that fails), the length of a judge's answer, the local models.
Unguarded(s) ==
  \/ s \in {"qwen_prep", "caption_prep", "gemma4"} /\ Encoded # {}
  \/ \E k \in Kinds : s = JudgeStage(k) /\ Judged(k) # {}
  \/ s \in {"aesthetic", "classifier", "semantic", "embed_frames", "enhance", "t5"}
       /\ passing # {}
  \/ s = "embed" /\ cfg.embedding # "openai" /\ passing # {}

\* The exception leaves process_data, and what the stage had done is lost.
OwnFault == /\ raised = "no" /\ todo # <<>> /\ Unguarded(Head(todo))
            /\ raised' = "own"
            /\ UNCHANGED <<cfg, todo, clip, passing, filtered, stats, videoErrors>>

Work == \/ Transcode \/ MotionDecode \/ MotionFilter \/ FrameExtraction \/ Aesthetic
        \/ QwenPrep \/ Classifier \/ Semantic
        \/ EmbedFrames \/ EmbedInternVideo2 \/ EmbedCosmosEmbed1 \/ EmbedCRadio \/ EmbedOpenAI
        \/ CaptionPrep \/ Gemma4Direct \/ Preview \/ CaptionVllm \/ CaptionGemini \/ CaptionOpenAI
        \/ Enhance \/ (\E k \in Kinds : Judge(k)) \/ T5
        \/ Output

Next == Work \/ OwnFault

Spec == Init /\ [][Next]_vars
=============================================================================
