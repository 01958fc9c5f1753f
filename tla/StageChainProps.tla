--------------------------- MODULE StageChainProps ---------------------------
(***************************************************************************)
(* What the stages of a split pipeline owe each other: the clips, frames,  *)
(* bytes and inputs one stage leaves are what the next ones count on.      *)
(***************************************************************************)
EXTENDS StageChain

Marks == {"transcode", "encoded_data", "motion_decode", "frame_extraction", "frames",
          "qwen_input", "qwen", "window", "windows", "embedding", "caption"}

WindowType == [mp4 : BOOLEAN, input : BOOLEAN, caption : {"no", "empty", "text"},
               enhanced : BOOLEAN, verdict : [Kinds -> {"no", "none", "verdict"}],
               t5 : BOOLEAN, webp : BOOLEAN, failed : BOOLEAN]

ClipType == [enc : BOOLEAN, motion : BOOLEAN, frames : SUBSET {1, 2}, embIn : BOOLEAN,
             emb : BOOLEAN, prepared : BOOLEAN, inputs : SUBSET QwenKeys,
             typed : BOOLEAN, rejectedBy : QwenKeys \cup {"no"}, wins : SUBSET Window,
             win : [Window -> WindowType], errors : SUBSET Marks]

\* Every variable of the chain keeps its type through every stage.
TypeOK == /\ cfg \in Configs
          /\ clip \in [Clip -> ClipType]
          /\ passing \in SUBSET Clip /\ filtered \in SUBSET Clip
          /\ stats \in [Reasons \cup {"passed"} -> Nat]
          /\ videoErrors \subseteq {"captioning"}

\* No filter loses a clip or keeps it twice, and the counters that the writer
\* puts in the chunk's metadata add up to the clips it lists: those filtered by
\* each stage, and at the end those that passed.
FilteredCount == stats["motion"] + stats["aesthetic"] + stats["classifier"] + stats["semantic"]
ClipAccounting ==
  /\ passing \cap filtered = {} /\ passing \cup filtered = Clip
  /\ FilteredCount = Cardinality(filtered)
  /\ \A k \in QwenKeys : stats[k] = Cardinality({c \in filtered : clip[c].rejectedBy = k})
  /\ todo = <<>> => FilteredCount + stats["passed"] = Cardinality(Clip)

StillToCome(s) == \E i \in DOMAIN todo : todo[i] = s

\* The frame rates that stages still to come read.
Wanted == (IF StillToCome("aesthetic") THEN {1} ELSE {})
            \cup (IF StillToCome("embed_frames") \/ (cfg.embedding = "openai" /\ StillToCome("embed"))
                  THEN {2} ELSE {})

\* The frames shared by the aesthetic and the embedding stage: once extracted, a
\* clip in play holds exactly the rates somebody still has to read - none is
\* dropped too early, none is carried to the writer, except by a clip whose
\* embedding the service refused.
FramesMatchConsumers ==
  (FramesUsed(cfg) /\ ~StillToCome("frame_extraction")) =>
    \A c \in passing : \/ clip[c].frames = Wanted
                       \/ ~clip[c].enc /\ clip[c].frames = {}
                       \/ "embedding" \in clip[c].errors

AtOutput == raised = "no" /\ todo = <<"output">>

\* A clip that reaches the writer without a product that was asked for has a reason
\* on record.  A missing embedding, or a window a service gave no caption, is an
\* error of the clip.  The vLLM captioner gives every window a caption, and when it
\* gave up the caption is "" and the error is one of the video: the clip's own
\* metadata then has has_caption true and no error, and it is the record of the
\* chunk that says captioning failed.  (A clip without windows is written as not
\* valid.  Gemma4 is left out: it notes its failures on windows, which the writer
\* does not read.)
MissingHasReason ==
  AtOutput => \A c \in passing :
    /\ (cfg.embedding # "none" /\ ~clip[c].emb) => clip[c].errors # {}
    /\ (/\ cfg.caption \in ServiceCaption
        /\ \E w \in clip[c].wins : clip[c].win[w].caption = "no") => clip[c].errors # {}
    /\ cfg.caption = "vllm" => \A w \in clip[c].wins :
         \/ clip[c].win[w].caption = "text"
         \/ clip[c].win[w].caption = "empty" /\ videoErrors # {}

\* A judge that watches the video finds the bytes of every window it judges: the
\* captioning stages keep them when a judge needs them.
EvidenceKept ==
  (todo # <<>> /\ Head(todo) = "judge_mp4") =>
    \A s \in Slots(passing) : clip[s[1]].win[s[2]].caption = "text" => clip[s[1]].win[s[2]].mp4

\* The same for the configurations whose windows are prepared by the vLLM and API
\* stages.
EvidenceKeptByPrep == cfg.caption # "gemma4" => EvidenceKept

\* When the writer is reached, every judge of the run has seen every window with a
\* caption, and no other.
JudgesSeeCaptions ==
  AtOutput => \A s \in Slots(passing) : \A i \in DOMAIN cfg.judges :
    clip[s[1]].win[s[2]].caption = "text"
      <=> clip[s[1]].win[s[2]].verdict[cfg.judges[i]] # "no"

\* No stage dies for want of what an earlier stage should have left it, whatever
\* clips could not be encoded, decoded or windowed: previews find the bytes they
\* need, and the writer no model input to delete from the dictionary it iterates
\* over.  What a stage dies of then is a call of its own (OwnFault).  (C-RADIO's
\* frame stage is the exception.)
OnlyOwnFaultsRaise == cfg.embedding # "cradio" => raised \in {"no", "own"}

\* A clip is failed for want of a prepared window only when its preparation
\* failed: the classifier leaves the semantic filter its inputs.
NoFalsePrepFailure == \A c \in Clip : "qwen" \in clip[c].errors => ~clip[c].prepared

-----------------------------------------------------------------------------
(* The inductive invariant behind these properties.                        *)

\* The order of the stages, whatever the configuration leaves out.
Rank == [transcode |-> 1, motion_decode |-> 2, motion_filter |-> 3, frame_extraction |-> 4,
         aesthetic |-> 5, qwen_prep |-> 6, classifier |-> 7, semantic |-> 8,
         embed_frames |-> 9, embed |-> 10, gemma4 |-> 11, caption_prep |-> 12,
         preview |-> 13, caption |-> 14, enhance |-> 15, judge_text |-> 16,
         judge_mp4 |-> 17, t5 |-> 18, output |-> 19]
Stage == DOMAIN Rank

Elems(q) == {q[i] : i \in DOMAIN q}
InRun == Elems(Stages(cfg))
Left == Elems(todo)

\* The task goes through the stages of its run in their order: those it has
\* been through come before those it has still to go through.
TodoOrdered ==
  /\ todo \in Seq(Stage) /\ Left \subseteq InRun
  /\ \A i, j \in DOMAIN todo : i < j => Rank[todo[i]] < Rank[todo[j]]
  /\ \A s \in InRun \ Left, t \in Left : Rank[s] < Rank[t]

\* Each filter counts the clips it moves, and nobody moves a clip twice.
ClipsCounted ==
  /\ passing \cap filtered = {} /\ passing \cup filtered = Clip
  /\ FilteredCount = Cardinality(filtered)
  /\ \A k \in QwenKeys : stats[k] = Cardinality({c \in filtered : clip[c].rejectedBy = k})
  /\ \A c \in passing : clip[c].rejectedBy = "no"
  /\ "output" \notin Left => stats["passed"] = Cardinality(passing)

\* A prepared clip in play has the inputs of the Qwen stages still to come.
QwenInputsThere ==
  /\ \A c \in Clip : "qwen" \in clip[c].errors => c \notin passing /\ ~clip[c].prepared
  /\ \A c \in passing, k \in QwenKeys : (k \in Left /\ clip[c].prepared) => k \in clip[c].inputs

FramesHeld ==
  FramesUsed(cfg) =>
    \A c \in passing : IF "frame_extraction" \in Left THEN clip[c].frames = {}
                       ELSE \/ clip[c].enc /\ clip[c].frames = Wanted
                            \/ ~clip[c].enc /\ clip[c].frames = {}
                            \/ "embedding" \in clip[c].errors

EmbeddingsExplained ==
  (cfg.embedding # "none" /\ "embed" \notin Left) =>
    \A c \in passing : clip[c].emb \/ clip[c].errors # {}

\* Model inputs exist between their preparation and their use, and only on the
\* windows the captioning stage goes over.
InputsInTransit ==
  /\ \A c \in Clip, w \in Window : clip[c].win[w].input =>
       /\ cfg.caption = "vllm" /\ "caption_prep" \notin Left /\ "caption" \in Left
       /\ c \in passing /\ w \in clip[c].wins
  /\ (cfg.caption = "vllm" /\ "caption" \in Left) =>
       \A c \in passing : \A w \in clip[c].wins : clip[c].win[w].input

BytesKept ==
  (KeepMp4(cfg) /\ cfg.caption # "gemma4") =>
    \A c \in passing : \A w \in clip[c].wins : clip[c].win[w].mp4

CaptionsExplained ==
  "caption" \notin Left => \A c \in passing : \A w \in clip[c].wins :
    /\ (cfg.caption \in ServiceCaption /\ clip[c].win[w].caption = "no") => clip[c].errors # {}
    /\ cfg.caption = "vllm" => \/ clip[c].win[w].caption = "text"
                               \/ clip[c].win[w].caption = "empty" /\ videoErrors # {}

VerdictsFollow ==
  \A k \in Kinds :
    IF JudgeStage(k) \in InRun \ Left
    THEN \A c \in passing : \A w \in clip[c].wins :
           clip[c].win[w].caption = "text" <=> clip[c].win[w].verdict[k] # "no"
    ELSE \A c \in Clip, w \in Window : clip[c].win[w].verdict[k] = "no"

ChainInv == /\ TypeOK /\ TodoOrdered /\ ClipsCounted /\ QwenInputsThere /\ FramesHeld
            /\ EmbeddingsExplained /\ InputsInTransit /\ BytesKept /\ CaptionsExplained
            /\ VerdictsFollow /\ OnlyOwnFaultsRaise
=============================================================================
