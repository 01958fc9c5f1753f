# TLA+ models of cosmos-curate

These modules model the parts of cosmos-curate where order, failure and
concurrency decide whether the outputs are right. They are checked with TLC on
small instances and, where stated, proved with TLAPS for every value of the
constants. `PROJECT.json` lists the components, the runs, the source lines each
definition stands for, the hazards, the findings and the theorems.

    tlc -config SplitRun_crash.cfg MCSplitRun      # a run
    tlapm SplitRun_proofs.tla                      # the proofs of a module

1. [The system](#the-system)
2. [Split pipeline: ClipWriter, SplitRun](#split-pipeline-clipwriter-splitrun)
3. [After the stages: PostRun](#after-the-stages-postrun)
4. [A chunk through the stages: StageChain](#a-chunk-through-the-stages-stagechain)
5. [Shots, clips, windows, frames: ClipFrames](#shots-clips-windows-frames-clipframes)
6. [Captioning: VllmCaption, CaptionPromise](#captioning-vllmcaption-captionpromise)
7. [Multi-view preparation: MultiviewPrep](#multi-view-preparation-multiviewprep)
8. [Sharding: ShardRun](#sharding-shardrun)
9. [Artifact transport: ArtifactTransport, DeliveryPromise](#artifact-transport-artifacttransport-deliverypromise)
10. [NVCF service: NvcfService](#nvcf-service-nvcfservice)
11. [The runs](#the-runs), [what the models show](#what-the-models-show)
12. [What is proved](#what-is-proved), [what is not modelled](#what-is-not-modelled), [plan](#plan)

## The system

The main program is the split pipeline: `run_pipeline split` lists the input
videos (or multi-camera sessions), leaves out those that earlier runs finished,
sends the rest through a chain of stages on a Ray cluster (download, split,
transcode, filter, caption, embed, write) and writes a summary. The engine that
moves tasks from stage to stage, repeats attempts and scales actors is the
external library xenna. Around the pipeline there are a service that runs it on
request (NVCF), a command-line client, two more pipelines over its output
(deduplication and sharding) and an older family of AV pipelines over a
database.

| part | state it keeps | operations | interacts through |
|---|---|---|---|
| selection (`video_pipe_input.py`) | none; reads the process records | list, verify, skip, limit | output store |
| clipping (`transnetv2_extraction_stages.py`, `clip_extraction_stages.py`) | none across tasks | cut a video into clips, crack it into clip-chunk tasks | task queue |
| filters, frames, embeddings, captioners, previews, judges, T5 | none across tasks | read and leave data, verdicts and errors on the clips of a task | tasks |
| vLLM preparation (`vllm_caption_stage.py`) | scene buffer of the actor | buffer cameras, make windows | tasks |
| vLLM captioning (`vllm_caption_stage.py`, `vllm_interface.py`) | the engine, the requests of a batch | admit, step, refine, reset | engine, tasks |
| clip writer (`metadata_writer_stage.py`) | row buffers of the actor, the task's clips in memory | write clip files, records, grouped files | output store, thread pool |
| runner (`runner_interface.py`, xenna) | actors, queues, attempts | feed, retry, abort | all stages |
| Lance consolidation (`metadata_writer_stage.py`) | staged and archived sidecars, dataset | commit, archive | output store |
| summary (`summary_writers.py`) | none; reads records | total, write | output store |
| NVCF service (`nvcf_main.py`) | lock, status and progress files, one thread per request | invoke, progress, terminate, sweep | HTTP, Ray jobs, files |
| lazy data (`core/utils/data`) | payload inline, stored or dropped | store, resolve, release, drop | Ray object store |
| artifact transport (`core/utils/artifacts`) | files per node, streams of chunks | collect, retry, time out | Ray actors |
| sharding, deduplication | none across runs | group, pack, cluster | output store |

What makes each of them correct:

* selection: what is skipped is written; what is not skipped is processed in the
  end, also with `--limit`;
* clip writer: a record never overtakes the outputs it vouches for; a grouped
  file holds exactly its own chunk; a record is written once;
* runner: a run that returns has accounted for every task it was given;
* clipping: clips respect shots and lengths, windows partition the clips, a
  consumer of frames is shown the frames it asked for;
* the chain of stages: what a stage needs, an earlier one leaves; no clip is lost
  or counted twice; what is missing has a reason on it;
* captioning: each window gets a caption of its own frames, or its video an
  error; every batch ends;
* multi-view preparation: a scene leaves whole, and its views show one moment;
* consolidation and summary: every sidecar is committed once and nothing that
  was done is left out;
* sharding: a clip is packed once, and the list vouches for whole tars;
* artifact transport: a file arrives whole or its node is reported, what was not
  delivered stays staged, and a call ends;
* service: one pipeline at a time; what a client polls agrees with how its
  request ended; the service does not stay busy.

What is hard in them: writes of one task run in a pool of threads and any of
them may raise; a run may die at any point and is started again on the same
output; attempts are repeated on the same actor and the same task object;
existence of a file is taken as proof of work done; two server processes share
a lock through files, and termination, a progress thread and the job's own end
all decide one request's status; engine results come back in any order; stages
talk through optional fields that any of them may clear; chunks of many nodes
interleave at one driver, which some of them never answer.
`hazards` in `PROJECT.json` has each of these at the line where it bites, with the
properties that watch it.

## Split pipeline: ClipWriter, SplitRun

### ClipWriter

A worker (actor) of `ClipWriterStage` takes a task, a chunk of the clips of a
session, and for each camera runs the clip-level jobs (`ClipJobs`), joins them,
then runs the video-level jobs (`VideoJobs`): the per-window dataset, the
process record and the grouped files. A job is a future of the executor; it
writes the objects `Writes(w, j)` one after the other.

| variable | code |
|---|---|
| `stored`, `torn` | the output store: whole objects, and local files opened and not finished |
| `rows`, `passed` | the content of grouped files and of chunk records, as far as the properties see it |
| `queue`, `outputs` | tasks in front of the stage, tasks it returned |
| `ctl[w]` | the frame of `process_data`: task, camera, attempt, which batch of futures it joins |
| `job[w][j]` | how far a future is: its next write, whether the file is open, whether it raised |
| `mem[w]` | `clip_stats`, the released clips and `metadata_rows` of the task |
| `buf[w]` | `_embedding_buffer`, `_metadata_buffer`, `_cds_data_buffer` of the actor |

`Take` / `EnterVideo` is the top of `_process_video` (rows go to the buffers
first), `Skip`, `Upload`, `Open`, `Close` and `FailJob` are `write_bytes`,
`ClipsDone` joins the clip-level futures, `VideoDone` the others (and drops the
clip data), `Raise` is a future's exception leaving `process_data`, with the
retry on the same actor. `HasThread` is the pool: jobs start in submission order
and at most `Threads` are unfinished before one that runs.

An object store makes an upload atomic and `write_bytes` repeats it three times,
so `Upload` either lands or raises. On a local file system `open("wb")`, write
and close are two steps with a torn file between them. The content of the files
is abstracted to what the properties tell apart: the rows of a grouped file and
the passed-clips count of a record. `dry_run`, which writes nothing, is left out.

### SplitRun

Composes the writers with what is around them: `StartRun` is
`build_input_data` (`Selected` translates the skip and limit logic), `Crack` is
`ClipTranscodingStage.process_data` with the errors later stages set on a
chunk, `Finish` is the return of `run_pipeline`, `Abort` a task that used up its
attempts, `Crash` anything that kills the run. After a crash only the store
survives and the user starts the run again with the same options. The sessions
`Unreadable` never yield clips. `MaxErrors`, `MaxFaults` and `MaxCrashes` bound
how often things go wrong; nothing else is bounded.

Not from this code but from how it uses xenna, and so assumed: an attempt that
raised is repeated on the same actor with the same task objects, tasks that used
up `num_run_attempts_python` end the run, and each task is given to one actor.

Fairness: actors and their threads keep running while the run is up, xenna keeps
feeding tasks and ends a run whose work is done or that failed, and the user
starts a run again. Raising writes and crashes are not fair: they happen or not,
within their bounds.

### SplitRunProps, MCSplitRun, SplitRun_proofs

`SplitRun_proofs` proves, for all constants that satisfy `WriterAssumption` and
`RunAssumption`:

* `TypeCorrect`: `Spec => []TypeOK`.
* `RecordAfterClipsHolds`: `Spec => []RecordAfterClips`. The property is not
  inductive: the record is written long after the futures of the clips were
  joined, perhaps by an attempt that wrote none of them. `IndInv` adds what the
  worker remembers: a job beyond a write has left that object in the store
  (`ProgressIsWritten`), a worker in its second batch has the clips of its video
  in the store (`VideoPhaseHasClips`), and so has one that released the clip data
  of a camera (`DroppedHasClips`), which is why a retry may skip those writes; on
  an object store nothing is torn. The step proof treats the worker that moves
  (`ControlKeepsInv`, `WriteKeepsInv`), those that do not (`KeepWorker`), and the
  record itself (`RecordStep`); objects only ever appear (`WriteExisting`).
* `RecordWrittenOnceHolds`: `Spec => RecordWrittenOnce`. Where uploads are atomic
  the existence check suffices. On a local file system a record is opened, then
  closed, and closing is not guarded: `OpenRecords` says that a record a worker has
  open is torn and nobody else's, so the close never lands on a whole one.
* `AccountsHold`: `IndInv /\ AccountInv`. A chunk of the run waits upstream, waits for
  a worker, is with one, or is recorded for every camera (`NoTaskLost`); a worker that
  came to a camera recorded those before it (`EarlierCamsRecorded`); what a run left
  out has its records, and nothing is ever removed (`SkippedHasRecords`). From it
  follows `ReturnAccountsForAllHolds`, since a run that returns is drained.
* `SkippedIsWrittenHolds`: that an input left out lacks no clip follows from its
  records and `RecordHasClips`. That its clips are whole needs `WholeInv`
  (`WholeHolds`): until a write raises or a run dies, every torn file is one that a
  job has open now (`TornIsOpen`), and a run has open only what belongs to the inputs
  it was given (`OwnTasks`), which the input left out is not.
* `GroupExactHolds`: `Spec => []GroupExact` when no write raises or no task is tried
  twice (`MaxFaults = 0 \/ MaxAttempts = 1`). `GroupInv` follows the buffers: full and
  the worker's own until the file that takes them is written, empty behind it. The
  proviso is needed: with both, TLC finds the doubled rows.

On a local store "in the store" means in `RecordAfterClips` that the file exists,
whole or torn: that is all the code looks at. `write_bytes` skips a file that exists
(`writer_utils.py:124`), so a clip that a raising write or a crash has torn is passed
over by the retry or the restart, its chunk is recorded, and every later run leaves
the input out with the torn clip in it. This contradicts "a simple restart would
resume from where it left resulting in correct behavior"
(`docs/client/END_USER_GUIDE.md:216`). `SkippedIsWritten` therefore says both: no clip
of a skipped input is missing, ever; and none is torn, on object stores always, on
local ones only as long as nothing was `Interrupted`. Without that proviso TLC finds
it violated in the instance of `split_crash`: a clip file is left half written, the retry
or the next run skips it and records the chunk, and the run after that skips the input.

`AllRecorded` is model-checked only.

Exceptions the properties make: `GroupExact` is checked without raising writes,
since a retried attempt doubles the rows of a grouped file (the buffers keep what
the failed one put there); `AllRecorded` speaks of readable inputs, since one that
never yields clips leaves no record and stays at the head of a listing with
`--limit`.

Instances: tasks interact only through the store and the actor's buffers. Two
workers show what concurrent chunks of one input can do, two chunks what the
video record can promise too early, two attempts what a retry can repeat and
two faults what happens when they are used up, one crash followed by a full
second run what resumption can get wrong. `split_crash` has them on local files,
which crashes can tear, for a kept and a filtered clip; `split_live` has two
inputs of two and one chunks on an object store, a limit of one, an errored
chunk and the grouped files, for what takes several tasks of an actor and
several runs to go wrong. The runs have one camera: transcoding fills
`task.video` alone (`clip_extraction_stages.py`), so that a chunk of several
cameras has no clips for the others; the proofs cover any number.

## After the stages: PostRun

When `run_pipeline` has returned, the Lance sidecars that the writers staged are
committed to the dataset in one transaction and then archived one by one
(`consolidate_lance_fragments`), and the process records are read back for
`summary.json`. `Start` selects the videos that lack a record, `StageSidecar`
and `Record` are the two outputs of a chunk in any order, `RepeatChunk` an
attempt made again, `StagesEnd` the return of the pipeline, `Commit`, `Copy`,
`Delete`, `Archived` and `NothingNew` the consolidation, `Summarize` the
summary, and `Die` the end of a run at any step. A chunk on which a stage set an
error gets an error record in place of its own, but its rows are buffered and staged
like those of any other (`Due`); a chunk none of whose clips passed has no rows.

| variable | code |
|---|---|
| `due`, `left` | what the writers have to write of each chunk, and what of it is still to come |
| `failed` | chunks that end with an error record |
| `recorded` | process records |
| `version` | how often the fragments of a chunk were written |
| `staged`, `archived` | the versions named by its staged and its archived sidecar |
| `dataset` | the versions in the dataset, in order of commit |
| `names`, `copied` | the sidecars this consolidation archives, and those already copied |
| `cut` | history: committed by a run that died before it copied the sidecar |
| `summary` | the chunks in the totals |

Assumed: a commit is atomic (Lance), an object is copied or not. Left out: a
commit that raises `ValueError` overwrites the dataset
(`metadata_writer_stage.py:1051`), which needs a schema that changed.

`CommittedOnce` excepts the chunks in `cut`: between the commit and the copy
nothing remembers that the rows are in, and the next run commits them again. The
docstring's "avoid reprocessing on subsequent runs" holds for runs that live.

`StagedIsCommitted` says that what was staged last is committed, with one exception:
an archived sidecar of the same name hides it (`metadata_writer_stage.py:1028`), and
then the rows of the earlier attempt are what the dataset has. So it goes with a chunk
that failed and was done again by the next run: the rows of the failed attempt, staged
regardless of its error, were committed and archived, and the good ones are passed
over for good.

`PostRun_proofs` proves all four properties for any videos, chunks, runs and
repeated attempts. They need three facts besides: what is in work of the
archiving is what this run committed (`WorkInv`), what was written waits as a
sidecar or is in the dataset, and waits beyond a commit only behind an archived name
(`StagedInv`), and a chunk of the run is recorded,
failed or still to write (`RecordInv`).

Instance: two chunks, so that one can be archived when the other is not; three
runs, since the harm of a death shows in the next one and its repair in the
third; a repeated attempt, which stages a second version.

## A chunk through the stages: StageChain

A clip-chunk task passes the stages the command line assembled between
transcoding and the clip writer. `Stages` translates the assembly
(`_assemble_stages`, the phases, `PipelineBuilder`, with the check of required and
populated fields), each stage is one action on the whole task, as its
`process_data` is: motion decoding and filter, frame extraction, aesthetic
filter, the Qwen classifier and semantic filter, four embedding families with
their frame stages, window preparation, five captioners, previews, caption
enhancement, the two kinds of judges, T5, and the clean-up of the writer.

| variable | code |
|---|---|
| `cfg` | the options |
| `todo` | the stages still to come |
| `clip` | what is set on a clip and its windows: bytes, motion, frames by rate, inputs, embeddings, captions, verdicts, `errors` |
| `passing`, `filtered` | `video.clips`, `video.filtered_clips` |
| `stats` | `video.clip_stats` |
| `videoErrors` | `video.errors`: what the vLLM captioner notes of the chunk as a whole |
| `raised` | "own", or the stage that missed what an earlier one should have left it |

What models, decoders and services answer is chosen: any clip may fail, be
rejected or come back empty at any stage. Two kinds of exceptions leave a stage and end
the run. One is for want of what an earlier stage should have left (`EnterUnless`).
The other is of the stage's own making (`OwnFault`): `split_video_into_windows` raises
out of the Qwen, vLLM, API and Gemma4 preparations for windows that are too short and
for a decode that fails (`windowing_utils.py:138-199`), a judge for an answer of the
wrong length (`judge_stage.py:238`), local models for anything. It can strike any of
these stages that has a clip to work on. Payloads are present or absent; their
`store()` calls are disabled in the code (`clip_extraction_stages.py:511`), so a
payload lives with its task.

`MCStageChain` has all configurations of filters and embeddings, all of captioners,
previews, judges, enhancement and dataset windows, and one with everything: the
two halves meet only in the clips that pass and in their bytes. Two clips show
what a failed one does to its neighbour; two windows what a part of a clip does
to the rest. The chain has no loops, its end is a deadlock.

Exceptions the properties make: `OnlyOwnFaultsRaise`, by which no stage dies of what
another left undone, excepts C-RADIO, whose frame stage
tests membership in None for a clip that could not be decoded
(`cradio_stages.py:102`); `MissingHasReason` finds the reason for a missing embedding
or a service's missing caption on the clip, but for vLLM only on the chunk: when all
retries failed the captions are "", the error is one of the video
(`vllm_caption_stage.py:742`), and the metadata of the clip reads `has_caption` true
with no error (`metadata_writer_stage.py:775-787`). It leaves out Gemma4, which notes
its failures on windows, where the writer does not look; `EvidenceKeptByPrep` excepts Gemma4, whose preparation
never sees `keep_mp4`, so that judges of the video note no verdict behind it.

`StageChain_proofs` proves all seven properties for any number of clips and windows,
any answers and every configuration (`Configs \subseteq Config`, not the sets of the
run). `ChainHolds` is the invariant `ChainInv`: what a clip carries follows from the
stages behind it and ahead of it. Three arguments carry it:

* The stages left are a stretch of the full list, in the order of `Rank`, none twice
  (`StagesInOrder`, `TodoOrdered`). So "ahead" and "behind" are questions of rank, and
  a step moves one stage from one to the other (`AtStage`).
* What a stage does to one clip is a lemma of its own (`FrontEffect`, `QwenClip`,
  `CaptionPrepClip`, `CaptionVllmClip`, `JudgeClip` and others) that names the fields it
  may touch. Each part of the invariant then looks only at the stages that touch its
  fields: frames (`FramesHeld`), Qwen inputs (`QwenInputsThere`), embeddings
  (`EmbeddingsExplained`), captioning inputs on their way from the stage that makes
  them to the one that drops them (`InputsInTransit`), bytes (`BytesKept`), captions
  and verdicts.
* Clips move from `passing` to `filtered` with a count (`MoveCounted`), and a filter
  runs once, which `ClipsCounted` keeps as one counter per filter.

## Shots, clips, windows, frames: ClipFrames

The numerical path from a video to what models are shown. `DetectShots`
batches frames for TransNetV2, glues its predictions together, reads scenes off
them, filters, cuts and crops them; `CutByStride` cuts by time; `Transcode`
numbers the frames of each clip and groups clips into chunks; `ExtractFrames` samples a clip for its consumers at a common rate;
`PrepareWindows` computes windows or takes them from ground truth, chooses the
frames of each and decodes them in one walk over the clip. Order matters only
between the chunks; the work of the run is the enumeration of inputs.

| variable | code |
|---|---|
| `video` | how many frames, and those the detector takes for transitions |
| `opt` | the options of splitting, windowing and extraction |
| `spans` | `clip.span`, in frames |
| `tasks` | the chunks, with the frames, windows and sampled frame numbers of their clips |

The properties are reference definitions: `ShotsBecomeClips` against the longest
runs of frames without transition, `EveryFrameInOneWindow` against a partition,
`FramesMatchWindows` against membership in the window, `RatesAgree` against the
closest frame in time.

Abstracted: a frame is the unit of time; floating point is exact, so that drift
over a long video is ignored; rates are integers; the detector's verdict is a
part of the input. Assumed: headers count frames right and transcoding keeps
them. Not modelled because no caller uses it: `num_frames_to_use` and the "middle"
sampling policy (whose decoding takes the first frame). Constants of the code are
constants of the module (batches of 50 with 25 of context become 3 with 1, a
second has 4 frames), so that every boundary is inside the bounds: all videos of
up to nine frames, each with all sets of transitions, cover three batches; all
lengths up to 30 cover several windows and remainders on both sides of each
threshold.

`max_output_frames` is no part of the model, since it has no effect: the cap is applied
only when the rate of the source is known (`clip_extraction_stages.py:468`), and
`process_data` does not pass it (:311-318); `_process_video`, which does, has no caller.

Exceptions the properties make, all of them the behaviour of the code:

* a shot that ends with the video loses its last frame; a maximum below minimum
  plus twice the crop drops every piece that was cut to it;
* a video without shots but with transitions at its start is taken whole when
  `entire_scene_as_clip` is set;
* window sizes and thresholds under three frames leave windows that raise out of
  the stage; nothing checks these options;
* ground-truth windows are faithful only when they fit the clip. `docs/new-features.md:128`
  has the pipeline run on one clip per video, but a video over the span of 3600 s
  the option forces gives every clip the windows of the whole video, and windows that overlap read frames from
  uninitialised memory, for themselves and all later windows;
* how many frames a consumer gets at the end of a clip depends on the rates of
  the others.

`ClipFrames_proofs` proves all four properties for videos of any length, any
transitions and any options, on the invariant `ClipsInv`: a clip starts before it
ends, and the clips of a chunk are at every stage as they were encoded. What is
left are facts about each function, in this order: choosing from and joining
sequences keeps members and order (`ChosenPlaces`, `FlattenLaid`); windows are laid
end to end (`WindowsCover`); chunks hold the clips in their order (`ChunksHoldSpans`);
the glued batches give each frame of the video, one place late (`CentreOfBatch`),
so that the scenes found after n frames are the shots that have ended by then
(`OnWatch`); pieces tile a scene, and what a shot loses is counted by mapping every
lost frame to the crop of a clip, a short end or the last frame of the video
(`Coverage`); one walk decodes rising numbers exactly (`DecodeAll`), the repeats of a
rising sequence are its levels (`RunsOfCounted`) and a slice of the frames read is
the window's own (`PreparedShowsRight`); the k-th sample is the closest frame
(`NearFrameIsClosest`), and a rate that divides the common one picks the same
samples from it (`EveryIsClosest`). So that they can be proved, the folds of the code
are recursive functions on 0..n, whose every step is a lemma (`SeenSteps`,
`PutSteps`, `DecodeSteps`). `ClipFramesAssumption` asks for a minimal clip length, a
maximum, a window size and rates of at least one, room for two frames in a window
and some context around a batch: with a minimal length of zero, truncation could
keep a clip without frames.

## Captioning: VllmCaption, CaptionPromise

One actor of `VllmCaptionStage` captions batches. `Begin` enters
`process_data`, `Step` is one turn of the loop of `vllm_caption` (admit from the
queue, step the engine, take what it finished), in both modes: with in-flight
batching one request is admitted per turn if there is room and the engine may
finish any of them; without, a whole stage is handed over and returned. A stage-1
caption becomes a refined request with an id of its own (`Refined`,
`Inherited`). `Deliver` scatters the captions; `Retry` and `GiveUp` are an
exception anywhere, with `_reset`, which may itself leave no engine; `Refuse` is
the call after that.

| variable | code |
|---|---|
| `state`, `attempt` | the frame of `process_data` and of `_vllm_caption` |
| `engine`, `working` | `self._llm`; external: the requests inside it |
| `queue`, `inflight`, `index`, `results` | locals of `_caption_inflight_batching` |
| `caption`, `error` | `window.caption`, `errors["captioning"]` of the batch |

Abstracted: a request id is named after its window and stage, which stands for
"a random token never drawn twice"; the queue is a set, since its order decides
nothing; a caption is the frames and the draft that were in the prompt; prompts,
sampling and decoding are left out. The engine is external: it finishes any set
of its requests at a time, and may have nothing to say.

`CaptionPromise` is the specification of the stage seen from outside: each batch
ends with captions of the right frames and stage for all of its windows, or
with empty captions and an error on its videos; an actor turns batches away only
after such an error. `VllmCaption` implements it (`KeepsPromise`) under the
mapping that keeps `state` and `caption` and shows `error` only when no batch is
in work, because an attempt sets it and a later one takes it back. Turns, admissions,
refinements and retries are stutters of the promise. Its liveness is stated in
the detailed module (`BatchesEnd`).

Fairness (`LiveSpec`): the actor goes on (`Step`, `Deliver`, and the attempts
after the engine is lost), and the engine finishes each request it holds
(`StepOf(id)`). Exceptions are not fair.

`VllmCaption_proofs` proves `CaptionInvHolds`, `NoWindowLostHolds`,
`WithinLimitHolds` and `KeepsPromiseHolds`, for both modes, one or two stages,
any limit, any number of windows, retries and exceptions. `CaptionInv` is
`TypeOK`, `EngineAgrees` (the stage and the engine hold the same requests, so no
answer is for an unknown one), `RequestsFiled` (a request's index is the window
of its frames), `NoWindowLost` (a window has its caption or exactly one
request) and `EngineLossKnown`. The refinement needs all of them: `Deliver` gives
each window a caption of its own because results are filed under the right
index, and nothing of an earlier attempt can be filed because the reset empties
the engine.

Instance: three windows, so that one is queued while two are in flight, drafts
and finals mixed; two attempts; two batches, so that what one leaves would meet
the next; three exceptions, so that a batch can give up and a reset fail. TLC
was also run with `Inflight = FALSE` and with `Stage2 = FALSE`; the proofs cover
both.

## Multi-view preparation: MultiviewPrep

With `--multi-view` one `VllmPrepStage` actor buffers the clip-chunk tasks of
single cameras by scene and camera, and lets a scene go when its three front
cameras are there. `ProcessData(t)` is a call: the task is stored (`Stored`: who
was under its name is replaced), and the call waits (`Wait`), returns the
triplet with inputs of three views for each window of CAM_FRONT (`Release`), or
raises because a side has fewer windows than the front (`Break`).

| variable | code |
|---|---|
| `moments` | the windows that are left of each task's clips |
| `coming`, `returned` | tasks in front of the stage, and behind |
| `buffer` | `_scene_buffer` |
| `input` | `model_input` of CAM_FRONT windows: the chunk and the moment in it that each view shows |
| `raised` | an exception left `process_data` |

"waits until all three cameras have been processed" (`docs/new-features.md:146`)
has conditions, and the properties state them: `Plain(scene)` (one chunk per video,
front cameras only), for otherwise a second chunk replaces the first, whose task
is lost, and rear cameras leave with their scene; `OneChunk(scene)`, for a chunk that replaced another is
paired with whatever chunk the other cameras have in the buffer, and the views then show
different stretches of time; and `Intact(scene)`, for views are paired
by position. A moment is one of a chunk: the second window of two chunks is not the
same moment. A file whose name does not parse is logged as "Treating as
standalone" and stays in the buffer for ever.

`VllmCaption_proofs`, the proofs of both halves of the vLLM path, proves
`PlainScenesSurvive` and `ViewsAligned` for any tasks and windows, from
`OneTaskPerCamera` and `NothingReadyWaits`, and from `LeftForGood` (what has left the
buffer is not in it again). (`PrepInit`, `PrepNext` and `PrepSpec` carry the name of
the stage, so that one module can speak of it and of captioning.)
`ScenesComplete`, under the fairness that tasks keep coming while the run is up, is
model-checked.

Instance: a plain scene; one with a rear camera and a second chunk; one that
lacks cameras; a name that does not parse; windows lost on all cameras alike or on
one. Each is a separate way for a task not to be returned.

## Sharding: ShardRun

A run of the shard pipeline reads the clips of `summary.json` back, drops what
deduplication removed, groups them by bin and size into tars (`Groups`, `Tasks`),
encodes captions (`Encode`), packs three tars per task by parallel workers
(`Take`, `Write`, `Hand`) and writes a `wdinfo.json` per bin and `wdinfo_list.csv`
(`WriteWdinfo`, `WriteList`). `EncodeFails`, `WdinfoFails` and `Die` end the run;
`Start` refuses an output path that holds anything, which `Clear` empties.

| variable | code |
|---|---|
| `meta`, `dedup` | what the split pipeline and deduplication left |
| `planned`, `todo`, `encoded`, `packing`, `packed` | a task's way through the stages; which tars a worker has written of its task |
| `tars` | part and number in a bin, kind, and the entries with what they say of each clip |
| `wdinfo`, `listed` | the summary |

Assumed: the split summary lists each clip once; the user clears the path and
starts again after a run that failed. The tar format, sizes of files and the
embeddings themselves are left out. Fairness: the pipeline moves its tasks, and
the user's restart; deaths are not fair.

`ShardedInTheEnd` says which inputs the pipeline can shard at all. The others fail
every time: a clip whose metadata is valid and lacks width or framerate raises out
of the reading thread; a caption after a gap fails the assertion of the T5 stage;
a bin whose only group is small ends in a KeyError after all tars were written.
"drop this clip!" (`captioning_stages.py:168`) drops nothing: the clip is packed,
marked not valid, which is what `EmbeddingsFit` rests on.

Instance: four clips make two groups of two, or of one and three; two packers
leave two tasks half written; one tar per part gives each tar its own part;
three deduplication results are none, a table that prunes and a list that
overrides it.

`ShardRun_proofs` proves `PackedOnceHolds`, `ListedIsCompleteHolds` and
`EmbeddingsFitHolds` for any clips, bins, sizes and packers and any number of
deaths. `ShardInv` says that there has only ever been one plan for an output: the
inputs of the run do not change, a run only starts on an empty output, so whatever died,
every task and tar belongs to `Plan` (`TypeOK`), what packers wrote of their tasks
is there (`PackedInv`), and the summary was written when all of it was
(`SummaryInv`). That the plan itself packs no clip twice is a fact about the
recursion of `_group_samples_by_size`: its groups hold clips already seen, none of
them twice (`Apart`), by induction over the clips. `LeastNumber` and `UpTo` derive
that induction from the well-foundedness of finite sets, and `GroupedInSteps` shows
that the recursion is well founded. `ShardedInTheEnd` is model-checked only.

## Artifact transport: ArtifactTransport, DeliveryPromise

`ArtifactDelivery.collect` brings the files that processes staged on the nodes to
the destination. To a local one, an actor on each node that the cluster lists streams
its files in chunks. The driver first asks one stream after the other for a reference
(`Ask`, `Answer`: `_seed_generators`), then waits for references, takes a chunk
(`TakeChunk`) and asks that stream for the next, until it ends. `Arrive` and `Break` are
what a reference becomes, `AnswerFails`, `TakeChunkFails` and `TakeError` the failures of
one node. To a remote destination, an actor uploads the files in parallel (`Upload`,
`UploadFails`) and the driver takes its result (`TakeResult`). `Stall` gives up all silent
nodes, `Return`, `StrictFails` and `CollectFails` end the call, `CollectAgain` is a
call after one that returned.

| variable | code |
|---|---|
| `remote`, `strict`, `collected` | the instance |
| `listed`, `unseeded`, `asked`, `pending`, `ok`, `failed` | the nodes of the call: not yet asked for anything, asked and not answered, with a reference that is waited for, settled |
| `ready`, `left`, `at` | external: a node's actor, its generator and where it stands |
| `opened`, `counted`, `refused`, `count` | open file per node, counters, errors of an upload, the result |
| `staged`, `written` | the staging directories; chunks of each file at the destination |

`DeliveryPromise` is the call seen from outside: it finds nodes, or none, settles each as
delivered with everything or as reported, and returns when all are settled; a
strict call returns only with everything of the nodes it found. `Fate` is the refinement mapping.

`next(gen)` blocks until the node has yielded or ended (`collector.py:908-931`), and no
time limit covers it: the stall guard watches the wait for references, not this. So
while `asked` holds a node that never answers, the driver hangs, though `Stall` is there
for silent nodes. `CollectEnds` promises the end of a call when no such question stays
open for ever. Any set of nodes may be listed, also none, and the driver's own may be
missing: a remote collection without nodes is skipped, a local one returns as an empty
success, and the driver's staging is removed though nobody collected it
(`collector.py:1336-1342`, `delivery.py:1060-1069`).

Assumed: staged files do not change while they are collected; a node has one name.
Fairness (`LiveSpec`): the driver goes on where it need not wait for a node; nodes may be
silent for ever.

`StagingKept` says when a file can be lost, neither staged any more nor whole at the
destination: it is of the driver's own node, in a call that returned, and either the
call did not list that node, or it was lenient and reported the node or the file. Both
contradict what the code says of itself: staging is preserved when collection failed
(`delivery.py:1271-1273`) and kept "for manual retry" (:1301).

`ArtifactTransport_proofs` proves `StagingKeptHolds` and
`KeepsPromiseHolds`, for any nodes, files, failures and calls. `TransportInv`
says where a stream is: a node that is asked stands between two references, one that
is waited for has a chunk due, and either way the files behind it are whole and the
one in the middle is open with the chunks before (`StreamInv`), what an uploader
has not left is whole or refused (`UploadInv`), every node found is not settled yet, in
one of three ways, or settled with its files through, and staging is untouched until
then (`SettledInv`). `ReportInv` adds who reports what: a node is settled once, a call
that returned is not made again, a strict one goes on only with nothing to report.

`CountExactHolds` rests on `CountInv`: a node's counter is the number of the files it
has brought to the end, which are not left, refused or due (`Brought`). That the sum
over the nodes is the number of all these files is `SumIsCardinality`: the numbers
of files solve the recursion of `SumOf`, and a smallest set of nodes with another
value has none. `CollectEnds` is model-checked only.

Instance: the driver's node with a file of two chunks and one of one, a second
node with a large file, an empty one; two failures, so that a node can fail
in the middle of a file while another does; two calls, so that one can find
what a failed one left.

## NVCF service: NvcfService

uvicorn starts worker processes that share, through the temporary directory, a
status file ("a pipeline is running") and a lock file. A pipeline request goes
through `PipelineLockMiddleware.dispatch` (`Reject`, `Arrive`, `Acquire`,
`TimeOut`, `WriteStatus`), sets up its progress thread (`Setup`, or `SetupFails`:
the manager process, the directory, the files or the thread raise), submits a Ray
job and waits for it (`Submit`, `JobReturns`; `NoJob` when the arguments raise
or the type is accepted and not run), ends the thread (`SetStop`, `Join`),
uploads its outputs (`Upload`) and removes both files (`UnlinkStatus`,
`UnlinkLock`, also run by every worker that starts). A termination request lists
the jobs, stops and deletes each, and marks the request failed (`Terminate` to
`Mark`, `CallFails`). `ThreadEnds` is the end of `update_progress`, which writes
"done" or "failed".

| variable | code |
|---|---|
| `at`, `cur`, `result` | where a worker is in `dispatch` and the handler, its request, the answer to come |
| `todo`, `victim`, `hit` | the loop of `_terminate_last_job` |
| `lock`, `busy` | the lock file's holder, the status file |
| `files`, `ipc`, `stop`, `thread` | progress, done and failed files, `ipc_status`, `stop_event`, progress thread of a request |
| `job`, `listed` | external: Ray's state of the job, and whether it still lists it |
| `answer`, `outputs` | what the client got, what became of the outputs |
| `disturbed` | history: a starting worker swept files under a request, or a worker died with its job alive |

Read from the code and taken into the model:

* a worker serves one request at a time: the service is started with
  `--workers 2 --limit-concurrency 2` (`onto_nvcf.py`), and that limit counts the
  connection being served;
* the status file is read before the lock is waited for, so both may be passed
  by two requests one after the other; a lock file that is unlinked while held
  frees the name and not the holder, and the next worker locks a new file: this
  is why `UnlinkLock` leaves `lock = Free` whoever holds it;
* files of an earlier container may be there at the start (`Init`).

Assumed, because it is not in the code: the external `filelock` acquires
atomically on the inode that is linked; `ray job submit` returns only when the job
has ended; request ids are unique; the sections under the log-file lock are
atomic. Modelled with `using_nvcf_status` off, the mode in which clients poll
the files.

Fairness: server processes and threads run on, uvicorn's supervisor restarts a
dead worker, Ray ends every job. Clients, crashes and terminations are not fair.

`NvcfService_proofs` proves `ServiceInvHolds` and from it `TypeCorrect`,
`OneAtATimeHolds`, `BusyWhileRunningHolds`, `FailureIsNotDoneHolds` and
`AnsweredIsRecordedHolds`, for any number of workers, requests, terminations and
crashes. `ServiceInv` is `TypeOK /\ LockInv /\ OwnerInv /\ FilesInv`:

* `LockInv`: while nothing was disturbed, the lock is held wherever a request
  runs or ends, a live job has a worker that waits for it, and the status file
  stands. `OneAtATime` follows because a lock has one holder.
* `OwnerInv`: a request is in one place only, and how far its thread, job and
  `ipc_status` are follows from that place.
* `FilesInv`: nobody writes "done" but the thread, and what the thread writes is
  settled before `stop` is set: a failed job clears `ipc_status` before, a
  termination marks the request "failed" before the thread looks.

What follows an error before the job is part of the properties. Arguments that raise
leave "done" behind a 500. A setup that raises (`BrokenSetup`, `nvcf_main.py:681-717`)
leaves "running" or nothing behind a 500, and no one ever writes a final status:
`StatusSettles` and `AnsweredIsRecorded` except it by name, and say of it that it never
reads "done". Once a job was submitted, an error always reads "failed".

The proviso `~disturbed` is not a convenience: a worker that starts removes the
status and lock files of a request in progress, and a second pipeline gets in.
Model-checked only: `StatusSettles`, `BusyEnds`.

Instances: two workers as the service is started; two requests, since a third
meets the same files; two terminations so that two workers kill at once; one
death anywhere. In the liveness run terminations are left out (a termination
only adds ways for a job to end, which Ray's steps already have).

## The runs

| run | instance | question |
|---|---|---|
| split_crash | 2 workers, 1 input in 2 chunks, a kept and a filtered clip, 2 attempts, 2 raising writes, 1 crash, local files | do records follow clips, does what is skipped lack no clip and, uninterrupted, have no torn one, is no task lost, are records stable |
| split_live | 2 workers, 2 inputs in 2 and 1 chunks, limit 1, an errored chunk, 1 crash, grouped files on an object store | is every readable input recorded in the end; do grouped files hold exactly their own chunk |
| split_resume_gap | as split_crash, object store, per-clip and grouped files, no raising writes | is what a restart skips complete: it is not, see below |
| post_run | 1 video of 2 chunks that may fail or have no rows, 3 runs that may die, 1 repeated attempt | is a sidecar committed once, is nothing left out of dataset and summary |
| stage_chain | 2 clips of up to 2 windows, all stage lists of both halves | does each stage find what it needs, do the counts add up, has what is missing a reason |
| clip_frames | all videos up to 9 frames, 6 detector settings; all lengths up to 30, strides, windows, rates, labels | are clips, windows and frames those that were asked for |
| vllm_inflight | 3 windows, 2 stages, 2 in flight, 2 attempts, 2 batches, 3 exceptions | is no window lost or answered from other frames, is the promise kept, does every batch end |
| multiview | 4 scenes, 2 windows | does a scene come through whole, once, with aligned views |
| shard | 4 clips, 2 bins, 2 packers, 1 death | is a clip packed once, is the list true, is what can be sharded sharded |
| transport | 3 nodes, files of 2, 1 and 2 chunks, 2 failures, 2 calls | is staging kept until its files are whole, is the count right, does the call end |
| nvcf_lock | 2 workers, 2 requests, 2 terminations, 1 death | one request and one job at a time; do the files agree with the answers |
| nvcf_live | 2 workers, 2 requests, 1 death | does every request get a final status, does the service become free |

Deadlock is checked for the split pipeline, which can always be started again.
The others may stop: a service without requests left within its bounds, an actor
without batches, a chain or a call at its end, a run after the last one.

## What the models show

One run refutes a document. A chunk's grouped files can be missing for ever after
a crash: the record that makes resumption skip the input is written concurrently
with them (`split_resume_gap`), against "a simple restart would resume from
where it left resulting in correct behavior" (`docs/client/END_USER_GUIDE.md:216`).

The other departures are in the conditions of the properties that hold, each
named with its module above and with its line in `hazards`:

* split: a local clip torn by a crash or a raising write is taken for written, recorded
  and skipped for ever; a retry doubles rows of grouped
  files; inputs without clips block a limited listing;
* after it: rows committed by a run that died before archiving are committed again;
  rows of a chunk that failed are committed, and hide those of its repetition;
* stages: C-RADIO ends the run at an undecodable clip, and a window that is too short
  ends it in four preparing stages; captions vLLM gave up on read as captions of a clip
  without errors; Gemma4 leaves judges
  without video; the Qwen stages filter clips without data also in score-only
  mode, which is to filter none;
* frames: `max_output_frames` caps nothing; ground-truth windows that do not fit their clip, options under three
  frames, a crop without room;
* multi-view: scenes that are not plain lose tasks, wait for ever, or show models views
  of different chunks as one;
* sharding: gaps in captions, bare metadata and dropped bins fail every run;
* transport: the driver's staging is not kept for a retry, nor when a call finds no
  node to collect from; one silent node can hold a local collection for ever;
* service: a worker that starts sweeps the files of a request in progress; a
  request whose pipeline never ran, or whose outputs were not uploaded, reads
  "done"; one whose setup raised reads "running" for ever.

## What is proved

| module | for every value of the constants | inductive invariant |
|---|---|---|
| `SplitRun_proofs` | `TypeOK`, `RecordAfterClips`, `RecordWrittenOnce`, `SkippedIsWritten`, `ReturnAccountsForAll`; `GroupExact` without retries | `IndInv`, `OpenRecords`, `AccountInv`, `WholeInv`, `GroupInv` |
| `PostRun_proofs` | `CommittedOnce`, `ArchivedIsCommitted`, `StagedIsCommitted`, `SummaryIsComplete` | `PostRunInv` |
| `StageChain_proofs` | `TypeOK`, `ClipAccounting`, `FramesMatchConsumers`, `MissingHasReason`, `EvidenceKeptByPrep`, `JudgesSeeCaptions`, `OnlyOwnFaultsRaise`, `NoFalsePrepFailure` | `ChainInv` |
| `ClipFrames_proofs` | `ShotsBecomeClips`, `EveryFrameInOneWindow`, `FramesMatchWindows`, `RatesAgree` | `ClipsInv` |
| `VllmCaption_proofs` | `NoWindowLost`, `WithinLimit`, refinement of `CaptionPromise`; of multi-view preparation `PlainScenesSurvive`, `ViewsAligned` | `CaptionInv`; `ViewsInv`, `NothingReadyWaits` |
| `ShardRun_proofs` | `PackedOnce`, `ListedIsComplete`, `EmbeddingsFit` | `ShardInv` |
| `ArtifactTransport_proofs` | `TypeOK`, `StagingKept`, `CountExact`, refinement of `DeliveryPromise` | `TransportInv`, `ReportInv`, `CountInv` |
| `NvcfService_proofs` | `TypeOK`, `OneAtATime`, `BusyWhileRunning`, `FailureIsNotDone`, `AnsweredIsRecorded` | `ServiceInv` |

The only assumptions are the named ones on the constants (`WriterAssumption`,
`RunAssumption`, `PostRunAssumption`, `ChainAssumption`, `ClipFramesAssumption`,
`CaptionAssumption`, `MultiviewAssumption`, `ShardAssumption`, `TransportAssumption`,
`ServiceAssumption`), which TLC evaluates in every run, and the proviso of
`GroupExactHolds`.

Induction over data is done where a property needs it, without the induction
theorems of the library, which take an operator. Over sets, a set of
counterexamples that is not empty has a smallest member, since finite sets are well
founded under inclusion: so the groups of `ShardRun` and the sum of
`ArtifactTransport`. Over numbers, a set of naturals that is not empty has a least
member (`LeastNumber`), and a set that holds 0, and the successor of each of its
members below N, holds 0..N (`UpTo`): so that a recursive function exists and is the
only one (`Recursion`, `OneSolution`), which gives every recursive definition of
`ClipFrames` its steps.

Model-checked only: everything under fairness (`AllRecorded`, `BatchesEnd`,
`ScenesComplete`, `ShardedInTheEnd`, `CollectEnds`, `StatusSettles`, `BusyEnds`),
which the prover does not reach. Every invariant and every other action property
that a passing run checks is a theorem.

## What is not modelled

* Pure I/O and look-ups: storage clients (their contract, atomic upload and
  non-atomic local write, is what `ClipWriter` assumes), download and remux
  (their failure is `Unreadable`), model files, configuration, database set-up,
  the model manager, Ray start-up, profiling and tracing.
* Numeric code: pixels, inference, embeddings, the clustering of semantic
  deduplication (its result is an input of `ShardRun`).
* xenna's scheduling and autoscaling: actors are a fixed set; a worker that
  dies is a run that dies.
* Lazy data: `prefetch` and `resolve_as_ready` hand payloads through as long as
  nothing stores them; the `store()` calls are switched off in all pipelines.
* Stage replay, argument parsing, the content of progress files and the
  `using_nvcf_status` mode of the service.
* The NVCF client: it drives a remote service whose contract (what a repeated or
  timed-out invocation does) is not in the repository.
* The AV pipelines: their state is that of an external PostgreSQL database; see
  the plan.

## Plan

1. `AvRun`: the AV pipelines over their run tables. Questions: database errors
   are swallowed after the uploads they describe, and resumption reads the tables;
   an annotation file is written whatever became of its rows; a batch commits task
   by task, and a retry repeats the first ones; clips of all sessions of a batch
   are chunked under the name of the last.
2. The client around `NvcfService`: a response of 429 raises without a retry, a
   response of None counts as success, a timed-out invocation is repeated although
   the first may be running; the content of progress files, which are truncated
   before the metrics for them are fetched (`nvcf_main.py:365`).
