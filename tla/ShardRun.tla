------------------------------ MODULE ShardRun ------------------------------
(***************************************************************************)
(* The shard pipeline: the clips that summary.json lists are read back,    *)
(* thinned by the result of semantic deduplication, grouped by bin and by  *)
(* size into tars, encoded (T5) and packed by parallel workers, and told   *)
(* in one wdinfo.json per bin and wdinfo_list.csv.  A run may die at any   *)
(* step; a run refuses an output path that holds anything.                 *)
(***************************************************************************)
EXTENDS Integers, FiniteSets, SequencesExt

CONSTANTS
  NumClips,     \* the clips that summary.json lists, 1..NumClips in path order
  Bins, NoBin,  \* the bins of the dataset; NoBin: fits none, or no framerate
  Metas,        \* what the metadata of a clip may say (see IsMeta)
  Dedups,       \* the deduplication results to try (see DedupType)
  TargetSize, MaxTarsPerPart, MinClipsPerTar, DropSmallShards,
  Packers,      \* DownloadPackUpload workers
  MaxDeaths     \* bound: runs that die for a reason of their surroundings

Clip == 1..NumClips
Kinds == {"video", "t5_xxl", "metas"}

\* "lost": the file cannot be read; "bare": valid, without width and framerate.
\* captioned: for each window, whether it has the caption field that is asked for.
IsMeta(d) == /\ d \in [state : {"valid", "invalid", "lost", "bare"}, bin : Bins \cup {NoBin},
                       size : Nat, captioned : {d.captioned}]
             /\ d.captioned \in Seq(BOOLEAN)

\* The parquet files under unique_ids_<epsilon>.parquet, and the pruning tables,
\* each as the ids it gives (of a table, those at or above the threshold).
DedupType == [extracted : SUBSET SUBSET Clip, pruned : SUBSET SUBSET Clip]

ASSUME ShardAssumption ==
  /\ NumClips \in Nat /\ NoBin \notin Bins
  /\ \A d \in Metas : IsMeta(d)
  /\ Dedups \subseteq DedupType
  /\ TargetSize \in Nat /\ MaxTarsPerPart \in Nat \ {0} /\ MinClipsPerTar \in Nat
  /\ DropSmallShards \in BOOLEAN /\ MaxDeaths \in Nat

VARIABLES
  meta,      \* the metadata of each clip, as the split pipeline left it
  dedup,     \* the deduplication result
  phase,     \* "down", "up", "summing" or "done"
  planned,   \* the tasks of the run
  todo,      \* tasks not encoded yet
  encoded,   \* tasks that wait for a packer
  packing,   \* per packer, its task (a set of at most one) and the tars written of it
  packed,    \* tasks the pipeline has returned
  tars,      \* the tars under the output path
  wdinfo,    \* the wdinfo.json written, by bin
  listed,    \* wdinfo_list.csv is written
  deaths

input == <<meta, dedup>>
output == <<tars, wdinfo, listed>>
work == <<planned, todo, encoded, packing, packed>>
vars == <<input, phase, work, output, deaths>>

NoTask == [task |-> {}, written |-> {}]

Init == /\ meta \in [Clip -> Metas] /\ dedup \in Dedups
        /\ phase = "down" /\ deaths = 0
        /\ planned = {} /\ todo = {} /\ encoded = {} /\ packed = {}
        /\ packing = [p \in Packers |-> NoTask]
        /\ tars = {} /\ wdinfo = {} /\ listed = FALSE

-----------------------------------------------------------------------------
(* The samples of a run, and their tars.                                   *)

Samples == {c \in Clip : meta[c].state = "valid"}

\* The tables are only looked at when there is no extracted list.
Removed == UNION (IF dedup.extracted # {} THEN dedup.extracted ELSE dedup.pruned)

Kept == Samples \ Removed

InBin(b) == {c \in Kept : meta[c].bin = b}

\* _group_samples_by_size: the group in work, and those that are full.
NoGroups == [full |-> <<>>, open |-> <<>>, size |-> 0]
AddSample(g, c) ==
  IF g.open # <<>> /\ g.size + meta[c].size > TargetSize
  THEN [full |-> Append(g.full, g.open), open |-> <<c>>, size |-> meta[c].size]
  ELSE [g EXCEPT !.open = Append(@, c), !.size = @ + meta[c].size]

\* The samples of a bin in path order.
Grouped(b) ==
  LET after[n \in 0..NumClips] ==
        IF n = 0 THEN NoGroups
        ELSE IF n \in InBin(b) THEN AddSample(after[n - 1], n) ELSE after[n - 1]
  IN after[NumClips]

\* Only the last group of a bin can be dropped for being small.
Groups(b) ==
  LET g == Grouped(b)
      small == DropSmallShards /\ Len(g.open) < MinClipsPerTar
  IN IF g.open = <<>> \/ small THEN g.full ELSE Append(g.full, g.open)

\* The bins the summary is written for, empty ones and dropped ones included.
AllBins == {meta[c].bin : c \in Kept} \cap Bins

\* A fresh part after those that are there.
FirstPart(b) == LET parts == {t.part : t \in {x \in tars : x.bin = b /\ x.kind = "video"}}
                IN IF parts = {} THEN 0 ELSE 1 + CHOOSE n \in parts : \A k \in parts : k <= n

TasksOf(b) == LET groups == Groups(b)
                  first == FirstPart(b)
              IN {[bin |-> b, part |-> first + (i - 1) \div MaxTarsPerPart,
                   tar |-> (i - 1) % MaxTarsPerPart, clips |-> groups[i]] : i \in DOMAIN groups}
Tasks == UNION {TasksOf(b) : b \in AllBins}

-----------------------------------------------------------------------------
(* A run.                                                                  *)

\* Mutant: a run goes on on what an earlier one left.
AcceptsAnything == TRUE
AcceptsOutput == tars = {} /\ wdinfo = {} /\ ~listed

\* A clip whose metadata is "bare" raises out of the reading thread.
Readable == \A c \in Clip : meta[c].state # "bare"

Start == /\ phase = "down" /\ AcceptsOutput /\ Readable
         /\ planned' = Tasks /\ todo' = planned'
         /\ phase' = IF planned' = {} THEN "done" ELSE "up"
         /\ encoded' = {} /\ packed' = {} /\ packing' = [p \in Packers |-> NoTask]
         /\ UNCHANGED <<input, output, deaths>>

\* T5StageForShard: a window without the caption is passed over and the clip
\* marked; the assertion wants the captioned windows to be the first ones.
Captioned(c) == {i \in DOMAIN meta[c].captioned : meta[c].captioned[i]}
\* Mutant: the assertion wants all windows captioned.
GapAnywhere(c) == Captioned(c) # DOMAIN meta[c].captioned
GapBefore(c) == Captioned(c) # 1..Cardinality(Captioned(c))

\* Mutant: only a clip without any caption is marked.
StaysValidWithAny(c) == Captioned(c) # {}
StaysValid(c) == Captioned(c) = DOMAIN meta[c].captioned

Fail == /\ phase' = "down"
        /\ todo' = {} /\ encoded' = {} /\ packing' = [p \in Packers |-> NoTask]
        /\ UNCHANGED <<input, planned, packed, output>>

Encode(t) == /\ phase = "up" /\ t \in todo
             /\ \A c \in ToSet(t.clips) : ~GapBefore(c)
             /\ todo' = todo \ {t} /\ encoded' = encoded \cup {t}
             /\ UNCHANGED <<input, phase, planned, packing, packed, output, deaths>>

EncodeFails == /\ phase = "up"
               /\ \E t \in todo : \E c \in ToSet(t.clips) : GapBefore(c)
               /\ Fail /\ UNCHANGED deaths

\* DownloadPackUpload: all clips are downloaded, then the tars go out in turn.
Take(p) == /\ phase = "up" /\ packing[p] = NoTask
           /\ \E t \in encoded : /\ encoded' = encoded \ {t}
                                 /\ packing' = [packing EXCEPT ![p].task = {t}]
           /\ UNCHANGED <<input, phase, planned, todo, packed, output, deaths>>

Turn == <<"video", "t5_xxl", "metas">>

\* What one sample puts into the tar of a kind.
Entry(kind, c) == CASE kind = "video" -> [clip |-> c]
                    [] kind = "t5_xxl" -> [clip |-> c, embeddings |-> Cardinality(Captioned(c))]
                    [] kind = "metas" -> [clip |-> c, windows |-> Len(meta[c].captioned),
                                          valid |-> StaysValid(c)]

Write(p) == \E t \in packing[p].task :
              LET done == packing[p].written
                  kind == Turn[Cardinality(done) + 1]
              IN
               /\ phase = "up" /\ done # Kinds
               /\ tars' = tars \cup {[bin |-> t.bin, part |-> t.part, tar |-> t.tar, kind |-> kind,
                                      entries |-> [i \in DOMAIN t.clips |-> Entry(kind, t.clips[i])]]}
               /\ packing' = [packing EXCEPT ![p].written = @ \cup {kind}]
               /\ UNCHANGED <<input, phase, planned, todo, encoded, packed, wdinfo, listed, deaths>>

\* Mutant: the task is handed on before its last tar is written.
WrittenButMetas(p) == packing[p].written = Kinds \ {"metas"}
Written(p) == packing[p].written = Kinds

Hand(p) == /\ phase = "up" /\ Written(p)
           /\ packed' = packed \cup packing[p].task
           /\ packing' = [packing EXCEPT ![p] = NoTask]
           /\ UNCHANGED <<input, phase, planned, todo, encoded, output, deaths>>

\* run_pipeline returns when every task has been through both stages.
Return == /\ phase = "up" /\ packed = planned
          /\ phase' = "summing"
          /\ UNCHANGED <<input, work, output, deaths>>

-----------------------------------------------------------------------------
(* write_shard_summary.                                                    *)

\* key_counts has an entry for each bin that a task came back from: the samples
\* of these tasks, counted task by task.
KeyCount(b) == Cardinality(UNION {{t} \X DOMAIN t.clips : t \in {x \in packed : x.bin = b}})

HasCount(b) == \E t \in packed : t.bin = b

Data(b) == [bin |-> b, keys |-> KeyCount(b),
            files |-> {<<x.part, x.tar>> : x \in {y \in tars : y.bin = b /\ y.kind = "video"}}]

NotTold == {b \in AllBins : \A d \in wdinfo : d.bin # b}

WriteWdinfo == /\ phase = "summing"
               /\ \E b \in NotTold : HasCount(b) /\ wdinfo' = wdinfo \cup {Data(b)}
               /\ UNCHANGED <<input, phase, work, tars, listed, deaths>>

\* key_counts[...] of a bin whose only group was dropped is a KeyError.
WdinfoFails == /\ phase = "summing" /\ \E b \in NotTold : ~HasCount(b)
               /\ Fail /\ UNCHANGED deaths

WriteList == /\ phase = "summing" /\ NotTold = {}
             /\ listed' = TRUE /\ phase' = "done"
             /\ UNCHANGED <<input, work, tars, wdinfo, deaths>>

Die == /\ phase \in {"up", "summing"} /\ deaths < MaxDeaths
       /\ deaths' = deaths + 1
       /\ Fail

\* The user makes the output path ready for another run.
Clear == /\ phase = "down" /\ ~AcceptsOutput
         /\ tars' = {} /\ wdinfo' = {} /\ listed' = FALSE
         /\ UNCHANGED <<input, phase, work, deaths>>

Next == \/ Start \/ EncodeFails \/ Return \/ WriteWdinfo \/ WdinfoFails \/ WriteList \/ Die \/ Clear
        \/ \E t \in todo : Encode(t)
        \/ \E p \in Packers : Take(p) \/ Write(p) \/ Hand(p)

Spec == Init /\ [][Next]_vars

\* The pipeline keeps its tasks moving, and the user starts again after a run
\* that failed.
Fairness == /\ WF_vars(Start) /\ WF_vars(Clear)
            /\ WF_vars(EncodeFails) /\ WF_vars(Return)
            /\ WF_vars(WriteWdinfo \/ WdinfoFails \/ WriteList)
            /\ WF_vars(\E t \in todo : Encode(t))
            /\ \A p \in Packers : WF_vars(Take(p) \/ Write(p) \/ Hand(p))

LiveSpec == Spec /\ Fairness
=============================================================================
