------------------------------- MODULE PostRun -------------------------------
(***************************************************************************)
(* What follows the stages of a split run: the Lance sidecars that the     *)
(* writers staged are committed to the dataset in one transaction and      *)
(* moved to an archive, one by one; then the process records are read      *)
(* for the summary.  Runs may die at any step and are started again on     *)
(* the same output, which then holds what earlier runs left.               *)
(***************************************************************************)
EXTENDS Integers, FiniteSets, Sequences

CONSTANTS
  Video,       \* the input videos
  NumChunks,   \* clip chunks of a video
  MaxRuns,     \* bound: runs on this output
  MaxRepeats   \* bound: attempts of a chunk that are repeated

ASSUME PostRunAssumption == /\ NumChunks \in Nat \ {0}
                            /\ MaxRuns \in Nat /\ MaxRepeats \in Nat

Chunk == Video \X (0..(NumChunks - 1))

VARIABLES
  phase,      \* where the run is: "down", "writing", "listing", "archiving", "summing", "done"
  runs,       \* runs started
  repeats,    \* attempts repeated
  due,        \* what the writers have to write of each chunk of the run
  left,       \* what is still to be written of it
  failed,     \* chunks of this run that ended with an error record
  recorded,   \* chunks with a process record
  version,    \* how often the fragments of a chunk were written
  staged,     \* the version in the staged sidecar of a chunk, 0: none
  archived,   \* the version in its archived sidecar, 0: none
  dataset,    \* the versions committed to the dataset, in order, per chunk
  names,      \* sidecars of this consolidation that are still to archive
  copied,     \* those of names whose copy is in the archive
  cut,        \* history: committed by a run that died before archiving them
  summary     \* the chunks in the totals of summary.json

store == <<recorded, staged, archived, dataset, summary>>
vars == <<phase, runs, repeats, due, left, failed, version, names, copied, cut, store>>

\* A chunk has a record, and rows if clips of it passed; they are written side by
\* side.
Outputs == {"record", "sidecar"}

Init == /\ phase = "down" /\ runs = 0 /\ repeats = 0
        /\ due = [c \in Chunk |-> {}] /\ left = due /\ failed = {}
        /\ recorded = {} /\ summary = {}
        /\ version = [c \in Chunk |-> 0] /\ staged = version /\ archived = version
        /\ dataset = [c \in Chunk |-> <<>>]
        /\ names = {} /\ copied = {} /\ cut = {}

-----------------------------------------------------------------------------
(* The run up to the return of run_pipeline, at the grain of a chunk.      *)

ChunksOf(v) == {c \in Chunk : c[1] = v}

\* Mutant: the video record is enough.
ProcessedFirst(v) == <<v, 0>> \in recorded

Processed(v) == ChunksOf(v) \subseteq recorded

\* A chunk on which a stage set an error gets an error record in place of its own;
\* its rows are buffered and staged like those of any other.
Due(c, bad, rows) == (IF c \in bad THEN {} ELSE {"record"})
                       \cup (IF c \in rows THEN {"sidecar"} ELSE {})

Start == /\ phase \in {"down", "done"} /\ runs < MaxRuns
         /\ phase' = "writing" /\ runs' = runs + 1
         /\ LET given == {c \in Chunk : ~Processed(c[1])}
            IN \E bad \in SUBSET given : \E rows \in SUBSET given :
                 /\ due' = [c \in Chunk |-> IF c \in given THEN Due(c, bad, rows) ELSE {}]
                 /\ left' = due'
                 /\ failed' = bad
         /\ UNCHANGED <<repeats, version, names, copied, cut, store>>

\* New fragments, and a sidecar that names them in place of the one before.
StageSidecar(c) ==
  /\ phase = "writing" /\ "sidecar" \in left[c]
  /\ left' = [left EXCEPT ![c] = @ \ {"sidecar"}]
  /\ version' = [version EXCEPT ![c] = @ + 1]
  /\ staged' = [staged EXCEPT ![c] = version'[c]]
  /\ UNCHANGED <<phase, runs, repeats, due, failed, recorded, archived, dataset, names, copied, cut, summary>>

Record(c) ==
  /\ phase = "writing" /\ "record" \in left[c]
  /\ left' = [left EXCEPT ![c] = @ \ {"record"}]
  /\ recorded' = recorded \cup {c}
  /\ UNCHANGED <<phase, runs, repeats, due, failed, version, staged, archived, dataset, names, copied, cut, summary>>

\* A write raised: the next attempt writes everything again.
RepeatChunk(c) ==
  /\ phase = "writing" /\ left[c] # {} /\ left[c] # due[c] /\ repeats < MaxRepeats
  /\ left' = [left EXCEPT ![c] = due[c]] /\ repeats' = repeats + 1
  /\ UNCHANGED <<phase, runs, due, failed, version, names, copied, cut, store>>

StagesEnd == /\ phase = "writing" /\ \A c \in Chunk : left[c] = {}
             /\ phase' = "listing"
             /\ UNCHANGED <<runs, repeats, due, left, failed, version, names, copied, cut, store>>

-----------------------------------------------------------------------------
(* consolidate_lance_fragments.                                            *)

Staged == {c \in Chunk : staged[c] # 0}

\* Mutants: whatever is staged is committed; sidecars without a record are not.
NewAlways == Staged
NewRecorded == {c \in Staged : archived[c] = 0 /\ c \in recorded}

\* Sidecars whose name is not in the archive yet.
New == {c \in Staged : archived[c] = 0}

NothingNew == /\ phase = "listing" /\ New = {}
              /\ phase' = "summing"
              /\ UNCHANGED <<runs, repeats, due, left, failed, version, names, copied, cut, store>>

\* One Lance transaction appends the fragments of all new sidecars.
Commit == /\ phase = "listing" /\ New # {}
          /\ dataset' = [c \in Chunk |-> IF c \in New THEN Append(dataset[c], staged[c]) ELSE dataset[c]]
          /\ names' = New /\ copied' = {}
          /\ phase' = "archiving"
          /\ UNCHANGED <<runs, repeats, due, left, failed, recorded, version, staged, archived, cut, summary>>

\* Mutant: all staged sidecars are archived, new or not.
CopyNewest(c) == /\ phase = "archiving" /\ c \in Staged \ copied
                 /\ archived' = [archived EXCEPT ![c] = staged[c]]
                 /\ copied' = copied \cup {c}
                 /\ UNCHANGED <<phase, runs, repeats, due, left, failed, recorded, version, staged, dataset,
                                names, cut, summary>>

Copy(c) == /\ phase = "archiving" /\ c \in names /\ copied = {}
           /\ archived' = [archived EXCEPT ![c] = staged[c]]
           /\ copied' = {c}
           /\ UNCHANGED <<phase, runs, repeats, due, left, failed, recorded, version, staged, dataset,
                          names, cut, summary>>

Delete == /\ phase = "archiving" /\ copied # {}
          /\ staged' = [c \in Chunk |-> IF c \in copied THEN 0 ELSE staged[c]]
          /\ names' = names \ copied /\ copied' = {}
          /\ UNCHANGED <<phase, runs, repeats, due, left, failed, recorded, version, archived, dataset, cut, summary>>

Archived == /\ phase = "archiving" /\ names = {}
            /\ phase' = "summing"
            /\ UNCHANGED <<runs, repeats, due, left, failed, version, names, copied, cut, store>>

-----------------------------------------------------------------------------
(* write_split_summary.                                                    *)

\* A video is known by its video record, which chunk 0 writes.
Counted == {c \in recorded : <<c[1], 0>> \in recorded}

Summarize == /\ phase = "summing"
             /\ summary' = Counted /\ phase' = "done"
             /\ UNCHANGED <<runs, repeats, due, left, failed, recorded, version, staged, archived,
                            dataset, names, copied, cut>>

\* The run dies: killed, aborted by a task, or by a call that raised (a commit
\* that conflicts, a delete that fails).
Die == /\ phase \notin {"down", "done"}
       /\ phase' = "down"
       /\ due' = [c \in Chunk |-> {}] /\ left' = due'
       /\ names' = {} /\ copied' = {}
       /\ cut' = cut \cup (names \ copied)
       /\ UNCHANGED <<runs, repeats, failed, version, store>>

Next == \/ Start \/ StagesEnd \/ NothingNew \/ Commit \/ Delete \/ Archived \/ Summarize \/ Die
        \/ \E c \in Chunk : \/ StageSidecar(c) \/ Record(c) \/ RepeatChunk(c)
                            \/ Copy(c)

Spec == Init /\ [][Next]_vars
=============================================================================
