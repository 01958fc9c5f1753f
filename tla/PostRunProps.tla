---------------------------- MODULE PostRunProps ----------------------------
(***************************************************************************)
(* What the Lance dataset and the summary hold after runs that may have    *)
(* died on the way.                                                        *)
(***************************************************************************)
EXTENDS PostRun

\* Every variable keeps its type.
TypeOK ==
  /\ phase \in {"down", "writing", "listing", "archiving", "summing", "done"}
  /\ due \in [Chunk -> SUBSET Outputs] /\ left \in [Chunk -> SUBSET Outputs]
  /\ recorded \subseteq Chunk /\ failed \subseteq Chunk /\ summary \subseteq Chunk
  /\ version \in [Chunk -> Nat] /\ staged \in [Chunk -> Nat] /\ archived \in [Chunk -> Nat]
  /\ dataset \in [Chunk -> Seq(Nat)]
  /\ names \subseteq Chunk /\ copied \subseteq names /\ cut \subseteq Chunk

\* "avoid reprocessing on subsequent runs": however often a chunk is written,
\* staged and reprocessed, its rows are committed once - unless a run died
\* between its commit and the copy of the chunk's sidecar.
CommittedOnce == \A c \in Chunk \ cut : Len(dataset[c]) <= 1

\* A name in the archive keeps later sidecars out for good, so it may only be
\* there when the rows it stands for are in the dataset.
ArchivedIsCommitted ==
  \A c \in Chunk : archived[c] # 0 => \E i \in DOMAIN dataset[c] : dataset[c][i] = archived[c]

Committed(c, v) == \E i \in DOMAIN dataset[c] : dataset[c][i] = v

\* When a run returns, the rows of a chunk that were staged last are in the dataset,
\* also those staged by runs that died - unless a sidecar of the same name was
\* archived before: then its rows, of an earlier attempt, are what the dataset has,
\* and the newer sidecar stays in the staging area, passed over for good.  (The
\* earlier rows may be those of a chunk that ended in error, the newer ones those
\* of its repetition that succeeded.)
StagedIsCommitted ==
  phase = "done" => \A c \in Chunk : version[c] # 0 =>
    \/ Committed(c, version[c])
    \/ archived[c] \in 1..(version[c] - 1) /\ Committed(c, archived[c]) /\ staged[c] = version[c]

\* The summary of a run that returns leaves out a chunk only if it, or the first
\* chunk of its video, ended in error in that same run: what earlier runs did is
\* counted, and what they did not do was done.
SummaryIsComplete ==
  phase = "done" => \A c \in Chunk : c \in summary \/ {c, <<c[1], 0>>} \cap failed # {}

-----------------------------------------------------------------------------
\* What makes CommittedOnce and ArchivedIsCommitted inductive: the sidecars in
\* work are those committed by this run, copied or not yet archived.
WorkInv ==
  /\ phase # "archiving" => names = {}
  /\ \A c \in names : /\ staged[c] # 0 /\ dataset[c] # <<>> /\ dataset[c][Len(dataset[c])] = staged[c]
                      /\ c \notin copied => archived[c] = 0
                      /\ c \in copied => archived[c] = staged[c]
  /\ \A c \in Chunk \ cut : (archived[c] = 0 /\ c \notin names) => dataset[c] = <<>>

\* The same for StagedIsCommitted: what was written last waits as a sidecar or is
\* in the dataset, and after the commit it waits only behind an archived name.
StagedInv ==
  \A c \in Chunk :
    /\ staged[c] \in {0, version[c]} /\ archived[c] \in 0..version[c]
    /\ \/ version[c] = 0 \/ Committed(c, version[c])
       \/ /\ staged[c] = version[c]
          /\ phase \in {"archiving", "summing", "done"} => archived[c] # 0

\* And for SummaryIsComplete: a chunk of the run that did not fail is recorded, or
\* will be before the stages end.
RecordInv ==
  /\ phase = "writing" => \A c \in Chunk : /\ c \in recorded \cup failed \/ "record" \in left[c]
                                          /\ left[c] \subseteq due[c]
  /\ phase \in {"listing", "archiving", "summing", "done"} => \A c \in Chunk : c \in recorded \cup failed
  /\ phase = "done" => summary = Counted

PostRunInv == TypeOK /\ CommittedOnce /\ ArchivedIsCommitted /\ WorkInv /\ StagedInv /\ RecordInv
=============================================================================
