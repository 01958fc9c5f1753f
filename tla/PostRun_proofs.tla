---------------------------- MODULE PostRun_proofs ----------------------------
(***************************************************************************)
(* The Lance dataset and the summary, for any videos, chunks, runs and     *)
(* repeated attempts, whatever run dies where.                             *)
(***************************************************************************)
EXTENDS PostRunProps, TLAPS

\* The first chunk of a video is one of its chunks.
LEMMA ChunkZero ==
    ASSUME NEW c \in Chunk
    PROVE  <<c[1], 0>> \in Chunk
  BY PostRunAssumption DEF Chunk

\* Appending a version to the committed ones of a chunk.
LEMMA Appended ==
    ASSUME NEW s \in Seq(Nat), NEW v \in Nat
    PROVE  /\ Append(s, v) \in Seq(Nat) /\ Append(s, v) # <<>>
           /\ Append(s, v)[Len(Append(s, v))] = v
           /\ s = <<>> => Len(Append(s, v)) = 1
           /\ \A i \in DOMAIN s : i \in DOMAIN Append(s, v) /\ Append(s, v)[i] = s[i]
  OBVIOUS

-----------------------------------------------------------------------------
\* Every variable keeps its type, in any run.
THEOREM TypeCorrect == Spec => []TypeOK
  <1>1. Init => TypeOK
    BY DEF Init, TypeOK, Outputs
  <1>2. TypeOK /\ [Next]_vars => TypeOK'
    <2> SUFFICES ASSUME TypeOK, [Next]_vars PROVE TypeOK'
      OBVIOUS
    <2> USE DEF TypeOK
    <2>1. CASE Start
      BY <2>1 DEF Start, Due, store, Outputs
    <2>2. CASE StagesEnd
      BY <2>2 DEF StagesEnd, store
    <2>3. CASE NothingNew
      BY <2>3 DEF NothingNew, store
    <2>4. CASE Commit
      <3>1. dataset' \in [Chunk -> Seq(Nat)]
        BY <2>4, Appended DEF Commit
      <3> QED
        BY <2>4, <3>1 DEF Commit, New, Staged
    <2>5. CASE Delete
      BY <2>5 DEF Delete
    <2>6. CASE Archived
      BY <2>6 DEF Archived, store
    <2>7. CASE Summarize
      BY <2>7 DEF Summarize, Counted
    <2>8. CASE Die
      BY <2>8 DEF Die, store
    <2>9. ASSUME NEW c \in Chunk, StageSidecar(c) PROVE TypeOK'
      BY <2>9 DEF StageSidecar
    <2>10. ASSUME NEW c \in Chunk, Record(c) PROVE TypeOK'
      BY <2>10 DEF Record
    <2>11. ASSUME NEW c \in Chunk, RepeatChunk(c) PROVE TypeOK'
      BY <2>11 DEF RepeatChunk, store
    <2>12. ASSUME NEW c \in Chunk, Copy(c) PROVE TypeOK'
      BY <2>12 DEF Copy
    <2>13. CASE UNCHANGED vars
      BY <2>13 DEF vars, store
    <2> QED
      BY <2>1, <2>2, <2>3, <2>4, <2>5, <2>6, <2>7, <2>8, <2>9, <2>10, <2>11, <2>12, <2>13 DEF Next
  <1> QED
    BY <1>1, <1>2, PTL DEF Spec

-----------------------------------------------------------------------------
(* The rows of a chunk, its sidecar and the archive. *)

Books == TypeOK /\ CommittedOnce /\ ArchivedIsCommitted /\ WorkInv

\* Nothing that Books speaks of changes, or only phase does outside of archiving.
LEMMA BooksKept ==
    ASSUME Books, TypeOK', UNCHANGED <<staged, archived, dataset, names, copied, cut>>,
           names = {} \/ UNCHANGED phase
    PROVE  Books'
  BY DEF Books, CommittedOnce, ArchivedIsCommitted, WorkInv

\* New sidecars have no row yet, unless a run was cut; they get one each.
LEMMA CommitKeepsBooks ==
    ASSUME Books, TypeOK', Commit
    PROVE  Books'
  <1> USE DEF Books
  <1>1. New \subseteq Chunk /\ names = {}
        /\ \A c \in New : archived[c] = 0 /\ staged[c] \in Nat \ {0}
    BY DEF Commit, New, Staged, WorkInv, TypeOK
  <1>2. \A c \in New : dataset'[c] = Append(dataset[c], staged[c])
    BY <1>1 DEF Commit, TypeOK
  <1>3. \A c \in Chunk \ New : dataset'[c] = dataset[c]
    BY DEF Commit, TypeOK
  <1>4. \A c \in New \ cut : dataset[c] = <<>>
    BY <1>1 DEF WorkInv
  <1>5. UNCHANGED <<staged, archived, cut>> /\ names' = New /\ copied' = {} /\ phase' = "archiving"
    BY DEF Commit
  <1>6. CommittedOnce'
    <2> SUFFICES ASSUME NEW c \in Chunk \ cut PROVE Len(dataset'[c]) <= 1
      BY <1>5 DEF CommittedOnce
    <2>1. CASE c \in New
      <3>1. dataset'[c] = <<staged[c]>>
        BY <2>1, <1>2, <1>4
      <3> QED
        BY <3>1
    <2>2. CASE c \notin New
      BY <2>2, <1>3 DEF CommittedOnce
    <2> QED
      BY <2>1, <2>2
  <1>7. ArchivedIsCommitted'
    <2> SUFFICES ASSUME NEW c \in Chunk, archived[c] # 0
                 PROVE  \E i \in DOMAIN dataset'[c] : dataset'[c][i] = archived[c]
      BY <1>5 DEF ArchivedIsCommitted
    <2>1. c \notin New
      BY <1>1
    <2> QED
      BY <2>1, <1>3 DEF ArchivedIsCommitted
  <1>8. WorkInv'
    <2>1. \A c \in New : /\ staged[c] # 0 /\ dataset'[c] # <<>> /\ dataset'[c][Len(dataset'[c])] = staged[c]
                         /\ archived[c] = 0
      <3> SUFFICES ASSUME NEW c \in New
                   PROVE  dataset'[c] # <<>> /\ dataset'[c][Len(dataset'[c])] = staged[c]
        BY <1>1
      <3>1. dataset[c] \in Seq(Nat) /\ staged[c] \in Nat
        BY <1>1 DEF TypeOK
      <3> QED
        BY <3>1, <1>2, Appended
    <2>2. \A c \in Chunk \ cut : (archived[c] = 0 /\ c \notin New) => dataset'[c] = <<>>
      BY <1>1, <1>3 DEF WorkInv
    <2> QED
      BY <2>1, <2>2, <1>5 DEF WorkInv
  <1> QED
    BY <1>6, <1>7, <1>8

\* The copy in the archive is of the version that was committed last.
LEMMA CopyKeepsBooks ==
    ASSUME Books, TypeOK', NEW c \in Chunk, Copy(c)
    PROVE  Books'
  <1> USE DEF Books
  <1>1. dataset[c] # <<>> /\ dataset[c] \in Seq(Nat) /\ dataset[c][Len(dataset[c])] = staged[c]
    BY DEF Copy, WorkInv, TypeOK
  <1>2. \E i \in DOMAIN dataset[c] : dataset[c][i] = staged[c]
    BY <1>1
  <1>3. archived' = [archived EXCEPT ![c] = staged[c]] /\ c \in names /\ copied' = {c} /\ copied = {}
    BY DEF Copy
  <1>4. UNCHANGED <<phase, staged, dataset, names, cut>>
    BY DEF Copy
  <1>5. CommittedOnce'
    BY <1>4 DEF CommittedOnce
  <1>6. ArchivedIsCommitted'
    BY <1>2, <1>3, <1>4 DEF ArchivedIsCommitted, TypeOK
  <1>7. WorkInv'
    BY <1>3, <1>4 DEF WorkInv, TypeOK
  <1> QED
    BY <1>5, <1>6, <1>7

\* A sidecar written again leaves the ones at work alone: nothing is in work then.
LEMMA SidecarKeepsBooks ==
    ASSUME Books, TypeOK', NEW c \in Chunk, StageSidecar(c)
    PROVE  Books'
  <1> USE DEF Books
  <1>1. names = {} /\ UNCHANGED <<phase, archived, dataset, names, copied, cut>>
    BY DEF StageSidecar, WorkInv
  <1> QED
    BY <1>1 DEF CommittedOnce, ArchivedIsCommitted, WorkInv

\* A sidecar that leaves the staging area is in the archive.
LEMMA DeleteKeepsBooks ==
    ASSUME Books, TypeOK', Delete
    PROVE  Books'
  <1> USE DEF Books
  <1>1. UNCHANGED <<phase, archived, dataset, cut>> /\ phase = "archiving"
        /\ names' = names \ copied /\ copied' = {}
    BY DEF Delete
  <1>2. \A c \in copied : archived[c] # 0
    BY DEF WorkInv, TypeOK, Delete
  <1>3. \A c \in names' : staged'[c] = staged[c] /\ c \in names /\ c \notin copied
    BY <1>1 DEF Delete, TypeOK
  <1>4. \A c \in Chunk \ cut : (archived[c] = 0 /\ c \notin names') => c \notin names
    BY <1>1, <1>2
  <1> QED
    BY <1>1, <1>3, <1>4 DEF CommittedOnce, ArchivedIsCommitted, WorkInv

\* What a dying run leaves between commit and archive is what cut records.
LEMMA DieKeepsBooks ==
    ASSUME Books, TypeOK', Die
    PROVE  Books'
  <1> USE DEF Books
  <1>1. UNCHANGED <<staged, archived, dataset>> /\ names' = {} /\ cut' = cut \cup (names \ copied)
    BY DEF Die, store
  <1>2. \A c \in names : c \in copied => archived[c] # 0
    BY DEF WorkInv
  <1> QED
    BY <1>1, <1>2 DEF CommittedOnce, ArchivedIsCommitted, WorkInv, TypeOK

\* Rows and archive agree but for what a dying run left between the two.
THEOREM BooksHold == Spec => []Books
  <1>1. Init => Books
    BY DEF Init, Books, TypeOK, Outputs, CommittedOnce, ArchivedIsCommitted, WorkInv
  <1>2. Books /\ TypeOK' /\ [Next]_vars => Books'
    <2> SUFFICES ASSUME Books, TypeOK', [Next]_vars PROVE Books'
      OBVIOUS
    <2> USE DEF WorkInv
    <2>1. CASE Start
      BY <2>1, BooksKept DEF Start, store, Books
    <2>2. CASE StagesEnd
      BY <2>2, BooksKept DEF StagesEnd, store, Books
    <2>3. CASE NothingNew
      BY <2>3, BooksKept DEF NothingNew, store, Books
    <2>4. CASE Archived
      BY <2>4, BooksKept DEF Archived, store
    <2>5. CASE Summarize
      BY <2>5, BooksKept DEF Summarize, Books
    <2>6. ASSUME NEW c \in Chunk, Record(c) PROVE Books'
      BY <2>6, BooksKept DEF Record
    <2>7. ASSUME NEW c \in Chunk, RepeatChunk(c) PROVE Books'
      BY <2>7, BooksKept DEF RepeatChunk, store
    <2>8. CASE UNCHANGED vars
      BY <2>8, BooksKept DEF vars, store
    <2> QED
      BY <2>1, <2>2, <2>3, <2>4, <2>5, <2>6, <2>7, <2>8, CommitKeepsBooks, CopyKeepsBooks,
         SidecarKeepsBooks, DeleteKeepsBooks, DieKeepsBooks DEF Next
  <1> QED
    BY <1>1, <1>2, TypeCorrect, PTL DEF Spec

\* Rows are committed once, unless a run died between commit and archive.
THEOREM CommittedOnceHolds == Spec => []CommittedOnce
  BY BooksHold, PTL DEF Books

\* What the archive names is in the dataset.
THEOREM ArchivedIsCommittedHolds == Spec => []ArchivedIsCommitted
  BY BooksHold, PTL DEF Books

-----------------------------------------------------------------------------
(* Nothing that was staged is left out. *)

\* A step of the run that keeps the sidecars and the rows.
LEMMA StagedKept ==
    ASSUME StagedInv, UNCHANGED <<version, staged, archived, dataset>>,
           phase' \in {"archiving", "summing", "done"} => phase \in {"archiving", "summing", "done"}
    PROVE  StagedInv'
  BY DEF StagedInv, Committed

\* From the listing on, a staged sidecar is at work, has rows, or is in the archive.
THEOREM StagedInvHolds == Spec => []StagedInv
  <1>1. Init => StagedInv
    BY DEF Init, StagedInv
  <1>2. Books /\ StagedInv /\ TypeOK' /\ [Next]_vars => StagedInv'
    <2> SUFFICES ASSUME Books, StagedInv, TypeOK', [Next]_vars PROVE StagedInv'
      OBVIOUS
    <2>t. TypeOK /\ ArchivedIsCommitted /\ WorkInv
      BY DEF Books
    <2>1. CASE NothingNew
      <3>1. \A c \in Chunk : staged[c] # 0 => archived[c] # 0
        BY <2>1 DEF NothingNew, New, Staged
      <3>2. UNCHANGED <<version, staged, archived, dataset>>
        BY <2>1 DEF NothingNew, store
      <3> QED
        BY <2>t, <3>1, <3>2 DEF StagedInv, Committed, TypeOK
    <2>2. CASE Commit
      <3>1. UNCHANGED <<version, staged, archived>> /\ phase' = "archiving"
        BY <2>2 DEF Commit
      <3>2. ASSUME NEW c \in New
            PROVE  c \in Chunk /\ \E i \in DOMAIN dataset'[c] : dataset'[c][i] = version[c]
        <4>1. c \in Chunk /\ dataset[c] \in Seq(Nat) /\ staged[c] \in Nat /\ staged[c] = version[c]
          BY <2>t DEF New, Staged, TypeOK, StagedInv
        <4>2. dataset'[c] = Append(dataset[c], staged[c])
          BY <2>2, <2>t, <4>1 DEF Commit, TypeOK
        <4>3. /\ dataset'[c] \in Seq(Nat) /\ dataset'[c] # <<>>
              /\ dataset'[c][Len(dataset'[c])] = staged[c]
          BY <4>1, <4>2, Appended
        <4> QED
          BY <4>1, <4>3
      <3>3. ASSUME NEW c \in Chunk \ New
            PROVE  dataset'[c] = dataset[c] /\ (staged[c] # 0 => archived[c] # 0)
        BY <2>2, <2>t DEF Commit, New, Staged, TypeOK
      <3> QED
        BY <2>t, <3>1, <3>2, <3>3 DEF StagedInv, Committed, TypeOK
    <2>3. ASSUME NEW c \in Chunk, StageSidecar(c) PROVE StagedInv'
      <3>1. /\ phase = "writing" /\ UNCHANGED <<phase, archived, dataset>>
            /\ version' = [version EXCEPT ![c] = @ + 1] /\ staged' = [staged EXCEPT ![c] = version[c] + 1]
        BY <2>3, <2>t DEF StageSidecar, TypeOK
      <3>2. staged'[c] = version'[c] /\ version'[c] = version[c] + 1 /\ version[c] \in Nat
        BY <2>t, <3>1 DEF TypeOK
      <3>3. \A d \in Chunk \ {c} : staged'[d] = staged[d] /\ version'[d] = version[d]
        BY <2>t, <3>1 DEF TypeOK
      <3> QED
        BY <3>1, <3>2, <3>3 DEF StagedInv, Committed
    <2>4. CASE Delete
      <3>1. ASSUME NEW c \in copied PROVE Committed(c, version[c])
        <4>1. c \in Chunk /\ c \in names /\ dataset[c] # <<>> /\ dataset[c] \in Seq(Nat)
              /\ dataset[c][Len(dataset[c])] = staged[c] /\ staged[c] = version[c]
          BY <2>t DEF WorkInv, TypeOK, StagedInv
        <4> QED
          BY <4>1 DEF Committed
      <3>2. UNCHANGED <<phase, version, archived, dataset>>
            /\ \A c \in Chunk : staged'[c] = IF c \in copied THEN 0 ELSE staged[c]
        BY <2>4 DEF Delete
      <3> QED
        BY <3>1, <3>2 DEF StagedInv, Committed
    <2>5. CASE Start
      BY <2>5, StagedKept DEF Start, store
    <2>6. CASE StagesEnd
      BY <2>6, StagedKept DEF StagesEnd, store
    <2>7. CASE Archived
      BY <2>7, StagedKept DEF Archived, store
    <2>8. CASE Summarize
      BY <2>8, StagedKept DEF Summarize
    <2>9. CASE Die
      BY <2>9, StagedKept DEF Die, store
    <2>10. ASSUME NEW c \in Chunk, Record(c) \/ RepeatChunk(c) PROVE StagedInv'
      BY <2>10, StagedKept DEF Record, RepeatChunk, store
    <2>12. ASSUME NEW c \in Chunk, Copy(c) PROVE StagedInv'
      <3>1. /\ UNCHANGED <<phase, version, staged, dataset>> /\ c \in names
            /\ archived'[c] = staged[c] /\ \A d \in Chunk \ {c} : archived'[d] = archived[d]
        BY <2>12, <2>t DEF Copy, TypeOK
      <3>2. staged[c] # 0 /\ version[c] \in Nat
        BY <2>t, <3>1 DEF WorkInv, TypeOK
      <3>3. staged[c] = version[c] /\ archived'[c] \in 0..version[c] /\ archived'[c] # 0
        BY <3>1, <3>2 DEF StagedInv
      <3>4. \A d \in Chunk : staged'[d] = staged[d] /\ version'[d] = version[d] /\ dataset'[d] = dataset[d]
        BY <3>1
      <3> QED
        BY <3>1, <3>3, <3>4 DEF StagedInv, Committed
    <2>11. CASE UNCHANGED vars
      BY <2>11, StagedKept DEF vars, store
    <2> QED
      BY <2>1, <2>2, <2>3, <2>4, <2>5, <2>6, <2>7, <2>8, <2>9, <2>10, <2>11, <2>12 DEF Next
  <1> QED
    BY <1>1, <1>2, TypeCorrect, BooksHold, PTL DEF Spec

\* When a run returns, the rows staged last for a chunk are in the dataset, or wait
\* for good behind an archived name whose older rows are there.
THEOREM StagedIsCommittedHolds == Spec => []StagedIsCommitted
  <1>1. Books /\ StagedInv => StagedIsCommitted
    <2> SUFFICES ASSUME Books, StagedInv, phase = "done", NEW c \in Chunk, version[c] # 0,
                        ~Committed(c, version[c])
                 PROVE  /\ archived[c] \in 1..(version[c] - 1) /\ Committed(c, archived[c])
                        /\ staged[c] = version[c]
      BY DEF StagedIsCommitted
    <2>1. /\ staged[c] = version[c] /\ archived[c] # 0 /\ archived[c] \in 0..version[c]
          /\ version[c] \in Nat
      BY DEF StagedInv, Books, TypeOK
    <2>2. Committed(c, archived[c])
      BY <2>1 DEF Books, ArchivedIsCommitted, Committed
    <2>3. archived[c] # version[c]
      BY <2>2
    <2> QED
      BY <2>1, <2>2, <2>3
  <1> QED
    BY <1>1, BooksHold, StagedInvHolds, PTL

-----------------------------------------------------------------------------
(* The summary. *)

\* A chunk that came through in this run has its record when the summary is made.
THEOREM RecordInvHolds == Spec => []RecordInv
  <1>1. Init => RecordInv
    BY DEF Init, RecordInv
  <1>2. TypeOK /\ RecordInv /\ [Next]_vars => RecordInv'
    <2> SUFFICES ASSUME TypeOK, RecordInv, [Next]_vars PROVE RecordInv'
      OBVIOUS
    <2> USE DEF TypeOK, RecordInv
    <2>1. CASE Start
      BY <2>1 DEF Start, Due, store, Processed, ChunksOf, Outputs
    <2>2. CASE StagesEnd
      BY <2>2 DEF StagesEnd, store
    <2>3. ASSUME NEW c \in Chunk, Record(c) PROVE RecordInv'
      BY <2>3 DEF Record
    <2>4. ASSUME NEW c \in Chunk, RepeatChunk(c) PROVE RecordInv'
      BY <2>4 DEF RepeatChunk, store, Outputs
    <2>5. ASSUME NEW c \in Chunk, StageSidecar(c) PROVE RecordInv'
      BY <2>5 DEF StageSidecar
    <2>6. CASE Summarize
      BY <2>6 DEF Summarize, Counted
    <2>7. CASE NothingNew \/ Archived
      BY <2>7 DEF NothingNew, Archived, store
    <2>8. CASE Commit \/ Delete
      BY <2>8 DEF Commit, Delete
    <2>9. ASSUME NEW c \in Chunk, Copy(c) PROVE RecordInv'
      BY <2>9 DEF Copy
    <2>10. CASE Die
      BY <2>10 DEF Die, store
    <2>11. CASE UNCHANGED vars
      BY <2>11 DEF vars, store, Counted
    <2> QED
      BY <2>1, <2>2, <2>3, <2>4, <2>5, <2>6, <2>7, <2>8, <2>9, <2>10, <2>11 DEF Next
  <1> QED
    BY <1>1, <1>2, TypeCorrect, PTL DEF Spec

\* The summary of a run that returns leaves out only what failed in that run.
THEOREM SummaryIsCompleteHolds == Spec => []SummaryIsComplete
  <1>1. RecordInv => SummaryIsComplete
    BY ChunkZero DEF RecordInv, SummaryIsComplete, Counted
  <1> QED
    BY <1>1, RecordInvHolds, PTL
=============================================================================
