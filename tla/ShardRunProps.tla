---------------------------- MODULE ShardRunProps ----------------------------
(***************************************************************************)
(* What a sharded dataset promises a reader.                               *)
(***************************************************************************)
EXTENDS ShardRun

Place(x) == <<x.bin, x.part, x.tar>>
ClipsIn(x) == {x.entries[i].clip : i \in DOMAIN x.entries}

\* A clip is in at most one tar of each kind, whatever runs died on this output
\* before, and no two tasks share a tar (_group_samples_into_tasks).
PackedOnce ==
  \A x, y \in tars : x.kind = y.kind /\ x # y =>
      Place(x) # Place(y) /\ ClipsIn(x) \cap ClipsIn(y) = {}

\* wdinfo_list.csv vouches for the dataset (write_shard_summary): every tar that
\* a wdinfo.json lists is there in all three kinds with the same clips in the
\* same order, no bin is missing, and the key count is the number of clips in
\* the bin's tars.
ListedIsComplete ==
  listed => /\ {d.bin : d \in wdinfo} = {x.bin : x \in tars}
            /\ \A d \in wdinfo :
                 LET here(k) == {x \in tars : x.bin = d.bin /\ x.kind = k}
                     keys(x) == [i \in DOMAIN x.entries |-> x.entries[i].clip]
                 IN /\ \A k \in Kinds : {<<x.part, x.tar, keys(x)>> : x \in here(k)}
                                        = {<<x.part, x.tar, keys(x)>> : x \in here("video")}
                    /\ d.files = {<<x.part, x.tar>> : x \in here("video")}
                    /\ d.keys = Cardinality(UNION {ClipsIn(x) : x \in here("video")})

\* A reader pairs the embeddings of a clip with its windows by position: where
\* the two tars of a task disagree about their number, the metadata says that
\* the clip is not valid (T5StageForShard).
EmbeddingsFit ==
  \A x, y \in tars : x.kind = "t5_xxl" /\ y.kind = "metas" /\ Place(x) = Place(y) =>
      \A i \in DOMAIN x.entries :
          y.entries[i].valid => x.entries[i].embeddings = y.entries[i].windows

\* Which clip sets can be sharded at all: those where every clip's metadata is
\* complete, captions have no gap before them, and no bin loses its only tar for
\* being small.  These are sharded in the end; any other fails in every run.
Shardable ==
  LET sharded == {c \in Kept : meta[c].bin # NoBin}
      words(c) == meta[c].captioned
  IN /\ sharded # {}
     /\ \A c \in Clip : meta[c].state # "bare"
     /\ \A c \in sharded : /\ \A j \in DOMAIN words(c) : words(c)[j] => \A i \in 1..j : words(c)[i]
                          /\ Groups(meta[c].bin) # <<>>

ShardedInTheEnd == Shardable => <>[]listed

-----------------------------------------------------------------------------
(* The inductive invariant behind the safety properties: whatever died, there *)
(* has only ever been one plan for this output.                               *)

\* The tasks of a run that finds the output empty.
TaskOf(b, i) == [bin |-> b, part |-> (i - 1) \div MaxTarsPerPart,
                 tar |-> (i - 1) % MaxTarsPerPart, clips |-> Groups(b)[i]]
Plan == UNION {{TaskOf(b, i) : i \in DOMAIN Groups(b)} : b \in AllBins}

TarOf(t, k) == [bin |-> t.bin, part |-> t.part, tar |-> t.tar, kind |-> k,
                entries |-> [i \in DOMAIN t.clips |-> Entry(k, t.clips[i])]]
PlanTars == {TarOf(t, k) : t \in Plan, k \in Kinds}
IsPacked(t) == \A k \in Kinds : TarOf(t, k) \in tars

Held == [Packers -> [task : SUBSET Plan, written : SUBSET Kinds]]

TypeOK ==
  /\ meta \in [Clip -> Metas] /\ dedup \in Dedups
  /\ phase \in {"down", "up", "summing", "done"}
  /\ planned \subseteq Plan /\ todo \subseteq Plan /\ encoded \subseteq Plan /\ packed \subseteq Plan
  /\ packing \in Held
  /\ tars \subseteq PlanTars
  /\ listed \in BOOLEAN /\ deaths \in Nat

\* After a run came through its stages, or vouched for the output, its tars are
\* those of the whole plan.
Over == phase = "summing" \/ listed
RunInv == /\ phase = "up" \/ Over => planned = Plan
          /\ Over => packed = Plan

\* What a packer has written of its task, and all of a task it has handed on, is
\* there.
PackedInv ==
  /\ phase = "up" \/ Over => \A t \in packed : IsPacked(t)
  /\ \A p \in Packers : \A t, u \in packing[p].task : t = u
  /\ phase = "up" => \A p \in Packers : \A t \in packing[p].task :
                       \A k \in packing[p].written : TarOf(t, k) \in tars

\* Every wdinfo.json was written when its bin was all there.
SummaryInv ==
  /\ phase = "up" => wdinfo = {}
  /\ Over => \A d \in wdinfo : \E b \in AllBins : HasCount(b) /\ d = Data(b)
  /\ listed => phase = "done" /\ NotTold = {}

ShardInv == TypeOK /\ RunInv /\ PackedInv /\ SummaryInv
=============================================================================
