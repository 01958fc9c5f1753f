------------------------------ MODULE MCShardRun ------------------------------
EXTENDS ShardRunProps

All == <<TRUE, TRUE>>

MCMetas == {[state |-> "valid", bin |-> b, size |-> s, captioned |-> All] :
              b \in {"b1"}, s \in {1, 2}}
           \cup {[state |-> "valid", bin |-> "b2", size |-> 1, captioned |-> w] :
                   w \in {<<TRUE, FALSE>>, <<FALSE, TRUE>>}}
           \cup {[state |-> "valid", bin |-> NoBin, size |-> 1, captioned |-> All]}
           \cup {[state |-> s, bin |-> "b1", size |-> 1, captioned |-> All] : s \in {"lost", "bare"}}

MCDedups == {[extracted |-> {}, pruned |-> {}], [extracted |-> {}, pruned |-> {{1}, {}}],
             [extracted |-> {{2}}, pruned |-> {{1}}]}
=============================================================================
