---------------------------- MODULE MCStageChain ----------------------------
(* Instances of the chain of stages: filters and embeddings, captions and   *)
(* judges, and a configuration with everything.                             *)
EXTENDS StageChainProps

Plain == [motion |-> "disable", aesthetic |-> "disable", semantic |-> "disable",
          classifier |-> FALSE, embedding |-> "none", caption |-> "none",
          previews |-> FALSE, enhance |-> FALSE, judges |-> <<>>, predict |-> FALSE]

Filters == {c \in Config : /\ c.caption = "none" /\ ~c.previews /\ ~c.enhance
                           /\ c.judges = <<>> /\ ~c.predict}

Captions == {c \in Config : /\ c.motion = "disable" /\ c.aesthetic = "disable"
                            /\ c.semantic = "disable" /\ ~c.classifier
                            /\ c.embedding = "none"}

Both == [Plain EXCEPT !.aesthetic = "enable", !.semantic = "enable", !.classifier = TRUE,
                      !.embedding = "internvideo2", !.caption = "vllm",
                      !.judges = <<"text", "mp4_bytes">>]

AllConfigs == Filters \cup Captions \cup {Both}
=============================================================================
