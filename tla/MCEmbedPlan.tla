---------------------------- MODULE MCEmbedPlan ----------------------------
(* Small instances of EmbedPlan for TLC. *)
EXTENDS EmbedPlan, TLC

\* Every checkpoint the tools write.
EveryCheckpoint == {c \in Checkpoint : Legal(c)}

\* Those with a sidecar.
Sidecars == {c \in EveryCheckpoint : c.embed = {"dense", "bq"}}

EverySetting == Setting
=============================================================================
