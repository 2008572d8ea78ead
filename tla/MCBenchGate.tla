---------------------------- MODULE MCBenchGate ----------------------------
(* Small instances of BenchGate for TLC. *)
EXTENDS BenchGate

\* A TP=1 entry that serves a derived checkpoint, the sharded entry that answers to
\* it, in a tier of its own, and one known to be broken.
MCSuite == <<"blockq", "tp", "broken">>
MCTierOf == [blockq |-> "fast", broken |-> "tp", tp |-> "tp"]
MCSibling == [tp |-> "blockq"]
MCShapes == [blockq |-> {"k1"}, broken |-> {"k1"}, tp |-> {"k1", "k2"}]

\* The second version of the source has another encoder, and a rank of the sharded
\* entry holds the whole model; in the third the encoder is left as it was in the
\* second, and the sharded entry misses the change.
V(l, w, f) == [logits |-> l, weight |-> w, fixture |-> f]
MCServes ==
  <<[blockq |-> V(1, 1, 1), broken |-> V(1, 1, 0), tp |-> V(1, 1, 0)],
    [blockq |-> V(2, 1, 2), broken |-> V(1, 1, 0), tp |-> V(2, 2, 0)],
    [blockq |-> V(2, 1, 2), broken |-> V(1, 1, 0), tp |-> V(1, 1, 0)]>>
MCEncoderOf == <<1, 2, 2>>

\* The second environment's log has no weight line.
MCLogs == <<[weighs |-> TRUE, backend |-> 1], [weighs |-> FALSE, backend |-> 1]>>
=============================================================================
