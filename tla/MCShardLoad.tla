--------------------------- MODULE MCShardLoad ---------------------------
(* Small instances of ShardLoad for TLC. *)
EXTENDS ShardLoad

Linear(k, tp, in, out, stored, kv) ==
    [kind |-> k, tp |-> tp, in |-> in, out |-> out, stored |-> stored, kvHeads |-> kv, experts |-> 0]
Apart(n) == [i \in 1 .. n |-> <<i>>]

\* Widths in units of 32 channels: a Hadamard block is 4, a tile stands for 2,
\* vLLM pads a vocabulary to 2.
MCLayers ==
    {Linear("column", tp, in, <<w>>, <<<<1>>>>, 0) : tp \in {1, 2}, in \in {3, 8}, w \in {6, 8, 12}}
    \cup {Linear("row", tp, in, <<w>>, <<<<1>>>>, 0) : tp \in {1, 2}, in \in {6, 8, 12}, w \in {7, 8}}
    \cup {Linear("merged", tp, 8, <<8, 16, w, 8>>, st, 0) :
            tp \in {1, 2}, w \in {6, 8}, st \in {Apart(4), <<<<1, 2, 3>>, <<4>>>>}}
    \cup {Linear("qkv", tp, 8, <<16, 4 * kv, 4 * kv>>, st, kv) :
            tp \in {1, 2, 4}, kv \in {1, 2, 4}, st \in {Apart(3), <<<<1, 2, 3>>>>}}
    \cup {Linear("head", tp, 8, <<v>>, <<<<1>>>>, 0) : tp \in {1, 2}, v \in {5, 7, 8, 12, 13, 15, 16}}
    \cup {[kind |-> "moe", tp |-> tp, in |-> 5, out |-> <<w>>, stored |-> <<>>, kvHeads |-> 0,
           experts |-> 3] : <<tp, w>> \in {<<1, 7>>, <<2, 7>>, <<2, 8>>, <<2, 10>>}}

Checkpoint(lacks, narrow, bits, noise) ==
    [lacks |-> lacks, narrow |-> narrow, bits |-> bits, scale |-> 7, noise |-> noise]

\* Experts of one width per projection, of two for gate and up, of two within
\* one; measures near the constant but for an outlier, and too far from it.
Even == <<<<3, 3, 3>>, <<3, 3, 3>>, <<2, 2, 2>>>>
GateUp == <<<<3, 3, 3>>, <<4, 4, 4>>, <<3, 3, 3>>>>
Mixed == <<<<3, 3, 3>>, <<3, 3, 3>>, <<2, 3, 2>>>>
Near == <<10, -12, 300>>
Far == <<40, -30, 45>>

MCCheckpoints(kind) ==
    IF kind = "moe"
    THEN {Checkpoint({}, FALSE, Even, Near), Checkpoint({"svh"}, FALSE, Even, Near),
          Checkpoint({}, FALSE, GateUp, Near), Checkpoint({}, FALSE, Mixed, Near),
          Checkpoint({}, FALSE, Even, Far)}
    ELSE {Checkpoint(lacks, narrow, <<>>, <<>>) : lacks \in {{}, {"svh"}}, narrow \in BOOLEAN}
==========================================================================
