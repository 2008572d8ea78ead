---------------------------- MODULE MCQuantLadder ----------------------------
(* Small instances of QuantLadder for TLC. *)
EXTENDS QuantLadder, TLC

CONSTANTS r3, r4, g0, g1

TwoRungs == <<r3, r4>>
OneGpu == <<g0>>
TwoGpus == <<g0, g1>>
OneOrTwoGpus == {OneGpu, TwoGpus}

Flags(c, rcp, s, y) ==
    [calibration |-> c, recipe |-> rcp, share |-> s, yaqa |-> y, plan |-> FALSE]
OwnVoice == Flags("mix", TRUE, "own", "blend")
GivenFile == Flags("default", TRUE, "file", "named")
Uniform == Flags("default", FALSE, "own", "no")
Blended == Flags("default", TRUE, "blend", "no")
Planned == [Uniform EXCEPT !.plan = TRUE]

\* Blends without the other categories measured are asked for on one GPU only, and
\* uniform bits, whose tasks have no solve before them.
Everyday == (OneOrTwoGpus \X {OwnVoice}) \cup {<<TwoGpus, GivenFile>>}
            \cup ({OneGpu} \X {Uniform, Blended, Planned})

Interchangeable == Permutations(Tree)
=============================================================================
