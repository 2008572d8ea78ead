---------------------------- MODULE MCQuantScore ----------------------------
(* Small instances of QuantScore for TLC. *)
EXTENDS QuantScore

CONSTANTS r3, r4, other, fp8

OneScored == <<"wild", "self">>

Whole == [revisions |-> None, baselines |-> {}, slices |-> None, sample |-> None,
          refs |-> {}, thrs |-> {}, parity |-> {}, prune |-> TRUE]
Everything == [Whole EXCEPT !.refs = {other}, !.thrs = {fp8}, !.parity = {other}]
OneRevision == [Whole EXCEPT !.revisions = {r3}, !.baselines = {r3}]
NewReference == [Whole EXCEPT !.revisions = {}, !.refs = {other}, !.thrs = {fp8}]
OneSlice == [Whole EXCEPT !.slices = {"wild"}]
Screening == [Whole EXCEPT !.revisions = {r3}, !.slices = {"wild"}, !.sample = "wild"]

Everyday == {Everything, OneRevision, NewReference, OneSlice, Screening}
=============================================================================
