---------------------------- MODULE MCQuantInputs ----------------------------
(* Small instances of QuantInputs for TLC. *)
EXTENDS QuantInputs

TwoScored == <<"wild", "swe">>
TwoDiagnostic == <<"ctx_user", "self">>
OwnVoiceAndRaw == [self |-> 5, raw |-> 3]
OwnVoiceOnly == [self |-> 3, raw |-> 0]
MoreRows == {<<>>, [self |-> 9], [raw |-> 2]}
=============================================================================
