--------------------------- MODULE MCExpertCache ---------------------------
(* Small instances of ExpertCache for TLC. *)
EXTENDS ExpertCache

\* The routings in which a step's decode rows chose exactly these experts.
Chosen(h, s) == [x \in h |-> IF x \in s THEN 1 ELSE 0]

\* One layer of three offloaded experts, the last of which starts on the host;
\* a decode row chooses the first and one of the others.
Three == {<<0, 0>>, <<0, 1>>, <<0, 2>>}
FirstAndOther == {Chosen(Three, {<<0, 0>>, <<0, 1>>}), Chosen(Three, {<<0, 0>>, <<0, 2>>})}
=============================================================================
