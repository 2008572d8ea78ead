------------------------- MODULE MCExpertPlacement -------------------------
(* Small instances of ExpertPlacement for TLC. *)
EXTENDS ExpertPlacement

\* Selectors that match every expert, and ones that leave out the first
\* layer's first expert and the second layer's gate.
Some == {r \in Row : IF r[1] = 0 THEN r[3] # 0 ELSE r[2] # 0}
EveryOrSome == {Row, Some}

\* No RAM over the margin, some of what the experts need, and plenty.
HostRAM == {-3, 4, 20, 100}
=============================================================================
