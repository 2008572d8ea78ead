------------------------ MODULE MCCheckpointCompose ------------------------
EXTENDS CheckpointCompose

S(k, c, b, l) == [bits |-> k, code |-> c, bias |-> b, dims |-> 1, listed |-> l]

\* `hi` is a conversion at other widths and codebooks whose tensor_storage omits
\* a module; `orig` is what the base was converted from; `tune` is another
\* fine-tune of it with a bias of its own and a module the base does not have.
MCCheckpoints ==
  [base |-> [head |-> S(3, "mcg", FALSE, TRUE), vis |-> S(3, "mcg", TRUE, FALSE),
             mlp |-> S(3, "mcg", FALSE, TRUE), norm |-> S(0, "default", FALSE, TRUE)],
   hi   |-> [head |-> S(6, "mul1", FALSE, TRUE), vis |-> S(6, "mul1", TRUE, FALSE),
             mlp |-> S(4, "default", FALSE, FALSE), norm |-> S(0, "default", FALSE, TRUE)],
   orig |-> [head |-> S(0, "default", FALSE, TRUE), vis |-> S(0, "default", TRUE, TRUE),
             mlp |-> S(0, "default", FALSE, TRUE), norm |-> S(0, "default", FALSE, TRUE)],
   tune |-> [head |-> S(0, "default", FALSE, TRUE), mlp |-> S(0, "default", TRUE, TRUE),
             norm |-> S(0, "default", FALSE, TRUE), extra |-> S(0, "default", FALSE, TRUE)]]

MCHome == [head |-> [p \in Part |-> 1], vis |-> [p \in Part |-> 1],
           mlp |-> [p \in Part |-> 2], norm |-> [p \in Part |-> 2]]

MCRecipes == {[mlp |-> 3], [head |-> 6, mlp |-> 3], [mlp |-> 4], [extra |-> 4]}
MCHead == {"head"}
MCVision == {"vis"}
=============================================================================
