-------------------------------- MODULE MCBar --------------------------------
(* Instances of Bar for TLC: outputs are alike, and views.                  *)
EXTENDS Bar, TLC

Symmetry == Permutations(Outputs) \cup Permutations(Views)

\* The two halves of the model meet in the bar alone: while the pipe is open no window is mapped
\* and the outputs are lit, and the blocks a helper has left behind go on scrolling afterwards.
Apart ==
    source.open =>
        (\A v \in Views : view[v].on = None) /\ (\A o \in Outputs : out[o].lit)
=============================================================================
