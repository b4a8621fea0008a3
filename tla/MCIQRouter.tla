----------------------------- MODULE MCIQRouter -----------------------------
(* The routers that the configurations of the repository build.            *)
EXTENDS IQRouter, TLC

Plain == [speculative |-> FALSE, piggyback |-> FALSE, hold |-> FALSE,
          routingDelay |-> 0, vcAllocDelay |-> 1, swAllocDelay |-> 1]

\* noc_config and its kind; the defaults; the fat tree; piggyback and hold.
Built == {[Plain EXCEPT !.speculative = TRUE],
          [Plain EXCEPT !.routingDelay = 1],
          [Plain EXCEPT !.hold = TRUE],
          [Plain EXCEPT !.speculative = TRUE, !.piggyback = TRUE, !.hold = TRUE]}

SlowVcAlloc == {[Plain EXCEPT !.vcAllocDelay = 2]}

Interchangeable == Permutations(Inputs) \cup Permutations(Outputs) \cup Permutations(VCs)

=============================================================================
