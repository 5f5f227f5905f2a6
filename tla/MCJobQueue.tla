----------------------------- MODULE MCJobQueue -----------------------------
(***************************************************************************)
(* Instances of JobQueue for TLC.                                          *)
(***************************************************************************)
EXTENDS JobQueueDelivery, TLC

\* Instances of the program are interchangeable, and so are goroutine slots.
Symmetry == Permutations(Procs) \cup Permutations(Slots)

\* Bound: two failed commands or crashes, or one job timeout.  A goroutine that outlives its job
\* multiplies the interleavings of two instances, so a timeout comes alone.
FewMishaps ==
  /\ faults + crashes <= 2
  /\ timeouts > 0 => faults + crashes = 0

BoundedSpec == Init /\ [][Next /\ FewMishaps']_vars

=============================================================================
