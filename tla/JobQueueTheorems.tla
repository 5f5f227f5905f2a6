-------------------------- MODULE JobQueueTheorems --------------------------
(***************************************************************************)
(* All that is proved about JobQueue, in one module, for the module that   *)
(* instantiates it.                                                        *)
(***************************************************************************)
EXTENDS DeliveryProofs, JobQueueExclusionProofs

=============================================================================
