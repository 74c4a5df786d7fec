----------------------------- MODULE MCJobOrder -----------------------------
(* Instances of JobOrder for TLC. *)
EXTENDS JobOrder, TLC

\* A KeyboardInterrupt reaches Python where the call blocks: in the send, in a
\* settle round or in the sleep between two.
BlockingPlaces == {"send", "settle", "once"}

\* ... or between any two bytecodes, those after _propose_job included.
AnyPlace == {"send", "settle", "once", "record"}

Symmetric == Permutations(Orders)
=============================================================================
