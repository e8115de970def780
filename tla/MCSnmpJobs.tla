----------------------------- MODULE MCSnmpJobs ------------------------------
(* Instances of SnmpJobs for TLC. *)
EXTENDS SnmpJobs, TLC

\* Jobs, requests and API calls are interchangeable; so are handler slots when
\* they have the same environment.
SymmetryOfRows == Permutations(Jobs) \cup Permutations(Requests) \cup Permutations(Clients)
Symmetry == SymmetryOfRows \cup Permutations(Workers)
=============================================================================
