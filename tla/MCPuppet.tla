------------------------------ MODULE MCPuppet ------------------------------
(* Small instances of PuppetTrips for TLC. *)
EXTENDS PuppetTrips, TLC

CONSTANTS t1, t2, d1, d2, d3, r1, r2, c1, c2

\* Trips are interchangeable, and so are drivers, riders and clients.
Interchangeable == Permutations({t1, t2}) \cup Permutations({d1, d2, d3})
                   \cup Permutations({r1, r2}) \cup Permutations({c1, c2})
=============================================================================
