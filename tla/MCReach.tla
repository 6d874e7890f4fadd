------------------------------ MODULE MCReach ------------------------------
EXTENDS Reach
CONSTANTS a1, a2, a3, g, m, r1, r2, f1, f2, f3
\* r1 is on the scan's network, r2 in a subnet that is swept.
MCHears == [t \in {a1, a2, g, m} |-> IF t = a2 THEN {r2} ELSE {r1}]
\* A paired address that a sweep names again, and broadcast with mDNS.
MCPlans == {<<a1, a1, a2>>, <<g, m>>}
\* A Live Photo and a video.
MCEntries == {{f1, f2}, {f3}}
MCLists == {<<a1, a2>>, <<a2, a3>>}
===========================================================================
