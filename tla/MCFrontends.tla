---------------------------- MODULE MCFrontends ----------------------------
EXTENDS Frontends
CONSTANTS d1, d2, h1, h2, p1, p2, n1, n2, u1, f1
\* Two daemons with ports of their own; the app's first settings are on the first one's port.
MCConfigOf == [d \in {d1, d2} |-> [port |-> IF d = d1 THEN p1 ELSE p2,
                                   name |-> IF d = d1 THEN n1 ELSE None]]
MCDefaults == [port |-> p1, name |-> n1]
\* With the receiver as it is, or with another in its place.
MCChoices == {[port |-> p1, name |-> n2], [port |-> p2, name |-> n1]}
MCMachines == {{d1, d2}, {"desktop"}, {"desktop", d2}, {"desktop", u1}, {"desktop", f1}}
===========================================================================
