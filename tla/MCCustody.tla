----------------------------- MODULE MCCustody -----------------------------
EXTENDS Custody
CONSTANTS f1, f2, f3
\* A Live Photo, and a video whose original the receiver replaces.
MCAssets == {{f1, f2}, {f3}}
MCPolicy == [f \in {f1, f2, f3} |-> IF f = f2 THEN "keep" ELSE "replace"]
\* Everything is sent, or the Live Photo without some part of it.
MCSelections == {{}, {{f1, f2}}}
===========================================================================
