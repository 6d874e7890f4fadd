--------------------------- MODULE MCConversion ---------------------------
EXTENDS Conversion
CONSTANTS f1, f2
\* A video that is replaced, and one that gets a converted copy.
MCAssets == {{f1}, {f2}}
MCPolicy == [f \in {f1, f2} |-> IF f = f1 THEN "replace" ELSE "sidecar"]
===========================================================================
