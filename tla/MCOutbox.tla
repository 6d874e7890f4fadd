------------------------------ MODULE MCOutbox ------------------------------
EXTENDS Outbox
CONSTANTS d1, d2, f1, h1, h2, c1
\* Bounds: two phones and two requests meet in one row, or with one phone and one request
\* the file is written a third time or the worker has two rows.
Met   == row[2].st = "unused" /\ clock <= 2
Alone == /\ \A i \in Items : row[i].dev \in {d1, None}
         /\ add[c1].dev \in {d1, None} /\ handler[h1].dev \in {d1, None}
         /\ handler[h2] = IdleHandler /\ d2 \in paired
         /\ row[2].st = "unused" \/ clock <= 2
SceneSpec == Init /\ [][Next /\ (Met \/ Alone)']_vars /\ WF_vars(Worker)
=============================================================================
