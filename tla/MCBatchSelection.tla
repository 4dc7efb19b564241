-------------------------- MODULE MCBatchSelection --------------------------
EXTENDS BatchSelection

\* Sections are numbered by distance; 3 exceeds what may be in flight.
MCDistance == [s \in Sections |-> s]
MCBytes == [s \in Sections |-> IF s = 3 THEN 4 ELSE s]
=============================================================================
