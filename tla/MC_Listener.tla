------------------------------ MODULE MC_Listener ------------------------------
EXTENDS Listener

\* A 2-bit counter wraps after four connections, so eight connections cross it twice.
MC_CounterBits == 2
MC_MaxConn == 8
================================================================================
