------------------------------- MODULE MCSaga -------------------------------
EXTENDS Saga

\* The lease passes once, to the other node or back to the one that lost it.
TwoTerms == [h \in BOOLEAN |-> 2]

\* The lease leaves a node and comes back to it.
ThreeTerms == [h \in BOOLEAN |-> 3]
=============================================================================
