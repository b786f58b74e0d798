------------------------ MODULE MCCandidateDelivery ------------------------
EXTENDS CandidateDelivery, TLC

Once == [e \in Effects |-> 1]
=============================================================================
