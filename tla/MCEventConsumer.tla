--------------------------- MODULE MCEventConsumer ---------------------------
(* Instances of EventConsumer for TLC.                                      *)
EXTENDS EventConsumer

CONSTANTS o1, o2, w1, w2

\* The dead-letter topic made by hand, as the deployment needs.
HandMade == {DeadLetterTopic}

=============================================================================
