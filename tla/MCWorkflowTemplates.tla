------------------------ MODULE MCWorkflowTemplates ------------------------
\* Instances of WorkflowTemplates for TLC.
EXTENDS WorkflowTemplates, TLC

CONSTANTS s1, s2

TwoSteps == <<s1, s2>>

\* A step that cannot be executed, and a status that the table refuses.
SomeFields == {[status |-> "waiting", enabled |-> FALSE],
               [status |-> "ready", enabled |-> TRUE]}

Symmetry == Permutations(Request)
=============================================================================
