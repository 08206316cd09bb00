---------------------------- MODULE MCEdgeCapture -----------------------------
EXTENDS EdgeCapture

CONSTANTS f1, f2
TwoSlugs == <<f1, f2>>
Lists == {<<>>, <<f1>>, <<f2>>, <<f1, f2>>}

=============================================================================
