----------------------- MODULE MCDocumentCoordinator -----------------------
\* The coordinator with four tasks for TLC.
EXTENDS DocumentCoordinator, TLC

CONSTANTS o1, o2, o3, o4

MCOps4 == {o1, o2, o3, o4}
=============================================================================
