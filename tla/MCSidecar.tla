----------------------------- MODULE MCSidecar ------------------------------
EXTENDS Sidecar
CONSTANTS b1, b2, b3, localhost, lan
MCBackends == {b1, b2, b3}
MCModes == {localhost, lan}
MCTasks == {1, 2}
=============================================================================
