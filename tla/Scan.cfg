CONSTANT Instances <- MCInstances
SPECIFICATION Spec
INVARIANTS ReportIsFullScan CheckpointsRestart
CHECK_DEADLOCK FALSE
