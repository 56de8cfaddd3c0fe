SPECIFICATION WorkloadSpec
CONSTANTS
  Workloads = {"w"}
  Templates = {1}
  MaxUids = 3
  MaxEvents = 4
INVARIANTS ReadsOwnPod
CHECK_DEADLOCK FALSE
