SPECIFICATION AutoscalerSpec
CONSTANTS
  Job = {j1, j2}
  NoJob = NoJob
INVARIANT EvaluationFailsOnlyWithStream
CHECK_DEADLOCK FALSE
