CONSTANTS
  rule = rule
  report = report
  Audited <- MCAudited
  Reports <- MCReports
  Activities = 2
  Ends = {4, 8}
  Limit = 4
  PollSeconds = 1
  Timeout = 2
  Latency = 1
SPECIFICATION Spec
INVARIANT
  RepeatIsStable
