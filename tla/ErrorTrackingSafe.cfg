SPECIFICATION FairSpec
CONSTANTS
  boom = boom
  failure = failure
  Tasks = {errorScheduler, errorCaller, metricScheduler}
  Schedulers = {errorScheduler, metricScheduler}
  MetricTasks = {metricScheduler}
  ErrorTasks = {errorScheduler, errorCaller}
  CustomMetrics <- OneMetric
  MaxFailures = 2
  MaxAccepted = 1
  Errors = {boom, noise, failure, panic}
  AppErrors = {boom, noise}
  Ignored = {noise}
  PanicError = panic
  Listeners = {l1}
  Capacity = 1
  External = FALSE
  MaxTracked = 1
INVARIANT TableIsWindow
INVARIANT FirstSeenOrder
INVARIANT ReportIsWhole
INVARIANT TotalsAreOccurrences
INVARIANT FailureTrackedOnce
INVARIANT MissedOnlyWhenBehind
INVARIANT FlushedOnlyAccepted
PROPERTY ImplementsErrorReports
PROPERTY TrackedIsTaken
PROPERTY FailureIsHeard
