SPECIFICATION Spec
CONSTANTS
  boom = boom
  failure = failure
  Tasks = {errorScheduler, metricScheduler}
  Schedulers = {errorScheduler, metricScheduler}
  MetricTasks = {metricScheduler}
  ErrorTasks = {errorScheduler}
  CustomMetrics <- OneMetric
  MaxFailures = 1
  MaxAccepted = 1
  Errors = {boom, noise, failure, panic}
  AppErrors = {boom, noise}
  Ignored = {noise}
  PanicError = panic
  Listeners = {l1, l2}
  Capacity = 1
  External = TRUE
  MaxTracked = 2
INVARIANT FailureTrackedOnce
