-------------------------- MODULE MCErrorTracking --------------------------
EXTENDS ErrorTracking

CONSTANTS boom, failure

OneMetric == <<failure>>
============================================================================
