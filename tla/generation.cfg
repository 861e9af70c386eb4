SPECIFICATION TimedSpec
CONSTANTS
  Goals = {0, 1, 2}
  Inputs = {i1, i2}
  Runs = {r1, r2}
  \* The Boolean encoding with either coverage check, and instrumentation.
  CommandLines = {{}, {"sat-coverage-check"}, {"no-internal-coverage-check"},
                  {"use-instrumentation"},
                  {"use-instrumentation", "no-internal-coverage-check"}}
  Limits = {0, 1, 2}
  Mults = {1, 2}
INVARIANTS
  RecordedGoalsAreReal
  GoalsAccountedFor
  ReportedGoalsAreInfeasible
  CoverageChecksAgree
  SolversInStep
  StatisticsAreRight
PROPERTIES
  QueryEnds
  ImplementsContract
CHECK_DEADLOCK FALSE
