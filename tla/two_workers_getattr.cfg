\* Two worker threads, whose getattr closures may outlive the frames they fill.
CONSTANTS
  Root = root
  Names = {f}
  Present = {f}
  Value = {v}
  NoValue = none
  Ops = {"getattr", "write"}
  Threads = {t1, t2}
SPECIFICATION Spec
INVARIANT FrameAlive
PROPERTY EveryClosureRuns
