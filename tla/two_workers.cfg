\* Two worker threads over the one dispatch loop.
CONSTANTS
  Root = root
  Names = {f, g}
  Present = {f}
  Value = {v, w}
  NoValue = none
  Ops = {"readdir", "read", "write"}
  Threads = {t1, t2}
SPECIFICATION Spec
PROPERTY ImplementsRemoteCalls
