\* fuse_ext2 -s: one worker thread, all four operations.
CONSTANTS
  Root = root
  Names = {f, g}
  Present = {f}
  Value = {v, w}
  NoValue = none
  Ops = {"getattr", "readdir", "read", "write"}
  Threads = {t1}
SPECIFICATION Spec
INVARIANT TypeOK
PROPERTIES ImplementsRemoteCalls OneWorkerReturns
