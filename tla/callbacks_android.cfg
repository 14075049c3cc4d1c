SPECIFICATION Spec
CONSTANTS
  Callers = {"ui", "worker"}
  StatusThreads = {"io", "discovery"}
INVARIANT NoDeadlock
