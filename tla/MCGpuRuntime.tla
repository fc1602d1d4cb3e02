---------------------------- MODULE MCGpuRuntime ----------------------------
(* The configurations of GpuRuntime: what the client calls in each run.    *)
EXTENDS GpuRuntime

FlushingCalls ==
  {"flush", "readback", "clone", "normalize", "scopeError", "decode"}
StepCalls ==
  {"submit", "readback", "step", "reset", "bypass", "explicit", "reclaim"}
FailureCalls ==
  {"submit", "sync", "flush", "readback", "fence", "scopeError"}
PendingCalls == {"submit", "readback"}
DecodeCalls == {"readback", "decode"}
FencedStepCalls == {"readback", "fence", "step"}
DiscardFlushCalls == {"submit", "flush", "scopeError"}
FenceCalls == {"flush", "fence"}
SyncCalls == {"submit", "sync"}
SubmitCloneCalls == {"submit", "clone"}
ExplicitCalls == {"readback", "explicit"}
=============================================================================
