\* Liveness under fair driving of the pipelines: three tasks, loops without delay among them.
SPECIFICATION FairSpec
CONSTANTS
  async = async
  main = main
  Pipeline <- MCPipeline
  Async = async
  Main = main
  Delay = {0, 1}
  Requests <- LivenessRequests
  MaxAge = 1
  MaxTasks = 3
  MaxPreempt = 0
PROPERTIES EveryTaskRuns CallbackRunsOnceReady JoinReturns
