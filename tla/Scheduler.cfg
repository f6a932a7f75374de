\* Safety and refinement: two pipelines, three tasks.
SPECIFICATION Spec
CONSTANTS
  async = async
  main = main
  Pipeline <- MCPipeline
  Async = async
  Main = main
  Delay = {0, 1}
  Requests <- SafetyRequests
  MaxAge = 1
  MaxTasks = 3
  MaxPreempt = 1
INVARIANTS TypeOK QueueIntegrity OnceAtMostOnce NothingLost ImmediateInOrder QuietAfterJoin
PROPERTIES ImplementsPromise
