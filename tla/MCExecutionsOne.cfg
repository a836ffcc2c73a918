CONSTANTS
    Pipelines <- MCPipelines
    Graphs <- MCGraphs
    PipelineCount = 2
    MaxExec = 3
    MaxTicks = 3
    MaxRuns = 2
    MaxHour = 2
    MaxAdds = 3
    MaxRecords = 3
    ChanSize = 1
    BatchSize = 2
SPECIFICATION MCSpec
INVARIANT OneExecution
CHECK_DEADLOCK FALSE
