\* Two tool calls that share one scheduler thread.
SPECIFICATION FairSpec
CONSTANTS
  Tasks = {t1, t2}
  PoolSize = 1
INVARIANTS
  TypeOK
  AnswersAreComplete
  EntriesAreOwned
PROPERTIES
  FirstTerminalWins
  ToolsReturn
  SubagentsStop
CHECK_DEADLOCK FALSE
