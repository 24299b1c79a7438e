SPECIFICATION UsmartSpec
CONSTANTS
  Task <- Tasks
  Idle = 63
  TcbList <- List3
  Queue = {"mbox"}
  Sem = {"sem"}
  Pends <- PendsOf
  Posts <- PostsOf
  Sleepers = {8}
  Lockers = {6}
  Suspenders = {6}
  IsrPosts = {"mbox"}
  Ticks = {0, 2}
  QSize = 2
  SemStart = 0
  MaxMsg = 3
  MaxSignal = 2
INVARIANT IdleReady
