SPECIFICATION FairSpec
CONSTANTS
  call = call
  send = send
  serve = serve
  plain = plain
  t1 = t1
  t2 = t2
  t3 = t3
  remote = remote
  NoSpan = NoSpan
  NoTask = NoTask
  Ops = {send, plain}
  StreamOps = {send, plain}
  ServerOps = {plain}
  Closable = {send}
  Tasks = {t1, t2, t3}
  Remotes = {}
  Disciplined = FALSE
  InvokeMayRaise = FALSE
CHECK_DEADLOCK FALSE
INVARIANTS OneTerminal OutcomesAgree IteratorClosed
PROPERTIES ImplementsReports AbandonedEnds
