SPECIFICATION LoopSpec
CONSTANTS
  call = call
  send = send
  serve = serve
  plain = plain
  t1 = t1
  t2 = t2
  t3 = t3
  remote = remote
  NoSpan = NoSpan
  NoTask = NoTask
  Ops = {send}
  StreamOps = {send}
  ServerOps = {}
  Closable = {send}
  Tasks = {t1, t2}
  Remotes = {remote}
  Disciplined = FALSE
  InvokeMayRaise = FALSE
CHECK_DEADLOCK FALSE
PROPERTY AbandonedEnds
