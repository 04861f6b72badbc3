SPECIFICATION Spec
CONSTANTS
  call = call
  send = send
  serve = serve
  plain = plain
  t1 = t1
  t2 = t2
  t3 = t3
  remote = remote
  NoSpan = NoSpan
  NoTask = NoTask
  Ops = {call, send, serve}
  StreamOps = {send, serve}
  ServerOps = {serve}
  Closable = {send, serve}
  Tasks = {t1, t2}
  Remotes = {remote}
  Disciplined = TRUE
  InvokeMayRaise = TRUE
CHECK_DEADLOCK FALSE
SYMMETRY TaskSymmetry
INVARIANTS Correlated ContextRestored SpansNest
