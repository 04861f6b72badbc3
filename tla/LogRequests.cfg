SPECIFICATION Spec
CONSTANTS
  main = main
  t1 = t1
  t2 = t2
  a = a
  b = b
  r1 = r1
  r2 = r2
  None = None
  Tasks = {main, t1, t2}
  Main = main
  Services = {a, b}
  Requests = {r1, r2}
  MaxConfigures = 2
SYMMETRY LoggingSymmetry
INVARIANTS CorrelationIsOwn ServiceSurvivesRequests
