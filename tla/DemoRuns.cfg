SPECIFICATION Spec
CONSTANTS
  r1 = r1
  r2 = r2
  NoRun = NoRun
  Runs = {r1, r2}
CHECK_DEADLOCK FALSE
INVARIANTS PassedIsEvident VerifiedWasAnswered DoneLeavesNone
PROPERTIES ReceiptBeforeStop
