SPECIFICATION Spec
CONSTANTS
  None = None
  Docs = {d1}
  Files = {}
  Msgs = {}
  Texts = {t1, t2}
  Short = {}
  Jobs = {j1, j2}
  MaxAsked = 3
  MaxFaults = 0
INVARIANT HarmlessOrder
CHECK_DEADLOCK FALSE
