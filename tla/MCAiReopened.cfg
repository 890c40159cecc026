SPECIFICATION Spec
CONSTANTS
  gemini = gemini
  openai = openai
  flash = flash
  pro = pro
  Logs = {1, 2, 3}
  Rows = {1, 2, 3}
  Contexts = {"", "upgraded"}
  MaxLogs = 1
  Providers = {gemini}
  Models = {flash}
  Offered <- MCOneModel
  Configured <- MCAlone
  MaxEdits = 0
  MaxOpenings = 2
  MaxBreaks = 1
  HostOf <- MCHostOf
  AppOf <- MCAppOf
  MaxReads = 2
  Selections <- MCSelections
INVARIANTS ResultBelongs HandsItsContext
CHECK_DEADLOCK FALSE
