SPECIFICATION Spec
CONSTANTS
  gemini = gemini
  openai = openai
  flash = flash
  pro = pro
  Logs = {1, 2}
  Rows = {1, 2}
  Contexts = {"", "upgraded"}
  MaxLogs = 1
  Providers = {gemini, openai}
  Models = {flash, pro}
  Offered <- MCOffered
  Configured <- MCConfigured
  MaxEdits = 3
  MaxOpenings = 1
  MaxBreaks = 1
  HostOf <- MCHostOf
  AppOf <- MCAppOf
  MaxReads = 0
  Selections <- MCSelections
INVARIANTS  OffersMatch ProgressTrue
PROPERTY RunEnds
CHECK_DEADLOCK FALSE
