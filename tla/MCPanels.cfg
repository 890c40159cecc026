SPECIFICATION Spec
CONSTANTS
  gemini = gemini
  openai = openai
  flash = flash
  pro = pro
  gpt = gpt
  Tabs = {"stream", "storage", "aliases"}
  MaxBreaks = 1
  Providers = {gemini, openai}
  Models = {flash, pro, gpt}
  Typed = {gpt}
  Rests = {"default", "edited"}
  Offered <- MCOffered
  FirstForm <- MCFirstForm
  DefaultForm <- MCDefaultForm
  MaxEdits = 0
  Analyses = {"a1"}
  Days = {3}
  FirstDays = 7
  DefaultDays = 14
  DefaultMax = 30
  MaxRetention = 7
  Overridden = TRUE
  Ips = {"ip1"}
  Names = {"router"}
  MaxCalls = 2
INVARIANTS  AliasesCurrent
CHECK_DEADLOCK FALSE
