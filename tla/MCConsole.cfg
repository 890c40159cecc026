SPECIFICATION Spec
CONSTANTS
  gemini = gemini
  openai = openai
  flash = flash
  pro = pro
  gpt = gpt
  Tabs = {"stream", "settings"}
  MaxBreaks = 1
  Providers = {gemini, openai}
  Models = {flash, pro, gpt}
  Typed = {gpt}
  Rests = {"default", "edited"}
  Offered <- MCOffered
  FirstForm <- MCFirstForm
  DefaultForm <- MCDefaultForm
  MaxEdits = 2
  Analyses = {}
  Days = {3, 20}
  FirstDays = 7
  DefaultDays = 14
  DefaultMax = 30
  MaxRetention = 14
  Overridden = FALSE
  Ips = {}
  Names = {"router"}
  MaxCalls = 0
INVARIANTS TypeOK PathFollowsTab EditsSurvive
CHECK_DEADLOCK FALSE
