\* One request at a time: every operation, one requirement.
CONSTANTS
  tss = tss
  sncc = sncc
  econ = econ
  d1 = d1
  d2 = d2
  NoDoc = NoDoc
  s1 = s1
  s2 = s2
  Reqs = {sncc}
  Mandatory = {sncc}
  Kind <- MCKind
  DocIds = {d1}
  Sessions = {s1}
  Ops = {"status", "analyze", "validate", "note", "associate", "attach", "draft", "finalize", "input", "upload", "prepare", "ready",
         "generate", "submission", "real_review", "real_upload", "download"}
  Extractions <- MCAll
  Targets = {"interested"}
  Outcomes = {"requiere_completado"}
SPECIFICATION Spec
INVARIANTS
  TypeOK
  SummaryIsTrue
  RealStatusIsTrue
PROPERTIES
  ManualSurvivesAnalysis
  HandlersAreAtomic
