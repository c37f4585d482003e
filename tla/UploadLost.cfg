\* A document is uploaded for a requirement.
CONSTANTS
  tss = tss
  sncc = sncc
  econ = econ
  d1 = d1
  d2 = d2
  NoDoc = NoDoc
  s1 = s1
  s2 = s2
  Reqs = {tss}
  Mandatory = {tss}
  Kind <- MCKind
  DocIds = {d1}
  Sessions = {s1}
  Ops = {"status", "analyze", "upload"}
  Extractions <- MCAll
  Targets = {"interested"}
  Outcomes = {"encontrado_vigente"}
SPECIFICATION Spec
INVARIANTS
  UploadsAreLinked
