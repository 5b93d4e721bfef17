SPECIFICATION GateSpec
CONSTANTS
  h1 = h1
  h2 = h2
  h3 = h3
  h4 = h4
  None = None
  CitedAs <- Plain
  Halves = {"citations"}
  Hash <- Hashes
  Generated <- Replayed
  AsPublished <- Publish
  MaxEdits = 3
  MaxGateEdits = 4
  Person = {"amy", "qa", "al"}
  Generic = {"qa"}
  Alt = {"al"}
  MinHandles = 1
  HandleTier = "warn"
  MaxCommits = 3
CHECK_DEADLOCK FALSE
INVARIANT CitationBacked HonestLineageAccepted
PROPERTY LineageIsPermanent
