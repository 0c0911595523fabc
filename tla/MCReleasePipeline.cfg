SPECIFICATION Spec
CONSTANTS
  c1 = c1
  c2 = c2
  c3 = c3
  t1 = t1
  t2 = t2
  r1 = r1
  r2 = r2
  Commits = {c1, c2, c3}
  Tags = {t1, t2}
  Runs = {r1, r2}
  None = None
  VersionTag <- MCVersionTag
  WithNotes <- MCWithNotes
  MaxMoves = 2
  MaxReruns = 2
SYMMETRY Symmetry
INVARIANTS
  PublishedIsVerified
  EvidenceOfTag
  GreenMeansPublished
PROPERTIES
  ReleasesAsPromised
CHECK_DEADLOCK FALSE
