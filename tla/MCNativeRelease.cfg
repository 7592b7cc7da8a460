SPECIFICATION Spec
CONSTANTS
  Commit = {c1, c2}
  Packaging = {1, 2}
  Assets = 2
  MaxFaults = 2
INVARIANTS PublishedIsComplete PublishedIsBound ReportedIsPublic
PROPERTIES PublishedIsKept JobResumes
