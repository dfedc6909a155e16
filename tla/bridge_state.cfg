SPECIFICATION StateSpec
CONSTANTS
  d1 = d1
  d2 = d2
  c1 = c1
  c2 = c2
  s1 = s1
  s2 = s2
  s3 = s3
  None = None
  Devices = {d1, d2}
  Cases = {c1, c2}
  Segments = {s1, s2, s3}
  Payloads = {1}
  Transcripts <- MCTranscripts
  BlankTranscripts <- MCBlank
  Failures <- MCFailures
  MaxPcm = 1
  MaxSegments = 2
  MaxTombstones = 2
  MaxCases = 2
  MaxCommits = 3
  MaxParts = 2
SYMMETRY Symmetry
INVARIANTS
  TypeOK
  ExportIsRestorable
  HeldCasesAreCurrent
  ReadyCaseHoldsNoAudio
  ByteCountIsExact
  ConfirmedSurvives
  PreRenameFailureIsInvisible
  NoCommitIsStranded
PROPERTIES
  SavedTranscriptStays
  ImplementsRegister
