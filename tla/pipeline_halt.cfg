SPECIFICATION Safety
CONSTANTS
  d1 = d1
  k1 = k1
  k2 = k2
  s1 = s1
  s2 = s2
  None = None
  Devices = {d1}
  Device = d1
  Conns = {k1, k2}
  Cases = {1, 2}
  Segments = {s1}
  Payloads = {1}
  Transcripts <- MCTranscripts
  BlankTranscripts = {}
  Failures <- MCFailures
  SpeakerOf <- MCSpeakerOf
  CaseOf <- MCCaseOf
  Disciplined = TRUE
  MaxPcm = 1
  MaxSegments = 2
  MaxTombstones = 2
  MaxCases = 1
  MaxTries = 2
  MaxFaults = 0
  MaxStops = 0
  MaxForeign = 0
SYMMETRY Symmetry
INVARIANT
  HaltMeansCommitFailed
