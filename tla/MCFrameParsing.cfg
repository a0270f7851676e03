SPECIFICATION StampedSpec
CONSTANTS
  Words = {"VER", "CHK", "AGT", "UID", "TIM", "REQID", "FALLBACK", "HR", "EXEC", "tgt", "act", "run", "READ", "cap", "a", "b", "n", "1", "sha256", "digest"}
  Numbers = {"1"}
  MaxSize = 67
  MaxBody = 4
  MaxOddBody = 2
  MaxAltered = 2
  Frames <- MCFrames
  Deliveries <- MCDeliveries
INVARIANTS TypeOK LinesAreAttributed ModesAgree LineEndingsDoNotMatter ValidFramesKeepToSchema StampedFramesVerify AlterationsAreNoticed
