CONSTANTS
  Names <- MCNames
  Capitals <- MCCapitals
  Ints <- MCInts
  Durations <- MCDurations
  Floats <- MCFloats
  Texts <- MCTexts
  EnvVars <- MCEnvVars
  Denotes <- MCDenotes
  Digits <- MCDigits
  Debugged <- MCDebugged
  Sources <- MCSources
SPECIFICATION ReadingSpec
INVARIANTS
  ReadsAsWritten
  FormatKeepsMeaning
  
  RecoveryIsLocal
CHECK_DEADLOCK FALSE
