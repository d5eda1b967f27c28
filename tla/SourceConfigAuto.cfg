SPECIFICATION Spec
CONSTANTS
  Second = 1
  HalfRange = 32
  DefaultRefreshAfter = 10
  Specs <- MCAutoSpecs
  Texts <- MCTexts
  Globs <- MCGlobs
  MalformedGlobs <- MCMalformed
  Names <- MCNames
  Matches <- MCMatches
INVARIANTS AdmittedRuns
