\* Three libraries with three methods; one method of one library may throw,
\* and one of another answers NaN.
CONSTANTS
  Libs <- MCLibs
  Order <- MCOrder
  Methods <- MCMethods
  Sizes = 2
  MayThrow <- MCThrows
  Unscored <- MCUnscored
  MaxSamples = 2
  MaxAhead = 2
SPECIFICATION FairSpec
INVARIANTS NoTornResults PromptExit ReportsComplete PlotlyFair
PROPERTIES ShownOnlyGrows KeyEndsProgram
