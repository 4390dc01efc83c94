CONSTANTS
  Bodies <- BodiesOfRun
  Inputs <- InputsOfRun
  Functions <- FunctionsOfRun
  Allocatable <- AllocatableOfRun
  Placements <- PlacementsOfRun
  Previous = {0, 15}
  MaxConstants = 1
  Cases <- CasesOfRun
SPECIFICATION SideExitSpec
PROPERTY ResumptionMatchesInterpretation
INVARIANT NodeIsFound
INVARIANT SymbolsRebuilt
INVARIANT RecompilesItself
 
PROPERTY ResumesAndReturns
CHECK_DEADLOCK FALSE
