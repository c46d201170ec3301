CONSTANT N = 4
SPECIFICATION FairSpec
INVARIANTS CycleIsReal SortNeverRaises OrderIsTopological LevelsAreLongest ReductionIsMinimal
PROPERTY Returns
