SPECIFICATION Spec
CONSTANTS
    MaxNodes = 4
    MaxCaches = 1
    IdRange = 2
    Origins <- MCOrigins
    Types <- MCTypes
    Costs <- MCCosts
    Files <- MCFiles
    Queries <- MCQueries
    MaxEdits = 1
    MaxTrees = 1
    MaxSearches = 2
INVARIANT OptimalAtWeightOne
