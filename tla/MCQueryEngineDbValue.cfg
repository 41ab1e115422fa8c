SPECIFICATION ScriptSpec
CONSTANTS
    Type <- MCType
    Many <- MCMany
    Seeds <- MCSeeds
    Changes <- MCChanges
    Numerals <- MCNumerals
    Queries <- MCPastQueries
    ScriptQueries <- MCScriptQueries
    ScriptAttrs = {81, 83}
    ScriptEids = {1, 2}
    Instants = {100, 101}
    MaxTx = 2
    MaxRows = 3
    MaxColumns = 3
    RuleDepth = 4
INVARIANT
    DbValueImmutable
