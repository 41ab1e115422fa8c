SPECIFICATION ScriptSpec
CONSTANTS
    Type <- MCType
    Many <- MCMany
    Seeds <- MCSeeds
    Changes <- MCChanges
    Numerals <- MCNumerals
    Queries <- MCQueries
    ScriptQueries <- MCScriptQueries
    ScriptAttrs = {81, 83}
    ScriptEids = {1, 2}
    Instants = {101}
    MaxTx = 2
    MaxRows = 4
    MaxColumns = 3
    RuleDepth = 4
INVARIANTS
    AnswersAreDatalog
    FirstInOrder
    PastKeepsLive
    ReadsAgree
    AsOfIsStable
