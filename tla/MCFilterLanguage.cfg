SPECIFICATION Spec
CONSTANTS
    Families <- MCFamilies
    maxParenDepth = 1
    FilterFamilies <- FilterMCFamilies
    maxAltDepth = 1
    Vocab <- MCVocab
    Chains <- MCChains
    MaxLen = 6
    StaticChainCap = 2
    MachineChainCap = 3
    LoopChainCap = 3
    AltCountCap = 4
    KeySchemas <- KeysOfThree
    ValueSchemas <- ValuesOfThree
    Schemas <- OneOrTwo
    PktFields <- Fields
    MaxPreds = 3
    MaxKeySize = 32
INVARIANTS ParsesTheGrammar ChainSound SchemaSound KeysSound
CHECK_DEADLOCK FALSE
