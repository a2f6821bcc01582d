SPECIFICATION Spec
CONSTANTS
    Tokens <- MCTokens
    Names <- MCNames
    Digits <- MCDigits
    Declared <- MCDeclared
    Payloads <- MCPayloads
    Policies <- MCPolicies
    Registered = {"note", "order"}
    AutoAllowed = {"note"}
    MaxTokens = 6
INVARIANTS AgreesWithGrammar MissingFieldNeverFires BootCatchesTypos
CHECK_DEADLOCK FALSE
