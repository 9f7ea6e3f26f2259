CONSTANTS
    DiagnosticCodes = {"open", "low"}
    Diagnostics <- MCDiagnostics
    Evidence <- MCEvidence
    Capacity = 2
    SizeMax = 7
SPECIFICATION ContractSpec
INVARIANTS
    LanguagesAcceptAlike
