CONSTANTS
    Scripts <- MCScripts
    MaxReads = 5
    MaxCount = 5
    DiagnosticCodes = {"open", "low"}
    Diagnostics <- MCDiagnostics
    Evidence <- MCEvidence
    Capacity = 2
    SizeMax = 7
SPECIFICATION MeasurementsSpec
INVARIANTS
    RowsAreTheScript
    SummaryIsOfTheScript
    LanguagesJudgeAlike
