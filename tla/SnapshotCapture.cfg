SPECIFICATION Spec
CONSTANTS
    Commit <- MCCommit
    TreeOf <- MCTreeOf
    PolicyOf <- MCPolicyOf
    Start = "c1"
    Asked <- MCAsked
    DocumentOf <- MCDocumentOf
    SizeOf <- MCSizeOf
    ActiveRule = 1
    ActiveConfig = 1
    Jobs = 2
    MaxFile = 2
    MaxBytes = 5
    MaxEdits = 2
INVARIANT CapturedUnderItsPolicy
INVARIANT FilesWereThere
PROPERTY AcquisitionEnds
CHECK_DEADLOCK FALSE
