CONSTANTS
    j1 = j1
    j2 = j2
    Jobs = {j1, j2}
    Types <- MCTypes
    None = None
    Foreign = Foreign
    MaxRetries <- MCMaxRetries
    MaxPolls = 1
SPECIFICATION Spec
INVARIANTS TypeOK  CompletedIsGenerated   NoPromptOnSignIn
