SPECIFICATION Spec
CONSTANTS
    NUsers = 3
    PageSize = 2
    Self = 1
    MaxOrphans = 0
PROPERTIES CompletionReported
