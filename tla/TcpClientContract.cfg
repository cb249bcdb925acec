SPECIFICATION Spec
CONSTANTS
    Client = Client
    Other = Other
    Fds <- MCFds
    OtherFd = 4
    Retries = TRUE
INVARIANT ContractKept
