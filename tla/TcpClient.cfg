SPECIFICATION Spec
CONSTANTS
    Client = Client
    Other = Other
    Fds <- MCFds
    OtherFd = 4
    Retries = TRUE
INVARIANTS
    ContractKeptUntilMishap
PROPERTIES
    NoSilentClose
    EndedStaysEnded
    AcceptedIsNoticed
    RetriesGoOn
