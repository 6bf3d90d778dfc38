SPECIFICATION Spec
CONSTANTS
    Fds <- TwoFds
    MaxServers = 2
INVARIANT
    LoginAnswered
