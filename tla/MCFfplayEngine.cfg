CONSTANTS
    Songs <- MCSongs
    Volumes <- MCVolumes
    MaxRetries = 2
    Pids <- MCPids
SPECIFICATION Spec
INVARIANT
    MutedIsSilent
PROPERTY
    ImplementsPlayer
