SPECIFICATION Spec
CONSTANTS
    Host <- MCHost
    Input <- Inputs
    Checkout <- CleanWorktree
    TargetRewrites <- Rewrites
    Transformed <- FileRewritten
    Overlay <- Additions
    PhaseOverlay <- PhaseAdditions
    MaxFailures = 1
    None = None
INVARIANTS
    Reproducible
    Builds
    SimulationStaysOnTheClock
    ProductionKept
    EventsReported
PROPERTIES
    OverlayOnlyAdds
    LeftoversHarmless
