SPECIFICATION Spec
CONSTANTS
    Host <- MCHost
    Input <- Inputs
    Checkout <- CleanWorktree
    TargetRewrites <- Rewrites
    Transformed <- FileRewritten
    Overlay <- Additions
    PhaseOverlay <- PhaseAdditions
    MaxFailures = 0
    None = None
INVARIANTS
    RouterNameFallsBack
