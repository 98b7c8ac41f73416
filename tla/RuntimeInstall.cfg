\* Two processes of the application, which overlap, fail and die at every step, two builds
\* between which the application is updated back and forth, a file of somebody else.
SPECIFICATION InstallSpec
CONSTANTS
    Apps = {p1, p2}
    MaxBuild = 2
    Foreign = Foreign
    NoLife = NoLife
    MaxCommands = 3
    MaxTouches = 1
SYMMETRY MCSymmetry
INVARIANTS
    BuildIsKept
    InterruptedIsPending
