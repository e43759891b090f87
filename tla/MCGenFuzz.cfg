SPECIFICATION Spec
CONSTANTS
    Letters = {"", "_", "x", "s", "p"}
    Functions <- MCFunctions
    Packages <- MCPackages
    PkgNames <- MCPkgNames
INVARIANTS
    TypeOK
    DeclaredOnce
    ArgumentsBound
    ReceiverIsNew
    PackageVisible
    SimplestConstructor
\* The wrapper has been written, skipped, or avoidCollision has panicked.
CHECK_DEADLOCK FALSE
