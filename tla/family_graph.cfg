\* Three projects and three edits at any time.
SPECIFICATION Spec
CONSTANTS
    Projects = {"mncs", "ravel", "docs"}
    Order <- MCOrder
    Declarations <- MCDeclarations
    Manifests <- MCManifests
    Classes <- MCClasses
    None = None
    MaxEdits = 3
INVARIANTS
    CheckedIsCurrent
    GraphJoins
