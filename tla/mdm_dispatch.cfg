\* One device, two artifacts, two versions each, three administrator
\* changes and one dropped command.
CONSTANTS
    a1 = a1
    a2 = a2
    NoArtifact = NoArtifact
    Artifacts <- MCArtifacts
    Priority <- MCPriority
    MaxVersion = 2
    MaxEdits = 3
    MaxLosses = 1
SPECIFICATION Spec
PROPERTY ConvergesToBlueprint
