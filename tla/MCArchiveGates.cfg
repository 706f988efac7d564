SPECIFICATION Spec
CONSTANTS
    Knobs <- MCKnobs
    Plain = ""
    Members <- MCMembers
    Sources <- MCSources
    Manifest = "manifest"
    ZpConfig = "version"
    Expect <- MCExpect
    NoExports <- MCNoExports
    Passed <- MCPassed
    Exempt <- MCExempt
    MinMembers = 3
INVARIANTS
    ArtifactOfTheKnobs
    IsolationSound
    FootprintSound
    RosterSound
    EnumerationSound
