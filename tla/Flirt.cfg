SPECIFICATION Spec
CONSTANTS
    Scenes <- MCScenes
    MatchWindow = 4
    PatternLength = 1
    MaxDepth = 2
INVARIANTS
    NamesEarned
    UnnamedForAReason
