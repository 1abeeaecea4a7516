SPECIFICATION Spec
CONSTANTS
    c1 = c1
    c2 = c2
    Callers = {c1, c2}
    MaxTokens = 3
    MaxLive = 2
    MaxAttempts = 2
    FaceLinks = {1}
    MaxMishaps = 1
SYMMETRY Either
INVARIANTS OneHolder SuccessIsFinal ExhaustedStaysShut OneOpenChallenge LinkSurvives
CHECK_DEADLOCK FALSE
