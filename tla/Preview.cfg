SPECIFICATION PreviewSpec
CONSTANTS
    Callers = {a, b, c}
    MaxFfmpeg = 3
    a = a
    b = b
    c = c
INVARIANTS
    ShownFrameIsCurrent
    NoPreviewLeftBehind
