SPECIFICATION Spec
CONSTANTS
    Width = 25
    Height = 50
    Outlines <- MCOutlines
INVARIANTS
    DrawnAsClassified
