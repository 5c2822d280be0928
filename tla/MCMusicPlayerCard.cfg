CONSTANTS
    Songs = 2
    Changes = TRUE
SPECIFICATION Spec
INVARIANTS
    DecoderIsFound
