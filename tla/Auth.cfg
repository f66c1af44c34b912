SPECIFICATION Spec
CONSTANTS
    Grant = {g1}
    Request = {r1, r2}
    NoGrant = NoGrant
    MaxTokens = 3
SYMMETRY Interchangeable
INVARIANTS
    ConsentBeforeToken
    RevokedForGood
    OneLiveToken
PROPERTIES
    FinalUnlessRefinished
