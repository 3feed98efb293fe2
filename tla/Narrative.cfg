SPECIFICATION NFairSpec
CONSTANTS
    calm = calm
    storm = storm
    stormLater = stormLater
    Down = Down
    None = None
    Verdict = {calm, storm, stormLater}
    SigOf <- TwoOfOneStorm
    Request = {r1, r2, r3}
INVARIANT NTypeOK
INVARIANT AnswerMatchesVerdict
INVARIANT CacheBounded
PROPERTY StableVerdictCached
