SPECIFICATION DSpec
CONSTANTS
    calm = calm
    storm = storm
    Down = Down
    None = None
    Verdict = {calm, storm}
    SigOf <- Distinct
    Request = {r1, r2}
INVARIANT DTypeOK
PROPERTY NeverBlankAgain
PROPERTY ShownConverges
