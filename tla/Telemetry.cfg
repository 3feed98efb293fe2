SPECIFICATION TFairSpec
CONSTANTS
    Pod = {1, 2}
    Cap = 2
    Enough = 1
    Recent = 1
    Engine = engine
    Other = {api}
INVARIANT TTypeOK
PROPERTY PollsGoOn
PROPERTY StormForgotten
