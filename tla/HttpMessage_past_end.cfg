\* One content mutation of any size; no header mutations.
CONSTANTS
    Sizes <- MCSizes
    MaxCalls = 1
    Keys <- MCKeys
    Values <- MCValues
    Lines <- MCLines
    CookieArgs <- MCCookieArgs
    Methods <- MCMethods
    MaxHeaderOps = 0
SPECIFICATION Spec
CHECK_DEADLOCK FALSE
INVARIANT WritesInBounds
