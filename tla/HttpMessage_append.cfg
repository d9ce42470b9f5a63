\* Up to 8 add_content calls with non-zero sizes, and up to 3 header and
\* cookie mutations, on a request or a response.
CONSTANTS
    Sizes <- MCPositiveSizes
    MaxCalls = 8
    Keys <- MCKeys
    Values <- MCValues
    Lines <- MCLines
    CookieArgs <- MCCookieArgs
    Methods <- MCMethods
    MaxHeaderOps = 3
SPECIFICATION Spec
CHECK_DEADLOCK FALSE
INVARIANT TypeOK
INVARIANT ContentLengthConsistent
INVARIANT MessageRoundTrip
