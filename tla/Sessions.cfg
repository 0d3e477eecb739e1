\* One account, three requests at a time, three token pairs, two failing calls.
SPECIFICATION Spec
CONSTANTS
    e1 = e1
    c1 = c1
    c2 = c2
    c3 = c3
    NoEmail = NoEmail
    Emails <- MCEmails
    Requests <- MCRequests
    MaxTokens = 3
    MaxFaults = 2
SYMMETRY MCSymmetry
INVARIANTS
    OneTokenPerLogin
    LogoutEndsLogin
    LoginIsKept
CHECK_DEADLOCK FALSE
