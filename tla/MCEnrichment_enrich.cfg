\* Two calls and a tweet scheduled elsewhere, with two texts, on one account, at
\* times within and just beyond the tolerance of each other, and results of up
\* to two representations.
SPECIFICATION EnrichSpec
CONSTANTS
    c1 = c1
    c2 = c2
    o1 = o1
    acct1 = acct1
    hello = hello
    bye = bye
    None = None
    Views <- EnvelopeAndBlock
    Posts <- TwoPosts
    Others <- OneOther
    Accounts <- OneAccount
    Texts <- TwoTexts
    Times <- NearTimes
    Tolerance = 2
    Rotates = FALSE
SYMMETRY Alike
INVARIANTS
    ViewsAgree
    LoneTweetIsFound
PROPERTIES
    RecoveredIsOwn
CHECK_DEADLOCK FALSE
