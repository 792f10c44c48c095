CONSTANTS
    r1 = r1
    r2 = r2
    w1 = w1
    w2 = w2
    w3 = w3
    NoQuery = NoQuery
    NoWhitelist = NoWhitelist
    Statements <- MCStatements
    Modifies <- MCModifies
    Calls <- MCCalls
    RewriteOf <- MCRewriteOf
    Whitelists <- MCWhitelists
    MaxCommits = 2
    MaxStatements = 3
SPECIFICATION Spec
INVARIANT ReplayMatches
