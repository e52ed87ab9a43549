CONSTANTS
    Labels <- MCLabels
    Contexts <- MCContexts
    Pairs = {claim, p1, p2}
    Claim = claim
    Missing = Missing
    CONNECTION_RETRY_MAX_ATTEMPTS = 2
    FLEET_PROV_MAX_DEMO_LOOP_COUNT = 3
SPECIFICATION FairSpec
INVARIANTS TypeOK NothingLeaks AllOrNothing SessionIsSecured
PROPERTIES ComesOnline
