SPECIFICATION FairSpec
CONSTANTS
    Retry <- MCRetry
    NoResponse <- MCNoResponse
    Life <- MCLife
    Slack <- MCSlack
    Grants <- MCGrants
INVARIANTS
    OneTimerRuns
    BindingRefreshed
PROPERTIES
    CredentialsPaced
    KeepsRegistering
