SPECIFICATION Spec
CONSTANTS
    Phones = {p1, p2}
    Requests = 2
    Forms = {"good", "badauth"}
    Binding = 5
    LongBinding = 12
    Linger = 2
    MaxDelay = 1
    Slack = 1
    None = None
INVARIANTS
    OnlineWhileTimed
    PhoneIsReachable
    NoGhostBinding
PROPERTIES
    SilentPhonesGoOffline
