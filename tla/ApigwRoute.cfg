\* One request at a time, store writes and reloads that may fail.
CONSTANTS
    Clients = {c1}
    RouteIds = {1, 2}
    Endpoints = {e1, e2}
    Nobody = Nobody
    NoRoute = NoRoute
    Off = Off
    MaxOps = 5
    StoreFaults = TRUE
    ReloadFaults = TRUE
SPECIFICATION Spec
INVARIANTS TypeOK GatewayInSync
