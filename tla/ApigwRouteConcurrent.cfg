\* Two concurrent requests; store and reload never fail.
CONSTANTS
    Clients = {c1, c2}
    RouteIds = {1, 2}
    Endpoints = {e1, e2}
    Nobody = Nobody
    NoRoute = NoRoute
    Off = Off
    MaxOps = 4
    StoreFaults = FALSE
    ReloadFaults = FALSE
SPECIFICATION Spec
INVARIANTS GatewayInSync
