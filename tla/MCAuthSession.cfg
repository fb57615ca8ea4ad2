\* A user of the page and one of the client portal.
SPECIFICATION Spec
CONSTANTS
    None = None
    Users = {u, p}
    PortalOnly = {p}
    MaxSessions = 2
    MaxCalls = 2
INVARIANTS
    CallbackUndisturbed
    OverlayMeansLost
    PageShowsOwner
PROPERTY LostSessionSurfaces
CHECK_DEADLOCK FALSE
