CONSTANTS
    Conns = {c1, c2}
    MaxClients = 2
    MaxGeneration = 2
SPECIFICATION Spec
INVARIANT OpenSubscriberIsKept
