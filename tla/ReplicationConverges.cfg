SPECIFICATION Spec
CONSTANTS
    c1 = c1
    c2 = c2
    u1 = u1
    u2 = u2
    None = None
    Clients = {c1, c2}
    Pushes <- TwoDraws
    Adopts <- NoPayloads
INVARIANT Converged
