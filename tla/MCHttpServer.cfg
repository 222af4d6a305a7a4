\* Two requests and one thread, on either service.  No symmetry: HttpAnswered is
\* a liveness property.
CONSTANTS
    Callers = {r1, r2}
    None = None
    Threads = 1
    MaxBody = 1
SPECIFICATION HttpFairSpec
INVARIANTS
    HttpTypeOK
    GatesHold
    AnswerTells
    ConnectionsEnd
PROPERTIES
    IsAtomic
    HttpAnswered
