\* Two executions of the query, a mutation, one session.
SPECIFICATION Spec
CONSTANTS
    Kinds = {"cache-first", "network-first", "first"}
    Tokens = {t1}
    Calls = {c1, c2}
    Mutations = {m1}
    Logouts = {l1}
    MaxRare = 1
    None = None
    Unauthorized = Unauthorized
    Offline = Offline
SYMMETRY Symmetry
INVARIANTS
    ApiTypeOK
    ReadsSeeOwnWrites
    SessionsMakeTheirOwnRequests
    CallsAwaitAnswers
CHECK_DEADLOCK FALSE
