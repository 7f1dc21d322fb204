\* Three calls of any kind, with any caller and price, on one request.
SPECIFICATION Spec
CONSTANTS
    r1 = r1
    p1 = p1
    p2 = p2
    q1 = q1
    q2 = q2
    q3 = q3
    Calls = {q1, q2, q3}
    Requests = {r1}
    Parties = {p1, p2}
    Prices = {1, 2}
    MaxEdits = 1
SYMMETRY Symmetry
INVARIANTS
    TypeOK
    TrueMeansItHappened
    ReviewsEarned
PROPERTIES
    AgreementStands
