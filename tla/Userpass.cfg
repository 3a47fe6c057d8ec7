SPECIFICATION UserpassSpec
CONSTANTS
    None = None
    Request = {r1, r2}
    Mount = {m1, m2}
    User = {u1, u2}
    Password = {p1, p2}
    Entity = {e1, e2}
SYMMETRY MCSymmetry
INVARIANT LoginsAreJustified
PROPERTY PasswordsAreJustified
