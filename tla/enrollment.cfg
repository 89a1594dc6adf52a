SPECIFICATION Spec
CONSTANTS
    Login = {l1, l2, l3}
    Install = {i1, i2}
    Username = {u1}
    Password = {w1, w2}
    MaxFaults = 2
    None = None
SYMMETRY EnrollmentSymmetry
CHECK_DEADLOCK FALSE
INVARIANTS LoginsAgree LoginIsComplete PasswordsHold TokensRotateOnce
