SPECIFICATION Spec
CONSTANTS
    Account = {a1}
    Login = {l1}
    Request = {r1, r2}
    None = None
PROPERTIES
    LogoutInvalidates
