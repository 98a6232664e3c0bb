SPECIFICATION Spec
CONSTANTS
    MaxCredentials = 3
    Session = {s1, s2}
    Nobody = Nobody
INVARIANTS WorkIsAuthorised KillIsComplete OneLastingCredential
PROPERTY EventuallyDark
