SPECIFICATION Spec
CONSTANTS
    c1 = c1
    c2 = c2
    c3 = c3
    alice = alice
    bob = bob
    mail = mail
    NoEmail = NoEmail
    NoUser = NoUser
    Clients = {c1, c2, c3}
    NameOf <- MCNames
    EmailOf <- MCEmails
    Replicas = {}
    MaxFaults = 0
INVARIANT RefusedOnlyDuplicates
