\* Two workers and a few edits.
CONSTANTS
    org1 = org1
    org2 = org2
    event1 = event1
    mine = mine
    theirs = theirs
    added = added
    formerKey = formerKey
    enteredKey = enteredKey
    foreignKey = foreignKey
    Organizations = {org1, org2}
    Events = {event1}
    HomeOf <- MCHomeOf
    Connections = {mine, theirs, added}
    FirstRow <- MCFirstRow
    Secrets = {formerKey, enteredKey, foreignKey}
    Owner <- MCOwner
    Kinds <- MCKinds
    Registered <- MCRegistered
    Postable = {mine}
    Bindable <- MCBindable
    Workers = {w1, w2}
    MaxEdits = 3
SPECIFICATION Spec
SYMMETRY Symmetry
\* When the edits are spent and nothing is bound or stored, nothing is left to do.
CHECK_DEADLOCK FALSE
INVARIANTS
    CredentialsStayHome
    AdapterHasTheCapability
    SecretIsTheLastEntered
    VerifiedWasChecked
