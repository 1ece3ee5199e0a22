SPECIFICATION Spec
CONSTANTS
    Users = {u1, u2}
    Tokens = {t1}
    Bearer = u2
    Granted = {"reader", "admin"}
    Rules = {"rule"}
    MaxRevision = 1
    Revising = {"rule", "direct"}
    Plain = {"direct"}
    MaxEvents = 3
    Creator = u1
INVARIANTS TokenWithinUser
PROPERTIES ProjectedTogether NeverOverwrittenByOlder RightAtCommit Heals
CHECK_DEADLOCK FALSE
