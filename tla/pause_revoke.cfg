CONSTANTS
    Devices = {d1}
    Tablets = {t1}
    Edits = {e1}
    None = None
SPECIFICATION DevicesSpec
PROPERTY RevokedStaysRevoked
CHECK_DEADLOCK FALSE
