\* Mail stops when the oldest batch is addressed to members who are not active.
SPECIFICATION MailSpec
CONSTANTS
    Audiences = {"admins", "member"}
    Standing = {"admins"}
    Batch = 2
    MaxEvents = 3
    MaxLost = 1
PROPERTIES
    AtLeastOnce
CHECK_DEADLOCK FALSE
