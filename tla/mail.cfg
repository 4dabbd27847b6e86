\* Three threads and two mailboxes, one of them that of a server.
SPECIFICATION FairSpec
CONSTANTS
    Threads = {1, 2, 3}
    Servers = {1}
    None = None
    MAX_MAILBOX_SLOTS = 2
    static_id <- OwnNumber
CHECK_DEADLOCK FALSE
INVARIANTS
    MailboxesAreSound
PROPERTIES
    KeepsPromise
    MailIsDelivered
