SPECIFICATION FairSpec
CONSTANTS
    Mail = {m1, m2, m3, m4}
    Faulty = {m3, m4}
    Limit = 3
    NoMail = NoMail
    MaxFaults = 2
CHECK_DEADLOCK FALSE
INVARIANTS
    OutboxInv
    DuplicatesExplained
PROPERTIES
    NotResent
    MailSentOrStopped
