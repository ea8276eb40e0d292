SPECIFICATION MailSpec
CONSTANTS
    mine = mine
    yours = yours
    both = both
    Boxes = {mine, yours}
    Mails = {both}
    Sent <- Copies
    NoBox = NoBox
    NoMail = NoMail
    Readers = {f1}
    Triagers = {t1}
    MaxAttempts = 2
    MaxMishaps = 0
INVARIANT EachMailSaved
CHECK_DEADLOCK FALSE
