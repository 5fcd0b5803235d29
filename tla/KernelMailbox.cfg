\* Three threads and an interrupt on a box of two mails.
CONSTANTS
    t1 = t1
    t2 = t2
    t3 = t3
    v1 = v1
    v2 = v2
    Threads = {t1, t2, t3}
    Values = {v1, v2}
    NoMail = NoMail
    Size = 2
    MaxWait = 2
SPECIFICATION Spec
SYMMETRY Symmetry
INVARIANTS TypeOK NobodyForgotten InTime
PROPERTIES IsBoundedQueue
