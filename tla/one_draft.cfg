CONSTANTS
    t1 = t1
    s1 = s1
    d1 = d1
    e1 = e1
    x1 = x1
    Requests = {t1, s1, d1, e1, x1}
    KindOf <- KindsHere
    Texts = {"u", "v"}
    None = None
    Disturbances = {"refuse", "lost", "storage", "crash", "suspend"}
SPECIFICATION Spec
INVARIANTS TypeOK SentOnce DeliveredStaysSent MailedAsShown DiscardedUnsent
CHECK_DEADLOCK FALSE
