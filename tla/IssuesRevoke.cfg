SPECIFICATION Spec
CONSTANTS
    i1 = i1
    e1 = e1
    e2 = e2
    Issues = {i1}
    Exceptions = {e1, e2}
    Users = {u1, u2}
    Requests = {q1}
    Pollers = {w1}
    IssueOf <- MCOneIssue
    NoIssue = NoIssue
    NoException = NoException
    NoUser = NoUser
PROPERTY
    RevokingReopens
CHECK_DEADLOCK FALSE
