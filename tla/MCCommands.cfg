SPECIFICATION Spec
CONSTANTS
    user = user
    session = session
    rename = rename
    signUp = signUp
    purge = purge
    unknown = unknown
    s1 = s1
    s2 = s2
    Task = {t1, t2}
    Cell <- MCCell
    Account <- MCCell
    Command <- MCCommand
    Handler <- MCHandler
    SessionOf <- MCSessionOf
    Pipelines <- MCPipelines
    NoSession = NoSession
    MaxFailure = 1
INVARIANTS
    TypeOK
    StaleOnlyUntilDeclared
    SessionsStayInTheirCall
