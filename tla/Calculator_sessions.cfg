\* The server returns and the clients leave.
CHECK_DEADLOCK FALSE
SPECIFICATION Spec
CONSTANTS
    Clients <- MCClients
    MAXCLIENT = 2
    Queries <- MCQueries
    MaxQueries = 2
    Literals <- MCLiterals
    MaxDepth = 2
INVARIANTS
    RecordsInTurn
    AnswersCorrect
    RecordFollowsAnswer
    EvaluatedOnce
PROPERTY EveryoneServed
