\* The clients leave and their threads end.
CHECK_DEADLOCK FALSE
SPECIFICATION Spec
CONSTANTS
    Clients = {c1, c2}
    Users = {u1}
    Passwords = {p1}
    RoomNames = {r1}
    NamesAt <- AnyName
    Registered <- NobodyKnown
    Opened <- NoRooms
    MaxChoices = 6
    MaxRestarts = 1
    MaxDisplays = 1
INVARIANTS
    SessionsActive
    NoSurplusAnswer
 
