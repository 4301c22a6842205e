--------------------------------- MODULE Chat ---------------------------------
(***************************************************************************)
(* The chat application: server.py, with a thread per connection on shared *)
(* dictionaries, and client.py, whose menu thread and display threads      *)
(* share one socket.  Neither side frames its messages: a recv takes all   *)
(* that has come, so that requests or answers may be read as one.  A       *)
(* thread of the server can lose the processor between any two accesses to *)
(* the dictionaries.  Operators named Mut... are seeded bugs for testing   *)
(* the properties.                                                         *)
(***************************************************************************)
EXTENDS Integers, Sequences, FiniteSets, SequencesExt

CONSTANTS
    Clients, Users, Passwords, RoomNames,
    NamesAt,           \* the names that whoever is at a client goes by
    Registered,        \* the users the server knows already, with password
    Opened,            \* the rooms earlier clients created, oldest first
    MaxChoices,        \* bound on what the users choose or write, all together
    MaxRestarts,       \* bound on the times that a client is started again
    MaxDisplays        \* bound on the display threads of a client

Nobody == "nobody"
NoRoom == "no room"
Mangled == "a text with a request in it"

ASSUME ChatAssumption ==
    /\ NamesAt \in [Clients -> SUBSET Users] /\ {Nobody, Mangled} \cap Users = {}
    /\ Mangled \notin Passwords
    /\ NoRoom \notin RoomNames
    /\ DOMAIN Registered \subseteq Users
    /\ Opened \in Seq(RoomNames)
    /\ {MaxChoices, MaxRestarts, MaxDisplays} \subseteq Nat

VARIABLES
    users,             \* the passwords
    user_active,       \* the users logged in, once per login
    chat_rooms,        \* the rooms' names with their objects, oldest first
    rooms,             \* the room objects
    thread, req, ref,  \* handle_client: where it is, the request, what it holds
    main,              \* client.py: where its menu thread is
    username, chatroom, keep_running,
    display,           \* its display threads
    choices, restarts, \* how many choices and restarts are left
    toServer, toClient \* the requests and the answers on their way
vars == <<users, user_active, chat_rooms, rooms, thread, req, ref, main, username,
          chatroom, keep_running, display, choices, restarts, toServer, toClient>>
shared == <<users, user_active, chat_rooms, rooms>>
session == <<main, username, chatroom, keep_running, display, choices, restarts>>

NewRoom == [users |-> << >>, messages |-> << >>]

\* Where the menu thread waits for an answer, and what it has asked for there.
Asking == {"login", "register", "getActiveUsers", "getAllChatrooms", "choose",
           "joinChatroom", "getChatroomMembers", "sendMessage", "farewell",
           "exitChatroom", "createChatroom", "logout"}
Op(place) == CASE place = "choose" -> "getAllChatrooms"
               [] place = "farewell" -> "sendMessage"
               [] OTHER -> place
Bare == {"getActiveUsers", "getAllChatrooms"}    \* requests without arguments

Request(op, user, password, room) ==
    [op |-> op, user |-> user, password |-> password, room |-> room]
NoDisplays == [k \in 1 .. MaxDisplays |-> [at |-> "ended", room |-> NoRoom]]
NoRequest == Request("none", Nobody, "none", NoRoom)

Init ==
    /\ users = Registered
    /\ user_active = << >>
    /\ chat_rooms = [k \in DOMAIN Opened |-> [name |-> Opened[k], id |-> k]]
    /\ rooms = [k \in DOMAIN Opened |-> NewRoom]
    /\ thread = [c \in Clients |-> "recv"]
    /\ req = [c \in Clients |-> NoRequest]
    /\ ref = [c \in Clients |-> << >>]
    /\ main = [c \in Clients |-> "menu"]
    /\ username = [c \in Clients |-> Nobody]
    /\ chatroom = [c \in Clients |-> NoRoom]
    /\ keep_running = [c \in Clients |-> FALSE]
    /\ display = [c \in Clients |-> NoDisplays]
    /\ choices = MaxChoices
    /\ restarts = MaxRestarts
    /\ toServer = [c \in Clients |-> << >>]
    /\ toClient = [c \in Clients |-> << >>]

-----------------------------------------------------------------------------
(* client.py: the menu thread.                                             *)

\* Moves the menu thread to a place; if it asks something there, it sends it.
Goto(c, place, request) ==
    /\ main' = [main EXCEPT ![c] = place]
    /\ toServer' = IF place \in Asking
                     THEN [toServer EXCEPT ![c] = Append(@, request)] ELSE toServer

Say(c, place) == Request(Op(place), username[c], "none", chatroom[c])

\* What the user types at the menus.
Chooses == choices > 0 /\ choices' = choices - 1

\* A client keeps the name of a successful login; the model from the request on.
Named(c, op, u) ==
    username' = IF op = "login" THEN [username EXCEPT ![c] = u] ELSE username

LoginOrRegister(c) ==
    /\ main[c] = "menu" /\ Chooses
    /\ \E op \in {"login", "register"}, u \in NamesAt[c], p \in Passwords :
          /\ Goto(c, op, Request(op, u, p, NoRoom))
          /\ Named(c, op, u)
    /\ UNCHANGED chatroom

HomeChoice(c) ==
    /\ main[c] = "home" /\ Chooses
    /\ \E place \in {"choose", "getAllChatrooms", "getActiveUsers", "logout"} :
          Goto(c, place, Say(c, place))
    /\ UNCHANGED <<username, chatroom>>

CreateRoom(c) ==
    /\ main[c] = "home" /\ Chooses
    /\ \E r \in RoomNames :
          Goto(c, "createChatroom", Request("createChatroom", Nobody, "none", r))
    /\ UNCHANGED <<username, chatroom>>

ChooseRoom(c) ==
    /\ main[c] = "which room"
    /\ \E r \in RoomNames :
          /\ chatroom' = [chatroom EXCEPT ![c] = r]
          /\ Goto(c, "joinChatroom", Request("joinChatroom", username[c], "none", r))
    /\ UNCHANGED <<username, choices>>

Write(c) ==
    /\ main[c] = "room"
    /\ \/ Goto(c, "sendMessage", Say(c, "sendMessage")) /\ Chooses
       \/ Goto(c, "farewell", Say(c, "farewell")) /\ UNCHANGED choices
    /\ UNCHANGED <<username, chatroom>>

User(c) ==
    /\ UNCHANGED <<keep_running, display, restarts, toClient>>
    /\ LoginOrRegister(c) \/ HomeChoice(c) \/ CreateRoom(c) \/ ChooseRoom(c) \/ Write(c)

\* Where the menu thread goes with an answer.  "No" and "yes" answer a login,
\* a refusal comes as a text; a list is of names or of messages.
After(place, answer) ==
    CASE place = "login"    -> IF answer = "yes" THEN "getActiveUsers" ELSE "menu"
      [] place = "register" -> "menu"
      [] place = "choose"   -> "which room"
      [] place = "joinChatroom" -> IF answer = "200" THEN "getChatroomMembers" ELSE "home"
      [] place \in {"getChatroomMembers", "sendMessage"} -> "room"
      [] place = "farewell" -> "exitChatroom"
      [] place = "createChatroom" -> "getAllChatrooms"
      [] place = "logout"   -> "menu"
      [] OTHER              -> "home"

\* displayList adds a line end to each element, which a list element or a
\* Boolean does not take; what is printed otherwise need not make sense.
Accepts(place, answer) ==
    \/ Op(place) \notin Bare \cup {"getChatroomMembers"}
    \/ answer \in {"names", "empty", "200", "400", "text"}

\* What one recv finds: the first n answers, which json.loads takes only if
\* they are one; none when the server has closed.
Closed(c) == toClient[c] = << >> /\ thread[c] = "ended"
Received(c) == IF Closed(c) THEN {0} ELSE 1 .. Len(toClient[c])

Understood(c, n) == n = 1 /\ Accepts(main[c], Head(toClient[c]))

NewDisplay(c, slot) ==
    [display EXCEPT ![c][slot] = [at |-> "sleeping", room |-> chatroom[c]]]

Proceed(c) ==
    /\ main[c] \in Asking
    /\ \E n \in Received(c) : Understood(c, n)
    /\ LET place == After(main[c], Head(toClient[c]))
       IN  /\ Goto(c, place, Say(c, place))
           /\ keep_running' = [keep_running EXCEPT ![c] =
                (@ \/ place = "getChatroomMembers") /\ main[c] # "exitChatroom"]
           /\ username' = IF place = "menu" THEN [username EXCEPT ![c] = Nobody]
                                            ELSE username
    /\ IF main[c] = "getChatroomMembers"
         THEN \E slot \in 1 .. MaxDisplays : /\ display[c][slot].at = "ended"
                                             /\ display' = NewDisplay(c, slot)
         ELSE UNCHANGED display
    /\ toClient' = [toClient EXCEPT ![c] = Tail(@)]
    /\ UNCHANGED <<chatroom, choices, restarts>>

\* The menu thread ends, and with it the process and its other threads.
End(c) ==
    /\ main' = [main EXCEPT ![c] = "gone"]
    /\ username' = [username EXCEPT ![c] = Nobody]
    /\ chatroom' = [chatroom EXCEPT ![c] = NoRoom]
    /\ keep_running' = [keep_running EXCEPT ![c] = FALSE]
    /\ display' = [display EXCEPT ![c] = NoDisplays]
    /\ toClient' = [toClient EXCEPT ![c] = << >>]
    /\ UNCHANGED <<choices, restarts, toServer>>

\* The user exits at the menu, or kills the client anywhere.
Leave(c) == main[c] # "gone" /\ End(c)

\* What was received raises an exception.
Crash(c) ==
    /\ main[c] \in Asking
    /\ \E n \in Received(c) : ~Understood(c, n)
    /\ End(c)

-----------------------------------------------------------------------------
(* client.py: the display threads.                                         *)

\* The test of the loop, and only later what the thread does on it: a thread that
\* has passed may still send when the menu thread has left the room.
Again(c, k) ==
    /\ display[c][k].at = "sleeping" /\ keep_running[c]
    /\ display' = [display EXCEPT ![c][k].at = "fetching"]
    /\ UNCHANGED <<toServer, toClient>>

StopDisplay(c, k) ==
    /\ display[c][k].at = "sleeping" /\ ~keep_running[c]
    /\ display' = [display EXCEPT ![c][k] = NoDisplays[k]]
    /\ UNCHANGED <<toServer, toClient>>

MutFetch(c, k) ==
    /\ display[c][k].at = "fetching"
    /\ display' = [display EXCEPT ![c][k].at = "sleeping"]
    /\ toServer' = [toServer EXCEPT ![c] =
         Append(@, Request("fetchMessages", Nobody, "none", display[c][k].room))]
    /\ UNCHANGED toClient
Fetch(c, k) ==
    /\ display[c][k].at = "fetching"
    /\ display' = [display EXCEPT ![c][k].at = "waiting"]
    /\ toServer' = [toServer EXCEPT ![c] =
         Append(@, Request("fetchMessages", Nobody, "none", display[c][k].room))]
    /\ UNCHANGED toClient

\* Anything but a list of messages, or of names of three letters, raises an
\* exception that ends the display thread alone.
Show(c, k) ==
    /\ display[c][k].at = "waiting"
    /\ \E n \in Received(c) :
         /\ toClient' = [toClient EXCEPT ![c] = SubSeq(@, n + 1, Len(@))]
         /\ \/ /\ n = 1 /\ Head(toClient[c]) \in {"messages", "empty", "names"}
               /\ display' = [display EXCEPT ![c][k].at = "sleeping"]
            \/ /\ ~(n = 1 /\ Head(toClient[c]) \in {"messages", "empty"})
               /\ display' = [display EXCEPT ![c][k] = NoDisplays[k]]
    /\ UNCHANGED toServer

Display(c) ==
    /\ UNCHANGED <<main, username, chatroom, keep_running, choices, restarts>>
    /\ \E k \in 1 .. MaxDisplays :
          Again(c, k) \/ StopDisplay(c, k) \/ Fetch(c, k) \/ Show(c, k)

Client(c) ==
    /\ UNCHANGED <<shared, thread, req, ref>>
    /\ User(c) \/ Proceed(c) \/ Leave(c) \/ Crash(c) \/ Display(c)

\* A new client: a new connection and a new thread of the server.
Start(c) ==
    /\ main[c] = "gone" /\ thread[c] = "ended" /\ restarts > 0
    /\ main' = [main EXCEPT ![c] = "menu"]
    /\ restarts' = restarts - 1
    /\ thread' = [thread EXCEPT ![c] = "recv"]
    /\ toServer' = [toServer EXCEPT ![c] = << >>]
    /\ UNCHANGED <<shared, req, ref, username, chatroom, keep_running, display,
                   choices, toClient>>

-----------------------------------------------------------------------------
(* server.py: the thread of client c.                                      *)

\* What recv and split make of requests read as one.  A bare first one hides the
\* others; bare ones behind it end up in its last field; any other adds fields.
WithTail(first) ==
    CASE first.op \in {"createChatroom", "fetchMessages", "getChatroomMembers"} ->
           [first EXCEPT !.room = Mangled]
      [] first.op \in {"joinChatroom", "exitChatroom", "logout"} ->
           [first EXCEPT !.user = Mangled]
      [] first.op \in {"login", "register"} -> [first EXCEPT !.password = Mangled]
      [] OTHER -> first

Read(requests) ==
    LET first == Head(requests)
        rest == Tail(requests)
    IN  IF rest = << >> \/ first.op \in Bare THEN first
        ELSE IF \A k \in DOMAIN rest : rest[k].op \in Bare THEN WithTail(first)
        ELSE [NoRequest EXCEPT !.op = "too many fields"]

Recv(c) ==
    /\ thread[c] = "recv"
    /\ \E n \in 1 .. Len(toServer[c]) :
         /\ req' = [req EXCEPT ![c] = Read(SubSeq(toServer[c], 1, n))]
         /\ toServer' = [toServer EXCEPT ![c] = SubSeq(@, n + 1, Len(@))]
    /\ thread' = [thread EXCEPT ![c] = req'[c].op]
    /\ UNCHANGED <<shared, ref, toClient>>

\* An exception, or the end of the stream: the thread closes the connection.
Dies(c) ==
    /\ thread' = [thread EXCEPT ![c] = "ended"]
    /\ req' = [req EXCEPT ![c] = NoRequest]
    /\ ref' = [ref EXCEPT ![c] = << >>]
    /\ toServer' = [toServer EXCEPT ![c] = << >>]
    /\ UNCHANGED toClient

\* A client that ends with answers unread resets the connection, and the requests
\* it has sent are lost.
EndOfStream(c) ==
    /\ thread[c] = "recv" /\ main[c] = "gone"
    /\ Dies(c)
    /\ UNCHANGED shared

TooManyFields(c) == thread[c] = "too many fields" /\ Dies(c) /\ UNCHANGED shared

Reply(c, answer) ==
    /\ toClient' = IF main[c] = "gone" THEN toClient
                                       ELSE [toClient EXCEPT ![c] = Append(@, answer)]
    /\ thread' = [thread EXCEPT ![c] = "recv"]
    /\ req' = [req EXCEPT ![c] = NoRequest]
    /\ ref' = [ref EXCEPT ![c] = << >>]
    /\ UNCHANGED toServer

\* To the next step of the handler, holding some reference.
Continue(c, step, held) ==
    /\ thread' = [thread EXCEPT ![c] = step]
    /\ ref' = [ref EXCEPT ![c] = held]
    /\ UNCHANGED <<req, toServer, toClient>>

Known(c) == req[c].user \in DOMAIN users
Matches(c) == users[req[c].user] = req[c].password

MutActivated(u) == IF Contains(user_active, u) THEN user_active ELSE Append(user_active, u)
Activated(u) == Append(user_active, u)

Login(c) ==
    /\ thread[c] = "login"
    /\ IF Known(c)
         THEN /\ user_active' = IF Matches(c) THEN Activated(req[c].user) ELSE user_active
              /\ Continue(c, "compare", << >>)
         ELSE Reply(c, "text") /\ UNCHANGED user_active
    /\ UNCHANGED <<users, chat_rooms, rooms>>

LoginAnswer(c) ==
    /\ thread[c] = "compare"
    /\ Reply(c, IF Matches(c) THEN "yes" ELSE "no")
    /\ UNCHANGED shared

Register(c) ==
    /\ thread[c] = "register"
    /\ IF Known(c) THEN Reply(c, "text") ELSE Continue(c, "store user", << >>)
    /\ UNCHANGED shared

StoreUser(c) ==
    /\ thread[c] = "store user"
    /\ users' = [u \in DOMAIN users \cup {req[c].user} |->
                   IF u = req[c].user THEN req[c].password ELSE users[u]]
    /\ Reply(c, "yes")
    /\ UNCHANGED <<user_active, chat_rooms, rooms>>

Places(name) == {k \in DOMAIN chat_rooms : chat_rooms[k].name = name}
Exists(c) == Places(req[c].room) # {}
Object(c) == chat_rooms[CHOOSE k \in Places(req[c].room) : TRUE].id
Names == IF chat_rooms = << >> THEN "empty" ELSE "names"

MutCreateChatroom(c) ==
    /\ thread[c] = "createChatroom"
    /\ Continue(c, IF Exists(c) THEN "recv" ELSE "store room", << >>)
    /\ UNCHANGED shared
CreateChatroom(c) ==
    /\ thread[c] = "createChatroom"
    /\ IF Exists(c) THEN Reply(c, "400") ELSE Continue(c, "store room", << >>)
    /\ UNCHANGED shared

\* A name stored twice keeps its place and gets the later object.
StoreRoom(c) ==
    /\ thread[c] = "store room"
    /\ rooms' = Append(rooms, NewRoom)
    /\ LET new == [name |-> req[c].room, id |-> Len(rooms) + 1]
       IN  chat_rooms' = IF Exists(c)
                           THEN [k \in DOMAIN chat_rooms |->
                                   IF k \in Places(req[c].room) THEN new ELSE chat_rooms[k]]
                           ELSE Append(chat_rooms, new)
    /\ Reply(c, "200")
    /\ UNCHANGED <<users, user_active>>

FindRoom(c) ==
    /\ thread[c] \in {"joinChatroom", "sendMessage", "exitChatroom"}
    /\ IF Exists(c) THEN Continue(c, "act", <<Object(c)>>) ELSE Reply(c, "400")
    /\ UNCHANGED shared

Held(c) == ref[c][1]

Join(c) ==
    /\ thread[c] = "act" /\ req[c].op = "joinChatroom"
    /\ rooms' = [rooms EXCEPT ![Held(c)].users = Append(@, req[c].user)]
    /\ Reply(c, "200")
    /\ UNCHANGED <<users, user_active, chat_rooms>>

Post(c) ==
    /\ thread[c] = "act" /\ req[c].op = "sendMessage"
    /\ rooms' = [rooms EXCEPT ![Held(c)].messages = Append(@, req[c].user)]
    /\ Reply(c, "200")
    /\ UNCHANGED <<users, user_active, chat_rooms>>

\* list.remove takes the first occurrence out, and raises ValueError without one.
Without(list, u) == RemoveFirst(list, u)

Exit(c) ==
    /\ thread[c] = "act" /\ req[c].op = "exitChatroom"
    /\ IF Contains(rooms[Held(c)].users, req[c].user)
         THEN /\ rooms' = [rooms EXCEPT ![Held(c)].users = Without(@, req[c].user)]
              /\ Reply(c, "200")
         ELSE Dies(c) /\ UNCHANGED rooms
    /\ UNCHANGED <<users, user_active, chat_rooms>>

List(c) ==
    /\ \/ /\ thread[c] = "getAllChatrooms" /\ Reply(c, Names)
       \/ /\ thread[c] = "getActiveUsers"
          /\ Reply(c, IF user_active = << >> THEN "empty" ELSE "names")
    /\ UNCHANGED shared

ListOfRoom(c) ==
    /\ thread[c] \in {"getChatroomMembers", "fetchMessages"}
    /\ Reply(c, IF ~Exists(c) THEN "400"
                ELSE IF thread[c] = "getChatroomMembers"
                  THEN IF rooms[Object(c)].users = << >> THEN "empty" ELSE "names"
                  ELSE IF rooms[Object(c)].messages = << >> THEN "empty" ELSE "messages")
    /\ UNCHANGED shared

\* logout takes the user off the active ones, and then walks the rooms; the
\* dictionary may not change its size on the way.
Logout(c) ==
    /\ thread[c] = "logout"
    /\ IF Contains(user_active, req[c].user)
         THEN /\ user_active' = Without(user_active, req[c].user)
              /\ Continue(c, "rooms", <<1, Len(chat_rooms)>>)
         ELSE Dies(c) /\ UNCHANGED user_active
    /\ UNCHANGED <<users, chat_rooms, rooms>>

At(c) == chat_rooms[ref[c][1]].id
MemberAt(c) == Contains(rooms[At(c)].users, req[c].user)
NextRoom(c) == <<ref[c][1] + 1, ref[c][2]>>

LogoutRoom(c) ==
    /\ thread[c] = "rooms"
    /\ IF Len(chat_rooms) # ref[c][2] THEN Dies(c)
       ELSE IF ref[c][1] > Len(chat_rooms) THEN Reply(c, "200")
       ELSE IF MemberAt(c) THEN Continue(c, "remove", ref[c])
       ELSE Continue(c, "rooms", NextRoom(c))
    /\ UNCHANGED shared

LogoutRemove(c) ==
    /\ thread[c] = "remove"
    /\ IF MemberAt(c)
         THEN /\ rooms' = [rooms EXCEPT ![At(c)].users = Without(@, req[c].user)]
              /\ Continue(c, "rooms", NextRoom(c))
         ELSE Dies(c) /\ UNCHANGED rooms
    /\ UNCHANGED <<users, user_active, chat_rooms>>

Thread(c) ==
    /\ UNCHANGED session
    /\ \/ Recv(c) \/ EndOfStream(c) \/ TooManyFields(c)
       \/ Login(c) \/ LoginAnswer(c) \/ Register(c) \/ StoreUser(c)
       \/ CreateChatroom(c) \/ StoreRoom(c)
       \/ FindRoom(c) \/ Join(c) \/ Post(c) \/ Exit(c)
       \/ List(c) \/ ListOfRoom(c)
       \/ Logout(c) \/ LogoutRoom(c) \/ LogoutRemove(c)

Next == \E c \in Clients : Client(c) \/ Start(c) \/ Thread(c)

\* The threads of the server run, and a client's menu thread takes what arrives.
\* Nothing makes a user choose or stay; of the display threads nothing is assumed.
Spec ==
    /\ Init /\ [][Next]_vars
    /\ \A c \in Clients : /\ WF_vars(Thread(c))
                          /\ WF_vars(Client(c) /\ (Proceed(c) \/ Crash(c)))
-----------------------------------------------------------------------------
\* The client's menu thread is past a login it was told has succeeded.
LoggedIn(c) == main[c] \notin {"menu", "login", "register", "logout", "gone"}

\* Who goes by name u goes by no other name.
OnlyName(u) == \A c \in Clients : u \in NamesAt[c] => NamesAt[c] = {u}

\* Every client that is logged in has an entry of its own among the active users,
\* whoever else logs in and out under the same name or leaves without a logout: no
\* logout takes away another's entry (server.py:36).  It takes one name for who
\* uses it and passwords that do not change: see the README on late answers, which
\* log a client in under another name, and on two registrations at once.
SessionsActive ==
    \A u \in Users : OnlyName(u) =>
        Cardinality({c \in Clients : LoggedIn(c) /\ username[c] = u})
          <= Cardinality({k \in DOMAIN user_active : user_active[k] = u})

Waiting(c) == {k \in 1 .. MaxDisplays : display[c][k].at = "waiting"}

\* What the server still has to answer.
ToAnswer(c) ==
    IF thread[c] = "ended" THEN 0
    ELSE Len(toServer[c]) + (IF thread[c] = "recv" THEN 0 ELSE 1)

\* There are never more answers to come than threads of the client that wait for
\* one: once nobody waits, no late answer is left to be taken for the next
\* request's, although threads take each other's answers and some are lost.
NoSurplusAnswer ==
    \A c \in Clients : main[c] # "gone" =>
        ToAnswer(c) + Len(toClient[c])
          <= Cardinality(Waiting(c)) + (IF main[c] \in Asking THEN 1 ELSE 0)

\* Until it has entered a room, a client gets an answer to each request or ends.
AnsweredOutside ==
    \A c \in Clients :
        main[c] \in Asking /\ chatroom[c] = NoRoom ~> main[c] \notin Asking \/ chatroom[c] # NoRoom

SamePasswords == \A v \in DOMAIN users : users'[v] = users[v]

\* server.py:43, "username already exists!": a name that is taken keeps the password
\* of whoever registered it first.  The code does not keep this when two clients
\* register it at once, and the proofs of SessionsActive assume it.
PasswordsKept == [][SamePasswords]_vars

\* server.py:37, "remvoe user from all the chatrooms": when a logout has been through
\* the rooms, the user is in none.  The code does not keep this after sessions that
\* ended without a logout, each of which leaves an entry.
LogoutLeavesRooms ==
    [][\A c \in Clients : thread[c] = "rooms" /\ thread'[c] = "recv" =>
          \A k \in DOMAIN chat_rooms :
             ~Contains(rooms[chat_rooms[k].id].users, req[c].user)]_vars
=============================================================================
