----------------------------- MODULE Reservation -----------------------------
(***************************************************************************)
(* The ticket server of networking_reservation_system_c and its clients.   *)
(* The server has a thread per client; the threads share the ticket        *)
(* counters AC and SL and take no lock, so that every load and store of a  *)
(* counter (server.c, built as readme.md says, without optimisation) is a  *)
(* step of its own.  A client may be killed at any moment.  Operators      *)
(* named Mut... are seeded bugs for testing the properties.                *)
(***************************************************************************)
EXTENDS Integers, Sequences, FiniteSets, SequencesExt

CONSTANTS
    Clients,
    AC_NUM, SL_NUM, MAX_CLIENTS,      \* constants.h
    Counts,                           \* the counts a user may type
    MaxRequests                       \* bound on a client's bookings

ASSUME ReservationAssumption ==
    /\ AC_NUM \in Nat /\ SL_NUM \in Nat /\ MAX_CLIENTS \in Nat
    /\ Counts \subseteq Int /\ MaxRequests \in Nat

VARIABLES
    AC, SL, log,        \* the counters and the record file
    server,             \* the server process: "up", "exited" or "returned"
    thread, req, temp,  \* handle_client: where it is, the request, a register
    menu, asked, tally, \* client.c: where it is, its last request, numAC/numSL
    sent,               \* how many bookings it has asked for
    inbox, reply,       \* the message on its way to the server, and from it
    link                \* the connection as the server sees it
vars == <<AC, SL, log, server, thread, req, temp, menu, asked, tally, sent,
          inbox, reply, link>>
counters == <<AC, SL>>
clientVars == <<menu, asked, tally, sent>>

Request == [op : {"HI", "REQ", "BYE"}, ac : Counts \cup {0}, sl : Counts \cup {0}]
NoRequest == [op |-> "none", ac |-> 0, sl |-> 0]

Init ==
    /\ AC = AC_NUM /\ SL = SL_NUM /\ log = << >>
    /\ server = "up"
    /\ thread = [c \in Clients |-> "none"]
    /\ req = [c \in Clients |-> NoRequest]
    /\ temp = [c \in Clients |-> 0]
    /\ menu = [c \in Clients |-> "start"]
    /\ asked = [c \in Clients |-> NoRequest]
    /\ tally = [c \in Clients |-> [ac |-> 0, sl |-> 0]]
    /\ sent = [c \in Clients |-> 0]
    /\ inbox = [c \in Clients |-> NoRequest]
    /\ reply = [c \in Clients |-> "none"]
    /\ link = [c \in Clients |-> "none"]

-----------------------------------------------------------------------------
(* The clients.                                                            *)

Send(c, message) ==
    /\ asked' = [asked EXCEPT ![c] = message]
    /\ menu' = [menu EXCEPT ![c] = "await"]
    /\ inbox' = IF server = "up" THEN [inbox EXCEPT ![c] = message] ELSE inbox
    /\ UNCHANGED <<tally, reply>>

\* Connect, and send the name: the kernel's backlog takes the connection even
\* when the server will never accept it.
Hello(c) ==
    /\ menu[c] = "start" /\ server = "up"
    /\ link' = [link EXCEPT ![c] = "open"]
    /\ Send(c, [op |-> "HI", ac |-> 0, sl |-> 0])
    /\ UNCHANGED sent

Book(c) ==
    /\ menu[c] = "menu" /\ sent[c] < MaxRequests
    /\ \E ac, sl \in Counts : Send(c, [op |-> "REQ", ac |-> ac, sl |-> sl])
    /\ sent' = [sent EXCEPT ![c] = @ + 1]
    /\ UNCHANGED link

Bye(c) ==
    /\ menu[c] = "menu"
    /\ Send(c, [op |-> "BYE", ac |-> 0, sl |-> 0])
    /\ UNCHANGED <<sent, link>>

AfterReply(c) == IF asked[c].op = "BYE" THEN "gone" ELSE "menu"

MutTallied(c) == [ac |-> tally[c].ac + asked[c].ac, sl |-> tally[c].sl + asked[c].sl]
Tallied(c) ==
    IF reply[c] = "200"
      THEN [ac |-> tally[c].ac + asked[c].ac, sl |-> tally[c].sl + asked[c].sl]
      ELSE tally[c]

Receive(c) ==
    /\ menu[c] = "await" /\ reply[c] # "none"
    /\ tally' = [tally EXCEPT ![c] = Tallied(c)]
    /\ reply' = [reply EXCEPT ![c] = "none"]
    /\ menu' = [menu EXCEPT ![c] = AfterReply(c)]
    /\ link' = IF asked[c].op = "BYE" /\ link[c] = "open"
                 THEN [link EXCEPT ![c] = "fin"] ELSE link
    /\ UNCHANGED <<asked, sent, inbox>>

\* The server is gone: recv returns 0, which the client takes for an answer that
\* is not 200, or -1, on which it exits (so does a send that meets the reset).
ReceiveNothing(c) ==
    /\ menu[c] = "await" /\ reply[c] = "none" /\ server # "up"
    /\ \E next \in {AfterReply(c), "gone"} : menu' = [menu EXCEPT ![c] = next]
    /\ UNCHANGED <<asked, tally, sent, inbox, reply, link>>

\* The kernel resets the connection of a process that dies with data unread.
Killed(c) ==
    /\ menu[c] \in {"menu", "await"}
    /\ menu' = [menu EXCEPT ![c] = "killed"]
    /\ link' = [link EXCEPT ![c] = IF reply[c] # "none" THEN "reset" ELSE "fin"]
    /\ UNCHANGED <<asked, tally, sent, inbox, reply>>

Client(c) ==
    /\ UNCHANGED <<counters, log, server, thread, req, temp>>
    /\ \/ Hello(c) \/ Book(c) \/ Bye(c) \/ Receive(c) \/ ReceiveNothing(c)
       \/ Killed(c)

-----------------------------------------------------------------------------
(* The server's main thread.                                               *)

Accepted == {c \in Clients : thread[c] # "none"}

MutPlaceFree == Cardinality(Accepted) <= MAX_CLIENTS
PlaceFree == Cardinality(Accepted) < MAX_CLIENTS

Accept(c) ==
    /\ thread[c] = "none" /\ link[c] # "none"
    /\ PlaceFree
    /\ thread' = [thread EXCEPT ![c] = "read"]
    /\ UNCHANGED server

\* accept or pthread_create fails, and the process exits with all its sessions.
AcceptFails ==
    /\ PlaceFree
    /\ server' = "exited"
    /\ UNCHANGED thread

JoinAll ==
    /\ Cardinality(Accepted) = MAX_CLIENTS
    /\ \A c \in Accepted : thread[c] = "ended"
    /\ server' = "returned"
    /\ UNCHANGED thread

Main ==
    /\ UNCHANGED <<counters, log, req, temp, clientVars, inbox, reply, link>>
    /\ AcceptFails \/ JoinAll \/ \E c \in Clients : Accept(c)

-----------------------------------------------------------------------------
(* The thread of client c.                                                 *)

Goto(c, here, there) ==
    thread[c] = here /\ thread' = [thread EXCEPT ![c] = there]

\* A write to a client that is gone still succeeds the first time, and no
\* thread writes twice without a read in between.
Answer(c, answer) ==
    reply' = IF menu[c] = "await" THEN [reply EXCEPT ![c] = answer] ELSE reply

ReadHello(c) ==
    /\ Goto(c, "read", "read") /\ inbox[c].op = "HI"
    /\ inbox' = [inbox EXCEPT ![c] = NoRequest]
    /\ Answer(c, "hello")
    /\ UNCHANGED <<counters, log, server, req, temp>>

ReadRequest(c) ==
    /\ Goto(c, "read", "check AC") /\ inbox[c].op = "REQ"
    /\ req' = [req EXCEPT ![c] = inbox[c]]
    /\ inbox' = [inbox EXCEPT ![c] = NoRequest]
    /\ UNCHANGED <<counters, log, server, temp, reply>>

ReadBye(c) ==
    /\ Goto(c, "read", "ended") /\ inbox[c].op = "BYE"
    /\ inbox' = [inbox EXCEPT ![c] = NoRequest]
    /\ Answer(c, "bye")
    /\ UNCHANGED <<counters, log, server, req, temp>>

ReadEnd(c) ==
    /\ Goto(c, "read", "ended")
    /\ inbox[c].op = "none" /\ link[c] = "fin"
    /\ UNCHANGED <<counters, log, server, req, temp, inbox, reply>>

\* exit(1) in a thread ends the process and every session with it.
ReadFails(c) ==
    /\ thread[c] = "read" /\ link[c] = "reset"
    /\ server' = "exited"
    /\ UNCHANGED <<counters, log, thread, req, temp, inbox, reply>>

CheckAC(c) ==
    /\ Goto(c, "check AC", IF req[c].ac <= AC THEN "check SL" ELSE "refuse")
    /\ UNCHANGED <<counters, log, server, req, temp, inbox, reply>>

MutEnoughSL(c) == TRUE
EnoughSL(c) == req[c].sl <= SL

CheckSL(c) ==
    /\ Goto(c, "check SL", IF EnoughSL(c) THEN "load AC" ELSE "refuse")
    /\ UNCHANGED <<counters, log, server, req, temp, inbox, reply>>

LoadAC(c) ==
    /\ Goto(c, "load AC", "store AC")
    /\ temp' = [temp EXCEPT ![c] = AC]
    /\ UNCHANGED <<counters, log, server, req, inbox, reply>>

StoreAC(c) ==
    /\ Goto(c, "store AC", "load SL")
    /\ AC' = temp[c] - req[c].ac
    /\ temp' = [temp EXCEPT ![c] = 0]
    /\ UNCHANGED <<SL, log, server, req, inbox, reply>>

LoadSL(c) ==
    /\ Goto(c, "load SL", "store SL")
    /\ temp' = [temp EXCEPT ![c] = SL]
    /\ UNCHANGED <<counters, log, server, req, inbox, reply>>

MutLeftSL(c) == temp[c] - req[c].ac
LeftSL(c) == temp[c] - req[c].sl

StoreSL(c) ==
    /\ Goto(c, "store SL", "grant")
    /\ SL' = LeftSL(c)
    /\ temp' = [temp EXCEPT ![c] = 0]
    /\ UNCHANGED <<AC, log, server, req, inbox, reply>>

MutAfterGrant == "read"
AfterGrant == "log"

Grant(c) ==
    /\ Goto(c, "grant", AfterGrant)
    /\ Answer(c, "200")
    /\ UNCHANGED <<counters, log, server, req, temp, inbox>>

\* stdio appends the whole line at once when the file is closed.
Booking(c) == [client |-> c, ac |-> req[c].ac, sl |-> req[c].sl]
Record(c) ==
    /\ Goto(c, "log", "read")
    /\ log' = Append(log, Booking(c))
    /\ req' = [req EXCEPT ![c] = NoRequest]

Log(c) == Record(c) /\ UNCHANGED <<counters, server, temp, inbox, reply>>

\* Any call on the record file may fail, and then the process exits: the line is
\* lost when opening, locking or writing it fails, and is in the file when only
\* the unlock or the end of the close does.
LogFails(c) ==
    /\ thread[c] = "log"
    /\ server' = "exited"
    /\ Record(c) \/ UNCHANGED <<thread, log, req>>
    /\ UNCHANGED <<counters, temp, inbox, reply>>

MutRefusal == "none"
Refusal == "201"

Refuse(c) ==
    /\ Goto(c, "refuse", "read")
    /\ Answer(c, Refusal)
    /\ req' = [req EXCEPT ![c] = NoRequest]
    /\ UNCHANGED <<counters, log, server, temp, inbox>>

Thread(c) ==
    /\ UNCHANGED <<clientVars, link>>
    /\ \/ ReadHello(c) \/ ReadRequest(c) \/ ReadBye(c) \/ ReadEnd(c) \/ ReadFails(c)
       \/ CheckAC(c) \/ CheckSL(c) \/ LoadAC(c) \/ StoreAC(c)
       \/ LoadSL(c) \/ StoreSL(c) \/ Grant(c) \/ Log(c) \/ LogFails(c) \/ Refuse(c)

Server == server = "up" /\ (Main \/ \E c \in Clients : Thread(c))

Next == Server \/ \E c \in Clients : Client(c)

\* The kernel runs every thread; a client in recv takes what arrives.  Nothing
\* makes a user type, and nothing stops one from being killed.
Spec ==
    /\ Init /\ [][Next]_vars
    /\ WF_vars(server = "up" /\ Main /\ ~AcceptFails)
    /\ \A c \in Clients : /\ WF_vars(server = "up" /\ Thread(c))
                          /\ WF_vars(Client(c) /\ (Receive(c) \/ ReceiveNothing(c)))
-----------------------------------------------------------------------------
\* Types: where each thread and each client can be, and that the accepted
\* clients fit the arrays of main.
TypeOK ==
    /\ AC \in Int /\ SL \in Int
    /\ Cardinality(Accepted) <= MAX_CLIENTS
    /\ server \in {"up", "exited", "returned"}
    /\ thread \in [Clients -> {"none", "read", "check AC", "check SL", "load AC",
                   "store AC", "load SL", "store SL", "grant", "log", "refuse", "ended"}]
    /\ req \in [Clients -> Request \cup {NoRequest}]
    /\ temp \in [Clients -> Int]
    /\ menu \in [Clients -> {"start", "menu", "await", "gone", "killed"}]
    /\ asked \in [Clients -> Request \cup {NoRequest}]
    /\ sent \in [Clients -> 0 .. MaxRequests]
    /\ inbox \in [Clients -> Request \cup {NoRequest}]
    /\ reply \in [Clients -> {"none", "hello", "200", "201", "bye"}]
    /\ link \in [Clients -> {"none", "open", "fin", "reset"}]

Plus(a, b) == [ac |-> a.ac + b.ac, sl |-> a.sl + b.sl]
Nothing == [ac |-> 0, sl |-> 0]

\* What a list of bookings adds up to for some of the clients.
Total(bookings, who) ==
    FoldLeft(LAMBDA total, booking :
               IF booking.client \in who THEN Plus(total, booking) ELSE total,
             Nothing, bookings)

Recorded(who) == Total(log, who)

\* What a client has been told is booked for it, the answer on its way included.
Told(c) == Plus(tally[c], IF reply[c] = "200" THEN asked[c] ELSE Nothing)

\* The record file is behind what a living client was told (menu choice 2 shows
\* it) by the one booking its thread is about to write and by no other, through
\* refusals, kills and any exit of the server, and is never ahead of it.
OneRecordBehind ==
    \A c \in Clients : menu[c] # "killed" =>
        Told(c) = IF thread[c] = "log" THEN Plus(Recorded({c}), req[c])
                                       ELSE Recorded({c})

\* What server.c:133, "Write the record to the file with the timestamp", suggests
\* and the code does not keep, as the reply comes first and the server may end in
\* between: that it ends with every booking in the file that a client was told of.
ConfirmedIsRecorded ==
    server # "up" =>
        \A c \in Clients : menu[c] # "killed" => Told(c) = Recorded({c})

\* A waiting client's request is in exactly one place: on its way, in its
\* thread, or answered; a second answer would be taken for the next request's.
RequestInOnePlace ==
    \A c \in Clients : menu[c] = "await" /\ server = "up" =>
        Cardinality({p \in {"inbox", "thread", "reply"} :
            CASE p = "inbox" -> inbox[c].op # "none"
              [] p = "thread" -> thread[c] \notin {"none", "read", "log", "ended"}
              [] p = "reply" -> reply[c] # "none"}) = 1

\* server.c:105, "Check if the tickets are available": what the record file
\* says was sold never exceeds what there was.
NeverOversold == Recorded(Clients).ac <= AC_NUM /\ Recorded(Clients).sl <= SL_NUM

\* A client whose connection was accepted does not wait for ever.
Answered ==
    \A c \in Clients :
        thread[c] # "none" /\ menu[c] = "await" ~> menu[c] # "await"

=============================================================================
