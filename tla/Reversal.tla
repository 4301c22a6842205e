------------------------------- MODULE Reversal -------------------------------
(***************************************************************************)
(* The getting-started pair: a server that takes one client after another, *)
(* reverses its message and closes, and clients that each send one         *)
(* message.  A client may be killed at any moment.  Operators named Mut... *)
(* are seeded bugs for testing the properties.                             *)
(***************************************************************************)
EXTENDS Naturals, Sequences, SequencesExt

CONSTANTS
    Clients, MAX_CLIENTS, MAXLINE,
    MESSAGE_FROM_CLIENT         \* what each client is built to send

\* A message of MAXLINE characters has no NUL after it in the server's buffer, and
\* an empty one is not sent at all: then each side waits for the other.
ASSUME ReversalAssumption ==
    /\ MAX_CLIENTS \in Nat /\ 0 \notin Clients
    /\ MESSAGE_FROM_CLIENT \in [Clients -> Seq(STRING)]
    /\ \A c \in Clients : Len(MESSAGE_FROM_CLIENT[c]) \in 1 .. MAXLINE - 1

VARIABLES
    server, i,              \* where the server is, and its loop's counter
    client_socket,          \* the client it serves, one at a time
    buffer, reversedBuffer, \* its two buffers, up to the first NUL
    client,                 \* where each client is
    received,               \* its own reversedBuffer
    conn,                   \* its connection: queued, accepted, closed by the server
    inbox, reply            \* what is on its way to the server, and from it
vars == <<server, i, client_socket, buffer, reversedBuffer, client, received,
          conn, inbox, reply>>
serverVars == <<server, i, client_socket, buffer, reversedBuffer>>
clientVars == <<client, received>>

Nobody == 0

Init ==
    /\ server = "starting" /\ i = 0 /\ client_socket = Nobody
    /\ buffer = << >> /\ reversedBuffer = << >>
    /\ client = [c \in Clients |-> "start"]
    /\ received = [c \in Clients |-> << >>]
    /\ conn = [c \in Clients |-> "none"]
    /\ inbox = [c \in Clients |-> << >>]
    /\ reply = [c \in Clients |-> << >>]

-----------------------------------------------------------------------------
(* The clients.                                                            *)

Goes(c, from, to) == client[c] = from /\ client' = [client EXCEPT ![c] = to]

Listening == server \notin {"starting", "ended"}

\* Without a server to connect to, the client ends.
connectToServer(c) ==
    /\ Goes(c, "start", IF Listening THEN "connected" ELSE "ended")
    /\ conn' = [conn EXCEPT ![c] = IF Listening THEN "queued" ELSE @]
    /\ UNCHANGED <<serverVars, received, inbox, reply>>

\* Sending to a server that has ended may end the client.
sendMessage(c) ==
    /\ Goes(c, "connected", "await") \/ (~Listening /\ Goes(c, "connected", "ended"))
    /\ inbox' = [inbox EXCEPT ![c] = MESSAGE_FROM_CLIENT[c]]
    /\ UNCHANGED <<serverVars, received, conn, reply>>

\* recv returns the reply, or nothing when the server has closed or ended first.
receiveMessage(c) ==
    /\ Goes(c, "await", "received")
    /\ reply[c] # << >> \/ conn[c] = "closed" \/ ~Listening
    /\ received' = [received EXCEPT ![c] = reply[c]]
    /\ UNCHANGED <<serverVars, conn, inbox, reply>>

closeSocket(c) ==
    /\ Goes(c, "received", "ended")
    /\ UNCHANGED <<serverVars, received, conn, inbox, reply>>

Kill(c) ==
    /\ client[c] \in {"connected", "await"}
    /\ Goes(c, client[c], "ended")
    /\ UNCHANGED <<serverVars, received, conn, inbox, reply>>

Client(c) == connectToServer(c) \/ sendMessage(c) \/ receiveMessage(c) \/ closeSocket(c)

-----------------------------------------------------------------------------
(* The server.                                                             *)

\* Writing over a buffer leaves what it has more.
Over(new, old) == new \o SubSeq(old, Len(new) + 1, Len(old))

\* socket, bind and listen: what fails of them ends the server.
Setup ==
    /\ server = "starting"
    /\ server' \in {"accept", "ended"}
    /\ UNCHANGED <<i, client_socket, buffer, reversedBuffer, clientVars, conn, inbox, reply>>

More == i < MAX_CLIENTS

\* A client that was killed in the queue is accepted like any other.
Accept ==
    /\ server = "accept" /\ More
    /\ \E c \in Clients : /\ conn[c] = "queued" /\ client_socket' = c
                          /\ conn' = [conn EXCEPT ![c] = "accepted"]
    /\ server' = "recv"
    /\ UNCHANGED <<i, buffer, reversedBuffer, clientVars, inbox, reply>>

AcceptFails ==
    /\ server = "accept" /\ More
    /\ server' = "ended"
    /\ UNCHANGED <<i, client_socket, buffer, reversedBuffer, clientVars, conn, inbox, reply>>

\* recv returns when there is a message, or the client is gone.
MutReturns(c) == inbox[c] # << >>
Returns(c) == inbox[c] # << >> \/ client[c] = "ended"

Recv ==
    /\ server = "recv" /\ Returns(client_socket)
    /\ buffer' = Over(inbox[client_socket], buffer)
    /\ inbox' = [inbox EXCEPT ![client_socket] = << >>]
    /\ server' = "reverse"
    /\ UNCHANGED <<i, client_socket, reversedBuffer, clientVars, conn, reply>>

ReverseAndSend ==
    /\ server = "reverse"
    /\ reversedBuffer' = Over(Reverse(buffer), reversedBuffer)
    /\ reply' = [reply EXCEPT ![client_socket] = SubSeq(reversedBuffer', 1, Len(buffer))]
    /\ server' = "reset"
    /\ UNCHANGED <<i, client_socket, buffer, clientVars, conn, inbox>>

MutCleared(old) == old
Cleared(old) == << >>

ResetAndClose ==
    /\ server = "reset"
    /\ buffer' = Cleared(buffer) /\ reversedBuffer' = Cleared(reversedBuffer)
    /\ conn' = [conn EXCEPT ![client_socket] = "closed"]
    /\ client_socket' = Nobody
    /\ i' = i + 1
    /\ server' = "accept"
    /\ UNCHANGED <<clientVars, inbox, reply>>

Return ==
    /\ server = "accept" /\ ~More
    /\ server' = "ended"
    /\ UNCHANGED <<i, client_socket, buffer, reversedBuffer, clientVars, conn, inbox, reply>>

Server == Setup \/ Accept \/ Recv \/ ReverseAndSend \/ ResetAndClose \/ Return

Next == Server \/ AcceptFails \/ \E c \in Clients : Client(c) \/ Kill(c)

\* Each program runs: neither waits for a user.
Spec ==
    /\ Init /\ [][Next]_vars
    /\ WF_vars(Server)
    /\ \A c \in Clients : WF_vars(Client(c))
-----------------------------------------------------------------------------
\* What a client receives is its own message reversed, with nothing of the
\* messages before it, whatever their lengths and however their clients ended;
\* and it receives it unless the server ends without having served it.
OwnMessageReversed ==
    \A c \in Clients :
        client[c] = "received" =>
            \/ received[c] = Reverse(MESSAGE_FROM_CLIENT[c])
            \/ received[c] = << >> /\ server = "ended" /\ conn[c] # "closed"

\* No client waits for ever: not behind one that was killed, and not in the queue
\* of a server that has served its MAX_CLIENTS.
EveryClientEnds == \A c \in Clients : client[c] # "start" ~> client[c] = "ended"
=============================================================================
