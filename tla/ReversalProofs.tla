---------------------------- MODULE ReversalProofs ----------------------------
(***************************************************************************)
(* OwnMessageReversed for any clients, messages and number of places.  The *)
(* property speaks of a client that has its reply; the invariant follows a *)
(* message from the connection through the server's buffers to the reply,  *)
(* with both buffers empty whenever a client is accepted, and allows a     *)
(* client that was killed to have left nothing at all.                     *)
(***************************************************************************)
EXTENDS Reversal, TLAPS

Message(c) == MESSAGE_FROM_CLIENT[c]
Gone(c) == client[c] = "ended"

\* The reply is there when the server has sent it, unless the client is gone.
Served(c) == reply[c] = Reverse(Message(c)) \/ Gone(c)

Places ==
    /\ server \in {"starting", "accept", "recv", "reverse", "reset", "ended"}
    /\ client \in [Clients -> {"start", "connected", "await", "received", "ended"}]
    /\ received \in [Clients -> Seq(STRING)]
    /\ conn \in [Clients -> {"none", "queued", "accepted", "closed"}]
    /\ inbox \in [Clients -> Seq(STRING)] /\ reply \in [Clients -> Seq(STRING)]

Buffers ==
    /\ server \in {"starting", "accept", "recv"} => buffer = << >> /\ reversedBuffer = << >>
    /\ server \in {"recv", "reverse", "reset"} =>
         client_socket \in Clients /\ conn[client_socket] = "accepted"
    /\ server = "reverse" =>
         /\ reversedBuffer = << >>
         /\ buffer \in {<< >>, Message(client_socket)}
         /\ buffer = << >> => Gone(client_socket)
    /\ server = "reset" => Served(client_socket)

Exchange(c) ==
    /\ inbox[c] \in {<< >>, Message(c)}
    /\ reply[c] \in {<< >>, Reverse(Message(c))}
    /\ reply[c] # << >> =>
         conn[c] = "closed" \/ (server = "reset" /\ client_socket = c)
    /\ conn[c] = "closed" => Served(c)
    /\ client[c] = "start" => conn[c] = "none"
    /\ client[c] \in {"connected", "await"} => server # "starting"
    /\ client[c] = "received" =>
         \/ received[c] = Reverse(Message(c))
         \/ received[c] = << >> /\ server = "ended" /\ conn[c] # "closed"

IInv == Places /\ Buffers /\ \A c \in Clients : Exchange(c)

\* Reversing keeps the length, so a message's reverse is not empty.
LEMMA Reversed ==
    ASSUME NEW c \in Clients
    PROVE  /\ Message(c) \in Seq(STRING) /\ Message(c) # << >>
           /\ Reverse(Message(c)) \in Seq(STRING) /\ Reverse(Message(c)) # << >>
PROOF
<1>1. Message(c) \in Seq(STRING) /\ Len(Message(c)) # 0
  BY ReversalAssumption DEF Message
<1>2. \A s \in Seq(STRING) : Reverse(s) \in Seq(STRING) /\ Len(Reverse(s)) = Len(s)
  BY DEF Reverse
<1> QED BY <1>1, <1>2

\* Written over an empty buffer, a message is all there is.
LEMMA OverEmpty == ASSUME NEW s \in Seq(STRING) PROVE Over(s, << >>) = s
PROOF BY DEF Over

\* What the server sends of its reply buffer is the whole reverse.
LEMMA Sent == ASSUME NEW s \in Seq(STRING) PROVE SubSeq(Reverse(s), 1, Len(s)) = Reverse(s)
PROOF BY DEF Reverse

LEMMA InitInv == Init => IInv
PROOF BY DEF Init, IInv, Places, Buffers, Exchange

-----------------------------------------------------------------------------
\* A client's steps touch what is its own, and a client that is gone stays so.
LEMMA ClientInv == ASSUME IInv, NEW c \in Clients, Client(c) \/ Kill(c) PROVE IInv'
PROOF
<1>1. /\ UNCHANGED <<serverVars, reply>>
      /\ \A d \in Clients : Gone(d) => Gone(d)'
      /\ \A d \in Clients \ {c} : /\ client'[d] = client[d] /\ conn'[d] = conn[d]
                                  /\ inbox'[d] = inbox[d] /\ received'[d] = received[d]
  BY DEF Client, Kill, connectToServer, sendMessage, receiveMessage, closeSocket, Goes,
         Gone, serverVars, IInv, Places
<1>2. \A d \in Clients : conn'[d] # conn[d] => conn[d] = "none" /\ conn'[d] = "queued"
  BY DEF Client, Kill, connectToServer, sendMessage, receiveMessage, closeSocket, Goes,
         IInv, Places, Exchange
<1>3. Places'
  <2>1. Message(c) \in Seq(STRING)
    BY Reversed
  <2>2. CASE connectToServer(c) \/ closeSocket(c) \/ Kill(c)
    BY <1>1, <2>2 DEF connectToServer, closeSocket, Kill, Goes, IInv, Places, serverVars
  <2>3. CASE sendMessage(c)
    BY <1>1, <2>1, <2>3 DEF sendMessage, Goes, IInv, Places, serverVars, Message
  <2>4. CASE receiveMessage(c)
    BY <1>1, <2>4 DEF receiveMessage, Goes, IInv, Places, serverVars
  <2> QED BY <2>2, <2>3, <2>4 DEF Client
<1>4. Buffers'
  BY <1>1, <1>2 DEF IInv, Buffers, Served, serverVars
<1>5. ASSUME NEW d \in Clients, d # c PROVE Exchange(d)'
  BY <1>1, <1>5 DEF IInv, Exchange, Served, Gone, serverVars
<1>6. Exchange(c)'
  <2>1. CASE connectToServer(c)
    BY <1>1, <2>1 DEF connectToServer, Goes, Listening, IInv, Places, Exchange, Served,
                      Gone, serverVars
  <2>2. CASE sendMessage(c)
    BY <1>1, <2>2 DEF sendMessage, Goes, IInv, Places, Exchange, Served, Gone, Message,
                      serverVars
  <2>3. CASE receiveMessage(c)
    <3>1. received'[c] = reply[c]
      BY <2>3 DEF receiveMessage, IInv, Places
    <3>2. reply[c] # << >> => reply[c] = Reverse(Message(c))
      BY DEF IInv, Exchange
    <3>3. reply[c] = << >> => server = "ended" /\ conn[c] # "closed"
      BY <2>3, Reversed
         DEF receiveMessage, Goes, Listening, IInv, Places, Exchange, Served, Gone
    <3> QED BY <1>1, <2>3, <3>1, <3>2, <3>3
            DEF receiveMessage, Goes, IInv, Places, Exchange, Served, Gone, serverVars
  <2>4. CASE closeSocket(c) \/ Kill(c)
    BY <1>1, <2>4 DEF closeSocket, Kill, Goes, IInv, Places, Exchange, Served, Gone,
                      serverVars
  <2> QED BY <2>1, <2>2, <2>3, <2>4 DEF Client
<1> QED BY <1>3, <1>4, <1>5, <1>6 DEF IInv

-----------------------------------------------------------------------------
\* The server's steps between two clients.
LEMMA LoopInv == ASSUME IInv, Setup \/ Accept \/ AcceptFails \/ Return PROVE IInv'
PROOF
<1>1. UNCHANGED <<buffer, reversedBuffer, client, received, inbox, reply>>
  BY DEF Setup, Accept, AcceptFails, Return, clientVars
<1>2. CASE Accept
  <2>1. PICK c \in Clients : /\ conn[c] = "queued" /\ client_socket' = c
                            /\ conn' = [conn EXCEPT ![c] = "accepted"]
    BY <1>2 DEF Accept
  <2>2. server = "accept" /\ server' = "recv"
    BY <1>2 DEF Accept
  <2>3. Places' /\ Buffers'
    BY <1>1, <2>1, <2>2 DEF IInv, Places, Buffers
  <2>4. ASSUME NEW d \in Clients PROVE Exchange(d)'
    BY <1>1, <2>1, <2>2, <2>4 DEF IInv, Places, Exchange, Served, Gone
  <2> QED BY <2>3, <2>4 DEF IInv
<1>3. CASE Setup \/ AcceptFails \/ Return
  <2>1. /\ server \in {"starting", "accept"} /\ conn' = conn
        /\ server' \in {"accept", "ended"} /\ client_socket' = client_socket
    BY <1>3 DEF Setup, AcceptFails, Return
  <2> QED BY <1>1, <2>1 DEF IInv, Places, Buffers, Exchange, Served, Gone
<1> QED BY <1>2, <1>3

\* recv fills the empty buffer with the whole message, or with nothing when the
\* client is gone.
LEMMA RecvInv == IInv /\ Recv => IInv'
PROOF
<1> SUFFICES ASSUME IInv, Recv PROVE IInv'
  OBVIOUS
<1> DEFINE c == client_socket
<1>1. /\ server = "recv" /\ server' = "reverse" /\ c \in Clients /\ conn[c] = "accepted"
      /\ reversedBuffer = << >> /\ buffer = << >>
      /\ UNCHANGED <<client_socket, reversedBuffer, client, received, conn, reply>>
  BY DEF Recv, IInv, Buffers, clientVars
<1>2. inbox[c] \in Seq(STRING) /\ inbox[c] \in {<< >>, Message(c)}
  BY <1>1 DEF IInv, Places, Exchange
<1>3. buffer' = inbox[c]
  BY <1>1, <1>2, OverEmpty DEF Recv
<1>4. inbox[c] = << >> => Gone(c)
  BY DEF Recv, Returns, Gone
<1>5. Buffers'
  BY <1>1, <1>2, <1>3, <1>4 DEF Buffers, Message, Gone
<1>6. << >> \in Seq(STRING) /\ inbox' = [inbox EXCEPT ![c] = << >>]
  BY DEF Recv
<1>7. Places'
  BY <1>1, <1>6 DEF IInv, Places
<1>8. \A d \in Clients : Exchange(d)'
  BY <1>1, <1>6 DEF IInv, Places, Exchange, Served, Gone
<1> QED BY <1>5, <1>7, <1>8 DEF IInv

\* The reply is the reverse of what is in the buffer, so of the client's message.
LEMMA ReverseInv == IInv /\ ReverseAndSend => IInv'
PROOF
<1> SUFFICES ASSUME IInv, ReverseAndSend PROVE IInv'
  OBVIOUS
<1> DEFINE c == client_socket
<1>1. /\ server = "reverse" /\ server' = "reset" /\ c \in Clients /\ conn[c] = "accepted"
      /\ reversedBuffer = << >>
      /\ UNCHANGED <<client_socket, buffer, client, received, conn, inbox>>
  BY DEF ReverseAndSend, IInv, Buffers, clientVars
<1>2. /\ buffer \in {<< >>, Message(c)} /\ (buffer = << >> => Gone(c))
      /\ buffer \in Seq(STRING)
  <2>1. buffer \in {<< >>, Message(c)} /\ (buffer = << >> => Gone(c))
    BY <1>1 DEF IInv, Buffers
  <2>2. << >> \in Seq(STRING) /\ Message(c) \in Seq(STRING)
    BY <1>1, Reversed
  <2> QED BY <2>1, <2>2
<1>3. reply' = [reply EXCEPT ![c] = Reverse(buffer)]
  <2>1. Reverse(buffer) \in Seq(STRING)
    BY <1>2 DEF Reverse
  <2>2. reversedBuffer' = Reverse(buffer)
    BY <1>1, <2>1, OverEmpty DEF ReverseAndSend
  <2> QED BY <1>2, <2>2, Sent DEF ReverseAndSend
<1>4. Reverse(<< >>) = << >>
  BY DEF Reverse
<1>5. Reverse(buffer) \in {<< >>, Reverse(Message(c))} /\ Reverse(buffer) \in Seq(STRING)
  BY <1>2, <1>4, Reversed, <1>1
<1>6. reply'[c] = Reverse(Message(c)) \/ Gone(c)
  BY <1>1, <1>2, <1>3 DEF IInv, Places
<1>7. Places'
  BY <1>1, <1>3, <1>5 DEF IInv, Places
<1>8. Buffers'
  BY <1>1, <1>6 DEF Buffers, Served, Gone, Message
<1>9. ASSUME NEW d \in Clients PROVE Exchange(d)'
  <2>1. CASE d = c
    BY <1>1, <1>3, <1>5, <2>1 DEF IInv, Places, Exchange, Served, Gone, Message
  <2>2. CASE d # c
    BY <1>1, <1>3, <2>2 DEF IInv, Places, Exchange, Served, Gone
  <2> QED BY <2>1, <2>2
<1> QED BY <1>7, <1>8, <1>9 DEF IInv

\* Both buffers are empty again when the next client is accepted.
LEMMA ResetInv == IInv /\ ResetAndClose => IInv'
PROOF
<1> SUFFICES ASSUME IInv, ResetAndClose PROVE IInv'
  OBVIOUS
<1> DEFINE c == client_socket
<1>1. /\ server = "reset" /\ server' = "accept" /\ c \in Clients /\ Served(c)
      /\ buffer' = << >> /\ reversedBuffer' = << >> /\ conn[c] = "accepted"
      /\ conn' = [conn EXCEPT ![c] = "closed"]
      /\ UNCHANGED <<client, received, inbox, reply>>
  BY DEF ResetAndClose, IInv, Buffers, clientVars, Cleared
<1>2. Places' /\ Buffers'
  BY <1>1 DEF IInv, Places, Buffers
<1>3. ASSUME NEW d \in Clients PROVE Exchange(d)'
  BY <1>1, <1>3 DEF IInv, Places, Exchange, Served, Gone
<1> QED BY <1>2, <1>3 DEF IInv

\* Every step keeps the invariant.
LEMMA StepInv == IInv /\ [Next]_vars => IInv'
PROOF
<1> SUFFICES ASSUME IInv, [Next]_vars PROVE IInv'
  OBVIOUS
<1>1. CASE Server \/ AcceptFails
  BY <1>1, LoopInv, RecvInv, ReverseInv, ResetInv DEF Server
<1>2. ASSUME NEW c \in Clients, Client(c) \/ Kill(c) PROVE IInv'
  BY <1>2, ClientInv
<1>3. CASE UNCHANGED vars
  BY <1>3 DEF vars, IInv, Places, Buffers, Exchange, Served, Gone
<1> QED BY <1>1, <1>2, <1>3 DEF Next

\* However the clients come and end, the buffers hold nothing of an earlier one.
THEOREM Invariance == Spec => []IInv
PROOF BY InitInv, StepInv, PTL DEF Spec

\* A client that has a reply has its own message reversed (server.c:61-93).
THEOREM OwnReply == Spec => []OwnMessageReversed
PROOF
<1>1. IInv => OwnMessageReversed
  BY DEF IInv, Exchange, OwnMessageReversed, Message
<1> QED BY <1>1, Invariance, PTL
=============================================================================
