------------------------------ MODULE Calculator ------------------------------
(***************************************************************************)
(* The postfix calculator of calculator_client_server_c: a server          *)
(* (problem3.c) with a thread per client, and the clients (client.c).  A   *)
(* message is <<first character, body>>; a query is a sequence of          *)
(* characters, an answer the expression it stands for, so that the order   *)
(* and the number of operands show.  A client may be killed at any moment. *)
(* Operators named Mut... are seeded bugs for testing the properties.      *)
(***************************************************************************)
EXTENDS Integers, Sequences, FiniteSets, SequencesExt

CONSTANTS
    Clients, MAXCLIENT,
    Queries,            \* the lines a user may type, as sequences of characters
    MaxQueries,         \* bound on the queries of all clients together
    Literals,           \* the numbers of the expressions a user may write
    MaxDepth            \* bound on how deep these are nested

ASSUME CalculatorAssumption == MAXCLIENT \in Nat /\ MaxQueries \in Nat

VARIABLES
    server,             \* the server: "starting", "up", "killed" or "returned"
    thread,             \* where each client's thread is
    buffer, query,      \* its message buffer and its copy of the query
    mutex,              \* the threads that have locked it and not unlocked it
    log,                \* the record file, by client
    menu,               \* where each client is
    asked, answer,      \* its last query, and the answer it has printed
    sent,               \* how many queries it has sent
    inbox, reply,       \* the message on its way to the server, and from it
    link                \* the connection as the server's kernel sees it
vars == <<server, thread, buffer, query, mutex, log, menu, asked, answer, sent,
          inbox, reply, link>>
clientVars == <<menu, asked, answer, sent>>
threadVars == <<thread, buffer, query, mutex, log>>

-----------------------------------------------------------------------------
(* The evaluator: one pass over the characters.                            *)

Digits == {"1", "2", "3"}
Operators == {"+", "-", "*", "/"}

\* What is read from below the array stack[] is whatever is in memory there.
Unknown == <<"?">>
Invalid == <<"invalid">>

\* The array holds Len(stack) - low values: pops of an empty array go below it.
Start == [mode |-> "token", number |-> << >>, stack |-> << >>, low |-> 0]

Push(s, value) == [s EXCEPT !.mode = "token", !.stack = Append(@, value)]
PushNumber(s) == Push(s, <<"number", s.number>>)

MutApply(s, op) ==
    LET n == Len(s.stack)
        op1 == IF n >= 1 THEN s.stack[n] ELSE Unknown
        op2 == IF n >= 2 THEN s.stack[n - 1] ELSE Unknown
    IN  [s EXCEPT !.stack = Append(SubSeq(@, 1, n - 2), <<op, op1, op2>>),
                  !.low = IF n < 2 THEN @ + 2 - n ELSE @]
Apply(s, op) ==
    LET n == Len(s.stack)
        op2 == IF n >= 1 THEN s.stack[n] ELSE Unknown
        op1 == IF n >= 2 THEN s.stack[n - 1] ELSE Unknown
    IN  [s EXCEPT !.stack = Append(SubSeq(@, 1, n - 2), <<op, op1, op2>>),
                  !.low = IF n < 2 THEN @ + 2 - n ELSE @]

Token(s, ch) ==
    CASE ch \in Digits -> [s EXCEPT !.mode = "integer", !.number = <<ch>>]
      [] ch \in Operators -> Apply(s, ch)
      [] OTHER -> s

\* The character after an integer is passed over, the one after a decimal is not.
Read(s, ch) ==
    CASE s.mode = "token" -> Token(s, ch)
      [] s.mode \in {"integer", "decimal"} /\ ch \in Digits ->
            [s EXCEPT !.number = Append(@, ch)]
      [] s.mode = "integer" /\ ch = "." ->
            [s EXCEPT !.mode = "decimal", !.number = Append(@, ch)]
      [] s.mode = "integer" /\ ch \notin Digits \cup {"."} -> PushNumber(s)
      [] s.mode = "decimal" /\ ch \notin Digits -> Token(PushNumber(s), ch)

Surplus(s) == Len(s.stack) - s.low > 1
Result(s) ==
    IF Surplus(s) THEN Invalid
    ELSE IF s.stack = << >> THEN Unknown ELSE Last(s.stack)

\* A query that ends in an integer has its terminating NUL passed over, and goes
\* on with what input[] held before: nothing, a number or an operator.
Outcomes(q) ==
    LET s == FoldLeft(Read, Start, q)
    IN  CASE s.mode = "integer" -> {Result(PushNumber(s)), Unknown, Invalid}
          [] s.mode = "decimal" -> {Result(PushNumber(s))}
          [] OTHER -> {Result(s)}
Answers == [q \in Queries |-> Outcomes(q)]

-----------------------------------------------------------------------------
Blank == <<"", << >>>>
Ask(q) == <<"0", q>>
Bye == <<"1", << >>>>
Reply(result) == <<"1", result>>
Goodbye == <<"B", << >>>>
NoAnswer == << >>

Init ==
    /\ server = "starting" /\ mutex = {}
    /\ thread = [c \in Clients |-> "none"]
    /\ buffer = [c \in Clients |-> Blank]
    /\ query = [c \in Clients |-> << >>]
    /\ log = [c \in Clients |-> << >>]
    /\ menu = [c \in Clients |-> "start"]
    /\ asked = [c \in Clients |-> << >>]
    /\ answer = [c \in Clients |-> NoAnswer]
    /\ sent = [c \in Clients |-> 0]
    /\ inbox = [c \in Clients |-> Blank]
    /\ reply = [c \in Clients |-> Blank]
    /\ link = [c \in Clients |-> "none"]

-----------------------------------------------------------------------------
(* The clients.                                                            *)

Connect(c) ==
    /\ menu[c] = "start"
    /\ IF server = "up" THEN /\ menu' = [menu EXCEPT ![c] = "prompt"]
                             /\ link' = [link EXCEPT ![c] = "open"]
                        ELSE menu' = [menu EXCEPT ![c] = "gone"] /\ UNCHANGED link
    /\ UNCHANGED <<server, threadVars, asked, answer, sent, inbox, reply>>

\* Sending to a server that is gone may end the client with SIGPIPE.
Send(c, message, at) ==
    IF server = "up" THEN /\ inbox' = [inbox EXCEPT ![c] = message]
                          /\ menu' = [menu EXCEPT ![c] = at]
                     ELSE /\ menu' \in {[menu EXCEPT ![c] = at], [menu EXCEPT ![c] = "gone"]}
                          /\ UNCHANGED inbox

Total == FoldFunction(+, 0, sent)

Query(c) ==
    /\ menu[c] = "prompt" /\ Total < MaxQueries
    /\ \E q \in Queries : asked' = [asked EXCEPT ![c] = q] /\ Send(c, Ask(q), "await")
    /\ answer' = [answer EXCEPT ![c] = NoAnswer]
    /\ sent' = [sent EXCEPT ![c] = @ + 1]
    /\ UNCHANGED <<server, threadVars, reply, link>>

SayBye(c) ==
    /\ menu[c] = "prompt"
    /\ Send(c, Bye, "leave")
    /\ UNCHANGED <<server, threadVars, asked, answer, sent, reply, link>>

\* recv returns the reply, or nothing when the server has gone.
Receive(c) ==
    /\ menu[c] \in {"await", "leave"}
    /\ reply[c] # Blank \/ server # "up"
    /\ IF menu[c] = "await"
         THEN /\ menu' = [menu EXCEPT ![c] = "prompt"]
              /\ answer' = [answer EXCEPT ![c] = reply[c][2]]
              /\ UNCHANGED link
         ELSE /\ menu' = [menu EXCEPT ![c] = "gone"]
              /\ link' = [link EXCEPT ![c] = "closed"]
              /\ UNCHANGED answer
    /\ reply' = [reply EXCEPT ![c] = Blank]
    /\ UNCHANGED <<server, threadVars, asked, sent, inbox>>

\* Closing a connection with a reply unread resets it.
Kill(c) ==
    /\ menu[c] \notin {"start", "gone"}
    /\ menu' = [menu EXCEPT ![c] = "gone"]
    /\ link' = [link EXCEPT ![c] = IF reply[c] = Blank THEN "closed" ELSE "reset"]
    /\ reply' = [reply EXCEPT ![c] = Blank]
    /\ UNCHANGED <<server, threadVars, asked, answer, sent, inbox>>

-----------------------------------------------------------------------------
(* The server.                                                             *)

\* socket, bind and listen: what fails of them ends the server.
Setup ==
    /\ server = "starting"
    /\ server' \in {"up", "killed"}
    /\ UNCHANGED <<threadVars, clientVars, inbox, reply, link>>

Accepted == {c \in Clients : thread[c] # "none"}

Room == Cardinality(Accepted) < MAXCLIENT

Accept(c) ==
    /\ server = "up" /\ Room
    /\ link[c] # "none" /\ thread[c] = "none"
    /\ thread' = [thread EXCEPT ![c] = "recv"]
    /\ UNCHANGED <<server, buffer, query, mutex, log, clientVars, inbox, reply, link>>

\* accept or pthread_create fails: exit(1).
AcceptFails ==
    /\ server = "up" /\ Room
    /\ server' = "killed"
    /\ UNCHANGED <<threadVars, clientVars, inbox, reply, link>>

Dispatch(message) ==
    CASE message[1] = "0" -> "lock" [] message[1] = "1" -> "bye" [] OTHER -> "close"

\* When the client is gone recv returns 0 or -1 and leaves the buffer as it was:
\* the message before this one, or the last reply, decides what happens.
Recv(c) ==
    /\ server = "up" /\ thread[c] = "recv"
    /\ inbox[c] # Blank \/ link[c] # "open"
    /\ buffer' = [buffer EXCEPT ![c] = IF inbox[c] = Blank THEN @ ELSE inbox[c]]
    /\ thread' = [thread EXCEPT ![c] = Dispatch(buffer'[c])]
    /\ inbox' = [inbox EXCEPT ![c] = Blank]
    /\ UNCHANGED <<server, query, mutex, log, clientVars, reply, link>>

MutFree(c) == TRUE
Free(c) == mutex = {}

Lock(c) ==
    /\ server = "up" /\ thread[c] = "lock" /\ Free(c)
    /\ mutex' = mutex \cup {c}
    /\ thread' = [thread EXCEPT ![c] = "evaluate"]
    /\ query' = [query EXCEPT ![c] = buffer[c][2]]
    /\ UNCHANGED <<server, buffer, log, clientVars, inbox, reply, link>>

\* A message to a client that is gone resets the connection; one on a connection
\* that has been reset ends the server with SIGPIPE.
Deliver(c, message) ==
    /\ reply' = IF link[c] = "open" THEN [reply EXCEPT ![c] = message] ELSE reply
    /\ link' \in IF link[c] = "closed" THEN {link, [link EXCEPT ![c] = "reset"]} ELSE {link}
    /\ server' = IF link[c] = "reset" THEN "killed" ELSE "up"

MutRefill(old, result) == old
Refill(old, result) == Reply(result)

MutAfter(result) == IF result = Invalid THEN "recv" ELSE "record"
After(result) == IF result = Invalid THEN "unlock" ELSE "record"

Evaluate(c) ==
    /\ server = "up" /\ thread[c] = "evaluate"
    /\ \E result \in Answers[query[c]] :
          /\ buffer' = [buffer EXCEPT ![c] = Refill(@, result)]
          /\ thread' = [thread EXCEPT ![c] = After(result)]
          /\ Deliver(c, Reply(result))
    /\ UNCHANGED <<query, mutex, log, clientVars, inbox>>

\* A record that cannot be written ends the server: fopen returns NULL.
MutEntry(c) == [query |-> asked[c], answer |-> buffer[c][2]]
Entry(c) == [query |-> query[c], answer |-> buffer[c][2]]

Record(c) ==
    /\ server = "up" /\ thread[c] = "record"
    /\ \/ /\ log' = [log EXCEPT ![c] = Append(@, Entry(c))]
          /\ thread' = [thread EXCEPT ![c] = "unlock"]
          /\ UNCHANGED server
       \/ server' = "killed" /\ UNCHANGED <<log, thread>>
    /\ UNCHANGED <<buffer, query, mutex, clientVars, inbox, reply, link>>

Unlock(c) ==
    /\ server = "up" /\ thread[c] = "unlock"
    /\ mutex' = mutex \ {c}
    /\ thread' = [thread EXCEPT ![c] = "recv"]
    /\ UNCHANGED <<server, buffer, query, log, clientVars, inbox, reply, link>>

Farewell(c) ==
    /\ server = "up" /\ thread[c] = "bye"
    /\ Deliver(c, Goodbye)
    /\ buffer' = [buffer EXCEPT ![c] = Goodbye]
    /\ thread' = [thread EXCEPT ![c] = "close"]
    /\ UNCHANGED <<query, mutex, log, clientVars, inbox>>

Close(c) ==
    /\ server = "up" /\ thread[c] = "close"
    /\ thread' = [thread EXCEPT ![c] = "ended"]
    /\ UNCHANGED <<server, buffer, query, mutex, log, clientVars, inbox, reply, link>>

\* main joins its threads and returns.
Return ==
    /\ server = "up" /\ ~Room /\ \A c \in Accepted : thread[c] = "ended"
    /\ server' = "returned"
    /\ UNCHANGED <<threadVars, clientVars, inbox, reply, link>>

Thread(c) == Recv(c) \/ Lock(c) \/ Evaluate(c) \/ Record(c) \/ Unlock(c) \/ Farewell(c) \/ Close(c)

User(c) == Connect(c) \/ Query(c) \/ SayBye(c) \/ Kill(c)

Next ==
    \/ Setup \/ AcceptFails \/ Return
    \/ \E c \in Clients : User(c) \/ Receive(c) \/ Accept(c) \/ Thread(c)

\* The programs run; nothing makes a user type.  The queries being finite, a
\* thread that waits for the mutex is not overtaken for ever.
Spec ==
    /\ Init /\ [][Next]_vars
    /\ WF_vars(Return)
    /\ \A c \in Clients : WF_vars(Receive(c)) /\ WF_vars(Accept(c)) /\ WF_vars(Thread(c))
-----------------------------------------------------------------------------
AllAnswers == UNION {Answers[q] : q \in Queries}
Entries == [query : Queries, answer : AllAnswers \ {Invalid}]
Places == {"none", "recv", "lock", "evaluate", "record", "unlock", "bye", "close", "ended"}
Messages == {"", "0", "1", "B"} \X (Queries \cup AllAnswers \cup {<< >>})

\* An expression with the query it is written as: the tree, and its postfix.
Space == " "
Number(literal) == << <<"number", literal>>, Append(literal, Space) >>
Combined(op, a, b) == << <<op, a[1], b[1]>>, a[2] \o b[2] \o <<op>> >>
Spaced(e) == << e[1], Append(e[2], Space) >>

\* The expressions of a depth, of whatever shape, and with or without a space after
\* each operator; after each number there is one.
Written[depth \in 0 .. MaxDepth] ==
    IF depth = 0 THEN {Number(literal) : literal \in Literals}
    ELSE LET less == Written[depth - 1]
             more == {Combined(op, a, b) : op \in Operators, a \in less, b \in less}
         IN  less \cup more \cup {Spaced(e) : e \in more}

IsLiteral(l) ==
    /\ l \in Seq(Digits \cup {"."}) /\ l # << >> /\ l[1] \in Digits
    /\ \A i, j \in DOMAIN l : l[i] = "." /\ l[j] = "." => i = j

ASSUME WrittenAssumption == MaxDepth \in Nat /\ \A l \in Literals : IsLiteral(l)

\* Types: what each side can hold, and that the file holds answers only.
TypeOK ==
    /\ server \in {"starting", "up", "killed", "returned"}
    /\ thread \in [Clients -> Places]
    /\ buffer \in [Clients -> Messages]
    /\ query \in [Clients -> Queries \cup {<< >>}]
    /\ mutex \subseteq Clients
    /\ log \in [Clients -> Seq(Entries)]
    /\ menu \in [Clients -> {"start", "prompt", "await", "leave", "gone"}]
    /\ asked \in [Clients -> Queries \cup {<< >>}]
    /\ sent \in [Clients -> Nat]
    /\ inbox \in [Clients -> Messages] /\ reply \in [Clients -> Messages]
    /\ link \in [Clients -> {"none", "open", "closed", "reset"}]

\* The file is open in one thread at a time, and the thread that has the mutex is
\* between lock and unlock, whichever way it leaves the evaluation.
RecordsInTurn ==
    /\ mutex = {c \in Clients : thread[c] \in {"evaluate", "record", "unlock"}}
    /\ \A c, d \in mutex : c = d

\* Each expression, however nested, is the one outcome of its postfix.
Expressions == Written[MaxDepth]
EvaluatorCorrect == \A e \in Expressions : Outcomes(e[2]) = {e[1]}

Posed == {e \in Expressions : e[2] \in Queries}

\* The answer that a client prints for an expression written in postfix is the
\* value of that expression, and that of the query it asked: however many
\* operators it has, in which order the threads run, and whatever was in the
\* buffers before (lines 55-127).
AnswersCorrect ==
    /\ EvaluatorCorrect
    /\ \A c \in Clients : \A e \in Posed :
           asked[c] = e[2] /\ answer[c] # NoAnswer => answer[c] = e[1]

\* A query with more or fewer operands than its operators take is no expression.
Operands(q) == {i \in DOMAIN q : q[i] \in Digits /\ (i = 1 \/ q[i - 1] \notin Digits \cup {"."})}
Fits(q) == Cardinality(Operands(q)) = Cardinality({i \in DOMAIN q : q[i] \in Operators}) + 1

\* problem3.c:112, "Invalid postfix expression!!": that is what a client is told of
\* such a query, and not a number.  The code does not keep this of queries with too
\* few operands.
InvalidRefused ==
    \A c \in Clients : asked[c] # << >> /\ answer[c] # NoAnswer =>
        Fits(asked[c]) \/ answer[c] = Invalid

\* What the file says of a client is what the client was told, though the record is
\* made when the buffer holds the answer and the client may have asked again (lines
\* 49-50 and 121-126): each record is an answer to its query, and once the thread is
\* done with a query, the answer printed, if it is one, is in the client's last record.
RecordFollowsAnswer ==
    \A c \in Clients :
        /\ \A i \in DOMAIN log[c] : log[c][i].answer \in Answers[log[c][i].query]
        /\ /\ server = "up" /\ menu[c] = "prompt" /\ thread[c] \in {"recv", "unlock"}
           /\ answer[c] \notin {NoAnswer, Invalid}
           => log[c] # << >> /\ Last(log[c]) = [query |-> asked[c], answer |-> answer[c]]

\* No query is carried out twice, not even by a disconnect that finds it still in
\* the buffer (line 26 and 28): a client has no more records than queries.
EvaluatedOnce == \A c \in Clients : Len(log[c]) <= sent[c]

\* A client that the server has accepted does not wait for ever: the mutex comes to
\* it whatever the other clients ask, and however they end; and the thread of a
\* client that is gone ends, at whatever point it was killed.
EveryoneServed ==
    \A c \in Clients :
        /\ thread[c] # "none" /\ menu[c] \in {"await", "leave"} ~> menu[c] \in {"prompt", "gone"}
        /\ thread[c] # "none" /\ menu[c] = "gone" ~> thread[c] = "ended" \/ server # "up"
=============================================================================
