--------------------------- MODULE CalculatorProofs ---------------------------
(***************************************************************************)
(* Types, the mutex, the record file and the answers of Calculator for any *)
(* clients and queries.  That no query is carried out twice needs to know  *)
(* where each query sent may still be (Accounted), and that the buffer a   *)
(* disconnect leaves behind never holds one.  That the records follow the  *)
(* answers needs every place a query and its answer pass through between a *)
(* client and the file (Follows).  That the answers are right is shown of  *)
(* the evaluator on its own, by induction on the depth of an expression.   *)
(***************************************************************************)
EXTENDS Calculator, FiniteSetTheorems, TLAPS

Critical == {"evaluate", "record", "unlock"}

\* A request in the inbox or in the buffer is a query; the buffer holds one just
\* until it is evaluated; and what goes into the file is a query with its answer.
Requests(c) ==
    /\ inbox[c][1] = "0" => inbox[c][2] \in Queries
    /\ buffer[c][1] = "0" => buffer[c][2] \in Queries /\ thread[c] \in {"lock", "evaluate"}
    /\ thread[c] = "lock" => buffer[c][1] = "0"
    /\ thread[c] \in {"evaluate", "record"} => query[c] \in Queries
    /\ thread[c] = "record" => buffer[c][2] \in AllAnswers \ {Invalid}

Underway(c) == IF inbox[c][1] = "0" THEN 1 ELSE 0
InThread(c) == IF thread[c] \in {"lock", "evaluate", "record"} THEN 1 ELSE 0
Accounted(c) == Len(log[c]) + Underway(c) + InThread(c) <= sent[c]

Sound(c) == Requests(c) /\ Accounted(c)

IInv == TypeOK /\ RecordsInTurn /\ \A c \in Clients : Sound(c)

\* What one client's step leaves alone stays sound.
LEMMA SoundKept ==
    ASSUME NEW d \in Clients, Sound(d),
           inbox'[d] = inbox[d], buffer'[d] = buffer[d], thread'[d] = thread[d],
           query'[d] = query[d], log'[d] = log[d], sent'[d] = sent[d]
    PROVE  Sound(d)'
PROOF BY DEF Sound, Requests, Accounted, Underway, InThread

\* A thread that neither enters nor leaves the critical section leaves the mutex.
LEMMA TurnKept ==
    ASSUME RecordsInTurn, mutex' = mutex,
           \A d \in Clients : thread'[d] \in Critical <=> thread[d] \in Critical
    PROVE  RecordsInTurn'
PROOF BY DEF RecordsInTurn, Critical

\* A message is a first character and a body.
LEMMA FirstPart == \A m \in Messages : m[1] \in {"", "0", "1", "B"}
PROOF BY DEF Messages

\* The parts of the messages that carry nothing.
LEMMA FixedMessages ==
    /\ Blank \in Messages /\ Bye \in Messages /\ Goodbye \in Messages
PROOF BY DEF Messages, Blank, Bye, Goodbye

\* None of the messages that carry nothing is a request.
LEMMA FixedFirst == Blank[1] = "" /\ Bye[1] = "1" /\ Goodbye[1] = "B"
PROOF BY DEF Blank, Bye, Goodbye

\* A query is sent in a message, and so is an answer.
LEMMA AskMessage == \A q \in Queries : Ask(q) \in Messages
PROOF BY DEF Ask, Messages

\* A request starts with 0 and carries the query.
LEMMA AskParts == \A q : Ask(q)[1] = "0" /\ Ask(q)[2] = q
PROOF BY DEF Ask

\* An answer goes into a message.
LEMMA ReplyMessage == \A a \in AllAnswers : Reply(a) \in Messages
PROOF BY DEF Reply, Messages

\* An answer starts with 1, as a farewell of the client does.
LEMMA ReplyParts == \A a : Reply(a)[1] = "1" /\ Reply(a)[2] = a
PROOF BY DEF Reply

\* The invariant holds before the server is set up.
LEMMA InitInv == Init => IInv
PROOF
<1> SUFFICES ASSUME Init PROVE IInv
  OBVIOUS
<1>1. TypeOK
  BY FixedMessages DEF Init, TypeOK, Places, NoAnswer
<1>2. RecordsInTurn
  BY DEF Init, RecordsInTurn
<1>3. \A c \in Clients : Sound(c)
  <2> SUFFICES ASSUME NEW c \in Clients PROVE Sound(c)
    OBVIOUS
  <2>1. inbox[c][1] = "" /\ buffer[c][1] = ""
    BY FixedFirst DEF Init
  <2>2. thread[c] = "none" /\ sent[c] = 0 /\ Len(log[c]) = 0
    BY DEF Init
  <2>3. Requests(c)
    BY <2>1, <2>2 DEF Requests
  <2>4. Underway(c) = 0 /\ InThread(c) = 0
    BY <2>1, <2>2 DEF Underway, InThread
  <2>5. Accounted(c)
    BY <2>2, <2>4 DEF Accounted
  <2> QED BY <2>3, <2>5 DEF Sound
<1> QED BY <1>1, <1>2, <1>3 DEF IInv

-----------------------------------------------------------------------------
\* Steps that touch neither a thread nor a message to one.
LEMMA QuietInv ==
    ASSUME IInv, UNCHANGED <<threadVars, inbox, sent>>, TypeOK'
    PROVE  IInv'
PROOF
<1>1. RecordsInTurn'
  BY DEF IInv, RecordsInTurn, threadVars
<1>2. \A d \in Clients : Sound(d)'
  BY SoundKept DEF IInv, threadVars
<1> QED BY <1>1, <1>2 DEF IInv

\* Setting up, failing and returning change the server's fate alone.
LEMMA MainInv == IInv /\ (Setup \/ AcceptFails \/ Return) => IInv'
PROOF
<1> SUFFICES ASSUME IInv, Setup \/ AcceptFails \/ Return PROVE IInv'
  OBVIOUS
<1>1. TypeOK'
  BY DEF Setup, AcceptFails, Return, IInv, TypeOK, threadVars, clientVars
<1> QED BY <1>1, QuietInv DEF Setup, AcceptFails, Return, clientVars

\* A client that connects, takes a reply or is killed sends nothing.
LEMMA ListenInv == ASSUME IInv, NEW c \in Clients, Connect(c) \/ Receive(c) \/ Kill(c) PROVE IInv'
PROOF
<1>1. TypeOK' /\ UNCHANGED <<threadVars, inbox, sent>>
  <2>1. CASE Connect(c)
    BY <2>1 DEF Connect, IInv, TypeOK, threadVars
  <2>2. CASE Receive(c)
    BY <2>2, FixedMessages DEF Receive, IInv, TypeOK, threadVars
  <2>3. CASE Kill(c)
    BY <2>3, FixedMessages DEF Kill, IInv, TypeOK, threadVars
  <2> QED BY <2>1, <2>2, <2>3
<1> QED BY <1>1, QuietInv

\* A new query is one more sent and at most one more under way.
LEMMA QueryInv == ASSUME IInv, NEW c \in Clients, Query(c) PROVE IInv'
PROOF
<1>1. PICK q \in Queries : asked' = [asked EXCEPT ![c] = q] /\ Send(c, Ask(q), "await")
  BY DEF Query
<1>2. /\ sent' = [sent EXCEPT ![c] = @ + 1] /\ answer' = [answer EXCEPT ![c] = NoAnswer]
      /\ UNCHANGED <<server, thread, buffer, query, mutex, log, reply, link>>
  BY DEF Query, threadVars
<1>3. /\ inbox' \in {inbox, [inbox EXCEPT ![c] = Ask(q)]}
      /\ menu' \in {[menu EXCEPT ![c] = "await"], [menu EXCEPT ![c] = "gone"]}
  BY <1>1 DEF Send
<1>4. TypeOK'
  <2>1. Ask(q) \in Messages
    BY AskMessage
  <2>2. inbox' \in [Clients -> Messages]
    BY <1>3, <2>1 DEF IInv, TypeOK
  <2>3. menu' \in [Clients -> {"start", "prompt", "await", "leave", "gone"}]
    BY <1>3 DEF IInv, TypeOK
  <2>4. sent' \in [Clients -> Nat]
    BY <1>2 DEF IInv, TypeOK
  <2>5. asked' \in [Clients -> Queries \cup {<< >>}]
    BY <1>1 DEF IInv, TypeOK
  <2> QED BY <1>2, <2>2, <2>3, <2>4, <2>5 DEF IInv, TypeOK
<1>5. RecordsInTurn'
  BY <1>2 DEF IInv, RecordsInTurn
<1>6. Sound(c)'
  <2>1. Requests(c)'
    BY <1>2, <1>3, AskParts DEF IInv, TypeOK, Sound, Requests
  <2>2. Underway(c) \in {0, 1} /\ Underway(c)' \in {0, 1} /\ InThread(c) \in {0, 1}
    BY DEF Underway, InThread
  <2>3. /\ sent[c] \in Nat /\ sent'[c] = sent[c] + 1
        /\ Len(log[c]) \in Nat /\ log'[c] = log[c] /\ InThread(c)' = InThread(c)
    BY <1>2 DEF IInv, TypeOK, InThread
  <2>4. Len(log[c]) + Underway(c) + InThread(c) <= sent[c]
    BY DEF IInv, Sound, Accounted
  <2>5. Len(log[c]) + Underway(c)' + InThread(c) <= sent[c] + 1
    BY <2>2, <2>3, <2>4
  <2> QED BY <2>1, <2>3, <2>5 DEF Sound, Accounted
<1>7. \A d \in Clients : d # c => Sound(d)'
  BY <1>2, <1>3, SoundKept DEF IInv, TypeOK
<1> QED BY <1>4, <1>5, <1>6, <1>7 DEF IInv

\* A bye replaces what is under way, if anything is.
LEMMA SayByeInv == ASSUME IInv, NEW c \in Clients, SayBye(c) PROVE IInv'
PROOF
<1>1. UNCHANGED <<server, thread, buffer, query, mutex, log, asked, answer, sent, reply, link>>
  BY DEF SayBye, threadVars
<1>2. /\ inbox' \in {inbox, [inbox EXCEPT ![c] = Bye]}
      /\ menu' \in {[menu EXCEPT ![c] = "leave"], [menu EXCEPT ![c] = "gone"]}
  BY DEF SayBye, Send
<1>3. TypeOK'
  BY <1>1, <1>2, FixedMessages DEF IInv, TypeOK
<1>4. RecordsInTurn'
  BY <1>1 DEF IInv, RecordsInTurn
<1>5. Sound(c)'
  <2>1. Requests(c)'
    BY <1>1, <1>2, FixedFirst DEF IInv, TypeOK, Sound, Requests
  <2>2. Underway(c)' <= Underway(c) /\ Underway(c) \in Nat /\ Underway(c)' \in Nat
    <3>1. inbox'[c] = inbox[c] \/ inbox'[c] = Bye
      BY <1>2 DEF IInv, TypeOK
    <3>2. inbox'[c][1] = "0" => inbox[c][1] = "0"
      BY <3>1, FixedFirst
    <3> QED BY <3>2 DEF Underway
  <2>3. /\ sent[c] \in Nat /\ sent'[c] = sent[c] /\ InThread(c) \in Nat
        /\ Len(log[c]) \in Nat /\ log'[c] = log[c] /\ InThread(c)' = InThread(c)
    BY <1>1 DEF IInv, TypeOK, InThread
  <2>4. Len(log[c]) + Underway(c) + InThread(c) <= sent[c]
    BY DEF IInv, Sound, Accounted
  <2>5. Len(log[c]) + Underway(c)' + InThread(c) <= sent[c]
    BY <2>2, <2>3, <2>4
  <2> QED BY <2>1, <2>3, <2>5 DEF Sound, Accounted
<1>6. \A d \in Clients : d # c => Sound(d)'
  BY <1>1, <1>2, SoundKept DEF IInv, TypeOK
<1> QED BY <1>3, <1>4, <1>5, <1>6 DEF IInv

-----------------------------------------------------------------------------
\* What Deliver leaves behind is of the right types.
LEMMA DeliverTypes ==
    ASSUME TypeOK, NEW c \in Clients, NEW m \in Messages, Deliver(c, m)
    PROVE  /\ reply' \in [Clients -> Messages]
           /\ link' \in [Clients -> {"none", "open", "closed", "reset"}]
           /\ server' \in {"starting", "up", "killed", "returned"}
PROOF
<1>1. reply' \in [Clients -> Messages]
  BY DEF Deliver, TypeOK
<1>2. link' \in [Clients -> {"none", "open", "closed", "reset"}]
  BY DEF Deliver, TypeOK
<1>3. server' \in {"starting", "up", "killed", "returned"}
  BY DEF Deliver
<1> QED BY <1>1, <1>2, <1>3

\* The numbers Accounted adds.
LEMMA Counts ==
    ASSUME TypeOK, NEW c \in Clients
    PROVE  /\ Len(log[c]) \in Nat /\ sent[c] \in Nat
           /\ Underway(c) \in Nat /\ InThread(c) \in Nat
PROOF BY DEF TypeOK, Underway, InThread

\* An accepted client has nothing in its thread yet.
LEMMA AcceptInv == ASSUME IInv, NEW c \in Clients, Accept(c) PROVE IInv'
PROOF
<1>1. /\ thread' = [thread EXCEPT ![c] = "recv"] /\ thread[c] = "none"
      /\ UNCHANGED <<server, buffer, query, mutex, log, menu, asked, answer, sent,
                     inbox, reply, link>>
  BY DEF Accept, clientVars
<1>2. TypeOK'
  BY <1>1 DEF IInv, TypeOK, Places
<1>3. thread'[c] = "recv" /\ \A d \in Clients : d # c => thread'[d] = thread[d]
  BY <1>1 DEF IInv, TypeOK
<1>4. RecordsInTurn'
  BY <1>1, <1>3, TurnKept DEF IInv, Critical
<1>5. \A d \in Clients : Sound(d)'
  <2> SUFFICES ASSUME NEW d \in Clients PROVE Sound(d)'
    OBVIOUS
  <2>1. CASE d # c
    BY <1>1, <1>3, <2>1, SoundKept DEF IInv
  <2>2. CASE d = c
    BY <1>1, <1>3, <2>2 DEF IInv, Sound, Requests, Accounted, Underway, InThread
  <2> QED BY <2>1, <2>2
<1> QED BY <1>2, <1>4, <1>5 DEF IInv

\* A request that arrives moves from the inbox to the thread; what a disconnect
\* finds in the buffer is no request, for the thread has evaluated the last one.
LEMMA RecvInv == ASSUME IInv, NEW c \in Clients, Recv(c) PROVE IInv'
PROOF
<1> DEFINE b == IF inbox[c] = Blank THEN buffer[c] ELSE inbox[c]
<1>1. /\ thread[c] = "recv" /\ buffer' = [buffer EXCEPT ![c] = b]
      /\ thread' = [thread EXCEPT ![c] = Dispatch(buffer'[c])]
      /\ inbox' = [inbox EXCEPT ![c] = Blank]
      /\ UNCHANGED <<server, query, mutex, log, menu, asked, answer, sent, reply, link>>
  BY DEF Recv, clientVars
<1>2. b \in Messages /\ buffer'[c] = b
  BY <1>1 DEF IInv, TypeOK
<1>3. /\ b[1] = "0" => Dispatch(b) = "lock"
      /\ b[1] # "0" => Dispatch(b) \in {"bye", "close"}
  BY DEF Dispatch
<1>4. Dispatch(b) \in {"lock", "bye", "close"}
  BY <1>3
<1>5. /\ thread'[c] = Dispatch(b) /\ thread'[c] \notin Critical /\ thread[c] \notin Critical
      /\ \A d \in Clients : d # c => thread'[d] = thread[d]
  BY <1>1, <1>2, <1>4 DEF IInv, TypeOK, Critical
<1>6. TypeOK'
  <2>1. buffer' \in [Clients -> Messages] /\ inbox' \in [Clients -> Messages]
    BY <1>1, <1>2, FixedMessages DEF IInv, TypeOK
  <2>2. thread' \in [Clients -> Places]
    BY <1>1, <1>2, <1>4 DEF IInv, TypeOK, Places
  <2> QED BY <1>1, <2>1, <2>2 DEF IInv, TypeOK
<1>7. RecordsInTurn'
  BY <1>1, <1>5, TurnKept DEF IInv
<1>8. Sound(c)'
  <2>1. inbox'[c][1] = "" /\ (b[1] = "0" => inbox[c][1] = "0" /\ b = inbox[c])
    BY <1>1, FixedFirst DEF IInv, TypeOK, Sound, Requests
  <2>2. Requests(c)'
    BY <1>2, <1>3, <1>5, <2>1 DEF IInv, Sound, Requests
  <2>3. /\ InThread(c) = 0 /\ Underway(c)' = 0
        /\ InThread(c)' = IF b[1] = "0" THEN 1 ELSE 0
    BY <1>1, <1>3, <1>5, <2>1 DEF InThread, Underway
  <2>4. InThread(c)' = 0 \/ (InThread(c)' = 1 /\ Underway(c) = 1)
    BY <2>1, <2>3 DEF Underway
  <2>5. Len(log[c]) + Underway(c) + InThread(c) <= sent[c]
    BY DEF IInv, Sound, Accounted
  <2> HIDE DEF b
  <2>6. Len(log[c]) + Underway(c)' + InThread(c)' <= sent[c]
    <3>1. Len(log[c]) \in Nat /\ sent[c] \in Nat /\ Underway(c) \in Nat
      BY Counts DEF IInv
    <3>2. InThread(c) = 0 /\ Underway(c)' = 0
      BY <2>3
    <3>3. CASE InThread(c)' = 0
      BY <2>5, <3>1, <3>2, <3>3
    <3>4. CASE InThread(c)' = 1 /\ Underway(c) = 1
      BY <2>5, <3>1, <3>2, <3>4
    <3> QED BY <2>4, <3>3, <3>4
  <2> QED BY <1>1, <2>2, <2>6 DEF Sound, Accounted
<1>9. \A d \in Clients : d # c => Sound(d)'
  BY <1>1, <1>5, SoundKept DEF IInv, TypeOK
<1> QED BY <1>6, <1>7, <1>8, <1>9 DEF IInv

\* Lock hands the request over from the buffer to query, and takes the mutex.
LEMMA LockInv == ASSUME IInv, NEW c \in Clients, Lock(c) PROVE IInv'
PROOF
<1>1. /\ thread[c] = "lock" /\ mutex = {} /\ mutex' = mutex \cup {c}
      /\ thread' = [thread EXCEPT ![c] = "evaluate"]
      /\ query' = [query EXCEPT ![c] = buffer[c][2]]
      /\ UNCHANGED <<server, buffer, log, menu, asked, answer, sent, inbox, reply, link>>
  BY DEF Lock, Free, clientVars
<1>2. buffer[c][2] \in Queries
  BY <1>1 DEF IInv, Sound, Requests
<1>3. /\ thread'[c] = "evaluate" /\ query'[c] = buffer[c][2]
      /\ \A d \in Clients : d # c => thread'[d] = thread[d] /\ query'[d] = query[d]
  BY <1>1 DEF IInv, TypeOK
<1>4. TypeOK'
  <2>1. thread' \in [Clients -> Places]
    BY <1>1 DEF IInv, TypeOK, Places
  <2>2. query' \in [Clients -> Queries \cup {<< >>}]
    BY <1>1, <1>2 DEF IInv, TypeOK
  <2> QED BY <1>1, <2>1, <2>2 DEF IInv, TypeOK
<1>5. RecordsInTurn'
  <2>1. mutex' = {c} /\ \A d \in Clients : thread[d] \notin {"evaluate", "record", "unlock"}
    BY <1>1 DEF IInv, RecordsInTurn
  <2> QED BY <1>3, <2>1 DEF RecordsInTurn
<1>6. Sound(c)'
  <2>1. Requests(c)'
    BY <1>1, <1>2, <1>3 DEF IInv, Sound, Requests
  <2>2. InThread(c) = 1 /\ InThread(c)' = 1
    BY <1>1, <1>3 DEF InThread
  <2>3. Accounted(c)'
    BY <1>1, <2>2 DEF IInv, Sound, Accounted, Underway
  <2> QED BY <2>1, <2>3 DEF Sound
<1>7. \A d \in Clients : d # c => Sound(d)'
  BY <1>1, <1>3, SoundKept DEF IInv
<1> QED BY <1>4, <1>5, <1>6, <1>7 DEF IInv

\* The answer takes the place of the request in the buffer.
LEMMA EvaluateInv == ASSUME IInv, NEW c \in Clients, Evaluate(c) PROVE IInv'
PROOF
<1>1. PICK result \in Answers[query[c]] :
         /\ buffer' = [buffer EXCEPT ![c] = Refill(@, result)]
         /\ thread' = [thread EXCEPT ![c] = After(result)]
         /\ Deliver(c, Reply(result))
  BY DEF Evaluate
<1>2. /\ thread[c] = "evaluate"
      /\ UNCHANGED <<query, mutex, log, menu, asked, answer, sent, inbox>>
  BY DEF Evaluate, clientVars
<1>3. query[c] \in Queries /\ result \in AllAnswers /\ Reply(result) \in Messages
  BY <1>1, <1>2, ReplyMessage DEF IInv, Sound, Requests, AllAnswers
<1>4. /\ After(result) \in {"unlock", "record"}
      /\ After(result) = "record" => result # Invalid
  BY DEF After
<1>5. /\ thread'[c] = After(result) /\ buffer'[c] = Reply(result)
      /\ \A d \in Clients : d # c => thread'[d] = thread[d] /\ buffer'[d] = buffer[d]
  BY <1>1 DEF IInv, TypeOK, Refill
<1>6. TypeOK'
  <2>1. thread' \in [Clients -> Places]
    BY <1>1, <1>4 DEF IInv, TypeOK, Places
  <2>2. buffer' \in [Clients -> Messages]
    BY <1>1, <1>3 DEF IInv, TypeOK, Refill
  <2> QED BY <1>1, <1>2, <1>3, <2>1, <2>2, DeliverTypes DEF IInv, TypeOK
<1>7. RecordsInTurn'
  BY <1>2, <1>4, <1>5, TurnKept DEF IInv, Critical
<1>8. Sound(c)'
  <2>1. buffer'[c][1] = "1" /\ buffer'[c][2] = result
    BY <1>5, ReplyParts
  <2>2. Requests(c)'
    BY <1>2, <1>3, <1>4, <1>5, <2>1 DEF IInv, Sound, Requests
  <2>3. InThread(c) = 1 /\ InThread(c)' \in {0, 1}
    BY <1>2 DEF InThread
  <2>4. Underway(c)' = Underway(c) /\ log'[c] = log[c] /\ sent'[c] = sent[c]
    BY <1>2 DEF Underway
  <2>5. Len(log[c]) + Underway(c) + InThread(c) <= sent[c]
    BY DEF IInv, Sound, Accounted
  <2>6. Len(log[c]) + Underway(c) + InThread(c)' <= sent[c]
    BY <2>3, <2>5, Counts DEF IInv
  <2> QED BY <2>2, <2>4, <2>6 DEF Sound, Accounted
<1>9. \A d \in Clients : d # c => Sound(d)'
  BY <1>2, <1>5, SoundKept DEF IInv
<1> QED BY <1>6, <1>7, <1>8, <1>9 DEF IInv

\* What enters the file is the query that was evaluated, with its answer.
LEMMA RecordInv == ASSUME IInv, NEW c \in Clients, Record(c) PROVE IInv'
PROOF
<1>1. /\ thread[c] = "record"
      /\ UNCHANGED <<buffer, query, mutex, menu, asked, answer, sent, inbox, reply, link>>
  BY DEF Record, clientVars
<1>2. CASE server' = "killed" /\ UNCHANGED <<log, thread>>
  <2>1. TypeOK'
    BY <1>1, <1>2 DEF IInv, TypeOK
  <2> QED BY <1>1, <1>2, <2>1, QuietInv DEF threadVars
<1>3. CASE /\ log' = [log EXCEPT ![c] = Append(@, Entry(c))]
           /\ thread' = [thread EXCEPT ![c] = "unlock"]
           /\ UNCHANGED server
  <2>1. Entry(c) \in Entries
    BY <1>1 DEF IInv, Sound, Requests, Entry, Entries
  <2>2. log[c] \in Seq(Entries) /\ log'[c] = Append(log[c], Entry(c)) /\ thread'[c] = "unlock"
    BY <1>3 DEF IInv, TypeOK
  <2>3. log'[c] \in Seq(Entries) /\ Len(log'[c]) = Len(log[c]) + 1
    BY <2>1, <2>2
  <2>4. \A d \in Clients : d # c => thread'[d] = thread[d] /\ log'[d] = log[d]
    BY <1>3 DEF IInv, TypeOK
  <2>5. TypeOK'
    <3>1. thread' \in [Clients -> Places]
      BY <1>3 DEF IInv, TypeOK, Places
    <3>2. log' \in [Clients -> Seq(Entries)]
      BY <1>3, <2>2, <2>3 DEF IInv, TypeOK
    <3> QED BY <1>1, <1>3, <3>1, <3>2 DEF IInv, TypeOK
  <2>6. RecordsInTurn'
    BY <1>1, <2>2, <2>4, TurnKept DEF IInv, Critical
  <2>7. Sound(c)'
    <3>1. Requests(c)'
      BY <1>1, <2>2 DEF IInv, Sound, Requests
    <3>2. InThread(c) = 1 /\ InThread(c)' = 0
      BY <1>1, <2>2 DEF InThread
    <3>3. Underway(c)' = Underway(c) /\ sent'[c] = sent[c]
      BY <1>1 DEF Underway
    <3>4. Len(log[c]) + Underway(c) + InThread(c) <= sent[c]
      BY DEF IInv, Sound, Accounted
    <3>5. Len(log'[c]) + Underway(c) + 0 <= sent[c]
      BY <2>3, <3>2, <3>4, Counts DEF IInv
    <3> QED BY <3>1, <3>2, <3>3, <3>5 DEF Sound, Accounted
  <2>8. \A d \in Clients : d # c => Sound(d)'
    BY <1>1, <2>4, SoundKept DEF IInv
  <2> QED BY <2>5, <2>6, <2>7, <2>8 DEF IInv
<1> QED BY <1>2, <1>3 DEF Record

\* Unlock takes the thread out of the critical section and gives the mutex back.
LEMMA UnlockInv == ASSUME IInv, NEW c \in Clients, Unlock(c) PROVE IInv'
PROOF
<1>1. /\ thread[c] = "unlock" /\ mutex' = mutex \ {c}
      /\ thread' = [thread EXCEPT ![c] = "recv"]
      /\ UNCHANGED <<server, buffer, query, log, menu, asked, answer, sent, inbox, reply, link>>
  BY DEF Unlock, clientVars
<1>2. /\ thread'[c] = "recv"
      /\ \A d \in Clients : d # c => thread'[d] = thread[d]
  BY <1>1 DEF IInv, TypeOK
<1>3. TypeOK'
  <2>1. thread' \in [Clients -> Places]
    BY <1>1 DEF IInv, TypeOK, Places
  <2> QED BY <1>1, <2>1 DEF IInv, TypeOK
<1>4. RecordsInTurn'
  BY <1>1, <1>2 DEF IInv, RecordsInTurn
<1>5. Sound(c)'
  <2>1. Requests(c)'
    BY <1>1, <1>2 DEF IInv, Sound, Requests
  <2>2. InThread(c) = 0 /\ InThread(c)' = 0
    BY <1>1, <1>2 DEF InThread
  <2>3. Accounted(c)'
    BY <1>1, <2>2 DEF IInv, Sound, Accounted, Underway
  <2> QED BY <2>1, <2>3 DEF Sound
<1>6. \A d \in Clients : d # c => Sound(d)'
  BY <1>1, <1>2, SoundKept DEF IInv
<1> QED BY <1>3, <1>4, <1>5, <1>6 DEF IInv

\* The farewell is no request either.
LEMMA FarewellInv == ASSUME IInv, NEW c \in Clients, Farewell(c) PROVE IInv'
PROOF
<1>1. /\ thread[c] = "bye" /\ Deliver(c, Goodbye)
      /\ buffer' = [buffer EXCEPT ![c] = Goodbye]
      /\ thread' = [thread EXCEPT ![c] = "close"]
      /\ UNCHANGED <<query, mutex, log, menu, asked, answer, sent, inbox>>
  BY DEF Farewell, clientVars
<1>2. /\ thread'[c] = "close" /\ buffer'[c] = Goodbye
      /\ \A d \in Clients : d # c => thread'[d] = thread[d] /\ buffer'[d] = buffer[d]
  BY <1>1 DEF IInv, TypeOK
<1>3. TypeOK'
  <2>1. thread' \in [Clients -> Places]
    BY <1>1 DEF IInv, TypeOK, Places
  <2>2. buffer' \in [Clients -> Messages]
    BY <1>1, FixedMessages DEF IInv, TypeOK
  <2> QED BY <1>1, <2>1, <2>2, FixedMessages, DeliverTypes DEF IInv, TypeOK
<1>4. RecordsInTurn'
  BY <1>1, <1>2, TurnKept DEF IInv, Critical
<1>5. Sound(c)'
  <2>1. Requests(c)'
    BY <1>1, <1>2, FixedFirst DEF IInv, Sound, Requests
  <2>2. InThread(c) = 0 /\ InThread(c)' = 0
    BY <1>1, <1>2 DEF InThread
  <2>3. Accounted(c)'
    BY <1>1, <2>2 DEF IInv, Sound, Accounted, Underway
  <2> QED BY <2>1, <2>3 DEF Sound
<1>6. \A d \in Clients : d # c => Sound(d)'
  BY <1>1, <1>2, SoundKept DEF IInv
<1> QED BY <1>3, <1>4, <1>5, <1>6 DEF IInv

\* A thread that closes its connection has nothing left to do.
LEMMA CloseInv == ASSUME IInv, NEW c \in Clients, Close(c) PROVE IInv'
PROOF
<1>1. /\ thread[c] = "close" /\ thread' = [thread EXCEPT ![c] = "ended"]
      /\ UNCHANGED <<server, buffer, query, mutex, log, menu, asked, answer, sent,
                     inbox, reply, link>>
  BY DEF Close, clientVars
<1>2. /\ thread'[c] = "ended"
      /\ \A d \in Clients : d # c => thread'[d] = thread[d]
  BY <1>1 DEF IInv, TypeOK
<1>3. TypeOK'
  <2>1. thread' \in [Clients -> Places]
    BY <1>1 DEF IInv, TypeOK, Places
  <2> QED BY <1>1, <2>1 DEF IInv, TypeOK
<1>4. RecordsInTurn'
  BY <1>1, <1>2, TurnKept DEF IInv, Critical
<1>5. Sound(c)'
  <2>1. Requests(c)'
    BY <1>1, <1>2 DEF IInv, Sound, Requests
  <2>2. InThread(c) = 0 /\ InThread(c)' = 0
    BY <1>1, <1>2 DEF InThread
  <2>3. Accounted(c)'
    BY <1>1, <2>2 DEF IInv, Sound, Accounted, Underway
  <2> QED BY <2>1, <2>3 DEF Sound
<1>6. \A d \in Clients : d # c => Sound(d)'
  BY <1>1, <1>2, SoundKept DEF IInv
<1> QED BY <1>3, <1>4, <1>5, <1>6 DEF IInv

-----------------------------------------------------------------------------
\* Every step keeps the invariant.
LEMMA StepInv == IInv /\ [Next]_vars => IInv'
PROOF
<1> SUFFICES ASSUME IInv, [Next]_vars PROVE IInv'
  OBVIOUS
<1>1. CASE Setup \/ AcceptFails \/ Return
  BY <1>1, MainInv
<1>2. ASSUME NEW c \in Clients, User(c) \/ Receive(c) PROVE IInv'
  BY <1>2, ListenInv, QueryInv, SayByeInv DEF User
<1>3. ASSUME NEW c \in Clients, Accept(c) PROVE IInv'
  BY <1>3, AcceptInv
<1>4. ASSUME NEW c \in Clients, Thread(c) PROVE IInv'
  BY <1>4, RecvInv, LockInv, EvaluateInv, RecordInv, UnlockInv, FarewellInv, CloseInv DEF Thread
<1>5. CASE UNCHANGED vars
  <2>1. UNCHANGED <<threadVars, inbox, sent>> /\ TypeOK'
    BY <1>5 DEF vars, threadVars, IInv, TypeOK
  <2> QED BY <2>1, QuietInv
<1> QED BY <1>1, <1>2, <1>3, <1>4, <1>5 DEF Next

\* Whatever the clients do and however they end, the invariant holds.
THEOREM Invariance == Spec => []IInv
PROOF BY InitInv, StepInv, PTL DEF Spec

\* The server's and the clients' state is always of the types of TypeOK, and the
\* record file holds evaluated queries with answers of theirs that are no error.
THEOREM TypeCorrect == Spec => []TypeOK
PROOF
<1>1. IInv => TypeOK
  BY DEF IInv
<1> QED BY <1>1, Invariance, PTL

\* One thread at a time is between lock and unlock, and it is the one that has the
\* mutex (problem3.c:31, 50 and 129).
THEOREM OneWriter == Spec => []RecordsInTurn
PROOF
<1>1. IInv => RecordsInTurn
  BY DEF IInv
<1> QED BY <1>1, Invariance, PTL

\* No query is evaluated and recorded twice: a read that fails finds an answer or a
\* farewell in the buffer, never the query (problem3.c:26, 109-120).
THEOREM NoQueryTwice == Spec => []EvaluatedOnce
PROOF
<1>1. IInv => EvaluatedOnce
  <2> SUFFICES ASSUME IInv, NEW c \in Clients PROVE Len(log[c]) <= sent[c]
    BY DEF EvaluatedOnce
  <2>1. Len(log[c]) + Underway(c) + InThread(c) <= sent[c]
    BY DEF IInv, Sound, Accounted
  <2> QED BY <2>1, Counts DEF IInv
<1> QED BY <1>1, Invariance, PTL

-----------------------------------------------------------------------------
(* RecordFollowsAnswer: where the query and its answer are, at each moment *)
(* between the client that asks and the record of it.                      *)

\* Nobody has heard of a client that has not connected.
Untouched(c) ==
    /\ link[c] = "none" /\ thread[c] = "none"
    /\ inbox[c] = Blank /\ reply[c] = Blank /\ answer[c] = NoAnswer

\* Every answer, recorded, about to be recorded, on its way or printed, is one to
\* the query it goes with.
Honest(c) ==
    /\ \A i \in DOMAIN log[c] : log[c][i].answer \in Answers[log[c][i].query]
    /\ thread[c] = "record" => buffer[c][2] \in Answers[query[c]]
    /\ menu[c] = "start" => Untouched(c)
    /\ menu[c] = "prompt" => reply[c] = Blank
    /\ menu[c] = "await" =>
          asked[c] \in Queries /\ (reply[c] = Blank \/ reply[c][2] \in Answers[asked[c]])
    /\ answer[c] # NoAnswer => asked[c] \in Queries /\ answer[c] \in Answers[asked[c]]

\* The thread has sent this answer to the last query, and if it is one that goes
\* into the file it is about to go there, or has done so as the last.
Told(c, a) ==
    \/ a = Invalid /\ thread[c] \in {"unlock", "recv"}
    \/ thread[c] = "record" /\ query[c] = asked[c] /\ buffer[c][2] = a
    \/ /\ thread[c] \in {"unlock", "recv"} /\ log[c] # << >>
       /\ Last(log[c]) = [query |-> asked[c], answer |-> a]

Idle == {"none", "recv", "record", "unlock"}

AtPrompt(c) ==
    /\ inbox[c] = Blank /\ thread[c] \in Idle
    /\ answer[c] # NoAnswer => Told(c, answer[c])

\* A query asked is on its way, in the buffer, in query, or answered.
Coming(c) == inbox[c] = Ask(asked[c]) /\ reply[c] = Blank /\ thread[c] \in Idle
Arrived(c) ==
    /\ inbox[c] = Blank /\ reply[c] = Blank
    /\ thread[c] = "lock" /\ buffer[c] = Ask(asked[c])
AtWork(c) ==
    /\ inbox[c] = Blank /\ reply[c] = Blank
    /\ thread[c] = "evaluate" /\ query[c] = asked[c]
Answered(c) ==
    inbox[c] = Blank /\ \E a \in AllAnswers : reply[c] = Reply(a) /\ Told(c, a)

InStep(c) ==
    /\ menu[c] \in {"prompt", "await"} => link[c] = "open"
    /\ menu[c] = "prompt" => AtPrompt(c)
    /\ menu[c] = "await" => Coming(c) \/ Arrived(c) \/ AtWork(c) \/ Answered(c)

Follows(c) ==
    /\ Honest(c)
    /\ server = "starting" => menu[c] \in {"start", "gone"}
    /\ server = "up" => InStep(c)

FInv ==
    /\ IInv
    /\ answer \in [Clients -> AllAnswers \cup {NoAnswer}]
    /\ \A c \in Clients : Follows(c)

Unmoved(d) ==
    /\ thread'[d] = thread[d] /\ buffer'[d] = buffer[d] /\ query'[d] = query[d]
    /\ log'[d] = log[d] /\ menu'[d] = menu[d] /\ asked'[d] = asked[d]
    /\ answer'[d] = answer[d] /\ inbox'[d] = inbox[d] /\ reply'[d] = reply[d]
    /\ link'[d] = link[d]

\* A step of another client, or of the server's main, takes nothing back.
LEMMA FollowsKept ==
    ASSUME NEW d \in Clients, Follows(d), Unmoved(d),
           server' = server \/ server' \in {"killed", "returned"}
    PROVE  Follows(d)'
PROOF
<1>1. Honest(d)'
  <2>1. (Untouched(d) <=> Untouched(d)')
    BY DEF Unmoved, Untouched
  <2> QED BY <2>1 DEF Follows, Unmoved, Honest
<1>2. ASSUME InStep(d) PROVE InStep(d)'
  <2>1. \A a : Told(d, a) => Told(d, a)'
    BY DEF Unmoved, Told
  <2>2. AtPrompt(d) => AtPrompt(d)'
    BY <2>1 DEF Unmoved, AtPrompt
  <2>3. Answered(d) => Answered(d)'
    BY <2>1 DEF Unmoved, Answered
  <2> QED BY <1>2, <2>2, <2>3 DEF Unmoved, InStep, Coming, Arrived, AtWork
<1> QED BY <1>1, <1>2 DEF Follows, Unmoved

\* Nothing is asked before the server is set up.
LEMMA InitFollows == Init => FInv
PROOF
<1> SUFFICES ASSUME Init PROVE FInv
  OBVIOUS
<1>1. ASSUME NEW c \in Clients PROVE Follows(c)
  <2>1. /\ server = "starting" /\ menu[c] = "start" /\ thread[c] = "none"
        /\ answer[c] = NoAnswer /\ log[c] = << >>
    BY DEF Init
  <2>2. Untouched(c)
    BY DEF Init, Untouched
  <2>3. DOMAIN log[c] = {}
    BY <2>1
  <2>4. Honest(c)
    BY <2>1, <2>2, <2>3 DEF Honest
  <2> QED BY <2>1, <2>4 DEF Follows
<1> QED BY <1>1, InitInv DEF FInv, Init

\* Setting up, failing and returning: nobody has asked when the server comes up.
LEMMA MainFollows == ASSUME FInv, Setup \/ AcceptFails \/ Return PROVE \A d \in Clients : Follows(d)'
PROOF
<1> SUFFICES ASSUME NEW d \in Clients PROVE Follows(d)'
  OBVIOUS
<1>1. Unmoved(d)
  BY DEF Setup, AcceptFails, Return, threadVars, clientVars, Unmoved
<1>2. CASE AcceptFails \/ Return
  BY <1>1, <1>2, FollowsKept DEF AcceptFails, Return, FInv
<1>3. CASE Setup
  <2>1. CASE server' = "killed"
    BY <1>1, <2>1, FollowsKept DEF FInv
  <2>2. CASE server' = "up"
    <3>1. menu[d] \in {"start", "gone"} /\ menu'[d] = menu[d]
      BY <1>1, <1>3 DEF Setup, FInv, Follows, Unmoved
    <3>2. InStep(d)'
      BY <3>1 DEF InStep
    <3>3. Honest(d)'
      <4>1. Untouched(d) <=> Untouched(d)'
        BY <1>1 DEF Unmoved, Untouched
      <4> QED BY <1>1, <4>1 DEF FInv, Follows, Unmoved, Honest
    <3> QED BY <2>2, <3>2, <3>3 DEF Follows
  <2> QED BY <1>3, <2>1, <2>2 DEF Setup
<1> QED BY <1>2, <1>3

\* A client comes to the prompt of a server that has read nothing from it.
LEMMA ConnectFollows == ASSUME FInv, NEW c \in Clients, Connect(c) PROVE \A d \in Clients : Follows(d)'
PROOF
<1>1. /\ menu[c] = "start"
      /\ UNCHANGED <<server, thread, buffer, query, log, asked, answer, inbox, reply>>
  BY DEF Connect, threadVars
<1>2. \/ server = "up" /\ menu'[c] = "prompt" /\ link'[c] = "open"
      \/ server # "up" /\ menu'[c] = "gone"
  BY DEF Connect, FInv, IInv, TypeOK
<1>3. \A d \in Clients : d # c => Unmoved(d)
  BY <1>1 DEF Connect, FInv, IInv, TypeOK, Unmoved
<1>4. Follows(c)'
  <2>1. Honest(c) /\ Untouched(c)
    BY <1>1 DEF FInv, Follows, Honest
  <2>2. Honest(c)'
    BY <1>1, <1>2, <2>1 DEF Honest, Untouched
  <2>3. server = "up" => InStep(c)'
    BY <1>1, <1>2, <2>1 DEF Untouched, InStep, AtPrompt, Idle
  <2> QED BY <1>1, <1>2, <2>2, <2>3 DEF Follows
<1> QED BY <1>1, <1>3, <1>4, FollowsKept DEF FInv

\* A query on its way, while the thread may still be at the record of the last one.
LEMMA QueryFollows == ASSUME FInv, NEW c \in Clients, Query(c) PROVE \A d \in Clients : Follows(d)'
PROOF
<1>1. PICK q \in Queries : asked' = [asked EXCEPT ![c] = q] /\ Send(c, Ask(q), "await")
  BY DEF Query
<1>2. /\ menu[c] = "prompt" /\ answer' = [answer EXCEPT ![c] = NoAnswer]
      /\ UNCHANGED <<server, thread, buffer, query, log, reply, link>>
  BY DEF Query, threadVars
<1>3. /\ asked'[c] = q /\ answer'[c] = NoAnswer
      /\ \/ server = "up" /\ menu'[c] = "await" /\ inbox'[c] = Ask(q)
         \/ server # "up" /\ menu'[c] \in {"await", "gone"}
  BY <1>1, <1>2 DEF Send, FInv, IInv, TypeOK
<1>4. \A d \in Clients : d # c => Unmoved(d)
  BY <1>1, <1>2 DEF Send, FInv, IInv, TypeOK, Unmoved
<1>5. Follows(c)'
  <2>1. Follows(c) /\ server # "starting" /\ reply[c] = Blank
    BY <1>2 DEF FInv, Follows, Honest
  <2>2. Honest(c)'
    BY <1>2, <1>3, <2>1 DEF Follows, Honest
  <2>3. ASSUME server = "up" PROVE InStep(c)'
    <3>1. link[c] = "open" /\ thread[c] \in Idle
      BY <1>2, <2>1, <2>3 DEF Follows, InStep, AtPrompt
    <3>2. Coming(c)'
      BY <1>2, <1>3, <2>1, <2>3, <3>1 DEF Coming
    <3> QED BY <1>2, <1>3, <2>3, <3>1, <3>2 DEF InStep
  <2> QED BY <1>2, <2>1, <2>2, <2>3 DEF Follows
<1> QED BY <1>2, <1>4, <1>5, FollowsKept DEF FInv

\* A client that leaves, or is killed, waits for no answer.
LEMMA LeaveFollows ==
    ASSUME FInv, NEW c \in Clients, SayBye(c) \/ Kill(c)
    PROVE  \A d \in Clients : Follows(d)'
PROOF
<1>1. /\ menu'[c] \in {"leave", "gone"}
      /\ server # "starting" \/ menu'[c] = "gone"
      /\ UNCHANGED <<server, thread, buffer, query, log, asked, answer>>
  BY DEF SayBye, Kill, Send, threadVars, FInv, IInv, TypeOK, Follows
<1>2. \A d \in Clients : d # c => Unmoved(d)
  BY <1>1 DEF SayBye, Kill, Send, FInv, IInv, TypeOK, Unmoved
<1>3. Honest(c)'
  BY <1>1 DEF FInv, Follows, Honest
<1>4. InStep(c)'
  BY <1>1 DEF InStep
<1>5. Follows(c)'
  BY <1>1, <1>3, <1>4 DEF Follows
<1> QED BY <1>1, <1>2, <1>5, FollowsKept DEF FInv

\* What a client prints is what its thread has told it, or nothing.
LEMMA ReceiveFollows == ASSUME FInv, NEW c \in Clients, Receive(c) PROVE \A d \in Clients : Follows(d)'
PROOF
<1>1. UNCHANGED <<server, thread, buffer, query, log, asked, inbox>> /\ reply'[c] = Blank
  BY DEF Receive, threadVars, FInv, IInv, TypeOK
<1>2. \/ /\ menu[c] = "await" /\ menu'[c] = "prompt" /\ answer'[c] = reply[c][2]
         /\ link' = link
      \/ menu[c] = "leave" /\ menu'[c] = "gone" /\ answer' = answer
  BY DEF Receive, FInv, IInv, TypeOK
<1>3. \A d \in Clients : d # c => Unmoved(d)
  BY <1>1 DEF Receive, FInv, IInv, TypeOK, Unmoved
<1>4. Follows(c)
  BY DEF FInv
<1>5. server = "starting" => menu'[c] = "gone"
  BY <1>2, <1>4 DEF Follows
<1>6. ASSUME menu[c] = "leave" PROVE Follows(c)'
  BY <1>1, <1>2, <1>4, <1>5, <1>6 DEF Follows, Honest, InStep
<1>7. ASSUME menu[c] = "await" PROVE Follows(c)'
  <2>1. reply[c] = Blank => answer'[c] = NoAnswer
    <3>1. Blank[2] = NoAnswer
      BY DEF Blank, NoAnswer
    <3> QED BY <1>2, <1>7, <3>1
  <2>2. Honest(c)'
    BY <1>1, <1>2, <1>4, <1>7, <2>1 DEF Follows, Honest
  <2>3. ASSUME server = "up" PROVE InStep(c)'
    <3>1. reply[c] # Blank /\ InStep(c)
      BY <1>4, <2>3 DEF Receive, Follows
    <3>2. PICK a \in AllAnswers : reply[c] = Reply(a) /\ Told(c, a)
      BY <1>7, <3>1 DEF InStep, Coming, Arrived, AtWork, Answered
    <3>3. inbox[c] = Blank
      BY <1>7, <3>1 DEF InStep, Coming, Arrived, AtWork, Answered
    <3>4. answer'[c] = a
      BY <1>2, <1>7, <3>2, ReplyParts
    <3>5. Told(c, a)' /\ thread[c] \in Idle
      BY <1>1, <3>2 DEF Told, Idle
    <3>6. AtPrompt(c)'
      BY <1>1, <3>3, <3>4, <3>5 DEF AtPrompt
    <3> QED BY <1>2, <1>7, <3>1, <3>6 DEF InStep
  <2> QED BY <1>1, <1>5, <2>2, <2>3 DEF Follows
<1> QED BY <1>1, <1>2, <1>3, <1>6, <1>7, FollowsKept DEF FInv

\* A thread for a client is one more that may be told of nothing.
LEMMA AcceptFollows == ASSUME FInv, NEW c \in Clients, Accept(c) PROVE \A d \in Clients : Follows(d)'
PROOF
<1>1. /\ thread[c] = "none" /\ link[c] # "none" /\ server = "up"
      /\ UNCHANGED <<server, buffer, query, log, menu, asked, answer, inbox, reply, link>>
  BY DEF Accept, clientVars
<1>2. thread'[c] = "recv" /\ \A d \in Clients : d # c => Unmoved(d)
  BY <1>1 DEF Accept, FInv, IInv, TypeOK, Unmoved
<1>3. Follows(c)'
  <2>1. Honest(c) /\ InStep(c)
    BY <1>1 DEF FInv, Follows
  <2>2. menu[c] # "start"
    BY <1>1, <2>1 DEF Honest, Untouched
  <2>3. Honest(c)'
    BY <1>1, <1>2, <2>1, <2>2 DEF Honest
  <2>4. \A a : ~Told(c, a)
    BY <1>1 DEF Told
  <2>5. AtPrompt(c) => AtPrompt(c)'
    BY <1>1, <1>2, <2>4 DEF AtPrompt, Idle
  <2>6. Coming(c) => Coming(c)'
    BY <1>1, <1>2 DEF Coming, Idle
  <2>7. InStep(c)'
    BY <1>1, <1>2, <2>1, <2>4, <2>5, <2>6 DEF InStep, Arrived, AtWork, Answered
  <2> QED BY <1>1, <2>3, <2>7 DEF Follows
<1> QED BY <1>1, <1>2, <1>3, FollowsKept DEF FInv

\* What is read of a client that is there is the query it waits for.
LEMMA RecvFollows == ASSUME FInv, NEW c \in Clients, Recv(c) PROVE \A d \in Clients : Follows(d)'
PROOF
<1>1. /\ thread[c] = "recv" /\ server = "up" /\ (inbox[c] # Blank \/ link[c] # "open")
      /\ UNCHANGED <<server, query, log, menu, asked, answer, reply, link>>
  BY DEF Recv, clientVars
<1>2. /\ buffer'[c] = IF inbox[c] = Blank THEN buffer[c] ELSE inbox[c]
      /\ thread'[c] = Dispatch(buffer'[c]) /\ inbox'[c] = Blank
      /\ \A d \in Clients : d # c => Unmoved(d)
  BY <1>1 DEF Recv, FInv, IInv, TypeOK, Unmoved
<1>3. thread'[c] \in {"lock", "bye", "close"}
  BY <1>2 DEF Dispatch
<1>4. Honest(c) /\ InStep(c)
  BY <1>1 DEF FInv, Follows
<1>5. Honest(c)'
  BY <1>1, <1>2, <1>3, <1>4 DEF Honest, Untouched
<1>6. InStep(c)'
  <2>1. menu[c] # "prompt"
    BY <1>1, <1>4 DEF InStep, AtPrompt
  <2>2. ASSUME menu[c] = "await" PROVE Arrived(c)'
    <3>1. Coming(c)
      BY <1>1, <1>4, <2>2 DEF InStep, Arrived, AtWork, Answered
    <3>2. buffer'[c] = Ask(asked[c]) /\ reply[c] = Blank
      BY <1>1, <1>2, <1>4, <2>2, <3>1 DEF Coming, InStep
    <3>3. Dispatch(buffer'[c]) = "lock"
      BY <3>2, AskParts DEF Dispatch
    <3> QED BY <1>1, <1>2, <3>2, <3>3 DEF Arrived
  <2> QED BY <1>1, <1>4, <2>1, <2>2 DEF InStep
<1>7. Follows(c)'
  BY <1>1, <1>5, <1>6 DEF Follows
<1> QED BY <1>1, <1>2, <1>7, FollowsKept DEF FInv

\* The thread takes the query it was asked out of the buffer.
LEMMA LockFollows == ASSUME FInv, NEW c \in Clients, Lock(c) PROVE \A d \in Clients : Follows(d)'
PROOF
<1>1. /\ thread[c] = "lock" /\ server = "up"
      /\ UNCHANGED <<server, buffer, log, menu, asked, answer, inbox, reply, link>>
  BY DEF Lock, clientVars
<1>2. /\ thread'[c] = "evaluate" /\ query'[c] = buffer[c][2]
      /\ \A d \in Clients : d # c => Unmoved(d)
  BY <1>1 DEF Lock, FInv, IInv, TypeOK, Unmoved
<1>3. Honest(c) /\ InStep(c)
  BY <1>1 DEF FInv, Follows
<1>4. Honest(c)'
  BY <1>1, <1>2, <1>3 DEF Honest, Untouched
<1>5. InStep(c)'
  <2>1. menu[c] # "prompt"
    BY <1>1, <1>3 DEF InStep, AtPrompt, Idle
  <2>2. ASSUME menu[c] = "await" PROVE AtWork(c)'
    <3>1. Arrived(c)
      BY <1>1, <1>3, <2>2 DEF InStep, Coming, AtWork, Answered, Told, Idle
    <3> QED BY <1>1, <1>2, <3>1, AskParts DEF Arrived, AtWork
  <2> QED BY <1>1, <1>3, <2>1, <2>2 DEF InStep
<1>6. Follows(c)'
  BY <1>1, <1>4, <1>5 DEF Follows
<1> QED BY <1>1, <1>2, <1>6, FollowsKept DEF FInv

\* The answer goes to the client, and stays in the buffer if it is to be recorded.
LEMMA EvaluateFollows == ASSUME FInv, NEW c \in Clients, Evaluate(c) PROVE \A d \in Clients : Follows(d)'
PROOF
<1>1. PICK result \in Answers[query[c]] :
         /\ buffer' = [buffer EXCEPT ![c] = Refill(@, result)]
         /\ thread' = [thread EXCEPT ![c] = After(result)]
         /\ Deliver(c, Reply(result))
  BY DEF Evaluate
<1>2. /\ thread[c] = "evaluate" /\ server = "up" /\ server' \in {"up", "killed"}
      /\ UNCHANGED <<query, log, menu, asked, answer, inbox>>
  BY <1>1 DEF Evaluate, clientVars, Deliver
<1>3. /\ buffer'[c] = Reply(result) /\ thread'[c] = After(result)
      /\ \A d \in Clients : d # c => Unmoved(d)
  BY <1>1, <1>2 DEF Deliver, Refill, FInv, IInv, TypeOK, Unmoved
<1>4. /\ link[c] = "open" => link'[c] = "open" /\ reply'[c] = Reply(result)
      /\ link[c] # "open" => reply'[c] = reply[c]
  BY <1>1 DEF Deliver, FInv, IInv, TypeOK
<1>5. Honest(c) /\ InStep(c)
  BY <1>2 DEF FInv, Follows
<1>6. /\ menu[c] # "start" /\ menu[c] # "prompt"
      /\ menu[c] = "await" => AtWork(c) /\ link[c] = "open"
  BY <1>2, <1>5 DEF Honest, Untouched, InStep, AtPrompt, Coming, Arrived, Answered, Told, Idle
<1>7. result \in AllAnswers
  <2>1. query[c] \in Queries
    BY <1>2 DEF FInv, IInv, Sound, Requests
  <2> QED BY <1>1, <2>1 DEF AllAnswers
<1>8. Honest(c)'
  <2>1. buffer'[c][2] \in Answers[query[c]]
    BY <1>1, <1>3, ReplyParts
  <2>2. menu[c] = "await" => asked[c] \in Queries /\ reply'[c][2] \in Answers[asked[c]]
    BY <1>1, <1>4, <1>5, <1>6, ReplyParts DEF Honest, AtWork
  <2> QED BY <1>2, <1>5, <1>6, <2>1, <2>2 DEF Honest
<1>9. InStep(c)'
  <2>1. ASSUME menu[c] = "await" PROVE Answered(c)'
    <3>1. Told(c, result)'
      BY <1>2, <1>3, <1>6, <2>1, ReplyParts DEF Told, After, AtWork
    <3> QED BY <1>2, <1>4, <1>6, <1>7, <2>1, <3>1 DEF Answered, AtWork
  <2> QED BY <1>2, <1>4, <1>6, <2>1 DEF InStep
<1>10. Follows(c)'
  BY <1>2, <1>8, <1>9 DEF Follows
<1>11. server' = server \/ server' \in {"killed", "returned"}
  BY <1>2
<1> QED BY <1>3, <1>10, <1>11, FollowsKept DEF FInv

\* The record is the query of the thread with the answer in the buffer.
LEMMA RecordFollows == ASSUME FInv, NEW c \in Clients, Record(c) PROVE \A d \in Clients : Follows(d)'
PROOF
<1>1. /\ thread[c] = "record" /\ server = "up"
      /\ UNCHANGED <<buffer, query, menu, asked, answer, inbox, reply, link>>
  BY DEF Record, clientVars
<1>2. CASE server' = "killed" /\ UNCHANGED <<log, thread>>
  <2>1. \A d \in Clients : Unmoved(d)
    BY <1>1, <1>2 DEF Unmoved
  <2> QED BY <1>2, <2>1, FollowsKept DEF FInv
<1>3. CASE /\ log' = [log EXCEPT ![c] = Append(@, Entry(c))]
           /\ thread' = [thread EXCEPT ![c] = "unlock"]
           /\ UNCHANGED server
  <2>1. thread'[c] = "unlock" /\ log'[c] = Append(log[c], Entry(c)) /\ log[c] \in Seq(Entries)
    BY <1>3 DEF FInv, IInv, TypeOK
  <2>2. \A d \in Clients : d # c => Unmoved(d)
    BY <1>1, <1>3 DEF FInv, IInv, TypeOK, Unmoved
  <2>3. Honest(c) /\ InStep(c)
    BY <1>1 DEF FInv, Follows
  <2>4. Entry(c).query = query[c] /\ Entry(c).answer = buffer[c][2]
    BY DEF Entry
  <2>5. Honest(c)'
    <3>1. ASSUME NEW i \in DOMAIN log'[c] PROVE log'[c][i].answer \in Answers[log'[c][i].query]
      <4>1. CASE i \in DOMAIN log[c]
        <5>1. log'[c][i] = log[c][i]
          BY <2>1, <4>1
        <5> QED BY <2>3, <4>1, <5>1 DEF Honest
      <4>2. CASE i \notin DOMAIN log[c]
        <5>1. log'[c][i] = Entry(c)
          BY <2>1, <4>2
        <5> QED BY <1>1, <2>3, <2>4, <5>1 DEF Honest
      <4> QED BY <4>1, <4>2
    <3> QED BY <1>1, <2>1, <2>3, <3>1 DEF Honest, Untouched
  <2>6. InStep(c)'
    <3>1. log'[c] # << >> /\ Last(log'[c]) = Entry(c)
      BY <2>1 DEF Last, Entry
    <3>2. ASSUME NEW a, Told(c, a) PROVE Told(c, a)'
      <4>1. query[c] = asked[c] /\ buffer[c][2] = a
        BY <1>1, <3>2 DEF Told
      <4>2. Last(log'[c]) = [query |-> asked[c], answer |-> a]
        BY <3>1, <4>1 DEF Entry
      <4> QED BY <1>1, <2>1, <3>1, <4>2 DEF Told
    <3>3. AtPrompt(c) => AtPrompt(c)'
      BY <1>1, <2>1, <3>2 DEF AtPrompt, Idle
    <3>4. Coming(c) => Coming(c)'
      BY <1>1, <2>1 DEF Coming, Idle
    <3>5. Answered(c) => Answered(c)'
      BY <1>1, <3>2 DEF Answered
    <3> QED BY <1>1, <2>3, <3>3, <3>4, <3>5 DEF InStep, Arrived, AtWork
  <2>7. Follows(c)'
    BY <1>1, <1>3, <2>5, <2>6 DEF Follows
  <2> QED BY <1>3, <2>2, <2>7, FollowsKept DEF FInv
<1> QED BY <1>2, <1>3 DEF Record

\* Giving the mutex back changes nothing of what was told.
LEMMA UnlockFollows == ASSUME FInv, NEW c \in Clients, Unlock(c) PROVE \A d \in Clients : Follows(d)'
PROOF
<1>1. /\ thread[c] = "unlock" /\ server = "up"
      /\ UNCHANGED <<server, buffer, query, log, menu, asked, answer, inbox, reply, link>>
  BY DEF Unlock, clientVars
<1>2. thread'[c] = "recv" /\ \A d \in Clients : d # c => Unmoved(d)
  BY <1>1 DEF Unlock, FInv, IInv, TypeOK, Unmoved
<1>3. Honest(c) /\ InStep(c)
  BY <1>1 DEF FInv, Follows
<1>4. Honest(c)'
  BY <1>1, <1>2, <1>3 DEF Honest, Untouched
<1>5. InStep(c)'
  <2>1. \A a : Told(c, a) => Told(c, a)'
    BY <1>1, <1>2 DEF Told
  <2>2. AtPrompt(c) => AtPrompt(c)'
    BY <1>1, <1>2, <2>1 DEF AtPrompt, Idle
  <2>3. Coming(c) => Coming(c)'
    BY <1>1, <1>2 DEF Coming, Idle
  <2>4. Answered(c) => Answered(c)'
    BY <1>1, <2>1 DEF Answered
  <2> QED BY <1>1, <1>3, <2>2, <2>3, <2>4 DEF InStep, Arrived, AtWork
<1>6. Follows(c)'
  BY <1>1, <1>4, <1>5 DEF Follows
<1> QED BY <1>1, <1>2, <1>6, FollowsKept DEF FInv

\* A thread that is leaving has no client at the prompt or waiting for an answer.
LEMMA EndFollows ==
    ASSUME FInv, NEW c \in Clients, Farewell(c) \/ Close(c)
    PROVE  \A d \in Clients : Follows(d)'
PROOF
<1>1. /\ thread[c] \in {"bye", "close"} /\ server = "up" /\ server' \in {"up", "killed"}
      /\ UNCHANGED <<query, log, menu, asked, answer, inbox>>
  BY DEF Farewell, Close, clientVars, Deliver
<1>2. thread'[c] \in {"close", "ended"} /\ \A d \in Clients : d # c => Unmoved(d)
  BY <1>1 DEF Farewell, Close, clientVars, Deliver, FInv, IInv, TypeOK, Unmoved
<1>3. Honest(c) /\ InStep(c)
  BY <1>1 DEF FInv, Follows
<1>4. menu[c] \notin {"start", "prompt", "await"}
  BY <1>1, <1>3 DEF Honest, Untouched, InStep, AtPrompt, Coming, Arrived, AtWork, Answered,
                    Told, Idle
<1>5. Honest(c)' /\ InStep(c)'
  BY <1>1, <1>2, <1>3, <1>4 DEF Honest, InStep
<1>6. Follows(c)'
  BY <1>1, <1>5 DEF Follows
<1>7. server' = server \/ server' \in {"killed", "returned"}
  BY <1>1
<1> QED BY <1>2, <1>6, <1>7, FollowsKept DEF FInv

\* What a client prints is of the type of an answer.
LEMMA AnswerTyped ==
    ASSUME FInv, NEW c \in Clients, Query(c) \/ Receive(c)
    PROVE  answer' \in [Clients -> AllAnswers \cup {NoAnswer}]
PROOF
<1>1. CASE Query(c)
  BY <1>1 DEF Query, FInv
<1>2. CASE Receive(c)
  <2>1. CASE menu[c] = "await"
    <3>1. asked[c] \in Queries /\ (reply[c] = Blank \/ reply[c][2] \in Answers[asked[c]])
      BY <2>1 DEF FInv, Follows, Honest
    <3>2. Blank[2] = NoAnswer
      BY DEF Blank, NoAnswer
    <3>3. reply[c][2] \in AllAnswers \cup {NoAnswer}
      BY <3>1, <3>2 DEF AllAnswers
    <3> QED BY <1>2, <2>1, <3>3 DEF Receive, FInv
  <2>2. CASE menu[c] # "await"
    BY <1>2, <2>2 DEF Receive, FInv
  <2> QED BY <2>1, <2>2
<1> QED BY <1>1, <1>2

\* Every step keeps the places of queries and answers.
LEMMA StepFollows == FInv /\ [Next]_vars => FInv'
PROOF
<1> SUFFICES ASSUME FInv, [Next]_vars PROVE FInv'
  OBVIOUS
<1>1. IInv'
  BY StepInv DEF FInv
<1>2. CASE UNCHANGED vars
  <2>1. \A d \in Clients : Unmoved(d)
    BY <1>2 DEF vars, Unmoved
  <2> QED BY <1>1, <1>2, <2>1, FollowsKept DEF FInv, vars
<1>3. CASE Setup \/ AcceptFails \/ Return
  <2>1. UNCHANGED answer
    BY <1>3 DEF Setup, AcceptFails, Return, clientVars
  <2> QED BY <1>1, <1>3, <2>1, MainFollows DEF FInv
<1>4. ASSUME NEW c \in Clients, Query(c) \/ Receive(c) PROVE FInv'
  BY <1>1, <1>4, AnswerTyped, QueryFollows, ReceiveFollows DEF FInv
<1>5. ASSUME NEW c \in Clients, Connect(c) \/ SayBye(c) \/ Kill(c) PROVE FInv'
  <2>1. UNCHANGED answer
    BY <1>5 DEF Connect, SayBye, Kill
  <2> QED BY <1>1, <1>5, <2>1, ConnectFollows, LeaveFollows DEF FInv
<1>6. ASSUME NEW c \in Clients, Accept(c) \/ Thread(c) PROVE FInv'
  <2>1. UNCHANGED answer
    BY <1>6 DEF Accept, Thread, Recv, Lock, Evaluate, Record, Unlock, Farewell, Close, clientVars
  <2>2. \A d \in Clients : Follows(d)'
    BY <1>6, AcceptFollows, RecvFollows, LockFollows, EvaluateFollows, RecordFollows,
       UnlockFollows, EndFollows DEF Thread
  <2> QED BY <1>1, <2>1, <2>2 DEF FInv
<1> QED BY <1>2, <1>3, <1>4, <1>5, <1>6 DEF Next, User

\* Whatever the clients do, queries and answers stay in step.
LEMMA Following == Spec => []FInv
PROOF BY InitFollows, StepFollows, PTL DEF Spec

\* What the file says of a client is what the client was told: each record is an
\* answer to its query, and a client back at the prompt whose thread is done has its
\* query and the answer it printed in its last record (problem3.c:49-50, 121-126).
THEOREM RecordIsReply == Spec => []RecordFollowsAnswer
PROOF
<1>1. FInv => RecordFollowsAnswer
  <2> SUFFICES ASSUME FInv, NEW c \in Clients
               PROVE  /\ \A i \in DOMAIN log[c] : log[c][i].answer \in Answers[log[c][i].query]
                      /\ /\ server = "up" /\ menu[c] = "prompt"
                         /\ thread[c] \in {"recv", "unlock"}
                         /\ answer[c] \notin {NoAnswer, Invalid}
                         => /\ log[c] # << >>
                            /\ Last(log[c]) = [query |-> asked[c], answer |-> answer[c]]
    BY DEF RecordFollowsAnswer
  <2> QED BY DEF FInv, Follows, Honest, InStep, AtPrompt, Told
<1> QED BY <1>1, Following, PTL

\* The answer a client prints is one that its own query may have, whatever other
\* clients ask and whatever the buffers held before (client.c:66-70).
PrintedIsAsked ==
    \A c \in Clients : answer[c] # NoAnswer => asked[c] \in Queries /\ answer[c] \in Answers[asked[c]]

\* No client is answered a query of another, or one of its own before the last.
THEOREM AnswerIsOwn == Spec => []PrintedIsAsked
PROOF
<1>1. FInv => PrintedIsAsked
  BY DEF FInv, Follows, Honest, PrintedIsAsked
<1> QED BY <1>1, Following, PTL

-----------------------------------------------------------------------------
(* AnswersCorrect: the evaluator, on the postfix of any expression.  A fold *)
(* is a run of states, one for each character (Reads); that it exists is    *)
(* shown by induction, which follows from the well-foundedness of <.        *)

\* A set of natural numbers has a least element.
LEMMA Least ==
    ASSUME NEW T \in SUBSET Nat, T # {}
    PROVE  \E x \in T : \A y \in T : x <= y
PROOF
<1> DEFINE R == OpToRel(<, Nat)
<1>1. IsWellFoundedOn(R, Nat)
  BY NatLessThanWellFounded
<1>2. \A x, y \in Nat : <<x, y>> \in R <=> x < y
  BY DEF OpToRel
<1> HIDE DEF R
<1>3. PICK x \in T : \A y \in T : ~(<<y, x>> \in R)
  BY <1>1, WFMin
<1>4. \A y \in T : ~(y < x)
  BY <1>2, <1>3
<1> QED BY <1>4

\* A set with 0 and the successor of each of its numbers holds them all.
LEMMA Induction ==
    ASSUME NEW T, 0 \in T, \A n \in Nat : n \in T => n + 1 \in T
    PROVE  \A n \in Nat : n \in T
PROOF
<1> DEFINE U == Nat \ T
<1> SUFFICES ASSUME U # {} PROVE FALSE
  OBVIOUS
<1>1. PICK x \in U : \A y \in U : x <= y
  BY Least
<1>2. x # 0 /\ x - 1 \in Nat
  BY <1>1
<1>3. x - 1 \in T
  BY <1>1, <1>2
<1> QED BY <1>1, <1>2, <1>3

\* it is the fold of the first n characters of q, over all sets of indices.
Folds(it, q, n) ==
    it = [S \in SUBSET (1 .. n) |->
            IF S = {} THEN Start ELSE Read(it[S \ {Max(S)}], q[Max(S)])]
Fold(q, n) == CHOOSE it : Folds(it, q, n)

\* The pass over a query is the fold of all its characters.
LEMMA Unfold ==
    ASSUME NEW q, NEW n \in Nat, DOMAIN q = 1 .. n
    PROVE  FoldLeft(Read, Start, q) = Fold(q, n)[1 .. n]
PROOF BY DEF FoldLeft, MapThenFoldSet, Fold, Folds

\* FoldLeft takes the last of the indices off.
LEMMA MaxOfInterval == \A n \in Nat : \A S \in SUBSET (1 .. n + 1) : n + 1 \in S => Max(S) = n + 1
PROOF
<1> SUFFICES ASSUME NEW n \in Nat, NEW S \in SUBSET (1 .. n + 1), n + 1 \in S
             PROVE  Max(S) = n + 1
  OBVIOUS
<1>1. \A x \in S : x \in Int /\ x <= n + 1
  OBVIOUS
<1>2. \E x \in S : \A y \in S : x >= y
  BY <1>1
<1>3. Max(S) \in S /\ \A y \in S : Max(S) >= y
  BY <1>2 DEF Max
<1>4. Max(S) \in Int /\ Max(S) <= n + 1 /\ Max(S) >= n + 1
  BY <1>1, <1>3
<1> QED BY <1>4

\* There is such a function, so that the fold is one.
LEMMA FoldExists == ASSUME NEW q, NEW n \in Nat PROVE \E it : Folds(it, q, n)
PROOF
<1> DEFINE T == {k \in Nat : \E it : Folds(it, q, k)}
<1>1. 0 \in T
  <2> DEFINE it == [S \in SUBSET (1 .. 0) |-> Start]
  <2>1. \A S \in SUBSET (1 .. 0) : S = {}
    OBVIOUS
  <2>2. it = [S \in SUBSET (1 .. 0) |->
            IF S = {} THEN Start ELSE Read(it[S \ {Max(S)}], q[Max(S)])]
    BY <2>1
  <2>3. Folds(it, q, 0)
    BY <2>2 DEF Folds
  <2> QED BY <2>3
<1>2. ASSUME NEW k \in Nat, k \in T PROVE k + 1 \in T
  <2>1. PICK it : Folds(it, q, k)
    BY <1>2
  <2> DEFINE h == [S \in SUBSET (1 .. k + 1) |->
                     IF k + 1 \in S THEN Read(it[S \ {k + 1}], q[k + 1]) ELSE it[S]]
             next(S) == IF S = {} THEN Start ELSE Read(h[S \ {Max(S)}], q[Max(S)])
  <2>2. ASSUME NEW S \in SUBSET (1 .. k + 1) PROVE h[S] = next(S)
    <3>1. \A U \in SUBSET (1 .. k + 1) : k + 1 \notin U => U \in SUBSET (1 .. k) /\ h[U] = it[U]
      OBVIOUS
    <3>2. CASE k + 1 \in S
      <4>1. S \ {k + 1} \in SUBSET (1 .. k + 1) /\ k + 1 \notin S \ {k + 1}
        OBVIOUS
      <4>2. Max(S) = k + 1
        BY <3>2, MaxOfInterval
      <4>3. h[S \ {k + 1}] = it[S \ {k + 1}]
        BY <3>1, <4>1
      <4>4. h[S] = Read(it[S \ {k + 1}], q[k + 1])
        BY <3>2
      <4> HIDE DEF h
      <4> QED BY <3>2, <4>2, <4>3, <4>4
    <3>3. CASE k + 1 \notin S
      <4>1. S \in SUBSET (1 .. k) /\ h[S] = it[S]
        BY <3>1, <3>3
      <4>2. it[S] = IF S = {} THEN Start ELSE Read(it[S \ {Max(S)}], q[Max(S)])
        BY <2>1, <4>1 DEF Folds
      <4>3. h[S \ {Max(S)}] = it[S \ {Max(S)}]
        BY <3>1, <3>3
      <4> HIDE DEF h
      <4> QED BY <4>1, <4>2, <4>3
    <3> QED BY <3>2, <3>3
  <2>3. h = [S \in SUBSET (1 .. k + 1) |-> h[S]]
    OBVIOUS
  <2>4. h = [S \in SUBSET (1 .. k + 1) |-> next(S)]
    BY <2>2, <2>3
  <2>5. Folds(h, q, k + 1)
    BY <2>4 DEF Folds
  <2> QED BY <2>5
<1>3. \A k \in Nat : k \in T
  <2> HIDE DEF T
  <2> QED BY <1>1, <1>2, Induction
<1> QED BY <1>3

\* The fold starts from Start and reads the characters in their order.
LEMMA FoldSteps ==
    ASSUME NEW q, NEW n \in Nat
    PROVE  /\ Fold(q, n)[1 .. 0] = Start
           /\ \A k \in 0 .. n - 1 : Fold(q, n)[1 .. k + 1] = Read(Fold(q, n)[1 .. k], q[k + 1])
PROOF
<1> DEFINE it == Fold(q, n)
<1>1. Folds(it, q, n)
  BY FoldExists DEF Fold
<1>2. \A S \in SUBSET (1 .. n) :
         it[S] = IF S = {} THEN Start ELSE Read(it[S \ {Max(S)}], q[Max(S)])
  BY <1>1 DEF Folds
<1> HIDE DEF it
<1>3. it[1 .. 0] = Start
  <2>1. 1 .. 0 = {} /\ {} \in SUBSET (1 .. n)
    OBVIOUS
  <2> QED BY <1>2, <2>1
<1>4. ASSUME NEW k \in 0 .. n - 1
      PROVE  it[1 .. k + 1] = Read(it[1 .. k], q[k + 1])
  <2>1. 1 .. k + 1 \in SUBSET (1 .. n) /\ 1 .. k + 1 # {} /\ k + 1 \in 1 .. k + 1
    OBVIOUS
  <2>2. Max(1 .. k + 1) = k + 1
    BY <2>1, MaxOfInterval
  <2>3. (1 .. k + 1) \ {k + 1} = 1 .. k
    OBVIOUS
  <2> QED BY <1>2, <2>1, <2>2, <2>3
<1> QED BY <1>3, <1>4 DEF it

\* r is the run of the evaluator over the first n characters of q, from s to t.
Run(r, s, q, n, t) ==
    r[0] = s /\ r[n] = t /\ \A k \in 0 .. n - 1 : r[k + 1] = Read(r[k], q[k + 1])

\* Reading all of q takes the evaluator from s to t.
Reads(s, q, t) == \E r : Run(r, s, q, Len(q), t)

\* The pass over a query ends where reading it from the start does.
LEMMA FoldReads ==
    ASSUME NEW X, NEW q \in Seq(X), NEW t, Reads(Start, q, t)
    PROVE  FoldLeft(Read, Start, q) = t
PROOF
<1>1. PICK n \in Nat : n = Len(q) /\ DOMAIN q = 1 .. n
  OBVIOUS
<1>2. PICK r : Run(r, Start, q, n, t)
  BY <1>1 DEF Reads
<1> DEFINE f == Fold(q, n)
           T == {k \in Nat : k <= n => f[1 .. k] = r[k]}
<1>3. 0 \in T
  BY <1>2, FoldSteps DEF Run
<1>4. ASSUME NEW k \in Nat, k \in T PROVE k + 1 \in T
  <2> SUFFICES ASSUME k + 1 <= n PROVE f[1 .. k + 1] = r[k + 1]
    OBVIOUS
  <2>1. k \in 0 .. n - 1 /\ f[1 .. k] = r[k]
    BY <1>4
  <2>2. f[1 .. k + 1] = Read(f[1 .. k], q[k + 1])
    BY <2>1, FoldSteps
  <2>3. r[k + 1] = Read(r[k], q[k + 1])
    BY <1>2, <2>1 DEF Run
  <2> QED BY <2>1, <2>2, <2>3
<1>5. \A k \in Nat : k \in T
  <2> HIDE DEF T
  <2> QED BY <1>3, <1>4, Induction
<1>6. f[1 .. n] = r[n]
  BY <1>5
<1> QED BY <1>1, <1>2, <1>6, Unfold DEF Run

\* Reading one sequence and then another is reading the two together.
LEMMA ReadsOn ==
    ASSUME NEW X, NEW a \in Seq(X), NEW b \in Seq(X), NEW s, NEW t, NEW u,
           Reads(s, a, t), Reads(t, b, u)
    PROVE  Reads(s, a \o b, u)
PROOF
<1>1. PICK m, n \in Nat : m = Len(a) /\ n = Len(b)
  OBVIOUS
<1>2. PICK f : Run(f, s, a, m, t)
  BY <1>1 DEF Reads
<1>3. PICK g : Run(g, t, b, n, u)
  BY <1>1 DEF Reads
<1> DEFINE r == [k \in 0 .. m + n |-> IF k <= m THEN f[k] ELSE g[k - m]]
<1>4. r[0] = s /\ r[m + n] = u
  BY <1>2, <1>3 DEF Run
<1>5. ASSUME NEW k \in 0 .. (m + n) - 1 PROVE r[k + 1] = Read(r[k], (a \o b)[k + 1])
  <2>1. CASE k < m
    <3>1. (a \o b)[k + 1] = a[k + 1]
      BY <1>1, <2>1
    <3>2. r[k] = f[k] /\ r[k + 1] = f[k + 1] /\ k \in 0 .. m - 1
      BY <2>1
    <3> QED BY <1>2, <3>1, <3>2 DEF Run
  <2>2. CASE k >= m
    <3>1. (a \o b)[k + 1] = b[(k - m) + 1]
      BY <1>1, <2>2
    <3>2. r[k] = g[k - m]
      BY <1>2, <1>3, <2>2 DEF Run
    <3>3. r[k + 1] = g[(k - m) + 1] /\ k - m \in 0 .. n - 1
      BY <2>2
    <3> QED BY <1>3, <3>1, <3>2, <3>3 DEF Run
  <2>3. k < m \/ k >= m
    OBVIOUS
  <2> HIDE DEF r
  <2> QED BY <2>1, <2>2, <2>3
<1>6. Len(a \o b) = m + n
  BY <1>1
<1>7. Run(r, s, a \o b, m + n, u)
  BY <1>4, <1>5 DEF Run
<1> QED BY <1>6, <1>7 DEF Reads

State(mode, number, stack, low) ==
    [mode |-> mode, number |-> number, stack |-> stack, low |-> low]

\* A space is no part of a token.
LEMMA SpaceIsNone == Space \notin Digits /\ Space \notin Operators /\ Space # "."
PROOF BY Zenon DEF Space, Digits, Operators

\* Two parts of a state replaced.
SetNumber(s, mode, number) == [s EXCEPT !.mode = mode, !.number = number]
SetStack(s, mode, stack) == [s EXCEPT !.mode = mode, !.stack = stack]

\* What is then in the state.
LEMMA StateExcept ==
    \A mode, num, st, low, m, x :
        /\ SetNumber(State(mode, num, st, low), m, x) = State(m, x, st, low)
        /\ SetStack(State(mode, num, st, low), m, x) = State(m, num, x, low)
PROOF
<1> TAKE mode, num, st, low, m, x
<1> DEFINE fields == {"mode", "number", "stack", "low"}
<1>1. PICK s : s = [mode |-> mode, number |-> num, stack |-> st, low |-> low]
  OBVIOUS
<1>2. [s EXCEPT !.mode = m, !.number = x] = [mode |-> m, number |-> x, stack |-> st, low |-> low]
  <2> DEFINE t == [s EXCEPT !.mode = m, !.number = x]
  <2>1. /\ DOMAIN t = fields /\ t = [f \in DOMAIN t |-> t[f]]
        /\ t.mode = m /\ t.number = x /\ t.stack = st /\ t.low = low
    BY <1>1
  <2> HIDE DEF t
  <2>2. t = [f \in fields |-> t[f]]
    BY <2>1
  <2>3. t = [mode |-> m, number |-> x, stack |-> st, low |-> low]
    BY <2>1, <2>2
  <2> QED BY <2>3 DEF t
<1>3. [s EXCEPT !.mode = m, !.stack = x] = [mode |-> m, number |-> num, stack |-> x, low |-> low]
  <2> DEFINE t == [s EXCEPT !.mode = m, !.stack = x]
  <2>1. /\ DOMAIN t = fields /\ t = [f \in DOMAIN t |-> t[f]]
        /\ t.mode = m /\ t.number = num /\ t.stack = x /\ t.low = low
    BY <1>1
  <2> HIDE DEF t
  <2>2. t = [f \in fields |-> t[f]]
    BY <2>1
  <2>3. t = [mode |-> m, number |-> num, stack |-> x, low |-> low]
    BY <2>1, <2>2
  <2> QED BY <2>3 DEF t
<1> QED BY <1>1, <1>2, <1>3 DEF State, SetNumber, SetStack

\* The parts of a state.
LEMMA StateParts ==
    \A mode, num, st, low :
        /\ State(mode, num, st, low).mode = mode /\ State(mode, num, st, low).number = num
        /\ State(mode, num, st, low).stack = st /\ State(mode, num, st, low).low = low
PROOF BY DEF State

\* The number of one digit, and the value of a number, unexpanded.
Digit(ch) == <<ch>>
Value(num) == <<"number", num>>

\* A digit starts a number.
LEMMA ReadFirst ==
    \A num, st, low : \A ch \in Digits :
        Read(State("token", num, st, low), ch) = State("integer", Digit(ch), st, low)
PROOF
<1> TAKE num, st, low
<1> TAKE ch \in Digits
<1>1. PICK s : s = State("token", num, st, low)
  OBVIOUS
<1>2. SetNumber(s, "integer", Digit(ch)) = State("integer", Digit(ch), st, low)
  BY <1>1, StateExcept
<1>3. Read(s, ch) = Token(s, ch)
  BY <1>1, StateParts DEF Read
<1>4. Token(s, ch) = SetNumber(s, "integer", Digit(ch))
  BY DEF Token, Digits, Operators, Digit, SetNumber
<1> QED BY <1>1, <1>2, <1>3, <1>4

\* A digit goes on with a number.
LEMMA ReadDigit ==
    \A num, st, low : \A ch \in Digits : \A mode \in {"integer", "decimal"} :
        Read(State(mode, num, st, low), ch) = State(mode, Append(num, ch), st, low)
PROOF
<1> TAKE num, st, low
<1> TAKE ch \in Digits
<1> TAKE mode \in {"integer", "decimal"}
<1>1. PICK s : s = State(mode, num, st, low)
  OBVIOUS
<1>2. s.mode = mode /\ s.number = num
  BY <1>1, StateParts
<1>3. Read(s, ch) = [s EXCEPT !.number = Append(num, ch)]
  BY <1>2 DEF Read, Digits
<1>4. [s EXCEPT !.number = Append(num, ch)] = State(mode, Append(num, ch), st, low)
  BY <1>1 DEF State
<1> QED BY <1>1, <1>3, <1>4

\* A point makes a decimal of an integer.
LEMMA ReadPoint ==
    \A num, st, low :
        Read(State("integer", num, st, low), ".") = State("decimal", Append(num, "."), st, low)
PROOF
<1> TAKE num, st, low
<1>1. PICK s : s = State("integer", num, st, low)
  OBVIOUS
<1>2. SetNumber(s, "decimal", Append(num, "."))
        = State("decimal", Append(num, "."), st, low)
  BY <1>1, StateExcept
<1>3. s.mode = "integer" /\ s.number = num
  BY <1>1, StateParts
<1>4. Read(s, ".") = SetNumber(s, "decimal", Append(num, "."))
  BY <1>3 DEF Read, Digits, SetNumber
<1> QED BY <1>1, <1>2, <1>4

\* A space ends a number and pushes it.
LEMMA ReadSpace ==
    \A num, st, low : \A mode \in {"integer", "decimal"} :
        Read(State(mode, num, st, low), Space) = State("token", num, Append(st, Value(num)), low)
PROOF
<1> TAKE num, st, low
<1> TAKE mode \in {"integer", "decimal"}
<1>1. PICK s : s = State(mode, num, st, low)
  OBVIOUS
<1>2. PICK t : t = State("token", num, Append(st, Value(num)), low)
  OBVIOUS
<1>3. s.mode = mode /\ s.number = num /\ s.stack = st
  BY <1>1, StateParts
<1>4. PushNumber(s) = SetStack(s, "token", Append(st, Value(num)))
  BY <1>3 DEF PushNumber, Push, Value, SetStack
<1>5. SetStack(s, "token", Append(st, Value(num))) = t
  BY <1>1, <1>2, StateExcept
<1>6. Token(t, Space) = t
  BY SpaceIsNone DEF Token
<1>7. CASE mode = "integer"
  <2>1. Read(s, Space) = PushNumber(s)
    BY <1>3, <1>7, SpaceIsNone DEF Read
  <2> QED BY <1>1, <1>2, <1>4, <1>5, <2>1
<1>8. CASE mode = "decimal"
  <2>1. Read(s, Space) = Token(PushNumber(s), Space)
    BY <1>3, <1>8, SpaceIsNone DEF Read
  <2> QED BY <1>1, <1>2, <1>4, <1>5, <1>6, <2>1
<1> QED BY <1>7, <1>8

\* A sequence of one element.
LEMMA FirstOnly ==
    ASSUME NEW X, NEW l \in Seq(X), Len(l) >= 1
    PROVE  SubSeq(l, 1, 1) = <<l[1]>>
PROOF
<1>1. /\ SubSeq(l, 1, 1) \in Seq(X) /\ Len(SubSeq(l, 1, 1)) = 1 /\ SubSeq(l, 1, 1)[1] = l[1]
      /\ l[1] \in X
  OBVIOUS
<1>2. \A x \in X : <<x>> \in Seq(X) /\ Len(<<x>>) = 1 /\ <<x>>[1] = x
  OBVIOUS
<1>3. PICK a \in Seq(X), b \in Seq(X) : a = SubSeq(l, 1, 1) /\ b = <<l[1]>>
  BY <1>1, <1>2
<1>4. Len(a) = 1 /\ Len(b) = 1 /\ a[1] = b[1]
  BY <1>1, <1>2, <1>3
<1>5. \A i \in 1 .. Len(a) : a[i] = b[i]
  BY <1>4
<1>6. a = b
  BY <1>4, <1>5
<1> QED BY <1>3, <1>6

\* In the middle of a literal.
ModeAt(l, k) == IF \E i \in 1 .. k : l[i] = "." THEN "decimal" ELSE "integer"
Partly(l, k, st, low) == State(ModeAt(l, k), SubSeq(l, 1, k), st, low)

\* Each character of a literal but the first goes on with the number.
LEMMA LiteralStep ==
    ASSUME NEW l, IsLiteral(l), NEW st, NEW low, NEW k \in 1 .. Len(l) - 1
    PROVE  Read(Partly(l, k, st, low), l[k + 1]) = Partly(l, k + 1, st, low)
PROOF
<1>1. l \in Seq(Digits \cup {"."}) /\ k \in DOMAIN l /\ k + 1 \in DOMAIN l
  BY DEF IsLiteral
<1>2. l[k + 1] \in Digits \cup {"."} /\ "." \notin Digits
  BY <1>1 DEF Digits
<1>3. SubSeq(l, 1, k + 1) = Append(SubSeq(l, 1, k), l[k + 1])
  BY <1>1
<1>4. (\E i \in 1 .. k + 1 : l[i] = ".") <=> (\E i \in 1 .. k : l[i] = ".") \/ l[k + 1] = "."
  OBVIOUS
<1>5. CASE l[k + 1] \in Digits
  <2>1. ModeAt(l, k + 1) = ModeAt(l, k) /\ ModeAt(l, k) \in {"integer", "decimal"}
    BY <1>2, <1>4, <1>5 DEF ModeAt
  <2>2. Read(State(ModeAt(l, k), SubSeq(l, 1, k), st, low), l[k + 1])
          = State(ModeAt(l, k), Append(SubSeq(l, 1, k), l[k + 1]), st, low)
    BY <1>5, <2>1, ReadDigit
  <2> QED BY <1>3, <2>1, <2>2 DEF Partly
<1>6. CASE l[k + 1] = "."
  <2>1. \A i \in 1 .. k : i \in DOMAIN l /\ i # k + 1
    BY <1>1
  <2>2. \A i \in 1 .. k : l[i] # "."
    BY <1>1, <1>6, <2>1 DEF IsLiteral
  <2>3. ModeAt(l, k) = "integer" /\ ModeAt(l, k + 1) = "decimal"
    BY <1>4, <1>6, <2>2 DEF ModeAt
  <2>4. Read(State("integer", SubSeq(l, 1, k), st, low), ".")
          = State("decimal", Append(SubSeq(l, 1, k), "."), st, low)
    BY ReadPoint
  <2> QED BY <1>3, <1>6, <2>3, <2>4 DEF Partly
<1> QED BY <1>2, <1>5, <1>6

\* A literal and the space after it are read as one number.
LEMMA ReadsNumber ==
    ASSUME NEW l, IsLiteral(l), NEW num, NEW st, NEW low
    PROVE  Reads(State("token", num, st, low), Append(l, Space),
                 State("token", l, Append(st, Value(l)), low))
PROOF
<1>1. PICK n \in Nat : n = Len(l) /\ n >= 1 /\ l \in Seq(Digits \cup {"."})
  BY DEF IsLiteral
<1>2. PICK q : q = Append(l, Space)
  OBVIOUS
<1>3. PICK s, end : /\ s = State("token", num, st, low)
                   /\ end = State("token", l, Append(st, Value(l)), low)
  OBVIOUS
<1>4. Len(q) = n + 1 /\ q[n + 1] = Space /\ \A k \in 1 .. n : q[k] = l[k]
  BY <1>1, <1>2
<1>5. PICK r : r = [k \in 0 .. n + 1 |-> IF k = 0 THEN s ELSE IF k = n + 1 THEN end
                                         ELSE Partly(l, k, st, low)]
  OBVIOUS
<1>6. r[0] = s /\ r[n + 1] = end /\ \A k \in 1 .. n : r[k] = Partly(l, k, st, low)
  BY <1>5
<1>7. Read(s, l[1]) = Partly(l, 1, st, low)
  <2>1. l[1] \in Digits /\ l[1] # "."
    BY DEF IsLiteral, Digits
  <2>2. ModeAt(l, 1) = "integer"
    BY <1>1, <2>1 DEF ModeAt
  <2>3. SubSeq(l, 1, 1) = Digit(l[1])
    BY <1>1, FirstOnly DEF Digit
  <2>4. Read(s, l[1]) = State("integer", Digit(l[1]), st, low)
    BY <1>3, <2>1, ReadFirst
  <2> QED BY <2>2, <2>3, <2>4 DEF Partly
<1>8. Read(Partly(l, n, st, low), Space) = end
  <2>1. SubSeq(l, 1, n) = l /\ ModeAt(l, n) \in {"integer", "decimal"}
    BY <1>1 DEF ModeAt
  <2>2. Read(State(ModeAt(l, n), l, st, low), Space)
          = State("token", l, Append(st, Value(l)), low)
    BY <2>1, ReadSpace
  <2> QED BY <1>3, <2>1, <2>2 DEF Partly
<1>9. ASSUME NEW k \in 0 .. n PROVE r[k + 1] = Read(r[k], q[k + 1])
  <2>1. CASE k = 0
    BY <1>1, <1>4, <1>6, <1>7, <2>1
  <2>2. CASE k = n
    BY <1>1, <1>4, <1>6, <1>8, <2>2
  <2>3. CASE k \in 1 .. n - 1
    <3>1. Read(Partly(l, k, st, low), l[k + 1]) = Partly(l, k + 1, st, low)
      BY <1>1, <2>3, LiteralStep
    <3> QED BY <1>4, <1>6, <2>3, <3>1
  <2> QED BY <2>1, <2>2, <2>3
<1>10. Run(r, s, q, n + 1, end)
  <2>1. \A k \in 0 .. (n + 1) - 1 : r[k + 1] = Read(r[k], q[k + 1])
    BY <1>9
  <2> QED BY <1>6, <2>1 DEF Run
<1> QED BY <1>2, <1>3, <1>4, <1>10 DEF Reads

\* An expression of an operator and two others, unexpanded.
Node(op, a, b) == <<op, a, b>>

\* What an operator leaves in the state.
SetApplied(s, stack, low) == [s EXCEPT !.stack = stack, !.low = low]
LEMMA StateApplied ==
    \A mode, num, st, low, x :
        SetApplied(State(mode, num, st, low), x, low) = State(mode, num, x, low)
PROOF
<1> TAKE mode, num, st, low, x
<1> DEFINE fields == {"mode", "number", "stack", "low"}
<1>1. PICK s : s = [mode |-> mode, number |-> num, stack |-> st, low |-> low]
  OBVIOUS
<1> DEFINE t == [s EXCEPT !.stack = x, !.low = low]
<1>2. /\ DOMAIN t = fields /\ t = [f \in DOMAIN t |-> t[f]]
      /\ t.mode = mode /\ t.number = num /\ t.stack = x /\ t.low = low
  BY <1>1
<1> HIDE DEF t
<1>3. t = [f \in fields |-> t[f]]
  BY <1>2
<1>4. t = [mode |-> mode, number |-> num, stack |-> x, low |-> low]
  BY <1>2, <1>3
<1> QED BY <1>1, <1>4 DEF t, State, SetApplied

\* An operator takes the two values above it off, the first pushed as the left one.
LEMMA ReadOperator ==
    ASSUME NEW X, NEW st \in Seq(X), NEW a \in X, NEW b \in X, NEW op \in Operators,
           NEW num, NEW low
    PROVE  Read(State("token", num, Append(Append(st, a), b), low), op)
             = State("token", num, Append(st, Node(op, a, b)), low)
PROOF
<1>1. PICK full \in Seq(X) : full = Append(Append(st, a), b)
  <2>1. Append(Append(st, a), b) \in Seq(X)
    OBVIOUS
  <2> QED BY <2>1
<1>2. PICK n \in Nat : n = Len(full)
  OBVIOUS
<1>3. n >= 2 /\ full[n] = b /\ full[n - 1] = a /\ SubSeq(full, 1, n - 2) = st
  BY <1>1, <1>2
<1>4. PICK s : s = State("token", num, full, low)
  OBVIOUS
<1>5. s.mode = "token" /\ s.stack = full /\ s.low = low
  BY <1>4, StateParts
<1>6. op \notin Digits
  BY DEF Operators, Digits
<1>7. Read(s, op) = Token(s, op)
  BY <1>5 DEF Read
<1>8. Token(s, op) = Apply(s, op)
  BY <1>6 DEF Token
<1>9. Apply(s, op) = SetApplied(s, Append(st, Node(op, a, b)), low)
  <2>1. n >= 1 /\ ~(n < 2)
    BY <1>3
  <2> QED BY <1>2, <1>3, <1>5, <2>1 DEF Apply, SetApplied, Node
<1>10. SetApplied(s, Append(st, Node(op, a, b)), low) = State("token", num, Append(st, Node(op, a, b)), low)
  BY <1>4, StateApplied
<1> QED BY <1>1, <1>4, <1>7, <1>8, <1>9, <1>10

\* Reading a query of one character is reading the character.
LEMMA ReadsOne == \A s, ch : Reads(s, Digit(ch), Read(s, ch))
PROOF
<1> TAKE s, ch
<1>1. PICK q : q = Digit(ch) /\ Len(q) = 1 /\ q[1] = ch
  <2>1. Len(<<ch>>) = 1 /\ <<ch>>[1] = ch
    OBVIOUS
  <2> QED BY <2>1 DEF Digit
<1>2. PICK r : r = [k \in 0 .. 1 |-> IF k = 0 THEN s ELSE Read(s, ch)]
  OBVIOUS
<1>3. r[0] = s /\ r[1] = Read(s, ch)
  BY <1>2
<1>4. \A k \in 0 .. 1 - 1 : r[k + 1] = Read(r[k], q[k + 1])
  BY <1>1, <1>3
<1>5. Run(r, s, q, 1, Read(s, ch))
  BY <1>3, <1>4 DEF Run
<1> QED BY <1>1, <1>5 DEF Reads

-----------------------------------------------------------------------------
Chars == Digits \cup Operators \cup {".", Space}
Trees == {e[1] : e \in Expressions}

\* The postfix of e leaves the value of e on top of whatever the stack holds.
Evaluates(e) ==
    /\ e[2] \in Seq(Chars)
    /\ \A num, low : \A st \in Seq(Trees) :
         \E k : Reads(State("token", num, st, low), e[2], State("token", k, Append(st, e[1]), low))

\* A number evaluates to itself.
LEMMA NumberEvaluates == ASSUME NEW l \in Literals PROVE Evaluates(Number(l))
PROOF
<1>1. IsLiteral(l) /\ l \in Seq(Chars)
  BY WrittenAssumption DEF IsLiteral, Chars
<1>2. Number(l)[1] = Value(l) /\ Number(l)[2] = Append(l, Space)
  BY DEF Number, Value
<1>3. Append(l, Space) \in Seq(Chars)
  BY <1>1 DEF Chars
<1>4. ASSUME NEW num, NEW low, NEW st \in Seq(Trees)
      PROVE  Reads(State("token", num, st, low), Append(l, Space),
                   State("token", l, Append(st, Value(l)), low))
  BY <1>1, ReadsNumber
<1> QED BY <1>2, <1>3, <1>4 DEF Evaluates

\* An expression evaluates to its operator applied to what its operands do.
LEMMA CombinedEvaluates ==
    ASSUME NEW a, NEW b, NEW op \in Operators, a[1] \in Trees, b[1] \in Trees,
           Evaluates(a), Evaluates(b)
    PROVE  Evaluates(Combined(op, a, b))
PROOF
<1>1. PICK p \in Seq(Chars), q \in Seq(Chars) : p = a[2] /\ q = b[2]
  BY DEF Evaluates
<1>2. PICK x \in Trees, y \in Trees : x = a[1] /\ y = b[1]
  OBVIOUS
<1>3. PICK o \in Seq(Chars) : o = Digit(op)
  <2>1. op \in Chars
    BY DEF Chars
  <2>2. Digit(op) \in Seq(Chars)
    BY <2>1 DEF Digit
  <2> QED BY <2>2
<1>4. Combined(op, a, b)[1] = Node(op, x, y) /\ Combined(op, a, b)[2] = p \o q \o o
  BY <1>1, <1>2, <1>3 DEF Combined, Node, Digit
<1>5. p \o q \in Seq(Chars) /\ p \o q \o o \in Seq(Chars)
  BY <1>1, <1>3
<1>6. ASSUME NEW num, NEW low, NEW st \in Seq(Trees)
      PROVE  \E k : Reads(State("token", num, st, low), p \o q \o o,
                          State("token", k, Append(st, Node(op, x, y)), low))
  <2>1. PICK i : Reads(State("token", num, st, low), p, State("token", i, Append(st, x), low))
    BY <1>1, <1>2 DEF Evaluates
  <2>2. PICK su \in Seq(Trees) : su = Append(st, x)
    <3>1. Append(st, x) \in Seq(Trees)
      OBVIOUS
    <3> QED BY <3>1
  <2>3. PICK k : Reads(State("token", i, su, low), q, State("token", k, Append(su, y), low))
    BY <1>1, <1>2 DEF Evaluates
  <2>4. Reads(State("token", num, st, low), p \o q, State("token", k, Append(su, y), low))
    BY <2>1, <2>2, <2>3, ReadsOn
  <2>5. Read(State("token", k, Append(Append(st, x), y), low), op)
          = State("token", k, Append(st, Node(op, x, y)), low)
    BY ReadOperator
  <2>6. Reads(State("token", k, Append(su, y), low), o,
              State("token", k, Append(st, Node(op, x, y)), low))
    BY <1>3, <2>2, <2>5, ReadsOne
  <2>7. Reads(State("token", num, st, low), p \o q \o o,
              State("token", k, Append(st, Node(op, x, y)), low))
    BY <1>5, <2>4, <2>6, ReadsOn
  <2> QED BY <2>7
<1> QED BY <1>4, <1>5, <1>6 DEF Evaluates

\* A space after an operator is passed over.
LEMMA SpacedEvaluates ==
    ASSUME NEW e, Evaluates(e)
    PROVE  Evaluates(Spaced(e))
PROOF
<1>1. PICK q \in Seq(Chars) : q = e[2]
  BY DEF Evaluates
<1>2. PICK o \in Seq(Chars) : o = Digit(Space)
  <2>1. Space \in Chars
    BY DEF Chars
  <2>2. Digit(Space) \in Seq(Chars)
    BY <2>1 DEF Digit
  <2> QED BY <2>2
<1>3. Spaced(e)[1] = e[1] /\ Spaced(e)[2] = q \o o
  BY <1>1, <1>2 DEF Spaced, Digit
<1>4. ASSUME NEW num, NEW low, NEW st
      PROVE  Read(State("token", num, st, low), Space) = State("token", num, st, low)
  <2>1. PICK s : s = State("token", num, st, low)
    OBVIOUS
  <2>2. s.mode = "token"
    BY <2>1, StateParts
  <2>3. Space \notin Digits /\ Space \notin Operators
    BY DEF Space, Digits, Operators
  <2>4. Read(s, Space) = s
    BY <2>2, <2>3 DEF Read, Token
  <2> QED BY <2>1, <2>4
<1>5. ASSUME NEW num, NEW low, NEW st \in Seq(Trees)
      PROVE  \E k : Reads(State("token", num, st, low), q \o o,
                          State("token", k, Append(st, e[1]), low))
  <2>1. PICK k : Reads(State("token", num, st, low), q, State("token", k, Append(st, e[1]), low))
    BY <1>1 DEF Evaluates
  <2>2. Reads(State("token", k, Append(st, e[1]), low), o,
              State("token", k, Append(st, e[1]), low))
    BY <1>2, <1>4, ReadsOne
  <2>3. Reads(State("token", num, st, low), q \o o, State("token", k, Append(st, e[1]), low))
    BY <2>1, <2>2, ReadsOn
  <2> QED BY <2>3
<1>6. q \o o \in Seq(Chars)
  BY <1>1, <1>2
<1> QED BY <1>3, <1>5, <1>6 DEF Evaluates

\* The expressions one operator deeper than some.
Leaves == {Number(literal) : literal \in Literals}
Combinations(less) == {Combined(op, a, b) : op \in Operators, a \in less, b \in less}
Deeper(less) == less \cup Combinations(less) \cup {Spaced(e) : e \in Combinations(less)}

\* w is the expressions of each depth up to n.
Depths(w, n) == w = [d \in 0 .. n |-> IF d = 0 THEN Leaves ELSE Deeper(w[d - 1])]

\* There is such a function, so that Written is one.
LEMMA WrittenExists == \A n \in Nat : \E w : Depths(w, n)
PROOF
<1> DEFINE T == {n \in Nat : \E w : Depths(w, n)}
<1>1. 0 \in T
  <2> DEFINE w == [d \in 0 .. 0 |-> Leaves]
  <2>1. w = [d \in 0 .. 0 |-> IF d = 0 THEN Leaves ELSE Deeper(w[d - 1])]
    OBVIOUS
  <2>2. Depths(w, 0)
    BY <2>1 DEF Depths
  <2> QED BY <2>2
<1>2. ASSUME NEW n \in Nat, n \in T PROVE n + 1 \in T
  <2>1. PICK w : Depths(w, n)
    BY <1>2
  <2> DEFINE v == [d \in 0 .. n + 1 |-> IF d = n + 1 THEN Deeper(w[n]) ELSE w[d]]
             next(d) == IF d = 0 THEN Leaves ELSE Deeper(v[d - 1])
  <2>2. ASSUME NEW d \in 0 .. n + 1 PROVE v[d] = next(d)
    <3>1. CASE d = n + 1
      <4>1. v[d] = Deeper(w[n]) /\ v[d - 1] = w[n] /\ d # 0
        BY <3>1
      <4> QED BY <4>1
    <3>2. CASE d # n + 1
      <4>1. d \in 0 .. n /\ v[d] = w[d] /\ (d # 0 => v[d - 1] = w[d - 1])
        BY <3>2
      <4>2. w[d] = IF d = 0 THEN Leaves ELSE Deeper(w[d - 1])
        BY <2>1, <4>1 DEF Depths
      <4> HIDE DEF v
      <4> QED BY <4>1, <4>2
    <3> QED BY <3>1, <3>2
  <2>3. v = [d \in 0 .. n + 1 |-> v[d]]
    OBVIOUS
  <2>4. v = [d \in 0 .. n + 1 |-> next(d)]
    BY <2>2, <2>3
  <2>5. Depths(v, n + 1)
    BY <2>4 DEF Depths
  <2> QED BY <2>5
<1>3. \A n \in Nat : n \in T
  <2> HIDE DEF T
  <2> QED BY <1>1, <1>2, Induction
<1> QED BY <1>3

\* What the expressions of each depth are.
LEMMA WrittenUnfold ==
    /\ Written[0] = Leaves
    /\ \A d \in 1 .. MaxDepth : Written[d] = Deeper(Written[d - 1])
PROOF
<1>1. MaxDepth \in Nat
  BY WrittenAssumption
<1>2. Written = CHOOSE w : Depths(w, MaxDepth)
  BY DEF Written, Depths, Leaves, Deeper, Combinations
<1>3. Depths(Written, MaxDepth)
  BY <1>1, <1>2, WrittenExists
<1>4. \A d \in 0 .. MaxDepth : Written[d] = IF d = 0 THEN Leaves ELSE Deeper(Written[d - 1])
  BY <1>3 DEF Depths
<1> QED BY <1>1, <1>4

\* An expression is one of every greater depth.
LEMMA WrittenGrows ==
    ASSUME NEW d \in 0 .. MaxDepth, NEW e \in Written[d]
    PROVE  e \in Expressions
PROOF
<1>1. MaxDepth \in Nat
  BY WrittenAssumption
<1> DEFINE T == {n \in Nat : d + n <= MaxDepth => e \in Written[d + n]}
<1>2. 0 \in T
  OBVIOUS
<1>3. ASSUME NEW n \in Nat, n \in T PROVE n + 1 \in T
  <2> SUFFICES ASSUME d + (n + 1) <= MaxDepth PROVE e \in Written[d + (n + 1)]
    OBVIOUS
  <2>1. e \in Written[d + n]
    BY <1>1, <1>3
  <2>2. d + (n + 1) \in 1 .. MaxDepth /\ d + (n + 1) - 1 = d + n
    BY <1>1
  <2>3. Written[d + (n + 1)] = Deeper(Written[d + n])
    BY <2>2, WrittenUnfold
  <2> QED BY <2>1, <2>3 DEF Deeper
<1>4. \A n \in Nat : n \in T
  <2> HIDE DEF T
  <2> QED BY <1>2, <1>3, Induction
<1>5. MaxDepth - d \in T /\ d + (MaxDepth - d) = MaxDepth
  BY <1>1, <1>4
<1> QED BY <1>1, <1>5 DEF Expressions

\* Every expression evaluates to itself, by induction on its depth.
LEMMA ExpressionsEvaluate == \A e \in Expressions : Evaluates(e)
PROOF
<1>1. MaxDepth \in Nat
  BY WrittenAssumption
<1> DEFINE T == {d \in Nat : d <= MaxDepth => \A e \in Written[d] : Evaluates(e)}
<1>2. 0 \in T
  BY WrittenUnfold, NumberEvaluates DEF Leaves
<1>3. ASSUME NEW d \in Nat, d \in T PROVE d + 1 \in T
  <2> SUFFICES ASSUME d + 1 <= MaxDepth, NEW e \in Written[d + 1] PROVE Evaluates(e)
    OBVIOUS
  <2>1. d \in 0 .. MaxDepth /\ d + 1 \in 1 .. MaxDepth /\ (d + 1) - 1 = d
    BY <1>1
  <2>2. \A x \in Written[d] : Evaluates(x) /\ x[1] \in Trees
    BY <1>3, <2>1, WrittenGrows DEF Trees
  <2>3. Written[d + 1] = Deeper(Written[d])
    BY <2>1, WrittenUnfold
  <2>4. e \in Deeper(Written[d])
    BY <2>3
  <2>5. CASE e \in Written[d]
    BY <2>2, <2>5
  <2>6. CASE e \notin Written[d]
    <3>1. \A x \in Combinations(Written[d]) : Evaluates(x)
      BY <2>2, CombinedEvaluates DEF Combinations
    <3>2. e \in Combinations(Written[d]) \/ \E x \in Combinations(Written[d]) : e = Spaced(x)
      BY <2>4, <2>6 DEF Deeper
    <3> QED BY <3>1, <3>2, SpacedEvaluates
  <2> QED BY <2>5, <2>6
<1>4. \A d \in Nat : d \in T
  <2> HIDE DEF T
  <2> QED BY <1>2, <1>3, Induction
<1> QED BY <1>1, <1>4 DEF Expressions

\* The evaluator has one answer to the postfix of an expression: the expression,
\* whatever its shape and depth (problem3.c:57-104).
THEOREM Evaluation == EvaluatorCorrect
PROOF
<1> SUFFICES ASSUME NEW e \in Expressions PROVE Outcomes(e[2]) = {e[1]}
  BY DEF EvaluatorCorrect
<1>1. PICK x \in Trees : x = e[1]
  BY DEF Trees
<1>2. PICK q \in Seq(Chars) : q = e[2]
  BY ExpressionsEvaluate DEF Evaluates
<1>3. Start = State("token", << >>, << >>, 0)
  BY DEF Start, State
<1>4. << >> \in Seq(Trees)
  OBVIOUS
<1>5. PICK k : Reads(Start, q, State("token", k, Append(<< >>, x), 0))
  BY <1>1, <1>2, <1>3, <1>4, ExpressionsEvaluate DEF Evaluates
<1>6. PICK s : s = State("token", k, Append(<< >>, x), 0)
  OBVIOUS
<1>7. FoldLeft(Read, Start, q) = s
  BY <1>5, <1>6, FoldReads
<1>8. PICK st \in Seq(Trees) : st = Append(<< >>, x) /\ Len(st) = 1 /\ st[1] = x
  <2>1. Append(<< >>, x) \in Seq(Trees)
    BY <1>4
  <2>2. Len(Append(<< >>, x)) = 1 /\ Append(<< >>, x)[1] = x
    OBVIOUS
  <2> QED BY <2>1, <2>2
<1>9. s.mode = "token" /\ s.stack = st /\ s.low = 0
  BY <1>6, <1>8, StateParts
<1>10. Result(s) = x
  <2>1. ~Surplus(s)
    BY <1>8, <1>9 DEF Surplus
  <2>2. st # << >> /\ Last(st) = x
    BY <1>8 DEF Last
  <2> QED BY <1>9, <2>1, <2>2 DEF Result
<1>11. Outcomes(q) = {Result(s)}
  BY <1>7, <1>9 DEF Outcomes
<1> QED BY <1>1, <1>2, <1>10, <1>11

\* The answer a client prints for an expression written in postfix is the value of
\* that expression, for every expression and however the threads interleave.
THEOREM PrintedIsValue == Spec => []AnswersCorrect
PROOF
<1>1. FInv => AnswersCorrect
  <2> SUFFICES ASSUME FInv, NEW c \in Clients, NEW e \in Posed,
                      asked[c] = e[2], answer[c] # NoAnswer
               PROVE  answer[c] = e[1]
    BY Evaluation DEF AnswersCorrect
  <2>1. e \in Expressions /\ e[2] \in Queries
    BY DEF Posed
  <2>2. answer[c] \in Answers[asked[c]]
    BY DEF FInv, Follows, Honest
  <2>3. Answers[asked[c]] = {e[1]}
    BY <2>1, Evaluation DEF EvaluatorCorrect, Answers
  <2> QED BY <2>2, <2>3
<1> QED BY <1>1, Following, PTL
=============================================================================
