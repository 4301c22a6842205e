--------------------------- MODULE ReservationProofs ---------------------------
(***************************************************************************)
(* Types, the places in main's arrays, the whereabouts of a request, how    *)
(* far the record file is behind, and what is sold, for any number of       *)
(* clients, tickets and places.  That a request is in exactly one place is  *)
(* not inductive as it stands: a booking needs a client that is at its menu *)
(* to have none left over, which IInv adds; the records need to know        *)
(* besides that what a thread grants is what its client asked for           *)
(* (Faithful), and the sales that, until two bookings overlap, what a       *)
(* thread has compared and loaded still holds (Checked).                    *)
(***************************************************************************)
EXTENDS ReservationRefinement, FiniteSetTheorems, TLAPS

OnItsWay(c) == inbox[c].op # "none"
InThread(c) == thread[c] \notin {"none", "read", "log", "ended"}
Replied(c) == reply[c] # "none"

\* What there is of a client's request while the server runs.
Place(c) ==
    /\ menu[c] \in {"start", "menu", "gone"} => ~OnItsWay(c) /\ ~InThread(c) /\ ~Replied(c)
    /\ menu[c] = "await" =>
         /\ OnItsWay(c) \/ InThread(c) \/ Replied(c)
         /\ ~(OnItsWay(c) /\ InThread(c))
         /\ ~(InThread(c) /\ Replied(c))
         /\ ~(OnItsWay(c) /\ Replied(c))

Places == server = "up" => \A c \in Clients : Place(c)

IInv == TypeOK /\ IsFiniteSet(Accepted) /\ Places

\* What the proofs need of the constants.
LEMMA Numbers ==
    /\ AC_NUM \in Int /\ SL_NUM \in Int /\ MAX_CLIENTS \in Nat /\ MaxRequests \in Nat
    /\ \A n \in Counts : n \in Int
    /\ NoRequest.op = "none" /\ NoRequest.ac = 0 /\ NoRequest.sl = 0
    /\ \A r \in Request : r.op \in {"HI", "REQ", "BYE"}
    /\ \A r \in Request \cup {NoRequest} : r.ac \in Int /\ r.sl \in Int
PROOF
<1>1. /\ AC_NUM \in Int /\ SL_NUM \in Int /\ MAX_CLIENTS \in Nat /\ MaxRequests \in Nat
      /\ \A n \in Counts : n \in Int
  BY ReservationAssumption
<1>2. NoRequest.op = "none" /\ NoRequest.ac = 0 /\ NoRequest.sl = 0
  BY DEF NoRequest
<1>3. \A r \in Request : /\ r.op \in {"HI", "REQ", "BYE"}
                         /\ r.ac \in Counts \cup {0} /\ r.sl \in Counts \cup {0}
  BY DEF Request
<1>4. \A n \in Counts \cup {0} : n \in Int
  BY <1>1
<1> QED BY <1>1, <1>2, <1>3, <1>4

LEMMA Difference == \A a, b \in Int : a - b \in Int
PROOF OBVIOUS

LEMMA OneMore == \A m \in Nat : \A n \in 0 .. m : n < m => n + 1 \in 0 .. m
PROOF OBVIOUS

\* The invariant holds when the server starts.
LEMMA InitInv == Init => IInv
PROOF
<1> SUFFICES ASSUME Init PROVE IInv
  OBVIOUS
<1>1. IsFiniteSet(Accepted) /\ Cardinality(Accepted) = 0
  <2>1. Accepted = {}
    BY DEF Init, Accepted
  <2> QED BY <2>1, FS_EmptySet
<1>2. TypeOK
  BY <1>1, Numbers DEF Init, TypeOK
<1>3. Places
  BY Numbers DEF Init, Places, Place, OnItsWay, InThread, Replied
<1> QED BY <1>1, <1>2, <1>3 DEF IInv

-----------------------------------------------------------------------------
\* The steps of a client.
LEMMA ClientTypes == ASSUME IInv, NEW c \in Clients, Client(c) PROVE TypeOK'
PROOF
<1>1. Accepted' = Accepted
  BY DEF Client, Accepted
<1> USE DEF IInv, TypeOK, counters
<1>2. ASSUME NEW m \in Request, Send(c, m) 
      PROVE  /\ asked' \in [Clients -> Request \cup {NoRequest}]
             /\ menu' \in [Clients -> {"start", "menu", "await", "gone", "killed"}]
             /\ inbox' \in [Clients -> Request \cup {NoRequest}]
             /\ UNCHANGED <<tally, reply>>
  BY <1>2 DEF Send
<1>3. CASE Hello(c)
  <2>1. [op |-> "HI", ac |-> 0, sl |-> 0] \in Request
    BY DEF Request
  <2> QED BY <1>1, <1>2, <1>3, <2>1 DEF Client, Hello
<1>4. CASE Book(c)
  <2>1. ASSUME NEW ac \in Counts, NEW sl \in Counts
        PROVE  [op |-> "REQ", ac |-> ac, sl |-> sl] \in Request
    BY DEF Request
  <2>2. sent' \in [Clients -> 0 .. MaxRequests]
    <3>1. sent[c] \in 0 .. MaxRequests /\ sent[c] < MaxRequests
      BY <1>4 DEF Book
    <3>2. MaxRequests \in Nat
      BY Numbers
    <3>3. sent[c] + 1 \in 0 .. MaxRequests
      BY <3>1, <3>2, OneMore
    <3> QED BY <1>4, <3>3 DEF Book
  <2> QED BY <1>1, <1>2, <1>4, <2>1, <2>2 DEF Client, Book
<1>5. CASE Bye(c)
  <2>1. [op |-> "BYE", ac |-> 0, sl |-> 0] \in Request
    BY DEF Request
  <2> QED BY <1>1, <1>2, <1>5, <2>1 DEF Client, Bye
<1>6. CASE Receive(c)
  BY <1>1, <1>6 DEF Client, Receive, AfterReply
<1>7. CASE ReceiveNothing(c)
  BY <1>1, <1>7 DEF Client, ReceiveNothing, AfterReply
<1>8. CASE Killed(c)
  BY <1>1, <1>8 DEF Client, Killed
<1> QED BY <1>3, <1>4, <1>5, <1>6, <1>7, <1>8 DEF Client

\* A client sends from its menu, and waits until it has the answer.
LEMMA ClientPlaces == ASSUME IInv, NEW c \in Clients, Client(c) PROVE Places'
PROOF
<1> SUFFICES ASSUME server = "up", NEW d \in Clients PROVE Place(d)'
  BY DEF Client, Places
<1>1. Place(d) /\ thread' = thread /\ server' = server
  BY DEF IInv, Places, Client
<1>2. CASE d # c
  <2>1. menu'[d] = menu[d] /\ inbox'[d] = inbox[d] /\ reply'[d] = reply[d]
    <3>1. CASE Hello(c) \/ Book(c) \/ Bye(c)
      BY <1>2, <3>1 DEF Hello, Book, Bye, Send, IInv, TypeOK
    <3>2. CASE Receive(c) \/ ReceiveNothing(c) \/ Killed(c)
      BY <1>2, <3>2 DEF Receive, ReceiveNothing, Killed, IInv, TypeOK
    <3> QED BY <3>1, <3>2 DEF Client
  <2> QED BY <1>1, <2>1 DEF Place, OnItsWay, InThread, Replied
<1>3. CASE d = c
  <2>1. CASE Hello(c) \/ Book(c) \/ Bye(c)
    <3>1. menu[c] \in {"start", "menu"} /\ menu'[c] = "await" /\ reply' = reply
      BY <2>1 DEF Hello, Book, Bye, Send, IInv, TypeOK
    <3>2. inbox'[c].op # "none"
      <4>1. PICK m : Send(c, m) /\ m.op # "none"
        <5>1. CASE Hello(c)
          BY <5>1 DEF Hello
        <5>2. CASE Book(c)
          BY <5>2 DEF Book
        <5>3. CASE Bye(c)
          BY <5>3 DEF Bye
        <5> QED BY <2>1, <5>1, <5>2, <5>3
      <4> QED BY <4>1 DEF Send, IInv, TypeOK
    <3> QED BY <1>1, <1>3, <3>1, <3>2 DEF Place, OnItsWay, InThread, Replied
  <2>2. CASE Receive(c)
    BY <1>1, <1>3, <2>2
       DEF Receive, AfterReply, Place, OnItsWay, InThread, Replied, IInv, TypeOK
  <2>3. CASE Killed(c)
    BY <1>3, <2>3 DEF Killed, Place, IInv, TypeOK
  <2> QED BY <2>1, <2>2, <2>3 DEF Client, ReceiveNothing
<1> QED BY <1>2, <1>3

-----------------------------------------------------------------------------
\* The steps of the main thread: it takes a client while there is a place.
LEMMA MainInv == ASSUME IInv, server = "up", Main PROVE IInv'
PROOF
<1>1. CASE JoinAll
  <2>1. Accepted' = Accepted
    BY <1>1 DEF JoinAll, Accepted
  <2> QED BY <1>1, <2>1 DEF JoinAll, Main, IInv, TypeOK, Places, counters, clientVars
<1>2. ASSUME NEW c \in Clients, Accept(c) PROVE IInv'
  <2>1. thread[c] = "none" /\ thread' = [thread EXCEPT ![c] = "read"] /\ server' = server
    BY <1>2 DEF Accept
  <2>2. Accepted' = Accepted \cup {c} /\ c \notin Accepted
    BY <2>1 DEF Accepted, IInv, TypeOK
  <2>3. /\ IsFiniteSet(Accepted') /\ Cardinality(Accepted') = Cardinality(Accepted) + 1
        /\ Cardinality(Accepted) \in Nat
    BY <2>2, FS_AddElement, FS_CardinalityType DEF IInv
  <2>4. Cardinality(Accepted') <= MAX_CLIENTS
    BY <1>2, <2>3, Numbers DEF Accept, PlaceFree
  <2>5. TypeOK'
    BY <2>1, <2>4 DEF Main, IInv, TypeOK, counters, clientVars
  <2>6. Places'
    BY <2>1 DEF Main, Places, Place, OnItsWay, InThread, Replied, IInv, TypeOK, clientVars
  <2> QED BY <2>3, <2>5, <2>6 DEF IInv
<1>3. CASE AcceptFails
  <2>1. Accepted' = Accepted
    BY <1>3 DEF AcceptFails, Accepted
  <2> QED BY <1>3, <2>1 DEF AcceptFails, Main, IInv, TypeOK, Places, counters, clientVars
<1> QED BY <1>1, <1>2, <1>3 DEF Main

-----------------------------------------------------------------------------
\* No step of a thread gives its place back.
LEMMA PlaceKept == ASSUME IInv, NEW c \in Clients, Thread(c) PROVE Accepted' = Accepted
PROOF
<1>1. \/ thread' = thread
      \/ thread[c] # "none" /\ \E x : x # "none" /\ thread' = [thread EXCEPT ![c] = x]
  <2>1. CASE ReadHello(c) \/ ReadRequest(c) \/ ReadBye(c) \/ ReadEnd(c) \/ ReadFails(c)
    BY <2>1 DEF ReadHello, ReadRequest, ReadBye, ReadEnd, ReadFails, Goto
  <2>2. CASE CheckAC(c) \/ CheckSL(c) \/ LoadAC(c) \/ StoreAC(c)
    BY <2>2 DEF CheckAC, CheckSL, LoadAC, StoreAC, Goto
  <2>3. CASE LoadSL(c) \/ StoreSL(c) \/ Grant(c) \/ Log(c) \/ LogFails(c) \/ Refuse(c)
    BY <2>3 DEF LoadSL, StoreSL, Grant, AfterGrant, Log, LogFails, Record, Refuse, Goto
  <2> QED BY <2>1, <2>2, <2>3 DEF Thread
<1> QED BY <1>1 DEF Accepted, IInv, TypeOK

\* A subtraction gives a count of tickets.
LEMMA Remaining ==
    ASSUME IInv, NEW c \in Clients
    PROVE  temp[c] - req[c].ac \in Int /\ temp[c] - req[c].sl \in Int
PROOF
<1>1. temp[c] \in Int /\ req[c] \in Request \cup {NoRequest}
  BY DEF IInv, TypeOK
<1>2. req[c].ac \in Int /\ req[c].sl \in Int
  BY <1>1, Numbers
<1> QED BY <1>1, <1>2, Difference

LEMMA StoreTypes ==
    ASSUME IInv, NEW c \in Clients, Thread(c), StoreAC(c) \/ StoreSL(c)
    PROVE  TypeOK'
PROOF
<1>1. AC' \in Int /\ SL' \in Int
  BY Remaining DEF StoreAC, StoreSL, LeftSL, IInv, TypeOK
<1>2. temp' \in [Clients -> Int]
  <2>1. temp' = [temp EXCEPT ![c] = 0] /\ temp \in [Clients -> Int]
    BY DEF StoreAC, StoreSL, IInv, TypeOK
  <2> QED BY <2>1
<1>3. \E x \in {"load SL", "grant"} : thread' = [thread EXCEPT ![c] = x]
  BY DEF StoreAC, StoreSL, Goto
<1>4. UNCHANGED <<server, req, inbox, reply, link, menu, asked, sent>>
  BY DEF Thread, clientVars, StoreAC, StoreSL
<1>5. Cardinality(Accepted') <= MAX_CLIENTS
  BY PlaceKept DEF IInv, TypeOK
<1>6. thread' \in [Clients -> {"none", "read", "check AC", "check SL", "load AC",
                   "store AC", "load SL", "store SL", "grant", "log", "refuse", "ended"}]
  BY <1>3 DEF IInv, TypeOK
<1> QED BY <1>1, <1>2, <1>4, <1>5, <1>6 DEF IInv, TypeOK

\* Every variable stays of its type.
LEMMA ThreadTypes == ASSUME IInv, NEW c \in Clients, Thread(c) PROVE TypeOK'
PROOF
<1> USE PlaceKept DEF IInv, TypeOK, counters, clientVars, Goto
<1>1. CASE ReadHello(c) \/ ReadRequest(c) \/ ReadBye(c) \/ ReadEnd(c) \/ ReadFails(c)
  <2>1. CASE ReadHello(c)
    BY <2>1 DEF Thread, ReadHello, Answer
  <2>2. CASE ReadRequest(c)
    BY <2>2 DEF Thread, ReadRequest
  <2>3. CASE ReadBye(c)
    BY <2>3 DEF Thread, ReadBye, Answer
  <2>4. CASE ReadEnd(c) \/ ReadFails(c)
    BY <2>4 DEF Thread, ReadEnd, ReadFails
  <2> QED BY <1>1, <2>1, <2>2, <2>3, <2>4
<1>2. CASE CheckAC(c) \/ CheckSL(c)
  BY <1>2 DEF Thread, CheckAC, CheckSL
<1>3. CASE LoadAC(c) \/ LoadSL(c)
  BY <1>3 DEF Thread, LoadAC, LoadSL
<1>4. CASE StoreAC(c) \/ StoreSL(c)
  BY <1>4, StoreTypes
<1>5. CASE Grant(c) \/ Log(c) \/ LogFails(c) \/ Refuse(c)
  BY <1>5 DEF Thread, Grant, AfterGrant, Log, LogFails, Record, Refuse, Refusal, Answer
<1> QED BY <1>1, <1>2, <1>3, <1>4, <1>5 DEF Thread

\* A thread takes a request off the connection, and gives one answer to it.
LEMMA ThreadPlaces == ASSUME IInv, NEW c \in Clients, Thread(c), server = "up" PROVE Places'
PROOF
<1> SUFFICES ASSUME server' = "up", NEW d \in Clients PROVE Place(d)'
  BY DEF Places
<1>1. Place(d) /\ menu' = menu
  BY DEF IInv, Places, Thread, clientVars
<1> USE DEF Goto
<1>2. CASE d # c
  <2>1. thread'[d] = thread[d] /\ inbox'[d] = inbox[d] /\ reply'[d] = reply[d]
    <3>1. CASE ReadHello(c) \/ ReadRequest(c) \/ ReadBye(c) \/ ReadEnd(c) \/ ReadFails(c)
      BY <1>2, <3>1
         DEF ReadHello, ReadRequest, ReadBye, ReadEnd, ReadFails, Answer, IInv, TypeOK
    <3>2. CASE CheckAC(c) \/ CheckSL(c) \/ LoadAC(c) \/ StoreAC(c) \/ LoadSL(c) \/ StoreSL(c)
      BY <1>2, <3>2 DEF CheckAC, CheckSL, LoadAC, StoreAC, LoadSL, StoreSL, IInv, TypeOK
    <3>3. CASE Grant(c) \/ Log(c) \/ LogFails(c) \/ Refuse(c)
      BY <1>2, <3>3 DEF Grant, Log, LogFails, Record, Refuse, Answer, IInv, TypeOK
    <3> QED BY <3>1, <3>2, <3>3 DEF Thread
  <2> QED BY <1>1, <2>1 DEF Place, OnItsWay, InThread, Replied
<1>3. CASE d = c
  <2> USE <1>1, <1>3, Numbers DEF Place, OnItsWay, InThread, Replied, IInv, TypeOK
  <2>1. CASE ReadHello(c)
    BY <2>1 DEF ReadHello, Answer
  <2>2. CASE ReadRequest(c)
    BY <2>2 DEF ReadRequest
  <2>3. CASE ReadBye(c)
    BY <2>3 DEF ReadBye, Answer
  <2>4. CASE ReadEnd(c) \/ ReadFails(c)
    BY <2>4 DEF ReadEnd, ReadFails
  <2>5. CASE CheckAC(c) \/ CheckSL(c)
    BY <2>5 DEF CheckAC, CheckSL
  <2>6. CASE LoadAC(c) \/ StoreAC(c) \/ LoadSL(c) \/ StoreSL(c)
    BY <2>6 DEF LoadAC, StoreAC, LoadSL, StoreSL
  <2>7. CASE Grant(c)
    BY <2>7 DEF Grant, AfterGrant, Answer
  <2>8. CASE Log(c) \/ LogFails(c)
    BY <2>8 DEF Log, LogFails, Record
  <2>9. CASE Refuse(c)
    BY <2>9 DEF Refuse, Refusal, Answer
  <2> QED BY <2>1, <2>2, <2>3, <2>4, <2>5, <2>6, <2>7, <2>8, <2>9 DEF Thread
<1> QED BY <1>2, <1>3

-----------------------------------------------------------------------------
\* Every step keeps the invariant.
LEMMA StepInv == IInv /\ [Next]_vars => IInv'
PROOF
<1> SUFFICES ASSUME IInv, [Next]_vars PROVE IInv'
  OBVIOUS
<1>1. ASSUME NEW c \in Clients, Client(c) PROVE IInv'
  <2>1. Accepted' = Accepted
    BY <1>1 DEF Client, Accepted
  <2> QED BY <1>1, <2>1, ClientTypes, ClientPlaces DEF IInv
<1>2. ASSUME server = "up", Main PROVE IInv'
  BY <1>2, MainInv
<1>3. ASSUME server = "up", NEW c \in Clients, Thread(c) PROVE IInv'
  BY <1>3, PlaceKept, ThreadTypes, ThreadPlaces DEF IInv
<1>4. CASE UNCHANGED vars
  <2>1. Accepted' = Accepted
    BY <1>4 DEF Accepted, vars
  <2> QED BY <1>4, <2>1 DEF vars, counters, clientVars, IInv, TypeOK, Places, Place,
                            OnItsWay, InThread, Replied
<1> QED BY <1>1, <1>2, <1>3, <1>4 DEF Next, Server

\* However the threads interleave and the clients die, the invariant holds.
THEOREM Invariance == Spec => []IInv
PROOF BY InitInv, StepInv, PTL DEF Spec

\* Every variable stays of its type, and the accepted clients fit the arrays of
\* main (server.c:253-270).
THEOREM TypeCorrect == Spec => []TypeOK
PROOF
<1>1. IInv => TypeOK
  BY DEF IInv
<1> QED BY <1>1, Invariance, PTL

\* While the server runs, the request of a client that waits is in exactly one
\* place: its connection, its thread, or the answer (handle_client in server.c, client.c).
THEOREM OneAnswer == Spec => []RequestInOnePlace
PROOF
<1>1. ASSUME IInv PROVE RequestInOnePlace
  <2> SUFFICES ASSUME NEW c \in Clients, menu[c] = "await", server = "up"
               PROVE  Cardinality({p \in {"inbox", "thread", "reply"} :
                        CASE p = "inbox" -> inbox[c].op # "none"
                          [] p = "thread" -> thread[c] \notin {"none", "read", "log", "ended"}
                          [] p = "reply" -> reply[c] # "none"}) = 1
    BY DEF RequestInOnePlace
  <2> DEFINE S == {p \in {"inbox", "thread", "reply"} :
                        CASE p = "inbox" -> inbox[c].op # "none"
                          [] p = "thread" -> thread[c] \notin {"none", "read", "log", "ended"}
                          [] p = "reply" -> reply[c] # "none"}
  <2>1. /\ "inbox" \in S <=> OnItsWay(c)
        /\ "thread" \in S <=> InThread(c)
        /\ "reply" \in S <=> Replied(c)
        /\ \A p \in S : p \in {"inbox", "thread", "reply"}
    BY DEF OnItsWay, InThread, Replied
  <2>2. Place(c)
    BY <1>1 DEF IInv, Places
  <2> HIDE DEF S
  <2>3. S = {"inbox"} \/ S = {"thread"} \/ S = {"reply"}
    BY <2>1, <2>2 DEF Place
  <2>4. Cardinality(S) = 1
    BY <2>3, FS_Singleton
  <2> QED BY <2>4 DEF S
<1> QED BY <1>1, Invariance, PTL

-----------------------------------------------------------------------------
(* Adding up the record file.  That the fold over it exists and grows with  *)
(* it is shown by induction, which follows from the well-foundedness of <.  *)

\* A set of natural numbers has a least element.
LEMMA Least ==
    ASSUME NEW T \in SUBSET Nat, T # {}
    PROVE  \E x \in T : \A y \in T : x <= y
PROOF
<1> DEFINE R == OpToRel(<, Nat)
<1>1. IsWellFoundedOn(R, Nat)
  BY NatLessThanWellFounded
<1>2. \A x, y \in Nat : <<x, y>> \in R <=> x < y
  BY DEF OpToRel
<1> HIDE DEF R
<1>3. PICK x \in T : \A y \in T : ~(<<y, x>> \in R)
  BY <1>1, WFMin
<1>4. \A y \in T : ~(y < x)
  BY <1>2, <1>3
<1> QED BY <1>4

\* A set with 0 and the successor of each of its numbers holds them all.
LEMMA Induction ==
    ASSUME NEW T, 0 \in T, \A n \in Nat : n \in T => n + 1 \in T
    PROVE  \A n \in Nat : n \in T
PROOF
<1> DEFINE U == Nat \ T
<1> SUFFICES ASSUME U # {} PROVE FALSE
  OBVIOUS
<1>1. PICK x \in U : \A y \in U : x <= y
  BY Least
<1>2. x # 0 /\ x - 1 \in Nat
  BY <1>1
<1>3. x - 1 \in T
  BY <1>1, <1>2
<1> QED BY <1>1, <1>2, <1>3

Amounts == [ac : Int, sl : Int]
Records == [client : Clients, ac : Int, sl : Int]

Add(who, total, record) == IF record.client \in who THEN Plus(total, record) ELSE total

\* it is the fold of the first n records, over all sets of indices.
Folds(it, who, s, n) ==
    it = [S \in SUBSET (1 .. n) |->
            IF S = {} THEN Nothing ELSE Add(who, it[S \ {Max(S)}], s[Max(S)])]
Fold(who, s, n) == CHOOSE it : Folds(it, who, s, n)

\* A total is the fold of the whole list.
LEMMA Unfold ==
    ASSUME NEW who, NEW s \in Seq(Records)
    PROVE  Total(s, who) = Fold(who, s, Len(s))[1 .. Len(s)]
PROOF
<1>1. DOMAIN s = 1 .. Len(s)
  OBVIOUS
<1> QED BY <1>1 DEF Total, FoldLeft, MapThenFoldSet, Fold, Folds, Add

\* FoldLeft takes the last of the indices off.
LEMMA MaxOfInterval == \A n \in Nat : \A S \in SUBSET (1 .. n + 1) : n + 1 \in S => Max(S) = n + 1
PROOF
<1> SUFFICES ASSUME NEW n \in Nat, NEW S \in SUBSET (1 .. n + 1), n + 1 \in S
             PROVE  Max(S) = n + 1
  OBVIOUS
<1>1. \A x \in S : x \in Int /\ x <= n + 1
  OBVIOUS
<1>2. \E x \in S : \A y \in S : x >= y
  BY <1>1
<1>3. Max(S) \in S /\ \A y \in S : Max(S) >= y
  BY <1>2 DEF Max
<1>4. Max(S) \in Int /\ Max(S) <= n + 1 /\ Max(S) >= n + 1
  BY <1>1, <1>3
<1> QED BY <1>4

\* There is such a function, so that the fold is one.
LEMMA FoldExists ==
    ASSUME NEW who, NEW s, NEW n \in Nat
    PROVE  \E it : Folds(it, who, s, n)
PROOF
<1> DEFINE T == {k \in Nat : \E it : Folds(it, who, s, k)}
<1>1. 0 \in T
  <2> DEFINE it == [S \in SUBSET (1 .. 0) |-> Nothing]
  <2>1. \A S \in SUBSET (1 .. 0) : S = {}
    OBVIOUS
  <2>2. it = [S \in SUBSET (1 .. 0) |->
            IF S = {} THEN Nothing ELSE Add(who, it[S \ {Max(S)}], s[Max(S)])]
    BY <2>1
  <2>3. Folds(it, who, s, 0)
    BY <2>2 DEF Folds
  <2> QED BY <2>3
<1>2. ASSUME NEW k \in Nat, k \in T PROVE k + 1 \in T
  <2>1. PICK it : Folds(it, who, s, k)
    BY <1>2
  <2> DEFINE h == [S \in SUBSET (1 .. k + 1) |->
                     IF k + 1 \in S THEN Add(who, it[S \ {k + 1}], s[k + 1]) ELSE it[S]]
             next(S) == IF S = {} THEN Nothing ELSE Add(who, h[S \ {Max(S)}], s[Max(S)])
  <2>2. ASSUME NEW S \in SUBSET (1 .. k + 1) PROVE h[S] = next(S)
    <3>1. \A U \in SUBSET (1 .. k + 1) : k + 1 \notin U => U \in SUBSET (1 .. k) /\ h[U] = it[U]
      OBVIOUS
    <3>2. CASE k + 1 \in S
      <4>1. S \ {k + 1} \in SUBSET (1 .. k + 1) /\ k + 1 \notin S \ {k + 1}
        OBVIOUS
      <4>2. Max(S) = k + 1
        BY <3>2, MaxOfInterval
      <4>3. h[S \ {k + 1}] = it[S \ {k + 1}]
        BY <3>1, <4>1
      <4>4. h[S] = Add(who, it[S \ {k + 1}], s[k + 1])
        BY <3>2
      <4> HIDE DEF h
      <4> QED BY <3>2, <4>2, <4>3, <4>4
    <3>3. CASE k + 1 \notin S
      <4>1. S \in SUBSET (1 .. k) /\ h[S] = it[S]
        BY <3>1, <3>3
      <4>2. it[S] = IF S = {} THEN Nothing ELSE Add(who, it[S \ {Max(S)}], s[Max(S)])
        BY <2>1, <4>1 DEF Folds
      <4>3. h[S \ {Max(S)}] = it[S \ {Max(S)}]
        BY <3>1, <3>3
      <4> HIDE DEF h
      <4> QED BY <4>1, <4>2, <4>3
    <3> QED BY <3>2, <3>3
  <2>3. h = [S \in SUBSET (1 .. k + 1) |-> h[S]]
    OBVIOUS
  <2>4. h = [S \in SUBSET (1 .. k + 1) |-> next(S)]
    BY <2>2, <2>3
  <2>5. Folds(h, who, s, k + 1)
    BY <2>4 DEF Folds
  <2> QED BY <2>5
<1>3. \A k \in Nat : k \in T
  <2> HIDE DEF T
  <2> QED BY <1>1, <1>2, Induction
<1> QED BY <1>3

\* The fold starts from nothing and adds the records in their order.
LEMMA FoldSteps ==
    ASSUME NEW who, NEW s, NEW n \in Nat
    PROVE  /\ Fold(who, s, n)[1 .. 0] = Nothing
           /\ \A k \in 0 .. n - 1 :
                Fold(who, s, n)[1 .. k + 1] = Add(who, Fold(who, s, n)[1 .. k], s[k + 1])
PROOF
<1> DEFINE it == Fold(who, s, n)
<1>1. Folds(it, who, s, n)
  BY FoldExists DEF Fold
<1>2. \A S \in SUBSET (1 .. n) :
         it[S] = IF S = {} THEN Nothing ELSE Add(who, it[S \ {Max(S)}], s[Max(S)])
  BY <1>1 DEF Folds
<1> HIDE DEF it
<1>3. it[1 .. 0] = Nothing
  <2>1. 1 .. 0 = {} /\ {} \in SUBSET (1 .. n)
    OBVIOUS
  <2> QED BY <1>2, <2>1
<1>4. ASSUME NEW k \in 0 .. n - 1
      PROVE  it[1 .. k + 1] = Add(who, it[1 .. k], s[k + 1])
  <2>1. 1 .. k + 1 \in SUBSET (1 .. n) /\ 1 .. k + 1 # {} /\ k + 1 \in 1 .. k + 1
    OBVIOUS
  <2>2. Max(1 .. k + 1) = k + 1
    BY <2>1, MaxOfInterval
  <2>3. (1 .. k + 1) \ {k + 1} = 1 .. k
    OBVIOUS
  <2> QED BY <1>2, <2>1, <2>2, <2>3
<1> QED BY <1>3, <1>4 DEF it

\* The fold of a prefix depends on the prefix alone.
LEMMA FoldsAgree ==
    ASSUME NEW who, NEW s, NEW t, NEW n \in Nat, NEW m \in Nat, n <= m,
           \A i \in 1 .. n : s[i] = t[i]
    PROVE  Fold(who, s, n)[1 .. n] = Fold(who, t, m)[1 .. n]
PROOF
<1> DEFINE f == Fold(who, s, n)
           g == Fold(who, t, m)
           T == {k \in Nat : k <= n => f[1 .. k] = g[1 .. k]}
<1>1. 0 \in T
  BY FoldSteps
<1>2. ASSUME NEW k \in Nat, k \in T PROVE k + 1 \in T
  <2> SUFFICES ASSUME k + 1 <= n PROVE f[1 .. k + 1] = g[1 .. k + 1]
    OBVIOUS
  <2>1. f[1 .. k] = g[1 .. k] /\ s[k + 1] = t[k + 1]
    BY <1>2
  <2>2. k \in 0 .. n - 1 /\ k \in 0 .. m - 1
    OBVIOUS
  <2>3. f[1 .. k + 1] = Add(who, f[1 .. k], s[k + 1])
    BY <2>2, FoldSteps
  <2>4. g[1 .. k + 1] = Add(who, g[1 .. k], t[k + 1])
    BY <2>2, FoldSteps
  <2> QED BY <2>1, <2>3, <2>4
<1>3. \A k \in Nat : k \in T
  <2> HIDE DEF T
  <2> QED BY <1>1, <1>2, Induction
<1> QED BY <1>3

\* One record more is one addition more.
LEMMA FoldAppend ==
    \A who, s, t : \A n \in Nat :
        (\A i \in 1 .. n : s[i] = t[i]) =>
            Fold(who, t, n + 1)[1 .. n + 1] = Add(who, Fold(who, s, n)[1 .. n], t[n + 1])
PROOF
<1> SUFFICES ASSUME NEW who, NEW s, NEW t, NEW n \in Nat, \A i \in 1 .. n : s[i] = t[i]
             PROVE  Fold(who, t, n + 1)[1 .. n + 1]
                      = Add(who, Fold(who, s, n)[1 .. n], t[n + 1])
  OBVIOUS
<1>1. n + 1 \in Nat /\ n \in 0 .. (n + 1) - 1 /\ n <= n + 1
  OBVIOUS
<1>2. Fold(who, t, n + 1)[1 .. n + 1] = Add(who, Fold(who, t, n + 1)[1 .. n], t[n + 1])
  BY <1>1, FoldSteps
<1>3. Fold(who, s, n)[1 .. n] = Fold(who, t, n + 1)[1 .. n]
  BY <1>1, FoldsAgree
<1> QED BY <1>2, <1>3

\* Adding a record gives numbers of tickets.
LEMMA AddType ==
    ASSUME NEW who, NEW total \in Amounts, NEW record \in Records
    PROVE  Add(who, total, record) \in Amounts
PROOF BY DEF Add, Plus, Amounts, Records

\* A list of no bookings adds up to nothing.
LEMMA TotalEmpty == \A who : Total(<< >>, who) = Nothing
PROOF
<1> SUFFICES ASSUME NEW who PROVE Total(<< >>, who) = Nothing
  OBVIOUS
<1>0. PICK s : s = << >>
  OBVIOUS
<1>1. s = << >> /\ s \in Seq(Records) /\ Len(s) = 0
  BY <1>0
<1>2. Total(s, who) = Fold(who, s, 0)[1 .. 0]
  BY <1>1, Unfold
<1>3. Fold(who, s, 0)[1 .. 0] = Nothing
  BY FoldSteps
<1> QED BY <1>1, <1>2, <1>3

\* Bookings add up to numbers of tickets.
LEMMA TotalType == \A who : \A s \in Seq(Records) : Total(s, who) \in Amounts
PROOF
<1> SUFFICES ASSUME NEW who, NEW s \in Seq(Records) PROVE Total(s, who) \in Amounts
  OBVIOUS
<1> DEFINE f == Fold(who, s, Len(s))
           T == {k \in Nat : k <= Len(s) => f[1 .. k] \in Amounts}
<1>1. 0 \in T
  BY FoldSteps DEF Nothing, Amounts
<1>2. ASSUME NEW k \in Nat, k \in T PROVE k + 1 \in T
  <2> SUFFICES ASSUME k + 1 <= Len(s) PROVE f[1 .. k + 1] \in Amounts
    OBVIOUS
  <2>1. f[1 .. k] \in Amounts /\ s[k + 1] \in Records
    BY <1>2
  <2>2. f[1 .. k + 1] = Add(who, f[1 .. k], s[k + 1])
    BY FoldSteps
  <2> QED BY <2>1, <2>2, AddType
<1>3. \A k \in Nat : k \in T
  <2> HIDE DEF T
  <2> QED BY <1>1, <1>2, Induction
<1> QED BY <1>3, Unfold

\* A booking more adds what it says to the total of its client.
LEMMA TotalAppend ==
    \A who : \A s \in Seq(Records), r \in Records :
        Total(Append(s, r), who) = Add(who, Total(s, who), r)
PROOF
<1> SUFFICES ASSUME NEW who, NEW s \in Seq(Records), NEW r \in Records
             PROVE  Total(Append(s, r), who) = Add(who, Total(s, who), r)
  OBVIOUS
<1>0. PICK t, n : t = Append(s, r) /\ n = Len(s)
  OBVIOUS
<1>1. /\ t \in Seq(Records) /\ n \in Nat /\ Len(t) = n + 1
      /\ \A i \in 1 .. n : s[i] = t[i]
      /\ t[n + 1] = r
  BY <1>0
<1>2. Total(t, who) = Fold(who, t, n + 1)[1 .. n + 1]
  BY <1>1, Unfold
<1>3. Total(s, who) = Fold(who, s, n)[1 .. n]
  BY <1>0, Unfold
<1>4. Fold(who, t, n + 1)[1 .. n + 1] = Add(who, Fold(who, s, n)[1 .. n], t[n + 1])
  <2>1. n \in Nat /\ \A i \in 1 .. n : s[i] = t[i]
    BY <1>1
  <2>2. \A m \in Nat : (\A i \in 1 .. m : s[i] = t[i]) =>
            Fold(who, t, m + 1)[1 .. m + 1] = Add(who, Fold(who, s, m)[1 .. m], t[m + 1])
    BY FoldAppend
  <2> QED BY <2>1, <2>2
<1>5. Fold(who, t, n + 1)[1 .. n + 1] = Add(who, Total(s, who), r)
  BY <1>1, <1>3, <1>4
<1> QED BY <1>0, <1>2, <1>5

\* The file says the same as long as nothing is added to it.
LEMMA RecordedSame == ASSUME log' = log PROVE \A who : Recorded(who)' = Recorded(who)
PROOF BY DEF Recorded

\* What a thread has in hand is a booking.
LEMMA BookingType ==
    ASSUME IInv, NEW c \in Clients
    PROVE  /\ Booking(c) \in Records /\ Booking(c).client = c
           /\ \A a : Plus(a, Booking(c)) = Plus(a, req[c])
           /\ req[c].ac \in Int /\ req[c].sl \in Int
PROOF
<1>1. req[c].ac \in Int /\ req[c].sl \in Int
  BY Numbers DEF IInv, TypeOK
<1> QED BY <1>1 DEF Booking, Records, Plus

\* A booking that is appended to a list adds to the totals of its client alone.
LEMMA BookingAdds ==
    ASSUME IInv, NEW c \in Clients, NEW s \in Seq(Records)
    PROVE  /\ Append(s, Booking(c)) \in Seq(Records)
           /\ \A who : Total(Append(s, Booking(c)), who)
                        = IF c \in who THEN Plus(Total(s, who), req[c]) ELSE Total(s, who)
PROOF
<1>1. Booking(c) \in Records /\ Booking(c).client = c
  BY BookingType
<1>2. \A a : Plus(a, Booking(c)) = Plus(a, req[c])
  BY BookingType
<1>3. PICK r : r = Booking(c)
  OBVIOUS
<1>4. \A who : Total(Append(s, r), who) = Add(who, Total(s, who), r)
  BY <1>1, <1>3, TotalAppend
<1> QED BY <1>1, <1>2, <1>3, <1>4 DEF Add

-----------------------------------------------------------------------------
(* How far the record file is behind.                                      *)

\* What the books of a client need: no answer waits for it unless it waits, and
\* what is carried out for it is what it asked for.
Faithful(c) ==
    /\ menu[c] \in {"start", "menu", "gone"} => ~Replied(c)
    /\ server = "up" /\ menu[c] = "await" =>
         /\ OnItsWay(c) => inbox[c] = asked[c]
         /\ InThread(c) => req[c] = asked[c]

Agree(c) ==
    menu[c] # "killed" =>
        Told(c) = IF thread[c] = "log" THEN Plus(Recorded({c}), req[c])
                                       ELSE Recorded({c})

Books ==
    /\ log \in Seq(Records) /\ tally \in [Clients -> Amounts]
    /\ \A c \in Clients : Faithful(c) /\ Agree(c)

LEMMA InitBooks == Init => Books
PROOF
<1> SUFFICES ASSUME Init PROVE Books
  OBVIOUS
<1>1. log \in Seq(Records) /\ tally \in [Clients -> Amounts]
  BY DEF Init, Amounts
<1>2. ASSUME NEW c \in Clients PROVE Faithful(c) /\ Agree(c)
  <2>1. Recorded({c}) = Nothing
    BY TotalEmpty DEF Init, Recorded
  <2>2. Told(c) = Nothing
    BY DEF Init, Told, Plus, Nothing
  <2> QED BY <2>1, <2>2, Numbers DEF Init, Faithful, Agree, Replied, OnItsWay, InThread
<1> QED BY <1>1, <1>2 DEF Books

\* A client that a step does not touch keeps its books.
LEMMA BooksKept ==
    ASSUME NEW d \in Clients, Faithful(d), Agree(d), server' = "up" => server = "up",
           menu'[d] = menu[d], asked'[d] = asked[d], tally'[d] = tally[d],
           inbox'[d] = inbox[d], reply'[d] = reply[d], thread'[d] = thread[d],
           req'[d] = req[d], Recorded({d})' = Recorded({d})
    PROVE  Faithful(d)' /\ Agree(d)'
PROOF BY DEF Faithful, Agree, Told, OnItsWay, InThread, Replied

\* A sum does not change with nothing added.
LEMMA PlusNothing == \A a \in Amounts : Plus(a, Nothing) = a /\ Plus(Nothing, a) = a
PROOF BY DEF Plus, Nothing, Amounts

\* A client asks when it has had every answer, and tallies what was granted.
LEMMA ClientBooks == ASSUME IInv, Books, NEW c \in Clients, Client(c) PROVE Books'
PROOF
<1>1. UNCHANGED <<log, server, thread, req>> /\ Faithful(c) /\ Agree(c)
  BY DEF Client, Books
<1>2. \A d \in Clients : Recorded({d})' = Recorded({d})
  BY <1>1, RecordedSame
<1>3. \A d \in Clients : d # c =>
         /\ menu'[d] = menu[d] /\ asked'[d] = asked[d] /\ tally'[d] = tally[d]
         /\ inbox'[d] = inbox[d] /\ reply'[d] = reply[d]
  <2>1. CASE Hello(c) \/ Book(c) \/ Bye(c)
    BY <2>1 DEF Hello, Book, Bye, Send, IInv, TypeOK
  <2>2. CASE Receive(c)
    BY <2>2 DEF Receive, IInv, TypeOK, Books
  <2>3. CASE ReceiveNothing(c) \/ Killed(c)
    BY <2>3 DEF ReceiveNothing, Killed, IInv, TypeOK
  <2> QED BY <2>1, <2>2, <2>3 DEF Client
<1>4. \A d \in Clients : d # c => Faithful(d)' /\ Agree(d)'
  BY <1>1, <1>2, <1>3, BooksKept DEF Books
<1>5. tally' \in [Clients -> Amounts] /\ Faithful(c)' /\ Agree(c)'
  <2>1. CASE Hello(c) \/ Book(c) \/ Bye(c)
    <3>1. PICK m : Send(c, m)
      BY <2>1 DEF Hello, Book, Bye
    <3>2. menu[c] \in {"start", "menu"}
      BY <2>1 DEF Hello, Book, Bye
    <3>3. /\ reply' = reply /\ tally' = tally /\ menu'[c] = "await" /\ asked'[c] = m
          /\ reply[c] = "none"
      BY <1>1, <3>1, <3>2 DEF Send, Faithful, Replied, IInv, TypeOK
    <3>4. Faithful(c)'
      <4>1. server = "up" => inbox'[c] = m /\ ~InThread(c)'
        BY <1>1, <3>1, <3>2 DEF Send, IInv, TypeOK, Places, Place, InThread
      <4> QED BY <1>1, <3>3, <4>1 DEF Faithful
    <3>5. Agree(c)'
      BY <1>1, <1>2, <3>2, <3>3 DEF Agree, Told
    <3> QED BY <3>3, <3>4, <3>5 DEF Books
  <2>2. CASE Receive(c)
    <3>1. /\ menu[c] = "await" /\ reply[c] # "none"
          /\ tally' = [tally EXCEPT ![c] = Tallied(c)] /\ asked' = asked /\ inbox' = inbox
          /\ reply' = [reply EXCEPT ![c] = "none"]
          /\ menu' = [menu EXCEPT ![c] = AfterReply(c)]
      BY <2>2 DEF Receive
    <3>2. /\ tally'[c] = Tallied(c) /\ reply'[c] = "none"
          /\ menu'[c] \in {"menu", "gone"}
      BY <3>1 DEF IInv, TypeOK, Books, AfterReply
    <3>3. tally[c] \in Amounts /\ asked[c].ac \in Int /\ asked[c].sl \in Int
      BY Numbers DEF Books, IInv, TypeOK
    <3>4. Tallied(c) \in Amounts
      BY <3>3 DEF Tallied, Amounts
    <3>5. Plus(Tallied(c), Nothing) = Told(c)
      BY <3>3 DEF Tallied, Told, Plus, Nothing, Amounts
    <3>6. Agree(c)'
      <4>1. Told(c)' = Plus(Tallied(c), Nothing)
        BY <3>1, <3>2 DEF Told
      <4> QED BY <1>1, <1>2, <3>1, <3>5, <4>1 DEF Agree
    <3>7. Faithful(c)'
      BY <3>2 DEF Faithful, Replied
    <3>8. tally' \in [Clients -> Amounts]
      BY <3>1, <3>4 DEF Books
    <3> QED BY <3>6, <3>7, <3>8
  <2>3. CASE ReceiveNothing(c)
    BY <1>1, <1>2, <2>3 DEF ReceiveNothing, AfterReply, Books, Faithful, Agree, Told, Replied,
                            IInv, TypeOK
  <2>4. CASE Killed(c)
    BY <2>4 DEF Killed, Books, Faithful, Agree, IInv, TypeOK
  <2> QED BY <2>1, <2>2, <2>3, <2>4 DEF Client
<1> QED BY <1>1, <1>4, <1>5 DEF Books

\* Accepting a client and returning from main touch no books.
LEMMA MainBooks == ASSUME IInv, Books, server = "up", Main PROVE Books'
PROOF
<1>1. /\ UNCHANGED <<log, req, menu, asked, tally, inbox, reply>>
      /\ \A d \in Clients : thread'[d] # thread[d] => thread[d] = "none" /\ thread'[d] = "read"
  BY DEF Main, JoinAll, Accept, AcceptFails, clientVars, IInv, TypeOK
<1>2. \A d \in Clients : Recorded({d})' = Recorded({d})
  BY <1>1, RecordedSame
<1>3. ASSUME NEW d \in Clients PROVE Faithful(d)' /\ Agree(d)'
  <2>1. InThread(d)' = InThread(d) /\ (thread'[d] = "log" <=> thread[d] = "log")
    BY <1>1 DEF InThread
  <2> QED BY <1>1, <1>2, <2>1 DEF Books, Faithful, Agree, Told, OnItsWay, Replied
<1> QED BY <1>1, <1>3 DEF Books

\* A thread's steps before the answer: it reads a request, checks it and takes
\* the tickets.
LEMMA WorkBooks ==
    ASSUME IInv, Books, NEW c \in Clients, server = "up", Thread(c),
           \/ ReadHello(c) \/ ReadRequest(c) \/ ReadBye(c) \/ ReadEnd(c) \/ ReadFails(c)
           \/ CheckAC(c) \/ CheckSL(c) \/ LoadAC(c) \/ StoreAC(c) \/ LoadSL(c) \/ StoreSL(c)
           \/ (LogFails(c) /\ UNCHANGED <<thread, log, req>>)
    PROVE  Books'
PROOF
<1>1. UNCHANGED <<log, menu, asked, tally>> /\ Faithful(c) /\ Agree(c) /\ Place(c)
  BY DEF Thread, clientVars, Books, IInv, Places, ReadHello, ReadRequest, ReadBye, ReadEnd,
         ReadFails, CheckAC, CheckSL, LoadAC, StoreAC, LoadSL, StoreSL, LogFails
<1>2. \A d \in Clients : Recorded({d})' = Recorded({d})
  BY <1>1, RecordedSame
<1>3. CASE ReadHello(c) \/ ReadRequest(c) \/ ReadBye(c) \/ ReadEnd(c) \/ ReadFails(c)
  <2>1. \A d \in Clients : d # c =>
          /\ inbox'[d] = inbox[d] /\ reply'[d] = reply[d]
          /\ thread'[d] = thread[d] /\ req'[d] = req[d]
    BY <1>3 DEF ReadHello, ReadRequest, ReadBye, ReadEnd, ReadFails, Goto, Answer, IInv, TypeOK
  <2>2. \A d \in Clients : d # c => Faithful(d)' /\ Agree(d)'
    BY <1>1, <1>2, <2>1, BooksKept DEF Books
  <2>3. thread[c] = "read" /\ thread'[c] # "log"
    BY <1>3 DEF ReadHello, ReadRequest, ReadBye, ReadEnd, ReadFails, Goto, IInv, TypeOK
  <2>4. reply'[c] = reply[c] \/ (reply'[c] \in {"hello", "bye"} /\ menu[c] = "await" /\ ~Replied(c))
    BY <1>1, <1>3 DEF ReadHello, ReadRequest, ReadBye, ReadEnd, ReadFails, Answer,
                      Place, OnItsWay, IInv, TypeOK
  <2>5. Faithful(c)'
    <3>1. menu[c] \in {"start", "menu", "gone"} => ~Replied(c)'
      BY <1>1, <2>4 DEF Faithful, Replied
    <3>2. ASSUME server' = "up", menu[c] = "await"
          PROVE  /\ OnItsWay(c)' => inbox'[c] = asked[c]
                 /\ InThread(c)' => req'[c] = asked[c]
      <4>1. CASE ReadRequest(c)
        <5>1. inbox[c] = asked[c]
          BY <1>1, <3>2, <4>1 DEF ReadRequest, Faithful, OnItsWay
        <5> QED BY <4>1, <5>1, Numbers DEF ReadRequest, OnItsWay, IInv, TypeOK
      <4>2. CASE ReadHello(c) \/ ReadBye(c) \/ ReadEnd(c) \/ ReadFails(c)
        <5>1. ~InThread(c)'
          BY <2>3, <4>2 DEF ReadHello, ReadBye, ReadEnd, ReadFails, Goto, InThread, IInv, TypeOK
        <5>2. inbox'[c] = inbox[c] \/ ~OnItsWay(c)'
          BY <4>2, Numbers DEF ReadHello, ReadBye, ReadEnd, ReadFails, OnItsWay, IInv, TypeOK
        <5> QED BY <1>1, <3>2, <5>1, <5>2 DEF Faithful, OnItsWay
      <4> QED BY <1>3, <4>1, <4>2
    <3> QED BY <1>1, <3>1, <3>2 DEF Faithful
  <2>6. Agree(c)'
    <3>1. reply'[c] = "200" <=> reply[c] = "200"
      BY <2>4 DEF Replied
    <3> QED BY <1>1, <1>2, <2>3, <3>1 DEF Agree, Told
  <2> QED BY <1>1, <2>2, <2>5, <2>6 DEF Books
<1>4. CASE \/ CheckAC(c) \/ CheckSL(c) \/ LoadAC(c) \/ StoreAC(c) \/ LoadSL(c) \/ StoreSL(c)
           \/ (LogFails(c) /\ UNCHANGED <<thread, log, req>>)
  <2>1. /\ UNCHANGED <<req, inbox, reply>> /\ (server' = "up" => server = "up")
        /\ \A d \in Clients : d # c => thread'[d] = thread[d]
        /\ thread'[c] = "log" <=> thread[c] = "log"
        /\ server' = "up" => InThread(c)
    BY <1>4 DEF CheckAC, CheckSL, LoadAC, StoreAC, LoadSL, StoreSL, LogFails, Goto, InThread,
                IInv, TypeOK
  <2>2. \A d \in Clients : d # c => Faithful(d)' /\ Agree(d)'
    BY <1>1, <1>2, <2>1, BooksKept DEF Books
  <2>3. Faithful(c)' /\ Agree(c)'
    BY <1>1, <1>2, <2>1 DEF Faithful, Agree, Told, OnItsWay, InThread, Replied
  <2> QED BY <1>1, <2>2, <2>3 DEF Books
<1> QED BY <1>3, <1>4

\* A granted booking is told to the client that waits for it before it is recorded.
LEMMA GrantBooks ==
    ASSUME IInv, Books, NEW c \in Clients, server = "up", Thread(c), Grant(c) \/ Refuse(c)
    PROVE  Books'
PROOF
<1>1. UNCHANGED <<log, menu, asked, tally, inbox, server>> /\ Faithful(c) /\ Agree(c) /\ Place(c)
  BY DEF Thread, clientVars, Books, IInv, Places, Grant, Refuse
<1>2. \A d \in Clients : Recorded({d})' = Recorded({d})
  BY <1>1, RecordedSame
<1>3. \A d \in Clients : d # c =>
         reply'[d] = reply[d] /\ thread'[d] = thread[d] /\ req'[d] = req[d]
  BY DEF Grant, Refuse, Goto, Answer, IInv, TypeOK
<1>4. \A d \in Clients : d # c => Faithful(d)' /\ Agree(d)'
  BY <1>1, <1>2, <1>3, BooksKept DEF Books
<1>5. menu[c] = "killed" \/ (menu[c] = "await" /\ ~Replied(c) /\ req[c] = asked[c] /\ ~OnItsWay(c))
  BY <1>1 DEF Grant, Refuse, Goto, Place, InThread, Faithful, IInv, TypeOK
<1>6. CASE menu[c] = "killed"
  <2>1. Faithful(c)' /\ Agree(c)'
    BY <1>1, <1>6 DEF Faithful, Agree
  <2> QED BY <1>1, <1>4, <2>1 DEF Books
<1>7. CASE menu[c] = "await" /\ ~Replied(c) /\ req[c] = asked[c] /\ ~OnItsWay(c)
  <2>1. Recorded({c}) = tally[c]
    <3>1. Recorded({c}) = Plus(tally[c], Nothing)
      BY <1>1, <1>7 DEF Grant, Refuse, Goto, Agree, Told, Replied
    <3>2. tally[c] \in Amounts
      BY DEF Books
    <3> QED BY <3>1, <3>2, PlusNothing
  <2>2. ~InThread(c)' /\ ~OnItsWay(c)'
    BY <1>1, <1>7 DEF Grant, Refuse, Goto, AfterGrant, InThread, OnItsWay, IInv, TypeOK
  <2>3. \/ thread'[c] = "log" /\ reply'[c] = "200" /\ req'[c] = req[c]
        \/ thread'[c] = "read" /\ reply'[c] = "201"
    BY <1>7 DEF Grant, Refuse, Goto, AfterGrant, Refusal, Answer, IInv, TypeOK
  <2>4. Faithful(c)'
    BY <1>1, <1>7, <2>2 DEF Faithful
  <2>5. Agree(c)'
    <3>1. Plus(tally[c], Nothing) = tally[c]
      BY PlusNothing DEF Books
    <3> QED BY <1>1, <1>2, <1>7, <2>1, <2>3, <3>1 DEF Agree, Told
  <2> QED BY <1>1, <1>4, <2>4, <2>5 DEF Books
<1> QED BY <1>5, <1>6, <1>7

\* The record that is made is of what was granted.
LEMMA RecordBooks ==
    ASSUME IInv, Books, NEW c \in Clients, Record(c), server' \in {server, "exited"},
           UNCHANGED <<menu, asked, tally, inbox, reply>>
    PROVE  Books'
PROOF
<1>1. /\ thread[c] = "log" /\ log' = Append(log, Booking(c))
      /\ thread' = [thread EXCEPT ![c] = "read"] /\ req' = [req EXCEPT ![c] = NoRequest]
  BY DEF Record, Goto
<1>2. log' \in Seq(Records)
  BY <1>1, BookingAdds DEF Books
<1>3. \A d \in Clients : Recorded({d})' = IF d = c THEN Plus(Recorded({d}), req[c]) ELSE Recorded({d})
  BY <1>1, BookingAdds DEF Books, Recorded
<1>4. \A d \in Clients : d # c => thread'[d] = thread[d] /\ req'[d] = req[d]
  BY <1>1 DEF IInv, TypeOK
<1>5. server' = "up" => server = "up"
  OBVIOUS
<1>6. \A d \in Clients : d # c => Faithful(d)' /\ Agree(d)'
  BY <1>3, <1>4, <1>5, BooksKept DEF Books
<1>7. thread'[c] = "read" /\ Faithful(c) /\ Agree(c)
  BY <1>1 DEF IInv, TypeOK, Books
<1>8. Faithful(c)'
  BY <1>5, <1>7 DEF Faithful, OnItsWay, InThread, Replied
<1>9. Agree(c)'
  BY <1>1, <1>3, <1>7 DEF Agree, Told
<1>10. tally' \in [Clients -> Amounts]
  BY DEF Books
<1> QED BY <1>2, <1>6, <1>8, <1>9, <1>10 DEF Books

\* Every step keeps the books.
LEMMA StepBooks == IInv /\ Books /\ [Next]_vars => Books'
PROOF
<1> SUFFICES ASSUME IInv, Books, [Next]_vars PROVE Books'
  OBVIOUS
<1>1. ASSUME NEW c \in Clients, Client(c) PROVE Books'
  BY <1>1, ClientBooks
<1>2. ASSUME server = "up", Main PROVE Books'
  BY <1>2, MainBooks
<1>3. ASSUME server = "up", NEW c \in Clients, Thread(c) PROVE Books'
  <2>1. CASE Log(c) \/ (LogFails(c) /\ Record(c))
    <3>1. Record(c) /\ server' \in {server, "exited"} /\ UNCHANGED <<menu, asked, tally, inbox, reply>>
      BY <1>3, <2>1 DEF Thread, clientVars, Log, LogFails
    <3> QED BY <3>1, RecordBooks
  <2>2. CASE Grant(c) \/ Refuse(c)
    BY <1>3, <2>2, GrantBooks
  <2>3. CASE LogFails(c) /\ ~Record(c)
    <3>1. UNCHANGED <<thread, log, req>>
      BY <2>3 DEF LogFails
    <3> QED BY <1>3, <2>3, <3>1, WorkBooks
  <2>4. CASE \/ ReadHello(c) \/ ReadRequest(c) \/ ReadBye(c) \/ ReadEnd(c) \/ ReadFails(c)
             \/ CheckAC(c) \/ CheckSL(c) \/ LoadAC(c) \/ StoreAC(c) \/ LoadSL(c) \/ StoreSL(c)
    BY <1>3, <2>4, WorkBooks
  <2> QED BY <1>3, <2>1, <2>2, <2>3, <2>4 DEF Thread
<1>4. CASE UNCHANGED vars
  <2>1. \A d \in Clients : Recorded({d})' = Recorded({d})
    BY <1>4, RecordedSame DEF vars
  <2>2. \A d \in Clients : Faithful(d)' /\ Agree(d)'
    BY <1>4, <2>1, BooksKept DEF Books, vars
  <2> QED BY <1>4, <2>2 DEF Books, vars
<1> QED BY <1>1, <1>2, <1>3, <1>4 DEF Next, Server

\* The record file is behind what a client that lives was told by the one booking
\* its thread is about to write, and by no other, whatever fails (handle_client in
\* server.c:105-177, client.c).
THEOREM RecordsFollow == Spec => []OneRecordBehind
PROOF
<1>1. Books => OneRecordBehind
  BY DEF Books, Agree, OneRecordBehind
<1>2. Init => Books
  BY InitBooks
<1>3. IInv /\ Books /\ [Next]_vars => Books'
  BY StepBooks
<1> QED BY <1>1, <1>2, <1>3, Invariance, PTL DEF Spec

-----------------------------------------------------------------------------
(* What is sold.                                                           *)

Bookings == {"check AC", "check SL", "load AC", "store AC", "load SL", "store SL",
             "grant", "log", "refuse"}

\* A booking is of counts that a user may type.
Counted(c) ==
    /\ inbox[c].op = "REQ" => inbox[c].ac \in Counts /\ inbox[c].sl \in Counts
    /\ thread[c] \in Bookings => req[c].ac \in Counts /\ req[c].sl \in Counts

\* What a thread has compared and loaded still holds.
Checked(c) ==
    /\ thread[c] \in {"check SL", "load AC", "store AC"} => req[c].ac <= AC
    /\ thread[c] \in {"load AC", "store AC", "load SL", "store SL"} => req[c].sl <= SL
    /\ thread[c] = "store AC" => temp[c] = AC
    /\ thread[c] = "store SL" => temp[c] = SL

\* The tickets that are left and those sold are all the tickets.
Balanced ==
    /\ 0 <= AC /\ AC + Sold(Clients).ac = AC_NUM
    /\ 0 <= SL - ToStore /\ SL - ToStore + Sold(Clients).sl = SL_NUM

Alone == \A c, d \in Selling : c = d

Accounted(c) == Sold({c}) = IF Granting(c) THEN Plus(Recorded({c}), req[c])
                                           ELSE Recorded({c})

SInv ==
    /\ sales \in Seq(Records) /\ overlapped \in BOOLEAN
    /\ \A c \in Clients : Counted(c) /\ Accounted(c)
    /\ ~overlapped => Alone /\ Balanced /\ \A c \in Clients : Checked(c)

\* A total that is all of what there was is at most that.
LEMMA NoMore == \A a, b, n \in Int : 0 <= a /\ a + b = n => b <= n
PROOF OBVIOUS

\* What is still to be stored of the tickets taken.
LEMMA Storer ==
    ASSUME \A c, d \in Clients : Storing(c) /\ Storing(d) => c = d
    PROVE  /\ \A c \in Clients : Storing(c) => ToStore = req[c].sl
           /\ (\A c \in Clients : ~Storing(c)) => ToStore = 0
PROOF
<1>1. ASSUME NEW c \in Clients, Storing(c) PROVE ToStore = req[c].sl
  <2>1. \A d \in Clients : Storing(d) => d = c
    BY <1>1
  <2>2. (CHOOSE d \in Clients : Storing(d)) = c
    BY <1>1, <2>1
  <2> QED BY <1>1, <2>2 DEF ToStore
<1>2. (\A c \in Clients : ~Storing(c)) => ToStore = 0
  BY DEF ToStore
<1> QED BY <1>1, <1>2

LEMMA ToStoreType == IInv => ToStore \in Int
PROOF
<1> SUFFICES ASSUME IInv PROVE ToStore \in Int
  OBVIOUS
<1>1. CASE \E c \in Clients : Storing(c)
  <2>1. PICK d \in Clients : d = CHOOSE c \in Clients : Storing(c)
    BY <1>1
  <2>2. ToStore = req[d].sl /\ req[d] \in Request \cup {NoRequest}
    BY <1>1, <2>1 DEF ToStore, IInv, TypeOK
  <2> QED BY <2>2, Numbers
<1>2. CASE ~ \E c \in Clients : Storing(c)
  BY <1>2 DEF ToStore
<1> QED BY <1>1, <1>2

LEMMA ToStoreTypeNext == IInv' => (ToStore \in Int)'
PROOF BY ToStoreType, PTL

LEMMA InitSales == SalesInit => SInv
PROOF
<1> SUFFICES ASSUME SalesInit PROVE SInv
  OBVIOUS
<1>1. Init /\ sales = << >> /\ overlapped = FALSE
  BY DEF SalesInit
<1>2. sales \in Seq(Records) /\ overlapped \in BOOLEAN
  <2>1. sales \in Seq(Records)
    BY <1>1
  <2>2. overlapped \in BOOLEAN
    BY <1>1
  <2> QED BY <2>1, <2>2
<1>3. \A who : Sold(who) = Nothing /\ Recorded(who) = Nothing
  BY <1>1, TotalEmpty DEF Init, Sold, Recorded
<1>4. ASSUME NEW c \in Clients
      PROVE  Counted(c) /\ Accounted(c) /\ Checked(c) /\ ~Storing(c) /\ c \notin Selling
  BY <1>1, <1>3, Numbers
     DEF Init, Counted, Checked, Accounted, Granting, Storing, Bookings, Selling
<1>5. Alone
  BY <1>4 DEF Alone, Selling
<1>6. Balanced
  <2>1. ToStore = 0 /\ AC = AC_NUM /\ SL = SL_NUM /\ AC_NUM \in Nat /\ SL_NUM \in Nat
    BY <1>1, <1>4, Storer, ReservationAssumption DEF Init
  <2>2. Sold(Clients).ac = 0 /\ Sold(Clients).sl = 0
    BY <1>3 DEF Nothing
  <2> QED BY <2>1, <2>2 DEF Balanced
<1> QED BY <1>2, <1>4, <1>5, <1>6 DEF SInv

\* The steps of a thread that neither take tickets nor record.
LEMMA QuietThread ==
    ASSUME IInv, NEW c \in Clients, Thread(c), ~(StoreAC(c) \/ StoreSL(c) \/ Record(c))
    PROVE  /\ UNCHANGED <<AC, SL, log>>
           /\ \A d \in Clients : /\ Granting(d)' <=> Granting(d)
                                 /\ Storing(d)' <=> Storing(d)
                                 /\ Granting(d) => req'[d] = req[d]
           /\ \A d \in Clients : d # c =>
                /\ thread'[d] = thread[d] /\ req'[d] = req[d] /\ temp'[d] = temp[d]
                /\ inbox'[d] = inbox[d]
           /\ \A d \in Clients : ~Sells(d)
PROOF
<1>0. \/ ReadHello(c) \/ ReadRequest(c) \/ ReadBye(c) \/ ReadEnd(c) \/ ReadFails(c)
      \/ CheckAC(c) \/ CheckSL(c) \/ LoadAC(c) \/ LoadSL(c) \/ Grant(c) \/ LogFails(c)
      \/ Refuse(c)
  BY DEF Thread, Log
<1> DEFINE Lost == LogFails(c) /\ UNCHANGED <<thread, log, req>>
<1>a. LogFails(c) => Lost
  BY DEF LogFails
<1>1. UNCHANGED <<AC, SL, log>>
  BY <1>0, <1>a DEF counters, ReadHello, ReadRequest, ReadBye, ReadEnd, ReadFails, CheckAC, CheckSL,
         LoadAC, LoadSL, Grant, LogFails, Refuse
<1>2. \A d \in Clients : d # c =>
         /\ thread'[d] = thread[d] /\ req'[d] = req[d] /\ temp'[d] = temp[d]
         /\ inbox'[d] = inbox[d]
  BY <1>0, <1>a DEF ReadHello, ReadRequest, ReadBye, ReadEnd, ReadFails, CheckAC, CheckSL, Goto,
         LoadAC, LoadSL, Grant, LogFails, Refuse, IInv, TypeOK
<1>3. /\ Granting(c)' <=> Granting(c)
      /\ Storing(c)' <=> Storing(c)
      /\ Granting(c) => req'[c] = req[c]
      /\ ~Sells(c)
  <2>1. CASE ReadHello(c) \/ ReadRequest(c) \/ ReadBye(c) \/ ReadEnd(c) \/ ReadFails(c)
    BY <2>1 DEF ReadHello, ReadRequest, ReadBye, ReadEnd, ReadFails, Goto, Granting, Storing,
                Sells, IInv, TypeOK
  <2>2. CASE CheckAC(c) \/ CheckSL(c) \/ LoadAC(c) \/ LoadSL(c)
    BY <2>2 DEF CheckAC, CheckSL, LoadAC, LoadSL, Goto, Granting, Storing, Sells, IInv, TypeOK
  <2>3. CASE Grant(c) \/ Refuse(c)
    BY <2>3 DEF Grant, AfterGrant, Refuse, Goto, Granting, Storing, Sells, IInv, TypeOK
  <2>4. CASE LogFails(c)
    BY <1>a, <2>4 DEF LogFails, Granting, Storing, Sells
  <2> QED BY <1>0, <2>1, <2>2, <2>3, <2>4
<1>4. \A d \in Clients : d # c =>
         (Granting(d)' <=> Granting(d)) /\ (Storing(d)' <=> Storing(d)) /\ ~Sells(d)
  BY <1>2 DEF Granting, Storing, Sells
<1> QED BY <1>1, <1>2, <1>3, <1>4

\* A step that concerns no booking, or leaves it where it was.
Still == /\ UNCHANGED <<AC, SL, log, sales>>
         /\ \A d \in Clients : /\ Granting(d)' <=> Granting(d)
                               /\ Storing(d)' <=> Storing(d)
                               /\ Granting(d) => req'[d] = req[d]

\* What a step does to what is sold and recorded.
LEMMA Effects ==
    ASSUME IInv, Books, [SalesNext]_salesVars
    PROVE  \/ Still
           \/ \E c \in Clients : Thread(c) /\ StoreAC(c) /\ sales' = Append(sales, Booking(c))
           \/ \E c \in Clients : Thread(c) /\ StoreSL(c) /\ sales' = sales
           \/ \E c \in Clients : Thread(c) /\ Record(c) /\ UNCHANGED <<AC, SL, sales>>
PROOF
<1>1. CASE UNCHANGED salesVars
  BY <1>1 DEF salesVars, vars, Still, Granting, Storing
<1>2. CASE SalesNext
  <2>1. (\A c \in Clients : ~Sells(c)) => sales' = sales
    BY <1>2 DEF SalesNext
  <2>2. ASSUME NEW c \in Clients, Client(c) PROVE Still
    <3>1. UNCHANGED <<AC, SL, log, thread, req>>
      BY <2>2 DEF Client, counters
    <3> QED BY <2>1, <3>1 DEF Still, Granting, Storing, Sells
  <2>3. ASSUME Main PROVE Still
    <3>1. /\ UNCHANGED <<AC, SL, log, req>>
          /\ \A d \in Clients : thread'[d] # thread[d] => thread[d] = "none" /\ thread'[d] = "read"
      BY <2>3 DEF Main, JoinAll, Accept, AcceptFails, counters, IInv, TypeOK
    <3>2. \A d \in Clients : /\ ~Sells(d)
                             /\ Granting(d)' <=> Granting(d)
                             /\ Storing(d)' <=> Storing(d)
      BY <3>1 DEF Granting, Storing, Sells
    <3> QED BY <2>1, <3>1, <3>2 DEF Still
  <2>4. ASSUME NEW c \in Clients, Thread(c), ~(StoreAC(c) \/ StoreSL(c) \/ Record(c)) PROVE Still
    BY <2>1, <2>4, QuietThread DEF Still
  <2>5. ASSUME NEW c \in Clients, Thread(c), StoreAC(c) PROVE sales' = Append(sales, Booking(c))
    <3>1. Sells(c) /\ \A d \in Clients : d # c => ~Sells(d)
      BY <2>5 DEF StoreAC, Goto, Sells, IInv, TypeOK
    <3> QED BY <1>2, <3>1 DEF SalesNext
  <2>6. ASSUME NEW c \in Clients, Thread(c), StoreSL(c) \/ Record(c) PROVE sales' = sales
    <3>1. \A d \in Clients : ~Sells(d)
      BY <2>6 DEF StoreSL, Record, Goto, Sells, IInv, TypeOK
    <3> QED BY <2>1, <3>1
  <2>7. ASSUME NEW c \in Clients, Thread(c), Record(c) PROVE UNCHANGED <<AC, SL>>
    <3>1. Log(c) \/ LogFails(c)
      BY <2>7 DEF Thread, ReadHello, ReadRequest, ReadBye, ReadEnd, ReadFails, CheckAC, CheckSL,
                  LoadAC, StoreAC, LoadSL, StoreSL, Grant, Refuse, Record, Goto
    <3> QED BY <3>1 DEF Log, LogFails, counters
  <2> QED BY <1>2, <2>2, <2>3, <2>4, <2>5, <2>6, <2>7 DEF SalesNext, Next, Server
<1> QED BY <1>1, <1>2

\* What is sold is of numbers of tickets.
LEMMA SoldType ==
    ASSUME SInv
    PROVE  \A who : Sold(who) \in Amounts /\ Sold(who).ac \in Int /\ Sold(who).sl \in Int
PROOF
<1>1. \A who : Sold(who) \in Amounts
  BY TotalType DEF SInv, Sold
<1> QED BY <1>1 DEF Amounts

LEMMA SoldSame == ASSUME sales' = sales PROVE \A who : Sold(who)' = Sold(who)
PROOF BY DEF Sold

\* The file accounts for what is sold.
LEMMA StepAccounted ==
    ASSUME IInv, Books, SInv, [SalesNext]_salesVars
    PROVE  sales' \in Seq(Records) /\ \A c \in Clients : Accounted(c)'
PROOF
<1>0. sales \in Seq(Records) /\ log \in Seq(Records) /\ \A c \in Clients : Accounted(c)
  BY DEF SInv, Books
<1>1. CASE Still
  <2>1. \A who : Sold(who)' = Sold(who) /\ Recorded(who)' = Recorded(who)
    BY <1>1, SoldSame, RecordedSame DEF Still
  <2> QED BY <1>0, <1>1, <2>1 DEF Still, Accounted
<1>2. ASSUME NEW c \in Clients, Thread(c), StoreAC(c), sales' = Append(sales, Booking(c))
      PROVE  sales' \in Seq(Records) /\ \A d \in Clients : Accounted(d)'
  <2>1. /\ thread[c] = "store AC" /\ thread' = [thread EXCEPT ![c] = "load SL"]
        /\ UNCHANGED <<log, req>>
    BY <1>2 DEF StoreAC, Goto
  <2>2. /\ \A d \in Clients : d # c => (Granting(d)' <=> Granting(d))
        /\ ~Granting(c) /\ Granting(c)'
    BY <2>1 DEF Granting, IInv, TypeOK
  <2>3. \A who : Recorded(who)' = Recorded(who)
    BY <2>1, RecordedSame
  <2>4. \A d \in Clients : Sold({d})' = IF d = c THEN Plus(Sold({d}), req[c]) ELSE Sold({d})
    BY <1>0, <1>2, BookingAdds DEF Sold
  <2>5. sales' \in Seq(Records)
    BY <1>0, <1>2, BookingAdds
  <2> QED BY <1>0, <2>1, <2>2, <2>3, <2>4, <2>5 DEF Accounted
<1>3. ASSUME NEW c \in Clients, StoreSL(c), sales' = sales
      PROVE  sales' \in Seq(Records) /\ \A d \in Clients : Accounted(d)'
  <2>1. /\ thread[c] = "store SL" /\ thread' = [thread EXCEPT ![c] = "grant"]
        /\ UNCHANGED <<log, req>>
    BY <1>3 DEF StoreSL, Goto
  <2>2. \A d \in Clients : Granting(d)' <=> Granting(d)
    BY <2>1 DEF Granting, IInv, TypeOK
  <2>3. \A who : Sold(who)' = Sold(who) /\ Recorded(who)' = Recorded(who)
    BY <1>3, <2>1, SoldSame, RecordedSame
  <2> QED BY <1>0, <1>3, <2>1, <2>2, <2>3 DEF Accounted
<1>4. ASSUME NEW c \in Clients, Record(c), sales' = sales
      PROVE  sales' \in Seq(Records) /\ \A d \in Clients : Accounted(d)'
  <2>1. /\ thread[c] = "log" /\ thread' = [thread EXCEPT ![c] = "read"]
        /\ log' = Append(log, Booking(c)) /\ \A d \in Clients : d # c => req'[d] = req[d]
    BY <1>4 DEF Record, Goto, IInv, TypeOK
  <2>2. /\ \A d \in Clients : d # c => (Granting(d)' <=> Granting(d))
        /\ Granting(c) /\ ~Granting(c)'
    BY <2>1 DEF Granting, IInv, TypeOK
  <2>3. \A who : Sold(who)' = Sold(who)
    BY <1>4, SoldSame
  <2>4. \A d \in Clients :
           Recorded({d})' = IF d = c THEN Plus(Recorded({d}), req[c]) ELSE Recorded({d})
    BY <1>0, <2>1, BookingAdds DEF Recorded
  <2> QED BY <1>0, <1>4, <2>1, <2>2, <2>3, <2>4 DEF Accounted
<1> QED BY <1>1, <1>2, <1>3, <1>4, Effects

\* What a client asks for is of counts that a user may type.
LEMMA StepCounted ==
    ASSUME IInv, \A c \in Clients : Counted(c), [Next]_vars
    PROVE  \A c \in Clients : Counted(c)'
PROOF
<1>1. ASSUME NEW c \in Clients, Client(c), NEW d \in Clients PROVE Counted(d)'
  <2>1. UNCHANGED <<thread, req>>
    BY <1>1 DEF Client
  <2>2. CASE Hello(c) \/ Bye(c)
    <3>1. PICK op \in {"HI", "BYE"} : Send(c, [op |-> op, ac |-> 0, sl |-> 0])
      BY <2>2 DEF Hello, Bye
    <3> QED BY <2>1, <3>1 DEF Send, Counted, IInv, TypeOK
  <2>3. CASE Book(c)
    <3>1. PICK ac, sl \in Counts : Send(c, [op |-> "REQ", ac |-> ac, sl |-> sl])
      BY <2>3 DEF Book
    <3> QED BY <2>1, <3>1 DEF Send, Counted, IInv, TypeOK
  <2>4. CASE Receive(c) \/ ReceiveNothing(c) \/ Killed(c)
    BY <2>1, <2>4 DEF Receive, ReceiveNothing, Killed, Counted
  <2> QED BY <1>1, <2>2, <2>3, <2>4 DEF Client
<1>2. ASSUME Main, NEW d \in Clients PROVE Counted(d)'
  BY <1>2 DEF Main, JoinAll, Accept, AcceptFails, Counted, Bookings, IInv, TypeOK
<1>3. ASSUME NEW c \in Clients, Thread(c), NEW d \in Clients PROVE Counted(d)'
  <2> USE Numbers DEF Goto, Counted, Bookings, IInv, TypeOK
  <2>1. CASE ReadHello(c) \/ ReadBye(c) \/ ReadEnd(c) \/ ReadFails(c)
    BY <2>1 DEF ReadHello, ReadBye, ReadEnd, ReadFails
  <2>2. CASE ReadRequest(c)
    BY <2>2 DEF ReadRequest
  <2>3. CASE CheckAC(c) \/ CheckSL(c) \/ LoadAC(c) \/ StoreAC(c)
    BY <2>3 DEF CheckAC, CheckSL, LoadAC, StoreAC
  <2>4. CASE LoadSL(c) \/ StoreSL(c) \/ Grant(c)
    BY <2>4 DEF LoadSL, StoreSL, Grant, AfterGrant
  <2>5. CASE Log(c) \/ LogFails(c) \/ Refuse(c)
    BY <2>5 DEF Log, LogFails, Record, Refuse
  <2> QED BY <1>3, <2>1, <2>2, <2>3, <2>4, <2>5 DEF Thread
<1>4. CASE UNCHANGED vars
  BY <1>4 DEF vars, Counted
<1> QED BY <1>1, <1>2, <1>3, <1>4 DEF Next, Server

\* As long as no two bookings overlap, nobody changes what a thread has compared
\* and loaded.
LEMMA StepChecked ==
    ASSUME IInv, Alone, \A c \in Clients : Checked(c), [Next]_vars
    PROVE  \A c \in Clients : Checked(c)'
PROOF
<1>1. ASSUME NEW c \in Clients, Client(c) PROVE \A d \in Clients : Checked(d)'
  BY <1>1 DEF Client, counters, Checked
<1>2. ASSUME Main PROVE \A d \in Clients : Checked(d)'
  <2>1. /\ UNCHANGED <<AC, SL, req, temp>>
        /\ \A d \in Clients : thread'[d] # thread[d] => thread[d] = "none" /\ thread'[d] = "read"
    BY <1>2 DEF Main, JoinAll, Accept, AcceptFails, counters, IInv, TypeOK
  <2> QED BY <2>1 DEF Checked
<1>3. ASSUME NEW c \in Clients, Thread(c), ~(StoreAC(c) \/ StoreSL(c) \/ Record(c))
      PROVE  \A d \in Clients : Checked(d)'
  <2>1. /\ UNCHANGED <<AC, SL>>
        /\ \A d \in Clients : d # c =>
             thread'[d] = thread[d] /\ req'[d] = req[d] /\ temp'[d] = temp[d]
    BY <1>3, QuietThread
  <2>2. \A d \in Clients : d # c => Checked(d)'
    BY <2>1 DEF Checked
  <2>3. Checked(c) /\ req[c].ac \in Int /\ req[c].sl \in Int
    BY Numbers DEF IInv, TypeOK
  <2>4. CASE \/ ReadHello(c) \/ ReadRequest(c) \/ ReadBye(c) \/ ReadEnd(c) \/ ReadFails(c)
             \/ Grant(c) \/ Refuse(c)
    <3>1. thread'[c] \notin {"check SL", "load AC", "store AC", "load SL", "store SL"}
      BY <2>4 DEF ReadHello, ReadRequest, ReadBye, ReadEnd, ReadFails, Grant, AfterGrant, Refuse,
                  Goto, IInv, TypeOK
    <3> QED BY <2>2, <3>1 DEF Checked
  <2>5. CASE CheckAC(c) \/ CheckSL(c)
    BY <2>1, <2>3, <2>5 DEF CheckAC, CheckSL, EnoughSL, Goto, Checked, IInv, TypeOK
  <2>6. CASE LoadAC(c) \/ LoadSL(c)
    BY <2>1, <2>3, <2>6 DEF LoadAC, LoadSL, Goto, Checked, IInv, TypeOK
  <2>7. CASE LogFails(c)
    <3>1. UNCHANGED <<thread, req, temp>>
      BY <1>3, <2>7 DEF LogFails
    <3> QED BY <2>1, <2>3, <3>1 DEF Checked
  <2> QED BY <1>3, <2>2, <2>4, <2>5, <2>6, <2>7 DEF Thread, Log
<1>4. ASSUME NEW c \in Clients, StoreAC(c) \/ StoreSL(c) PROVE \A d \in Clients : Checked(d)'
  <2>1. \A d \in Clients : d # c => thread'[d] = thread[d] /\ d \notin Selling
    BY <1>4 DEF StoreAC, StoreSL, Goto, Alone, Selling, IInv, TypeOK
  <2>2. \A d \in Clients : d # c => Checked(d)'
    BY <2>1 DEF Checked, Selling
  <2>3. Checked(c)'
    BY <1>4 DEF StoreAC, StoreSL, Goto, Checked, IInv, TypeOK
  <2> QED BY <2>2, <2>3
<1>5. ASSUME NEW c \in Clients, Thread(c), Record(c) PROVE \A d \in Clients : Checked(d)'
  <2>1. UNCHANGED <<AC, SL, temp>>
    <3>1. Log(c) \/ LogFails(c)
      BY <1>5 DEF Thread, ReadHello, ReadRequest, ReadBye, ReadEnd, ReadFails, CheckAC, CheckSL,
                  LoadAC, StoreAC, LoadSL, StoreSL, Grant, Refuse, Record, Goto
    <3> QED BY <3>1 DEF Log, LogFails, counters
  <2>2. /\ thread'[c] = "read"
        /\ \A d \in Clients : d # c => thread'[d] = thread[d] /\ req'[d] = req[d]
    BY <1>5 DEF Record, Goto, IInv, TypeOK
  <2> QED BY <2>1, <2>2 DEF Checked
<1>6. CASE UNCHANGED vars
  BY <1>6 DEF vars, Checked
<1> QED BY <1>1, <1>2, <1>3, <1>4, <1>5, <1>6 DEF Next, Server

\* What is left to store stays the same when nobody begins or ends a storing.
LEMMA ToStoreKept ==
    ASSUME Alone, \A c \in Clients : /\ Storing(c)' <=> Storing(c)
                                     /\ Storing(c) => req'[c] = req[c]
    PROVE  ToStore' = ToStore
PROOF
<1>1. \A c, d \in Clients : Storing(c) /\ Storing(d) => c = d
  BY DEF Alone, Storing, Selling
<1>2. \A c, d \in Clients : Storing(c)' /\ Storing(d)' => c = d
  BY <1>1
<1>3. CASE \E c \in Clients : Storing(c)
  <2>1. PICK c \in Clients : Storing(c)
    BY <1>3
  <2>2. ToStore = req[c].sl
    BY <1>1, <2>1, Storer
  <2>3. Storing(c)' /\ req'[c] = req[c]
    BY <2>1
  <2>4. ToStore' = req'[c].sl
    <3>1. (CHOOSE d \in Clients : Storing(d)') = c
      BY <1>2, <2>3
    <3> QED BY <2>3, <3>1 DEF ToStore
  <2> QED BY <2>2, <2>3, <2>4
<1>4. CASE \A c \in Clients : ~Storing(c)
  <2>1. ToStore = 0
    BY <1>1, <1>4, Storer
  <2>2. \A c \in Clients : ~Storing(c)'
    BY <1>4
  <2>3. ToStore' = 0
    BY <2>2 DEF ToStore
  <2> QED BY <2>1, <2>3
<1> QED BY <1>3, <1>4

\* The store to AC takes the tickets that the thread has found to be there.
LEMMA TakesAC ==
    ASSUME IInv, SInv, ~overlapped, NEW c \in Clients, StoreAC(c),
           sales' = Append(sales, Booking(c))
    PROVE  /\ AC' = AC - req[c].ac /\ req[c].ac <= AC /\ req[c].ac \in Counts
           /\ SL' = SL /\ req[c].sl <= SL /\ req[c].sl \in Counts
           /\ ToStore = 0 /\ ToStore' = req[c].sl
           /\ Sold(Clients)' = Plus(Sold(Clients), req[c])
PROOF
<1>1. /\ thread[c] = "store AC" /\ thread' = [thread EXCEPT ![c] = "load SL"]
      /\ AC' = temp[c] - req[c].ac /\ SL' = SL /\ req' = req
  BY DEF StoreAC, Goto
<1>2. Alone /\ Checked(c) /\ Counted(c) /\ sales \in Seq(Records)
  BY DEF SInv
<1>3. /\ temp[c] = AC /\ req[c].ac <= AC /\ req[c].sl <= SL
      /\ req[c].ac \in Counts /\ req[c].sl \in Counts
  BY <1>1, <1>2 DEF Checked, Counted, Bookings
<1>4. \A d \in Clients : /\ ~Storing(d)
                         /\ Storing(d)' <=> d = c
  BY <1>1, <1>2 DEF Alone, Selling, Storing, IInv, TypeOK
<1>5. ToStore = 0
  BY <1>4 DEF ToStore
<1>6. ToStore' = req[c].sl
  <2>1. (CHOOSE d \in Clients : Storing(d)') = c
    BY <1>4
  <2> QED BY <1>1, <1>4, <2>1 DEF ToStore
<1>7. Sold(Clients)' = Plus(Sold(Clients), req[c])
  BY <1>2, BookingAdds DEF Sold
<1> QED BY <1>1, <1>3, <1>5, <1>6, <1>7

\* The store to SL pays what was owed.
LEMMA TakesSL ==
    ASSUME IInv, SInv, ~overlapped, NEW c \in Clients, StoreSL(c), sales' = sales
    PROVE  /\ AC' = AC /\ SL' - ToStore' = SL - ToStore
           /\ Sold(Clients)' = Sold(Clients)
PROOF
<1>1. /\ thread[c] = "store SL" /\ thread' = [thread EXCEPT ![c] = "grant"]
      /\ SL' = temp[c] - req[c].sl /\ AC' = AC /\ req' = req
  BY DEF StoreSL, LeftSL, Goto
<1>2. Alone /\ Checked(c)
  BY DEF SInv
<1>3. temp[c] = SL /\ SL \in Int /\ req[c].sl \in Int
  BY <1>1, <1>2, Numbers DEF Checked, IInv, TypeOK
<1>4. \A d \in Clients : /\ Storing(d) <=> d = c
                         /\ ~Storing(d)'
  <2>1. c \in Selling /\ Storing(c) /\ ~Storing(c)'
    BY <1>1 DEF Selling, Storing, IInv, TypeOK
  <2>2. \A d \in Clients : Storing(d) => d = c
    BY <1>2, <2>1 DEF Alone, Selling, Storing
  <2>3. \A d \in Clients : d # c => thread'[d] = thread[d]
    BY <1>1 DEF IInv, TypeOK
  <2> QED BY <2>1, <2>2, <2>3 DEF Storing
<1>5. ToStore = req[c].sl
  <2>1. (CHOOSE d \in Clients : Storing(d)) = c
    BY <1>4
  <2> QED BY <1>4, <2>1 DEF ToStore
<1>6. ToStore' = 0
  BY <1>4 DEF ToStore
<1>7. SL' - ToStore' = SL - ToStore
  <2>1. SL' = SL - req[c].sl
    BY <1>1, <1>3
  <2> QED BY <1>3, <1>5, <1>6, <2>1
<1> QED BY <1>1, <1>7, SoldSame

\* As long as no two bookings overlap, the tickets left and sold add up.
LEMMA StepBalanced ==
    ASSUME IInv, Books, SInv, [SalesNext]_salesVars, ~overlapped
    PROVE  Balanced'
PROOF
<1>0. /\ Balanced /\ Alone
      /\ AC \in Int /\ SL \in Int /\ ToStore \in Int /\ AC_NUM \in Int /\ SL_NUM \in Int
      /\ Sold(Clients).ac \in Int /\ Sold(Clients).sl \in Int
  BY SoldType, ToStoreType, Numbers DEF SInv, IInv, TypeOK
<1>1. CASE Still
  <2>1. ToStore' = ToStore
    BY <1>0, <1>1, ToStoreKept DEF Still, Storing, Granting
  <2>2. Sold(Clients)' = Sold(Clients) /\ AC' = AC /\ SL' = SL
    BY <1>1, SoldSame DEF Still
  <2> QED BY <1>0, <2>1, <2>2 DEF Balanced
<1>2. ASSUME NEW c \in Clients, StoreAC(c), sales' = Append(sales, Booking(c)) PROVE Balanced'
  <2>1. /\ AC' = AC - req[c].ac /\ req[c].ac <= AC
        /\ SL' = SL /\ req[c].sl <= SL /\ ToStore = 0 /\ ToStore' = req[c].sl
        /\ Sold(Clients)' = Plus(Sold(Clients), req[c])
    BY <1>2, TakesAC
  <2>2. req[c].ac \in Int /\ req[c].sl \in Int
    BY Numbers DEF IInv, TypeOK
  <2>3. /\ Sold(Clients)'.ac = Sold(Clients).ac + req[c].ac
        /\ Sold(Clients)'.sl = Sold(Clients).sl + req[c].sl
    BY <2>1 DEF Plus
  <2>4. 0 <= AC' /\ AC' + Sold(Clients)'.ac = AC_NUM
    BY <1>0, <2>1, <2>2, <2>3 DEF Balanced
  <2>5. 0 <= SL' - ToStore' /\ SL' - ToStore' + Sold(Clients)'.sl = SL_NUM
    <3>1. SL + Sold(Clients).sl = SL_NUM
      BY <1>0, <2>1 DEF Balanced
    <3> QED BY <1>0, <2>1, <2>2, <2>3, <3>1
  <2> QED BY <2>4, <2>5 DEF Balanced
<1>3. ASSUME NEW c \in Clients, StoreSL(c), sales' = sales PROVE Balanced'
  <2>1. AC' = AC /\ SL' - ToStore' = SL - ToStore /\ Sold(Clients)' = Sold(Clients)
    BY <1>3, TakesSL
  <2> QED BY <1>0, <2>1 DEF Balanced
<1>4. ASSUME NEW c \in Clients, Record(c), UNCHANGED <<AC, SL, sales>> PROVE Balanced'
  <2>1. \A d \in Clients : Storing(d)' <=> Storing(d)
    BY <1>4 DEF Record, Goto, Storing, IInv, TypeOK
  <2>2. \A d \in Clients : Storing(d) => req'[d] = req[d]
    BY <1>4 DEF Record, Goto, Storing, IInv, TypeOK
  <2>3. ToStore' = ToStore
    BY <1>0, <2>1, <2>2, ToStoreKept
  <2>4. Sold(Clients)' = Sold(Clients)
    BY <1>4, SoldSame
  <2> QED BY <1>0, <1>4, <2>3, <2>4 DEF Balanced
<1> QED BY <1>1, <1>2, <1>3, <1>4, Effects

\* Every step keeps the sales.
LEMMA StepSales == IInv /\ Books /\ SInv /\ [SalesNext]_salesVars => SInv'
PROOF
<1> SUFFICES ASSUME IInv, Books, SInv, [SalesNext]_salesVars PROVE SInv'
  OBVIOUS
<1>1. sales' \in Seq(Records) /\ \A c \in Clients : Accounted(c)'
  BY StepAccounted
<1>2. [Next]_vars
  BY DEF SalesNext, salesVars
<1>3. \A c \in Clients : Counted(c)'
  BY <1>2, StepCounted DEF SInv
<1>4. overlapped' \in BOOLEAN
  BY DEF SalesNext, salesVars, SInv
<1>5. ASSUME ~overlapped' PROVE ~overlapped /\ Alone'
  <2>1. CASE SalesNext
    BY <1>5, <2>1 DEF SalesNext, Alone
  <2>2. CASE UNCHANGED salesVars
    BY <1>5, <2>2 DEF salesVars, vars, SInv, Alone, Selling
  <2> QED BY <2>1, <2>2
<1>6. ASSUME ~overlapped' PROVE Balanced' /\ \A c \in Clients : Checked(c)'
  BY <1>2, <1>5, <1>6, StepBalanced, StepChecked DEF SInv
<1> QED BY <1>1, <1>3, <1>4, <1>5, <1>6 DEF SInv

\* All the invariants hold when the server starts.
LEMMA SalesStart == SalesInit => IInv /\ Books /\ SInv
PROOF BY InitSales, InitInv, InitBooks DEF SalesInit

\* The invariants of the sales, for any number of sessions.
THEOREM SalesInvariance == SalesSpec => [](IInv /\ Books /\ SInv)
PROOF
<1>1. SalesInit => IInv /\ Books /\ SInv
  BY SalesStart
<1>2. IInv /\ Books /\ SInv /\ [SalesNext]_salesVars => (IInv /\ Books /\ SInv)'
  <2>1. [SalesNext]_salesVars => [Next]_vars
    BY DEF SalesNext, salesVars
  <2> QED BY <2>1, StepInv, StepBooks, StepSales
<1> QED BY <1>1, <1>2, PTL DEF SalesSpec

\* The file accounts for every ticket taken but those of the booking that each
\* thread has in hand, whatever interleaves and fails (server.c:105-177).
THEOREM FileAccounts == SalesSpec => []SalesRecorded
PROOF
<1>1. SInv => SalesRecorded
  BY DEF SInv, Accounted, SalesRecorded
<1> QED BY <1>1, SalesInvariance, PTL

\* With any number of sessions, the check of server.c:105 holds when the tickets
\* are taken until two bookings overlap: no more is sold than there was.
THEOREM NotOversold == SalesSpec => []SoldWhatThereWas
PROOF
<1>1. IInv /\ SInv => SoldWhatThereWas
  <2> SUFFICES ASSUME IInv, SInv, ~overlapped
               PROVE  Sold(Clients).ac <= AC_NUM /\ Sold(Clients).sl <= SL_NUM
    BY DEF SoldWhatThereWas
  <2>1. Balanced
    BY DEF SInv
  <2>2. /\ AC \in Int /\ SL - ToStore \in Int
        /\ Sold(Clients).ac \in Int /\ Sold(Clients).sl \in Int
        /\ AC_NUM \in Int /\ SL_NUM \in Int
    BY SoldType, ToStoreType, Numbers, Difference DEF IInv, TypeOK
  <2> QED BY <2>1, <2>2, NoMore DEF Balanced
<1> QED BY <1>1, SalesInvariance, PTL

-----------------------------------------------------------------------------
(* The ledger.                                                             *)

\* A booking that overlaps another has only begun: no tickets are taken in that step.
LEMMA OverlapRefines ==
    ASSUME IInv, Books, SInv, SalesNext, ~overlapped, overlapped'
    PROVE  Ledger!Overlap
PROOF
<1>0. Alone
  BY DEF SInv
<1>1. PICK d, e \in Clients : d # e /\ d \in Selling' /\ e \in Selling'
  BY DEF SalesNext, Selling
<1>2. ASSUME \A c \in Selling' : c \in Selling PROVE FALSE
  BY <1>0, <1>1, <1>2 DEF Alone
<1>3. CASE Still
  <2>1. ToStore' = ToStore
    BY <1>0, <1>3, ToStoreKept DEF Still, Storing, Granting
  <2>2. Sold(Clients)' = Sold(Clients) /\ AC' = AC /\ SL' = SL
    BY <1>3, SoldSame DEF Still
  <2> QED BY <2>1, <2>2 DEF Ledger!Overlap
<1>4. ASSUME NEW c \in Clients, StoreAC(c) \/ StoreSL(c) PROVE FALSE
  BY <1>2, <1>4 DEF StoreAC, StoreSL, Goto, Selling, IInv, TypeOK
<1>5. ASSUME NEW c \in Clients, Record(c) PROVE FALSE
  BY <1>2, <1>5 DEF Record, Goto, Selling, IInv, TypeOK
<1> QED BY <1>3, <1>4, <1>5, Effects

\* Until bookings overlap, the step that stores AC is the booking; the store to SL
\* and the record change nothing more.
LEMMA BookRefines ==
    ASSUME IInv, Books, SInv, [SalesNext]_salesVars, ~overlapped, ~overlapped'
    PROVE  Ledger!Next \/ UNCHANGED Ledger!vars
PROOF
<1>0. Alone /\ overlapped' = overlapped
  BY DEF SInv, SalesNext, salesVars
<1>1. ASSUME ToStore' = ToStore, UNCHANGED <<AC, SL, sales>> PROVE UNCHANGED Ledger!vars
  <2>1. Sold(Clients)' = Sold(Clients)
    BY <1>1, SoldSame
  <2> QED BY <1>0, <1>1, <2>1 DEF Ledger!vars
<1>2. CASE Still
  <2>1. ToStore' = ToStore
    BY <1>0, <1>2, ToStoreKept DEF Still, Storing, Granting
  <2> QED BY <1>1, <1>2, <2>1 DEF Still
<1>3. ASSUME NEW c \in Clients, StoreAC(c), sales' = Append(sales, Booking(c))
      PROVE  Ledger!Next
  <2>1. /\ AC' = AC - req[c].ac /\ req[c].ac <= AC /\ req[c].ac \in Counts
        /\ SL' = SL /\ req[c].sl <= SL /\ req[c].sl \in Counts
        /\ ToStore = 0 /\ ToStore' = req[c].sl
        /\ Sold(Clients)' = Plus(Sold(Clients), req[c])
    BY <1>3, TakesAC
  <2>2. SL \in Int
    BY DEF IInv, TypeOK
  <2>3. SL - ToStore = SL /\ SL' - ToStore' = SL - req[c].sl
    BY <2>1, <2>2
  <2>4. SL' - ToStore' = (SL - ToStore) - req[c].sl /\ req[c].sl <= SL - ToStore
    BY <2>1, <2>3
  <2>5. Ledger!Book(req[c].ac, req[c].sl)
    BY <1>0, <2>1, <2>4 DEF Ledger!Book, Ledger!Sell, Plus
  <2> QED BY <2>1, <2>5 DEF Ledger!Next
<1>4. ASSUME NEW c \in Clients, StoreSL(c), sales' = sales PROVE UNCHANGED Ledger!vars
  <2>1. AC' = AC /\ SL' - ToStore' = SL - ToStore /\ Sold(Clients)' = Sold(Clients)
    BY <1>4, TakesSL
  <2> QED BY <1>0, <2>1 DEF Ledger!vars
<1>5. ASSUME NEW c \in Clients, Record(c), UNCHANGED <<AC, SL, sales>>
      PROVE  UNCHANGED Ledger!vars
  <2>1. \A d \in Clients : Storing(d)' <=> Storing(d)
    BY <1>5 DEF Record, Goto, Storing, IInv, TypeOK
  <2>2. \A d \in Clients : Storing(d) => req'[d] = req[d]
    BY <1>5 DEF Record, Goto, Storing, IInv, TypeOK
  <2>3. ToStore' = ToStore
    BY <1>0, <2>1, <2>2, ToStoreKept
  <2> QED BY <1>1, <1>5, <2>3
<1> QED BY <1>2, <1>3, <1>4, <1>5, Effects

\* Once bookings have overlapped, still only whole bookings are sold.
LEMMA ConfuseRefines ==
    ASSUME IInv, IInv', Books, SInv, [SalesNext]_salesVars, overlapped
    PROVE  Ledger!Next
PROOF
<1>1. overlapped' = overlapped
  BY DEF SalesNext, salesVars, SInv
<1>2. AC' \in Int /\ SL' - ToStore' \in Int
  <2>1. ToStore' \in Int
    BY ToStoreTypeNext
  <2>2. AC' \in Int /\ SL' \in Int
    BY DEF IInv, TypeOK
  <2> QED BY <2>1, <2>2
<1>3. Sold(Clients)' = Sold(Clients) \/ \E ac, sl \in Counts : Ledger!Sell(ac, sl)
  <2>1. ASSUME NEW c \in Clients, StoreAC(c), sales' = Append(sales, Booking(c))
        PROVE  \E ac, sl \in Counts : Ledger!Sell(ac, sl)
    <3>1. Counted(c) /\ thread[c] = "store AC" /\ sales \in Seq(Records)
      BY <2>1 DEF StoreAC, Goto, SInv
    <3>2. req[c].ac \in Counts /\ req[c].sl \in Counts
      BY <3>1 DEF Counted, Bookings
    <3>3. Sold(Clients)' = Plus(Sold(Clients), req[c])
      BY <2>1, <3>1, BookingAdds DEF Sold
    <3>4. Ledger!Sell(req[c].ac, req[c].sl)
      BY <3>3 DEF Ledger!Sell, Plus
    <3> QED BY <3>2, <3>4
  <2>2. sales' = sales => Sold(Clients)' = Sold(Clients)
    BY SoldSame
  <2> QED BY <2>1, <2>2, Effects DEF Still
<1> QED BY <1>1, <1>2, <1>3 DEF Ledger!Next, Ledger!Confuse

\* Every step of the server and its clients is one of the ledger or a stutter.
LEMMA StepRefines ==
    IInv /\ IInv' /\ Books /\ SInv /\ [SalesNext]_salesVars => [Ledger!Next]_(Ledger!vars)
PROOF
<1> SUFFICES ASSUME IInv, IInv', Books, SInv, [SalesNext]_salesVars
             PROVE  Ledger!Next \/ UNCHANGED Ledger!vars
  OBVIOUS
<1>1. CASE overlapped
  BY <1>1, ConfuseRefines
<1>2. CASE ~overlapped /\ ~overlapped'
  BY <1>2, BookRefines
<1>3. CASE ~overlapped /\ overlapped'
  <2>1. SalesNext
    BY <1>3 DEF salesVars
  <2> QED BY <1>3, <2>1, OverlapRefines DEF Ledger!Next
<1> QED BY <1>1, <1>2, <1>3

LEMMA InitRefines == SalesInit => Ledger!Init
PROOF
<1> SUFFICES ASSUME SalesInit PROVE Ledger!Init
  OBVIOUS
<1>1. AC = AC_NUM /\ SL = SL_NUM /\ overlapped = FALSE /\ sales = << >>
  BY DEF SalesInit, Init
<1>2. Sold(Clients) = [ac |-> 0, sl |-> 0]
  BY <1>1, TotalEmpty DEF Sold, Nothing
<1>3. \A c \in Clients : ~Storing(c)
  BY DEF SalesInit, Init, Storing
<1>4. ToStore = 0
  BY <1>3 DEF ToStore
<1>5. SL - ToStore = SL_NUM
  BY <1>1, <1>4, Numbers
<1> QED BY <1>1, <1>2, <1>5 DEF Ledger!Init

\* For any number of sessions the threads' loads and stores (handle_client in
\* server.c:105-120) implement the ledger: until two bookings overlap each takes
\* its tickets of both classes in one step, when there are enough of both, or none.
THEOREM LedgerImplemented == SalesSpec => ImplementsLedger
PROOF
<1>1. SalesInit => Ledger!Init
  BY InitRefines
<1>2. IInv /\ IInv' /\ Books /\ SInv /\ [SalesNext]_salesVars => [Ledger!Next]_(Ledger!vars)
  BY StepRefines
<1> QED BY <1>1, <1>2, SalesInvariance, PTL DEF SalesSpec, ImplementsLedger, Ledger!Spec
=============================================================================
