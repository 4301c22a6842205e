------------------------------ MODULE ChatProofs ------------------------------
(***************************************************************************)
(* For any clients, users, rooms and any number of display threads:        *)
(*                                                                         *)
(* NoSurplusAnswer.  Each request is paid for by the thread of the client  *)
(* that waits: a step that asks adds one to both sides, a recv of the      *)
(* server and one of the client take at least one from the answers to      *)
(* come.  It takes that nothing has arrived for a client that is gone,     *)
(* since a later run of the client starts with what is there.              *)
(*                                                                         *)
(* SessionsActive.  The entries of a name pay for more than the clients    *)
(* that are logged in under it: for each logout on its way, for each login *)
(* that has matched and is not answered, and for each "yes" that has not   *)
(* been read and may be taken for a login's.  SInv counts these claims, of *)
(* all who go by the name, and bounds them by the entries; AInv holds what *)
(* it takes of each client: which requests it has made, under which names, *)
(* and that a registration's "yes" finds it waiting for that answer, or    *)
(* gone, until it has been in a room.                                      *)
(***************************************************************************)
EXTENDS Chat, FiniteSetTheorems, NaturalsInduction, SequenceTheorems, TLAPS,
        WellFoundedInduction

\* Sequences of no particular elements.
IsSequence(s) == s \in Seq(Range(s))

\* What there is to know of a display thread.
Shown == [at : {"ended", "sleeping", "fetching", "waiting"}, room : RoomNames \cup {NoRoom}]

Types ==
    /\ DOMAIN thread = Clients /\ DOMAIN main = Clients
    /\ DOMAIN toServer = Clients /\ \A c \in Clients : IsSequence(toServer[c])
    /\ DOMAIN toClient = Clients /\ \A c \in Clients : IsSequence(toClient[c])
    /\ chatroom \in [Clients -> RoomNames \cup {NoRoom}]
    /\ display \in [Clients -> [1 .. MaxDisplays -> Shown]]

Busy(c) == IF thread[c] = "recv" THEN 0 ELSE 1
Menu(c) == IF main[c] \in Asking THEN 1 ELSE 0

Sound(c) ==
    /\ main[c] = "gone" => toClient[c] = << >>
    /\ main[c] # "gone" =>
         ToAnswer(c) + Len(toClient[c]) <= Cardinality(Waiting(c)) + Menu(c)

IInv == Types /\ \A c \in Clients : Sound(c)

-----------------------------------------------------------------------------
(* Sequences and counts.                                                   *)

LEMMA SequenceOf ==
    ASSUME NEW S, NEW s \in Seq(S)
    PROVE  IsSequence(s) /\ Len(s) \in Nat
PROOF
<1>1. Len(s) \in Nat /\ DOMAIN s = 1 .. Len(s) /\ s = [k \in 1 .. Len(s) |-> s[k]]
  OBVIOUS
<1>2. \A k \in 1 .. Len(s) : s[k] \in Range(s)
  BY <1>1 DEF Range
<1>3. s \in [1 .. Len(s) -> Range(s)]
  BY <1>1, <1>2
<1> QED BY <1>1, <1>3 DEF IsSequence

LEMMA NoneOf == IsSequence(<< >>) /\ Len(<< >>) = 0
PROOF
<1>1. << >> \in Seq({}) /\ Len(<< >>) = 0
  OBVIOUS
<1> QED BY <1>1, SequenceOf

LEMMA Appended ==
    ASSUME NEW s, IsSequence(s), NEW e
    PROVE  IsSequence(Append(s, e)) /\ Len(Append(s, e)) = Len(s) + 1 /\ Len(s) \in Nat
PROOF
<1> DEFINE S == Range(s) \cup {e}
<1>1. s \in Seq(S) /\ e \in S
  BY DEF IsSequence
<1> HIDE DEF S
<1>2. Append(s, e) \in Seq(S) /\ Len(Append(s, e)) = Len(s) + 1
  BY <1>1
<1> QED BY <1>1, <1>2, SequenceOf

LEMMA Cut ==
    ASSUME NEW s, IsSequence(s), NEW n \in 1 .. Len(s)
    PROVE  /\ IsSequence(SubSeq(s, n + 1, Len(s)))
           /\ Len(SubSeq(s, n + 1, Len(s))) = Len(s) - n
           /\ Len(s) \in Nat
PROOF
<1> DEFINE S == Range(s)
<1>1. s \in Seq(S) /\ Len(s) \in Nat
  BY DEF IsSequence
<1> HIDE DEF S
<1>2. \A k \in n + 1 .. Len(s) : s[k] \in S
  BY <1>1
<1>3. /\ SubSeq(s, n + 1, Len(s)) \in Seq(S)
      /\ Len(SubSeq(s, n + 1, Len(s)))
           = IF n + 1 <= Len(s) THEN Len(s) - (n + 1) + 1 ELSE 0
  BY <1>1, <1>2, SubSeqProperties
<1>4. Len(SubSeq(s, n + 1, Len(s))) = Len(s) - n
  BY <1>1, <1>3
<1> QED BY <1>1, <1>3, <1>4, SequenceOf

LEMMA OneTaken ==
    ASSUME NEW s, IsSequence(s), s # << >>
    PROVE  IsSequence(Tail(s)) /\ Len(Tail(s)) = Len(s) - 1 /\ Len(s) \in Nat
PROOF
<1> DEFINE S == Range(s)
<1>1. s \in Seq(S) /\ Len(s) \in Nat
  BY DEF IsSequence
<1> HIDE DEF S
<1>2. Tail(s) \in Seq(S) /\ Len(Tail(s)) = Len(s) - 1
  BY <1>1
<1> QED BY <1>1, <1>2, SequenceOf

\* The numbers that the invariant compares.
LEMMA Numbers ==
    ASSUME Types, NEW c \in Clients
    PROVE  /\ Len(toServer[c]) \in Nat /\ Len(toClient[c]) \in Nat
           /\ Busy(c) \in {0, 1} /\ Menu(c) \in {0, 1}
           /\ ToAnswer(c) = IF thread[c] = "ended" THEN 0 ELSE Len(toServer[c]) + Busy(c)
           /\ IsFiniteSet(Waiting(c)) /\ Cardinality(Waiting(c)) \in Nat
PROOF
<1>1. Len(toServer[c]) \in Nat
  BY SequenceOf DEF Types, IsSequence
<1>2. Len(toClient[c]) \in Nat
  BY SequenceOf DEF Types, IsSequence
<1>3. IsFiniteSet(1 .. MaxDisplays)
  BY ChatAssumption, FS_Interval DEF ChatAssumption
<1>4. Waiting(c) \in SUBSET (1 .. MaxDisplays)
  BY DEF Waiting
<1>5. IsFiniteSet(Waiting(c)) /\ Cardinality(Waiting(c)) \in Nat
  BY <1>3, <1>4, FS_Subset, FS_CardinalityType
<1> QED BY <1>1, <1>2, <1>5 DEF Busy, Menu, ToAnswer

\* What a step does not touch stays sound.
LEMMA Untouched ==
    ASSUME NEW c \in Clients, Sound(c),
           main'[c] = main[c], thread'[c] = thread[c], toServer'[c] = toServer[c],
           toClient'[c] = toClient[c], display'[c] = display[c]
    PROVE  Sound(c)'
PROOF
<1>1. Waiting(c)' = Waiting(c)
  BY DEF Waiting
<1>2. ToAnswer(c)' = ToAnswer(c) /\ Menu(c)' = Menu(c)
  BY DEF ToAnswer, Menu
<1> QED BY <1>1, <1>2 DEF Sound

-----------------------------------------------------------------------------
(* The client.                                                             *)

\* A thread that asks is one that waits.
LEMMA Sends ==
    ASSUME IInv, NEW c \in Clients, NEW place, NEW request,
           main[c] # "gone", main[c] \notin Asking, place # "gone",
           Goto(c, place, request), UNCHANGED <<thread, toClient, display>>,
           chatroom' \in [Clients -> RoomNames \cup {NoRoom}]
    PROVE  IInv'
PROOF
<1>1. DOMAIN main' = Clients /\ main'[c] = place
      /\ \A d \in Clients \ {c} : main'[d] = main[d]
  BY DEF Goto, IInv, Types
<1>2. /\ DOMAIN toServer' = Clients
      /\ \A d \in Clients \ {c} : toServer'[d] = toServer[d]
      /\ toServer'[c] = IF place \in Asking THEN Append(toServer[c], request)
                                           ELSE toServer[c]
  BY DEF Goto, IInv, Types
<1>3. /\ IsSequence(Append(toServer[c], request))
      /\ Len(Append(toServer[c], request)) = Len(toServer[c]) + 1
  BY Appended DEF IInv, Types
<1>4. Types'
  <2>1. \A d \in Clients : IsSequence(toServer'[d])
    BY <1>2, <1>3 DEF IInv, Types
  <2> QED BY <1>1, <1>2, <2>1 DEF IInv, Types
<1>5. Sound(c)'
  <2>1. Waiting(c)' = Waiting(c)
    BY DEF Waiting
  <2>2. Menu(c) = 0 /\ Menu(c)' = IF place \in Asking THEN 1 ELSE 0
    BY <1>1 DEF Menu
  <2>3. Busy(c)' = Busy(c) /\ thread' = thread /\ toClient' = toClient
    BY DEF Busy
  <2>4. Len(toServer'[c]) = IF place \in Asking THEN Len(toServer[c]) + 1
                                               ELSE Len(toServer[c])
    BY <1>2, <1>3
  <2>5. ToAnswer(c)' = IF thread[c] = "ended" THEN 0 ELSE Len(toServer'[c]) + Busy(c)
    BY <2>3 DEF ToAnswer, Busy
  <2>6. ToAnswer(c) + Len(toClient[c]) <= Cardinality(Waiting(c)) + Menu(c)
    BY DEF IInv, Sound
  <2>7. ToAnswer(c)' + Len(toClient'[c]) <= Cardinality(Waiting(c)') + Menu(c)'
    BY <2>1, <2>2, <2>3, <2>4, <2>5, <2>6, Numbers DEF IInv
  <2> QED BY <1>1, <2>7 DEF Sound
<1>6. \A d \in Clients \ {c} : Sound(d)'
  BY <1>1, <1>2, Untouched DEF IInv
<1> QED BY <1>4, <1>5, <1>6 DEF IInv

LEMMA UserStep ==
    ASSUME IInv, NEW c \in Clients, User(c), UNCHANGED thread
    PROVE  IInv'
PROOF
<1> USE DEF User
<1>1. UNCHANGED <<thread, toClient, display>>
  OBVIOUS
<1>2. CASE LoginOrRegister(c)
  <2>1. PICK op \in {"login", "register"}, u \in NamesAt[c], p \in Passwords :
          Goto(c, op, Request(op, u, p, NoRoom))
    BY <1>2 DEF LoginOrRegister
  <2> QED BY <1>1, <1>2, <2>1, Sends DEF LoginOrRegister, Asking, IInv, Types
<1>3. CASE HomeChoice(c)
  <2>1. PICK place \in {"choose", "getAllChatrooms", "getActiveUsers", "logout"} :
          Goto(c, place, Say(c, place))
    BY <1>3 DEF HomeChoice
  <2> QED BY <1>1, <1>3, <2>1, Sends DEF HomeChoice, Asking, IInv, Types
<1>4. CASE CreateRoom(c)
  <2>1. PICK r \in RoomNames :
          Goto(c, "createChatroom", Request("createChatroom", Nobody, "none", r))
    BY <1>4 DEF CreateRoom
  <2> QED BY <1>1, <1>4, <2>1, Sends DEF CreateRoom, Asking, IInv, Types
<1>5. CASE ChooseRoom(c)
  <2>1. PICK r \in RoomNames :
          /\ chatroom' = [chatroom EXCEPT ![c] = r]
          /\ Goto(c, "joinChatroom", Request("joinChatroom", username[c], "none", r))
    BY <1>5 DEF ChooseRoom
  <2>2. chatroom' \in [Clients -> RoomNames \cup {NoRoom}]
    BY <2>1 DEF IInv, Types
  <2> QED BY <1>1, <1>5, <2>1, <2>2, Sends DEF ChooseRoom, Asking
<1>6. CASE Write(c)
  <2>1. PICK place \in {"sendMessage", "farewell"} : Goto(c, place, Say(c, place))
    BY <1>6 DEF Write
  <2> QED BY <1>1, <1>6, <2>1, Sends DEF Write, Asking, IInv, Types
<1> QED BY <1>2, <1>3, <1>4, <1>5, <1>6

\* The menu thread takes one answer, and asks at most one more question.
LEMMA ProceedStep ==
    ASSUME IInv, NEW c \in Clients, Proceed(c), UNCHANGED thread
    PROVE  IInv'
PROOF
<1> DEFINE place == After(main[c], Head(toClient[c]))
           request == Say(c, place)
<1>1. main[c] \in Asking /\ main[c] # "gone"
  BY DEF Proceed, Asking
<1>2. toClient[c] # << >>
  <2>1. PICK n \in Received(c) : n = 1
    BY DEF Proceed, Understood
  <2> QED BY <2>1, NoneOf DEF Received, Closed
<1>3. Goto(c, place, request)
  BY DEF Proceed
<1>4. place # "gone"
  BY Zenon DEF After
<1>5. toClient' = [toClient EXCEPT ![c] = Tail(@)] /\ chatroom' = chatroom /\ thread' = thread
  BY DEF Proceed
<1>6. display' = display
      \/ \E slot \in 1 .. MaxDisplays : display[c][slot].at = "ended" /\ display' = NewDisplay(c, slot)
  BY DEF Proceed
<1> HIDE DEF place, request
<1>7. DOMAIN main' = Clients /\ main'[c] = place
      /\ \A d \in Clients \ {c} : main'[d] = main[d]
  BY <1>3 DEF Goto, IInv, Types
<1>8. /\ DOMAIN toServer' = Clients
      /\ \A d \in Clients \ {c} : toServer'[d] = toServer[d]
      /\ toServer'[c] = IF place \in Asking THEN Append(toServer[c], request)
                                           ELSE toServer[c]
  BY <1>3 DEF Goto, IInv, Types
<1>9. /\ IsSequence(Append(toServer[c], request))
      /\ Len(Append(toServer[c], request)) = Len(toServer[c]) + 1
  BY Appended DEF IInv, Types
<1>10. /\ DOMAIN toClient' = Clients /\ toClient'[c] = Tail(toClient[c])
       /\ \A d \in Clients \ {c} : toClient'[d] = toClient[d]
  BY <1>5 DEF IInv, Types
<1>11. IsSequence(Tail(toClient[c])) /\ Len(Tail(toClient[c])) = Len(toClient[c]) - 1
  BY <1>2, OneTaken DEF IInv, Types
<1>12. /\ display' \in [Clients -> [1 .. MaxDisplays -> Shown]]
       /\ \A d \in Clients \ {c} : display'[d] = display[d]
       /\ \A k \in 1 .. MaxDisplays :
            display'[c][k].at = "waiting" <=> display[c][k].at = "waiting"
  <2>1. CASE display' = display
    BY <2>1 DEF IInv, Types
  <2>2. CASE display' # display
    <3>1. PICK slot \in 1 .. MaxDisplays :
            display[c][slot].at = "ended" /\ display' = NewDisplay(c, slot)
      BY <1>6, <2>2
    <3>2. chatroom[c] \in RoomNames \cup {NoRoom}
      BY DEF IInv, Types
    <3> QED BY <3>1, <3>2 DEF NewDisplay, IInv, Types, Shown
  <2> QED BY <2>1, <2>2
<1>13. Types'
  <2>1. \A d \in Clients : IsSequence(toServer'[d])
    BY <1>8, <1>9 DEF IInv, Types
  <2>2. \A d \in Clients : IsSequence(toClient'[d])
    BY <1>10, <1>11 DEF IInv, Types
  <2> QED BY <1>5, <1>7, <1>8, <1>10, <1>12, <2>1, <2>2 DEF IInv, Types
<1>14. Sound(c)'
  <2>1. Waiting(c)' = Waiting(c)
    BY <1>12 DEF Waiting
  <2>2. Menu(c) = 1 /\ Menu(c)' = IF place \in Asking THEN 1 ELSE 0
    BY <1>1, <1>7 DEF Menu
  <2>3. Len(toServer'[c]) = IF place \in Asking THEN Len(toServer[c]) + 1
                                               ELSE Len(toServer[c])
    BY <1>8, <1>9
  <2>4. ToAnswer(c)' = IF thread[c] = "ended" THEN 0 ELSE Len(toServer'[c]) + Busy(c)
    BY <1>5 DEF ToAnswer, Busy
  <2>5. Len(toClient'[c]) = Len(toClient[c]) - 1
    BY <1>10, <1>11
  <2>6. ToAnswer(c) + Len(toClient[c]) <= Cardinality(Waiting(c)) + Menu(c)
    BY <1>1 DEF IInv, Sound
  <2>7. ToAnswer(c)' + Len(toClient'[c]) <= Cardinality(Waiting(c)') + Menu(c)'
    BY <2>1, <2>2, <2>3, <2>4, <2>5, <2>6, Numbers DEF IInv
  <2> QED BY <1>4, <1>7, <2>7 DEF Sound
<1>15. \A d \in Clients \ {c} : Sound(d)'
  BY <1>5, <1>7, <1>8, <1>10, <1>12, Untouched DEF IInv
<1> QED BY <1>13, <1>14, <1>15 DEF IInv

\* With the process, all that has arrived for it is gone.
LEMMA EndStep ==
    ASSUME IInv, NEW c \in Clients, End(c), UNCHANGED thread
    PROVE  IInv'
PROOF
<1>1. /\ DOMAIN main' = Clients /\ main'[c] = "gone"
      /\ \A d \in Clients \ {c} : main'[d] = main[d]
  BY DEF End, IInv, Types
<1>2. /\ DOMAIN toClient' = Clients /\ toClient'[c] = << >>
      /\ \A d \in Clients \ {c} : toClient'[d] = toClient[d]
  BY DEF End, IInv, Types
<1>3. chatroom' \in [Clients -> RoomNames \cup {NoRoom}]
  BY DEF End, IInv, Types
<1>4. NoDisplays \in [1 .. MaxDisplays -> Shown]
  BY DEF NoDisplays, Shown
<1>5. /\ display' \in [Clients -> [1 .. MaxDisplays -> Shown]]
      /\ \A d \in Clients \ {c} : display'[d] = display[d]
  BY <1>4 DEF End, IInv, Types
<1>6. toServer' = toServer /\ thread' = thread
  BY DEF End
<1>7. Types'
  <2>1. \A d \in Clients : IsSequence(toClient'[d])
    BY <1>2, NoneOf DEF IInv, Types
  <2> QED BY <1>1, <1>2, <1>3, <1>5, <1>6, <2>1 DEF IInv, Types
<1>8. \A d \in Clients \ {c} : Sound(d)'
  BY <1>1, <1>2, <1>5, <1>6, Untouched DEF IInv
<1> QED BY <1>1, <1>2, <1>7, <1>8 DEF IInv, Sound

\* A step of one display thread.
LEMMA DisplayMoved ==
    ASSUME Types, NEW c \in Clients, NEW k \in 1 .. MaxDisplays, NEW new \in Shown,
           display' = [display EXCEPT ![c][k] = new]
    PROVE  /\ display' \in [Clients -> [1 .. MaxDisplays -> Shown]]
           /\ \A d \in Clients \ {c} : display'[d] = display[d]
           /\ \A j \in 1 .. MaxDisplays :
                display'[c][j] = IF j = k THEN new ELSE display[c][j]
PROOF
<1> DEFINE K == 1 .. MaxDisplays
           row == [display[c] EXCEPT ![k] = new]
<1>1. display \in [Clients -> [K -> Shown]] /\ k \in K
  BY DEF Types, Shown
<1>2. display' = [display EXCEPT ![c] = row]
  OBVIOUS
<1> HIDE DEF K
<1>3. display[c] \in [K -> Shown]
  BY <1>1
<1>4. row \in [K -> Shown] /\ \A j \in K : row[j] = IF j = k THEN new ELSE display[c][j]
  BY <1>1, <1>3
<1> HIDE DEF row
<1>5. /\ display' \in [Clients -> [K -> Shown]] /\ display'[c] = row
      /\ \A d \in Clients \ {c} : display'[d] = display[d]
  BY <1>1, <1>2, <1>4
<1> QED BY <1>4, <1>5 DEF K

\* At a display thread that waits or is about to ask, only its place changes.
LEMMA PlaceOnly ==
    ASSUME Types, NEW c \in Clients, NEW k \in 1 .. MaxDisplays,
           NEW at \in {"ended", "sleeping", "fetching", "waiting"}
    PROVE  \E new \in Shown : /\ new = [display[c][k] EXCEPT !.at = at]
                              /\ new.at = at
PROOF
<1>1. display[c][k] \in Shown
  BY DEF Types
<1>2. [display[c][k] EXCEPT !.at = at] \in Shown /\ [display[c][k] EXCEPT !.at = at].at = at
  BY <1>1 DEF Shown
<1> QED BY <1>2

LEMMA FewerBoth ==
    ASSUME NEW t \in Nat, NEW l \in Nat, NEW w \in Nat, NEW m \in {0, 1},
           NEW n \in Nat \ {0}, t + l <= w + m
    PROVE  t + (l - n) <= (w - 1) + m
PROOF OBVIOUS

\* A display thread that asks waits, and one that has read no longer does.
LEMMA DisplayStep ==
    ASSUME IInv, NEW c \in Clients, Display(c), UNCHANGED thread
    PROVE  IInv'
PROOF
<1>1. UNCHANGED <<main, chatroom, thread>>
  BY DEF Display
<1>2. PICK k \in 1 .. MaxDisplays :
        Again(c, k) \/ StopDisplay(c, k) \/ Fetch(c, k) \/ Show(c, k)
  BY DEF Display
<1> DEFINE DisplayType == [Clients -> [1 .. MaxDisplays -> Shown]]
<1>3. display \in DisplayType
  BY DEF IInv, Types, Shown
<1>4. NoDisplays[k] = [at |-> "ended", room |-> NoRoom]
  BY DEF NoDisplays
<1>5. IsFiniteSet(Waiting(c)) /\ Cardinality(Waiting(c)) \in Nat
  BY Numbers DEF IInv
<1>6. CASE Fetch(c, k)
  <2> DEFINE request == Request("fetchMessages", Nobody, "none", display[c][k].room)
  <2>1. /\ display[c][k].at = "fetching"
        /\ display' = [display EXCEPT ![c][k].at = "waiting"]
        /\ toServer' = [toServer EXCEPT ![c] = Append(@, request)]
        /\ toClient' = toClient
    BY <1>6 DEF Fetch
  <2> HIDE DEF request
  <2>2. /\ display' \in DisplayType
        /\ \A d \in Clients \ {c} : display'[d] = display[d]
        /\ \A j \in 1 .. MaxDisplays : display'[c][j].at = "waiting"
             <=> j = k \/ display[c][j].at = "waiting"
    <3>1. PICK new \in Shown :
            new = [display[c][k] EXCEPT !.at = "waiting"] /\ new.at = "waiting"
      BY PlaceOnly DEF IInv
    <3>2. display' = [display EXCEPT ![c][k] = new]
      BY <2>1, <3>1
    <3> QED BY <3>1, <3>2, DisplayMoved DEF IInv, Shown
  <2>3. Waiting(c)' = Waiting(c) \cup {k} /\ k \notin Waiting(c)
    BY <2>1, <2>2 DEF Waiting
  <2>4. Cardinality(Waiting(c)') = Cardinality(Waiting(c)) + 1
    BY <1>5, <2>3, FS_AddElement
  <2>5. /\ DOMAIN toServer' = Clients /\ toServer'[c] = Append(toServer[c], request)
        /\ \A d \in Clients \ {c} : toServer'[d] = toServer[d]
    BY <2>1 DEF IInv, Types
  <2>6. IsSequence(toServer'[c]) /\ Len(toServer'[c]) = Len(toServer[c]) + 1
    BY <2>5, Appended DEF IInv, Types
  <2>7. Types'
    <3>1. \A d \in Clients : IsSequence(toServer'[d])
      BY <2>5, <2>6 DEF IInv, Types
    <3> QED BY <1>1, <2>1, <2>2, <2>5, <3>1 DEF IInv, Types
  <2>8. Sound(c)'
    <3>1. Menu(c)' = Menu(c) /\ Busy(c)' = Busy(c) /\ main' = main
      BY <1>1 DEF Menu, Busy
    <3>2. ToAnswer(c)' = IF thread[c] = "ended" THEN 0 ELSE Len(toServer'[c]) + Busy(c)
      BY <1>1 DEF ToAnswer, Busy
    <3>3. ASSUME main[c] # "gone"
          PROVE  ToAnswer(c)' + Len(toClient'[c]) <= Cardinality(Waiting(c)') + Menu(c)'
      <4>1. ToAnswer(c) + Len(toClient[c]) <= Cardinality(Waiting(c)) + Menu(c)
        BY <3>3 DEF IInv, Sound
      <4> QED BY <2>1, <2>4, <2>6, <3>1, <3>2, <4>1, Numbers DEF IInv
    <3>4. Sound(c)
      BY DEF IInv
    <3> QED BY <2>1, <3>1, <3>3, <3>4 DEF Sound
  <2>9. \A d \in Clients \ {c} : Sound(d)'
    BY <1>1, <2>1, <2>2, <2>5, Untouched DEF IInv
  <2> QED BY <2>7, <2>8, <2>9 DEF IInv
<1>7. CASE Again(c, k) \/ StopDisplay(c, k)
  <2>1. /\ display[c][k].at = "sleeping" /\ toServer' = toServer /\ toClient' = toClient
        /\ \/ display' = [display EXCEPT ![c][k].at = "fetching"]
           \/ display' = [display EXCEPT ![c][k] = NoDisplays[k]]
    BY <1>7 DEF Again, StopDisplay
  <2>2. /\ display' \in DisplayType
        /\ \A d \in Clients \ {c} : display'[d] = display[d]
        /\ \A j \in 1 .. MaxDisplays : display'[c][j].at = "waiting"
             <=> display[c][j].at = "waiting"
    <3>1. PICK new \in Shown : new = [display[c][k] EXCEPT !.at = "fetching"] /\ new.at # "waiting"
      BY PlaceOnly DEF IInv
    <3>2. NoDisplays[k] \in Shown /\ NoDisplays[k].at # "waiting"
      BY <1>4 DEF Shown
    <3>3. PICK now \in Shown : display' = [display EXCEPT ![c][k] = now] /\ now.at # "waiting"
      BY <2>1, <3>1, <3>2
    <3> QED BY <2>1, <3>3, DisplayMoved DEF IInv
  <2>3. Waiting(c)' = Waiting(c)
    BY <2>2 DEF Waiting
  <2>4. Types'
    BY <1>1, <2>1, <2>2 DEF IInv, Types
  <2>5. Sound(c)'
    <3>1. ToAnswer(c)' = ToAnswer(c) /\ Menu(c)' = Menu(c)
      BY <1>1, <2>1 DEF ToAnswer, Menu
    <3> QED BY <1>1, <2>1, <2>3, <3>1 DEF IInv, Sound
  <2>6. \A d \in Clients \ {c} : Sound(d)'
    BY <1>1, <2>1, <2>2, Untouched DEF IInv
  <2> QED BY <2>4, <2>5, <2>6 DEF IInv
<1>8. CASE Show(c, k)
  <2>1. PICK n \in Received(c) : toClient' = [toClient EXCEPT ![c] = SubSeq(@, n + 1, Len(@))]
    BY <1>8 DEF Show
  <2>2. /\ display[c][k].at = "waiting" /\ toServer' = toServer
        /\ \/ display' = [display EXCEPT ![c][k].at = "sleeping"]
           \/ display' = [display EXCEPT ![c][k] = NoDisplays[k]]
    BY <1>8 DEF Show
  <2>3. /\ display' \in DisplayType
        /\ \A d \in Clients \ {c} : display'[d] = display[d]
        /\ \A j \in 1 .. MaxDisplays : display'[c][j].at = "waiting"
             <=> j # k /\ display[c][j].at = "waiting"
    <3>1. PICK new \in Shown : new = [display[c][k] EXCEPT !.at = "sleeping"] /\ new.at # "waiting"
      BY PlaceOnly DEF IInv
    <3>2. NoDisplays[k] \in Shown /\ NoDisplays[k].at # "waiting"
      BY <1>4 DEF Shown
    <3>3. PICK now \in Shown : display' = [display EXCEPT ![c][k] = now] /\ now.at # "waiting"
      BY <2>2, <3>1, <3>2
    <3> QED BY <3>3, DisplayMoved DEF IInv, Shown
  <2>4. Waiting(c)' = Waiting(c) \ {k} /\ k \in Waiting(c)
    BY <2>2, <2>3 DEF Waiting
  <2>5. Cardinality(Waiting(c)') = Cardinality(Waiting(c)) - 1
    BY <1>5, <2>4, FS_RemoveElement
  <2>6. Cardinality(Waiting(c)') \in Nat
    BY <1>5, <2>4, FS_RemoveElement, FS_CardinalityType
  <2>7. /\ DOMAIN toClient' = Clients
        /\ toClient'[c] = SubSeq(toClient[c], n + 1, Len(toClient[c]))
        /\ \A d \in Clients \ {c} : toClient'[d] = toClient[d]
    BY <2>1 DEF IInv, Types
  <2>8. /\ IsSequence(toClient'[c])
        /\ \/ n = 0 /\ Closed(c) /\ toClient'[c] = << >>
           \/ n \in Nat \ {0} /\ Len(toClient'[c]) = Len(toClient[c]) - n
    <3>1. CASE Closed(c)
      <4>1. n = 0 /\ toClient[c] = << >> /\ Len(toClient[c]) = 0
        BY <3>1, NoneOf DEF Received, Closed
      <4>2. SubSeq(toClient[c], 1, 0) = << >>
        BY SubSeqEmpty
      <4>3. n + 1 = 1
        BY <4>1
      <4>4. toClient'[c] = << >>
        BY <2>7, <4>1, <4>2, <4>3
      <4> QED BY <3>1, <4>1, <4>4, NoneOf
    <3>2. CASE ~Closed(c)
      <4>1. n \in 1 .. Len(toClient[c]) /\ Len(toClient[c]) \in Nat
        BY <3>2, Numbers DEF Received, IInv
      <4>2. n \in Nat \ {0}
        BY <4>1
      <4> QED BY <2>7, <4>1, <4>2, Cut DEF IInv, Types
    <3> QED BY <3>1, <3>2
  <2>9. Types'
    <3>1. \A d \in Clients : IsSequence(toClient'[d])
      BY <2>7, <2>8 DEF IInv, Types
    <3> QED BY <1>1, <2>2, <2>3, <2>7, <3>1 DEF IInv, Types
  <2>10. Sound(c)'
    <3>1. ToAnswer(c)' = ToAnswer(c) /\ Menu(c)' = Menu(c) /\ main' = main
      BY <1>1, <2>2 DEF ToAnswer, Menu
    <3>2. ASSUME main[c] # "gone"
          PROVE  ToAnswer(c)' + Len(toClient'[c]) <= Cardinality(Waiting(c)') + Menu(c)'
      <4>1. CASE n = 0
        <5>1. ToAnswer(c) = 0 /\ Len(toClient'[c]) = 0
          BY <2>8, <4>1, NoneOf DEF Closed, ToAnswer
        <5> QED BY <2>6, <3>1, <5>1, Numbers DEF IInv
      <4>2. CASE n # 0
        <5>1. ToAnswer(c) + Len(toClient[c]) <= Cardinality(Waiting(c)) + Menu(c)
          BY <3>2 DEF IInv, Sound
        <5>2. n \in Nat \ {0} /\ Len(toClient'[c]) = Len(toClient[c]) - n
          BY <2>8, <4>2
        <5>3. ToAnswer(c) \in Nat /\ Len(toClient[c]) \in Nat /\ Menu(c) \in {0, 1}
          BY Numbers DEF IInv
        <5>4. ToAnswer(c) + (Len(toClient[c]) - n) <= (Cardinality(Waiting(c)) - 1) + Menu(c)
          BY <1>5, <5>1, <5>2, <5>3, FewerBoth
        <5> QED BY <2>5, <3>1, <5>2, <5>4
      <4> QED BY <4>1, <4>2
    <3>3. main[c] = "gone" => toClient'[c] = << >>
      <4>1. ASSUME main[c] = "gone" PROVE toClient[c] = << >> /\ Len(toClient[c]) = 0
        BY <4>1, NoneOf DEF IInv, Sound
      <4>2. ASSUME main[c] = "gone" PROVE n = 0
        BY <4>1, <4>2 DEF Received
      <4> QED BY <2>8, <4>2
    <3> QED BY <3>1, <3>2, <3>3 DEF Sound
  <2>11. \A d \in Clients \ {c} : Sound(d)'
    BY <1>1, <2>2, <2>3, <2>7, Untouched DEF IInv
  <2> QED BY <2>9, <2>10, <2>11 DEF IInv
<1> QED BY <1>2, <1>6, <1>7, <1>8

LEMMA ClientStep ==
    ASSUME IInv, NEW c \in Clients, Client(c)
    PROVE  IInv'
PROOF
<1>1. UNCHANGED thread
  BY DEF Client
<1>2. End(c) \/ User(c) \/ Proceed(c) \/ Display(c)
  BY DEF Client, Leave, Crash
<1> QED BY <1>1, <1>2, UserStep, ProceedStep, EndStep, DisplayStep

\* A client starts with nothing to come.
LEMMA StartStep ==
    ASSUME IInv, NEW c \in Clients, Start(c)
    PROVE  IInv'
PROOF
<1>1. main[c] = "gone" /\ UNCHANGED <<chatroom, display, toClient>>
  BY DEF Start
<1>2. /\ DOMAIN main' = Clients /\ DOMAIN thread' = Clients /\ DOMAIN toServer' = Clients
      /\ main'[c] = "menu" /\ thread'[c] = "recv" /\ toServer'[c] = << >>
      /\ \A d \in Clients \ {c} : /\ main'[d] = main[d] /\ thread'[d] = thread[d]
                                  /\ toServer'[d] = toServer[d]
  BY DEF Start, IInv, Types
<1>3. Types'
  <2>1. \A d \in Clients : IsSequence(toServer'[d])
    BY <1>2, NoneOf DEF IInv, Types
  <2> QED BY <1>1, <1>2, <2>1 DEF IInv, Types
<1>4. Sound(c)'
  <2>1. ToAnswer(c)' = 0
    BY <1>2, NoneOf DEF ToAnswer
  <2>2. Len(toClient'[c]) = 0
    BY <1>1, NoneOf DEF IInv, Sound
  <2>3. Waiting(c)' = Waiting(c) /\ Menu(c)' \in {0, 1}
    BY <1>1 DEF Waiting, Menu
  <2>4. ToAnswer(c)' + Len(toClient'[c]) <= Cardinality(Waiting(c)') + Menu(c)'
    BY <2>1, <2>2, <2>3, Numbers DEF IInv
  <2> QED BY <1>2, <2>4 DEF Sound
<1>5. \A d \in Clients \ {c} : Sound(d)'
  BY <1>1, <1>2, Untouched DEF IInv
<1> QED BY <1>3, <1>4, <1>5 DEF IInv

-----------------------------------------------------------------------------
(* The server.                                                             *)

\* A thread that has less to answer, and has sent nothing.
LEMMA AnswersLess ==
    ASSUME IInv, NEW c \in Clients, UNCHANGED <<session, toClient>>, Types',
           ToAnswer(c)' <= ToAnswer(c),
           ToAnswer(c)' \in Nat, ToAnswer(c) \in Nat,
           \A d \in Clients \ {c} : thread'[d] = thread[d] /\ toServer'[d] = toServer[d]
    PROVE  IInv'
PROOF
<1>1. UNCHANGED <<main, chatroom, display>>
  BY DEF session
<1>2. Waiting(c)' = Waiting(c) /\ Menu(c)' = Menu(c)
  BY <1>1 DEF Waiting, Menu
<1>3. Sound(c)'
  <2>1. ASSUME main[c] # "gone"
        PROVE  ToAnswer(c)' + Len(toClient[c]) <= Cardinality(Waiting(c)) + Menu(c)
    <3>1. ToAnswer(c) + Len(toClient[c]) <= Cardinality(Waiting(c)) + Menu(c)
      BY <2>1 DEF IInv, Sound
    <3>2. Len(toClient[c]) \in Nat /\ Cardinality(Waiting(c)) \in Nat /\ Menu(c) \in {0, 1}
      BY Numbers DEF IInv
    <3> QED BY <3>1, <3>2
  <2>2. Sound(c)
    BY DEF IInv
  <2> QED BY <1>1, <1>2, <2>1, <2>2 DEF Sound
<1>4. \A d \in Clients \ {c} : Sound(d)'
  BY <1>1, Untouched DEF IInv
<1> QED BY <1>3, <1>4 DEF IInv

LEMMA AnswerCount ==
    ASSUME Types, NEW c \in Clients
    PROVE  ToAnswer(c) \in Nat
PROOF
<1> QED BY Numbers

LEMMA OneBusy ==
    ASSUME NEW n \in Nat, NEW place
    PROVE  (IF place = "ended" THEN 0 ELSE n + (IF place = "recv" THEN 0 ELSE 1))
             \in {0, n, n + 1}
PROOF
<1>1. CASE place = "ended"
  BY <1>1
<1>2. CASE place = "recv"
  BY <1>2
<1>3. CASE place \notin {"ended", "recv"}
  BY <1>3
<1> QED BY <1>1, <1>2, <1>3

LEMMA FromOneToTheOther ==
    ASSUME NEW n \in Nat, NEW l \in Nat, NEW m, (n + 1) + l <= m
    PROVE  n + (l + 1) <= m
PROOF
<1>1. n + (l + 1) = (n + 1) + l
  OBVIOUS
<1> QED BY <1>1

\* A recv makes one request of those it reads.
LEMMA RecvStep ==
    ASSUME IInv, NEW c \in Clients, Recv(c), UNCHANGED session
    PROVE  IInv'
PROOF
<1>1. PICK n \in 1 .. Len(toServer[c]) :
        toServer' = [toServer EXCEPT ![c] = SubSeq(@, n + 1, Len(@))]
  BY DEF Recv
<1>2. /\ thread[c] = "recv" /\ toClient' = toClient
      /\ DOMAIN thread' = Clients
      /\ \A d \in Clients \ {c} : thread'[d] = thread[d]
  BY DEF Recv, IInv, Types
<1>3. /\ DOMAIN toServer' = Clients
      /\ toServer'[c] = SubSeq(toServer[c], n + 1, Len(toServer[c]))
      /\ \A d \in Clients \ {c} : toServer'[d] = toServer[d]
  BY <1>1 DEF IInv, Types
<1>4. /\ IsSequence(toServer'[c]) /\ Len(toServer'[c]) = Len(toServer[c]) - n
      /\ Len(toServer[c]) \in Nat
  BY <1>3, Cut DEF IInv, Types
<1>5. Types'
  <2>1. \A d \in Clients : IsSequence(toServer'[d])
    BY <1>3, <1>4 DEF IInv, Types
  <2> QED BY <1>2, <1>3, <2>1 DEF IInv, Types, session
<1>6. ToAnswer(c) = Len(toServer[c])
  BY <1>2, <1>4 DEF ToAnswer
<1>7. ToAnswer(c)' \in {0, Len(toServer'[c]), Len(toServer'[c]) + 1}
  <2>1. Len(toServer'[c]) \in Nat
    BY <1>5, Numbers, <1>4
  <2> QED BY <2>1, OneBusy DEF ToAnswer
<1>8. ToAnswer(c)' <= ToAnswer(c) /\ ToAnswer(c)' \in Nat /\ ToAnswer(c) \in Nat
  BY <1>4, <1>6, <1>7
<1> QED BY <1>2, <1>3, <1>5, <1>8, AnswersLess

LEMMA ContinueStep ==
    ASSUME IInv, NEW c \in Clients, NEW step, NEW held, Continue(c, step, held),
           thread[c] \notin {"recv", "ended"}, UNCHANGED session
    PROVE  IInv'
PROOF
<1>1. /\ DOMAIN thread' = Clients /\ UNCHANGED <<toServer, toClient>>
      /\ \A d \in Clients \ {c} : thread'[d] = thread[d]
  BY DEF Continue, IInv, Types
<1>2. Types'
  BY <1>1 DEF IInv, Types, session
<1>3. ToAnswer(c) = Len(toServer[c]) + 1 /\ Len(toServer[c]) \in Nat
  BY Numbers DEF ToAnswer, IInv
<1>4. ToAnswer(c)' \in {0, Len(toServer[c]), Len(toServer[c]) + 1}
  BY <1>1, <1>3, OneBusy DEF ToAnswer
<1>5. ToAnswer(c)' <= ToAnswer(c) /\ ToAnswer(c)' \in Nat /\ ToAnswer(c) \in Nat
  BY <1>3, <1>4
<1> QED BY <1>1, <1>2, <1>5, AnswersLess

LEMMA DiesStep ==
    ASSUME IInv, NEW c \in Clients, Dies(c), UNCHANGED session
    PROVE  IInv'
PROOF
<1>1. /\ DOMAIN thread' = Clients /\ DOMAIN toServer' = Clients /\ toClient' = toClient
      /\ thread'[c] = "ended" /\ toServer'[c] = << >>
      /\ \A d \in Clients \ {c} : thread'[d] = thread[d] /\ toServer'[d] = toServer[d]
  BY DEF Dies, IInv, Types
<1>2. Types'
  <2>1. \A d \in Clients : IsSequence(toServer'[d])
    BY <1>1, NoneOf DEF IInv, Types
  <2> QED BY <1>1, <2>1 DEF IInv, Types, session
<1>3. ToAnswer(c)' = 0
  BY <1>1 DEF ToAnswer
<1>4. ToAnswer(c) \in Nat
  BY AnswerCount DEF IInv
<1>5. ToAnswer(c)' <= ToAnswer(c) /\ ToAnswer(c)' \in Nat
  BY <1>3, <1>4
<1> QED BY <1>1, <1>2, <1>4, <1>5, AnswersLess

\* An answer sent is one less to be made.
LEMMA ReplyStep ==
    ASSUME IInv, NEW c \in Clients, NEW answer, Reply(c, answer),
           thread[c] \notin {"recv", "ended"}, UNCHANGED session
    PROVE  IInv'
PROOF
<1>1. /\ DOMAIN thread' = Clients /\ toServer' = toServer /\ thread'[c] = "recv"
      /\ \A d \in Clients \ {c} : thread'[d] = thread[d]
  BY DEF Reply, IInv, Types
<1>2. /\ DOMAIN toClient' = Clients
      /\ toClient'[c] = IF main[c] = "gone" THEN toClient[c] ELSE Append(toClient[c], answer)
      /\ \A d \in Clients \ {c} : toClient'[d] = toClient[d]
  BY DEF Reply, IInv, Types
<1>3. /\ IsSequence(Append(toClient[c], answer))
      /\ Len(Append(toClient[c], answer)) = Len(toClient[c]) + 1
  BY Appended DEF IInv, Types
<1>4. UNCHANGED <<main, chatroom, display>>
  BY DEF session
<1>5. Types'
  <2>1. \A d \in Clients : IsSequence(toClient'[d])
    BY <1>2, <1>3 DEF IInv, Types
  <2> QED BY <1>1, <1>2, <1>4, <2>1 DEF IInv, Types
<1>6. Sound(c)'
  <2>1. Waiting(c)' = Waiting(c) /\ Menu(c)' = Menu(c)
    BY <1>4 DEF Waiting, Menu
  <2>2. ToAnswer(c) = Len(toServer[c]) + 1 /\ Len(toServer[c]) \in Nat
    BY Numbers DEF ToAnswer, IInv
  <2>3. ToAnswer(c)' = Len(toServer[c])
    BY <1>1, <2>2 DEF ToAnswer
  <2>4. ASSUME main[c] # "gone"
        PROVE  ToAnswer(c)' + Len(toClient'[c]) <= Cardinality(Waiting(c)) + Menu(c)
    <3>1. Len(toClient'[c]) = Len(toClient[c]) + 1 /\ Len(toClient[c]) \in Nat
      BY <1>2, <1>3, <2>4, Numbers DEF IInv
    <3>2. ToAnswer(c) + Len(toClient[c]) <= Cardinality(Waiting(c)) + Menu(c)
      BY <2>4 DEF IInv, Sound
    <3>3. Len(toServer[c]) + (Len(toClient[c]) + 1) <= Cardinality(Waiting(c)) + Menu(c)
      BY <2>2, <3>1, <3>2, FromOneToTheOther
    <3> QED BY <2>3, <3>1, <3>3
  <2>5. Sound(c)
    BY DEF IInv
  <2> QED BY <1>2, <1>4, <2>1, <2>4, <2>5 DEF Sound
<1>7. \A d \in Clients \ {c} : Sound(d)'
  BY <1>1, <1>2, <1>4, Untouched DEF IInv
<1> QED BY <1>5, <1>6, <1>7 DEF IInv

\* Each step of a handler answers, goes on, or ends the thread.
LEMMA ThreadStep ==
    ASSUME IInv, NEW c \in Clients, Thread(c)
    PROVE  IInv'
PROOF
<1>1. UNCHANGED session
  BY DEF Thread
<1>2. \/ Recv(c) \/ Dies(c)
      \/ /\ thread[c] \notin {"recv", "ended"}
         /\ \/ \E answer : Reply(c, answer)
            \/ \E step, held : Continue(c, step, held)
  <2>1. CASE Recv(c) \/ EndOfStream(c) \/ TooManyFields(c)
    BY <2>1 DEF EndOfStream, TooManyFields
  <2>2. CASE Login(c) \/ LoginAnswer(c)
    BY <2>2 DEF Login, LoginAnswer
  <2>3. CASE Register(c) \/ StoreUser(c)
    BY <2>3 DEF Register, StoreUser
  <2>4. CASE CreateChatroom(c) \/ StoreRoom(c)
    BY <2>4 DEF CreateChatroom, StoreRoom
  <2>5. CASE FindRoom(c)
    BY <2>5 DEF FindRoom
  <2>6. CASE Join(c) \/ Post(c) \/ Exit(c)
    BY <2>6 DEF Join, Post, Exit
  <2>7. CASE List(c) \/ ListOfRoom(c)
    BY <2>7 DEF List, ListOfRoom
  <2>8. CASE Logout(c)
    BY <2>8 DEF Logout
  <2>9. CASE LogoutRoom(c)
    BY <2>9 DEF LogoutRoom
  <2>10. CASE LogoutRemove(c)
    BY <2>10 DEF LogoutRemove
  <2> QED BY <2>1, <2>2, <2>3, <2>4, <2>5, <2>6, <2>7, <2>8, <2>9, <2>10 DEF Thread
<1> QED BY <1>1, <1>2, RecvStep, DiesStep, ReplyStep, ContinueStep

-----------------------------------------------------------------------------
LEMMA InitInv == Init => IInv
PROOF
<1> SUFFICES ASSUME Init PROVE IInv
  OBVIOUS
<1>1. Types
  <2>1. NoDisplays \in [1 .. MaxDisplays -> Shown]
    BY DEF NoDisplays, Shown
  <2> QED BY <2>1, NoneOf DEF Init, Types
<1>2. ASSUME NEW c \in Clients PROVE Sound(c)
  <2>1. main[c] = "menu" /\ thread[c] = "recv" /\ toServer[c] = << >> /\ toClient[c] = << >>
    BY DEF Init
  <2>2. ToAnswer(c) = 0 /\ Len(toClient[c]) = 0
    BY <2>1, NoneOf DEF ToAnswer
  <2>3. ToAnswer(c) + Len(toClient[c]) <= Cardinality(Waiting(c)) + Menu(c)
    BY <1>1, <2>2, Numbers
  <2> QED BY <2>1, <2>3 DEF Sound
<1> QED BY <1>1, <1>2 DEF IInv

LEMMA StepInv == IInv /\ [Next]_vars => IInv'
PROOF
<1> SUFFICES ASSUME IInv, [Next]_vars PROVE IInv'
  OBVIOUS
<1>1. CASE Next
  <2>1. PICK c \in Clients : Client(c) \/ Start(c) \/ Thread(c)
    BY <1>1 DEF Next
  <2> QED BY <2>1, ClientStep, StartStep, ThreadStep
<1>2. CASE UNCHANGED vars
  <2>1. UNCHANGED <<main, thread, toServer, toClient, display, chatroom>>
    BY <1>2 DEF vars
  <2>2. Types'
    BY <2>1 DEF IInv, Types
  <2>3. \A d \in Clients : Sound(d)'
    BY <2>1, Untouched DEF IInv
  <2> QED BY <2>2, <2>3 DEF IInv
<1> QED BY <1>1, <1>2

\* NoSurplusAnswer: the threads of a client (client.py:27-128) never have more
\* answers to come than they wait for, with any number of display threads that
\* take each other's answers, and requests that the server (server.py:50-133)
\* reads as one.
THEOREM NoLateAnswer == Spec => []NoSurplusAnswer
PROOF
<1>1. IInv => NoSurplusAnswer
  BY DEF IInv, Sound, NoSurplusAnswer, Menu
<1> QED BY InitInv, StepInv, <1>1, PTL DEF Spec
-----------------------------------------------------------------------------
(* Who is logged in.                                                       *)

\* The requests that clients make.
Requested == {"login", "register", "getActiveUsers", "getAllChatrooms", "joinChatroom",
              "getChatroomMembers", "sendMessage", "exitChatroom", "createChatroom",
              "logout", "fetchMessages"}
WellMade(c, r) ==
    /\ r = Request(r.op, r.user, r.password, r.room) /\ r.op \in Requested
    /\ r.op \in {"login", "register", "logout"} => r.user \in NamesAt[c]

AsksToRegister(c) ==
    \/ thread[c] \in {"register", "store user"}
    \/ thread[c] # "ended" /\ \E k \in DOMAIN toServer[c] : toServer[c][k].op = "register"

\* What a client and its thread are about, with the names of that client.
Own(c) ==
    /\ \A k \in DOMAIN toServer[c] : WellMade(c, toServer[c][k])
    /\ thread[c] \in {"login", "compare", "register", "store user"} =>
         req[c].user \in NamesAt[c]
    /\ thread[c] = "logout" => req[c].user \in NamesAt[c] \cup {Mangled}
    /\ thread[c] = "compare" => Known(c)
    /\ main[c] = "login" \/ LoggedIn(c) => username[c] \in NamesAt[c]
    /\ chatroom[c] = NoRoom =>
         /\ main[c] \notin {"joinChatroom", "getChatroomMembers"}
         /\ \A k \in 1 .. MaxDisplays : display[c][k].at = "ended"
         /\ AsksToRegister(c) => main[c] \in {"register", "gone"}

AInv ==
    /\ IInv
    /\ DOMAIN req = Clients /\ DOMAIN username = Clients /\ IsSequence(user_active)
    /\ \A c \in Clients : Own(c)

\* The entries a client needs: for itself, for the logouts it has asked for, for
\* the logins it may yet be told of.
Here(c) == IF LoggedIn(c) THEN 1 ELSE 0
Logouts(c) == {k \in DOMAIN toServer[c] : toServer[c][k].op = "logout"}
Leaving(c) ==
    IF thread[c] = "ended" THEN 0
    ELSE Cardinality(Logouts(c))
         + (IF thread[c] = "logout" /\ req[c].user # Mangled THEN 1 ELSE 0)
Yeses(c) == {k \in DOMAIN toClient[c] : toClient[c][k] = "yes"}
Late(c) ==
    IF main[c] = "register" /\ chatroom[c] = NoRoom THEN 0 ELSE Cardinality(Yeses(c))
Matching(c) == IF thread[c] = "compare" /\ Matches(c) THEN 1 ELSE 0
Claims(c) == Here(c) + Leaving(c) + Late(c) + Matching(c)

Goers(u) == {c \in Clients : u \in NamesAt[c]}
Tokens(S, f) == {t \in S \X Nat : t[2] \in 1 .. f[t[1]]}
Claimed(u) == Tokens(Goers(u), [c \in Goers(u) |-> Claims(c)])
Entries(u) == {k \in DOMAIN user_active : user_active[k] = u}

Covered(u) ==
    /\ IsFiniteSet(Claimed(u)) /\ Cardinality(Claimed(u)) <= Cardinality(Entries(u))
    /\ \A c \in Goers(u) :
         /\ chatroom[c] # NoRoom \/ Claims(c) > 0 => u \in DOMAIN users
         /\ thread[c] = "store user" => chatroom[c] = NoRoom

SInv == AInv /\ \A u \in Users : OnlyName(u) => Covered(u)
-----------------------------------------------------------------------------
(* Counting entries.                                                       *)

LEMMA PartFinite ==
    ASSUME NEW s, IsSequence(s), NEW P, P \subseteq DOMAIN s
    PROVE  IsFiniteSet(P) /\ Cardinality(P) \in Nat /\ P \subseteq Nat
PROOF
<1>1. Len(s) \in Nat /\ DOMAIN s = 1 .. Len(s)
  BY SequenceOf DEF IsSequence
<1>2. PICK n : n = Len(s)
  OBVIOUS
<1>3. 1 \in Int /\ n \in Int
  BY <1>1, <1>2
<1>4. IsFiniteSet(1 .. n)
  BY <1>3, FS_Interval
<1>5. P \in SUBSET (1 .. n)
  BY <1>1, <1>2
<1>6. IsFiniteSet(P)
  BY <1>4, <1>5, FS_Subset
<1>7. Cardinality(P) \in Nat
  BY <1>6, FS_CardinalityType
<1> QED BY <1>1, <1>6, <1>7

\* What moves down by m from among P is not more.
LEMMA Moved ==
    ASSUME NEW P, IsFiniteSet(P), NEW Q, Q \subseteq Nat, NEW m \in Nat,
           \A k \in Q : k + m \in P
    PROVE  IsFiniteSet(Q) /\ Cardinality(Q) <= Cardinality(P)
PROOF
<1> DEFINE f == [k \in Q |-> k + m]
<1>1. f \in [Q -> P]
  OBVIOUS
<1>2. \A j, k \in Q : f[j] = f[k] => j = k
  OBVIOUS
<1>3. f \in Injection(Q, P)
  BY <1>1, <1>2 DEF Injection, IsInjective
<1> HIDE DEF f
<1> QED BY <1>3, FS_Injection

\* The first n elements of a sequence are taken; one of them may be of P.
LEMMA CutCount ==
    ASSUME NEW s, IsSequence(s), NEW n \in 1 .. Len(s), NEW P, P \subseteq DOMAIN s,
           NEW Q, Q \subseteq 1 .. (Len(s) - n), \A k \in Q : k + n \in P
    PROVE  /\ Cardinality(Q) <= Cardinality(P)
           /\ (\E j \in 1 .. n : j \in P) => Cardinality(Q) + 1 <= Cardinality(P)
PROOF
<1>1. Len(s) \in Nat /\ DOMAIN s = 1 .. Len(s)
  BY SequenceOf DEF IsSequence
<1>2. IsFiniteSet(P) /\ Cardinality(P) \in Nat
  BY PartFinite
<1>3. Q \subseteq Nat /\ n \in Nat
  BY <1>1
<1>4. IsFiniteSet(Q) /\ Cardinality(Q) <= Cardinality(P)
  BY <1>2, <1>3, Moved
<1>5. ASSUME NEW j \in 1 .. n, j \in P
      PROVE  Cardinality(Q) + 1 <= Cardinality(P)
  <2>1. PICK R : R = P \ {j}
    OBVIOUS
  <2>2. IsFiniteSet(R) /\ Cardinality(R) = Cardinality(P) - 1
    BY <1>2, <1>5, <2>1, FS_RemoveElement
  <2>3. \A k \in Q : k + n # j
    BY <1>1, <1>5
  <2>4. \A k \in Q : k + n \in R
    BY <2>1, <2>3
  <2>5. Cardinality(Q) <= Cardinality(R)
    BY <1>3, <2>2, <2>4, Moved
  <2>6. Cardinality(Q) \in Nat
    BY <1>4, FS_CardinalityType
  <2> QED BY <1>2, <2>2, <2>5, <2>6
<1> QED BY <1>4, <1>5

-----------------------------------------------------------------------------
(* Taking a name off the active users.                                     *)

\* A set of numbers that is not empty has a least one.
LEMMA LeastOf ==
    ASSUME NEW S, S \subseteq Nat, S # {}
    PROVE  \E n \in S : \A k \in S : n <= k
PROOF
<1> DEFINE R == OpToRel(<, Nat)
<1>1. IsWellFoundedOn(R, Nat)
  BY NatLessThanWellFounded
<1>2. \A x, y \in Nat : <<x, y>> \in R <=> x < y
  BY DEF OpToRel
<1> HIDE DEF R
<1>3. PICK n \in S : \A k \in S : ~(<<k, n>> \in R)
  BY <1>1, WFMin
<1>4. \A k \in S : ~(k < n)
  BY <1>2, <1>3
<1> QED BY <1>4

LEMMA WithoutIs ==
    ASSUME NEW s, NEW v, IsSequence(s), Contains(s, v)
    PROVE  \E i \in 1 .. Len(s) :
             s[i] = v /\ Without(s, v) = SubSeq(s, 1, i - 1) \o SubSeq(s, i + 1, Len(s))
PROOF
<1>1. Len(s) \in Nat
  BY SequenceOf DEF IsSequence
<1>2. \E i \in 1 .. Len(s) : s[i] = v
  BY DEF Contains
<1> DEFINE I == {i \in 1 .. Len(s) : s[i] = v}
<1>3. I \subseteq Nat /\ I # {}
  BY <1>1, <1>2
<1>4. \E n \in I : \A k \in I : n <= k
  BY <1>3, LeastOf
<1>5. PICK i : i = Min(I)
  OBVIOUS
<1>6. i \in I
  BY <1>4, <1>5 DEF Min
<1>7. Without(s, v) = RemoveAt(s, i)
  BY <1>2, <1>3, <1>5 DEF Without, RemoveFirst, SelectInSeq
<1> QED BY <1>6, <1>7 DEF RemoveAt

\* One entry goes, and it is one of v.
LEMMA WithoutCount ==
    ASSUME NEW s, IsSequence(s), NEW v, NEW u, Contains(s, v),
           NEW P, P = {k \in DOMAIN s : s[k] = u},
           NEW Q, Q = {k \in DOMAIN Without(s, v) : Without(s, v)[k] = u}
    PROVE  /\ IsSequence(Without(s, v))
           /\ IF u = v THEN Cardinality(P) - 1 <= Cardinality(Q)
                       ELSE Cardinality(P) <= Cardinality(Q)
PROOF
<1>1. Len(s) \in Nat /\ DOMAIN s = 1 .. Len(s)
  BY SequenceOf DEF IsSequence
<1>2. PICK i \in 1 .. Len(s) :
        s[i] = v /\ Without(s, v) = SubSeq(s, 1, i - 1) \o SubSeq(s, i + 1, Len(s))
  BY WithoutIs
<1>3. PICK t : t = Without(s, v)
  OBVIOUS
<1>4. PICK n : n = Len(s)
  OBVIOUS
<1> DEFINE S == Range(s)
<1>5. n \in Nat /\ i \in 1 .. n /\ \A k \in 1 .. n : s[k] \in S
  BY <1>1, <1>4, <1>2 DEF Range
<1> HIDE DEF S
<1>6. PICK a, b : a = SubSeq(s, 1, i - 1) /\ b = SubSeq(s, i + 1, n)
  OBVIOUS
<1>7. /\ a \in Seq(S) /\ Len(a) = i - 1
      /\ \A k \in 1 .. i - 1 : a[k] = s[k]
  <2>1. /\ 1 \in Int /\ i - 1 \in Int /\ \A k \in 1 .. i - 1 : s[k] \in S
    BY <1>5
  <2>2. /\ SubSeq(s, 1, i - 1) \in Seq(S)
        /\ Len(SubSeq(s, 1, i - 1)) = IF 1 <= i - 1 THEN (i - 1) - 1 + 1 ELSE 0
        /\ \A k \in 1 .. (i - 1) - 1 + 1 : SubSeq(s, 1, i - 1)[k] = s[1 + k - 1]
    BY <2>1, SubSeqProperties
  <2>3. \A k \in 1 .. i - 1 : k \in 1 .. (i - 1) - 1 + 1 /\ 1 + k - 1 = k
    BY <1>5
  <2> QED BY <1>5, <1>6, <2>2, <2>3
<1>8. /\ b \in Seq(S) /\ Len(b) = n - i
      /\ \A k \in 1 .. n - i : b[k] = s[i + k]
  <2>1. /\ i + 1 \in Int /\ n \in Int /\ \A k \in i + 1 .. n : s[k] \in S
    BY <1>5
  <2>2. /\ SubSeq(s, i + 1, n) \in Seq(S)
        /\ Len(SubSeq(s, i + 1, n)) = IF i + 1 <= n THEN n - (i + 1) + 1 ELSE 0
        /\ \A k \in 1 .. n - (i + 1) + 1 : SubSeq(s, i + 1, n)[k] = s[(i + 1) + k - 1]
    BY <2>1, SubSeqProperties
  <2>3. \A k \in 1 .. n - i : k \in 1 .. n - (i + 1) + 1 /\ (i + 1) + k - 1 = i + k
    BY <1>5
  <2> QED BY <1>5, <1>6, <2>2, <2>3
<1>9. t = a \o b
  BY <1>2, <1>3, <1>4, <1>6
<1>10. /\ t \in Seq(S) /\ Len(t) = n - 1
       /\ \A k \in 1 .. n - 1 : t[k] = IF k < i THEN s[k] ELSE s[k + 1]
  <2>1. /\ t \in Seq(S) /\ Len(t) = Len(a) + Len(b)
        /\ \A k \in 1 .. Len(a) + Len(b) : t[k] = IF k <= Len(a) THEN a[k] ELSE b[k - Len(a)]
    BY <1>7, <1>8, <1>9, ConcatProperties
  <2>2. Len(a) + Len(b) = n - 1
    BY <1>5, <1>7, <1>8
  <2>3. ASSUME NEW k \in 1 .. n - 1
        PROVE  t[k] = IF k < i THEN s[k] ELSE s[k + 1]
    <3>1. CASE k < i
      <4>1. k <= Len(a) /\ k \in 1 .. i - 1
        BY <1>5, <1>7, <3>1
      <4> QED BY <1>7, <2>1, <2>2, <3>1, <4>1
    <3>2. CASE ~(k < i)
      <4>1. ~(k <= Len(a)) /\ k - Len(a) \in 1 .. n - i /\ i + (k - Len(a)) = k + 1
        BY <1>5, <1>7, <3>2
      <4>2. t[k] = b[k - Len(a)]
        BY <2>1, <2>2, <4>1
      <4>3. b[k - Len(a)] = s[i + (k - Len(a))]
        BY <1>8, <4>1
      <4>4. t[k] = s[k + 1]
        BY <4>1, <4>2, <4>3
      <4> QED BY <3>2, <4>4
    <3> QED BY <3>1, <3>2
  <2> QED BY <2>1, <2>2, <2>3
<1>11. IsSequence(t) /\ DOMAIN t = 1 .. n - 1
  BY <1>10, SequenceOf
<1>12. IsFiniteSet(Q) /\ Cardinality(Q) \in Nat /\ IsFiniteSet(P) /\ Cardinality(P) \in Nat
  <2>1. Q \subseteq DOMAIN t /\ P \subseteq DOMAIN s
    BY <1>3
  <2> QED BY <1>11, <2>1, PartFinite
<1> DEFINE f == [k \in P \ {i} |-> IF k < i THEN k ELSE k - 1]
<1>13. Cardinality(P \ {i}) <= Cardinality(Q)
  <2>1. ASSUME NEW k \in P \ {i} PROVE f[k] \in Q
    <3>1. k \in 1 .. n /\ s[k] = u /\ k # i
      BY <1>1, <1>4
    <3>2. CASE k < i
      <4>1. k \in 1 .. n - 1 /\ f[k] = k
        BY <1>5, <3>1, <3>2
      <4>2. t[k] = u
        BY <1>10, <3>1, <3>2, <4>1
      <4> QED BY <1>3, <1>11, <4>1, <4>2
    <3>3. CASE ~(k < i)
      <4>1. k - 1 \in 1 .. n - 1 /\ f[k] = k - 1 /\ ~(k - 1 < i) /\ (k - 1) + 1 = k
        BY <1>5, <3>1, <3>3
      <4>2. t[k - 1] = u
        BY <1>10, <3>1, <4>1
      <4> QED BY <1>3, <1>11, <4>1, <4>2
    <3> QED BY <3>2, <3>3
  <2>2. \A k \in P \ {i} : k \in Int /\ k # i
    BY <1>1
  <2>3. \A j, k \in P \ {i} : f[j] = f[k] => j = k
    BY <1>5, <2>2
  <2>4. f \in [P \ {i} -> Q]
    BY <2>1
  <2>5. f \in Injection(P \ {i}, Q)
    BY <2>3, <2>4 DEF Injection, IsInjective
  <2> HIDE DEF f
  <2> QED BY <1>12, <2>5, FS_Injection
<1>14. i \in P <=> u = v
  BY <1>1, <1>2
<1>15. Cardinality(P \ {i}) = IF i \in P THEN Cardinality(P) - 1 ELSE Cardinality(P)
  BY <1>12, FS_RemoveElement
<1> QED BY <1>3, <1>11, <1>13, <1>14, <1>15

-----------------------------------------------------------------------------
(* More and fewer claims.                                                  *)

\* What becomes of the tokens when one client's number changes.
LEMMA TokensKept ==
    ASSUME NEW S, NEW f \in [S -> Nat], NEW g \in [S -> Nat], \A d \in S : g[d] <= f[d],
           IsFiniteSet(Tokens(S, f))
    PROVE  /\ IsFiniteSet(Tokens(S, g))
           /\ Cardinality(Tokens(S, g)) <= Cardinality(Tokens(S, f))
PROOF
<1>1. ASSUME NEW t \in Tokens(S, g) PROVE t \in Tokens(S, f)
  <2>1. t \in S \X Nat /\ t[2] \in 1 .. g[t[1]]
    BY <1>1 DEF Tokens
  <2>2. t[1] \in S /\ t[2] \in Nat
    BY <2>1
  <2>3. g[t[1]] <= f[t[1]] /\ g[t[1]] \in Nat /\ f[t[1]] \in Nat
    BY <2>2
  <2>4. t[2] \in 1 .. f[t[1]]
    BY <2>1, <2>2, <2>3
  <2> QED BY <2>1, <2>4 DEF Tokens
<1>2. Tokens(S, g) \in SUBSET Tokens(S, f)
  BY <1>1
<1> QED BY <1>2, FS_Subset

LEMMA TokenMore ==
    ASSUME NEW S, NEW f \in [S -> Nat], NEW g \in [S -> Nat], NEW c \in S,
           \A d \in S : g[d] <= IF d = c THEN f[d] + 1 ELSE f[d],
           IsFiniteSet(Tokens(S, f))
    PROVE  /\ IsFiniteSet(Tokens(S, g))
           /\ Cardinality(Tokens(S, g)) <= Cardinality(Tokens(S, f)) + 1
PROOF
<1> DEFINE x == <<c, f[c] + 1>>
<1>1. ASSUME NEW t \in Tokens(S, g) PROVE t \in Tokens(S, f) \/ t = x
  <2>1. t \in S \X Nat /\ t[2] \in 1 .. g[t[1]]
    BY <1>1 DEF Tokens
  <2>2. t[1] \in S /\ t[2] \in Nat /\ t = <<t[1], t[2]>>
    BY <2>1
  <2>3. g[t[1]] \in Nat /\ f[t[1]] \in Nat
        /\ g[t[1]] <= IF t[1] = c THEN f[t[1]] + 1 ELSE f[t[1]]
    BY <2>2
  <2>4. t[2] \in 1 .. f[t[1]] \/ (t[1] = c /\ t[2] = f[c] + 1)
    BY <2>1, <2>2, <2>3
  <2> QED BY <2>1, <2>2, <2>4 DEF Tokens
<1> HIDE DEF x
<1>2. PICK F : F = Tokens(S, f) \cup {x}
  OBVIOUS
<1>3. /\ IsFiniteSet(F) /\ Cardinality(Tokens(S, f)) \in Nat
      /\ Cardinality(F) <= Cardinality(Tokens(S, f)) + 1
  BY <1>2, FS_AddElement, FS_CardinalityType
<1>4. Tokens(S, g) \in SUBSET F
  BY <1>1, <1>2
<1>5. IsFiniteSet(Tokens(S, g)) /\ Cardinality(Tokens(S, g)) <= Cardinality(F)
  BY <1>3, <1>4, FS_Subset
<1>6. Cardinality(Tokens(S, g)) \in Nat /\ Cardinality(F) \in Nat
  BY <1>3, <1>5, FS_CardinalityType
<1> QED BY <1>3, <1>5, <1>6

LEMMA TokenLess ==
    ASSUME NEW S, NEW f \in [S -> Nat], NEW g \in [S -> Nat], NEW c \in S,
           \A d \in S : g[d] <= f[d], g[c] + 1 <= f[c],
           IsFiniteSet(Tokens(S, f))
    PROVE  /\ IsFiniteSet(Tokens(S, g))
           /\ Cardinality(Tokens(S, g)) <= Cardinality(Tokens(S, f)) - 1
PROOF
<1> DEFINE x == <<c, f[c]>>
<1>0. f[c] \in Nat /\ g[c] \in Nat /\ f[c] \in 1 .. f[c] /\ ~(f[c] <= g[c])
  <2>1. f[c] \in Nat /\ g[c] \in Nat
    OBVIOUS
  <2> QED BY <2>1
<1>1. ASSUME NEW t \in Tokens(S, g) PROVE t \in Tokens(S, f) /\ t # x
  <2>1. t \in S \X Nat /\ t[2] \in 1 .. g[t[1]]
    BY <1>1 DEF Tokens
  <2>2. t[1] \in S /\ t[2] \in Nat
    BY <2>1
  <2>3. g[t[1]] <= f[t[1]] /\ g[t[1]] \in Nat /\ f[t[1]] \in Nat
    BY <2>2
  <2>4. t[2] \in 1 .. f[t[1]] /\ t[2] <= g[t[1]]
    BY <2>1, <2>2, <2>3
  <2>5. t[1] = c => t[2] # f[c]
    BY <1>0, <2>4
  <2> QED BY <2>1, <2>4, <2>5 DEF Tokens
<1>2. x \in Tokens(S, f)
  <2>1. x \in S \X Nat /\ x[1] = c /\ x[2] = f[c]
    BY <1>0
  <2> QED BY <1>0, <2>1 DEF Tokens
<1> HIDE DEF x
<1>3. PICK F : F = Tokens(S, f) \ {x}
  OBVIOUS
<1>4. IsFiniteSet(F) /\ Cardinality(F) = Cardinality(Tokens(S, f)) - 1
  BY <1>2, <1>3, FS_RemoveElement
<1>5. Tokens(S, g) \in SUBSET F
  BY <1>1, <1>3
<1> QED BY <1>4, <1>5, FS_Subset

-----------------------------------------------------------------------------
(* What a client and its thread are about.                                 *)
-----------------------------------------------------------------------------
(* What a client and its thread are about.                                 *)

LEMMA AppendedAt ==
    ASSUME NEW s, IsSequence(s), NEW e
    PROVE  /\ DOMAIN Append(s, e) = DOMAIN s \cup {Len(s) + 1} /\ Len(s) + 1 \notin DOMAIN s
           /\ \A k \in DOMAIN s : Append(s, e)[k] = s[k]
           /\ Append(s, e)[Len(s) + 1] = e
PROOF
<1> DEFINE S == Range(s) \cup {e}
<1>1. s \in Seq(S) /\ e \in S
  <2>1. s \in Seq(Range(s))
    BY DEF IsSequence
  <2>2. Len(s) \in Nat /\ DOMAIN s = 1 .. Len(s) /\ s = [k \in 1 .. Len(s) |-> s[k]]
    BY <2>1
  <2>3. \A k \in 1 .. Len(s) : s[k] \in S
    BY <2>2 DEF Range
  <2>4. s \in [1 .. Len(s) -> S]
    BY <2>2, <2>3
  <2> QED BY <2>2, <2>4
<1> HIDE DEF S
<1> QED BY <1>1

LEMMA CutAt ==
    ASSUME NEW s, IsSequence(s), NEW n \in 1 .. Len(s)
    PROVE  /\ DOMAIN SubSeq(s, n + 1, Len(s)) = 1 .. (Len(s) - n)
           /\ \A k \in 1 .. (Len(s) - n) :
                k + n \in DOMAIN s /\ SubSeq(s, n + 1, Len(s))[k] = s[k + n]
PROOF
<1> DEFINE S == Range(s)
<1>1. s \in Seq(S) /\ Len(s) \in Nat /\ DOMAIN s = 1 .. Len(s)
  BY DEF IsSequence
<1> HIDE DEF S
<1>2. PICK m : m = Len(s)
  OBVIOUS
<1>3. \A k \in n + 1 .. m : s[k] \in S
  BY <1>1, <1>2
<1>4. n + 1 \in Int /\ m \in Int /\ n \in 1 .. m
  BY <1>1, <1>2
<1>5. /\ SubSeq(s, n + 1, m) \in Seq(S)
      /\ Len(SubSeq(s, n + 1, m)) = IF n + 1 <= m THEN m - (n + 1) + 1 ELSE 0
      /\ \A k \in 1 .. m - (n + 1) + 1 : SubSeq(s, n + 1, m)[k] = s[(n + 1) + k - 1]
  BY <1>3, <1>4, SubSeqProperties
<1>6. Len(SubSeq(s, n + 1, m)) = m - n
  BY <1>4, <1>5
<1>7. DOMAIN SubSeq(s, n + 1, m) = 1 .. m - n
  BY <1>5, <1>6
<1>8. \A k \in 1 .. m - n : k \in 1 .. m - (n + 1) + 1 /\ (n + 1) + k - 1 = k + n /\ k + n \in 1 .. m
  BY <1>4
<1> QED BY <1>1, <1>2, <1>5, <1>7, <1>8

LEMMA OwnKept ==
    ASSUME NEW d \in Clients, Own(d), main'[d] = main[d], thread'[d] = thread[d],
           toServer'[d] = toServer[d], chatroom'[d] = chatroom[d],
           display'[d] = display[d], username'[d] = username[d], req'[d] = req[d],
           DOMAIN users \subseteq DOMAIN users'
    PROVE  Own(d)'
PROOF
<1>1. LoggedIn(d)' <=> LoggedIn(d)
  BY DEF LoggedIn
<1>2. AsksToRegister(d)' <=> AsksToRegister(d)
  BY DEF AsksToRegister
<1>3. Known(d) => Known(d)'
  BY DEF Known
<1> QED BY <1>1, <1>2, <1>3 DEF Own

\* The menu thread goes to a place, perhaps with a request.
LEMMA GotoOwn ==
    ASSUME AInv, NEW c \in Clients, NEW place, NEW request, Goto(c, place, request),
           UNCHANGED <<thread, req, users>>,
           place \in Asking => /\ WellMade(c, request)
                               /\ request.op = "register" => place = "register",
           place \notin {"menu", "register", "logout", "gone"} => username'[c] \in NamesAt[c],
           chatroom'[c] = NoRoom =>
             /\ place \notin {"joinChatroom", "getChatroomMembers"}
             /\ \A k \in 1 .. MaxDisplays : display'[c][k].at = "ended"
             /\ AsksToRegister(c) => place = "register"
    PROVE  Own(c)'
PROOF
<1>1. main'[c] = place
  BY DEF Goto, AInv, IInv, Types
<1>2. toServer'[c] = IF place \in Asking THEN Append(toServer[c], request) ELSE toServer[c]
  BY DEF Goto, AInv, IInv, Types
<1>3. /\ DOMAIN Append(toServer[c], request) = DOMAIN toServer[c] \cup {Len(toServer[c]) + 1}
      /\ \A k \in DOMAIN toServer[c] : Append(toServer[c], request)[k] = toServer[c][k]
      /\ Append(toServer[c], request)[Len(toServer[c]) + 1] = request
  BY AppendedAt DEF AInv, IInv, Types
<1>4. Own(c)
  BY DEF AInv
<1>5. ASSUME NEW k \in DOMAIN toServer'[c]
      PROVE  /\ WellMade(c, toServer'[c][k])
             /\ \/ k \in DOMAIN toServer[c] /\ toServer'[c][k] = toServer[c][k]
                \/ place \in Asking /\ toServer'[c][k] = request
  <2>1. CASE place \in Asking
    BY <1>2, <1>3, <1>4, <2>1 DEF Own
  <2>2. CASE place \notin Asking
    BY <1>2, <1>4, <2>2 DEF Own
  <2> QED BY <2>1, <2>2
<1>6. AsksToRegister(c)' => AsksToRegister(c) \/ place = "register"
  BY <1>5 DEF AsksToRegister
<1>7. Known(c)' <=> Known(c)
  BY DEF Known
<1>8. main'[c] = "login" \/ LoggedIn(c)' => username'[c] \in NamesAt[c]
  BY <1>1 DEF LoggedIn
<1> QED BY <1>1, <1>4, <1>5, <1>6, <1>7, <1>8 DEF Own

LEMMA Answerless ==
    ASSUME AInv, NEW c \in Clients, main[c] = "register", chatroom[c] = NoRoom
    PROVE  ToAnswer(c) + Len(toClient[c]) <= 1
PROOF
<1>1. Waiting(c) = {}
  BY DEF AInv, Own, Waiting
<1>2. Menu(c) = 1
  BY DEF Menu, Asking
<1>3. Cardinality(Waiting(c)) = 0
  BY <1>1, FS_EmptySet
<1>4. ToAnswer(c) + Len(toClient[c]) <= Cardinality(Waiting(c)) + Menu(c)
  BY DEF AInv, IInv, Sound
<1> QED BY <1>2, <1>3, <1>4

LEMMA UserOwn ==
    ASSUME AInv, NEW c \in Clients, User(c), UNCHANGED <<users, thread, req>>
    PROVE  Own(c)'
PROOF
<1>1. display' = display
  BY DEF User
<1>2. Own(c) /\ DOMAIN username = Clients
  BY DEF AInv
<1>3. CASE LoginOrRegister(c)
  <2>1. PICK op \in {"login", "register"}, u \in NamesAt[c], p \in Passwords :
          Goto(c, op, Request(op, u, p, NoRoom)) /\ Named(c, op, u)
    BY <1>3 DEF LoginOrRegister
  <2>2. main[c] = "menu" /\ chatroom' = chatroom
    BY <1>3 DEF LoginOrRegister
  <2>3. WellMade(c, Request(op, u, p, NoRoom)) /\ Request(op, u, p, NoRoom).op = op
    BY DEF WellMade, Request, Requested
  <2>4. op = "login" => username'[c] = u
    BY <1>2, <2>1 DEF Named
  <2>5. chatroom[c] = NoRoom => ~AsksToRegister(c) /\ \A k \in 1 .. MaxDisplays : display[c][k].at = "ended"
    BY <1>2, <2>2 DEF Own
  <2> QED BY <1>1, <2>1, <2>2, <2>3, <2>4, <2>5, GotoOwn
<1>4. CASE HomeChoice(c)
  <2>1. PICK place \in {"choose", "getAllChatrooms", "getActiveUsers", "logout"} :
          Goto(c, place, Say(c, place))
    BY <1>4 DEF HomeChoice
  <2>2. main[c] = "home" /\ UNCHANGED <<username, chatroom>>
    BY <1>4 DEF HomeChoice
  <2>3. username[c] \in NamesAt[c]
    BY <1>2, <2>2 DEF Own, LoggedIn
  <2>4. WellMade(c, Say(c, place)) /\ Say(c, place).op # "register"
    BY <2>3 DEF WellMade, Request, Requested, Say, Op
  <2>5. chatroom[c] = NoRoom => ~AsksToRegister(c) /\ \A k \in 1 .. MaxDisplays : display[c][k].at = "ended"
    BY <1>2, <2>2 DEF Own
  <2> QED BY <1>1, <2>1, <2>2, <2>3, <2>4, <2>5, GotoOwn
<1>5. CASE CreateRoom(c)
  <2>1. PICK r \in RoomNames :
          Goto(c, "createChatroom", Request("createChatroom", Nobody, "none", r))
    BY <1>5 DEF CreateRoom
  <2>2. main[c] = "home" /\ UNCHANGED <<username, chatroom>>
    BY <1>5 DEF CreateRoom
  <2>3. username[c] \in NamesAt[c]
    BY <1>2, <2>2 DEF Own, LoggedIn
  <2>4. PICK request : request = Request("createChatroom", Nobody, "none", r)
    OBVIOUS
  <2>5. WellMade(c, request) /\ request.op # "register"
    BY <2>4 DEF WellMade, Request, Requested
  <2>6. chatroom[c] = NoRoom => ~AsksToRegister(c) /\ \A k \in 1 .. MaxDisplays : display[c][k].at = "ended"
    BY <1>2, <2>2 DEF Own
  <2> QED BY <1>1, <2>1, <2>2, <2>3, <2>4, <2>5, <2>6, GotoOwn
<1>6. CASE ChooseRoom(c)
  <2>1. PICK r \in RoomNames :
          /\ chatroom' = [chatroom EXCEPT ![c] = r]
          /\ Goto(c, "joinChatroom", Request("joinChatroom", username[c], "none", r))
    BY <1>6 DEF ChooseRoom
  <2>2. main[c] = "which room" /\ username' = username
    BY <1>6 DEF ChooseRoom
  <2>3. username[c] \in NamesAt[c]
    BY <1>2, <2>2 DEF Own, LoggedIn
  <2>4. PICK request : request = Request("joinChatroom", username[c], "none", r)
    OBVIOUS
  <2>5. WellMade(c, request) /\ request.op # "register"
    BY <2>4 DEF WellMade, Request, Requested
  <2>6. chatroom'[c] # NoRoom
    BY <2>1, ChatAssumption DEF ChatAssumption, AInv, IInv, Types
  <2> QED BY <2>1, <2>2, <2>3, <2>4, <2>5, <2>6, GotoOwn
<1>7. CASE Write(c)
  <2>1. PICK place \in {"sendMessage", "farewell"} : Goto(c, place, Say(c, place))
    BY <1>7 DEF Write
  <2>2. main[c] = "room" /\ UNCHANGED <<username, chatroom>>
    BY <1>7 DEF Write
  <2>3. username[c] \in NamesAt[c]
    BY <1>2, <2>2 DEF Own, LoggedIn
  <2>4. WellMade(c, Say(c, place)) /\ Say(c, place).op # "register"
    BY <2>3 DEF WellMade, Request, Requested, Say, Op
  <2>5. chatroom[c] = NoRoom => ~AsksToRegister(c) /\ \A k \in 1 .. MaxDisplays : display[c][k].at = "ended"
    BY <1>2, <2>2 DEF Own
  <2> QED BY <1>1, <2>1, <2>2, <2>3, <2>4, <2>5, GotoOwn
<1> QED BY <1>3, <1>4, <1>5, <1>6, <1>7 DEF User

LEMMA AnswerOwed ==
    ASSUME AInv, NEW c \in Clients, AsksToRegister(c)
    PROVE  ToAnswer(c) >= 1
PROOF
<1>1. Len(toServer[c]) \in Nat /\ DOMAIN toServer[c] = 1 .. Len(toServer[c])
  BY SequenceOf DEF AInv, IInv, Types, IsSequence
<1>2. /\ Busy(c) \in {0, 1}
      /\ ToAnswer(c) = IF thread[c] = "ended" THEN 0 ELSE Len(toServer[c]) + Busy(c)
  BY Numbers DEF AInv, IInv
<1>3. CASE thread[c] \in {"register", "store user"}
  <2>1. Busy(c) = 1 /\ thread[c] # "ended"
    BY <1>3 DEF Busy
  <2> QED BY <1>1, <1>2, <2>1
<1>4. CASE thread[c] # "ended" /\ \E k \in DOMAIN toServer[c] : toServer[c][k].op = "register"
  <2>1. Len(toServer[c]) >= 1
    BY <1>1, <1>4
  <2> QED BY <1>1, <1>2, <1>4, <2>1
<1> QED BY <1>3, <1>4 DEF AsksToRegister

\* While a registration is under way nothing is there to be taken for its answer.
LEMMA NotYetAnswered ==
    ASSUME AInv, NEW c \in Clients, AsksToRegister(c), chatroom[c] = NoRoom,
           main[c] # "gone"
    PROVE  toClient[c] = << >> /\ ~Closed(c)
PROOF
<1>1. main[c] = "register"
  BY DEF AInv, Own
<1>2. ToAnswer(c) + Len(toClient[c]) <= 1 /\ ToAnswer(c) >= 1
  BY <1>1, Answerless, AnswerOwed
<1>3. Len(toClient[c]) \in Nat /\ ToAnswer(c) \in Nat
  BY Numbers, AnswerCount DEF AInv, IInv
<1>4. Len(toClient[c]) = 0
  BY <1>2, <1>3
<1>5. toClient[c] = << >>
  <2>1. toClient[c] \in Seq(Range(toClient[c]))
    BY DEF AInv, IInv, Types, IsSequence
  <2> QED BY <1>4, <2>1
<1>6. thread[c] # "ended"
  BY DEF AsksToRegister
<1> QED BY <1>5, <1>6 DEF Closed

LEMMA AnswerThere ==
    ASSUME NEW c \in Clients, Proceed(c)
    PROVE  toClient[c] # << >> /\ main[c] \in Asking
PROOF
<1>1. PICK n \in Received(c) : n = 1
  BY DEF Proceed, Understood
<1> QED BY <1>1, NoneOf DEF Proceed, Received, Closed

LEMMA AfterIs ==
    ASSUME NEW from, NEW answer, NEW place, place = After(from, answer)
    PROVE  /\ place \in {"getActiveUsers", "menu", "which room", "getChatroomMembers",
                         "home", "room", "exitChatroom", "getAllChatrooms"}
           /\ place = "getChatroomMembers" => from = "joinChatroom"
           /\ from \in {"register", "logout"} => place = "menu"
           /\ from = "login" => place = IF answer = "yes" THEN "getActiveUsers" ELSE "menu"
           /\ place = "menu" => from \in {"login", "register", "logout"}
PROOF
<1>1. CASE from = "login"
  BY <1>1 DEF After
<1>2. CASE from = "register"
  BY <1>2 DEF After
<1>3. CASE from = "choose"
  BY <1>3 DEF After
<1>4. CASE from = "joinChatroom"
  BY <1>4 DEF After
<1>5. CASE from \in {"getChatroomMembers", "sendMessage"}
  BY <1>5 DEF After
<1>6. CASE from = "farewell"
  BY <1>6 DEF After
<1>7. CASE from = "createChatroom"
  BY <1>7 DEF After
<1>8. CASE from = "logout"
  BY <1>8 DEF After
<1>9. CASE from \notin {"login", "register", "choose", "joinChatroom", "getChatroomMembers",
                        "sendMessage", "farewell", "createChatroom", "logout"}
  <2>1. After(from, answer) = "home"
    BY <1>9 DEF After
  <2> QED BY <1>9, <2>1
<1> QED BY <1>1, <1>2, <1>3, <1>4, <1>5, <1>6, <1>7, <1>8, <1>9

LEMMA SaysWell ==
    ASSUME NEW c \in Clients, NEW place,
           place \in {"getActiveUsers", "getChatroomMembers", "exitChatroom", "getAllChatrooms"}
    PROVE  /\ WellMade(c, Say(c, place))
           /\ Say(c, place).op \notin {"login", "register", "logout"}
PROOF
<1>1. Op(place) = place
  BY DEF Op
<1>2. Say(c, place).op = place
  BY <1>1 DEF Say, Request
<1> QED BY <1>1, <1>2 DEF WellMade, Request, Requested, Say

LEMMA ProceedOwn ==
    ASSUME AInv, NEW c \in Clients, Proceed(c), UNCHANGED <<users, thread, req>>
    PROVE  Own(c)'
PROOF
<1>1. toClient[c] # << >> /\ main[c] \in Asking /\ main[c] # "gone"
  BY AnswerThere DEF Asking
<1>2. PICK from, answer, place :
        from = main[c] /\ answer = Head(toClient[c]) /\ place = After(from, answer)
  OBVIOUS
<1>3. /\ Goto(c, place, Say(c, place)) /\ chatroom' = chatroom
      /\ username' = IF place = "menu" THEN [username EXCEPT ![c] = Nobody] ELSE username
      /\ main[c] # "getChatroomMembers" => display' = display
  BY <1>2 DEF Proceed
<1>4. /\ place \in {"getActiveUsers", "menu", "which room", "getChatroomMembers",
                    "home", "room", "exitChatroom", "getAllChatrooms"}
      /\ place = "getChatroomMembers" => main[c] = "joinChatroom"
      /\ main[c] \in {"register", "logout"} => place = "menu"
  <2>1. /\ place \in {"getActiveUsers", "menu", "which room", "getChatroomMembers",
                      "home", "room", "exitChatroom", "getAllChatrooms"}
        /\ place = "getChatroomMembers" => from = "joinChatroom"
        /\ from \in {"register", "logout"} => place = "menu"
    BY <1>2, AfterIs
  <2> QED BY <1>2, <2>1
<1>5. place \in Asking => WellMade(c, Say(c, place)) /\ Say(c, place).op # "register"
  BY <1>4, SaysWell DEF Asking
<1>6. Own(c)
  BY DEF AInv
<1>7. place # "menu" => username'[c] \in NamesAt[c]
  <2>1. ASSUME place # "menu" PROVE main[c] = "login" \/ LoggedIn(c)
    BY <1>1, <1>4, <2>1 DEF LoggedIn, Asking
  <2> QED BY <1>3, <1>6, <2>1 DEF Own
<1>8. ASSUME chatroom[c] = NoRoom
      PROVE  /\ place \notin {"joinChatroom", "getChatroomMembers"}
             /\ \A k \in 1 .. MaxDisplays : display'[c][k].at = "ended"
             /\ ~AsksToRegister(c)
  <2>1. main[c] \notin {"joinChatroom", "getChatroomMembers"}
    BY <1>6, <1>8 DEF Own
  <2>2. ~AsksToRegister(c)
    BY <1>1, <1>8, NotYetAnswered
  <2> QED BY <1>3, <1>4, <1>6, <1>8, <2>1, <2>2 DEF Own
<1> QED BY <1>3, <1>4, <1>5, <1>7, <1>8, GotoOwn

LEMMA EndOwn ==
    ASSUME AInv, NEW c \in Clients, End(c), UNCHANGED <<users, thread, req>>
    PROVE  Own(c)'
PROOF
<1>1. /\ main'[c] = "gone" /\ display'[c] = NoDisplays /\ toServer' = toServer
  BY DEF End, AInv, IInv, Types
<1>2. \A k \in 1 .. MaxDisplays : display'[c][k].at = "ended"
  BY <1>1 DEF NoDisplays
<1>3. Own(c) /\ (Known(c)' <=> Known(c)) /\ ~LoggedIn(c)'
  BY <1>1 DEF AInv, Known, LoggedIn
<1> QED BY <1>1, <1>2, <1>3 DEF Own

LEMMA DisplayOwn ==
    ASSUME AInv, NEW c \in Clients, Display(c), UNCHANGED <<users, thread, req>>
    PROVE  Own(c)' /\ chatroom[c] # NoRoom
PROOF
<1>1. UNCHANGED <<main, username, chatroom>>
  BY DEF Display
<1>2. PICK k \in 1 .. MaxDisplays :
        Again(c, k) \/ StopDisplay(c, k) \/ Fetch(c, k) \/ Show(c, k)
  BY DEF Display
<1>3. display[c][k].at # "ended"
  BY <1>2 DEF Again, StopDisplay, Fetch, Show
<1>4. Own(c) /\ (Known(c)' <=> Known(c)) /\ (LoggedIn(c)' <=> LoggedIn(c))
  BY <1>1 DEF AInv, Known, LoggedIn
<1>5. chatroom[c] # NoRoom
  BY <1>3, <1>4 DEF Own
<1>6. \A j \in DOMAIN toServer'[c] : WellMade(c, toServer'[c][j])
  <2>1. CASE Fetch(c, k)
    <3>1. PICK request : request = Request("fetchMessages", Nobody, "none", display[c][k].room)
      OBVIOUS
    <3>2. toServer'[c] = Append(toServer[c], request)
      BY <2>1, <3>1 DEF Fetch, AInv, IInv, Types
    <3>3. WellMade(c, request)
      BY <3>1 DEF WellMade, Request, Requested
    <3>4. /\ DOMAIN Append(toServer[c], request) = DOMAIN toServer[c] \cup {Len(toServer[c]) + 1}
          /\ \A j \in DOMAIN toServer[c] : Append(toServer[c], request)[j] = toServer[c][j]
          /\ Append(toServer[c], request)[Len(toServer[c]) + 1] = request
      BY AppendedAt DEF AInv, IInv, Types
    <3>5. \A j \in DOMAIN toServer[c] : WellMade(c, toServer[c][j])
      BY <1>4 DEF Own
    <3>6. ASSUME NEW j \in DOMAIN toServer'[c]
          PROVE  \/ toServer'[c][j] = request
                 \/ j \in DOMAIN toServer[c] /\ toServer'[c][j] = toServer[c][j]
      BY <3>2, <3>4
    <3> QED BY <3>3, <3>5, <3>6
  <2>2. CASE Again(c, k) \/ StopDisplay(c, k) \/ Show(c, k)
    <3>1. toServer' = toServer
      BY <2>2 DEF Again, StopDisplay, Show
    <3> QED BY <1>4, <3>1 DEF Own
  <2> QED BY <1>2, <2>1, <2>2
<1> QED BY <1>1, <1>4, <1>5, <1>6 DEF Own

\* The other clients' part of the state.
Elsewhere(c) ==
    /\ DOMAIN username' = Clients
    /\ \A d \in Clients \ {c} :
         /\ main'[d] = main[d] /\ username'[d] = username[d] /\ chatroom'[d] = chatroom[d]
         /\ display'[d] = display[d] /\ toServer'[d] = toServer[d]
         /\ toClient'[d] = toClient[d]

LEMMA GotoFrame ==
    ASSUME AInv, NEW c \in Clients, NEW place, NEW request, Goto(c, place, request)
    PROVE  \A d \in Clients \ {c} : main'[d] = main[d] /\ toServer'[d] = toServer[d]
PROOF
<1> QED BY DEF Goto, AInv, IInv, Types

LEMMA UserFrame ==
    ASSUME AInv, NEW c \in Clients, User(c)
    PROVE  /\ Elsewhere(c) /\ UNCHANGED <<display, toClient>>
           /\ \E place, request : Goto(c, place, request)
PROOF
<1>1. UNCHANGED <<display, toClient>> /\ DOMAIN username = Clients
  BY DEF User, AInv
<1>2. /\ \E place, request : Goto(c, place, request)
      /\ DOMAIN username' = Clients
      /\ \A d \in Clients \ {c} : username'[d] = username[d] /\ chatroom'[d] = chatroom[d]
  <2>1. CASE LoginOrRegister(c)
    <3>1. PICK op \in {"login", "register"}, u \in NamesAt[c], p \in Passwords :
            Goto(c, op, Request(op, u, p, NoRoom)) /\ Named(c, op, u)
      BY <2>1 DEF LoginOrRegister
    <3>2. chatroom' = chatroom
      BY <2>1 DEF LoginOrRegister
    <3> QED BY <1>1, <3>1, <3>2 DEF Named
  <2>2. CASE HomeChoice(c) \/ Write(c)
    <3>1. UNCHANGED <<username, chatroom>> /\ \E place, request : Goto(c, place, request)
      BY <2>2 DEF HomeChoice, Write
    <3> QED BY <1>1, <3>1
  <2>3. CASE CreateRoom(c)
    <3>1. UNCHANGED <<username, chatroom>> /\ \E place, request : Goto(c, place, request)
      BY <2>3 DEF CreateRoom
    <3> QED BY <1>1, <3>1
  <2>4. CASE ChooseRoom(c)
    <3>1. PICK r \in RoomNames :
            /\ chatroom' = [chatroom EXCEPT ![c] = r]
            /\ Goto(c, "joinChatroom", Request("joinChatroom", username[c], "none", r))
      BY <2>4 DEF ChooseRoom
    <3>2. username' = username
      BY <2>4 DEF ChooseRoom
    <3> QED BY <1>1, <3>1, <3>2 DEF AInv, IInv, Types
  <2> QED BY <2>1, <2>2, <2>3, <2>4 DEF User
<1>3. PICK place, request : Goto(c, place, request)
  BY <1>2
<1>4. \A d \in Clients \ {c} : main'[d] = main[d] /\ toServer'[d] = toServer[d]
  BY <1>3, GotoFrame
<1> QED BY <1>1, <1>2, <1>4 DEF Elsewhere

LEMMA ProceedFrame ==
    ASSUME AInv, NEW c \in Clients, Proceed(c)
    PROVE  Elsewhere(c)
PROOF
<1>1. PICK place : place = After(main[c], Head(toClient[c]))
  OBVIOUS
<1>2. /\ Goto(c, place, Say(c, place)) /\ chatroom' = chatroom
      /\ username' = IF place = "menu" THEN [username EXCEPT ![c] = Nobody] ELSE username
      /\ toClient' = [toClient EXCEPT ![c] = Tail(@)]
      /\ display' = display
         \/ \E slot \in 1 .. MaxDisplays : display' = NewDisplay(c, slot)
  BY <1>1 DEF Proceed
<1>3. \A d \in Clients \ {c} : display'[d] = display[d]
  BY <1>2 DEF NewDisplay, AInv, IInv, Types
<1>4. \A d \in Clients \ {c} : main'[d] = main[d] /\ toServer'[d] = toServer[d]
  BY <1>2, GotoFrame
<1>5. \A d \in Clients \ {c} : toClient'[d] = toClient[d]
  BY <1>2 DEF AInv, IInv, Types
<1>6. DOMAIN username' = Clients /\ \A d \in Clients \ {c} : username'[d] = username[d]
  BY <1>2 DEF AInv
<1> QED BY <1>2, <1>3, <1>4, <1>5, <1>6 DEF Elsewhere

LEMMA EndFrame ==
    ASSUME AInv, NEW c \in Clients, End(c)
    PROVE  Elsewhere(c)
PROOF
<1> QED BY DEF End, Elsewhere, AInv, IInv, Types

LEMMA DisplayFrame ==
    ASSUME AInv, NEW c \in Clients, Display(c)
    PROVE  Elsewhere(c)
PROOF
<1>1. UNCHANGED <<main, username, chatroom>>
  BY DEF Display
<1>2. PICK k \in 1 .. MaxDisplays :
        Again(c, k) \/ StopDisplay(c, k) \/ Fetch(c, k) \/ Show(c, k)
  BY DEF Display
<1>3. CASE Fetch(c, k)
  BY <1>1, <1>3 DEF Fetch, Elsewhere, AInv, IInv, Types
<1>4. CASE Again(c, k) \/ StopDisplay(c, k)
  BY <1>1, <1>4 DEF Again, StopDisplay, Elsewhere, AInv, IInv, Types
<1>5. CASE Show(c, k)
  <2>1. /\ toServer' = toServer
        /\ \E n : toClient' = [toClient EXCEPT ![c] = SubSeq(@, n + 1, Len(@))]
        /\ \/ display' = [display EXCEPT ![c][k].at = "sleeping"]
           \/ display' = [display EXCEPT ![c][k] = NoDisplays[k]]
    BY <1>5 DEF Show
  <2>2. \A d \in Clients \ {c} : display'[d] = display[d] /\ toClient'[d] = toClient[d]
    BY <2>1 DEF AInv, IInv, Types
  <2> QED BY <1>1, <2>1, <2>2 DEF Elsewhere, AInv
<1> QED BY <1>2, <1>3, <1>4, <1>5

LEMMA ClientOwn ==
    ASSUME AInv, NEW c \in Clients, Client(c)
    PROVE  AInv' /\ Elsewhere(c)
PROOF
<1>1. UNCHANGED <<users, user_active, thread, req>>
  BY DEF Client, shared
<1>2. IInv'
  BY ClientStep DEF AInv
<1>3. Own(c)' /\ Elsewhere(c)
  <2>1. CASE User(c)
    BY <1>1, <2>1, UserOwn, UserFrame
  <2>2. CASE Proceed(c)
    BY <1>1, <2>2, ProceedOwn, ProceedFrame
  <2>3. CASE Leave(c) \/ Crash(c)
    BY <1>1, <2>3, EndOwn, EndFrame DEF Leave, Crash
  <2>4. CASE Display(c)
    BY <1>1, <2>4, DisplayOwn, DisplayFrame
  <2> QED BY <2>1, <2>2, <2>3, <2>4 DEF Client
<1>4. ASSUME NEW d \in Clients \ {c} PROVE Own(d)'
  <2>1. /\ main'[d] = main[d] /\ username'[d] = username[d] /\ chatroom'[d] = chatroom[d]
        /\ display'[d] = display[d] /\ toServer'[d] = toServer[d]
    BY <1>3 DEF Elsewhere
  <2>2. Own(d) /\ d \in Clients
    BY DEF AInv
  <2> QED BY <1>1, <2>1, <2>2, OwnKept
<1>5. DOMAIN username' = Clients
  BY <1>3 DEF Elsewhere
<1> QED BY <1>1, <1>2, <1>3, <1>4, <1>5 DEF AInv

LEMMA StartOwn ==
    ASSUME AInv, NEW c \in Clients, Start(c)
    PROVE  AInv' /\ Elsewhere(c) /\ \A d \in Clients \ {c} : thread'[d] = thread[d]
PROOF
<1>1. /\ main' = [main EXCEPT ![c] = "menu"] /\ thread' = [thread EXCEPT ![c] = "recv"]
      /\ toServer' = [toServer EXCEPT ![c] = << >>]
      /\ UNCHANGED <<users, user_active, req, username, chatroom, display, toClient>>
  BY DEF Start, shared
<1>2. IInv'
  BY StartStep DEF AInv
<1>3. /\ main'[c] = "menu" /\ thread'[c] = "recv" /\ toServer'[c] = << >>
      /\ \A d \in Clients \ {c} : /\ main'[d] = main[d] /\ thread'[d] = thread[d]
                                  /\ toServer'[d] = toServer[d]
  BY <1>1 DEF AInv, IInv, Types
<1>4. DOMAIN toServer'[c] = {}
  BY <1>3
<1>5. Own(c)'
  <2>1. ~AsksToRegister(c)' /\ ~LoggedIn(c)'
    BY <1>3, <1>4 DEF AsksToRegister, LoggedIn
  <2>2. Own(c)
    BY DEF AInv
  <2> QED BY <1>1, <1>3, <1>4, <2>1, <2>2 DEF Own
<1>6. ASSUME NEW d \in Clients \ {c} PROVE Own(d)'
  <2>1. Own(d) /\ d \in Clients
    BY DEF AInv
  <2> QED BY <1>1, <1>3, <2>1, OwnKept
<1>7. DOMAIN username' = Clients
  BY <1>1 DEF AInv
<1> QED BY <1>1, <1>2, <1>3, <1>5, <1>6, <1>7 DEF AInv, Elsewhere

\* What the server makes of what it has read is the first request, if anything.
LEMMA ReadIs ==
    ASSUME AInv, NEW c \in Clients, NEW n \in 1 .. Len(toServer[c]),
           NEW r, r = Read(SubSeq(toServer[c], 1, n)),
           NEW first, first = toServer[c][1]
    PROVE  /\ 1 \in DOMAIN toServer[c] /\ WellMade(c, first)
           /\ r.op \in {first.op, "too many fields"}
           /\ r.op \in {"login", "register"} => r.user = first.user
           /\ r.op = "logout" => r.user \in {first.user, Mangled}
PROOF
<1>1. PICK s : s = toServer[c]
  OBVIOUS
<1> DEFINE S == Range(s)
<1>2. s \in Seq(S) /\ Len(s) \in Nat /\ DOMAIN s = 1 .. Len(s)
  BY <1>1 DEF AInv, IInv, Types, IsSequence
<1> HIDE DEF S
<1>3. n \in Nat /\ n >= 1 /\ 1 \in DOMAIN s /\ \A k \in 1 .. n : s[k] \in S
  BY <1>1, <1>2
<1>4. PICK q : q = SubSeq(s, 1, n)
  OBVIOUS
<1>5. q \in Seq(S) /\ Len(q) = n /\ q[1] = s[1]
  <2>1. 1 \in Int /\ n \in Int
    BY <1>3
  <2>2. /\ SubSeq(s, 1, n) \in Seq(S)
        /\ Len(SubSeq(s, 1, n)) = IF 1 <= n THEN n - 1 + 1 ELSE 0
        /\ \A i \in 1 .. n - 1 + 1 : SubSeq(s, 1, n)[i] = s[1 + i - 1]
    BY <1>3, <2>1, SubSeqProperties
  <2>3. 1 \in 1 .. n - 1 + 1 /\ 1 + 1 - 1 = 1 /\ n - 1 + 1 = n
    BY <1>3
  <2> QED BY <1>3, <1>4, <2>2, <2>3
<1>6. Head(q) = first
  BY <1>1, <1>5
<1>7. WellMade(c, first)
  BY <1>1, <1>3 DEF AInv, Own
<1>8. first = Request(first.op, first.user, first.password, first.room)
      /\ first.op # "too many fields"
  BY <1>7 DEF WellMade, Requested
<1>9. /\ WithTail(first).op = first.op
      /\ first.op \in {"login", "register"} => WithTail(first).user = first.user
      /\ first.op = "logout" => WithTail(first).user = Mangled
  <2>1. CASE first.op \in {"createChatroom", "fetchMessages", "getChatroomMembers"}
    <3>1. WithTail(first) = [first EXCEPT !.room = Mangled]
      BY <2>1 DEF WithTail
    <3>2. [first EXCEPT !.room = Mangled].op = first.op
      BY <1>8 DEF Request
    <3> QED BY <2>1, <3>1, <3>2
  <2>2. CASE first.op \in {"joinChatroom", "exitChatroom", "logout"}
    <3>1. WithTail(first) = [first EXCEPT !.user = Mangled]
      BY <2>2 DEF WithTail
    <3>2. [first EXCEPT !.user = Mangled].op = first.op /\ [first EXCEPT !.user = Mangled].user = Mangled
      BY <1>8 DEF Request
    <3> QED BY <2>2, <3>1, <3>2
  <2>3. CASE first.op \in {"login", "register"}
    <3>1. WithTail(first) = [first EXCEPT !.password = Mangled]
      BY <2>3 DEF WithTail
    <3>2. /\ [first EXCEPT !.password = Mangled].op = first.op
          /\ [first EXCEPT !.password = Mangled].user = first.user
      BY <1>8 DEF Request
    <3> QED BY <2>3, <3>1, <3>2
  <2>4. CASE first.op \notin {"createChatroom", "fetchMessages", "getChatroomMembers",
                              "joinChatroom", "exitChatroom", "logout", "login", "register"}
    <3>1. WithTail(first) = first
      BY <2>4 DEF WithTail
    <3> QED BY <2>4, <3>1
  <2> QED BY <2>1, <2>2, <2>3, <2>4
<1>10. r \in {first, WithTail(first), [NoRequest EXCEPT !.op = "too many fields"]}
  BY <1>1, <1>4, <1>6 DEF Read
<1>11. [NoRequest EXCEPT !.op = "too many fields"].op = "too many fields"
  BY DEF NoRequest, Request
<1> QED BY <1>1, <1>3, <1>7, <1>8, <1>9, <1>10, <1>11

\* The other threads' part of the state.
Beside(c) ==
    /\ UNCHANGED <<main, username, chatroom, display>> /\ DOMAIN req' = Clients
    /\ \A d \in Clients \ {c} :
         /\ thread'[d] = thread[d] /\ req'[d] = req[d]
         /\ toServer'[d] = toServer[d] /\ toClient'[d] = toClient[d]

LEMMA BesideOwn ==
    ASSUME AInv, NEW c \in Clients, Beside(c), DOMAIN users \subseteq DOMAIN users',
           Own(c)', IInv', IsSequence(user_active')
    PROVE  AInv'
PROOF
<1>1. ASSUME NEW d \in Clients \ {c} PROVE Own(d)'
  <2>1. Own(d) /\ d \in Clients
    BY DEF AInv
  <2> QED BY <2>1, OwnKept DEF Beside
<1> QED BY <1>1 DEF AInv, Beside

LEMMA RecvOwn ==
    ASSUME AInv, NEW c \in Clients, Recv(c), UNCHANGED session
    PROVE  Own(c)' /\ Beside(c)
PROOF
<1>1. PICK n \in 1 .. Len(toServer[c]) :
        /\ req' = [req EXCEPT ![c] = Read(SubSeq(toServer[c], 1, n))]
        /\ toServer' = [toServer EXCEPT ![c] = SubSeq(@, n + 1, Len(@))]
  BY DEF Recv
<1>2. PICK r, first : r = Read(SubSeq(toServer[c], 1, n)) /\ first = toServer[c][1]
  OBVIOUS
<1>3. /\ thread[c] = "recv" /\ thread' = [thread EXCEPT ![c] = req'[c].op]
      /\ UNCHANGED <<users, toClient, main, username, chatroom, display>>
  BY DEF Recv, session, shared
<1>4. /\ req'[c] = r /\ thread'[c] = r.op /\ DOMAIN req' = Clients
      /\ toServer'[c] = SubSeq(toServer[c], n + 1, Len(toServer[c]))
  BY <1>1, <1>2, <1>3 DEF AInv, IInv, Types
<1>5. Beside(c)
  BY <1>1, <1>3, <1>4 DEF Beside, AInv, IInv, Types
<1>6. /\ 1 \in DOMAIN toServer[c] /\ WellMade(c, first)
      /\ r.op \in {first.op, "too many fields"}
      /\ r.op \in {"login", "register"} => r.user = first.user
      /\ r.op = "logout" => r.user \in {first.user, Mangled}
  BY <1>2, ReadIs
<1>7. /\ DOMAIN toServer'[c] = 1 .. (Len(toServer[c]) - n)
      /\ \A k \in DOMAIN toServer'[c] :
           k + n \in DOMAIN toServer[c] /\ toServer'[c][k] = toServer[c][k + n]
  BY <1>4, CutAt DEF AInv, IInv, Types
<1>8. Own(c)
  BY DEF AInv
<1>9. \A k \in DOMAIN toServer'[c] : WellMade(c, toServer'[c][k])
  BY <1>7, <1>8 DEF Own
<1>10. AsksToRegister(c)' => AsksToRegister(c)
  <2>1. r.op # "store user"
    BY <1>6 DEF WellMade, Requested
  <2>2. r.op = "register" => toServer[c][1].op = "register"
    BY <1>2, <1>6
  <2>3. (\E k \in DOMAIN toServer'[c] : toServer'[c][k].op = "register")
          => \E k \in DOMAIN toServer[c] : toServer[c][k].op = "register"
    BY <1>7
  <2> QED BY <1>3, <1>4, <1>6, <2>1, <2>2, <2>3 DEF AsksToRegister
<1>11. /\ r.op \in {"login", "register"} => r.user \in NamesAt[c]
       /\ r.op = "logout" => r.user \in NamesAt[c] \cup {Mangled}
       /\ r.op \notin {"compare", "store user"}
  BY <1>6 DEF WellMade, Requested
<1>12. LoggedIn(c)' <=> LoggedIn(c)
  BY <1>3 DEF LoggedIn
<1> QED BY <1>3, <1>4, <1>5, <1>8, <1>9, <1>10, <1>11, <1>12 DEF Own

LEMMA DiesOwn ==
    ASSUME AInv, NEW c \in Clients, Dies(c), UNCHANGED session
    PROVE  Own(c)' /\ Beside(c)
PROOF
<1>1. UNCHANGED <<toClient, main, username, chatroom, display>>
  BY DEF Dies, session
<1>2. thread'[c] = "ended" /\ toServer'[c] = << >>
  BY DEF Dies, AInv, IInv, Types
<1>3. Beside(c)
  BY <1>1 DEF Dies, Beside, AInv, IInv, Types
<1>4. DOMAIN toServer'[c] = {}
  BY <1>2
<1>5. ~AsksToRegister(c)' /\ (LoggedIn(c)' <=> LoggedIn(c)) /\ Own(c)
  BY <1>1, <1>2 DEF AsksToRegister, LoggedIn, AInv
<1> QED BY <1>1, <1>2, <1>3, <1>4, <1>5 DEF Own

LEMMA ReplyOwn ==
    ASSUME AInv, NEW c \in Clients, NEW answer, Reply(c, answer), UNCHANGED session,
           thread[c] \notin {"recv", "ended"}
    PROVE  Own(c)' /\ Beside(c)
PROOF
<1>1. UNCHANGED <<toServer, main, username, chatroom, display>>
  BY DEF Reply, session
<1>2. thread'[c] = "recv"
  BY DEF Reply, AInv, IInv, Types
<1>3. Beside(c)
  BY <1>1 DEF Reply, Beside, AInv, IInv, Types
<1>4. (AsksToRegister(c)' => AsksToRegister(c)) /\ (LoggedIn(c)' <=> LoggedIn(c)) /\ Own(c)
  BY <1>1, <1>2 DEF AsksToRegister, LoggedIn, AInv
<1> QED BY <1>1, <1>2, <1>3, <1>4 DEF Own

LEMMA ContinueOwn ==
    ASSUME AInv, NEW c \in Clients, NEW step, NEW held, Continue(c, step, held),
           UNCHANGED <<session, users>>, thread[c] \notin {"recv", "ended"},
           step \in {"store room", "act", "rooms", "remove", "compare", "store user"},
           step = "compare" => thread[c] = "login" /\ Known(c),
           step = "store user" => thread[c] = "register"
    PROVE  Own(c)' /\ Beside(c)
PROOF
<1>1. UNCHANGED <<req, toServer, toClient, main, username, chatroom, display>>
  BY DEF Continue, session
<1>2. thread'[c] = step
  BY DEF Continue, AInv, IInv, Types
<1>3. Beside(c)
  BY <1>1 DEF Continue, Beside, AInv, IInv, Types
<1>4. /\ AsksToRegister(c)' => AsksToRegister(c)
      /\ LoggedIn(c)' <=> LoggedIn(c)
      /\ Known(c)' <=> Known(c)
      /\ Own(c)
  BY <1>1, <1>2 DEF AsksToRegister, LoggedIn, Known, AInv
<1> QED BY <1>1, <1>2, <1>3, <1>4 DEF Own

\* The steps of a handler, as far as users and logins go.
Aside(c) ==
    /\ thread[c] \notin {"recv", "ended"} /\ UNCHANGED <<users, user_active>>
    /\ \/ \E answer : answer # "yes" /\ Reply(c, answer)
       \/ \E held : \E step \in {"store room", "act", "rooms", "remove"} : Continue(c, step, held)

LEMMA StepsOfThread ==
    ASSUME NEW c \in Clients, Thread(c)
    PROVE  \/ Recv(c) /\ UNCHANGED <<users, user_active>>
           \/ Dies(c) /\ UNCHANGED <<users, user_active>>
           \/ Login(c) \/ LoginAnswer(c) \/ Register(c) \/ StoreUser(c) \/ Logout(c)
           \/ Aside(c)
PROOF
<1>1. CASE Recv(c) \/ EndOfStream(c) \/ TooManyFields(c)
  BY <1>1 DEF Recv, EndOfStream, TooManyFields, shared
<1>2. CASE CreateChatroom(c)
  BY <1>2 DEF CreateChatroom, Aside, shared
<1>3. CASE StoreRoom(c)
  BY <1>3 DEF StoreRoom, Aside
<1>4. CASE FindRoom(c)
  BY <1>4 DEF FindRoom, Aside, shared
<1>5. CASE Join(c) \/ Post(c)
  BY <1>5 DEF Join, Post, Aside
<1>6. CASE Exit(c)
  BY <1>6 DEF Exit, Aside
<1>7. CASE List(c)
  <2>1. Names \in {"empty", "names"}
    BY DEF Names
  <2>2. \E answer \in {"empty", "names"} : Reply(c, answer)
    BY <1>7, <2>1 DEF List
  <2> QED BY <1>7, <2>2 DEF List, Aside, shared
<1>8. CASE ListOfRoom(c)
  <2>1. \E answer \in {"400", "empty", "names", "messages"} : Reply(c, answer)
    BY <1>8 DEF ListOfRoom
  <2> QED BY <1>8, <2>1 DEF ListOfRoom, Aside, shared
<1>9. CASE LogoutRoom(c)
  BY <1>9 DEF LogoutRoom, Aside, shared
<1>10. CASE LogoutRemove(c)
  BY <1>10 DEF LogoutRemove, Aside
<1> QED BY <1>1, <1>2, <1>3, <1>4, <1>5, <1>6, <1>7, <1>8, <1>9, <1>10 DEF Thread

LEMMA StoredUser ==
    ASSUME NEW c \in Clients, StoreUser(c)
    PROVE  /\ DOMAIN users' = DOMAIN users \cup {req[c].user}
           /\ \A v \in DOMAIN users : v # req[c].user => users'[v] = users[v]
PROOF
<1> QED BY DEF StoreUser

LEMMA ThreadOwn ==
    ASSUME AInv, NEW c \in Clients, Thread(c)
    PROVE  AInv' /\ Beside(c)
PROOF
<1>1. UNCHANGED session
  BY DEF Thread
<1>2. IInv'
  BY ThreadStep DEF AInv
<1>3. IsSequence(user_active) /\ Own(c)
  BY DEF AInv
<1>4. CASE Recv(c) /\ UNCHANGED <<users, user_active>>
  BY <1>1, <1>2, <1>3, <1>4, RecvOwn, BesideOwn
<1>5. CASE Dies(c) /\ UNCHANGED <<users, user_active>>
  BY <1>1, <1>2, <1>3, <1>5, DiesOwn, BesideOwn
<1>6. CASE Aside(c)
  <2>1. thread[c] \notin {"recv", "ended"} /\ UNCHANGED <<users, user_active>>
    BY <1>6 DEF Aside
  <2>2. CASE \E answer : Reply(c, answer)
    BY <1>1, <1>2, <1>3, <2>1, <2>2, ReplyOwn, BesideOwn
  <2>3. CASE \E held : \E step \in {"store room", "act", "rooms", "remove"} : Continue(c, step, held)
    <3>1. PICK held : \E step \in {"store room", "act", "rooms", "remove"} : Continue(c, step, held)
      BY <2>3
    <3>2. PICK step \in {"store room", "act", "rooms", "remove"} : Continue(c, step, held)
      BY <3>1
    <3> QED BY <1>1, <1>2, <1>3, <2>1, <3>2, ContinueOwn, BesideOwn
  <2> QED BY <1>6, <2>2, <2>3 DEF Aside
<1>7. CASE Login(c)
  <2>1. thread[c] = "login" /\ users' = users
    BY <1>7 DEF Login
  <2>2. IsSequence(user_active')
    <3>1. user_active' = Append(user_active, req[c].user) \/ user_active' = user_active
      BY <1>7 DEF Login, Activated
    <3> QED BY <1>3, <3>1, Appended
  <2>3. CASE Known(c)
    <3>1. Continue(c, "compare", << >>)
      BY <1>7, <2>3 DEF Login
    <3> QED BY <1>1, <1>2, <2>1, <2>2, <2>3, <3>1, ContinueOwn, BesideOwn
  <2>4. CASE ~Known(c)
    <3>1. Reply(c, "text")
      BY <1>7, <2>4 DEF Login
    <3> QED BY <1>1, <1>2, <2>1, <2>2, <3>1, ReplyOwn, BesideOwn
  <2> QED BY <2>3, <2>4
<1>8. CASE LoginAnswer(c)
  <2>1. thread[c] = "compare" /\ UNCHANGED <<users, user_active>> /\ \E answer : Reply(c, answer)
    BY <1>8 DEF LoginAnswer, shared
  <2> QED BY <1>1, <1>2, <1>3, <2>1, ReplyOwn, BesideOwn
<1>9. CASE Register(c)
  <2>1. thread[c] = "register" /\ UNCHANGED <<users, user_active>>
    BY <1>9 DEF Register, shared
  <2>2. CASE Reply(c, "text")
    BY <1>1, <1>2, <1>3, <2>1, <2>2, ReplyOwn, BesideOwn
  <2>3. CASE Continue(c, "store user", << >>)
    BY <1>1, <1>2, <1>3, <2>1, <2>3, ContinueOwn, BesideOwn
  <2> QED BY <1>9, <2>2, <2>3 DEF Register
<1>10. CASE StoreUser(c)
  <2>1. thread[c] = "store user" /\ user_active' = user_active /\ Reply(c, "yes")
    BY <1>10 DEF StoreUser
  <2>2. DOMAIN users \subseteq DOMAIN users'
    BY <1>10, StoredUser
  <2> QED BY <1>1, <1>2, <1>3, <2>1, <2>2, ReplyOwn, BesideOwn
<1>11. CASE Logout(c)
  <2>1. thread[c] = "logout" /\ users' = users
    BY <1>11 DEF Logout
  <2>2. CASE Contains(user_active, req[c].user)
    <3>1. user_active' = Without(user_active, req[c].user)
          /\ Continue(c, "rooms", <<1, Len(chat_rooms)>>)
      BY <1>11, <2>2 DEF Logout
    <3>2. PICK v : v = req[c].user
      OBVIOUS
    <3>3. IsSequence(Without(user_active, v))
      <4>1. PICK P, Q : /\ P = {k \in DOMAIN user_active : user_active[k] = v}
                        /\ Q = {k \in DOMAIN Without(user_active, v) : Without(user_active, v)[k] = v}
        OBVIOUS
      <4> QED BY <1>3, <2>2, <3>2, <4>1, WithoutCount
    <3> QED BY <1>1, <1>2, <2>1, <3>1, <3>2, <3>3, ContinueOwn, BesideOwn
  <2>3. CASE ~Contains(user_active, req[c].user)
    <3>1. Dies(c) /\ user_active' = user_active
      BY <1>11, <2>3 DEF Logout
    <3> QED BY <1>1, <1>2, <1>3, <2>1, <3>1, DiesOwn, BesideOwn
  <2> QED BY <2>2, <2>3
<1> QED BY <1>4, <1>5, <1>6, <1>7, <1>8, <1>9, <1>10, <1>11, StepsOfThread

LEMMA InitOwn == Init => AInv
PROOF
<1> SUFFICES ASSUME Init PROVE AInv
  OBVIOUS
<1>1. IInv
  BY InitInv
<1>2. DOMAIN req = Clients /\ DOMAIN username = Clients /\ user_active = << >>
  BY DEF Init
<1>3. ASSUME NEW c \in Clients PROVE Own(c)
  <2>1. /\ toServer[c] = << >> /\ thread[c] = "recv" /\ main[c] = "menu"
        /\ display[c] = NoDisplays
    BY DEF Init
  <2>2. DOMAIN toServer[c] = {}
    BY <2>1
  <2>3. \A k \in 1 .. MaxDisplays : display[c][k].at = "ended"
    BY <2>1 DEF NoDisplays
  <2>4. ~AsksToRegister(c) /\ ~LoggedIn(c)
    BY <2>1, <2>2 DEF AsksToRegister, LoggedIn
  <2> QED BY <2>1, <2>2, <2>3, <2>4 DEF Own
<1> QED BY <1>1, <1>2, <1>3, NoneOf DEF AInv
-----------------------------------------------------------------------------
(* The entries a client needs.                                             *)

LEMMA ClaimNumbers ==
    ASSUME AInv, NEW c \in Clients
    PROVE  /\ Here(c) \in {0, 1} /\ Matching(c) \in {0, 1}
           /\ Cardinality(Logouts(c)) \in Nat /\ Cardinality(Yeses(c)) \in Nat
           /\ Leaving(c) \in Nat /\ Late(c) \in Nat /\ Claims(c) \in Nat
PROOF
<1>1. IsSequence(toServer[c]) /\ IsSequence(toClient[c])
  BY DEF AInv, IInv, Types
<1>2. Logouts(c) \subseteq DOMAIN toServer[c] /\ Yeses(c) \subseteq DOMAIN toClient[c]
  BY DEF Logouts, Yeses
<1>3. Cardinality(Logouts(c)) \in Nat /\ Cardinality(Yeses(c)) \in Nat
  BY <1>1, <1>2, PartFinite
<1>4. Here(c) \in {0, 1} /\ Matching(c) \in {0, 1}
  BY DEF Here, Matching
<1>5. Leaving(c) \in Nat
  BY <1>3 DEF Leaving
<1>6. Late(c) \in Nat
  BY <1>3 DEF Late
<1> QED BY <1>3, <1>4, <1>5, <1>6 DEF Claims

\* The same of the next state.
LEMMA ClaimNumbersNext ==
    ASSUME AInv', NEW c \in Clients
    PROVE  /\ Here(c)' \in {0, 1} /\ Matching(c)' \in {0, 1}
           /\ Cardinality(Logouts(c)') \in Nat /\ Cardinality(Yeses(c)') \in Nat
           /\ Leaving(c)' \in Nat /\ Late(c)' \in Nat /\ Claims(c)' \in Nat
PROOF
<1>1. IsSequence(toServer'[c]) /\ IsSequence(toClient'[c])
  BY DEF AInv, IInv, Types
<1>2. Logouts(c)' \subseteq DOMAIN toServer'[c] /\ Yeses(c)' \subseteq DOMAIN toClient'[c]
  BY DEF Logouts, Yeses
<1>3. Cardinality(Logouts(c)') \in Nat /\ Cardinality(Yeses(c)') \in Nat
  BY <1>1, <1>2, PartFinite
<1>4. Here(c)' \in {0, 1} /\ Matching(c)' \in {0, 1}
  BY DEF Here, Matching
<1>5. Leaving(c)' \in Nat
  BY <1>3 DEF Leaving
<1>6. Late(c)' \in Nat
  BY <1>3 DEF Late
<1> QED BY <1>3, <1>4, <1>5, <1>6 DEF Claims

LEMMA ClaimsAdd ==
    ASSUME AInv, AInv', NEW c \in Clients
    PROVE  /\ Here(c)' + Late(c)' <= Here(c) + Late(c) /\ Leaving(c)' <= Leaving(c)
              /\ Matching(c)' <= Matching(c) => Claims(c)' <= Claims(c)
           /\ Here(c)' + Leaving(c)' <= Here(c) + Leaving(c) /\ Late(c)' <= Late(c)
              /\ Matching(c)' <= Matching(c) => Claims(c)' <= Claims(c)
           /\ Here(c)' <= Here(c) /\ Leaving(c)' <= Leaving(c)
              /\ Late(c)' + Matching(c)' <= Late(c) + Matching(c) => Claims(c)' <= Claims(c)
           /\ Here(c)' <= Here(c) /\ Leaving(c)' + 1 <= Leaving(c) /\ Late(c)' <= Late(c)
              /\ Matching(c)' <= Matching(c) => Claims(c)' + 1 <= Claims(c)
           /\ Here(c)' <= Here(c) /\ Leaving(c)' <= Leaving(c) /\ Late(c)' <= Late(c)
              => Claims(c)' <= Claims(c) + Matching(c)'
PROOF
<1>1. PICK h, l, t, m, h1, l1, t1, m1 :
        /\ h = Here(c) /\ l = Leaving(c) /\ t = Late(c) /\ m = Matching(c)
        /\ h1 = Here(c)' /\ l1 = Leaving(c)' /\ t1 = Late(c)' /\ m1 = Matching(c)'
  OBVIOUS
<1>2. /\ h \in Nat /\ l \in Nat /\ t \in Nat /\ m \in Nat
      /\ h1 \in Nat /\ l1 \in Nat /\ t1 \in Nat /\ m1 \in Nat
  BY <1>1, ClaimNumbers, ClaimNumbersNext
<1>3. Claims(c) = h + l + t + m /\ Claims(c)' = h1 + l1 + t1 + m1
  BY <1>1 DEF Claims
<1> QED BY <1>1, <1>2, <1>3

LEMMA ClaimsKept ==
    ASSUME NEW d \in Clients, main'[d] = main[d], thread'[d] = thread[d],
           toServer'[d] = toServer[d], toClient'[d] = toClient[d],
           chatroom'[d] = chatroom[d], req'[d] = req[d],
           thread[d] = "compare" => (Matches(d)' <=> Matches(d))
    PROVE  Claims(d)' = Claims(d)
PROOF
<1>1. Here(d)' = Here(d)
  BY DEF Here, LoggedIn
<1>2. Leaving(d)' = Leaving(d)
  BY DEF Leaving, Logouts
<1>3. Late(d)' = Late(d)
  BY DEF Late, Yeses
<1>4. Matching(d)' = Matching(d)
  BY DEF Matching
<1> QED BY <1>1, <1>2, <1>3, <1>4 DEF Claims

\* A request more, at the end.
LEMMA GotoLeaving ==
    ASSUME AInv, NEW c \in Clients, NEW request, thread'[c] = thread[c], req'[c] = req[c],
           toServer'[c] = Append(toServer[c], request)
    PROVE  /\ request.op # "logout" => Leaving(c)' = Leaving(c)
           /\ Leaving(c)' <= Leaving(c) + 1
PROOF
<1>1. IsSequence(toServer[c])
  BY DEF AInv, IInv, Types
<1>2. PICK x : x = Len(toServer[c]) + 1
  OBVIOUS
<1>3. /\ DOMAIN toServer'[c] = DOMAIN toServer[c] \cup {x} /\ x \notin DOMAIN toServer[c]
      /\ \A k \in DOMAIN toServer[c] : toServer'[c][k] = toServer[c][k]
      /\ toServer'[c][x] = request
  BY <1>1, <1>2, AppendedAt
<1>4. /\ Logouts(c)' = IF request.op = "logout" THEN Logouts(c) \cup {x} ELSE Logouts(c)
      /\ x \notin Logouts(c)
  BY <1>3 DEF Logouts
<1>5. IsFiniteSet(Logouts(c)) /\ Cardinality(Logouts(c)) \in Nat
  BY <1>1, PartFinite DEF Logouts
<1>6. Cardinality(Logouts(c) \cup {x}) = Cardinality(Logouts(c)) + 1
  BY <1>4, <1>5, FS_AddElement
<1>7. PICK n, b : n = Cardinality(Logouts(c))
        /\ b = IF thread[c] = "logout" /\ req[c].user # Mangled THEN 1 ELSE 0
  OBVIOUS
<1>8. n \in Nat /\ b \in {0, 1}
  BY <1>5, <1>7
<1>9. Leaving(c) = IF thread[c] = "ended" THEN 0 ELSE n + b
  BY <1>7 DEF Leaving
<1>10. Leaving(c)' = IF thread[c] = "ended" THEN 0 ELSE Cardinality(Logouts(c)') + b
  BY <1>7 DEF Leaving
<1>11. Cardinality(Logouts(c)') = IF request.op = "logout" THEN n + 1 ELSE n
  BY <1>4, <1>6, <1>7
<1> QED BY <1>8, <1>9, <1>10, <1>11

LEMMA SameLeaving ==
    ASSUME NEW c \in Clients, thread'[c] = thread[c], req'[c] = req[c],
           toServer'[c] = toServer[c]
    PROVE  Leaving(c)' = Leaving(c)
PROOF
<1> QED BY DEF Leaving, Logouts

\* The answers that are left when the client has read the first n.
LEMMA FewerYeses ==
    ASSUME AInv, NEW c \in Clients, NEW n \in 1 .. Len(toClient[c]),
           toClient'[c] = SubSeq(toClient[c], n + 1, Len(toClient[c]))
    PROVE  /\ Cardinality(Yeses(c)') <= Cardinality(Yeses(c))
           /\ Head(toClient[c]) = "yes" => Cardinality(Yeses(c)') + 1 <= Cardinality(Yeses(c))
PROOF
<1>1. IsSequence(toClient[c])
  BY DEF AInv, IInv, Types
<1>2. PICK s : s = toClient[c]
  OBVIOUS
<1>3. Len(s) \in Nat /\ DOMAIN s = 1 .. Len(s) /\ n \in 1 .. Len(s) /\ 1 \in 1 .. n /\ 1 \in DOMAIN s
  BY <1>1, <1>2, SequenceOf DEF IsSequence
<1>4. /\ DOMAIN toClient'[c] = 1 .. (Len(s) - n)
      /\ \A k \in 1 .. (Len(s) - n) : k + n \in DOMAIN s /\ toClient'[c][k] = s[k + n]
  BY <1>1, <1>2, <1>3, CutAt
<1>5. PICK P, Q : P = Yeses(c) /\ Q = Yeses(c)'
  OBVIOUS
<1>6. P \subseteq DOMAIN s /\ Q \subseteq 1 .. (Len(s) - n) /\ \A k \in Q : k + n \in P
  BY <1>2, <1>4, <1>5 DEF Yeses
<1>7. Head(s) = "yes" => 1 \in P
  <2>1. s \in Seq(Range(s)) /\ s # << >>
    BY <1>1, <1>2, <1>3 DEF IsSequence
  <2>2. Head(s) = s[1]
    BY <2>1
  <2> QED BY <1>2, <1>3, <1>5, <2>2 DEF Yeses
<1>8. /\ Cardinality(Q) <= Cardinality(P)
      /\ (\E j \in 1 .. n : j \in P) => Cardinality(Q) + 1 <= Cardinality(P)
  BY <1>1, <1>2, <1>3, <1>6, CutCount
<1> QED BY <1>2, <1>3, <1>5, <1>7, <1>8

LEMMA NoYeses ==
    ASSUME NEW c \in Clients, toClient'[c] = << >>
    PROVE  Cardinality(Yeses(c)') = 0 /\ Late(c)' = 0
PROOF
<1>1. Yeses(c)' = {}
  BY DEF Yeses
<1> QED BY <1>1, FS_EmptySet DEF Late

-----------------------------------------------------------------------------
(* What the steps of a client claim.                                       *)

\* What the menu thread sends or does not send.
LEMMA SentLeaving ==
    ASSUME AInv, NEW c \in Clients, NEW place, NEW request, Goto(c, place, request),
           UNCHANGED <<thread, req>>
    PROVE  /\ main'[c] = place
           /\ (place \in Asking => request.op # "logout") => Leaving(c)' = Leaving(c)
           /\ Leaving(c)' <= Leaving(c) + 1
PROOF
<1>1. DOMAIN main = Clients /\ DOMAIN toServer = Clients /\ Leaving(c) \in Nat
  BY ClaimNumbers DEF AInv, IInv, Types
<1>2. main'[c] = place
  BY <1>1 DEF Goto
<1>3. CASE place \in Asking
  <2>1. toServer'[c] = Append(toServer[c], request)
    BY <1>1, <1>3 DEF Goto
  <2> QED BY <1>2, <1>3, <2>1, GotoLeaving
<1>4. CASE place \notin Asking
  <2>1. toServer'[c] = toServer[c]
    BY <1>4 DEF Goto
  <2>2. Leaving(c)' = Leaving(c)
    BY <2>1, SameLeaving
  <2>3. PICK n \in Nat : n = Leaving(c)
    BY <1>1
  <2>4. n <= n + 1
    OBVIOUS
  <2> QED BY <1>2, <2>2, <2>3, <2>4
<1> QED BY <1>3, <1>4

LEMMA SameMatching ==
    ASSUME NEW c \in Clients, UNCHANGED <<thread, req, users>>
    PROVE  Matching(c)' = Matching(c)
PROOF
<1> QED BY DEF Matching, Matches

\* The menu thread of a client that reads no answer.
LEMMA UserClaims ==
    ASSUME AInv, AInv', NEW c \in Clients, User(c), UNCHANGED <<users, thread, req>>
    PROVE  /\ Claims(c)' <= Claims(c)
           /\ chatroom'[c] = chatroom[c] \/ main[c] = "which room"
PROOF
<1>1. Matching(c)' = Matching(c) /\ Matching(c) \in {0, 1}
  BY SameMatching, ClaimNumbers
<1>2. /\ Leaving(c) \in Nat /\ Late(c) \in Nat /\ Here(c) \in {0, 1}
      /\ Here(c)' \in {0, 1} /\ Cardinality(Yeses(c)) \in Nat
  BY ClaimNumbers, ClaimNumbersNext
<1>3. Yeses(c)' = Yeses(c) /\ Late(c)' <= Cardinality(Yeses(c))
  <2>1. toClient' = toClient
    BY DEF User
  <2>2. Yeses(c)' = Yeses(c)
    BY <2>1 DEF Yeses
  <2> QED BY <1>2, <2>2 DEF Late
<1>4. main[c] # "register" => Late(c)' <= Late(c)
  BY <1>3 DEF Late
<1>5. CASE LoginOrRegister(c)
  <2>1. PICK op, request :
          op \in {"login", "register"} /\ main[c] = "menu" /\ Goto(c, op, request) /\ chatroom' = chatroom /\ request.op = op
    BY <1>5 DEF LoginOrRegister, Request
  <2>2. main'[c] = op /\ Leaving(c)' = Leaving(c)
    BY <2>1, SentLeaving
  <2>3. Here(c)' = 0
    BY <2>1, <2>2 DEF Here, LoggedIn
  <2>4. Late(c)' <= Late(c)
    BY <1>4, <2>1
  <2>5. Here(c)' <= Here(c)
    BY <1>2, <2>3
  <2>6. Leaving(c)' <= Leaving(c) /\ Matching(c)' <= Matching(c)
    BY <1>1, <1>2, <2>2
  <2>7. Here(c)' + Late(c)' <= Here(c) + Late(c)
    <3>1. PICK h, t, t1 : h = Here(c) /\ t = Late(c) /\ t1 = Late(c)'
      OBVIOUS
    <3>2. h \in Nat /\ t \in Nat /\ t1 \in Nat /\ t1 <= t /\ Here(c)' = 0
      BY <1>2, <2>3, <2>4, <3>1, ClaimNumbersNext
    <3> QED BY <3>1, <3>2
  <2> QED BY <2>1, <2>6, <2>7, ClaimsAdd
<1>6. CASE HomeChoice(c) \/ CreateRoom(c) \/ ChooseRoom(c) \/ Write(c)
  <2>1. PICK place, request :
          /\ main[c] \in {"home", "which room", "room"} /\ Goto(c, place, request)
          /\ place \in {"choose", "getAllChatrooms", "getActiveUsers", "createChatroom",
                        "joinChatroom", "sendMessage", "farewell", "logout"}
          /\ request.op = "logout" => place = "logout"
          /\ chatroom' = chatroom \/ main[c] = "which room"
    <3>1. CASE HomeChoice(c)
      <4>1. PICK place \in {"choose", "getAllChatrooms", "getActiveUsers", "logout"} :
              Goto(c, place, Say(c, place))
        BY <3>1 DEF HomeChoice
      <4>2. Say(c, place).op = "logout" => place = "logout"
        BY <4>1 DEF Say, Request, Op
      <4> QED BY <3>1, <4>1, <4>2 DEF HomeChoice
    <3>2. CASE CreateRoom(c)
      BY <3>2 DEF CreateRoom, Request
    <3>3. CASE ChooseRoom(c)
      BY <3>3 DEF ChooseRoom, Request
    <3>4. CASE Write(c)
      <4>1. PICK place \in {"sendMessage", "farewell"} : Goto(c, place, Say(c, place))
        BY <3>4 DEF Write
      <4>2. Say(c, place).op = "sendMessage"
        BY <4>1 DEF Say, Request, Op
      <4> QED BY <3>4, <4>1, <4>2 DEF Write
    <3> QED BY <1>6, <3>1, <3>2, <3>3, <3>4
  <2>2. main'[c] = place /\ (request.op # "logout" => Leaving(c)' = Leaving(c))
        /\ Leaving(c)' <= Leaving(c) + 1
    BY <2>1, SentLeaving
  <2>3. Here(c) = 1 /\ Late(c)' <= Late(c)
    BY <1>4, <2>1 DEF Here, LoggedIn
  <2>4. place = "logout" => Here(c)' = 0
    BY <2>2 DEF Here, LoggedIn
  <2>5. Here(c)' + Leaving(c)' <= Here(c) + Leaving(c)
    <3>1. PICK h1, l, l1 : h1 = Here(c)' /\ l = Leaving(c) /\ l1 = Leaving(c)'
      OBVIOUS
    <3>2. h1 \in {0, 1} /\ l \in Nat /\ l1 \in Nat /\ l1 <= l + 1
      BY <1>2, <2>2, <3>1, ClaimNumbersNext
    <3>3. h1 = 0 \/ l1 = l
      BY <2>1, <2>2, <2>4, <3>1
    <3> QED BY <2>3, <3>1, <3>2, <3>3
  <2>6. Matching(c)' <= Matching(c)
    BY <1>1
  <2> QED BY <2>1, <2>3, <2>5, <2>6, ClaimsAdd
<1> QED BY <1>5, <1>6 DEF User

\* What remains without the first is what remains after it.
LEMMA TailIs ==
    ASSUME NEW s, IsSequence(s), s # << >>
    PROVE  1 \in 1 .. Len(s) /\ Tail(s) = SubSeq(s, 1 + 1, Len(s))
PROOF
<1>1. s \in Seq(Range(s))
  BY DEF IsSequence
<1>2. PICK S : S = Range(s)
  OBVIOUS
<1>3. s \in Seq(S) /\ Len(s) \in Nat /\ Len(s) # 0
  BY <1>1, <1>2, SequenceOf, EmptySeq
<1>4. Tail(s) = SubSeq(s, 2, Len(s))
  BY <1>3
<1> QED BY <1>3, <1>4

LEMMA ProceedClaims ==
    ASSUME AInv, AInv', NEW c \in Clients, Proceed(c), UNCHANGED <<users, thread, req>>
    PROVE  Claims(c)' <= Claims(c) /\ chatroom' = chatroom
PROOF
<1>1. toClient[c] # << >> /\ main[c] \in Asking /\ main[c] # "gone"
  BY AnswerThere DEF Asking
<1>2. PICK from, answer, place :
        from = main[c] /\ answer = Head(toClient[c]) /\ place = After(from, answer)
  OBVIOUS
<1>3. /\ Goto(c, place, Say(c, place)) /\ chatroom' = chatroom
      /\ toClient' = [toClient EXCEPT ![c] = Tail(@)]
  BY <1>2 DEF Proceed
<1>4. /\ place \in {"getActiveUsers", "menu", "which room", "getChatroomMembers",
                    "home", "room", "exitChatroom", "getAllChatrooms"}
      /\ from \in {"register", "logout"} => place = "menu"
      /\ from = "login" => place = IF answer = "yes" THEN "getActiveUsers" ELSE "menu"
  <2>1. place = After(from, answer)
    BY <1>2
  <2> QED BY ONLY <2>1, AfterIs
<1>5. place \in Asking => Say(c, place).op # "logout"
  BY <1>4, SaysWell DEF Asking
<1>6. main'[c] = place /\ Leaving(c)' = Leaving(c)
  BY <1>3, <1>5, SentLeaving
<1>7. Matching(c)' = Matching(c) /\ Matching(c) \in {0, 1}
  BY SameMatching, ClaimNumbers
<1>8. /\ Leaving(c) \in Nat /\ Late(c) \in Nat /\ Here(c) \in {0, 1}
      /\ Here(c)' \in {0, 1} /\ Late(c)' \in Nat
      /\ Cardinality(Yeses(c)) \in Nat /\ Cardinality(Yeses(c)') \in Nat
  BY ClaimNumbers, ClaimNumbersNext
<1>9. IsSequence(toClient[c]) /\ DOMAIN toClient = Clients
  BY DEF AInv, IInv, Types
<1>10. 1 \in 1 .. Len(toClient[c]) /\ Tail(toClient[c]) = SubSeq(toClient[c], 1 + 1, Len(toClient[c]))
  BY <1>1, <1>9, TailIs
<1>11. toClient'[c] = SubSeq(toClient[c], 1 + 1, Len(toClient[c]))
  BY <1>3, <1>9, <1>10
<1>12. /\ Cardinality(Yeses(c)') <= Cardinality(Yeses(c))
       /\ answer = "yes" => Cardinality(Yeses(c)') + 1 <= Cardinality(Yeses(c))
  BY <1>2, <1>10, <1>11, FewerYeses
<1>13. main[c] # "register" => Late(c) = Cardinality(Yeses(c))
  BY DEF Late
<1>14. Late(c)' \in {0, Cardinality(Yeses(c)')}
  BY DEF Late
<1>15. Here(c)' + Late(c)' <= Here(c) + Late(c)
  <2>1. PICK h, h1, t, t1, y, y1 :
          /\ h = Here(c) /\ h1 = Here(c)' /\ t = Late(c) /\ t1 = Late(c)'
          /\ y = Cardinality(Yeses(c)) /\ y1 = Cardinality(Yeses(c)')
    OBVIOUS
  <2>2. /\ h \in {0, 1} /\ h1 \in {0, 1} /\ t \in Nat /\ t1 \in Nat
        /\ y \in Nat /\ y1 \in Nat /\ y1 <= y /\ t1 <= y1
        /\ answer = "yes" => y1 + 1 <= y
    <3>1. y1 \in Nat /\ t1 \in {0, y1}
      BY <1>8, <1>14, <2>1
    <3> QED BY <1>8, <1>12, <2>1, <3>1
  <2>3. place = "menu" => h1 = 0
    BY <1>6, <2>1 DEF Here, LoggedIn
  <2>4. CASE from = "register"
    <3>1. h1 = 0
      BY <1>4, <2>3, <2>4
    <3>2. CASE chatroom[c] = NoRoom
      <4>1. PICK a : a = ToAnswer(c)
        OBVIOUS
      <4>2. a \in Nat /\ a + Len(toClient[c]) <= 1
        BY <1>2, <2>4, <3>2, <4>1, Answerless, AnswerCount DEF AInv, IInv
      <4>3. PICK n : n = Len(toClient[c])
        OBVIOUS
      <4>4. n \in Nat /\ n >= 1
        BY <1>9, <1>10, <4>3, SequenceOf DEF IsSequence
      <4>5. n = 1
        <5>1. a + n <= 1
          BY <4>2, <4>3
        <5> QED BY <4>2, <4>4, <5>1
      <4>6. IsSequence(Tail(toClient[c])) /\ Len(Tail(toClient[c])) = n - 1
        BY <1>1, <1>9, <4>3, OneTaken
      <4>7. Tail(toClient[c]) = << >>
        <5>1. PICK s, S : s = Tail(toClient[c]) /\ S = Range(s)
          OBVIOUS
        <5>2. s \in Seq(S) /\ Len(s) = 0
          BY <4>5, <4>6, <5>1 DEF IsSequence
        <5> QED BY <5>1, <5>2, EmptySeq
      <4>8. toClient'[c] = << >>
        BY <1>3, <1>9, <4>7
      <4>9. t1 = 0
        BY <2>1, <4>8, NoYeses
      <4> QED BY <2>1, <2>2, <3>1, <4>9
    <3>3. CASE chatroom[c] # NoRoom
      <4>1. t = y
        BY <2>1, <3>3 DEF Late
      <4> QED BY <2>1, <2>2, <3>1, <4>1
    <3> QED BY <3>2, <3>3
  <2>5. CASE from # "register"
    <3>1. t = y
      BY <1>2, <1>13, <2>1, <2>5
    <3>2. h1 <= h \/ (from = "login" /\ answer = "yes")
      <4>1. CASE from \in {"login", "logout"}
        <5>1. place = "menu" \/ (from = "login" /\ answer = "yes")
          BY <1>4, <4>1
        <5> QED BY <2>2, <2>3, <5>1
      <4>2. CASE from \notin {"login", "logout"}
        <5>1. h = 1
          BY <1>1, <1>2, <2>1, <2>5, <4>2 DEF Here, LoggedIn, Asking
        <5> QED BY <2>2, <5>1
      <4> QED BY <4>1, <4>2
    <3> QED BY <2>1, <2>2, <3>1, <3>2
  <2> QED BY <2>4, <2>5
<1>16. Leaving(c)' <= Leaving(c) /\ Matching(c)' <= Matching(c)
  BY <1>6, <1>7, <1>8
<1> QED BY <1>3, <1>15, <1>16, ClaimsAdd

LEMMA EndClaims ==
    ASSUME AInv, AInv', NEW c \in Clients, End(c), UNCHANGED <<users, thread, req>>
    PROVE  Claims(c)' <= Claims(c) /\ chatroom'[c] = NoRoom
PROOF
<1>1. /\ main'[c] = "gone" /\ chatroom'[c] = NoRoom /\ toClient'[c] = << >>
      /\ toServer' = toServer
  <2>1. DOMAIN main = Clients /\ DOMAIN chatroom = Clients /\ DOMAIN toClient = Clients
    BY DEF AInv, IInv, Types
  <2> QED BY <2>1 DEF End
<1>2. Here(c)' = 0 /\ Late(c)' = 0
  BY <1>1, NoYeses DEF Here, LoggedIn
<1>3. Leaving(c)' = Leaving(c) /\ Matching(c)' = Matching(c)
  BY <1>1, SameLeaving, SameMatching
<1>4. /\ Here(c)' <= Here(c) /\ Leaving(c)' <= Leaving(c) /\ Late(c)' <= Late(c)
      /\ Matching(c)' <= Matching(c)
  BY <1>2, <1>3, ClaimNumbers
<1>5. Here(c)' + Late(c)' <= Here(c) + Late(c)
  BY <1>2, ClaimNumbers
<1> QED BY <1>1, <1>4, <1>5, ClaimsAdd

LEMMA DisplayClaims ==
    ASSUME AInv, AInv', NEW c \in Clients, Display(c), UNCHANGED <<users, thread, req>>
    PROVE  Claims(c)' <= Claims(c) /\ chatroom' = chatroom
PROOF
<1>1. main' = main /\ chatroom' = chatroom
  BY DEF Display
<1>2. Here(c)' = Here(c) /\ Matching(c)' = Matching(c)
  BY <1>1, SameMatching DEF Here, LoggedIn
<1>3. /\ Leaving(c) \in Nat /\ Late(c) \in Nat /\ Here(c) \in {0, 1} /\ Matching(c) \in {0, 1}
      /\ Cardinality(Yeses(c)) \in Nat /\ Cardinality(Yeses(c)') \in Nat
  BY ClaimNumbers, ClaimNumbersNext
<1>4. DOMAIN toServer = Clients /\ DOMAIN toClient = Clients /\ IsSequence(toClient[c])
  BY DEF AInv, IInv, Types
<1>5. PICK k \in 1 .. MaxDisplays :
        Again(c, k) \/ StopDisplay(c, k) \/ Fetch(c, k) \/ Show(c, k)
  BY DEF Display
<1>6. Leaving(c)' = Leaving(c)
  <2>1. CASE Fetch(c, k)
    <3>1. PICK request : request = Request("fetchMessages", Nobody, "none", display[c][k].room)
      OBVIOUS
    <3>2. request.op # "logout"
      BY <3>1 DEF Request
    <3>3. toServer'[c] = Append(toServer[c], request)
      BY <1>4, <2>1, <3>1 DEF Fetch
    <3> QED BY <3>2, <3>3, GotoLeaving
  <2>2. CASE toServer' = toServer
    BY <2>2, SameLeaving
  <2> QED BY <1>5, <2>1, <2>2 DEF Again, StopDisplay, Show
<1>7. Cardinality(Yeses(c)') <= Cardinality(Yeses(c))
  <2>1. CASE toClient' = toClient
    <3>1. Yeses(c)' = Yeses(c)
      BY <2>1 DEF Yeses
    <3> QED BY <1>3, <3>1
  <2>2. CASE Show(c, k)
    <3>1. PICK n \in Received(c) :
            toClient' = [toClient EXCEPT ![c] = SubSeq(@, n + 1, Len(@))]
      BY <2>2 DEF Show
    <3>2. toClient'[c] = SubSeq(toClient[c], n + 1, Len(toClient[c]))
      BY <1>4, <3>1
    <3>3. CASE Closed(c)
      <4>1. n = 0 /\ toClient[c] = << >> /\ Len(toClient[c]) = 0
        BY <3>1, <3>3, NoneOf DEF Received, Closed
      <4>2. toClient'[c] = SubSeq(<< >>, 1, 0)
        BY <3>2, <4>1
      <4>3. SubSeq(<< >>, 1, 0) = << >>
        OBVIOUS
      <4>4. Cardinality(Yeses(c)') = 0
        BY <4>2, <4>3, NoYeses
      <4> QED BY <1>3, <4>4
    <3>4. CASE ~Closed(c)
      <4>1. n \in 1 .. Len(toClient[c])
        BY <3>1, <3>4 DEF Received
      <4> QED BY <3>2, <4>1, FewerYeses
    <3> QED BY <3>3, <3>4
  <2> QED BY <1>5, <2>1, <2>2 DEF Again, StopDisplay, Fetch
<1>8. Late(c)' <= Late(c)
  BY <1>1, <1>3, <1>7 DEF Late
<1>9. Here(c)' + Late(c)' <= Here(c) + Late(c)
  <2>1. PICK h, t, t1 : h = Here(c) /\ t = Late(c) /\ t1 = Late(c)'
    OBVIOUS
  <2>2. h \in {0, 1} /\ t \in Nat /\ t1 \in Nat /\ t1 <= t /\ Here(c)' = h
    BY <1>2, <1>3, <1>8, <2>1, ClaimNumbersNext
  <2> QED BY <2>1, <2>2
<1>10. Leaving(c)' <= Leaving(c) /\ Matching(c)' <= Matching(c)
  BY <1>2, <1>3, <1>6
<1> QED BY <1>1, <1>9, <1>10, ClaimsAdd

\* Whatever a client does, it needs no more entries, and it takes a room only when
\* it is logged in.
LEMMA ClientClaims ==
    ASSUME AInv, AInv', NEW c \in Clients, Client(c)
    PROVE  /\ Claims(c)' <= Claims(c)
           /\ chatroom'[c] \in {chatroom[c], NoRoom} \/ main[c] = "which room"
PROOF
<1>1. UNCHANGED <<users, thread, req>>
  BY DEF Client, shared
<1>2. CASE User(c)
  BY <1>1, <1>2, UserClaims
<1>3. CASE Proceed(c)
  BY <1>1, <1>3, ProceedClaims
<1>4. CASE End(c)
  BY <1>1, <1>4, EndClaims
<1>5. CASE Display(c)
  BY <1>1, <1>5, DisplayClaims
<1> QED BY <1>2, <1>3, <1>4, <1>5 DEF Client, Leave, Crash

\* A client that starts again needs none.
LEMMA StartClaims ==
    ASSUME AInv, AInv', NEW c \in Clients, Start(c)
    PROVE  /\ Claims(c)' <= Claims(c) /\ chatroom' = chatroom
           /\ thread'[c] = "recv"
PROOF
<1>1. /\ main'[c] = "menu" /\ thread'[c] = "recv" /\ toServer'[c] = << >>
      /\ chatroom' = chatroom /\ toClient' = toClient /\ main[c] = "gone"
  <2>1. DOMAIN main = Clients /\ DOMAIN thread = Clients /\ DOMAIN toServer = Clients
    BY DEF AInv, IInv, Types
  <2> QED BY <2>1 DEF Start
<1>2. Here(c)' = 0 /\ Matching(c)' = 0
  BY <1>1 DEF Here, LoggedIn, Matching
<1>3. Leaving(c)' = 0
  <2>1. Logouts(c)' = {}
    BY <1>1 DEF Logouts
  <2>2. Cardinality(Logouts(c)') = 0
    BY <2>1, FS_EmptySet
  <2> QED BY <1>1, <2>2 DEF Leaving
<1>4. Late(c)' = Late(c)
  <2>1. Yeses(c)' = Yeses(c)
    BY <1>1 DEF Yeses
  <2> QED BY <1>1, <2>1 DEF Late
<1>5. /\ Leaving(c)' <= Leaving(c) /\ Matching(c)' <= Matching(c)
      /\ Here(c)' + Late(c)' <= Here(c) + Late(c)
  <2>1. PICK h, l, t, m : h = Here(c) /\ l = Leaving(c) /\ t = Late(c) /\ m = Matching(c)
    OBVIOUS
  <2>2. h \in {0, 1} /\ l \in Nat /\ t \in Nat /\ m \in {0, 1}
    BY <2>1, ClaimNumbers
  <2> QED BY <1>2, <1>3, <1>4, <2>1, <2>2
<1> QED BY <1>1, <1>5, ClaimsAdd

-----------------------------------------------------------------------------
(* Covering the claims of all who go by a name.                            *)

\* What is used of numbers.
LEMMA Order ==
    ASSUME NEW t \in Nat, NEW t1 \in Nat, NEW e \in Nat, NEW e1 \in Nat
    PROVE  /\ t <= t /\ t <= t + 1 /\ (t + 1 <= e => t <= e)
           /\ t1 <= t /\ t1 > 0 => t > 0
           /\ t1 + 1 <= t => t > 0
           /\ t1 <= t /\ t <= e /\ e <= e1 => t1 <= e1
           /\ t1 <= t + 1 /\ t <= e /\ e + 1 <= e1 => t1 <= e1
           /\ t1 <= t - 1 /\ t <= e /\ e - 1 <= e1 => t1 <= e1
PROOF
<1> QED OBVIOUS

\* One client's step covers a name again when it needs at most the entries it adds,
\* or gives up at least the entry it takes away.
LEMMA CoverStep ==
    ASSUME AInv, AInv', NEW c \in Clients, NEW u, Covered(u),
           DOMAIN users \subseteq DOMAIN users',
           \A d \in Clients \ {c} : /\ Claims(d)' = Claims(d) /\ chatroom'[d] = chatroom[d]
                                    /\ thread'[d] = thread[d],
           c \in Goers(u) =>
             /\ chatroom'[c] # NoRoom \/ Claims(c)' > 0 => u \in DOMAIN users'
             /\ thread'[c] = "store user" => chatroom'[c] = NoRoom,
           \/ /\ c \in Goers(u) => Claims(c)' <= Claims(c)
              /\ Cardinality(Entries(u)) <= Cardinality(Entries(u)')
           \/ /\ c \in Goers(u) /\ Claims(c)' <= Claims(c) + 1
              /\ Cardinality(Entries(u)) + 1 <= Cardinality(Entries(u)')
           \/ /\ c \in Goers(u) /\ Claims(c)' + 1 <= Claims(c)
              /\ Cardinality(Entries(u)) - 1 <= Cardinality(Entries(u)')
    PROVE  Covered(u)'
PROOF
<1>1. PICK S : S = Goers(u)
  OBVIOUS
<1>2. S \subseteq Clients
  BY <1>1 DEF Goers
<1>3. PICK f, g : f = [d \in S |-> Claims(d)] /\ g = [d \in S |-> Claims(d)']
  OBVIOUS
<1>4. f \in [S -> Nat] /\ g \in [S -> Nat]
  <2>1. \A d \in S : Claims(d) \in Nat /\ Claims(d)' \in Nat
    BY <1>2, ClaimNumbers, ClaimNumbersNext
  <2> QED BY <1>3, <2>1
<1>5. \A d \in S : f[d] = Claims(d) /\ g[d] = Claims(d)'
  BY <1>3
<1>6. Claimed(u) = Tokens(S, f) /\ Claimed(u)' = Tokens(S, g)
  <2>1. Claimed(u) = Tokens(S, f)
    BY <1>1, <1>3 DEF Claimed
  <2>2. Claimed(u)' = Tokens(S, g)
    BY <1>1, <1>3 DEF Claimed, Tokens, Goers
  <2> QED BY <2>1, <2>2
<1>7. PICK e, e1 : e = Cardinality(Entries(u)) /\ e1 = Cardinality(Entries(u)')
  OBVIOUS
<1>8. e \in Nat /\ e1 \in Nat
  <2>1. IsSequence(user_active) /\ IsSequence(user_active')
    BY DEF AInv
  <2>2. Entries(u) \subseteq DOMAIN user_active /\ Entries(u)' \subseteq DOMAIN user_active'
    BY DEF Entries
  <2> QED BY <1>7, <2>1, <2>2, PartFinite
<1>9. PICK t, t1 : t = Cardinality(Tokens(S, f)) /\ t1 = Cardinality(Tokens(S, g))
  OBVIOUS
<1>10. IsFiniteSet(Tokens(S, f)) /\ t <= e /\ t \in Nat
  <2>1. IsFiniteSet(Tokens(S, f)) /\ t <= e
    BY <1>6, <1>7, <1>9 DEF Covered
  <2> QED BY <1>9, <2>1, FS_CardinalityType
<1>11. \A d \in S : d # c => g[d] = f[d] /\ f[d] \in Nat
  BY <1>2, <1>4, <1>5
<1>12. IsFiniteSet(Tokens(S, g)) /\ t1 <= e1
  <2>1. CASE (c \in S => Claims(c)' <= Claims(c)) /\ e <= e1
    <3>1. \A d \in S : g[d] <= f[d]
      <4> SUFFICES ASSUME NEW d \in S PROVE g[d] <= f[d]
        OBVIOUS
      <4>1. CASE d = c
        BY <1>5, <2>1, <4>1
      <4>2. CASE d # c
        <5>1. PICK x \in Nat : x = f[d] /\ x = g[d]
          BY <1>11, <4>2
        <5>2. x <= x /\ x <= x + 1
          BY Order
        <5> QED BY <4>2, <5>1, <5>2
      <4> QED BY <4>1, <4>2
    <3>2. IsFiniteSet(Tokens(S, g)) /\ t1 <= t
      BY <1>4, <1>9, <1>10, <3>1, TokensKept
    <3>3. t1 \in Nat
      BY <1>9, <3>2, FS_CardinalityType
    <3>5. e <= e1
      BY <2>1
    <3>6. t1 <= e1
      BY <1>8, <1>10, <3>2, <3>3, <3>5, Order
    <3> QED BY <3>2, <3>6
  <2>2. CASE c \in S /\ Claims(c)' <= Claims(c) + 1 /\ e + 1 <= e1
    <3>1. \A d \in S : g[d] <= IF d = c THEN f[d] + 1 ELSE f[d]
      <4> SUFFICES ASSUME NEW d \in S PROVE g[d] <= IF d = c THEN f[d] + 1 ELSE f[d]
        OBVIOUS
      <4>1. CASE d = c
        BY <1>5, <2>2, <4>1
      <4>2. CASE d # c
        <5>1. PICK x \in Nat : x = f[d] /\ x = g[d]
          BY <1>11, <4>2
        <5>2. x <= x /\ x <= x + 1
          BY Order
        <5> QED BY <4>2, <5>1, <5>2
      <4> QED BY <4>1, <4>2
    <3>2. IsFiniteSet(Tokens(S, g)) /\ t1 <= t + 1
      BY <1>4, <1>9, <1>10, <2>2, <3>1, TokenMore
    <3>3. t1 \in Nat
      BY <1>9, <3>2, FS_CardinalityType
    <3>5. e + 1 <= e1
      BY <2>2
    <3>6. t1 <= e1
      BY <1>8, <1>10, <3>2, <3>3, <3>5, Order
    <3> QED BY <3>2, <3>6
  <2>3. CASE c \in S /\ Claims(c)' + 1 <= Claims(c) /\ e - 1 <= e1
    <3>1. \A d \in S : g[d] <= f[d]
      <4> SUFFICES ASSUME NEW d \in S PROVE g[d] <= f[d]
        OBVIOUS
      <4>1. CASE d = c
        <5>1. g[d] + 1 <= f[d] /\ g[d] \in Nat /\ f[d] \in Nat
          BY <1>4, <1>5, <2>3, <4>1
        <5>2. PICK x, y : x = g[d] /\ y = f[d]
          OBVIOUS
        <5>3. x \in Nat /\ y \in Nat /\ x + 1 <= y
          BY <5>1, <5>2
        <5>4. x <= y
          BY <5>3, Order
        <5> QED BY <5>2, <5>4
      <4>2. CASE d # c
        <5>1. PICK x \in Nat : x = f[d] /\ x = g[d]
          BY <1>11, <4>2
        <5>2. x <= x /\ x <= x + 1
          BY Order
        <5> QED BY <4>2, <5>1, <5>2
      <4> QED BY <4>1, <4>2
    <3>2. g[c] + 1 <= f[c]
      BY <1>5, <2>3
    <3>3. IsFiniteSet(Tokens(S, g)) /\ t1 <= t - 1
      BY <1>4, <1>9, <1>10, <2>3, <3>1, <3>2, TokenLess
    <3>4. t1 \in Nat
      BY <1>9, <3>3, FS_CardinalityType
    <3>5. e - 1 <= e1
      BY <2>3
    <3>6. t1 <= e1
      BY <1>8, <1>10, <3>3, <3>4, <3>5, Order
    <3> QED BY <3>3, <3>6
  <2> QED BY <1>1, <1>7, <2>1, <2>2, <2>3
<1>13. Goers(u)' = S
  BY <1>1 DEF Goers
<1>14. ASSUME NEW d \in S
       PROVE  /\ chatroom'[d] # NoRoom \/ Claims(d)' > 0 => u \in DOMAIN users'
              /\ thread'[d] = "store user" => chatroom'[d] = NoRoom
  <2>1. CASE d = c
    BY <1>1, <2>1
  <2>2. CASE d # c
    <3>1. Claims(d)' = Claims(d) /\ chatroom'[d] = chatroom[d] /\ thread'[d] = thread[d]
      BY <1>2, <2>2
    <3>2. /\ chatroom[d] # NoRoom \/ Claims(d) > 0 => u \in DOMAIN users
          /\ thread[d] = "store user" => chatroom[d] = NoRoom
      BY <1>1 DEF Covered
    <3> QED BY <3>1, <3>2
  <2> QED BY <2>1, <2>2
<1>15. /\ IsFiniteSet(Claimed(u)') /\ Cardinality(Claimed(u)') <= Cardinality(Entries(u)')
  BY <1>6, <1>7, <1>9, <1>12
<1> QED BY <1>13, <1>14, <1>15 DEF Covered

-----------------------------------------------------------------------------
(* What the steps of a thread claim.                                       *)

LEMMA SameHere ==
    ASSUME NEW c \in Clients, UNCHANGED session
    PROVE  /\ Here(c)' = Here(c)
           /\ toClient'[c] = toClient[c] => Late(c)' = Late(c)
           /\ toServer'[c] = toServer[c] => Logouts(c)' = Logouts(c)
PROOF
<1> QED BY DEF session, Here, LoggedIn, Late, Yeses, Logouts

\* A handler that goes on, or answers, leaves a login or a logout behind.
LEMMA HandlerLeaving ==
    ASSUME AInv, AInv', NEW c \in Clients, UNCHANGED session, toServer'[c] = toServer[c],
           thread[c] \notin {"recv", "ended"}, thread'[c] \notin {"logout", "ended"}
    PROVE  /\ Here(c)' <= Here(c) /\ Leaving(c)' <= Leaving(c)
           /\ thread[c] = "logout" /\ req[c].user # Mangled => Leaving(c)' + 1 <= Leaving(c)
           /\ thread'[c] # "compare" => Matching(c)' = 0
PROOF
<1>1. Here(c)' = Here(c) /\ Here(c) \in {0, 1} /\ Logouts(c)' = Logouts(c)
  BY SameHere, ClaimNumbers
<1>2. PICK n \in Nat : n = Cardinality(Logouts(c)) /\ n = Cardinality(Logouts(c)')
  BY <1>1, ClaimNumbers
<1>3. Leaving(c)' = n + 0
  BY <1>2 DEF Leaving
<1>4. Leaving(c) = n + (IF thread[c] = "logout" /\ req[c].user # Mangled THEN 1 ELSE 0)
  BY <1>2 DEF Leaving
<1>5. thread'[c] # "compare" => Matching(c)' = 0
  BY DEF Matching
<1>6. Here(c)' <= Here(c)
  BY <1>1
<1>7. /\ Leaving(c)' <= Leaving(c)
      /\ thread[c] = "logout" /\ req[c].user # Mangled => Leaving(c)' + 1 <= Leaving(c)
  BY <1>2, <1>3, <1>4
<1> QED BY <1>5, <1>6, <1>7

\* An answer of the server.
LEMMA AnswerLate ==
    ASSUME AInv, AInv', NEW c \in Clients, UNCHANGED session, NEW answer, Reply(c, answer)
    PROVE  /\ answer # "yes" => Late(c)' = Late(c)
           /\ Late(c)' <= Late(c) + 1
           /\ main[c] = "gone" \/ (main[c] = "register" /\ chatroom[c] = NoRoom)
                => Late(c)' = Late(c)
PROOF
<1>1. Late(c) \in Nat /\ Cardinality(Yeses(c)) \in Nat
  BY ClaimNumbers
<1>2. main' = main /\ chatroom' = chatroom
  BY DEF session
<1>3. CASE main[c] = "gone"
  <2>1. toClient' = toClient
    BY <1>3 DEF Reply
  <2>2. Late(c)' = Late(c)
    BY <2>1, SameHere
  <2> QED BY <1>1, <2>2
<1>4. CASE main[c] = "register" /\ chatroom[c] = NoRoom
  <2>1. Late(c)' = 0 /\ Late(c) = 0
    BY <1>2, <1>4 DEF Late
  <2> QED BY <2>1
<1>5. CASE main[c] # "gone" /\ ~(main[c] = "register" /\ chatroom[c] = NoRoom)
  <2>1. DOMAIN toClient = Clients /\ IsSequence(toClient[c])
    BY DEF AInv, IInv, Types
  <2>2. toClient'[c] = Append(toClient[c], answer)
    BY <1>5, <2>1 DEF Reply
  <2>3. PICK x : x = Len(toClient[c]) + 1
    OBVIOUS
  <2>4. /\ DOMAIN toClient'[c] = DOMAIN toClient[c] \cup {x} /\ x \notin DOMAIN toClient[c]
        /\ \A k \in DOMAIN toClient[c] : toClient'[c][k] = toClient[c][k]
        /\ toClient'[c][x] = answer
    BY <2>1, <2>2, <2>3, AppendedAt
  <2>5. /\ Yeses(c)' = IF answer = "yes" THEN Yeses(c) \cup {x} ELSE Yeses(c)
        /\ x \notin Yeses(c)
    BY <2>4 DEF Yeses
  <2>6. IsFiniteSet(Yeses(c))
    BY <2>1, PartFinite DEF Yeses
  <2>7. Cardinality(Yeses(c) \cup {x}) = Cardinality(Yeses(c)) + 1
    BY <2>5, <2>6, FS_AddElement
  <2>8. Late(c) = Cardinality(Yeses(c)) /\ Late(c)' = Cardinality(Yeses(c)')
    BY <1>2, <1>5 DEF Late
  <2>9. PICK n \in Nat : n = Cardinality(Yeses(c))
    BY <1>1
  <2>10. Late(c)' = IF answer = "yes" THEN n + 1 ELSE n
    BY <2>5, <2>7, <2>8, <2>9
  <2> QED BY <1>5, <2>8, <2>9, <2>10
<1> QED BY <1>3, <1>4, <1>5

\* The three sums of ClaimsAdd for a thread's step, which leaves its client alone.
LEMMA FewerClaims ==
    ASSUME AInv, AInv', NEW c \in Clients, UNCHANGED session,
           Leaving(c)' <= Leaving(c), Late(c)' + Matching(c)' <= Late(c) + Matching(c)
    PROVE  Claims(c)' <= Claims(c)
PROOF
<1>1. Here(c)' <= Here(c)
  BY SameHere, ClaimNumbers
<1> QED BY <1>1, ClaimsAdd

LEMMA NoneMatching ==
    ASSUME AInv, AInv', NEW c \in Clients, Late(c)' = Late(c), Matching(c)' = 0
    PROVE  /\ Late(c)' + Matching(c)' <= Late(c) + Matching(c)
           /\ Late(c)' <= Late(c) /\ Matching(c)' <= Matching(c)
PROOF
<1>1. PICK t, m : t = Late(c) /\ m = Matching(c)
  OBVIOUS
<1>2. t \in Nat /\ m \in {0, 1}
  BY <1>1, ClaimNumbers
<1>3. t + 0 <= t + m /\ t <= t /\ 0 <= m
  BY <1>2
<1> QED BY <1>1, <1>3

LEMMA RecvClaims ==
    ASSUME AInv, AInv', NEW c \in Clients, Recv(c), UNCHANGED session
    PROVE  Claims(c)' <= Claims(c) /\ thread'[c] # "store user"
PROOF
<1>1. thread[c] = "recv" /\ toClient' = toClient
  BY DEF Recv
<1>2. PICK n \in 1 .. Len(toServer[c]) :
        /\ req' = [req EXCEPT ![c] = Read(SubSeq(toServer[c], 1, n))]
        /\ toServer' = [toServer EXCEPT ![c] = SubSeq(@, n + 1, Len(@))]
  BY DEF Recv
<1>3. PICK r, first : r = Read(SubSeq(toServer[c], 1, n)) /\ first = toServer[c][1]
  OBVIOUS
<1>4. /\ 1 \in DOMAIN toServer[c] /\ WellMade(c, first)
      /\ r.op \in {first.op, "too many fields"}
  BY <1>3, ReadIs
<1>5. req'[c] = r /\ toServer'[c] = SubSeq(toServer[c], n + 1, Len(toServer[c]))
  <2>1. DOMAIN req = Clients /\ DOMAIN toServer = Clients
    BY DEF AInv, IInv, Types
  <2> QED BY <1>2, <1>3, <2>1
<1>6. thread'[c] = r.op
  <2>1. thread' = [thread EXCEPT ![c] = req'[c].op] /\ DOMAIN thread = Clients
    BY DEF Recv, AInv, IInv, Types
  <2> QED BY <1>5, <2>1
<1>7. thread'[c] \notin {"compare", "store user", "ended"}
  BY <1>4, <1>6 DEF WellMade, Requested
<1>8. Matching(c)' = 0 /\ Late(c)' = Late(c)
  BY <1>1, <1>7, SameHere DEF Matching
<1>9. Leaving(c)' <= Leaving(c)
  <2>1. IsSequence(toServer[c])
    BY DEF AInv, IInv, Types
  <2>2. /\ DOMAIN toServer'[c] = 1 .. (Len(toServer[c]) - n)
        /\ \A k \in 1 .. (Len(toServer[c]) - n) :
             k + n \in DOMAIN toServer[c] /\ toServer'[c][k] = toServer[c][k + n]
    BY <1>5, <2>1, CutAt
  <2>3. PICK P, Q : P = Logouts(c) /\ Q = Logouts(c)'
    OBVIOUS
  <2>4. /\ P \subseteq DOMAIN toServer[c] /\ Q \subseteq 1 .. (Len(toServer[c]) - n)
        /\ \A k \in Q : k + n \in P
    BY <2>2, <2>3 DEF Logouts
  <2>5. /\ Cardinality(Q) <= Cardinality(P)
        /\ (\E j \in 1 .. n : j \in P) => Cardinality(Q) + 1 <= Cardinality(P)
    BY <2>1, <2>4, CutCount
  <2>6. first.op = "logout" => 1 \in P
    BY <1>3, <1>4, <2>3 DEF Logouts
  <2>7. 1 \in 1 .. n
    <3>1. Len(toServer[c]) \in Nat
      BY <2>1, SequenceOf DEF IsSequence
    <3> QED BY <3>1
  <2>8. PICK p, q : p = Cardinality(P) /\ q = Cardinality(Q)
    OBVIOUS
  <2>9. p \in Nat /\ q \in Nat /\ q <= p
    BY <2>3, <2>5, <2>8, ClaimNumbers, ClaimNumbersNext
  <2>10. r.op = "logout" => q + 1 <= p
    BY <1>4, <2>5, <2>6, <2>7, <2>8
  <2>11. Leaving(c) = p + 0
    BY <1>1, <2>3, <2>8 DEF Leaving
  <2>12. Leaving(c)' = q + (IF r.op = "logout" /\ r.user # Mangled THEN 1 ELSE 0)
    BY <1>5, <1>6, <1>7, <2>3, <2>8 DEF Leaving
  <2> QED BY <2>9, <2>10, <2>11, <2>12
<1>10. Late(c)' + Matching(c)' <= Late(c) + Matching(c)
  BY <1>8, NoneMatching
<1> QED BY <1>7, <1>9, <1>10, FewerClaims

LEMMA DiesClaims ==
    ASSUME AInv, AInv', NEW c \in Clients, Dies(c), UNCHANGED session
    PROVE  Claims(c)' <= Claims(c) /\ thread'[c] # "store user"
PROOF
<1>1. thread'[c] = "ended" /\ toClient' = toClient
  BY DEF Dies, AInv, IInv, Types
<1>2. Leaving(c)' = 0 /\ Matching(c)' = 0 /\ Late(c)' = Late(c)
  BY <1>1, SameHere DEF Leaving, Matching
<1>3. Leaving(c)' <= Leaving(c)
  BY <1>2, ClaimNumbers
<1>4. Late(c)' + Matching(c)' <= Late(c) + Matching(c)
  BY <1>2, NoneMatching
<1> QED BY <1>1, <1>3, <1>4, FewerClaims

LEMMA ReplyClaims ==
    ASSUME AInv, AInv', NEW c \in Clients, NEW answer, Reply(c, answer), UNCHANGED session,
           thread[c] \notin {"recv", "ended"},
           \/ answer # "yes" \/ Matching(c) = 1 \/ main[c] = "gone"
           \/ main[c] = "register" /\ chatroom[c] = NoRoom
    PROVE  Claims(c)' <= Claims(c) /\ thread'[c] = "recv"
PROOF
<1>1. thread'[c] = "recv" /\ toServer' = toServer
  BY DEF Reply, AInv, IInv, Types
<1>2. Leaving(c)' <= Leaving(c) /\ Matching(c)' = 0
  BY <1>1, HandlerLeaving
<1>3. Late(c)' + Matching(c)' <= Late(c) + Matching(c)
  <2>1. CASE Late(c)' = Late(c)
    BY <1>2, <2>1, NoneMatching
  <2>2. CASE Matching(c) = 1
    <3>1. Late(c)' <= Late(c) + 1 /\ Late(c)' \in Nat
      BY AnswerLate, ClaimNumbersNext
    <3> QED BY <1>2, <2>2, <3>1
  <2>3. /\ answer # "yes" => Late(c)' = Late(c)
        /\ main[c] = "gone" \/ (main[c] = "register" /\ chatroom[c] = NoRoom)
             => Late(c)' = Late(c)
    BY AnswerLate
  <2>4. Late(c)' = Late(c) \/ Matching(c) = 1
    BY <2>3
  <2> QED BY <2>1, <2>2, <2>4
<1> QED BY <1>1, <1>2, <1>3, FewerClaims

LEMMA ContinueClaims ==
    ASSUME AInv, AInv', NEW c \in Clients, NEW step, NEW held, Continue(c, step, held),
           UNCHANGED session, thread[c] \notin {"recv", "ended"},
           step \notin {"logout", "ended", "compare"}
    PROVE  /\ Claims(c)' <= Claims(c) /\ thread'[c] = step
           /\ thread[c] = "logout" /\ req[c].user # Mangled => Claims(c)' + 1 <= Claims(c)
PROOF
<1>1. thread'[c] = step /\ toServer' = toServer /\ toClient' = toClient
  BY DEF Continue, AInv, IInv, Types
<1>2. /\ Leaving(c)' <= Leaving(c) /\ Matching(c)' = 0 /\ Here(c)' <= Here(c)
      /\ thread[c] = "logout" /\ req[c].user # Mangled => Leaving(c)' + 1 <= Leaving(c)
  BY <1>1, HandlerLeaving
<1>3. Late(c)' = Late(c)
  BY <1>1, SameHere
<1>4. /\ Late(c)' + Matching(c)' <= Late(c) + Matching(c)
      /\ Late(c)' <= Late(c) /\ Matching(c)' <= Matching(c)
  BY <1>2, <1>3, NoneMatching
<1>5. Claims(c)' <= Claims(c)
  BY <1>2, <1>4, FewerClaims
<1>6. thread[c] = "logout" /\ req[c].user # Mangled => Claims(c)' + 1 <= Claims(c)
  BY <1>2, <1>4, ClaimsAdd
<1> QED BY <1>1, <1>5, <1>6

\* A step of a thread that leaves the active users alone and needs no more entries.
LEMMA CoverSame ==
    ASSUME AInv, AInv', NEW c \in Clients, NEW u, Covered(u), Beside(c),
           DOMAIN users \subseteq DOMAIN users', SamePasswords,
           Cardinality(Entries(u)) <= Cardinality(Entries(u)'),
           c \in Goers(u) => /\ Claims(c)' <= Claims(c)
                             /\ thread'[c] = "store user" => chatroom[c] = NoRoom
    PROVE  Covered(u)'
PROOF
<1>1. \A d \in Clients \ {c} : /\ Claims(d)' = Claims(d) /\ chatroom'[d] = chatroom[d]
                               /\ thread'[d] = thread[d]
  <2> SUFFICES ASSUME NEW d \in Clients \ {c}
               PROVE  /\ Claims(d)' = Claims(d) /\ chatroom'[d] = chatroom[d]
                      /\ thread'[d] = thread[d]
    OBVIOUS
  <2>1. /\ main'[d] = main[d] /\ thread'[d] = thread[d] /\ toServer'[d] = toServer[d]
        /\ toClient'[d] = toClient[d] /\ chatroom'[d] = chatroom[d] /\ req'[d] = req[d]
    BY DEF Beside
  <2>2. thread[d] = "compare" => (Matches(d)' <=> Matches(d))
    <3>1. ASSUME thread[d] = "compare" PROVE req[d].user \in DOMAIN users
      BY <3>1 DEF AInv, Own, Known
    <3> QED BY <2>1, <3>1 DEF SamePasswords, Matches
  <2> QED BY <2>1, <2>2, ClaimsKept
<1>2. chatroom' = chatroom
  BY DEF Beside
<1>3. c \in Goers(u) =>
        /\ chatroom'[c] # NoRoom \/ Claims(c)' > 0 => u \in DOMAIN users'
        /\ thread'[c] = "store user" => chatroom'[c] = NoRoom
  <2>1. ASSUME c \in Goers(u), Claims(c)' > 0 PROVE Claims(c) > 0
    <3>1. PICK p, q : p = Claims(c) /\ q = Claims(c)'
      OBVIOUS
    <3>2. p \in Nat /\ q \in Nat /\ q <= p /\ q > 0
      BY <2>1, <3>1, ClaimNumbers, ClaimNumbersNext
    <3>3. p > 0
      BY <3>2, Order
    <3> QED BY <3>1, <3>3
  <2>2. ASSUME c \in Goers(u) PROVE chatroom[c] # NoRoom \/ Claims(c) > 0 => u \in DOMAIN users
    BY <2>2 DEF Covered
  <2> QED BY <1>2, <2>1, <2>2
<1> QED BY <1>1, <1>3, CoverStep

LEMMA SameEntries ==
    ASSUME AInv, user_active' = user_active, NEW u
    PROVE  Cardinality(Entries(u)) <= Cardinality(Entries(u)')
PROOF
<1>1. Entries(u)' = Entries(u)
  BY DEF Entries
<1>2. Cardinality(Entries(u)) \in Nat
  BY PartFinite DEF AInv, Entries
<1>3. PICK n \in Nat : n = Cardinality(Entries(u))
  BY <1>2
<1> QED BY <1>1, <1>3

\* One more name at the end.
LEMMA EntryMore ==
    ASSUME AInv, NEW u, NEW v, user_active' = Append(user_active, v)
    PROVE  /\ Cardinality(Entries(u)) <= Cardinality(Entries(u)')
           /\ u = v => Cardinality(Entries(u)) + 1 <= Cardinality(Entries(u)')
PROOF
<1>1. IsSequence(user_active)
  BY DEF AInv
<1>2. PICK x : x = Len(user_active) + 1
  OBVIOUS
<1>3. /\ DOMAIN user_active' = DOMAIN user_active \cup {x} /\ x \notin DOMAIN user_active
      /\ \A k \in DOMAIN user_active : user_active'[k] = user_active[k]
      /\ user_active'[x] = v
  BY <1>1, <1>2, AppendedAt
<1>4. /\ Entries(u)' = IF u = v THEN Entries(u) \cup {x} ELSE Entries(u)
      /\ x \notin Entries(u)
  BY <1>3 DEF Entries
<1>5. IsFiniteSet(Entries(u)) /\ Cardinality(Entries(u)) \in Nat
  BY <1>1, PartFinite DEF Entries
<1>6. Cardinality(Entries(u) \cup {x}) = Cardinality(Entries(u)) + 1
  BY <1>4, <1>5, FS_AddElement
<1>7. PICK n \in Nat : n = Cardinality(Entries(u))
  BY <1>5
<1>8. Cardinality(Entries(u)') = IF u = v THEN n + 1 ELSE n
  BY <1>4, <1>6, <1>7
<1> QED BY <1>7, <1>8

\* One name less.
LEMMA EntryLess ==
    ASSUME AInv, NEW u, NEW v, Contains(user_active, v),
           user_active' = Without(user_active, v)
    PROVE  IF u = v THEN Cardinality(Entries(u)) - 1 <= Cardinality(Entries(u)')
                    ELSE Cardinality(Entries(u)) <= Cardinality(Entries(u)')
PROOF
<1>1. PICK P, Q : P = Entries(u) /\ Q = Entries(u)'
  OBVIOUS
<1>2. PICK s : s = user_active
  OBVIOUS
<1>3. /\ P = {k \in DOMAIN s : s[k] = u} /\ IsSequence(s) /\ Contains(s, v)
      /\ Q = {k \in DOMAIN Without(s, v) : Without(s, v)[k] = u}
  BY <1>1, <1>2 DEF Entries, AInv
<1>4. IF u = v THEN Cardinality(P) - 1 <= Cardinality(Q) ELSE Cardinality(P) <= Cardinality(Q)
  BY <1>3, WithoutCount
<1> QED BY <1>1, <1>4

-----------------------------------------------------------------------------
(* Every step covers a name again.                                         *)

\* A login that matches: the entry it adds is the entry the client may claim.
LEMMA LoginCover ==
    ASSUME AInv, AInv', NEW c \in Clients, NEW u \in Users, OnlyName(u), Covered(u),
           Login(c), UNCHANGED session, Beside(c)
    PROVE  Covered(u)'
PROOF
<1>1. thread[c] = "login" /\ UNCHANGED users /\ SamePasswords
  BY DEF Login, SamePasswords
<1>2. CASE ~Known(c)
  <2>1. Reply(c, "text") /\ user_active' = user_active
    BY <1>2 DEF Login
  <2>2. PICK answer : answer = "text"
    OBVIOUS
  <2>3. Claims(c)' <= Claims(c) /\ thread'[c] = "recv"
    BY <1>1, <2>1, <2>2, ReplyClaims
  <2> QED BY <1>1, <2>1, <2>3, SameEntries, CoverSame
<1>3. CASE Known(c)
  <2>1. Continue(c, "compare", << >>)
    BY <1>3 DEF Login
  <2>2. /\ thread'[c] = "compare" /\ UNCHANGED <<req, toServer, toClient>>
    BY <2>1 DEF Continue, AInv, IInv, Types
  <2>3. Here(c)' <= Here(c) /\ Leaving(c)' <= Leaving(c) /\ Late(c)' = Late(c)
    BY <1>1, <2>2, HandlerLeaving, SameHere
  <2>4. Matching(c)' = (IF Matches(c) THEN 1 ELSE 0) /\ Matching(c) = 0
    BY <1>1, <2>2 DEF Matching, Matches
  <2>5. Late(c)' <= Late(c)
    BY <2>3, ClaimNumbers
  <2>6. Claims(c)' <= Claims(c) + Matching(c)'
    BY <2>3, <2>5, ClaimsAdd
  <2>7. CASE ~Matches(c)
    <3>1. user_active' = user_active
      BY <1>3, <2>7 DEF Login
    <3>2. Late(c)' + Matching(c)' <= Late(c) + Matching(c)
      BY <2>3, <2>4, <2>7, NoneMatching
    <3>3. Claims(c)' <= Claims(c)
      BY <2>3, <3>2, FewerClaims
    <3> QED BY <1>1, <2>2, <3>1, <3>3, SameEntries, CoverSame
  <2>8. CASE Matches(c)
    <3>1. PICK v : v = req[c].user
      OBVIOUS
    <3>2. user_active' = Append(user_active, v)
      BY <1>3, <2>8, <3>1 DEF Login, Activated
    <3>3. CASE c \notin Goers(u)
      <4>1. Cardinality(Entries(u)) <= Cardinality(Entries(u)')
        BY <3>2, EntryMore
      <4> QED BY <1>1, <3>3, <4>1, CoverSame
    <3>4. CASE c \in Goers(u)
      <4>1. v = u
        BY <1>1, <3>1, <3>4 DEF AInv, Own, OnlyName, Goers
      <4>2. Cardinality(Entries(u)) + 1 <= Cardinality(Entries(u)')
        BY <3>2, <4>1, EntryMore
      <4>3. Claims(c)' <= Claims(c) + 1
        BY <2>4, <2>6, <2>8
      <4>4. u \in DOMAIN users'
        BY <1>1, <1>3, <3>1, <4>1 DEF Known
      <4>5. \A d \in Clients \ {c} : /\ Claims(d)' = Claims(d) /\ chatroom'[d] = chatroom[d]
                                     /\ thread'[d] = thread[d]
        <5> SUFFICES ASSUME NEW d \in Clients \ {c}
                     PROVE  /\ Claims(d)' = Claims(d) /\ chatroom'[d] = chatroom[d]
                            /\ thread'[d] = thread[d]
          OBVIOUS
        <5>1. /\ main'[d] = main[d] /\ thread'[d] = thread[d] /\ toServer'[d] = toServer[d]
              /\ toClient'[d] = toClient[d] /\ chatroom'[d] = chatroom[d] /\ req'[d] = req[d]
          BY DEF Beside
        <5>2. Matches(d)' <=> Matches(d)
          BY <1>1, <5>1 DEF Matches
        <5> QED BY <5>1, <5>2, ClaimsKept
      <4>6. DOMAIN users \subseteq DOMAIN users'
        BY <1>1
      <4> QED BY <2>2, <3>4, <4>2, <4>3, <4>4, <4>5, <4>6, CoverStep
    <3> QED BY <3>3, <3>4
  <2> QED BY <2>7, <2>8
<1> QED BY <1>2, <1>3

\* A logout: the entry it takes away is one the client has claimed.
LEMMA LogoutCover ==
    ASSUME AInv, AInv', NEW c \in Clients, NEW u \in Users, OnlyName(u), Covered(u),
           Logout(c), UNCHANGED session, Beside(c), Mangled \notin Users
    PROVE  Covered(u)'
PROOF
<1>1. thread[c] = "logout" /\ UNCHANGED users /\ SamePasswords
  BY DEF Logout, SamePasswords
<1>2. CASE ~Contains(user_active, req[c].user)
  <2>1. Dies(c) /\ user_active' = user_active
    BY <1>2 DEF Logout
  <2>2. Claims(c)' <= Claims(c) /\ thread'[c] # "store user"
    BY <2>1, DiesClaims
  <2> QED BY <1>1, <2>1, <2>2, SameEntries, CoverSame
<1>3. CASE Contains(user_active, req[c].user)
  <2>1. PICK v, held, step : v = req[c].user /\ held = <<1, Len(chat_rooms)>> /\ step = "rooms"
    OBVIOUS
  <2>2. Contains(user_active, v) /\ user_active' = Without(user_active, v)
        /\ Continue(c, step, held)
    BY <1>3, <2>1 DEF Logout
  <2>3. /\ Claims(c)' <= Claims(c) /\ thread'[c] = step
        /\ thread[c] = "logout" /\ req[c].user # Mangled => Claims(c)' + 1 <= Claims(c)
    BY <1>1, <2>1, <2>2, ContinueClaims
  <2>4. IF u = v THEN Cardinality(Entries(u)) - 1 <= Cardinality(Entries(u)')
                 ELSE Cardinality(Entries(u)) <= Cardinality(Entries(u)')
    BY <2>2, EntryLess
  <2>5. CASE u # v
    <3>1. Cardinality(Entries(u)) <= Cardinality(Entries(u)')
      BY <2>4, <2>5
    <3> QED BY <1>1, <2>1, <2>3, <3>1, CoverSame
  <2>6. CASE u = v
    <3>1. c \in Goers(u)
      BY <1>1, <2>1, <2>6 DEF AInv, Own, Goers
    <3>2. Claims(c)' + 1 <= Claims(c)
      BY <1>1, <2>1, <2>3, <2>6
    <3>3. Cardinality(Entries(u)) - 1 <= Cardinality(Entries(u)')
      BY <2>4, <2>6
    <3>4. \A d \in Clients \ {c} : /\ Claims(d)' = Claims(d) /\ chatroom'[d] = chatroom[d]
                                   /\ thread'[d] = thread[d]
      <4> SUFFICES ASSUME NEW d \in Clients \ {c}
                   PROVE  /\ Claims(d)' = Claims(d) /\ chatroom'[d] = chatroom[d]
                          /\ thread'[d] = thread[d]
        OBVIOUS
      <4>1. /\ main'[d] = main[d] /\ thread'[d] = thread[d] /\ toServer'[d] = toServer[d]
            /\ toClient'[d] = toClient[d] /\ chatroom'[d] = chatroom[d] /\ req'[d] = req[d]
        BY DEF Beside
      <4>2. Matches(d)' <=> Matches(d)
        BY <1>1, <4>1 DEF Matches
      <4> QED BY <4>1, <4>2, ClaimsKept
    <3>5. DOMAIN users \subseteq DOMAIN users'
      BY <1>1
    <3>6. u \in DOMAIN users'
      <4>1. PICK p, q : p = Claims(c) /\ q = Claims(c)'
        OBVIOUS
      <4>2. p \in Nat /\ q \in Nat /\ q + 1 <= p
        BY <3>2, <4>1, ClaimNumbers, ClaimNumbersNext
      <4>3. p > 0
        BY <4>2, Order
      <4> QED BY <1>1, <3>1, <4>1, <4>3 DEF Covered
    <3>7. thread'[c] # "store user"
      BY <2>1, <2>3
    <3> QED BY <3>1, <3>2, <3>3, <3>4, <3>5, <3>6, <3>7, CoverStep
  <2> QED BY <2>5, <2>6
<1> QED BY <1>2, <1>3

LEMMA ThreadCover ==
    ASSUME AInv, AInv', NEW c \in Clients, NEW u \in Users, OnlyName(u), Covered(u),
           Thread(c), Beside(c), SamePasswords, Mangled \notin Users
    PROVE  Covered(u)'
PROOF
<1>1. UNCHANGED session
  BY DEF Thread
<1>2. CASE UNCHANGED <<users, user_active>> /\ Claims(c)' <= Claims(c)
           /\ thread'[c] # "store user"
  BY <1>2, SameEntries, CoverSame
<1>3. CASE Recv(c) /\ UNCHANGED <<users, user_active>>
  BY <1>1, <1>2, <1>3, RecvClaims
<1>4. CASE Dies(c) /\ UNCHANGED <<users, user_active>>
  BY <1>1, <1>2, <1>4, DiesClaims
<1>5. CASE Aside(c)
  <2>1. thread[c] \notin {"recv", "ended"} /\ UNCHANGED <<users, user_active>>
    BY <1>5 DEF Aside
  <2>2. CASE \E answer : answer # "yes" /\ Reply(c, answer)
    <3>1. PICK answer : answer # "yes" /\ Reply(c, answer)
      BY <2>2
    <3>2. Claims(c)' <= Claims(c) /\ thread'[c] = "recv"
      BY <1>1, <2>1, <3>1, ReplyClaims
    <3> QED BY <1>2, <2>1, <3>2
  <2>3. CASE \E held : \E step \in {"store room", "act", "rooms", "remove"} : Continue(c, step, held)
    <3>1. PICK held : \E step \in {"store room", "act", "rooms", "remove"} : Continue(c, step, held)
      BY <2>3
    <3>2. PICK step \in {"store room", "act", "rooms", "remove"} : Continue(c, step, held)
      BY <3>1
    <3>3. step \notin {"logout", "ended", "compare"}
      BY <3>2
    <3>4. Claims(c)' <= Claims(c) /\ thread'[c] = step
      BY <1>1, <2>1, <3>2, <3>3, ContinueClaims
    <3> QED BY <1>2, <2>1, <3>2, <3>4
  <2> QED BY <1>5, <2>2, <2>3 DEF Aside
<1>6. CASE Login(c)
  BY <1>1, <1>6, LoginCover
<1>7. CASE LoginAnswer(c)
  <2>1. thread[c] = "compare" /\ UNCHANGED <<users, user_active>>
    BY <1>7 DEF LoginAnswer, shared
  <2>2. PICK answer : Reply(c, answer) /\ (answer # "yes" \/ Matching(c) = 1)
    BY <1>7, <2>1 DEF LoginAnswer, Matching
  <2>3. Claims(c)' <= Claims(c) /\ thread'[c] = "recv"
    BY <1>1, <2>1, <2>2, ReplyClaims
  <2> QED BY <1>2, <2>1, <2>3
<1>8. CASE Register(c)
  <2>1. thread[c] = "register" /\ UNCHANGED <<users, user_active>>
    BY <1>8 DEF Register, shared
  <2>2. CASE Known(c)
    <3>1. PICK answer : answer # "yes" /\ Reply(c, answer)
      <4>1. Reply(c, "text")
        BY <1>8, <2>2 DEF Register
      <4> QED BY <4>1
    <3>2. Claims(c)' <= Claims(c) /\ thread'[c] = "recv"
      BY <1>1, <2>1, <3>1, ReplyClaims
    <3> QED BY <1>2, <2>1, <3>2
  <2>3. CASE ~Known(c)
    <3>1. PICK held, step : held = << >> /\ step = "store user"
      OBVIOUS
    <3>2. Continue(c, step, held)
      BY <1>8, <2>3, <3>1 DEF Register
    <3>3. Claims(c)' <= Claims(c)
      BY <1>1, <2>1, <3>1, <3>2, ContinueClaims
    <3>4. c \in Goers(u) => chatroom[c] = NoRoom
      <4>1. ASSUME c \in Goers(u) PROVE req[c].user = u
        BY <2>1, <4>1 DEF AInv, Own, OnlyName, Goers
      <4> QED BY <2>3, <4>1 DEF Known, Covered
    <3> QED BY <2>1, <3>3, <3>4, SameEntries, CoverSame
  <2> QED BY <2>2, <2>3
<1>9. CASE StoreUser(c)
  <2>1. /\ thread[c] = "store user" /\ user_active' = user_active /\ Reply(c, "yes")
    BY <1>9 DEF StoreUser
  <2>2. DOMAIN users \subseteq DOMAIN users'
    BY <1>9, StoredUser
  <2>3. thread'[c] = "recv"
    BY <2>1 DEF Reply, AInv, IInv, Types
  <2>4. PICK answer : answer = "yes"
    OBVIOUS
  <2>5. ASSUME c \in Goers(u) PROVE Claims(c)' <= Claims(c)
    <3>1. chatroom[c] = NoRoom
      BY <2>1, <2>5 DEF Covered
    <3>2. AsksToRegister(c)
      BY <2>1 DEF AsksToRegister
    <3>3. main[c] \in {"register", "gone"}
      BY <3>1, <3>2 DEF AInv, Own
    <3> QED BY <1>1, <2>1, <2>4, <3>1, <3>3, ReplyClaims
  <2> QED BY <2>1, <2>2, <2>3, <2>5, SameEntries, CoverSame
<1>10. CASE Logout(c)
  BY <1>1, <1>10, LogoutCover
<1> QED BY <1>3, <1>4, <1>5, <1>6, <1>7, <1>8, <1>9, <1>10, StepsOfThread

\* A step of a client, or its new start.
LEMMA ClientCover ==
    ASSUME AInv, AInv', NEW c \in Clients, NEW u \in Users, Covered(u),
           Client(c) \/ Start(c)
    PROVE  Covered(u)'
PROOF
<1>1. /\ UNCHANGED <<users, user_active, req>> /\ Elsewhere(c)
      /\ \A d \in Clients \ {c} : thread'[d] = thread[d]
  BY ClientOwn, StartOwn DEF Client, Start, shared
<1>2. /\ Claims(c)' <= Claims(c)
      /\ chatroom'[c] \in {chatroom[c], NoRoom} \/ main[c] = "which room"
      /\ thread'[c] = "store user" => thread[c] = "store user"
  <2>1. CASE Client(c)
    BY <2>1, ClientClaims DEF Client
  <2>2. CASE Start(c)
    BY <2>2, StartClaims
  <2> QED BY <2>1, <2>2
<1>3. \A d \in Clients \ {c} : /\ Claims(d)' = Claims(d) /\ chatroom'[d] = chatroom[d]
                               /\ thread'[d] = thread[d]
  <2> SUFFICES ASSUME NEW d \in Clients \ {c}
               PROVE  /\ Claims(d)' = Claims(d) /\ chatroom'[d] = chatroom[d]
                      /\ thread'[d] = thread[d]
    OBVIOUS
  <2>1. /\ main'[d] = main[d] /\ thread'[d] = thread[d] /\ toServer'[d] = toServer[d]
        /\ toClient'[d] = toClient[d] /\ chatroom'[d] = chatroom[d] /\ req'[d] = req[d]
    BY <1>1 DEF Elsewhere
  <2>2. Matches(d)' <=> Matches(d)
    BY <1>1 DEF Matches
  <2> QED BY <2>1, <2>2, ClaimsKept
<1>4. Cardinality(Entries(u)) <= Cardinality(Entries(u)')
  BY <1>1, SameEntries
<1>5. ASSUME c \in Goers(u)
      PROVE  /\ chatroom'[c] # NoRoom \/ Claims(c)' > 0 => u \in DOMAIN users'
             /\ thread'[c] = "store user" => chatroom'[c] = NoRoom
  <2>1. /\ chatroom[c] # NoRoom \/ Claims(c) > 0 => u \in DOMAIN users
        /\ thread[c] = "store user" => chatroom[c] = NoRoom
    BY <1>5 DEF Covered
  <2>2. PICK p, q : p = Claims(c) /\ q = Claims(c)'
    OBVIOUS
  <2>3. p \in Nat /\ q \in Nat /\ q <= p
    BY <1>2, <2>2, ClaimNumbers, ClaimNumbersNext
  <2>4. q > 0 => p > 0
    BY <2>3, Order
  <2>5. main[c] = "which room" => p > 0
    <3>1. ASSUME main[c] = "which room" PROVE p > 0
      <4>1. PICK l, t, m : l = Leaving(c) /\ t = Late(c) /\ m = Matching(c)
        OBVIOUS
      <4>2. l \in Nat /\ t \in Nat /\ m \in Nat
        BY <4>1, ClaimNumbers
      <4>3. p = 1 + l + t + m
        BY <2>2, <3>1, <4>1 DEF Claims, Here, LoggedIn
      <4> QED BY <4>2, <4>3
    <3> QED BY <3>1
  <2>6. chatroom'[c] # NoRoom => chatroom[c] # NoRoom \/ p > 0
    BY <1>2, <2>5
  <2>7. thread[c] = "store user" /\ chatroom[c] = NoRoom => main[c] # "which room"
    BY DEF AInv, Own, AsksToRegister
  <2> QED BY <1>1, <1>2, <2>1, <2>2, <2>4, <2>6, <2>7
<1>6. DOMAIN users \subseteq DOMAIN users'
  BY <1>1
<1> QED BY <1>2, <1>3, <1>4, <1>5, <1>6, CoverStep

LEMMA InitCover == Init => \A u \in Users : Covered(u)
PROOF
<1> SUFFICES ASSUME Init, NEW u \in Users PROVE Covered(u)
  OBVIOUS
<1>1. AInv
  BY InitOwn
<1>2. ASSUME NEW c \in Clients
      PROVE  Claims(c) = 0 /\ chatroom[c] = NoRoom /\ thread[c] = "recv"
  <2>1. /\ thread[c] = "recv" /\ main[c] = "menu" /\ chatroom[c] = NoRoom
        /\ toServer[c] = << >> /\ toClient[c] = << >>
    BY DEF Init
  <2>2. Logouts(c) = {} /\ Yeses(c) = {}
    BY <2>1 DEF Logouts, Yeses
  <2>3. Cardinality(Logouts(c)) = 0 /\ Cardinality(Yeses(c)) = 0
    BY <2>2, FS_EmptySet
  <2>4. Here(c) = 0 /\ Matching(c) = 0
    BY <2>1 DEF Here, LoggedIn, Matching
  <2>5. Leaving(c) = 0
    BY <2>1, <2>3 DEF Leaving
  <2>6. Late(c) = 0
    BY <2>3 DEF Late
  <2> QED BY <2>1, <2>4, <2>5, <2>6 DEF Claims
<1>3. Claimed(u) = {}
  <2>1. PICK S, f : S = Goers(u) /\ f = [c \in S |-> Claims(c)]
    OBVIOUS
  <2>2. \A c \in S : f[c] = 0
    BY <1>2, <2>1 DEF Goers
  <2>3. \A n \in Nat : n \notin 1 .. 0
    OBVIOUS
  <2>4. Tokens(S, f) = {}
    BY <2>2, <2>3 DEF Tokens
  <2> QED BY <2>1, <2>4 DEF Claimed
<1>4. IsFiniteSet(Claimed(u)) /\ Cardinality(Claimed(u)) = 0
  BY <1>3, FS_EmptySet
<1>5. Cardinality(Entries(u)) \in Nat
  BY <1>1, PartFinite DEF AInv, Entries
<1>6. Cardinality(Claimed(u)) <= Cardinality(Entries(u))
  BY <1>4, <1>5
<1>7. \A c \in Goers(u) : Claims(c) = 0 /\ chatroom[c] = NoRoom /\ thread[c] # "store user"
  BY <1>2 DEF Goers
<1>8. ~(0 > 0)
  OBVIOUS
<1> QED BY <1>4, <1>6, <1>7, <1>8 DEF Covered

LEMMA NothingHappens == SInv /\ UNCHANGED vars => SInv'
PROOF
<1> SUFFICES ASSUME SInv, UNCHANGED vars PROVE SInv'
  OBVIOUS
<1>1. IInv'
  BY StepInv DEF SInv, AInv
<1>2. ASSUME NEW c \in Clients PROVE Own(c)'
  <2>1. Own(c)
    BY DEF SInv, AInv
  <2> QED BY <2>1, OwnKept DEF vars
<1>3. AInv'
  BY <1>1, <1>2 DEF SInv, AInv, vars
<1>4. ASSUME NEW u \in Users, OnlyName(u), Covered(u) PROVE Covered(u)'
  <2>1. \A c \in Clients : Claims(c)' = Claims(c)
    <3> SUFFICES ASSUME NEW c \in Clients PROVE Claims(c)' = Claims(c)
      OBVIOUS
    <3>1. Matches(c)' <=> Matches(c)
      BY DEF Matches, vars
    <3> QED BY <3>1, ClaimsKept DEF vars
  <2>2. Goers(u) \subseteq Clients
    BY DEF Goers
  <2>3. [c \in Goers(u) |-> Claims(c)]' = [c \in Goers(u) |-> Claims(c)]
    BY <2>1, <2>2 DEF Goers
  <2>4. Claimed(u)' = Claimed(u) /\ Entries(u)' = Entries(u)
    BY <2>3 DEF Claimed, Tokens, Goers, Entries, vars
  <2>5. \A c \in Goers(u) : Claims(c)' = Claims(c) /\ chatroom'[c] = chatroom[c]
                            /\ thread'[c] = thread[c]
    BY <2>1, <2>2 DEF vars
  <2> QED BY <1>4, <2>4, <2>5 DEF Covered, Goers, vars
<1> QED BY <1>3, <1>4 DEF SInv, OnlyName

LEMMA StepSessions == SInv /\ [Next /\ SamePasswords]_vars => SInv'
PROOF
<1> SUFFICES ASSUME SInv, [Next /\ SamePasswords]_vars PROVE SInv'
  OBVIOUS
<1>1. CASE UNCHANGED vars
  BY <1>1, NothingHappens
<1>2. CASE Next /\ SamePasswords
  <2>1. PICK c \in Clients : Client(c) \/ Start(c) \/ Thread(c)
    BY <1>2 DEF Next
  <2>2. AInv
    BY DEF SInv
  <2>3. Mangled \notin Users
    BY ChatAssumption
  <2>4. AInv'
    BY <2>1, <2>2, ClientOwn, StartOwn, ThreadOwn
  <2>5. ASSUME NEW u \in Users, OnlyName(u) PROVE Covered(u)'
    <3>1. Covered(u)
      BY <2>5 DEF SInv
    <3>2. CASE Client(c) \/ Start(c)
      BY <2>2, <2>4, <3>1, <3>2, ClientCover
    <3>3. CASE Thread(c)
      BY <1>2, <2>2, <2>3, <2>4, <2>5, <3>1, <3>3, ThreadOwn, ThreadCover
    <3> QED BY <2>1, <3>2, <3>3
  <2> QED BY <2>4, <2>5 DEF SInv, OnlyName
<1> QED BY <1>1, <1>2

LEMMA CoveredActive == SInv => SessionsActive
PROOF
<1> SUFFICES ASSUME SInv, NEW u \in Users, OnlyName(u)
             PROVE  Cardinality({c \in Clients : LoggedIn(c) /\ username[c] = u})
                      <= Cardinality({k \in DOMAIN user_active : user_active[k] = u})
  BY DEF SessionsActive
<1>1. AInv /\ Covered(u)
  BY DEF SInv
<1>2. PICK L, T : L = {c \in Clients : LoggedIn(c) /\ username[c] = u} /\ T = Claimed(u)
  OBVIOUS
<1>3. PICK e : e = Cardinality(Entries(u))
  OBVIOUS
<1>4. IsFiniteSet(T) /\ Cardinality(T) <= e
  BY <1>1, <1>2, <1>3 DEF Covered
<1>5. e \in Nat
  BY <1>1, <1>3, PartFinite DEF AInv, Entries
<1>6. ASSUME NEW c \in L PROVE <<c, 1>> \in T
  <2>1. c \in Clients /\ LoggedIn(c) /\ username[c] = u
    BY <1>2, <1>6
  <2>2. c \in Goers(u)
    BY <1>1, <2>1 DEF AInv, Own, Goers
  <2>3. PICK n : n = Claims(c)
    OBVIOUS
  <2>4. 1 \in 1 .. n
    <3>1. PICK l, t, m : l = Leaving(c) /\ t = Late(c) /\ m = Matching(c)
      OBVIOUS
    <3>2. l \in Nat /\ t \in Nat /\ m \in Nat
      BY <1>1, <2>1, <3>1, ClaimNumbers
    <3>3. n = 1 + l + t + m
      BY <2>1, <2>3, <3>1 DEF Claims, Here
    <3> QED BY <3>2, <3>3
  <2>5. PICK S, f : S = Goers(u) /\ f = [d \in S |-> Claims(d)]
    OBVIOUS
  <2>6. c \in S /\ f[c] = n
    BY <2>2, <2>3, <2>5
  <2>7. <<c, 1>> \in S \X Nat /\ <<c, 1>>[1] = c /\ <<c, 1>>[2] = 1
    BY <2>6
  <2>8. <<c, 1>> \in Tokens(S, f)
    BY <2>4, <2>6, <2>7 DEF Tokens
  <2> QED BY <1>2, <2>5, <2>8 DEF Claimed
<1>7. PICK g : g = [c \in L |-> <<c, 1>>]
  OBVIOUS
<1>8. g \in Injection(L, T)
  <2>1. g \in [L -> T]
    BY <1>6, <1>7
  <2>2. \A c, d \in L : g[c] = g[d] => c = d
    BY <1>7
  <2> QED BY <2>1, <2>2 DEF Injection, IsInjective
<1>9. IsFiniteSet(L) /\ Cardinality(L) <= Cardinality(T)
  BY <1>4, <1>8, FS_Injection
<1>10. Cardinality(L) \in Nat /\ Cardinality(T) \in Nat
  BY <1>4, <1>9, FS_CardinalityType
<1>11. Cardinality(L) <= e
  BY <1>4, <1>5, <1>9, <1>10
<1> QED BY <1>2, <1>3, <1>11 DEF Entries

\* SessionsActive: while passwords stay, no logout (server.py:35-36) takes away the
\* entry of another client that is logged in (client.py:136-162), whatever answers
\* arrive late, whoever leaves without a logout, and whatever requests are read as
\* one; of names that are the only one of whoever uses them.
THEOREM SessionsKept == Spec /\ PasswordsKept => []SessionsActive
PROOF
<1>1. Init => SInv
  BY InitOwn, InitCover DEF SInv
<1>2. SInv /\ [Next]_vars /\ [SamePasswords]_vars => SInv'
  BY StepSessions
<1> QED BY <1>1, <1>2, CoveredActive, PTL DEF Spec, PasswordsKept
=============================================================================
