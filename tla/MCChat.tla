-------------------------------- MODULE MCChat --------------------------------
(* Small inputs for Chat.                                                  *)
EXTENDS Chat

\* Any name at any client.
AnyName == [c \in Clients |-> Users]

\* What earlier clients left on the server.
UserKnown == [u \in Users |-> CHOOSE p \in Passwords : TRUE]
NobodyKnown == << >>
NoRooms == << >>
OneRoom == <<CHOOSE r \in RoomNames : TRUE>>
=============================================================================
