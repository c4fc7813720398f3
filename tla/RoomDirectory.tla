--------------------------- MODULE RoomDirectory ---------------------------
(***************************************************************************)
(* What the Lobby promises about one room, with none of the reservations,  *)
(* retries and rollbacks by which it keeps the promise: the room is        *)
(* published once, one guest takes its second seat and keeps it, and a     *)
(* room that was closed stays closed.  Lobby.tla implements this.          *)
(***************************************************************************)
CONSTANTS Names,      \* display names a guest can have
          NoName      \* no guest is seated

VARIABLES phase,      \* "absent", "open", "full" or "closed"
          guest       \* the guest of a full room

directoryVars == <<phase, guest>>

DirectoryInit == phase = "absent" /\ guest = NoName

Publish == /\ phase = "absent"
           /\ phase' = "open"
           /\ UNCHANGED guest

Seat(n) == /\ phase = "open"
           /\ phase' = "full"
           /\ guest' = n

Close == /\ phase # "closed"
         /\ phase' = "closed"
         /\ guest' = NoName

DirectoryNext == Publish \/ (\E n \in Names : Seat(n)) \/ Close

DirectorySpec == DirectoryInit /\ [][DirectoryNext]_directoryVars
=============================================================================
