---------------------------- MODULE MCCommands ------------------------------
(***************************************************************************)
(* Broadcast, to one chat and one user by two handlers, and Playlist, of   *)
(* two users and two handlers.  Neither reads what the other writes, so    *)
(* that a behaviour of both is one of each, shuffled: the first state      *)
(* chooses which of the two goes on.                                       *)
(***************************************************************************)
EXTENDS Broadcast

CONSTANTS Owners, Playlists, Tracks, None, PlaylistLimit, Clients, MaxRequests

\* playlistLimit is 10, and the handlers that run at one time are some number.
ASSUME PlaylistAssumption ==
  /\ PlaylistLimit \in Nat \ {0} /\ MaxRequests \in Nat
  /\ IsFiniteSet(Clients)

VARIABLES playlists, used, place, job, requests, doubled, part

P == INSTANCE Playlist WITH Users <- Owners

listVars == <<playlists, used, place, job, requests, doubled>>

MCInit ==
  /\ Init /\ P!Init
  /\ part \in {"broadcast", "playlist"}
  /\ part = "playlist" => flagged = {}

MCNext ==
  \/ part = "broadcast" /\ Next /\ UNCHANGED <<listVars, part>>
  \/ part = "playlist" /\ P!Next /\ UNCHANGED <<vars, part>>

MCSpec == MCInit /\ [][MCNext]_<<vars, listVars, part>>

\* The types of broadcasts, playlists and the handlers of their commands
\* (broadcast.go:23-26, db/playlist.go:18-36).
TypesOK == TypeOK /\ P!TypeOK

\* A track is in a playlist twice for a reason only (db/playlist.go:83-131).
OnceForAReason == P!OnceForAReason

\* The limit of playlists is exceeded by at most the handlers that run
\* together (bot/playlist.go:37, 48).
PlaylistsBounded == P!PlaylistsBounded

\* A playlist changes by its owner's commands only (bot/playlist.go:92, 147,
\* 240).
OnlyOwnersChange == P!OnlyOwnersChange
=============================================================================
