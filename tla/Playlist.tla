------------------------------ MODULE Playlist ------------------------------
(***************************************************************************)
(* The users' playlists: the commands of internal/bot/playlist.go, the     *)
(* button under a track (internal/bot/callbacks.go) and the requests of    *)
(* internal/db/playlist.go.  A handler reads, decides and writes in        *)
(* separate requests, and handlers interleave.  The songs of a playlist    *)
(* are a bag: how often each track is in it, whatever the order.  A new    *)
(* identifier is five random bytes: one that was in use before is not      *)
(* modelled.                                                               *)
(***************************************************************************)
EXTENDS Integers, FiniteSets

CONSTANTS
  Users, Playlists, Tracks,
  None,           \* no playlist
  PlaylistLimit,  \* 10
  Clients,        \* handlers at work at one time
  MaxRequests     \* bound: the commands of a behaviour

VARIABLES
  playlists,  \* the collection
  used,       \* the identifiers that have been given
  place, job, \* where each handler is and what it holds
  requests,
  doubled     \* <<p, t>>: two handlers have looked for t in p before either of
              \* them added it

vars == <<playlists, used, place, job, requests, doubled>>

NoSongs == [t \in Tracks |-> 0]

NoJob == [kind |-> "none", user |-> None, list |-> None, track |-> None,
          changed |-> FALSE]  \* somebody has changed the list since songExists
                              \* read it

Init ==
  /\ playlists = [p \in Playlists |-> None]
  /\ used = {}
  /\ place = [h \in Clients |-> "idle"]
  /\ job = [h \in Clients |-> NoJob]
  /\ requests = MaxRequests
  /\ doubled = {}

At(h, label) == place[h] = label
Goto(h, label) == place' = [place EXCEPT ![h] = label]
Return(h) == Goto(h, "idle") /\ job' = [job EXCEPT ![h] = NoJob]
Exists(p) == playlists[p] # None
Has(p, t) == Exists(p) /\ playlists[p].songs[t] > 0
Owned(u) == {p \in used : Exists(p) /\ playlists[p].owner = u}

\* The list of h has changed, and h goes on with the job j.
Changed(h, j) ==
  job' = [g \in Clients |->
            IF g = h THEN j
            ELSE IF At(g, "push") /\ job[g].list = job[h].list
            THEN [job[g] EXCEPT !.changed = TRUE] ELSE job[g]]

Begin(h, j, label) ==
  /\ At(h, "idle") /\ requests > 0 /\ requests' = requests - 1
  /\ job' = [job EXCEPT ![h] = j]
  /\ Goto(h, label)
  /\ UNCHANGED <<playlists, used, doubled>>
-----------------------------------------------------------------------------
\* /createplaylist.
Create(h) == \E u \in Users : Begin(h, [NoJob EXCEPT !.kind = "create", !.user = u], "count")

\* /deleteplaylist, /addtoplaylist and /removefromplaylist, for an identifier
\* that somebody has seen.
Command(h) ==
  \E kind \in {"delete", "add", "remove"}, u \in Users, p \in used, t \in Tracks :
    Begin(h, [NoJob EXCEPT !.kind = kind, !.user = u, !.list = p,
                           !.track = IF kind = "add" THEN t ELSE None], "get")

\* The button under the track that is playing.
Button(h) ==
  \E u \in Users, t \in Tracks :
    Begin(h, [NoJob EXCEPT !.kind = "button", !.user = u, !.track = t], "count")

\* slip: a user who has reached the limit may create one more.
CountBeyond(h) ==
  LET j == job[h] IN
  /\ At(h, "count")
  /\ \/ /\ j.kind = "create" /\ Cardinality(Owned(j.user)) <= PlaylistLimit
        /\ Goto(h, "insert") /\ UNCHANGED job
     \/ j.kind = "create" /\ Return(h)
  /\ UNCHANGED <<playlists, used, requests, doubled>>

\* GetUserPlaylists, or its error.  The button takes the first playlist and
\* creates one only for a user who has none.
Count(h) ==
  LET j == job[h] IN
  /\ At(h, "count")
  /\ \/ /\ \/ j.kind = "create" /\ Cardinality(Owned(j.user)) < PlaylistLimit
           \/ j.kind = "button" /\ Owned(j.user) = {}
        /\ Goto(h, "insert") /\ UNCHANGED job
     \/ /\ j.kind = "button"
        /\ \E p \in Owned(j.user) : job' = [job EXCEPT ![h].list = p]
        /\ Goto(h, "exists")
     \/ Return(h)
  /\ UNCHANGED <<playlists, used, requests, doubled>>

\* CreatePlaylist: InsertOne of an empty list under a new identifier.
Insert(h) ==
  LET j == job[h] IN
  /\ At(h, "insert")
  /\ \/ /\ \E p \in Playlists \ used :
             /\ playlists' = [playlists EXCEPT ![p] = [owner |-> j.user, songs |-> NoSongs]]
             /\ used' = used \cup {p}
             /\ IF j.kind = "button"
                THEN job' = [job EXCEPT ![h].list = p] /\ Goto(h, "exists")
                ELSE Return(h)
     \/ Return(h) /\ UNCHANGED <<playlists, used>>
  /\ UNCHANGED <<requests, doubled>>

\* slip: whose playlist it is is not asked.
GetAnyones(h) ==
  LET j == job[h] IN
  /\ At(h, "get")
  /\ \/ /\ Exists(j.list)
        /\ j.kind # "remove"
        /\ Goto(h, IF j.kind = "delete" THEN "delete" ELSE "exists")
        /\ UNCHANGED job
     \/ Return(h)
  /\ UNCHANGED <<playlists, used, requests, doubled>>

\* GetPlaylist and the question of who owns it.  /addtoplaylist then asks the
\* platform for the track; /removefromplaylist finds the track by its number
\* or its address in the list that it has read.
Get(h) ==
  LET j == job[h] IN
  /\ At(h, "get")
  /\ \/ /\ Exists(j.list) /\ playlists[j.list].owner = j.user
        /\ \/ j.kind = "delete" /\ Goto(h, "delete") /\ UNCHANGED job
           \/ j.kind = "add" /\ Goto(h, "exists") /\ UNCHANGED job
           \/ /\ j.kind = "remove"
              /\ \E t \in Tracks : Has(j.list, t) /\ job' = [job EXCEPT ![h].track = t]
              /\ Goto(h, "exists")
     \/ Return(h)
  /\ UNCHANGED <<playlists, used, requests, doubled>>

\* DeletePlaylist: the filter has the identifier and the owner.
Delete(h) ==
  LET j == job[h] IN
  /\ At(h, "delete")
  /\ \/ /\ playlists' = [playlists EXCEPT ![j.list] =
             IF Exists(j.list) /\ @.owner = j.user THEN None ELSE @]
        /\ doubled' = {d \in doubled : d[1] # j.list}
        /\ Changed(h, NoJob)
     \/ UNCHANGED <<playlists, doubled>> /\ job' = [job EXCEPT ![h] = NoJob]
  /\ Goto(h, "idle")
  /\ UNCHANGED <<used, requests>>

\* slip: the list is not searched for the track.
SongExistsNever(h) ==
  /\ At(h, "exists")
  /\ Goto(h, IF job[h].kind = "remove" THEN "pull" ELSE "push")
  /\ UNCHANGED <<playlists, used, job, requests, doubled>>

\* songExists takes an error for no: the track is then added once more, or
\* not removed.
SongExists(h) ==
  LET j == job[h]
      adds == j.kind \in {"add", "button"} IN
  /\ At(h, "exists")
  /\ \/ /\ Has(j.list, j.track)
        /\ IF adds THEN Return(h) ELSE Goto(h, "pull") /\ UNCHANGED job
     \/ /\ ~ Has(j.list, j.track)
        /\ IF adds THEN Goto(h, "push") /\ UNCHANGED job ELSE Return(h)
     \/ /\ Has(j.list, j.track) /\ adds
        /\ Goto(h, "push")
        /\ job' = [job EXCEPT ![h].changed = TRUE]
  /\ UNCHANGED <<playlists, used, requests, doubled>>

\* $push: a list that is not there any more takes nothing, and this is no
\* error.
Push(h) ==
  LET j == job[h] IN
  /\ At(h, "push")
  /\ \/ /\ Exists(j.list)
        /\ playlists' = [playlists EXCEPT ![j.list].songs[j.track] = @ + 1]
        /\ doubled' = IF j.changed THEN doubled \cup {<<j.list, j.track>>} ELSE doubled
        /\ Changed(h, NoJob)
     \/ UNCHANGED <<playlists, doubled>> /\ job' = [job EXCEPT ![h] = NoJob]
  /\ Goto(h, "idle")
  /\ UNCHANGED <<used, requests>>

\* $pull takes every copy out.
Pull(h) ==
  LET j == job[h] IN
  /\ At(h, "pull")
  /\ \/ /\ Exists(j.list)
        /\ playlists' = [playlists EXCEPT ![j.list].songs[j.track] = 0]
        /\ doubled' = doubled \ {<<j.list, j.track>>}
        /\ Changed(h, NoJob)
     \/ UNCHANGED <<playlists, doubled>> /\ job' = [job EXCEPT ![h] = NoJob]
  /\ Goto(h, "idle")
  /\ UNCHANGED <<used, requests>>

Step(h) ==
  Count(h) \/ Insert(h) \/ Get(h) \/ Delete(h) \/ SongExists(h) \/ Push(h) \/ Pull(h)

Next == \E h \in Clients : Create(h) \/ Command(h) \/ Button(h) \/ Step(h)

Spec == Init /\ [][Next]_vars
-----------------------------------------------------------------------------
TypeOK ==
  /\ playlists \in [Playlists -> {None} \cup [owner : Users, songs : [Tracks -> Nat]]]
  /\ used \subseteq Playlists
  /\ \A p \in Playlists : Exists(p) => p \in used
  /\ place \in [Clients -> {"idle", "count", "insert", "get", "delete", "exists", "push", "pull"}]
  /\ job \in [Clients -> [kind : {"none", "create", "delete", "add", "remove", "button"},
                          user : {None} \cup Users, list : {None} \cup Playlists,
                          track : {None} \cup Tracks, changed : BOOLEAN]]
  /\ requests \in 0 .. MaxRequests
  /\ doubled \subseteq Playlists \X Tracks

\* A playlist has a track twice only if two handlers looked for it before
\* either of them added it, or the search failed; taking the track out takes
\* out both (db/playlist.go:83-131).
OnceForAReason ==
  \A p \in Playlists, t \in Tracks :
    (Exists(p) /\ playlists[p].songs[t] > 1) => <<p, t>> \in doubled

\* A user has at most as many playlists beyond the limit as there are other
\* handlers that have counted while one more was still allowed
\* (bot/playlist.go:37, 48).
PlaylistsBounded ==
  \A u \in Users : Cardinality(Owned(u)) < PlaylistLimit + Cardinality(Clients)

\* A playlist changes or goes only by a command or a button of its owner,
\* although the requests that change its songs do not ask for the owner
\* (bot/playlist.go:92, 147, 240, db/playlist.go:109, 131).
OnlyOwnersChange ==
  [][\A p \in Playlists :
       (Exists(p) /\ playlists'[p] # playlists[p])
         => \E h \in Clients : /\ place[h] \in {"delete", "push", "pull"}
                               /\ job[h].list = p /\ job[h].user = playlists[p].owner]_vars
=============================================================================
