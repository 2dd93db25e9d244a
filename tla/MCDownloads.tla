---------------------------- MODULE MCDownloads -----------------------------
(* Two chats whose requests are for one track, of one of five kinds.  The     *)
(* chats are alike: c1 asks first, then c2.  To keep the runs short, only c1  *)
(* is stopped, between two sweeps, and not when the track is Spotify's.       *)
EXTENDS Downloads, TLC

CONSTANTS v, y, s, m, u, c1, c2, MaxTroubles

VARIABLE wanted

MCKind == (v :> "cdn") @@ (y :> "ytdlp") @@ (s :> "spotify") @@ (m :> "music")
          @@ (u :> "unswept")

\* os.ReadDir and WalkDir give the files of a track in this order.
Rank == [encrypted |-> 1, final |-> 2, part |-> 3, decrypted |-> 4, ytdlp |-> 5]

MCInit == Init /\ wanted \in Tracks
MCNext ==
  /\ Next /\ UNCHANGED wanted
  /\ \A c \in Chats : job'[c].track \in {None, wanted}
  /\ requests' > requests => job'[IF requests = 0 THEN c1 ELSE c2] # Idle
  /\ \A c \in queued \ queued' : job'[c] = Idle \/ (c = c1 /\ sweep.pc = "idle" /\ wanted # s)
  /\ \A n \in sweep.todo \ sweep'.todo, k \in sweep'.todo : Rank[n[2]] < Rank[k[2]]
  /\ faults' + urgents' + restarts' <= MaxTroubles
MCSpec == MCInit /\ [][MCNext]_<<vars, wanted>> /\ Fairness
=============================================================================
