----------------------------- MODULE Downloads ------------------------------
(***************************************************************************)
(* The files of downloaded tracks: the handlers that fetch a track, write  *)
(* its file and play it, and the cleanup goroutine that sweeps what no     *)
(* queue uses.  They share nothing but the disk.                           *)
(*                                                                         *)
(* A track is a file of a CDN (downloadFileWithTimeout, with yt-dlp when   *)
(* all attempts fail), of yt-dlp alone (no ArcMusic configured), of        *)
(* Spotify (processSpotify) or of Telegram, where TDLib puts it into one   *)
(* of its directories; what is neither in a directory the sweep walks nor  *)
(* of an extension it removes there is "unswept".                          *)
(* A chat has one track, the current one: the tracks behind it have no     *)
(* FilePath until they are played.  What a file holds is whether it is     *)
(* whole.                                                                  *)
(***************************************************************************)
EXTENDS Integers, FiniteSets

CONSTANTS
  Chats,        \* each with the handler that plays for it
  Tracks,
  Kind,         \* Kind[t], one of Kinds
  Absent,       \* no file of the name
  None,
  Cycles,       \* arcDownloadCycles
  MaxRequests,  \* bound: tracks asked for
  MaxFaults,    \* bound: requests, programs and removals that fail
  MaxUrgent,    \* bound: sweeps the disk watchdog begins
  MaxRestarts   \* bound: ends of the process

\* The directories of mediaCacheDirs; a track of Telegram has one for its kind,
\* when its extension is in the directory's list.
Directories == {"videos", "music", "documents"}
Kinds == {"cdn", "ytdlp", "spotify", "unswept"} \cup Directories

ASSUME DownloadsAssumption ==
  /\ Kind \in [Tracks -> Kinds]
  /\ None \notin Chats
  /\ None \notin Tracks \X {"final", "part", "ytdlp", "encrypted", "decrypted"}
  /\ Absent \notin [whole : BOOLEAN, old : BOOLEAN, by : {None} \cup Chats]
  /\ Cycles \in Nat \ {0}
  /\ {MaxRequests, MaxFaults, MaxUrgent, MaxRestarts} \subseteq Nat

Extensions ==
  [kind \in Kinds |-> CASE kind = "cdn" -> {"final", "part", "ytdlp"}
                        [] kind = "ytdlp" -> {"ytdlp"}
                        [] kind = "spotify" -> {"final", "encrypted", "decrypted"}
                        [] OTHER -> {"final"}]

Names == UNION {{t} \X Extensions[Kind[t]] : t \in Tracks}

\* What the walk of TDLib's directory dir may remove, and what the bot's own
\* directory holds.
Media(dir) == {n \in Names : Kind[n[1]] = dir}
\* Those it walks: without a track of ours it has nothing to remove.
Walked == {Kind[t] : t \in Tracks} \cap Directories
Loose == {n \in Names : Kind[n[1]] \in {"cdn", "ytdlp", "spotify"}}

VARIABLES
  disk,      \* disk[n]: Absent, or whether the file is whole, whether it is
             \* older than cleanupMaxAge, and who is writing it
  job,       \* job[c]: where c's handler is, with the track, the cycle and
             \* the file it has
  queued,    \* the chats that have their track in their queue
  path,      \* path[c]: the FilePath of c's track
  sweep,     \* where runCleanup is: the paths in use it collected, TDLib's
             \* directories still to walk, the files still to look at, and the
             \* one it has looked at and is about to remove
  requests, faults, urgents, restarts,
  missed,    \* history: chats whose track had no FilePath when a sweep
             \* collected the paths in use
  raced,     \* history: tracks fetched by two handlers at once
  killed,    \* history: tracks whose ffmpeg or yt-dlp was killed, or ended
             \* with the process
  snatched   \* history: tracks with a scratch file that was written anew
             \* after the sweep had looked at it and before it removed it

past == <<missed, raced, killed, snatched>>
vars == <<disk, job, queued, path, sweep, requests, faults, urgents, restarts, past>>

Idle == [pc |-> "idle", track |-> None, cycle |-> 0, out |-> None]
Resting == [pc |-> "idle", urgent |-> FALSE, inUse |-> {}, dirs |-> {}, todo |-> {},
            doomed |-> None]

At(c, pc) == job[c].pc = pc
On(n) == disk[n] # Absent
Whole(n) == On(n) /\ disk[n].whole
InUse == {path[c] : c \in {d \in queued : path[d] # None}}
Fetching(c) == job[c].pc \notin {"idle", "ready", "open", "playing"}

File(c, ext) == <<job[c].track, ext>>
Go(c, pc) == job' = [job EXCEPT ![c].pc = pc]

Init ==
  /\ disk = [n \in Names |-> Absent]
  /\ job = [c \in Chats |-> Idle]
  /\ queued = {}
  /\ path = [c \in Chats |-> None]
  /\ sweep = Resting
  /\ requests = 0 /\ faults = 0 /\ urgents = 0 /\ restarts = 0
  /\ missed = {} /\ raced = {} /\ killed = {} /\ snatched = {}

Fault == faults < MaxFaults /\ faults' = faults + 1
NoFault == UNCHANGED faults
-----------------------------------------------------------------------------
(* Files. *)

\* os.Create: a new file, or the old one cut to nothing.
Created(n, c) == [disk EXCEPT ![n] = [whole |-> FALSE, old |-> FALSE, by |-> c]]

\* What c writes is complete, under whatever name the file has now; if
\* another handler has cut the file since, it is that one that completes it.
Completed(c, good) ==
  [n \in Names |->
     IF On(n) /\ disk[n].by = c
     THEN [disk[n] EXCEPT !.whole = good, !.by = None] ELSE disk[n]]

\* c stops writing.
Abandoned(c) ==
  [n \in Names |-> IF On(n) /\ disk[n].by = c THEN [disk[n] EXCEPT !.by = None] ELSE disk[n]]

\* os.WriteFile.
Written(n, good) == [disk EXCEPT ![n] = [whole |-> good, old |-> FALSE, by |-> None]]

Removed(names) == [n \in Names |-> IF n \in names THEN Absent ELSE disk[n]]

Snatches(n) == snatched' = IF n = sweep.doomed THEN snatched \cup {n[1]} ELSE snatched

Playback == <<queued, path, missed>>
Spoils == <<raced, killed, snatched>>
Sweeping == <<sweep, requests, urgents, restarts>>
-----------------------------------------------------------------------------
(* A handler fetches a track. *)

\* The track is queued without a FilePath, and its download begins.
Request(c, t) ==
  /\ At(c, "idle") /\ requests < MaxRequests
  /\ requests' = requests + 1
  /\ queued' = queued \cup {c}
  /\ path' = [path EXCEPT ![c] = None]
  /\ job' = [job EXCEPT ![c] = [pc |-> CASE Kind[t] = "cdn" -> "resolve"
                                         [] Kind[t] = "ytdlp" -> "ytdlp"
                                         [] Kind[t] = "spotify" -> "stat"
                                         [] OTHER -> "native",
                                track |-> t, cycle |-> 1, out |-> None]]
  /\ missed' = IF sweep.pc = "idle" THEN missed \ {c} ELSE missed \cup {c}
  /\ raced' = IF \E d \in Chats : Fetching(d) /\ job[d].track = t
              THEN raced \cup {t} ELSE raced
  /\ UNCHANGED <<disk, sweep, faults, urgents, restarts, killed, snatched>>

\* The download has the file n.
Ready(c, n) == job' = [job EXCEPT ![c].pc = "ready", ![c].out = n]

\* The download has failed: the track is taken off the queue.
Drop(c) ==
  /\ job' = [job EXCEPT ![c] = Idle]
  /\ queued' = queued \ {c}
  /\ path' = [path EXCEPT ![c] = None]
  /\ missed' = missed \ {c}

\* slip: one attempt more than there are.
NextCycleLate(c) ==
  job' = IF job[c].cycle <= Cycles
         THEN [job EXCEPT ![c].pc = "resolve", ![c].cycle = @ + 1]
         ELSE [job EXCEPT ![c].pc = "ytdlp"]

\* An attempt has failed: another one, and yt-dlp after the last.
NextCycle(c) ==
  job' = IF job[c].cycle < Cycles
         THEN [job EXCEPT ![c].pc = "resolve", ![c].cycle = @ + 1]
         ELSE [job EXCEPT ![c].pc = "ytdlp"]

Resolve(c) ==
  /\ At(c, "resolve")
  /\ \/ NoFault /\ Go(c, "stat")
     \/ Fault /\ NextCycle(c)
  /\ UNCHANGED <<disk, Playback, Sweeping, Spoils>>

\* A file that exists is not downloaded again.
StatFile(c) ==
  /\ At(c, "stat")
  /\ IF On(File(c, "final")) THEN Ready(c, File(c, "final"))
     ELSE Go(c, IF Kind[job[c].track] = "cdn" THEN "create" ELSE "encrypt")
  /\ UNCHANGED <<disk, Playback, Sweeping, faults, Spoils>>

\* slip: the body is written under the file's own name.
CreateInPlace(c) ==
  /\ At(c, "create")
  /\ disk' = Created(File(c, "final"), c)
  /\ Go(c, "copy")
  /\ UNCHANGED <<Playback, Sweeping, faults, Spoils>>

CreatePart(c) ==
  /\ At(c, "create")
  /\ disk' = Created(File(c, "part"), c)
  /\ Snatches(File(c, "part"))
  /\ Go(c, "copy")
  /\ UNCHANGED <<Playback, Sweeping, faults, raced, killed>>

\* The body arrives, or does not within the timeout: then the scratch file
\* stays.
CopyBody(c) ==
  /\ At(c, "copy")
  /\ \/ NoFault /\ disk' = Completed(c, TRUE) /\ Go(c, "rename")
     \/ Fault /\ disk' = Abandoned(c) /\ NextCycle(c)
  /\ UNCHANGED <<Playback, Sweeping, Spoils>>

\* The scratch file takes the file's place, if it is still there.
RenamePart(c) ==
  /\ At(c, "rename")
  /\ IF On(File(c, "part"))
     THEN /\ disk' = [disk EXCEPT ![File(c, "final")] = disk[File(c, "part")],
                                  ![File(c, "part")] = Absent]
          /\ Ready(c, File(c, "final"))
     ELSE NextCycle(c) /\ UNCHANGED disk
  /\ UNCHANGED <<Playback, Sweeping, faults, Spoils>>

\* yt-dlp writes in place (--no-part); a file of the name it takes for
\* downloaded or goes on with.
YtDlp(c) ==
  /\ At(c, "ytdlp")
  /\ \/ On(File(c, "ytdlp")) /\ Ready(c, File(c, "ytdlp")) /\ UNCHANGED disk
     \/ disk' = Created(File(c, "ytdlp"), c) /\ Go(c, "ytrun")
  /\ UNCHANGED <<Playback, Sweeping, faults, Spoils>>

\* It ends and its file is there, or it fails or is killed after two minutes.
YtDlpEnds(c) ==
  /\ At(c, "ytrun")
  /\ \/ /\ NoFault
        /\ disk' = Completed(c, TRUE)
        /\ IF On(File(c, "ytdlp")) THEN Ready(c, File(c, "ytdlp")) /\ UNCHANGED Playback
           ELSE Drop(c)
        /\ UNCHANGED killed
     \/ /\ Fault
        /\ disk' = Abandoned(c)
        /\ Drop(c)
        /\ killed' = killed \cup {job[c].track}
  /\ UNCHANGED <<Sweeping, raced, snatched>>

\* TDLib downloads to its own directory, under the name when it is whole.
Native(c) ==
  /\ At(c, "native")
  /\ \/ /\ NoFault
        /\ disk' = IF On(File(c, "final")) THEN disk ELSE Written(File(c, "final"), TRUE)
        /\ Ready(c, File(c, "final"))
        /\ UNCHANGED Playback
     \/ Fault /\ Drop(c) /\ UNCHANGED disk
  /\ UNCHANGED <<Sweeping, Spoils>>
-----------------------------------------------------------------------------
(* processSpotify, after its check for the file. *)

Encrypt(c) ==
  /\ At(c, "encrypt")
  /\ \/ /\ NoFault
        /\ disk' = Written(File(c, "encrypted"), TRUE)
        /\ Snatches(File(c, "encrypted"))
        /\ Go(c, "decrypt")
     \/ Fault /\ Go(c, "clean") /\ UNCHANGED <<disk, snatched>>
  /\ UNCHANGED <<Playback, Sweeping, raced, killed>>

Decrypt(c) ==
  /\ At(c, "decrypt")
  /\ IF On(File(c, "encrypted"))
     THEN /\ disk' = Written(File(c, "decrypted"), Whole(File(c, "encrypted")))
          /\ Snatches(File(c, "decrypted"))
          /\ Go(c, "ffmpeg")
     ELSE Go(c, "clean") /\ UNCHANGED <<disk, snatched>>
  /\ UNCHANGED <<Playback, Sweeping, faults, raced, killed>>

\* ffmpeg refuses when its input is gone or its output exists.
Ffmpeg(c) ==
  /\ At(c, "ffmpeg")
  /\ IF On(File(c, "decrypted")) /\ ~On(File(c, "final"))
     THEN disk' = Created(File(c, "final"), c) /\ Go(c, "convert")
     ELSE Go(c, "clean") /\ UNCHANGED disk
  /\ UNCHANGED <<Playback, Sweeping, faults, Spoils>>

\* It ends, or is killed after twenty seconds and leaves what it wrote.
FfmpegEnds(c) ==
  /\ At(c, "convert")
  /\ \/ /\ NoFault
        /\ disk' = Completed(c, TRUE)
        /\ job' = [job EXCEPT ![c].pc = "clean", ![c].out = File(c, "final")]
        /\ UNCHANGED killed
     \/ /\ Fault
        /\ disk' = Abandoned(c)
        /\ Go(c, "clean")
        /\ killed' = killed \cup {job[c].track}
  /\ UNCHANGED <<Playback, Sweeping, raced, snatched>>

\* The deferred removal of the scratch files, whatever the outcome.
CleanScratch(c) ==
  /\ At(c, "clean")
  /\ disk' = Removed({File(c, "encrypted"), File(c, "decrypted")})
  /\ IF job[c].out = None THEN Drop(c) ELSE Go(c, "ready") /\ UNCHANGED Playback
  /\ UNCHANGED <<Sweeping, faults, Spoils>>
-----------------------------------------------------------------------------
(* The track is played. *)

SetPath(c) ==
  /\ At(c, "ready")
  /\ path' = [path EXCEPT ![c] = job[c].out]
  /\ Go(c, "open")
  /\ UNCHANGED <<disk, queued, missed, Sweeping, faults, Spoils>>

\* PlayMedia opens the file; if it is gone the request takes the track off
\* the queue.
Open(c) ==
  /\ At(c, "open")
  /\ IF On(path[c]) THEN Go(c, "playing") /\ UNCHANGED Playback ELSE Drop(c)
  /\ UNCHANGED <<disk, Sweeping, faults, Spoils>>

\* A loop plays the track again, a seek plays it from another place: both
\* open the file again.
Reopen(c) ==
  /\ At(c, "playing") /\ c \in queued
  /\ Go(c, "open")
  /\ UNCHANGED <<disk, Playback, Sweeping, faults, Spoils>>

\* The track ends or is skipped.
End(c) ==
  /\ At(c, "playing")
  /\ Drop(c)
  /\ UNCHANGED <<disk, Sweeping, faults, Spoils>>

\* /stop clears the queue; a download goes on.
Stop(c) ==
  /\ c \in queued /\ ~At(c, "playing")
  /\ queued' = queued \ {c}
  /\ UNCHANGED <<disk, job, path, missed, Sweeping, faults, Spoils>>
-----------------------------------------------------------------------------
(* The cleanup goroutine. *)

Handlers == <<job, queued, path, requests, restarts, Spoils>>

\* slip: the sweep protects the tracks whose handler is done only.
BeginSweepPlaying(urgent) ==
  /\ sweep.pc = "idle"
  /\ urgent => urgents < MaxUrgent
  /\ sweep' = [Resting EXCEPT !.pc = "media", !.urgent = urgent, !.dirs = Walked,
                              !.inUse = {path[c] : c \in {d \in queued : At(d, "playing")}}]
  /\ missed' = missed \cup {c \in Chats : ~At(c, "idle") /\ ~(c \in queued /\ path[c] # None)}
  /\ urgents' = IF urgent THEN urgents + 1 ELSE urgents
  /\ UNCHANGED <<disk, faults, Handlers>>

\* activeFilePaths: at the start and every cleanupInterval, or urgently when
\* the watchdog finds the disk full.
BeginSweep(urgent) ==
  /\ sweep.pc = "idle"
  /\ urgent => urgents < MaxUrgent
  /\ sweep' = [Resting EXCEPT !.pc = "media", !.urgent = urgent, !.dirs = Walked,
                              !.inUse = InUse]
  /\ missed' = missed \cup {c \in Chats : ~At(c, "idle") /\ ~(c \in queued /\ path[c] # None)}
  /\ urgents' = IF urgent THEN urgents + 1 ELSE urgents
  /\ UNCHANGED <<disk, faults, Handlers>>

\* The files listed before are dealt with.
Listed(pc) == sweep.pc = pc /\ sweep.todo = {} /\ sweep.doomed = None

\* The walk of one of TDLib's directories, in the order of a Go map: it passes
\* over the paths in use and the extensions that are not allowed.
ListMedia(dir) ==
  /\ Listed("media") /\ dir \in sweep.dirs
  /\ sweep' = [sweep EXCEPT !.dirs = @ \ {dir},
                           !.todo = {n \in Media(dir) : On(n)} \ sweep.inUse]
  /\ UNCHANGED <<disk, faults, urgents, missed, Handlers>>

\* slip: finished downloads only are looked at.
ListFinished ==
  /\ Listed("media") /\ sweep.dirs = {}
  /\ sweep' = [sweep EXCEPT !.pc = "downloads",
                           !.todo = {n \in Loose : On(n) /\ n[2] = "final"} \ sweep.inUse]
  /\ UNCHANGED <<disk, faults, urgents, missed, Handlers>>

\* cleanupDownloads lists the bot's directory after TDLib's are swept, with
\* the same paths in use.  It passes over names that begin with a dot, which a
\* download has only from a service that calls it so: none is modelled.
ListDownloads ==
  /\ Listed("media") /\ sweep.dirs = {}
  /\ sweep' = [sweep EXCEPT !.pc = "downloads",
                           !.todo = {n \in Loose : On(n)} \ sweep.inUse]
  /\ UNCHANGED <<disk, faults, urgents, missed, Handlers>>

\* slip: the age is not looked at.
SparesNone(n) == FALSE

\* Unless the disk is full, a file that is young or gone is let be.
Spares(n) == ~sweep.urgent /\ ~(On(n) /\ disk[n].old)

\* The look at the next file.
Visit(n) ==
  /\ n \in sweep.todo /\ sweep.doomed = None
  /\ sweep' = [sweep EXCEPT !.todo = @ \ {n}, !.doomed = IF Spares(n) THEN None ELSE n]
  /\ UNCHANGED <<disk, faults, urgents, missed, Handlers>>

\* os.Remove, by the name: whatever stands under it by now.
Remove ==
  /\ sweep.doomed # None
  /\ sweep' = [sweep EXCEPT !.doomed = None]
  /\ \/ NoFault /\ disk' = Removed({sweep.doomed})
     \/ Fault /\ UNCHANGED disk
  /\ UNCHANGED <<urgents, missed, Handlers>>

EndSweep ==
  /\ Listed("downloads")
  /\ sweep' = Resting
  /\ UNCHANGED <<disk, faults, urgents, missed, Handlers>>

\* A handler has written the scratch file n and is about to read it.
Needed(n) ==
  \E c \in Chats :
    /\ job[c].track = n[1]
    /\ <<n[2], job[c].pc>> \in {<<"part", "rename">>, <<"encrypted", "decrypt">>,
                               <<"decrypted", "ffmpeg">>, <<"decrypted", "convert">>}

\* A file grows older than cleanupMaxAge, hours after it was written: a
\* download, which its timeouts end within minutes, is over by then.  Each half
\* of a sweep compares with a time it takes first; what passes the limit between
\* the two, minutes later, counts as old before the sweep.
Age(n) ==
  /\ sweep.pc = "idle"
  /\ On(n) /\ ~disk[n].old /\ disk[n].by = None /\ ~Needed(n)
  /\ disk' = [disk EXCEPT ![n].old = TRUE]
  /\ UNCHANGED <<sweep, faults, urgents, missed, Handlers>>

\* The process ends and starts again: the queues are gone, the files stay.
Restart ==
  /\ restarts < MaxRestarts
  /\ restarts' = restarts + 1
  /\ killed' = killed \cup {job[c].track : c \in {d \in Chats : job[d].pc \in {"convert", "ytrun"}}}
  /\ disk' = [n \in Names |-> IF On(n) THEN [disk[n] EXCEPT !.by = None] ELSE Absent]
  /\ job' = [c \in Chats |-> Idle]
  /\ queued' = {}
  /\ path' = [c \in Chats |-> None]
  /\ sweep' = Resting
  /\ missed' = {}
  /\ UNCHANGED <<requests, faults, urgents, raced, snatched>>

Handler(c) ==
  \/ Resolve(c) \/ StatFile(c) \/ CreatePart(c) \/ CopyBody(c) \/ RenamePart(c)
  \/ YtDlp(c) \/ YtDlpEnds(c) \/ Native(c)
  \/ Encrypt(c) \/ Decrypt(c) \/ Ffmpeg(c) \/ FfmpegEnds(c) \/ CleanScratch(c)
  \/ SetPath(c) \/ Open(c)

Sweeper ==
  \/ \E dir \in Directories : ListMedia(dir)
  \/ (\E n \in Names : Visit(n)) \/ Remove \/ ListDownloads \/ EndSweep

Next ==
  \/ \E c \in Chats : (\E t \in Tracks : Request(c, t)) \/ Handler(c)
                      \/ Reopen(c) \/ End(c) \/ Stop(c)
  \/ \E urgent \in BOOLEAN : BeginSweep(urgent)
  \/ Sweeper
  \/ \E n \in Names : Age(n)
  \/ Restart

\* Downloads and programs have timeouts, the tickers go on, and hours pass
\* between the sweeps.
Fairness ==
  /\ \A c \in Chats : WF_vars(Handler(c))
  /\ WF_vars(Sweeper)
  /\ WF_vars(BeginSweep(FALSE))
  /\ SF_vars(\E n \in Names : Age(n))

Spec == Init /\ [][Next]_vars /\ Fairness
-----------------------------------------------------------------------------
Stages ==
  {"idle", "resolve", "stat", "create", "copy", "rename", "ytdlp", "ytrun", "native",
   "encrypt", "decrypt", "ffmpeg", "convert", "clean", "ready", "open", "playing"}

TypeOK ==
  /\ \A n \in Names : \/ disk[n] = Absent
                      \/ disk[n] \in [whole : BOOLEAN, old : BOOLEAN, by : {None} \cup Chats]
  /\ job \in [Chats -> [pc : Stages, track : {None} \cup Tracks, cycle : 0 .. Cycles,
                        out : {None} \cup Names]]
  /\ queued \subseteq Chats
  /\ path \in [Chats -> {None} \cup Names]
  /\ sweep \in [pc : {"idle", "media", "downloads"}, urgent : BOOLEAN,
                inUse : SUBSET Names, dirs : SUBSET Directories, todo : SUBSET Names,
                doomed : {None} \cup Names]
  /\ requests \in 0 .. MaxRequests /\ faults \in 0 .. MaxFaults
  /\ urgents \in 0 .. MaxUrgent /\ restarts \in 0 .. MaxRestarts
  /\ missed \subseteq Chats
  /\ raced \subseteq Tracks /\ killed \subseteq Tracks /\ snatched \subseteq Tracks

\* A queued track's file is gone only when a sweep had collected the paths in
\* use before the track got its path: every path in a queue when the sweep
\* begins is spared by all of it, in both directories (cleanup.go:138-142).
MissingForAReason ==
  \A c \in queued : (path[c] # None /\ ~On(path[c])) => c \in missed

\* A file of this name was renamed to it.
Renamed(n) == n[2] = "final" /\ Kind[n[1]] = "cdn"

\* A truncated file that nobody is writing any more stands under a name that
\* later requests take for downloaded only when ffmpeg or yt-dlp was killed on
\* it or ended with the process; under the name of a CDN's file it stands, even
\* while it is written, only when two handlers fetched the track at once: one
\* download alone shows that file when it is whole (http_client.go:206-227,
\* spotify_dl.go:183-191; yt-dlp has --no-part, youtube.go:194-195).
PartialForAReason ==
  \A n \in Names : (n[2] \in {"final", "ytdlp"} /\ On(n) /\ ~disk[n].whole) =>
    IF Renamed(n) THEN n[1] \in raced ELSE disk[n].by # None \/ n[1] \in killed

\* The handler's download goes wrong in this step.
Stumbles(c) ==
  \/ job'[c].cycle > job[c].cycle /\ ~At(c, "idle")
  \/ job'[c].pc = "ytdlp" /\ ~At(c, "ytdlp") /\ ~At(c, "idle")
  \/ job'[c].pc = "clean" /\ job'[c].out = None /\ ~At(c, "clean")

\* The routine sweep takes no scratch file from under a running download:
\* with no urgent sweep, no other download of the track and no failure, none
\* stumbles, but for one that wrote the file anew after the sweep had found
\* the one before it to be old and before it removed it (cleanup.go:202-211,
\* 280-289).
RoutineIsGentle ==
  [][\A c \in Chats :
       Stumbles(c) => \/ faults' > faults \/ urgents > 0
                      \/ job[c].track \in raced \cup snatched]_vars

\* Every file in the bot's directory and in the ones of TDLib it may clean,
\* scratch files and those a dead process left too, is at some time in use or
\* removed.  What a chat plays from TDLib's other directories (voice notes,
\* video notes) or with another extension there (.mkv in videos, .mp4 in
\* documents) is never removed, nor are dotfiles (cleanup.go:45-101, 192,
\* 231-240, 268-271).
UnusedIsRemoved ==
  \A ext \in UNION {Extensions[Kind[t]] : t \in Tracks} :
    []<>(\A n \in Names :
           (n[2] = ext /\ Kind[n[1]] # "unswept" /\ On(n)) => n \in InUse)

\* "these paths must never be swept regardless of age or how urgently disk
\* space is needed" (cleanup.go:149-150): no sweep removes the file of a track
\* that is in a queue.
NeverSwept ==
  [][\A n \in InUse : (On(n) /\ sweep' # sweep) => disk'[n] # Absent]_vars
=============================================================================
