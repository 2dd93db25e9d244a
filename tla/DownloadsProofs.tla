-------------------------- MODULE DownloadsProofs --------------------------
(***************************************************************************)
(* That the sweep spares what the queues use, that truncated files are not *)
(* shown as downloads and that the routine sweep disturbs no download, for *)
(* every number of chats, tracks, cycles, requests, faults, urgent sweeps  *)
(* and restarts.                                                           *)
(*                                                                         *)
(* None of the three properties is inductive: DownloadsInv adds what a     *)
(* handler relies on at each of its places (SeenOK, ScratchOK, GentleOK),  *)
(* that two handlers of a track are known as such (Alone), and that the    *)
(* sweep has nothing on its list that was in use when it began (SweepOK).  *)
(* Each action of a handler is shown to be a step of that handler alone    *)
(* (Handled), after which the handler is where it should be (Well); that   *)
(* such a step disturbs no other chat is shown once (OthersStay).          *)
(***************************************************************************)
EXTENDS Downloads, TLAPS

\* What the disk holds under a name.
Files == [whole : BOOLEAN, old : BOOLEAN, by : {None} \cup Chats]

Jobs == [pc : Stages, track : {None} \cup Tracks, cycle : 0 .. Cycles, out : {None} \cup Names]

\* Where the sweep can be.
Sweeps == [pc : {"idle", "media", "downloads"}, urgent : BOOLEAN, inUse : SUBSET Names,
           dirs : SUBSET Directories, todo : SUBSET Names, doomed : {None} \cup Names]

\* The names under which a download shows its file.
Finals == {n \in Names : n[2] \in {"final", "ytdlp"}}

\* A handler is only where the kind of its track leads it, and has a file
\* when its download is over.
JobOK(c) ==
  /\ ~ At(c, "idle") => job[c].track \in Tracks
  /\ job[c].pc \in {"resolve", "create", "copy", "rename"} => Kind[job[c].track] = "cdn"
  /\ job[c].pc = "stat" => Kind[job[c].track] \in {"cdn", "spotify"}
  /\ job[c].pc \in {"ytdlp", "ytrun"} => Kind[job[c].track] \in {"cdn", "ytdlp"}
  /\ job[c].pc = "native" => Kind[job[c].track] \notin {"cdn", "ytdlp", "spotify"}
  /\ job[c].pc \in {"encrypt", "decrypt", "ffmpeg", "convert", "clean"} => Kind[job[c].track] = "spotify"
  /\ job[c].pc \in {"ready", "open", "playing"} => job[c].out \in Finals
  /\ job[c].pc = "clean" => job[c].out \in {None, <<job[c].track, "final">>}
  /\ job[c].pc \notin {"clean", "ready", "open", "playing"} => job[c].out = None

TypeInv ==
  /\ disk \in [Names -> Files \cup {Absent}]
  /\ job \in [Chats -> Jobs]
  /\ \A c \in Chats : JobOK(c)
  /\ queued \subseteq Chats
  /\ path \in [Chats -> {None} \cup Finals]
  /\ sweep \in Sweeps
  /\ requests \in 0 .. MaxRequests /\ faults \in 0 .. MaxFaults
  /\ urgents \in 0 .. MaxUrgent /\ restarts \in 0 .. MaxRestarts
  /\ missed \subseteq Chats
  /\ raced \subseteq Tracks /\ killed \subseteq Tracks /\ snatched \subseteq Tracks

\* The chat's track is in a queue, and every sweep since it was asked for saw
\* its path.
Seen(c) == c \in queued /\ c \notin missed

\* What a sweep has to do with the chat: a track that it did not see has no
\* path yet only while no sweep runs; what the handler of a track that was
\* seen relies on is there.
SeenOK(c) ==
  /\ job[c].pc \notin {"open", "playing"} => path[c] = None
  /\ At(c, "idle") => c \notin queued
  /\ c \notin missed /\ ~ At(c, "idle") /\ path[c] = None => sweep.pc = "idle"
  /\ Seen(c) /\ path[c] # None => /\ On(path[c])
                                  /\ sweep.pc # "idle" => path[c] \in sweep.inUse
  /\ Seen(c) /\ At(c, "convert") => On(File(c, "final"))
  /\ Seen(c) /\ job[c].pc \in {"clean", "ready"} /\ job[c].out # None => On(job[c].out)

SweepOK ==
  /\ sweep.todo \cap sweep.inUse = {}
  /\ sweep.doomed # None => sweep.doomed \notin sweep.inUse
  /\ sweep.pc = "idle" => sweep.todo = {} /\ sweep.doomed = None
  /\ sweep.urgent => urgents > 0

\* The files a handler is writing are its track's, and as long as it alone
\* fetches the track its scratch file is as it left it.
ScratchOK(c) ==
  /\ \A n \in Names : (On(n) /\ disk[n].by = c) =>
       /\ job[c].pc \in {"copy", "ytrun", "convert"} /\ n[1] = job[c].track
       /\ n[2] = "ytdlp" => job[c].pc = "ytrun"
  /\ job[c].track \notin raced =>
       /\ At(c, "copy") /\ On(File(c, "part")) => disk[File(c, "part")].by = c
       /\ At(c, "rename") /\ On(File(c, "part")) => disk[File(c, "part")].whole

\* The file is there, too young for the routine sweep and not one that the
\* sweep has looked at already.
Safe(n) == On(n) /\ ~ disk[n].old /\ sweep.doomed # n

\* With no urgent sweep, and none that had looked at them before they were
\* written anew, all of them are safe.
GentleOK(c) ==
  job[c].track \notin raced \cup snatched /\ urgents = 0 =>
    /\ job[c].pc \in {"copy", "rename"} => Safe(File(c, "part"))
    /\ At(c, "decrypt") => Safe(File(c, "encrypted"))
    /\ At(c, "ffmpeg") => Safe(File(c, "decrypted"))
    /\ job[c].pc \in {"encrypt", "decrypt", "ffmpeg"} => ~ On(File(c, "final"))

Alone ==
  \A c, d \in Chats : (c # d /\ Fetching(c) /\ Fetching(d) /\ job[c].track = job[d].track)
                        => job[c].track \in raced

Shown(n) ==
  (n \in Finals /\ On(n) /\ ~ disk[n].whole) =>
    IF Renamed(n) THEN n[1] \in raced ELSE disk[n].by # None \/ n[1] \in killed

DownloadsInv ==
  /\ TypeInv
  /\ SweepOK /\ Alone
  /\ \A c \in Chats : SeenOK(c) /\ ScratchOK(c) /\ GentleOK(c)
  /\ \A n \in Names : Shown(n)
-----------------------------------------------------------------------------
(* Names, files and jobs. *)

\* What the names of the files are.
LEMMA NamesAre ==
  /\ \A t \in Tracks : \A e \in Extensions[Kind[t]] : <<t, e>> \in Names
  /\ \A n \in Names : n[1] \in Tracks /\ n[2] \in Extensions[Kind[n[1]]] /\ n = <<n[1], n[2]>>
  BY DEF Names

\* The files of a track of each kind.
LEMMA KindNames ==
  ASSUME NEW t \in Tracks
  PROVE  /\ Kind[t] = "cdn" => {<<t, "final">>, <<t, "part">>, <<t, "ytdlp">>} \subseteq Names
         /\ Kind[t] = "ytdlp" => <<t, "ytdlp">> \in Names
         /\ Kind[t] = "spotify" => {<<t, "final">>, <<t, "encrypted">>, <<t, "decrypted">>} \subseteq Names
         /\ Kind[t] \notin {"cdn", "ytdlp", "spotify"} => <<t, "final">> \in Names
<1>1. /\ Extensions["cdn"] = {"final", "part", "ytdlp"} /\ Extensions["ytdlp"] = {"ytdlp"}
      /\ Extensions["spotify"] = {"final", "encrypted", "decrypted"}
      /\ \A k \in Kinds \ {"cdn", "ytdlp", "spotify"} : Extensions[k] = {"final"}
  BY DEF Extensions, Kinds
<1>2. \A e \in Extensions[Kind[t]] : <<t, e>> \in Names
  BY NamesAre
<1>3. CASE Kind[t] = "cdn"
  BY <1>1, <1>2, <1>3
<1>4. CASE Kind[t] = "ytdlp"
  BY <1>1, <1>2, <1>4
<1>5. CASE Kind[t] = "spotify"
  BY <1>1, <1>2, <1>5
<1>6. CASE Kind[t] \notin {"cdn", "ytdlp", "spotify"}
  BY <1>1, <1>2, <1>6, DownloadsAssumption
<1> QED
  BY <1>3, <1>4, <1>5, <1>6

\* No name is None.
LEMMA NoneIsNoName == None \notin Names
<1>1. \A k \in Kinds : Extensions[k] \subseteq {"final", "part", "ytdlp", "encrypted", "decrypted"}
  <2> TAKE k \in Kinds
  <2>1. CASE k = "cdn"
    BY <2>1 DEF Extensions
  <2>2. CASE k = "ytdlp"
    BY <2>2 DEF Extensions
  <2>3. CASE k = "spotify"
    BY <2>3 DEF Extensions
  <2>4. CASE k \notin {"cdn", "ytdlp", "spotify"}
    BY <2>4 DEF Extensions
  <2> QED
    BY <2>1, <2>2, <2>3, <2>4
<1>2. ASSUME None \in Names
      PROVE  FALSE
  <2>1. /\ None[1] \in Tracks /\ None[2] \in Extensions[Kind[None[1]]]
        /\ None = <<None[1], None[2]>>
    BY <1>2, NamesAre
  <2>2. Kind[None[1]] \in Kinds
    BY <2>1, DownloadsAssumption
  <2>3. None[2] \in {"final", "part", "ytdlp", "encrypted", "decrypted"}
    BY <1>1, <2>1, <2>2
  <2> QED
    BY <2>1, <2>3, DownloadsAssumption
<1> QED
  BY <1>2

\* A record of the three fields is a file, and Absent is none.
LEMMA FilesAre ==
  /\ \A w, o \in BOOLEAN : \A b \in {None} \cup Chats :
       /\ [whole |-> w, old |-> o, by |-> b] \in Files
       /\ [whole |-> w, old |-> o, by |-> b] # Absent
  /\ \A f \in Files : /\ f # Absent /\ f.whole \in BOOLEAN /\ f.old \in BOOLEAN
                      /\ f.by \in {None} \cup Chats
  BY DownloadsAssumption DEF Files

\* A file whose writer is done, and one whose writer gave up, and one that
\* has grown old.
LEMMA FileCompleted ==
  ASSUME NEW f \in Files, NEW g, g = [f EXCEPT !.whole = TRUE, !.by = None]
  PROVE  g \in Files /\ g.whole /\ g.old = f.old /\ g.by = None
<1>1. f \in [whole : BOOLEAN, old : BOOLEAN, by : {None} \cup Chats]
  BY DEF Files
<1>2. g \in Files
  BY <1>1 DEF Files
<1> QED
  BY <1>1, <1>2

LEMMA FileAbandoned ==
  ASSUME NEW f \in Files, NEW g, g = [f EXCEPT !.by = None]
  PROVE  g \in Files /\ g.whole = f.whole /\ g.old = f.old /\ g.by = None
<1>1. f \in [whole : BOOLEAN, old : BOOLEAN, by : {None} \cup Chats]
  BY DEF Files
<1>2. g \in Files
  BY <1>1 DEF Files
<1> QED
  BY <1>1, <1>2

LEMMA FileAged ==
  ASSUME NEW f \in Files, NEW g, g = [f EXCEPT !.old = TRUE]
  PROVE  g \in Files /\ g.whole = f.whole /\ g.old = TRUE /\ g.by = f.by
<1>1. f \in [whole : BOOLEAN, old : BOOLEAN, by : {None} \cup Chats]
  BY DEF Files
<1>2. g \in Files
  BY <1>1 DEF Files
<1> QED
  BY <1>1, <1>2

\* c's handler moves to one of the places pcs; the others stay.
Turn(c, pcs, o) ==
  /\ job' \in [Chats -> Jobs]
  /\ job'[c].pc \in pcs /\ job'[c].track = job[c].track /\ job'[c].out = o
  /\ \A d \in Chats \ {c} : job'[d] = job[d]

\* The three ways a handler moves.
LEMMA GoTurns ==
  ASSUME job \in [Chats -> Jobs], NEW c \in Chats, NEW p \in Stages, Go(c, p)
  PROVE  Turn(c, {p}, job[c].out) /\ job'[c].cycle = job[c].cycle
<1>1. job[c] \in Jobs
  OBVIOUS
<1> DEFINE j == [job[c] EXCEPT !.pc = p]
<1>2. j \in Jobs /\ j.pc = p /\ j.track = job[c].track /\ j.out = job[c].out /\ j.cycle = job[c].cycle
  BY <1>1 DEF Jobs
<1>3. job' = [job EXCEPT ![c] = j]
  BY DEF Go
<1> HIDE DEF j
<1> QED
  BY <1>2, <1>3 DEF Turn

LEMMA ReadyTurns ==
  ASSUME job \in [Chats -> Jobs], NEW c \in Chats, NEW n \in Names, Ready(c, n)
  PROVE  Turn(c, {"ready"}, n) /\ job'[c].cycle = job[c].cycle
<1>1. job[c] \in Jobs /\ "ready" \in Stages
  BY DEF Stages
<1> DEFINE j == [job[c] EXCEPT !.pc = "ready", !.out = n]
<1>2. j \in Jobs /\ j.pc = "ready" /\ j.track = job[c].track /\ j.out = n /\ j.cycle = job[c].cycle
  BY <1>1 DEF Jobs
<1>3. job' = [job EXCEPT ![c] = j]
  BY DEF Ready
<1> HIDE DEF j
<1> QED
  BY <1>2, <1>3 DEF Turn

LEMMA NextCycleTurns ==
  ASSUME job \in [Chats -> Jobs], NEW c \in Chats, NextCycle(c)
  PROVE  Turn(c, {"resolve", "ytdlp"}, job[c].out)
<1>1. job[c] \in Jobs /\ {"resolve", "ytdlp"} \subseteq Stages /\ Cycles \in Nat
  BY DownloadsAssumption DEF Stages
<1>2. CASE job[c].cycle < Cycles
  <2> DEFINE j == [job[c] EXCEPT !.pc = "resolve", !.cycle = @ + 1]
  <2>1. job[c].cycle + 1 \in 0 .. Cycles
    BY <1>1, <1>2 DEF Jobs
  <2>2. j \in Jobs /\ j.pc = "resolve" /\ j.track = job[c].track /\ j.out = job[c].out
    BY <1>1, <2>1 DEF Jobs
  <2>3. job' = [job EXCEPT ![c] = j]
    BY <1>2 DEF NextCycle
  <2> HIDE DEF j
  <2> QED
    BY <2>2, <2>3 DEF Turn
<1>3. CASE ~ (job[c].cycle < Cycles)
  <2> DEFINE j == [job[c] EXCEPT !.pc = "ytdlp"]
  <2>1. j \in Jobs /\ j.pc = "ytdlp" /\ j.track = job[c].track /\ j.out = job[c].out
    BY <1>1 DEF Jobs
  <2>2. job' = [job EXCEPT ![c] = j]
    BY <1>3 DEF NextCycle
  <2> HIDE DEF j
  <2> QED
    BY <2>1, <2>2 DEF Turn
<1> QED
  BY <1>2, <1>3
-----------------------------------------------------------------------------
(* What a step does to the disk. *)

\* A step of c's handler leaves the files of other tracks alone, keeps every
\* file that a download has shown, and marks none as written by another.
DiskKept(c) ==
  /\ disk' \in [Names -> Files \cup {Absent}]
  /\ \A n \in Names : n[1] # job[c].track => disk'[n] = disk[n]
  /\ \A n \in Finals : On(n) => disk'[n] # Absent
  /\ \A d \in Chats \ {c} : \A n \in Names : (disk'[n] # Absent /\ disk'[n].by = d) =>
       \E m \in Names : /\ m[1] = n[1] /\ (n[2] = "ytdlp" => m[2] = "ytdlp")
                        /\ On(m) /\ disk[m].by = d

\* The files that c is writing are its track's.
Own(c) == \A n \in Names : (On(n) /\ disk[n].by = c) => n[1] = job[c].track

\* The same name, with other contents.
Same(n) == disk'[n] = disk[n]

\* What each of the ways to change files does.
LEMMA DiskStays ==
  ASSUME disk \in [Names -> Files \cup {Absent}], NEW c \in Chats, UNCHANGED disk
  PROVE  DiskKept(c) /\ \A n \in Names : Same(n)
  BY DEF DiskKept, Same, Finals, On

LEMMA CreatedKeeps ==
  ASSUME disk \in [Names -> Files \cup {Absent}], NEW c \in Chats, NEW n \in Names,
         n[1] = job[c].track, disk' = Created(n, c)
  PROVE  /\ DiskKept(c)
         /\ \A m \in Names : m # n => Same(m)
         /\ disk'[n] \in Files /\ ~ disk'[n].whole /\ ~ disk'[n].old /\ disk'[n].by = c
<1> DEFINE f == [whole |-> FALSE, old |-> FALSE, by |-> c]
<1>1. f \in Files /\ f # Absent /\ ~ f.whole /\ ~ f.old /\ f.by = c
  BY FilesAre
<1>2. disk' = [disk EXCEPT ![n] = f]
  BY DEF Created
<1> HIDE DEF f
<1>3. disk' \in [Names -> Files \cup {Absent}] /\ disk'[n] = f /\ \A m \in Names : m # n => Same(m)
  BY <1>1, <1>2 DEF Same
<1>4. \A m \in Finals : On(m) => disk'[m] # Absent
  BY <1>1, <1>3 DEF Finals, On, Same
<1>5. \A d \in Chats \ {c} : \A m \in Names : (disk'[m] # Absent /\ disk'[m].by = d) =>
        \E o \in Names : /\ o[1] = m[1] /\ (m[2] = "ytdlp" => o[2] = "ytdlp")
                         /\ On(o) /\ disk[o].by = d
  BY <1>1, <1>3 DEF On, Same
<1> QED
  BY <1>1, <1>3, <1>4, <1>5 DEF DiskKept, Same

LEMMA WrittenKeeps ==
  ASSUME disk \in [Names -> Files \cup {Absent}], NEW c \in Chats, NEW n \in Names,
         n[1] = job[c].track, NEW w \in BOOLEAN, disk' = Written(n, w)
  PROVE  /\ DiskKept(c)
         /\ \A m \in Names : m # n => Same(m)
         /\ disk'[n] \in Files /\ disk'[n].whole = w /\ ~ disk'[n].old /\ disk'[n].by = None
<1> DEFINE f == [whole |-> w, old |-> FALSE, by |-> None]
<1>1. f \in Files /\ f # Absent /\ f.whole = w /\ ~ f.old /\ f.by = None
  BY FilesAre
<1>2. disk' = [disk EXCEPT ![n] = f]
  BY DEF Written
<1> HIDE DEF f
<1>3. disk' \in [Names -> Files \cup {Absent}] /\ disk'[n] = f /\ \A m \in Names : m # n => Same(m)
  BY <1>1, <1>2 DEF Same
<1>4. \A m \in Finals : On(m) => disk'[m] # Absent
  BY <1>1, <1>3 DEF Finals, On, Same
<1>5. \A d \in Chats \ {c} : \A m \in Names : (disk'[m] # Absent /\ disk'[m].by = d) =>
        \E o \in Names : /\ o[1] = m[1] /\ (m[2] = "ytdlp" => o[2] = "ytdlp")
                         /\ On(o) /\ disk[o].by = d
  BY <1>1, <1>3, DownloadsAssumption DEF On, Same
<1> QED
  BY <1>1, <1>3, <1>4, <1>5 DEF DiskKept, Same

LEMMA CompletedKeeps ==
  ASSUME disk \in [Names -> Files \cup {Absent}], NEW c \in Chats, Own(c), disk' = Completed(c, TRUE)
  PROVE  /\ DiskKept(c)
         /\ \A n \in Names : disk'[n] # Absent <=> On(n)
         /\ \A n \in Names : On(n) /\ disk[n].by = c =>
              disk'[n].whole /\ disk'[n].old = disk[n].old /\ disk'[n].by = None
         /\ \A n \in Names : ~ (On(n) /\ disk[n].by = c) => Same(n)
<1>1. ASSUME NEW n \in Names, On(n), disk[n].by = c
      PROVE  /\ disk'[n] \in Files /\ disk'[n].whole /\ disk'[n].old = disk[n].old
             /\ disk'[n].by = None /\ n[1] = job[c].track
  <2>1. disk[n] \in Files
    BY <1>1 DEF On
  <2>2. disk'[n] = [disk[n] EXCEPT !.whole = TRUE, !.by = None]
    BY <1>1 DEF Completed
  <2>3. n[1] = job[c].track
    BY <1>1 DEF Own
  <2> QED
    BY <2>1, <2>2, <2>3, FileCompleted
<1>2. \A n \in Names : ~ (On(n) /\ disk[n].by = c) => Same(n)
  BY DEF Completed, Same
<1>3. disk' = [n \in Names |-> disk'[n]]
  BY DEF Completed
<1>4. \A n \in Names : disk'[n] \in Files \cup {Absent}
  BY <1>1, <1>2 DEF Same
<1>5. \A n \in Names : disk'[n] # Absent <=> On(n)
  BY <1>1, <1>2, FilesAre DEF Same, On
<1>6. \A d \in Chats \ {c} : \A n \in Names : (disk'[n] # Absent /\ disk'[n].by = d) =>
        \E m \in Names : /\ m[1] = n[1] /\ (n[2] = "ytdlp" => m[2] = "ytdlp")
                         /\ On(m) /\ disk[m].by = d
  BY <1>1, <1>2, <1>5, DownloadsAssumption DEF Same
<1>7. disk' \in [Names -> Files \cup {Absent}]
  BY <1>3, <1>4
<1>8. \A n \in Names : n[1] # job[c].track => disk'[n] = disk[n]
  BY <1>1, <1>2 DEF Same
<1>9. \A n \in Finals : On(n) => disk'[n] # Absent
  BY <1>5 DEF Finals
<1> QED
  BY <1>1, <1>2, <1>5, <1>6, <1>7, <1>8, <1>9 DEF DiskKept

LEMMA AbandonedKeeps ==
  ASSUME disk \in [Names -> Files \cup {Absent}], NEW c \in Chats, Own(c), disk' = Abandoned(c)
  PROVE  /\ DiskKept(c)
         /\ \A n \in Names : disk'[n] # Absent <=> On(n)
         /\ \A n \in Names : On(n) /\ disk[n].by = c =>
              disk'[n].whole = disk[n].whole /\ disk'[n].old = disk[n].old /\ disk'[n].by = None
         /\ \A n \in Names : ~ (On(n) /\ disk[n].by = c) => Same(n)
<1>1. ASSUME NEW n \in Names, On(n), disk[n].by = c
      PROVE  /\ disk'[n] \in Files /\ disk'[n].whole = disk[n].whole /\ disk'[n].old = disk[n].old
             /\ disk'[n].by = None /\ n[1] = job[c].track
  <2>1. disk[n] \in Files
    BY <1>1 DEF On
  <2>2. disk'[n] = [disk[n] EXCEPT !.by = None]
    BY <1>1 DEF Abandoned
  <2>3. n[1] = job[c].track
    BY <1>1 DEF Own
  <2> QED
    BY <2>1, <2>2, <2>3, FileAbandoned
<1>2. \A n \in Names : ~ (On(n) /\ disk[n].by = c) => Same(n)
  BY DEF Abandoned, Same
<1>3. disk' = [n \in Names |-> disk'[n]]
  BY DEF Abandoned
<1>4. \A n \in Names : disk'[n] \in Files \cup {Absent}
  BY <1>1, <1>2 DEF Same
<1>5. \A n \in Names : disk'[n] # Absent <=> On(n)
  BY <1>1, <1>2, FilesAre DEF Same, On
<1>6. \A d \in Chats \ {c} : \A n \in Names : (disk'[n] # Absent /\ disk'[n].by = d) =>
        \E m \in Names : /\ m[1] = n[1] /\ (n[2] = "ytdlp" => m[2] = "ytdlp")
                         /\ On(m) /\ disk[m].by = d
  BY <1>1, <1>2, <1>5, DownloadsAssumption DEF Same
<1>7. disk' \in [Names -> Files \cup {Absent}]
  BY <1>3, <1>4
<1>8. \A n \in Names : n[1] # job[c].track => disk'[n] = disk[n]
  BY <1>1, <1>2 DEF Same
<1>9. \A n \in Finals : On(n) => disk'[n] # Absent
  BY <1>5 DEF Finals
<1> QED
  BY <1>1, <1>2, <1>5, <1>6, <1>7, <1>8, <1>9 DEF DiskKept

LEMMA RemovedKeeps ==
  ASSUME disk \in [Names -> Files \cup {Absent}], NEW c \in Chats, NEW ns,
         \A n \in Names : n \in ns => n[1] = job[c].track /\ n \notin Finals,
         disk' = Removed(ns)
  PROVE  /\ DiskKept(c)
         /\ \A n \in Names : IF n \in ns THEN disk'[n] = Absent ELSE Same(n)
<1>1. \A n \in Names : IF n \in ns THEN disk'[n] = Absent ELSE Same(n)
  BY DEF Removed, Same
<1>2. disk' \in [Names -> Files \cup {Absent}]
  BY DEF Removed
<1>3. \A n \in Names : n[1] # job[c].track => disk'[n] = disk[n]
  BY <1>1 DEF Same
<1>4. \A n \in Finals : On(n) => disk'[n] # Absent
  BY <1>1 DEF Same, Finals, On
<1>5. \A d \in Chats \ {c} : \A n \in Names : (disk'[n] # Absent /\ disk'[n].by = d) =>
        \E m \in Names : /\ m[1] = n[1] /\ (n[2] = "ytdlp" => m[2] = "ytdlp")
                         /\ On(m) /\ disk[m].by = d
  BY <1>1 DEF Same, On
<1> QED
  BY <1>1, <1>2, <1>3, <1>4, <1>5 DEF DiskKept

LEMMA RenamedKeeps ==
  ASSUME disk \in [Names -> Files \cup {Absent}], NEW c \in Chats, NEW p \in Names, NEW f \in Names,
         p # f, p[1] = job[c].track, f[1] = job[c].track, p \notin Finals, f[2] = "final", On(p),
         disk' = [disk EXCEPT ![f] = disk[p], ![p] = Absent]
  PROVE  /\ DiskKept(c)
         /\ disk'[f] = disk[p] /\ disk'[p] = Absent
         /\ \A n \in Names : n # f /\ n # p => Same(n)
<1>1. /\ disk' \in [Names -> Files \cup {Absent}]
      /\ disk'[f] = disk[p] /\ disk'[p] = Absent
      /\ \A n \in Names : n # f /\ n # p => Same(n)
  BY DEF Same
<1>2. \A n \in Names : n[1] # job[c].track => disk'[n] = disk[n]
  BY <1>1 DEF Same
<1>3. \A n \in Finals : On(n) => disk'[n] # Absent
  BY <1>1 DEF Same, Finals, On
<1>4. \A d \in Chats \ {c} : \A n \in Names : (disk'[n] # Absent /\ disk'[n].by = d) =>
        \E m \in Names : /\ m[1] = n[1] /\ (n[2] = "ytdlp" => m[2] = "ytdlp")
                         /\ On(m) /\ disk[m].by = d
  BY <1>1 DEF Same, On
<1> QED
  BY <1>1, <1>2, <1>3, <1>4 DEF DiskKept
-----------------------------------------------------------------------------
(* A step of one handler. *)

\* What has happened to a track is not forgotten.
Remembered ==
  /\ raced \subseteq raced' /\ killed \subseteq killed' /\ snatched \subseteq snatched'
  /\ raced' \subseteq Tracks /\ killed' \subseteq Tracks /\ snatched' \subseteq Tracks

LEMMA Unspoiled ==
  ASSUME DownloadsInv, UNCHANGED Spoils
  PROVE  Remembered /\ raced' = raced /\ killed' = killed /\ snatched' = snatched
  BY DEF Spoils, Remembered, DownloadsInv, TypeInv

\* What every step of c's handler has in common.
Handled(c) ==
  /\ DiskKept(c) /\ (Fetching(c) \/ UNCHANGED disk)
  /\ ~ At(c, "idle")
  /\ job' \in [Chats -> Jobs]
  /\ \A d \in Chats \ {c} : job'[d] = job[d]
  /\ \/ job'[c].pc = "idle"
     \/ /\ job'[c].track = job[c].track
        /\ job'[c].pc \notin {"idle", "ready", "open", "playing"} => Fetching(c)
  /\ path' \in [Chats -> {None} \cup Finals] /\ queued' \subseteq Chats /\ missed' \subseteq Chats
  /\ \A d \in Chats \ {c} : /\ path'[d] = path[d]
                            /\ d \in queued' <=> d \in queued
                            /\ d \in missed' <=> d \in missed
  /\ Remembered
  /\ faults' \in 0 .. MaxFaults
  /\ UNCHANGED <<sweep, requests, urgents, restarts>>

\* What remains to show of the handler itself.
Well(c) ==
  /\ JobOK(c) /\ SeenOK(c) /\ ScratchOK(c) /\ GentleOK(c)

LEMMA MovedIsHandled ==
  ASSUME DownloadsInv, NEW c \in Chats, NEW pcs, NEW o, Turn(c, pcs, o), DiskKept(c), Fetching(c),
         UNCHANGED Playback, UNCHANGED Sweeping, faults' \in 0 .. MaxFaults,
         Remembered
  PROVE  Handled(c)
<1>1. /\ path' = path /\ queued' = queued /\ missed' = missed
      /\ UNCHANGED <<sweep, requests, urgents, restarts>>
  BY DEF Playback, Sweeping
<1>2. path' \in [Chats -> {None} \cup Finals] /\ queued' \subseteq Chats /\ missed' \subseteq Chats
  BY <1>1 DEF DownloadsInv, TypeInv
<1>3. ~ At(c, "idle")
  BY DEF Fetching, At
<1>4. /\ job' \in [Chats -> Jobs] /\ \A d \in Chats \ {c} : job'[d] = job[d]
      /\ job'[c].track = job[c].track
  BY DEF Turn
<1> QED
  BY <1>1, <1>2, <1>3, <1>4 DEF Handled

\* c's handler is at one of the places where it looks for no scratch file and
\* writes none.
LEMMA NoScratch ==
  ASSUME NEW c \in Chats, job'[c].pc \notin {"copy", "rename", "encrypt", "decrypt", "ffmpeg"},
         \A n \in Names : disk'[n] # Absent => disk'[n].by # c
  PROVE  ScratchOK(c)' /\ GentleOK(c)'
  BY DEF ScratchOK, GentleOK, At, On, File

LEMMA NoMarks ==
  ASSUME DownloadsInv, NEW c \in Chats
  PROVE  /\ Own(c)
         /\ job[c].pc \notin {"copy", "ytrun", "convert"} => \A n \in Names : ~ (On(n) /\ disk[n].by = c)
  BY DEF DownloadsInv, ScratchOK, Own

\* The playback stays as it is while the handler fetches.
LEMMA SeenMoves ==
  ASSUME DownloadsInv, NEW c \in Chats, NEW pcs, NEW o, Turn(c, pcs, o), Fetching(c),
         pcs \cap {"idle", "open", "playing"} = {},
         UNCHANGED Playback, UNCHANGED Sweeping,
         Seen(c) /\ job'[c].pc = "convert" => disk'[<<job[c].track, "final">>] # Absent,
         Seen(c) /\ job'[c].pc \in {"clean", "ready"} /\ o # None => disk'[o] # Absent
  PROVE  SeenOK(c)'
<1>1. SeenOK(c) /\ job[c].pc \notin {"idle", "ready", "open", "playing"}
  BY DEF DownloadsInv, Fetching
<1>2. /\ path' = path /\ queued' = queued /\ missed' = missed /\ sweep' = sweep
  BY DEF Playback, Sweeping
<1>3. job'[c].pc \notin {"idle", "open", "playing"} /\ job'[c].track = job[c].track /\ job'[c].out = o
  BY DEF Turn
<1> QED
  BY <1>1, <1>2, <1>3 DEF SeenOK, Seen, At, On, File

LEMMA DropIsHandled ==
  ASSUME DownloadsInv, NEW c \in Chats, Drop(c), DiskKept(c), ~ At(c, "idle"),
         Fetching(c) \/ UNCHANGED disk,
         \A n \in Names : disk'[n] # Absent => disk'[n].by # c,
         UNCHANGED Sweeping, faults' \in 0 .. MaxFaults,
         Remembered
  PROVE  Handled(c) /\ Well(c)'
<1>1. Idle \in Jobs /\ Idle.pc = "idle" /\ Idle.out = None /\ Idle.track = None
  <2>1. 0 \in 0 .. Cycles /\ "idle" \in Stages
    BY DownloadsAssumption DEF Stages
  <2> QED
    BY <2>1 DEF Idle, Jobs
<1>2. job \in [Chats -> Jobs] /\ path \in [Chats -> {None} \cup Finals] /\ queued \subseteq Chats /\ missed \subseteq Chats
  BY DEF DownloadsInv, TypeInv
<1>3. job' \in [Chats -> Jobs] /\ job'[c] = Idle /\ \A d \in Chats \ {c} : job'[d] = job[d]
  BY <1>1, <1>2 DEF Drop
<1>4. /\ path' \in [Chats -> {None} \cup Finals] /\ path'[c] = None
      /\ \A d \in Chats \ {c} : path'[d] = path[d]
  BY <1>2 DEF Drop
<1>5. /\ queued' \subseteq Chats /\ missed' \subseteq Chats /\ c \notin queued'
      /\ \A d \in Chats \ {c} : (d \in queued' <=> d \in queued) /\ (d \in missed' <=> d \in missed)
  BY <1>2 DEF Drop
<1>6. Handled(c)
  BY <1>1, <1>3, <1>4, <1>5 DEF Handled, Sweeping
<1>7. JobOK(c)'
  BY <1>1, <1>3 DEF JobOK, At
<1>8. SeenOK(c)'
  BY <1>1, <1>3, <1>4, <1>5 DEF SeenOK, Seen, At
<1>9. ScratchOK(c)' /\ GentleOK(c)'
  BY <1>1, <1>3, NoScratch
<1> QED
  BY <1>6, <1>7, <1>8, <1>9 DEF Well

\* Another chat is not disturbed by a step of c's handler.
LEMMA OthersStay ==
  ASSUME DownloadsInv, NEW c \in Chats, Handled(c), NEW d \in Chats \ {c}
  PROVE  Well(d)'
<1>1. /\ job'[d] = job[d] /\ path'[d] = path[d] /\ sweep' = sweep /\ urgents' = urgents
      /\ d \in queued' <=> d \in queued
      /\ d \in missed' <=> d \in missed
      /\ raced \subseteq raced' /\ snatched \subseteq snatched'
  BY DEF Handled, Remembered
<1>2. JobOK(d) /\ SeenOK(d) /\ ScratchOK(d) /\ GentleOK(d) /\ path[d] \in {None} \cup Finals
  BY DEF DownloadsInv, TypeInv
<1>3. /\ \A n \in Names : n[1] # job[c].track => disk'[n] = disk[n]
      /\ \A n \in Finals : On(n) => disk'[n] # Absent
      /\ \A n \in Names : (disk'[n] # Absent /\ disk'[n].by = d) =>
           \E m \in Names : /\ m[1] = n[1] /\ (n[2] = "ytdlp" => m[2] = "ytdlp")
                         /\ On(m) /\ disk[m].by = d
  BY DEF Handled, DiskKept
<1>4. JobOK(d)'
  BY <1>1, <1>2 DEF JobOK, At
<1>5. At(d, "convert") => File(d, "final") \in Finals
  <2> SUFFICES ASSUME At(d, "convert")
               PROVE  File(d, "final") \in Finals
    OBVIOUS
  <2>1. job[d].track \in Tracks /\ Kind[job[d].track] = "spotify"
    BY <1>2 DEF JobOK, At
  <2> QED
    BY <2>1, KindNames DEF File, Finals
<1>6. job[d].pc \in {"clean", "ready"} /\ job[d].out # None => job[d].out \in Finals
  <2>1. CASE job[d].pc = "ready"
    BY <1>2, <2>1 DEF JobOK
  <2>2. CASE job[d].pc = "clean"
    <3>1. job[d].track \in Tracks /\ Kind[job[d].track] = "spotify"
      BY <1>2, <2>2 DEF JobOK, At
    <3>2. <<job[d].track, "final">> \in Finals
      BY <3>1, KindNames DEF Finals
    <3> QED
      BY <1>2, <2>2, <3>2 DEF JobOK
  <2> QED
    BY <2>1, <2>2
<1>7. SeenOK(d)'
  <2>1. /\ job[d].pc \notin {"open", "playing"} => path[d] = None
        /\ At(d, "idle") => d \notin queued
        /\ d \notin missed /\ ~ At(d, "idle") /\ path[d] = None => sweep.pc = "idle"
    BY <1>2 DEF SeenOK
  <2>2. Seen(d) /\ path[d] # None =>
          disk'[path[d]] # Absent /\ (sweep.pc # "idle" => path[d] \in sweep.inUse)
    BY <1>2, <1>3 DEF SeenOK
  <2>3. Seen(d) /\ At(d, "convert") => disk'[File(d, "final")] # Absent
    BY <1>2, <1>3, <1>5 DEF SeenOK
  <2>4. Seen(d) /\ job[d].pc \in {"clean", "ready"} /\ job[d].out # None => disk'[job[d].out] # Absent
    BY <1>2, <1>3, <1>6 DEF SeenOK
  <2> QED
    BY <1>1, <2>1, <2>2, <2>3, <2>4 DEF SeenOK, Seen, At, On, File
<1>8. ASSUME NEW n \in Names, disk'[n] # Absent, disk'[n].by = d
      PROVE  /\ job[d].pc \in {"copy", "ytrun", "convert"} /\ n[1] = job[d].track
             /\ n[2] = "ytdlp" => job[d].pc = "ytrun"
  BY <1>2, <1>3, <1>8 DEF ScratchOK
<1>9. /\ job[d].pc \in {"create", "copy", "rename"} => File(d, "part") \in Names
      /\ job[d].pc \in {"encrypt", "decrypt", "ffmpeg"} =>
           {File(d, "final"), File(d, "encrypted"), File(d, "decrypted")} \subseteq Names
  BY <1>2, KindNames DEF JobOK, At, File
<1>10. CASE job[d].track = job[c].track /\ Fetching(c) /\ Fetching(d)
  <2>1. job[d].track \in raced /\ job[d].track \in raced'
    BY <1>1, <1>10 DEF DownloadsInv, Alone
  <2> QED
    BY <1>1, <1>4, <1>7, <1>8, <2>1 DEF Well, ScratchOK, GentleOK, On
<1>11. CASE ~ Fetching(d)
  <2>1. job[d].pc \notin {"copy", "rename", "encrypt", "decrypt", "ffmpeg", "ytrun", "convert"}
    BY <1>11 DEF Fetching
  <2> QED
    BY <1>1, <1>4, <1>7, <1>8, <2>1 DEF Well, ScratchOK, GentleOK, On, At
<1>12. CASE job[d].track # job[c].track /\ Fetching(d)
  <2>1. \A e : File(d, e)[1] # job[c].track /\ File(d, e)' = File(d, e)
    BY <1>1, <1>12 DEF File
  <2>2. ScratchOK(d)'
    BY <1>1, <1>2, <1>3, <1>8, <1>9, <2>1 DEF ScratchOK, On, At
  <2>3. GentleOK(d)'
    BY <1>1, <1>2, <1>3, <1>9, <2>1 DEF GentleOK, Safe, On, At
  <2> QED
    BY <1>4, <1>7, <2>2, <2>3 DEF Well
<1>13. CASE UNCHANGED disk
  <2>1. ScratchOK(d)'
    BY <1>1, <1>2, <1>13 DEF ScratchOK, On, At, File
  <2>2. GentleOK(d)'
    BY <1>1, <1>2, <1>13 DEF GentleOK, Safe, On, At, File
  <2> QED
    BY <1>4, <1>7, <2>1, <2>2 DEF Well
<1> QED
  BY <1>10, <1>11, <1>12, <1>13 DEF Handled

\* A step of c's handler that leaves c where it should be keeps the whole
\* invariant.
LEMMA HandledKeeps ==
  ASSUME DownloadsInv, NEW c \in Chats, Handled(c), Well(c)',
         \A n \in Names : n[1] = job[c].track => Shown(n)'
  PROVE  DownloadsInv'
<1>1. \A d \in Chats : Well(d)'
  BY OthersStay
<1>2. TypeInv'
  BY <1>1 DEF Handled, Remembered, DiskKept, DownloadsInv, TypeInv, Well
<1>3. SweepOK'
  BY DEF Handled, DownloadsInv, SweepOK
<1>4. Alone'
  <2> SUFFICES ASSUME NEW x \in Chats, NEW y \in Chats, x # y, Fetching(x)', Fetching(y)',
                      job'[x].track = job'[y].track
               PROVE  job'[x].track \in raced'
    BY DEF Alone
  <2>1. ASSUME NEW z \in Chats, Fetching(z)'
        PROVE  Fetching(z) /\ job'[z].track = job[z].track
    BY <2>1 DEF Handled, Fetching
  <2>2. job[x].track \in raced
    BY <2>1 DEF DownloadsInv, Alone
  <2> QED
    BY <2>1, <2>2 DEF Handled, Remembered
<1>5. ASSUME NEW n \in Names
      PROVE  Shown(n)'
  <2>1. CASE n[1] # job[c].track
    <3>1. disk'[n] = disk[n] /\ Shown(n) /\ raced \subseteq raced' /\ killed \subseteq killed'
      BY <2>1 DEF Handled, Remembered, DiskKept, DownloadsInv
    <3> QED
      BY <3>1 DEF Shown, On
  <2> QED
    BY <2>1
<1> QED
  BY <1>1, <1>2, <1>3, <1>4, <1>5 DEF DownloadsInv, Well
-----------------------------------------------------------------------------
(* The actions of a handler. *)

Kept(c) == Handled(c) /\ Well(c)' /\ \A n \in Names : n[1] = job[c].track => Shown(n)'

\* The disk stays as it is, and what it shows.
LEMMA ShownStays ==
  ASSUME DownloadsInv, UNCHANGED disk, Remembered
  PROVE  \A n \in Names : Shown(n)'
  BY DEF DownloadsInv, Remembered, Shown, On

\* A step that leaves the disk alone, to a place where the handler looks for
\* no scratch file.
LEMMA CalmStep ==
  ASSUME DownloadsInv, NEW c \in Chats, NEW pcs, Turn(c, pcs, None), Fetching(c), UNCHANGED disk,
         job[c].pc \notin {"copy", "ytrun", "convert"},
         pcs \subseteq {"resolve", "stat", "create", "ytdlp", "clean"},
         UNCHANGED Playback, UNCHANGED Sweeping, faults' \in 0 .. MaxFaults, UNCHANGED Spoils,
         JobOK(c)'
  PROVE  Kept(c)
<1>1. DiskKept(c) /\ \A n \in Names : Same(n)
  BY DiskStays DEF DownloadsInv, TypeInv
<1>2. Remembered
  BY Unspoiled
<1>3. Handled(c)
  BY <1>1, <1>2, MovedIsHandled
<1>4. job'[c].pc \in {"resolve", "stat", "create", "ytdlp", "clean"}
  BY DEF Turn
<1>5. SeenOK(c)'
  <2>1. pcs \cap {"idle", "open", "playing"} = {} /\ job'[c].pc # "convert"
    BY <1>4
  <2> QED
    BY <2>1, SeenMoves
<1>6. \A n \in Names : disk'[n] # Absent => disk'[n].by # c
  BY NoMarks DEF On
<1>7. ScratchOK(c)' /\ GentleOK(c)'
  BY <1>4, <1>6, NoScratch
<1> QED
  BY <1>2, <1>3, <1>5, <1>7, ShownStays DEF Kept, Well

\* The handler has its file.
LEMMA ReadyStep ==
  ASSUME DownloadsInv, NEW c \in Chats, NEW n \in Finals, Turn(c, {"ready"}, n), Fetching(c),
         DiskKept(c), disk'[n] # Absent,
         \A m \in Names : disk'[m] # Absent => disk'[m].by # c,
         UNCHANGED Playback, UNCHANGED Sweeping, faults' \in 0 .. MaxFaults, UNCHANGED Spoils,
         \A m \in Names : m[1] = job[c].track => Shown(m)'
  PROVE  Kept(c)
<1>1. Remembered
  BY Unspoiled
<1>2. Handled(c)
  BY <1>1, MovedIsHandled
<1>3. job'[c].pc = "ready" /\ job'[c].out = n /\ job'[c].track = job[c].track
  BY DEF Turn
<1>4. SeenOK(c)'
  <2>1. {"ready"} \cap {"idle", "open", "playing"} = {} /\ job'[c].pc # "convert"
    BY <1>3
  <2> QED
    BY <2>1, SeenMoves
<1>5. ScratchOK(c)' /\ GentleOK(c)'
  BY <1>3, NoScratch
<1>6. JobOK(c)'
  <2>1. job[c].track \in Tracks
    BY DEF DownloadsInv, TypeInv, JobOK, Fetching, At
  <2> QED
    BY <1>3, <2>1 DEF JobOK, At
<1> QED
  BY <1>2, <1>4, <1>5, <1>6 DEF Kept, Well

\* What is known of a handler before its step.
LEMMA Before ==
  ASSUME DownloadsInv, NEW c \in Chats
  PROVE  /\ job \in [Chats -> Jobs] /\ job[c] \in Jobs /\ JobOK(c)
         /\ disk \in [Names -> Files \cup {Absent}]
         /\ UNCHANGED Spoils => Remembered /\ raced' = raced /\ killed' = killed /\ snatched' = snatched
         /\ NoFault => faults' \in 0 .. MaxFaults
         /\ Fault => faults' \in 0 .. MaxFaults
  BY DownloadsAssumption, Unspoiled DEF DownloadsInv, TypeInv, NoFault, Fault

\* A scratch file of the track is written anew.
LEMMA SnatchKept ==
  ASSUME DownloadsInv, NEW t \in Tracks, NEW n, n[1] = t, Snatches(n), UNCHANGED <<raced, killed>>
  PROVE  Remembered /\ raced' = raced /\ killed' = killed
  BY DEF Snatches, Remembered, DownloadsInv, TypeInv

\* One lemma for each action of a handler.
LEMMA ResolveKept ==
  ASSUME DownloadsInv, NEW c \in Chats, Resolve(c)
  PROVE  Kept(c)
<1>1. At(c, "resolve") /\ Fetching(c) /\ job[c].out = None /\ Kind[job[c].track] = "cdn" /\ job[c].track \in Tracks
  BY Before DEF Resolve, At, JobOK, Fetching
<1>2. UNCHANGED disk /\ UNCHANGED Playback /\ UNCHANGED Sweeping /\ UNCHANGED Spoils
  BY DEF Resolve
<1>3. PICK pcs : Turn(c, pcs, None) /\ pcs \subseteq {"resolve", "stat", "ytdlp"}
  <2>1. CASE Go(c, "stat")
    BY <1>1, <2>1, Before, GoTurns DEF Stages
  <2>2. CASE NextCycle(c)
    BY <1>1, <2>2, Before, NextCycleTurns
  <2> QED
    BY <2>1, <2>2 DEF Resolve
<1>4. faults' \in 0 .. MaxFaults
  BY Before DEF Resolve
<1>5. JobOK(c)'
  BY <1>1, <1>3 DEF JobOK, Turn, At
<1> QED
  BY <1>1, <1>2, <1>3, <1>4, <1>5, CalmStep DEF At

LEMMA StatFileKept ==
  ASSUME DownloadsInv, NEW c \in Chats, StatFile(c)
  PROVE  Kept(c)
<1>1. /\ At(c, "stat") /\ Fetching(c) /\ job[c].out = None /\ job[c].track \in Tracks
      /\ Kind[job[c].track] \in {"cdn", "spotify"}
  BY Before DEF StatFile, At, JobOK, Fetching
<1>2. UNCHANGED disk /\ UNCHANGED Playback /\ UNCHANGED Sweeping /\ UNCHANGED Spoils /\ NoFault
  BY DEF StatFile, NoFault
<1>3. File(c, "final") \in Finals
  BY <1>1, KindNames DEF File, Finals
<1>4. CASE On(File(c, "final"))
  <2>1. Turn(c, {"ready"}, File(c, "final"))
    BY <1>3, <1>4, Before, ReadyTurns DEF StatFile, Finals
  <2>2. DiskKept(c) /\ \A m \in Names : disk'[m] # Absent => disk'[m].by # c
    BY <1>1, <1>2, Before, DiskStays, NoMarks DEF On, At
  <2>3. \A m \in Names : Shown(m)'
    BY <1>2, Before, ShownStays
  <2>4. disk'[File(c, "final")] # Absent
    BY <1>2, <1>4 DEF On
  <2> QED
    BY <1>1, <1>2, <1>3, <2>1, <2>2, <2>3, <2>4, Before, ReadyStep
<1>5. CASE ~ On(File(c, "final")) /\ Kind[job[c].track] = "cdn"
  <2>1. Turn(c, {"create"}, None)
    BY <1>1, <1>5, Before, GoTurns DEF StatFile, Stages
  <2>2. JobOK(c)'
    BY <1>1, <1>5, <2>1 DEF JobOK, Turn, At
  <2> QED
    BY <1>1, <1>2, <2>1, <2>2, Before, CalmStep DEF At
<1>6. CASE ~ On(File(c, "final")) /\ Kind[job[c].track] = "spotify"
  <2>1. Turn(c, {"encrypt"}, None)
    BY <1>1, <1>6, Before, GoTurns DEF StatFile, Stages
  <2>2. JobOK(c)'
    BY <1>1, <1>6, <2>1 DEF JobOK, Turn, At
  <2>3. DiskKept(c) /\ \A m \in Names : disk'[m] # Absent => disk'[m].by # c
    BY <1>1, <1>2, Before, DiskStays, NoMarks DEF On, At
  <2>4. Handled(c)
    BY <1>1, <1>2, <2>1, <2>3, Before, MovedIsHandled
  <2>5. job'[c].pc = "encrypt" /\ job'[c].track = job[c].track
    BY <2>1 DEF Turn
  <2>6. SeenOK(c)'
    <3>1. {"encrypt"} \cap {"idle", "open", "playing"} = {}
      OBVIOUS
    <3> QED
      BY <1>1, <1>2, <2>1, <2>5, <3>1, SeenMoves
  <2>7. ScratchOK(c)' /\ GentleOK(c)'
    BY <1>2, <1>6, <2>3, <2>5 DEF ScratchOK, GentleOK, On, At, File
  <2> QED
    BY <1>2, <2>2, <2>4, <2>6, <2>7, Before, ShownStays DEF Kept, Well
<1> QED
  BY <1>1, <1>4, <1>5, <1>6

LEMMA CreatePartKept ==
  ASSUME DownloadsInv, NEW c \in Chats, CreatePart(c)
  PROVE  Kept(c)
<1>1. /\ At(c, "create") /\ Fetching(c) /\ job[c].out = None /\ job[c].track \in Tracks
      /\ Kind[job[c].track] = "cdn"
  BY Before DEF CreatePart, At, JobOK, Fetching
<1>2. /\ UNCHANGED Playback /\ UNCHANGED Sweeping /\ UNCHANGED <<raced, killed>> /\ NoFault
      /\ Snatches(File(c, "part"))
  BY DEF CreatePart, NoFault
<1>3. File(c, "part") \in Names /\ File(c, "part")[1] = job[c].track /\ File(c, "part")[2] = "part"
  BY <1>1, KindNames DEF File
<1>4. Turn(c, {"copy"}, None)
  BY <1>1, Before, GoTurns DEF CreatePart, Stages
<1>5. job'[c].pc = "copy" /\ job'[c].track = job[c].track /\ job'[c].out = None
  BY <1>4 DEF Turn
<1>6. /\ DiskKept(c)
      /\ \A m \in Names : m # File(c, "part") => Same(m)
      /\ disk'[File(c, "part")] \in Files /\ ~ disk'[File(c, "part")].whole
      /\ ~ disk'[File(c, "part")].old /\ disk'[File(c, "part")].by = c
  BY <1>3, Before, CreatedKeeps DEF CreatePart
<1>7. Handled(c)
  BY <1>1, <1>2, <1>3, <1>4, <1>6, Before, SnatchKept, MovedIsHandled
<1>8. JobOK(c)'
  BY <1>1, <1>5 DEF JobOK, At
<1>9. SeenOK(c)'
  <2>1. {"copy"} \cap {"idle", "open", "playing"} = {}
    OBVIOUS
  <2> QED
    BY <1>1, <1>2, <1>4, <1>5, <2>1, SeenMoves
<1>10. \A n \in Names : (disk'[n] # Absent /\ disk'[n].by = c) => n = File(c, "part")
  BY <1>1, <1>6, NoMarks DEF Same, On, At
<1>11. File(c, "part")' = File(c, "part")
  BY <1>5 DEF File
<1>12. ScratchOK(c)'
  BY <1>3, <1>5, <1>6, <1>10, <1>11 DEF ScratchOK, At, On
<1>13. GentleOK(c)'
  BY <1>2, <1>3, <1>5, <1>6, <1>11, FilesAre DEF GentleOK, Safe, At, On, Sweeping, Snatches
<1>14. \A n \in Names : Shown(n)'
  <2> SUFFICES ASSUME NEW n \in Names PROVE Shown(n)'
    OBVIOUS
  <2>1. CASE n = File(c, "part")
    BY <1>3, <2>1 DEF Shown, Finals
  <2>2. CASE n # File(c, "part")
    BY <1>2, <1>6, <2>2 DEF Shown, Same, On, DownloadsInv
  <2> QED
    BY <2>1, <2>2
<1> QED
  BY <1>7, <1>8, <1>9, <1>12, <1>13, <1>14 DEF Kept, Well

LEMMA CopyBodyKept ==
  ASSUME DownloadsInv, NEW c \in Chats, CopyBody(c)
  PROVE  Kept(c)
<1>1. /\ At(c, "copy") /\ Fetching(c) /\ job[c].out = None /\ job[c].track \in Tracks
      /\ Kind[job[c].track] = "cdn"
  BY Before DEF CopyBody, At, JobOK, Fetching
<1>2. UNCHANGED Playback /\ UNCHANGED Sweeping /\ UNCHANGED Spoils /\ Remembered
  BY Before DEF CopyBody
<1>3. File(c, "part") \in Names /\ File(c, "part")[1] = job[c].track /\ File(c, "part")[2] = "part"
  BY <1>1, KindNames DEF File
<1>4. ScratchOK(c) /\ GentleOK(c) /\ Own(c) /\ (\A n \in Names : Shown(n)) /\ faults' \in 0 .. MaxFaults
  BY Before, NoMarks DEF DownloadsInv, CopyBody
<1>5. CASE disk' = Completed(c, TRUE) /\ Go(c, "rename")
  <2>1. Turn(c, {"rename"}, None)
    BY <1>1, <1>5, Before, GoTurns DEF Stages
  <2>2. job'[c].pc = "rename" /\ job'[c].track = job[c].track /\ job'[c].out = None
    BY <2>1 DEF Turn
  <2>3. /\ DiskKept(c)
        /\ \A n \in Names : disk'[n] # Absent <=> On(n)
        /\ \A n \in Names : On(n) /\ disk[n].by = c =>
             disk'[n].whole /\ disk'[n].old = disk[n].old /\ disk'[n].by = None
        /\ \A n \in Names : ~ (On(n) /\ disk[n].by = c) => Same(n)
    BY <1>4, <1>5, Before, CompletedKeeps
  <2>4. Handled(c)
    BY <1>1, <1>2, <1>4, <2>1, <2>3, MovedIsHandled
  <2>5. JobOK(c)'
    BY <1>1, <2>2 DEF JobOK, At
  <2>6. SeenOK(c)'
    <3>1. {"rename"} \cap {"idle", "open", "playing"} = {}
      OBVIOUS
    <3> QED
      BY <1>1, <1>2, <2>1, <2>2, <3>1, SeenMoves
  <2>7. File(c, "part")' = File(c, "part")
    BY <2>2 DEF File
  <2>8. \A n \in Names : disk'[n] # Absent => disk'[n].by # c
    BY <2>3, DownloadsAssumption DEF Same
  <2>9. ScratchOK(c)'
    <3>1. job[c].track \notin raced /\ On(File(c, "part")) => disk[File(c, "part")].by = c
      BY <1>1, <1>4 DEF ScratchOK
    <3> QED
      BY <1>2, <1>3, <2>2, <2>3, <2>7, <2>8, <3>1, Before DEF ScratchOK, At, On
  <2>10. GentleOK(c)'
    <3>1. job[c].track \notin raced \cup snatched /\ urgents = 0 => Safe(File(c, "part"))
      BY <1>1, <1>4 DEF GentleOK, At
    <3>2. disk'[File(c, "part")] # Absent <=> On(File(c, "part"))
      BY <1>3, <2>3
    <3>3. On(File(c, "part")) => disk'[File(c, "part")].old = disk[File(c, "part")].old
      BY <1>3, <2>3 DEF Same
    <3> QED
      BY <1>2, <2>2, <2>7, <3>1, <3>2, <3>3, Before DEF GentleOK, Safe, At, On, Sweeping
  <2>11. ASSUME NEW n \in Names, n[1] = job[c].track
         PROVE  Shown(n)'
    <3>1. CASE On(n) /\ disk[n].by = c
      BY <2>3, <3>1 DEF Shown
    <3>2. CASE ~ (On(n) /\ disk[n].by = c)
      BY <1>2, <1>4, <2>3, <3>2, Before DEF Shown, Same, On
    <3> QED
      BY <3>1, <3>2
  <2> QED
    BY <2>4, <2>5, <2>6, <2>9, <2>10, <2>11 DEF Kept, Well
<1>6. CASE disk' = Abandoned(c) /\ NextCycle(c)
  <2>1. Turn(c, {"resolve", "ytdlp"}, None)
    BY <1>1, <1>6, Before, NextCycleTurns
  <2>2. job'[c].pc \in {"resolve", "ytdlp"} /\ job'[c].track = job[c].track /\ job'[c].out = None
    BY <2>1 DEF Turn
  <2>3. /\ DiskKept(c)
        /\ \A n \in Names : disk'[n] # Absent <=> On(n)
        /\ \A n \in Names : On(n) /\ disk[n].by = c =>
             disk'[n].whole = disk[n].whole /\ disk'[n].old = disk[n].old /\ disk'[n].by = None
        /\ \A n \in Names : ~ (On(n) /\ disk[n].by = c) => Same(n)
    BY <1>4, <1>6, Before, AbandonedKeeps
  <2>4. Handled(c)
    BY <1>1, <1>2, <1>4, <2>1, <2>3, MovedIsHandled
  <2>5. JobOK(c)'
    BY <1>1, <2>2 DEF JobOK, At
  <2>6. SeenOK(c)'
    <3>1. {"resolve", "ytdlp"} \cap {"idle", "open", "playing"} = {}
      OBVIOUS
    <3> QED
      BY <1>1, <1>2, <2>1, <2>2, <3>1, SeenMoves
  <2>7. \A n \in Names : disk'[n] # Absent => disk'[n].by # c
    BY <2>3, DownloadsAssumption DEF Same
  <2>8. ScratchOK(c)' /\ GentleOK(c)'
    BY <2>2, <2>7, NoScratch
  <2>9. ASSUME NEW n \in Names, n[1] = job[c].track
         PROVE  Shown(n)'
    <3>1. CASE On(n) /\ disk[n].by = c
      <4>1. Shown(n) /\ n[2] # "ytdlp"
        BY <1>1, <1>4, <3>1 DEF ScratchOK, At
      <4>2. n \in Finals => Renamed(n)
        BY <1>1, <2>9, <4>1 DEF Finals, Renamed
      <4> QED
        BY <1>2, <2>3, <3>1, <4>1, <4>2, Before DEF Shown, On
    <3>2. CASE ~ (On(n) /\ disk[n].by = c)
      BY <1>2, <1>4, <2>3, <3>2, Before DEF Shown, Same, On
    <3> QED
      BY <3>1, <3>2
  <2> QED
    BY <2>4, <2>5, <2>6, <2>8, <2>9 DEF Kept, Well
<1> QED
  BY <1>5, <1>6 DEF CopyBody

LEMMA RenamePartKept ==
  ASSUME DownloadsInv, NEW c \in Chats, RenamePart(c)
  PROVE  Kept(c)
<1>1. /\ At(c, "rename") /\ Fetching(c) /\ job[c].out = None /\ job[c].track \in Tracks
      /\ Kind[job[c].track] = "cdn"
  BY Before DEF RenamePart, At, JobOK, Fetching
<1>2. UNCHANGED Playback /\ UNCHANGED Sweeping /\ UNCHANGED Spoils /\ NoFault
  BY DEF RenamePart, NoFault
<1>3. PICK p \in Names, f \in Names :
        /\ p = File(c, "part") /\ f = File(c, "final") /\ p # f /\ f \in Finals /\ p \notin Finals
        /\ p[1] = job[c].track /\ f[1] = job[c].track /\ p[2] = "part" /\ f[2] = "final"
  BY <1>1, KindNames DEF File, Finals
<1>4. CASE On(p)
  <2>1. Turn(c, {"ready"}, f)
    BY <1>3, <1>4, Before, ReadyTurns DEF RenamePart
  <2>2. disk' = [disk EXCEPT ![f] = disk[p], ![p] = Absent]
    BY <1>3, <1>4 DEF RenamePart
  <2>3. /\ DiskKept(c) /\ disk'[f] = disk[p] /\ disk'[p] = Absent
        /\ \A n \in Names : n # f /\ n # p => Same(n)
    BY <1>3, <1>4, <2>2, Before, RenamedKeeps
  <2>4. disk'[f] # Absent
    BY <1>4, <2>3 DEF On
  <2>5. \A m \in Names : disk'[m] # Absent => disk'[m].by # c
    BY <1>1, <1>4, <2>3, NoMarks DEF Same, On, At
  <2>6. ASSUME NEW m \in Names, m[1] = job[c].track
        PROVE  Shown(m)'
    <3>1. CASE m = f
      <4>1. job[c].track \notin raced => disk[p].whole
        BY <1>1, <1>3, <1>4 DEF DownloadsInv, ScratchOK
      <4> QED
        BY <1>1, <1>2, <1>3, <2>3, <3>1, <4>1, Before DEF Shown, Renamed
    <3>2. CASE m = p
      BY <1>3, <3>2 DEF Shown, Finals
    <3>3. CASE m # f /\ m # p
      BY <1>2, <2>3, <3>3, Before DEF Shown, Same, On, DownloadsInv
    <3> QED
      BY <3>1, <3>2, <3>3
  <2> QED
    BY <1>1, <1>2, <1>3, <2>1, <2>3, <2>4, <2>5, <2>6, Before, ReadyStep
<1>5. CASE ~ On(p)
  <2>1. Turn(c, {"resolve", "ytdlp"}, None) /\ UNCHANGED disk
    BY <1>1, <1>3, <1>5, Before, NextCycleTurns DEF RenamePart
  <2>2. JobOK(c)'
    BY <1>1, <2>1 DEF JobOK, Turn, At
  <2> QED
    BY <1>1, <1>2, <2>1, <2>2, Before, CalmStep DEF At
<1> QED
  BY <1>4, <1>5

LEMMA YtDlpKept ==
  ASSUME DownloadsInv, NEW c \in Chats, YtDlp(c)
  PROVE  Kept(c)
<1>1. /\ At(c, "ytdlp") /\ Fetching(c) /\ job[c].out = None /\ job[c].track \in Tracks
      /\ Kind[job[c].track] \in {"cdn", "ytdlp"}
  BY Before DEF YtDlp, At, JobOK, Fetching
<1>2. UNCHANGED Playback /\ UNCHANGED Sweeping /\ UNCHANGED Spoils /\ NoFault
  BY DEF YtDlp, NoFault
<1>3. PICK y \in Names : /\ y = File(c, "ytdlp") /\ y \in Finals /\ y[1] = job[c].track /\ y[2] = "ytdlp"
  BY <1>1, KindNames DEF File, Finals
<1>4. CASE On(y) /\ Ready(c, y) /\ UNCHANGED disk
  <2>1. Turn(c, {"ready"}, y)
    BY <1>4, Before, ReadyTurns
  <2>2. DiskKept(c) /\ \A m \in Names : disk'[m] # Absent => disk'[m].by # c
    BY <1>1, <1>4, Before, DiskStays, NoMarks DEF On, At
  <2>3. \A m \in Names : Shown(m)'
    BY <1>2, <1>4, Before, ShownStays
  <2>4. disk'[y] # Absent
    BY <1>4 DEF On
  <2> QED
    BY <1>1, <1>2, <1>3, <2>1, <2>2, <2>3, <2>4, Before, ReadyStep
<1>5. CASE disk' = Created(y, c) /\ Go(c, "ytrun")
  <2>1. Turn(c, {"ytrun"}, None)
    BY <1>1, <1>5, Before, GoTurns DEF Stages
  <2>2. job'[c].pc = "ytrun" /\ job'[c].track = job[c].track /\ job'[c].out = None
    BY <2>1 DEF Turn
  <2>3. /\ DiskKept(c)
        /\ \A m \in Names : m # y => Same(m)
        /\ disk'[y] \in Files /\ disk'[y].by = c
    BY <1>3, <1>5, Before, CreatedKeeps
  <2>4. Handled(c)
    BY <1>1, <1>2, <2>1, <2>3, Before, MovedIsHandled
  <2>5. JobOK(c)'
    BY <1>1, <2>2 DEF JobOK, At
  <2>6. SeenOK(c)'
    <3>1. {"ytrun"} \cap {"idle", "open", "playing"} = {}
      OBVIOUS
    <3> QED
      BY <1>1, <1>2, <2>1, <2>2, <3>1, SeenMoves
  <2>7. \A n \in Names : (disk'[n] # Absent /\ disk'[n].by = c) => n = y
    BY <1>1, <2>3, NoMarks DEF Same, On, At
  <2>8. ScratchOK(c)' /\ GentleOK(c)'
    BY <1>3, <2>2, <2>7 DEF ScratchOK, GentleOK, At, On
  <2>9. ASSUME NEW n \in Names
        PROVE  Shown(n)'
    <3>1. CASE n = y
      BY <1>3, <2>3, <3>1, DownloadsAssumption DEF Shown, Renamed
    <3>2. CASE n # y
      BY <1>2, <2>3, <3>2, Before DEF Shown, Same, On, DownloadsInv
    <3> QED
      BY <3>1, <3>2
  <2> QED
    BY <2>4, <2>5, <2>6, <2>8, <2>9 DEF Kept, Well
<1> QED
  BY <1>3, <1>4, <1>5 DEF YtDlp

\* The program of c has ended, with its file or without.
LEMMA ProgramEnds ==
  ASSUME DownloadsInv, NEW c \in Chats, disk' = Completed(c, TRUE), UNCHANGED Spoils
  PROVE  /\ DiskKept(c)
         /\ \A n \in Names : disk'[n] # Absent => disk'[n].by # c
         /\ \A n \in Names : disk'[n] # Absent <=> On(n)
         /\ \A n \in Names : Shown(n)'
<1>1. Own(c) /\ \A n \in Names : Shown(n)
  BY NoMarks DEF DownloadsInv
<1>2. /\ DiskKept(c)
      /\ \A n \in Names : disk'[n] # Absent <=> On(n)
      /\ \A n \in Names : On(n) /\ disk[n].by = c =>
           disk'[n].whole /\ disk'[n].old = disk[n].old /\ disk'[n].by = None
      /\ \A n \in Names : ~ (On(n) /\ disk[n].by = c) => Same(n)
  BY <1>1, Before, CompletedKeeps
<1>3. \A n \in Names : disk'[n] # Absent => disk'[n].by # c
  BY <1>2, DownloadsAssumption DEF Same
<1>4. ASSUME NEW n \in Names
      PROVE  Shown(n)'
  <2>1. CASE On(n) /\ disk[n].by = c
    BY <1>2, <2>1 DEF Shown
  <2>2. CASE ~ (On(n) /\ disk[n].by = c)
    BY <1>1, <1>2, <2>2, Before DEF Shown, Same, On
  <2> QED
    BY <2>1, <2>2
<1> QED
  BY <1>2, <1>3, <1>4

\* The program of c was killed, and its track is marked so.
LEMMA ProgramDies ==
  ASSUME DownloadsInv, NEW c \in Chats, disk' = Abandoned(c), ~ At(c, "idle"),
         killed' = killed \cup {job[c].track}, UNCHANGED <<raced, snatched>>
  PROVE  /\ DiskKept(c)
         /\ \A n \in Names : disk'[n] # Absent => disk'[n].by # c
         /\ \A n \in Names : Shown(n)'
         /\ Remembered
<1>1. Own(c) /\ \A n \in Names : Shown(n)
  BY NoMarks DEF DownloadsInv
<1>2. /\ DiskKept(c)
      /\ \A n \in Names : disk'[n] # Absent <=> On(n)
      /\ \A n \in Names : On(n) /\ disk[n].by = c =>
           disk'[n].whole = disk[n].whole /\ disk'[n].old = disk[n].old /\ disk'[n].by = None
      /\ \A n \in Names : ~ (On(n) /\ disk[n].by = c) => Same(n)
  BY <1>1, Before, AbandonedKeeps
<1>3. \A n \in Names : disk'[n] # Absent => disk'[n].by # c
  BY <1>2, DownloadsAssumption DEF Same
<1>4. ASSUME NEW n \in Names
      PROVE  Shown(n)'
  <2>1. CASE On(n) /\ disk[n].by = c
    BY <1>1, <1>2, <2>1 DEF Shown, Own, On, Renamed
  <2>2. CASE ~ (On(n) /\ disk[n].by = c)
    BY <1>1, <1>2, <2>2 DEF Shown, Same, On
  <2> QED
    BY <2>1, <2>2
<1>5. job[c].track \in Tracks
  BY Before DEF JobOK
<1> QED
  BY <1>2, <1>3, <1>4, <1>5 DEF Remembered, DownloadsInv, TypeInv

LEMMA YtDlpEndsKept ==
  ASSUME DownloadsInv, NEW c \in Chats, YtDlpEnds(c)
  PROVE  Kept(c)
<1>1. /\ At(c, "ytrun") /\ Fetching(c) /\ job[c].out = None /\ job[c].track \in Tracks
      /\ Kind[job[c].track] \in {"cdn", "ytdlp"} /\ ~ At(c, "idle")
  BY Before DEF YtDlpEnds, At, JobOK, Fetching
<1>2. UNCHANGED Sweeping /\ UNCHANGED <<raced, snatched>> /\ faults' \in 0 .. MaxFaults
  BY Before DEF YtDlpEnds
<1>3. PICK y \in Names : /\ y = File(c, "ytdlp") /\ y \in Finals
  BY <1>1, KindNames DEF File, Finals
<1>4. CASE disk' = Completed(c, TRUE) /\ UNCHANGED Spoils /\ On(y) /\ Ready(c, y) /\ UNCHANGED Playback
  <2>1. Turn(c, {"ready"}, y)
    BY <1>4, Before, ReadyTurns
  <2>2. /\ DiskKept(c) /\ disk'[y] # Absent
        /\ \A n \in Names : disk'[n] # Absent => disk'[n].by # c
        /\ \A n \in Names : Shown(n)'
    BY <1>4, ProgramEnds
  <2> QED
    BY <1>1, <1>2, <1>3, <1>4, <2>1, <2>2, ReadyStep
<1>5. CASE disk' = Completed(c, TRUE) /\ UNCHANGED Spoils /\ Drop(c)
  <2>1. /\ DiskKept(c)
        /\ \A n \in Names : disk'[n] # Absent => disk'[n].by # c
        /\ \A n \in Names : Shown(n)'
    BY <1>5, ProgramEnds
  <2>2. Remembered
    BY <1>5, Before
  <2> QED
    BY <1>1, <1>2, <1>5, <2>1, <2>2, DropIsHandled DEF Kept
<1>6. CASE disk' = Abandoned(c) /\ Drop(c) /\ killed' = killed \cup {job[c].track}
  BY <1>1, <1>2, <1>6, ProgramDies, DropIsHandled DEF Kept
<1> QED
  BY <1>3, <1>4, <1>5, <1>6 DEF YtDlpEnds, Spoils

LEMMA NativeKept ==
  ASSUME DownloadsInv, NEW c \in Chats, Native(c)
  PROVE  Kept(c)
<1>1. /\ At(c, "native") /\ Fetching(c) /\ job[c].out = None /\ job[c].track \in Tracks
      /\ Kind[job[c].track] \notin {"cdn", "ytdlp", "spotify"} /\ ~ At(c, "idle")
  BY Before DEF Native, At, JobOK, Fetching
<1>2. UNCHANGED Sweeping /\ UNCHANGED Spoils /\ faults' \in 0 .. MaxFaults
  BY Before DEF Native
<1>3. PICK f \in Names : f = File(c, "final") /\ f \in Finals /\ f[1] = job[c].track
  BY <1>1, KindNames DEF File, Finals
<1>4. \A n \in Names : ~ (On(n) /\ disk[n].by = c)
  BY <1>1, NoMarks DEF At
<1>5. CASE On(f) /\ UNCHANGED disk /\ Ready(c, f) /\ UNCHANGED Playback
  <2>1. Turn(c, {"ready"}, f)
    BY <1>5, Before, ReadyTurns
  <2>2. DiskKept(c) /\ disk'[f] # Absent /\ \A m \in Names : disk'[m] # Absent => disk'[m].by # c
    BY <1>4, <1>5, Before, DiskStays DEF On
  <2>3. \A m \in Names : Shown(m)'
    BY <1>2, <1>5, Before, ShownStays
  <2> QED
    BY <1>1, <1>2, <1>3, <1>5, <2>1, <2>2, <2>3, ReadyStep
<1>6. CASE disk' = Written(f, TRUE) /\ Ready(c, f) /\ UNCHANGED Playback
  <2>1. Turn(c, {"ready"}, f)
    BY <1>6, Before, ReadyTurns
  <2>2. /\ DiskKept(c)
        /\ \A m \in Names : m # f => Same(m)
        /\ disk'[f] \in Files /\ disk'[f].whole /\ disk'[f].by = None
    BY <1>3, <1>6, Before, WrittenKeeps
  <2>3. disk'[f] # Absent /\ \A m \in Names : disk'[m] # Absent => disk'[m].by # c
    BY <1>4, <2>2, FilesAre, DownloadsAssumption DEF Same, On
  <2>4. ASSUME NEW m \in Names
        PROVE  Shown(m)'
    <3>1. CASE m = f
      BY <2>2, <3>1 DEF Shown
    <3>2. CASE m # f
      BY <1>2, <2>2, <3>2, Before DEF Shown, Same, On, DownloadsInv
    <3> QED
      BY <3>1, <3>2
  <2> QED
    BY <1>1, <1>2, <1>3, <1>6, <2>1, <2>2, <2>3, <2>4, ReadyStep
<1>7. CASE Drop(c) /\ UNCHANGED disk
  <2>1. DiskKept(c) /\ \A m \in Names : disk'[m] # Absent => disk'[m].by # c
    BY <1>4, <1>7, Before, DiskStays DEF On
  <2>2. \A m \in Names : Shown(m)'
    BY <1>2, <1>7, Before, ShownStays
  <2>3. Remembered
    BY <1>2, Before
  <2> QED
    BY <1>1, <1>2, <1>7, <2>1, <2>2, <2>3, DropIsHandled DEF Kept
<1> QED
  BY <1>3, <1>5, <1>6, <1>7 DEF Native

\* A spotify handler goes to the removal of its scratch files, with nothing.
LEMMA CleanStep ==
  ASSUME DownloadsInv, NEW c \in Chats, job[c].pc \in {"encrypt", "decrypt", "ffmpeg"}, Go(c, "clean"),
         UNCHANGED disk, UNCHANGED Playback, UNCHANGED Sweeping, UNCHANGED Spoils,
         faults' \in 0 .. MaxFaults
  PROVE  Kept(c)
<1>1. /\ Fetching(c) /\ job[c].out = None /\ job[c].track \in Tracks
      /\ Kind[job[c].track] = "spotify"
  BY Before DEF JobOK, Fetching, At
<1>2. Turn(c, {"clean"}, None)
  BY <1>1, Before, GoTurns DEF Stages
<1>3. JobOK(c)'
  BY <1>1, <1>2 DEF JobOK, Turn, At
<1> QED
  BY <1>1, <1>2, <1>3, CalmStep

\* A spotify handler writes a scratch file, that it looks for next.
LEMMA ScratchStep ==
  ASSUME DownloadsInv, NEW c \in Chats, NEW w \in BOOLEAN, NEW x, NEW p,
         \/ At(c, "encrypt") /\ x = "encrypted" /\ p = "decrypt"
         \/ At(c, "decrypt") /\ x = "decrypted" /\ p = "ffmpeg",
         disk' = Written(File(c, x), w), Go(c, p),
         UNCHANGED Playback, UNCHANGED Sweeping, UNCHANGED <<raced, killed>>, Snatches(File(c, x)),
         faults' \in 0 .. MaxFaults
  PROVE  Kept(c)
<1>1. /\ job[c].pc \in {"encrypt", "decrypt"} /\ Fetching(c) /\ job[c].out = None
      /\ job[c].track \in Tracks /\ Kind[job[c].track] = "spotify" /\ GentleOK(c)
  BY Before DEF JobOK, Fetching, At, DownloadsInv
<1>2. PICK n \in Names : /\ n = File(c, x) /\ n[1] = job[c].track /\ n[2] = x
                         /\ n # File(c, "final")
  BY <1>1, KindNames DEF File
<1>3. Turn(c, {p}, None)
  BY <1>1, Before, GoTurns DEF Stages
<1>4. job'[c].pc = p /\ job'[c].track = job[c].track /\ job'[c].out = None
  BY <1>3 DEF Turn
<1>5. /\ DiskKept(c)
      /\ \A m \in Names : m # n => Same(m)
      /\ disk'[n] \in Files /\ ~ disk'[n].old /\ disk'[n].by = None
  BY <1>2, Before, WrittenKeeps
<1>6. Handled(c)
  BY <1>1, <1>2, <1>3, <1>5, SnatchKept, MovedIsHandled
<1>7. JobOK(c)'
  BY <1>1, <1>4 DEF JobOK, At
<1>8. SeenOK(c)'
  <2>1. {p} \cap {"idle", "open", "playing"} = {}
    OBVIOUS
  <2> QED
    BY <1>1, <1>3, <1>4, <2>1, SeenMoves
<1>9. \A m \in Names : disk'[m] # Absent => disk'[m].by # c
  BY <1>1, <1>5, NoMarks, DownloadsAssumption DEF Same, On
<1>10. ScratchOK(c)'
  BY <1>4, <1>9 DEF ScratchOK, At, On
<1>11. GentleOK(c)'
  <2>1. File(c, x)' = n /\ File(c, "final")' = File(c, "final") /\ File(c, "final") \in Names
    BY <1>1, <1>2, <1>4, KindNames DEF File
  <2>2. job[c].track \notin raced \cup snatched /\ urgents = 0 => ~ On(File(c, "final"))
    BY <1>1 DEF GentleOK
  <2>3. job[c].track \notin raced' \cup snatched' /\ urgents' = 0 => ~ On(File(c, "final"))'
    BY <1>2, <1>5, <1>6, <2>1, <2>2 DEF Same, On, Sweeping, Handled, Remembered
  <2>4. On(File(c, x))' /\ ~ disk'[File(c, x)'].old
    BY <1>5, <2>1, FilesAre DEF On
  <2>5. job[c].track \notin snatched' => sweep'.doomed # n
    BY <1>2 DEF Snatches, Sweeping
  <2> QED
    BY <1>4, <2>1, <2>3, <2>4, <2>5 DEF GentleOK, Safe, At
<1>12. ASSUME NEW m \in Names
       PROVE  Shown(m)'
  <2>1. CASE m = n
    BY <1>2, <2>1 DEF Shown, Finals
  <2>2. CASE m # n
    BY <1>5, <1>6, <2>2 DEF Shown, Same, On, DownloadsInv, Handled, Remembered
  <2> QED
    BY <2>1, <2>2
<1> QED
  BY <1>6, <1>7, <1>8, <1>10, <1>11, <1>12 DEF Kept, Well

LEMMA EncryptKept ==
  ASSUME DownloadsInv, NEW c \in Chats, Encrypt(c)
  PROVE  Kept(c)
<1>1. /\ At(c, "encrypt") /\ UNCHANGED Playback /\ UNCHANGED Sweeping /\ UNCHANGED <<raced, killed>>
      /\ faults' \in 0 .. MaxFaults
  BY Before DEF Encrypt
<1>2. CASE /\ disk' = Written(File(c, "encrypted"), TRUE) /\ Snatches(File(c, "encrypted"))
           /\ Go(c, "decrypt")
  BY <1>1, <1>2, ScratchStep
<1>3. CASE Go(c, "clean") /\ UNCHANGED <<disk, snatched>>
  BY <1>1, <1>3, CleanStep DEF At, Spoils
<1> QED
  BY <1>2, <1>3 DEF Encrypt

LEMMA DecryptKept ==
  ASSUME DownloadsInv, NEW c \in Chats, Decrypt(c)
  PROVE  Kept(c)
<1>1. /\ At(c, "decrypt") /\ UNCHANGED Playback /\ UNCHANGED Sweeping /\ UNCHANGED <<raced, killed>>
      /\ faults' \in 0 .. MaxFaults
  BY Before DEF Decrypt, NoFault
<1>2. File(c, "encrypted") \in Names
  BY <1>1, Before, KindNames DEF JobOK, At, File
<1>3. CASE On(File(c, "encrypted"))
  <2>1. PICK w \in BOOLEAN : w = Whole(File(c, "encrypted"))
    BY <1>2, <1>3, Before, FilesAre DEF Whole, On
  <2> QED
    BY <1>1, <1>3, <2>1, ScratchStep DEF Decrypt
<1>4. CASE ~ On(File(c, "encrypted"))
  BY <1>1, <1>4, CleanStep DEF Decrypt, At, Spoils
<1> QED
  BY <1>3, <1>4

LEMMA FfmpegKept ==
  ASSUME DownloadsInv, NEW c \in Chats, Ffmpeg(c)
  PROVE  Kept(c)
<1>1. /\ At(c, "ffmpeg") /\ UNCHANGED Playback /\ UNCHANGED Sweeping /\ UNCHANGED Spoils
      /\ faults' \in 0 .. MaxFaults
  BY Before DEF Ffmpeg, NoFault
<1>2. /\ Fetching(c) /\ job[c].out = None /\ job[c].track \in Tracks
      /\ Kind[job[c].track] = "spotify"
  BY <1>1, Before DEF JobOK, Fetching, At
<1>3. PICK f \in Names : f = File(c, "final") /\ f[1] = job[c].track /\ f[2] = "final"
  BY <1>2, KindNames DEF File
<1>4. CASE Go(c, "clean") /\ UNCHANGED disk
  BY <1>1, <1>4, CleanStep DEF At
<1>5. CASE disk' = Created(f, c) /\ Go(c, "convert")
  <2>1. Turn(c, {"convert"}, None)
    BY <1>2, <1>5, Before, GoTurns DEF Stages
  <2>2. job'[c].pc = "convert" /\ job'[c].track = job[c].track /\ job'[c].out = None
    BY <2>1 DEF Turn
  <2>3. /\ DiskKept(c)
        /\ \A m \in Names : m # f => Same(m)
        /\ disk'[f] \in Files /\ disk'[f].by = c
    BY <1>3, <1>5, Before, CreatedKeeps
  <2>4. Handled(c)
    BY <1>1, <1>2, <2>1, <2>3, Before, MovedIsHandled
  <2>5. JobOK(c)'
    BY <1>2, <2>2 DEF JobOK, At
  <2>6. SeenOK(c)'
    <3>1. {"convert"} \cap {"idle", "open", "playing"} = {}
      OBVIOUS
    <3>2. disk'[<<job[c].track, "final">>] # Absent
      BY <1>3, <2>3, FilesAre DEF File
    <3> QED
      BY <1>1, <1>2, <2>1, <2>2, <3>1, <3>2, SeenMoves
  <2>7. \A n \in Names : (disk'[n] # Absent /\ disk'[n].by = c) => n = f
    BY <1>1, <2>3, NoMarks DEF Same, On, At
  <2>8. ScratchOK(c)' /\ GentleOK(c)'
    BY <1>3, <2>2, <2>7 DEF ScratchOK, GentleOK, At, On
  <2>9. ASSUME NEW n \in Names
        PROVE  Shown(n)'
    <3>1. CASE n = f
      BY <1>2, <1>3, <2>3, <3>1, DownloadsAssumption DEF Shown, Renamed
    <3>2. CASE n # f
      BY <1>1, <2>3, <3>2, Before DEF Shown, Same, On, DownloadsInv
    <3> QED
      BY <3>1, <3>2
  <2> QED
    BY <2>4, <2>5, <2>6, <2>8, <2>9 DEF Kept, Well
<1> QED
  BY <1>3, <1>4, <1>5 DEF Ffmpeg

LEMMA FfmpegEndsKept ==
  ASSUME DownloadsInv, NEW c \in Chats, FfmpegEnds(c)
  PROVE  Kept(c)
<1>1. /\ At(c, "convert") /\ UNCHANGED Playback /\ UNCHANGED Sweeping
      /\ faults' \in 0 .. MaxFaults
  BY Before DEF FfmpegEnds
<1>2. /\ Fetching(c) /\ job[c].out = None /\ job[c].track \in Tracks
      /\ Kind[job[c].track] = "spotify" /\ ~ At(c, "idle")
  BY <1>1, Before DEF JobOK, Fetching, At
<1>3. PICK f \in Names : f = File(c, "final")
  BY <1>2, KindNames DEF File
<1>4. {"clean"} \cap {"idle", "open", "playing"} = {}
  OBVIOUS
<1>5. CASE /\ disk' = Completed(c, TRUE) /\ UNCHANGED Spoils
           /\ job' = [job EXCEPT ![c].pc = "clean", ![c].out = f]
  <2>1. Turn(c, {"clean"}, f)
    <3> DEFINE j == [job[c] EXCEPT !.pc = "clean", !.out = f]
    <3>1. j \in Jobs /\ j.pc = "clean" /\ j.track = job[c].track /\ j.out = f
      BY Before DEF Jobs, Stages
    <3>2. job' = [job EXCEPT ![c] = j]
      BY <1>5
    <3> HIDE DEF j
    <3> QED
      BY <3>1, <3>2, Before DEF Turn
  <2>2. job'[c].pc = "clean" /\ job'[c].track = job[c].track /\ job'[c].out = f
    BY <2>1 DEF Turn
  <2>3. /\ DiskKept(c)
        /\ \A n \in Names : disk'[n] # Absent => disk'[n].by # c
        /\ \A n \in Names : disk'[n] # Absent <=> On(n)
        /\ \A n \in Names : Shown(n)'
    BY <1>5, ProgramEnds
  <2>4. Handled(c)
    BY <1>1, <1>2, <1>5, <2>1, <2>3, Before, MovedIsHandled
  <2>5. JobOK(c)'
    BY <1>2, <1>3, <2>2 DEF JobOK, At, File
  <2>6. SeenOK(c)'
    <3>1. Seen(c) => disk'[f] # Absent
      BY <1>1, <1>3, <2>3 DEF DownloadsInv, SeenOK
    <3> QED
      BY <1>1, <1>2, <1>4, <2>1, <2>2, <3>1, SeenMoves
  <2>7. ScratchOK(c)' /\ GentleOK(c)'
    BY <2>2, <2>3, NoScratch
  <2> QED
    BY <2>3, <2>4, <2>5, <2>6, <2>7 DEF Kept, Well
<1>6. CASE /\ disk' = Abandoned(c) /\ Go(c, "clean")
           /\ killed' = killed \cup {job[c].track} /\ UNCHANGED <<raced, snatched>>
  <2>1. Turn(c, {"clean"}, None)
    BY <1>2, <1>6, Before, GoTurns DEF Stages
  <2>2. job'[c].pc = "clean" /\ job'[c].track = job[c].track /\ job'[c].out = None
    BY <2>1 DEF Turn
  <2>3. /\ DiskKept(c)
        /\ \A n \in Names : disk'[n] # Absent => disk'[n].by # c
        /\ \A n \in Names : Shown(n)'
        /\ Remembered
    BY <1>2, <1>6, ProgramDies
  <2>4. Handled(c)
    BY <1>1, <1>2, <2>1, <2>3, MovedIsHandled
  <2>5. JobOK(c)'
    BY <1>2, <2>2 DEF JobOK, At
  <2>6. SeenOK(c)'
    BY <1>1, <1>2, <1>4, <2>1, <2>2, SeenMoves
  <2>7. ScratchOK(c)' /\ GentleOK(c)'
    BY <2>2, <2>3, NoScratch
  <2> QED
    BY <2>3, <2>4, <2>5, <2>6, <2>7 DEF Kept, Well
<1> QED
  BY <1>3, <1>5, <1>6 DEF FfmpegEnds, Spoils

\* The scratch files are not among the names a download shows.
LEMMA CleanScratchKept ==
  ASSUME DownloadsInv, NEW c \in Chats, CleanScratch(c)
  PROVE  Kept(c)
<1>1. /\ At(c, "clean") /\ UNCHANGED Sweeping /\ UNCHANGED Spoils
      /\ Remembered
      /\ faults' \in 0 .. MaxFaults
  BY Before DEF CleanScratch, NoFault
<1>2. /\ Fetching(c) /\ job[c].out \in {None, <<job[c].track, "final">>} /\ job[c].track \in Tracks
      /\ Kind[job[c].track] = "spotify" /\ ~ At(c, "idle")
  BY <1>1, Before DEF JobOK, Fetching, At
<1>3. PICK ns : /\ ns = {File(c, "encrypted"), File(c, "decrypted")}
                /\ disk' = Removed(ns)
                /\ \A n \in Names : n \in ns => n[1] = job[c].track /\ n \notin Finals
                /\ <<job[c].track, "final">> \notin ns
  BY DEF CleanScratch, File, Finals
<1>4. DiskKept(c) /\ \A n \in Names : IF n \in ns THEN disk'[n] = Absent ELSE Same(n)
  BY <1>3, Before, RemovedKeeps
<1>5. \A n \in Names : disk'[n] # Absent => disk'[n].by # c
  BY <1>1, <1>4, NoMarks DEF Same, On, At
<1>6. \A n \in Names : Shown(n)'
  BY <1>1, <1>4, Before DEF Shown, Same, On, DownloadsInv
<1>7. CASE job[c].out = None
  BY <1>1, <1>2, <1>4, <1>5, <1>6, <1>7, DropIsHandled DEF CleanScratch, Kept
<1>8. CASE job[c].out # None
  <2>1. PICK f \in Finals : f = <<job[c].track, "final">>
    BY <1>2, KindNames DEF Finals
  <2>2. job[c].out = f /\ f \in Names /\ f \notin ns
    BY <1>2, <1>3, <1>8, <2>1 DEF Finals
  <2>3. Turn(c, {"ready"}, f) /\ UNCHANGED Playback
    BY <1>8, <2>2, Before, GoTurns DEF CleanScratch, Stages
  <2>4. job'[c].pc = "ready" /\ job'[c].track = job[c].track /\ job'[c].out = f
    BY <2>3 DEF Turn
  <2>5. Handled(c)
    BY <1>1, <1>2, <1>4, <2>3, MovedIsHandled
  <2>6. JobOK(c)'
    BY <1>2, <2>1, <2>4 DEF JobOK, At
  <2>7. SeenOK(c)'
    <3>1. {"ready"} \cap {"idle", "open", "playing"} = {}
      OBVIOUS
    <3>2. Seen(c) => disk'[f] # Absent
      BY <1>1, <1>4, <1>8, <2>2 DEF DownloadsInv, SeenOK, Same, On, At
    <3> QED
      BY <1>1, <1>2, <2>3, <2>4, <3>1, <3>2, SeenMoves
  <2>8. ScratchOK(c)' /\ GentleOK(c)'
    BY <1>5, <2>4, NoScratch
  <2> QED
    BY <1>6, <2>5, <2>6, <2>7, <2>8 DEF Kept, Well
<1> QED
  BY <1>7, <1>8

\* A step of a handler that is done with the disk.
LEMMA PlayingStep ==
  ASSUME DownloadsInv, NEW c \in Chats, job[c].pc \in {"ready", "open", "playing"},
         NEW p \in {"open", "playing"}, Go(c, p),
         path' \in [Chats -> {None} \cup Finals], \A d \in Chats \ {c} : path'[d] = path[d],
         UNCHANGED <<disk, queued, missed, Spoils>>, UNCHANGED Sweeping, NoFault, SeenOK(c)'
  PROVE  Kept(c)
<1>1. Turn(c, {p}, job[c].out)
  BY Before, GoTurns DEF Stages
<1>2. job'[c].pc \in {"open", "playing"} /\ job'[c].track = job[c].track /\ job'[c].out = job[c].out
  BY <1>1 DEF Turn
<1>3. /\ job[c].out \in Finals /\ job[c].track \in Tracks /\ ~ At(c, "idle")
      /\ \A n \in Names : ~ (On(n) /\ disk[n].by = c)
  BY Before, NoMarks DEF JobOK, At
<1>4. DiskKept(c)
  BY Before, DiskStays
<1>5. /\ queued' \subseteq Chats /\ missed' \subseteq Chats /\ queued' = queued /\ missed' = missed
      /\ Remembered /\ faults' \in 0 .. MaxFaults
  BY Before DEF DownloadsInv, TypeInv
<1>6. /\ job' \in [Chats -> Jobs] /\ \A d \in Chats \ {c} : job'[d] = job[d]
  BY <1>1 DEF Turn
<1>7. Handled(c)
  BY <1>2, <1>3, <1>4, <1>5, <1>6 DEF Handled, Sweeping
<1>8. JobOK(c)'
  BY <1>2, <1>3 DEF JobOK, At
<1>9. ScratchOK(c)' /\ GentleOK(c)'
  BY <1>2, <1>3, NoScratch DEF On
<1>10. \A n \in Names : Shown(n)'
  BY <1>5, ShownStays
<1> QED
  BY <1>7, <1>8, <1>9, <1>10 DEF Kept, Well

\* The track gets its path while no sweep runs, or the sweep has missed it.
LEMMA SetPathKept ==
  ASSUME DownloadsInv, NEW c \in Chats, SetPath(c)
  PROVE  Kept(c)
<1>1. /\ At(c, "ready") /\ UNCHANGED <<disk, queued, missed, Spoils>> /\ UNCHANGED Sweeping /\ NoFault
      /\ Go(c, "open") /\ path' = [path EXCEPT ![c] = job[c].out]
  BY DEF SetPath, NoFault
<1>2. SeenOK(c) /\ path \in [Chats -> {None} \cup Finals] /\ job[c].out \in Finals /\ None \notin Names
  BY <1>1, Before, NoneIsNoName DEF DownloadsInv, TypeInv, JobOK, At
<1>3. /\ path' \in [Chats -> {None} \cup Finals] /\ path'[c] = job[c].out
      /\ \A d \in Chats \ {c} : path'[d] = path[d]
  BY <1>1, <1>2
<1>4. job'[c].pc = "open" /\ job'[c].out = job[c].out
  BY <1>1, Before, GoTurns DEF Turn, Stages
<1>5. SeenOK(c)'
  <2>1. Seen(c) => On(job[c].out) /\ sweep.pc = "idle"
    BY <1>1, <1>2 DEF SeenOK, Seen, At, Finals
  <2> QED
    BY <1>1, <1>2, <1>3, <1>4, <2>1 DEF SeenOK, Seen, At, On, Sweeping, Finals
<1> QED
  BY <1>1, <1>3, <1>5, PlayingStep DEF At

\* The track leaves the queue, and its file is not touched.
LEMMA DropStep ==
  ASSUME DownloadsInv, NEW c \in Chats, Drop(c), job[c].pc \in {"open", "playing"},
         UNCHANGED <<disk, Spoils>>, UNCHANGED Sweeping, NoFault
  PROVE  Kept(c)
<1>1. /\ ~ At(c, "idle")
      /\ \A n \in Names : ~ (On(n) /\ disk[n].by = c)
  BY NoMarks DEF At
<1>2. DiskKept(c)
  BY Before, DiskStays
<1>3. \A n \in Names : disk'[n] # Absent => disk'[n].by # c
  BY <1>1 DEF On
<1>4. Remembered /\ faults' \in 0 .. MaxFaults
  BY Before
<1>5. \A n \in Names : Shown(n)'
  BY <1>4, ShownStays
<1> QED
  BY <1>1, <1>2, <1>3, <1>4, <1>5, DropIsHandled DEF Kept

\* A file that plays is opened or opened again.
LEMMA OpenStep ==
  ASSUME DownloadsInv, NEW c \in Chats, job[c].pc \in {"open", "playing"},
         NEW p \in {"open", "playing"}, Go(c, p), UNCHANGED Playback,
         UNCHANGED <<disk, Spoils>>, UNCHANGED Sweeping, NoFault
  PROVE  Kept(c)
<1>1. /\ path' = path /\ queued' = queued /\ missed' = missed /\ sweep' = sweep
      /\ path' \in [Chats -> {None} \cup Finals] /\ SeenOK(c)
  BY DEF Playback, Sweeping, DownloadsInv, TypeInv
<1>2. job'[c].pc \in {"open", "playing"}
  BY Before, GoTurns DEF Turn, Stages
<1>3. SeenOK(c)'
  BY <1>1, <1>2 DEF SeenOK, Seen, At, On
<1> QED
  BY <1>1, <1>3, PlayingStep

LEMMA OpenKept ==
  ASSUME DownloadsInv, NEW c \in Chats, Open(c)
  PROVE  Kept(c)
<1>1. /\ At(c, "open") /\ UNCHANGED <<disk, Spoils>> /\ UNCHANGED Sweeping /\ NoFault
  BY DEF Open, NoFault
<1>2. CASE Go(c, "playing") /\ UNCHANGED Playback
  BY <1>1, <1>2, OpenStep DEF At
<1>3. CASE Drop(c)
  BY <1>1, <1>3, DropStep DEF At
<1> QED
  BY <1>2, <1>3 DEF Open

LEMMA ReopenKept ==
  ASSUME DownloadsInv, NEW c \in Chats, Reopen(c)
  PROVE  Kept(c)
<1>1. /\ At(c, "playing") /\ UNCHANGED <<disk, Spoils>> /\ UNCHANGED Sweeping /\ NoFault
      /\ Go(c, "open") /\ UNCHANGED Playback
  BY DEF Reopen, NoFault
<1> QED
  BY <1>1, OpenStep DEF At

LEMMA EndKept ==
  ASSUME DownloadsInv, NEW c \in Chats, End(c)
  PROVE  Kept(c)
<1>1. /\ At(c, "playing") /\ UNCHANGED <<disk, Spoils>> /\ UNCHANGED Sweeping /\ NoFault /\ Drop(c)
  BY DEF End, NoFault
<1> QED
  BY <1>1, DropStep DEF At

\* Every action of a handler is such a step.
LEMMA HandlerKept ==
  ASSUME DownloadsInv, NEW c \in Chats, Handler(c) \/ Reopen(c) \/ End(c)
  PROVE  Kept(c)
  BY ResolveKept, StatFileKept, CreatePartKept, CopyBodyKept, RenamePartKept, YtDlpKept,
     YtDlpEndsKept, NativeKept, EncryptKept, DecryptKept, FfmpegKept, FfmpegEndsKept,
     CleanScratchKept, SetPathKept, OpenKept, ReopenKept, EndKept DEF Handler

LEMMA HandlerKeeps ==
  ASSUME DownloadsInv, NEW c \in Chats, Handler(c) \/ Reopen(c) \/ End(c)
  PROVE  DownloadsInv'
  BY HandlerKept, HandledKeeps DEF Kept
-----------------------------------------------------------------------------
(* The other steps. *)

\* What is known before a step.
LEMMA Known ==
  ASSUME DownloadsInv
  PROVE  /\ disk \in [Names -> Files \cup {Absent}]
         /\ UNCHANGED Spoils => Remembered /\ raced' = raced /\ killed' = killed /\ snatched' = snatched
         /\ NoFault => faults' \in 0 .. MaxFaults
         /\ Fault => faults' \in 0 .. MaxFaults
  BY DownloadsAssumption, Unspoiled DEF DownloadsInv, TypeInv, NoFault, Fault

\* A request that finds a sweep running is one the sweep has missed.
LEMMA RequestKeeps ==
  ASSUME DownloadsInv, NEW c \in Chats, NEW t \in Tracks, Request(c, t)
  PROVE  DownloadsInv'
<1>1. PICK p : /\ p = CASE Kind[t] = "cdn" -> "resolve"
                        [] Kind[t] = "ytdlp" -> "ytdlp"
                        [] Kind[t] = "spotify" -> "stat"
                        [] OTHER -> "native"
               /\ job' = [job EXCEPT ![c] = [pc |-> p, track |-> t, cycle |-> 1, out |-> None]]
  BY DEF Request
<1>2. /\ p \in {"resolve", "ytdlp", "stat", "native"} /\ p \in Stages
      /\ p = "resolve" => Kind[t] = "cdn"
      /\ p = "stat" => Kind[t] = "spotify"
      /\ p = "ytdlp" => Kind[t] = "ytdlp"
      /\ p = "native" => Kind[t] \notin {"cdn", "ytdlp", "spotify"}
  BY <1>1 DEF Stages
<1>3. /\ job' \in [Chats -> Jobs] /\ \A d \in Chats \ {c} : job'[d] = job[d]
      /\ job'[c].pc = p /\ job'[c].track = t /\ job'[c].out = None
  <2>1. 1 \in 0 .. Cycles
    BY DownloadsAssumption
  <2> DEFINE j == [pc |-> p, track |-> t, cycle |-> 1, out |-> None]
  <2>2. j \in Jobs /\ j.pc = p /\ j.track = t /\ j.out = None
    BY <1>2, <2>1 DEF Jobs
  <2>3. job' = [job EXCEPT ![c] = j]
    BY <1>1
  <2> HIDE DEF j
  <2> QED
    BY <2>2, <2>3, Before
<1>4. /\ path' \in [Chats -> {None} \cup Finals] /\ path'[c] = None
      /\ \A d \in Chats \ {c} : path'[d] = path[d]
      /\ queued' \subseteq Chats /\ missed' \subseteq Chats
      /\ \A d \in Chats \ {c} : (d \in queued' <=> d \in queued) /\ (d \in missed' <=> d \in missed)
      /\ c \notin missed' => sweep.pc = "idle"
  BY DEF Request, DownloadsInv, TypeInv
<1>5. /\ UNCHANGED <<disk, sweep, faults, urgents, restarts>>
      /\ requests' \in 0 .. MaxRequests
      /\ Remembered
      /\ (\E d \in Chats : Fetching(d) /\ job[d].track = t) => t \in raced'
  <2>1. requests \in 0 .. MaxRequests /\ MaxRequests \in Nat
    BY DownloadsAssumption DEF DownloadsInv, TypeInv
  <2> QED
    BY <2>1 DEF Request, Remembered, DownloadsInv, TypeInv
<1>6. \A d \in Chats : JobOK(d)'
  <2>1. JobOK(c)'
    BY <1>2, <1>3 DEF JobOK, At
  <2>2. \A d \in Chats \ {c} : JobOK(d)'
    BY <1>3 DEF JobOK, At, DownloadsInv, TypeInv
  <2> QED
    BY <2>1, <2>2
<1>7. TypeInv'
  BY <1>3, <1>4, <1>5, <1>6 DEF DownloadsInv, TypeInv, Remembered
<1>8. SweepOK'
  BY <1>5 DEF DownloadsInv, SweepOK
<1>9. Alone'
  <2> SUFFICES ASSUME NEW x \in Chats, NEW y \in Chats, x # y, Fetching(x)', Fetching(y)',
                      job'[x].track = job'[y].track
               PROVE  job'[x].track \in raced'
    BY DEF Alone
  <2>1. CASE x = c
    BY <1>3, <1>5, <2>1 DEF Fetching
  <2>2. CASE y = c
    BY <1>3, <1>5, <2>2 DEF Fetching
  <2>3. CASE x # c /\ y # c
    BY <1>3, <1>5, <2>3 DEF Fetching, Alone, DownloadsInv, Remembered
  <2> QED
    BY <2>1, <2>2, <2>3
<1>10. ASSUME NEW d \in Chats
       PROVE  SeenOK(d)' /\ ScratchOK(d)' /\ GentleOK(d)'
  <2>1. CASE d = c
    <3>1. SeenOK(c)'
      BY <1>2, <1>3, <1>4, <1>5 DEF SeenOK, Seen, At
    <3>2. \A n \in Names : disk'[n] # Absent => disk'[n].by # c
      BY <1>5, NoMarks DEF On, Request, At
    <3>3. ScratchOK(c)' /\ GentleOK(c)'
      BY <1>2, <1>3, <3>2, NoScratch
    <3> QED
      BY <2>1, <3>1, <3>3
  <2>2. CASE d # c
    <3>1. SeenOK(d)'
      BY <1>3, <1>4, <1>5, <2>2 DEF SeenOK, Seen, At, On, File, DownloadsInv
    <3>2. ScratchOK(d)'
      BY <1>3, <1>5, <2>2 DEF ScratchOK, At, On, File, DownloadsInv, Remembered
    <3>3. GentleOK(d)'
      BY <1>3, <1>5, <2>2 DEF GentleOK, Safe, At, On, File, DownloadsInv, Remembered
    <3> QED
      BY <3>1, <3>2, <3>3
  <2> QED
    BY <2>1, <2>2
<1>11. \A n \in Names : Shown(n)'
  BY <1>5, ShownStays
<1> QED
  BY <1>7, <1>8, <1>9, <1>10, <1>11 DEF DownloadsInv

\* A cleared queue asks less of the disk.
LEMMA StopKeeps ==
  ASSUME DownloadsInv, NEW c \in Chats, Stop(c)
  PROVE  DownloadsInv'
<1>1. /\ UNCHANGED <<disk, job, path, missed, faults, Spoils>> /\ UNCHANGED <<sweep, requests, urgents, restarts>>
      /\ Remembered /\ raced' = raced /\ killed' = killed /\ snatched' = snatched
      /\ queued' \subseteq queued
  BY Unspoiled DEF Stop, Sweeping
<1>2. TypeInv' /\ SweepOK' /\ Alone'
  BY <1>1 DEF DownloadsInv, TypeInv, SweepOK, Alone, Fetching, JobOK, At
<1>3. ASSUME NEW d \in Chats
      PROVE  SeenOK(d)' /\ ScratchOK(d)' /\ GentleOK(d)'
  <2>1. SeenOK(d)'
    BY <1>1 DEF SeenOK, Seen, At, On, File, DownloadsInv
  <2>2. ScratchOK(d)' /\ GentleOK(d)'
    BY <1>1 DEF ScratchOK, GentleOK, Safe, At, On, File, DownloadsInv
  <2> QED
    BY <2>1, <2>2
<1>4. \A n \in Names : Shown(n)'
  BY <1>1, ShownStays
<1> QED
  BY <1>2, <1>3, <1>4 DEF DownloadsInv

\* A step of the sweep leaves the handlers as they are.
LEMMA SweepingStays ==
  ASSUME DownloadsInv, UNCHANGED Handlers
  PROVE  /\ job' = job /\ queued' = queued /\ path' = path
         /\ Remembered /\ raced' = raced /\ killed' = killed /\ snatched' = snatched
         /\ (\A d \in Chats : JobOK(d))' /\ Alone'
         /\ job' \in [Chats -> Jobs] /\ queued' \subseteq Chats /\ path' \in [Chats -> {None} \cup Finals]
         /\ requests' \in 0 .. MaxRequests /\ restarts' \in 0 .. MaxRestarts
<1>1. /\ job' = job /\ queued' = queued /\ path' = path /\ UNCHANGED <<requests, restarts>>
      /\ Remembered /\ raced' = raced /\ killed' = killed /\ snatched' = snatched
  BY Unspoiled DEF Handlers
<1> QED
  BY <1>1 DEF DownloadsInv, TypeInv, Alone, Fetching, JobOK, At

\* The files that a handler works with have names.
LEMMA WorkFiles ==
  ASSUME DownloadsInv, NEW d \in Chats
  PROVE  /\ job[d].pc \in {"copy", "rename"} => File(d, "part") \in Names
         /\ job[d].pc \in {"encrypt", "decrypt", "ffmpeg", "convert"} =>
              {File(d, "final"), File(d, "encrypted"), File(d, "decrypted")} \subseteq Names
<1>1. JobOK(d)
  BY DEF DownloadsInv, TypeInv
<1> QED
  BY <1>1, KindNames DEF JobOK, At, File

\* What keeps the safe files safe disturbs no download.
LEMMA GentleStays ==
  ASSUME DownloadsInv, NEW d \in Chats, job' = job, raced' = raced, snatched' = snatched,
         urgents' = 0 => urgents = 0,
         urgents = 0 => \A n \in Names : Safe(n) => Safe(n)',
         \A n \in Names : ~ On(n) => ~ On(n)'
  PROVE  GentleOK(d)'
<1>1. GentleOK(d)
  BY DEF DownloadsInv
<1>2. \A e : File(d, e)' = File(d, e)
  BY DEF File
<1> SUFFICES ASSUME job[d].track \notin raced \cup snatched, urgents = 0
             PROVE  /\ job[d].pc \in {"copy", "rename"} => Safe(File(d, "part"))'
                    /\ At(d, "decrypt") => Safe(File(d, "encrypted"))'
                    /\ At(d, "ffmpeg") => Safe(File(d, "decrypted"))'
                    /\ job[d].pc \in {"encrypt", "decrypt", "ffmpeg"} => ~ On(File(d, "final"))'
  BY DEF GentleOK, At
<1>3. /\ job[d].pc \in {"copy", "rename"} => Safe(File(d, "part"))
      /\ At(d, "decrypt") => Safe(File(d, "encrypted"))
      /\ At(d, "ffmpeg") => Safe(File(d, "decrypted"))
      /\ job[d].pc \in {"encrypt", "decrypt", "ffmpeg"} => ~ On(File(d, "final"))
  BY <1>1 DEF GentleOK
<1>4. \A n \in Names : Safe(n) => (On(n) /\ ~ disk[n].old /\ sweep.doomed # n)'
  BY DEF Safe
<1>5. CASE job[d].pc \in {"copy", "rename"}
  <2>1. (On(File(d, "part")) /\ ~ disk[File(d, "part")].old /\ sweep.doomed # File(d, "part"))'
    BY <1>2, <1>3, <1>4, <1>5, WorkFiles DEF On
  <2> QED
    BY <1>5, <2>1 DEF Safe, At
<1>6. CASE At(d, "decrypt")
  <2>1. (On(File(d, "encrypted")) /\ ~ disk[File(d, "encrypted")].old
          /\ sweep.doomed # File(d, "encrypted"))'
    BY <1>2, <1>3, <1>4, <1>6, WorkFiles DEF On, At
  <2>2. ~ On(File(d, "final"))'
    BY <1>2, <1>3, <1>6, WorkFiles DEF On, At
  <2> QED
    BY <1>6, <2>1, <2>2 DEF Safe, At
<1>7. CASE At(d, "ffmpeg")
  <2>1. (On(File(d, "decrypted")) /\ ~ disk[File(d, "decrypted")].old
          /\ sweep.doomed # File(d, "decrypted"))'
    BY <1>2, <1>3, <1>4, <1>7, WorkFiles DEF On, At
  <2>2. ~ On(File(d, "final"))'
    BY <1>2, <1>3, <1>7, WorkFiles DEF On, At
  <2> QED
    BY <1>7, <2>1, <2>2 DEF Safe, At
<1>8. CASE At(d, "encrypt")
  <2>1. ~ On(File(d, "final"))'
    BY <1>2, <1>3, <1>8, WorkFiles DEF On, At
  <2> QED
    BY <1>8, <2>1 DEF At
<1> QED
  BY <1>5, <1>6, <1>7, <1>8 DEF At

\* A sweep that begins has missed every track without a path.
LEMMA BeginSweepKeeps ==
  ASSUME DownloadsInv, NEW urgent \in BOOLEAN, BeginSweep(urgent)
  PROVE  DownloadsInv'
<1>1. /\ missed' = missed \cup {c \in Chats : ~At(c, "idle") /\ ~(c \in queued /\ path[c] # None)}
      /\ UNCHANGED <<disk, faults>> /\ UNCHANGED Handlers
  BY DEF BeginSweep
<1>2. /\ urgents' \in 0 .. MaxUrgent /\ (urgents' = 0 => urgents = 0) /\ (urgent => urgents' > 0)
  <2>1. urgents \in 0 .. MaxUrgent /\ MaxUrgent \in Nat
    BY DownloadsAssumption DEF DownloadsInv, TypeInv
  <2> QED
    BY <2>1 DEF BeginSweep
<1>3. InUse \subseteq Names /\ Walked \subseteq Directories
  BY DEF InUse, Walked, DownloadsInv, TypeInv, Finals
<1>4. /\ sweep'.pc = "media" /\ sweep'.inUse = InUse /\ sweep'.urgent = urgent
      /\ sweep'.todo = {} /\ sweep'.doomed = None
      /\ sweep' \in Sweeps
  <2>1. sweep' = [pc |-> "media", urgent |-> urgent, inUse |-> InUse, dirs |-> Walked,
                  todo |-> {}, doomed |-> None]
    BY DEF BeginSweep, Resting
  <2> QED
    BY <1>3, <2>1 DEF Sweeps
<1>5. TypeInv' /\ Alone'
  BY <1>1, <1>2, <1>4, SweepingStays DEF DownloadsInv, TypeInv, Remembered
<1>6. SweepOK'
  BY <1>2, <1>4 DEF SweepOK
<1>7. ASSUME NEW d \in Chats
      PROVE  SeenOK(d)' /\ ScratchOK(d)' /\ GentleOK(d)'
  <2>1. /\ job' = job /\ queued' = queued /\ path' = path /\ disk' = disk
        /\ raced' = raced /\ killed' = killed /\ snatched' = snatched
    BY <1>1, SweepingStays
  <2>2. SeenOK(d)'
    <3>1. Seen(d)' => Seen(d)
      BY <1>1, <2>1 DEF Seen
    <3>2. Seen(d) /\ path[d] # None => path[d] \in sweep'.inUse
      BY <1>4 DEF Seen, InUse
    <3>3. d \notin missed' /\ ~ At(d, "idle") => path[d] # None
      BY <1>1
    <3> QED
      BY <2>1, <3>1, <3>2, <3>3 DEF SeenOK, At, On, File, DownloadsInv
  <2>3. ScratchOK(d)'
    BY <2>1 DEF ScratchOK, At, On, File, DownloadsInv
  <2>4. \A n \in Names : (Safe(n) => Safe(n)') /\ (~ On(n) => ~ On(n)')
    BY <1>4, <2>1, NoneIsNoName DEF Safe, On
  <2>5. GentleOK(d)'
    BY <1>2, <2>1, <2>4, GentleStays
  <2> QED
    BY <2>2, <2>3, <2>5
<1>8. \A n \in Names : Shown(n)'
  BY <1>1, SweepingStays, ShownStays
<1> QED
  BY <1>5, <1>6, <1>7, <1>8 DEF DownloadsInv

\* The sweep removes no file that the tracks it saw rely on, and none that is
\* safe.
LEMMA RemoveKeeps ==
  ASSUME DownloadsInv, Remove
  PROVE  DownloadsInv'
<1> DEFINE n == sweep.doomed
<1>1. n # None /\ sweep.pc # "idle" /\ n \notin sweep.inUse /\ sweep \in Sweeps
  BY DEF Remove, DownloadsInv, TypeInv, SweepOK
<1>2. /\ sweep' \in Sweeps
      /\ sweep'.pc = sweep.pc /\ sweep'.urgent = sweep.urgent /\ sweep'.inUse = sweep.inUse
      /\ sweep'.todo = sweep.todo /\ sweep'.doomed = None
  BY <1>1 DEF Remove, Sweeps
<1>3. UNCHANGED Handlers /\ missed' = missed /\ urgents' = urgents /\ faults' \in 0 .. MaxFaults
  BY Known DEF Remove
<1>4. /\ disk' \in [Names -> Files \cup {Absent}]
      /\ \A m \in Names : disk'[m] = disk[m] \/ (disk'[m] = Absent /\ m = n)
  <2>1. disk \in [Names -> Files \cup {Absent}]
    BY Known
  <2>2. CASE UNCHANGED disk
    BY <2>1, <2>2
  <2>3. CASE disk' = Removed({n})
    <3>1. \A m \in Names : disk'[m] = IF m = n THEN Absent ELSE disk[m]
      BY <2>3 DEF Removed
    <3>2. disk' \in [Names -> Files \cup {Absent}]
      BY <2>1, <2>3 DEF Removed
    <3> QED
      BY <3>1, <3>2
  <2> QED
    BY <2>2, <2>3 DEF Remove
<1> HIDE DEF n
<1>5. TypeInv' /\ Alone'
  BY <1>2, <1>3, <1>4, SweepingStays DEF DownloadsInv, TypeInv, Remembered
<1>6. SweepOK'
  BY <1>1, <1>2, <1>3 DEF DownloadsInv, SweepOK
<1>7. ASSUME NEW d \in Chats
      PROVE  SeenOK(d)' /\ ScratchOK(d)' /\ GentleOK(d)'
  <2>1. /\ job' = job /\ queued' = queued /\ path' = path
        /\ raced' = raced /\ killed' = killed /\ snatched' = snatched
    BY <1>3, SweepingStays
  <2>2. SeenOK(d) /\ ScratchOK(d) /\ path[d] \in {None} \cup Finals
    BY DEF DownloadsInv, TypeInv
  <2>3. SeenOK(d)'
    <3>1. Seen(d) /\ ~ At(d, "idle") => path[d] # None /\ path[d] # n /\ job[d].pc \in {"open", "playing"}
      BY <1>1, <2>2 DEF SeenOK, Seen
    <3>2. Seen(d) => ~ At(d, "idle")
      BY <2>2 DEF SeenOK, Seen
    <3>3. Seen(d) => disk'[path[d]] # Absent
      BY <1>4, <2>2, <3>1, <3>2 DEF SeenOK, On, Finals
    <3> QED
      BY <1>2, <1>3, <2>1, <2>2, <3>1, <3>2, <3>3 DEF SeenOK, Seen, At, On
  <2>4. \A e : File(d, e)' = File(d, e)
    BY <2>1 DEF File
  <2>5. ScratchOK(d)'
    BY <1>4, <2>1, <2>2, <2>4, WorkFiles DEF ScratchOK, At, On
  <2>6. \A m \in Names : (Safe(m) => Safe(m)') /\ (~ On(m) => ~ On(m)')
    BY <1>2, <1>4, NoneIsNoName DEF Safe, On, n
  <2>7. GentleOK(d)'
    BY <1>3, <2>1, <2>6, GentleStays
  <2> QED
    BY <2>3, <2>5, <2>7
<1>8. \A m \in Names : Shown(m)'
  BY <1>3, <1>4, SweepingStays DEF Shown, On, DownloadsInv
<1> QED
  BY <1>5, <1>6, <1>7, <1>8 DEF DownloadsInv

\* The sweep goes on to another file or directory, or ends.  What it is about
\* to remove was old when it looked, if it is no urgent one.
LEMMA SweepMoves ==
  ASSUME DownloadsInv, UNCHANGED Handlers, UNCHANGED <<disk, faults, urgents, missed>>,
         sweep' \in Sweeps, SweepOK',
         sweep'.pc = "idle" \/ (sweep.pc # "idle" /\ sweep'.inUse = sweep.inUse),
         \/ sweep'.doomed = None
         \/ urgents = 0 => disk[sweep'.doomed].old
  PROVE  DownloadsInv'
<1>1. TypeInv' /\ Alone'
  BY SweepingStays DEF DownloadsInv, TypeInv, Remembered
<1>2. ASSUME NEW d \in Chats
      PROVE  SeenOK(d)' /\ ScratchOK(d)' /\ GentleOK(d)'
  <2>1. /\ job' = job /\ queued' = queued /\ path' = path /\ disk' = disk
        /\ raced' = raced /\ killed' = killed /\ snatched' = snatched
    BY SweepingStays
  <2>2. SeenOK(d)'
    BY <2>1 DEF SeenOK, Seen, At, On, File, DownloadsInv
  <2>3. ScratchOK(d)'
    BY <2>1 DEF ScratchOK, At, On, File, DownloadsInv
  <2>4. urgents = 0 => \A n \in Names : Safe(n) => Safe(n)'
    BY <2>1, NoneIsNoName DEF Safe, On
  <2>5. \A n \in Names : ~ On(n) => ~ On(n)'
    BY <2>1 DEF On
  <2>6. GentleOK(d)'
    BY <2>1, <2>4, <2>5, GentleStays
  <2> QED
    BY <2>2, <2>3, <2>6
<1>3. \A n \in Names : Shown(n)'
  BY SweepingStays, ShownStays
<1> QED
  BY <1>1, <1>2, <1>3 DEF DownloadsInv

\* The look at a file.
LEMMA VisitKeeps ==
  ASSUME DownloadsInv, NEW n \in Names, Visit(n)
  PROVE  DownloadsInv'
<1>1. /\ n \in sweep.todo /\ sweep.pc # "idle" /\ n \notin sweep.inUse /\ sweep \in Sweeps
      /\ sweep.urgent => urgents > 0
      /\ sweep.todo \cap sweep.inUse = {}
  BY DEF Visit, DownloadsInv, TypeInv, SweepOK
<1>2. PICK x \in {None, n} : /\ sweep' = [sweep EXCEPT !.todo = @ \ {n}, !.doomed = x]
                             /\ x # None => ~ Spares(n)
  BY DEF Visit
<1>3. /\ sweep' \in Sweeps /\ sweep'.pc = sweep.pc /\ sweep'.inUse = sweep.inUse
      /\ sweep'.urgent = sweep.urgent /\ sweep'.todo = sweep.todo \ {n} /\ sweep'.doomed = x
  BY <1>1, <1>2 DEF Sweeps
<1>4. UNCHANGED Handlers /\ UNCHANGED <<disk, faults, urgents, missed>>
  BY DEF Visit
<1>5. SweepOK'
  BY <1>1, <1>3, <1>4 DEF SweepOK
<1>6. \/ sweep'.doomed = None
      \/ urgents = 0 => disk[sweep'.doomed].old
  <2>1. x # None /\ urgents = 0 => disk[n].old
    BY <1>1, <1>2 DEF Spares
  <2> QED
    BY <1>3, <2>1
<1> QED
  BY <1>1, <1>3, <1>4, <1>5, <1>6, SweepMoves

\* A list of files, of one of TDLib's directories or of the bot's own.
LEMMA ListKeeps ==
  ASSUME DownloadsInv, UNCHANGED Handlers, UNCHANGED <<disk, faults, urgents, missed>>,
         sweep.pc # "idle", NEW p \in {"media", "downloads"}, NEW ds \in SUBSET Directories,
         NEW td \in SUBSET Names, td \cap sweep.inUse = {}, sweep.doomed = None,
         sweep' = [sweep EXCEPT !.pc = p, !.dirs = ds, !.todo = td]
  PROVE  DownloadsInv'
<1>1. sweep \in Sweeps /\ (sweep.urgent => urgents > 0)
  BY DEF DownloadsInv, TypeInv, SweepOK
<1>2. /\ sweep' \in Sweeps /\ sweep'.pc = p /\ sweep'.inUse = sweep.inUse
      /\ sweep'.urgent = sweep.urgent /\ sweep'.todo = td /\ sweep'.doomed = None
  BY <1>1 DEF Sweeps
<1>3. SweepOK'
  BY <1>1, <1>2 DEF SweepOK
<1> QED
  BY <1>2, <1>3, SweepMoves

LEMMA SweepGoesOn ==
  ASSUME DownloadsInv, (\E dir \in Directories : ListMedia(dir)) \/ ListDownloads \/ EndSweep
  PROVE  DownloadsInv'
<1>1. sweep \in Sweeps /\ sweep.dirs \subseteq Directories
  BY DEF DownloadsInv, TypeInv, Sweeps
<1>2. ASSUME NEW dir \in Directories, ListMedia(dir)
      PROVE  DownloadsInv'
  <2> DEFINE td == {n \in Media(dir) : On(n)} \ sweep.inUse
             ds == sweep.dirs \ {dir}
  <2>1. sweep.pc = "media" /\ sweep.doomed = None
    BY <1>2 DEF ListMedia, Listed
  <2>2. sweep' = [sweep EXCEPT !.pc = "media", !.dirs = ds, !.todo = td]
    BY <1>1, <1>2, <2>1 DEF ListMedia, Sweeps
  <2>3. td \in SUBSET Names /\ td \cap sweep.inUse = {} /\ ds \in SUBSET Directories
    BY <1>1 DEF Media
  <2>4. UNCHANGED Handlers /\ UNCHANGED <<disk, faults, urgents, missed>>
    BY <1>2 DEF ListMedia
  <2> HIDE DEF td, ds
  <2> QED
    BY <2>1, <2>2, <2>3, <2>4, ListKeeps
<1>3. CASE ListDownloads
  <2> DEFINE td == {n \in Loose : On(n)} \ sweep.inUse
  <2>1. sweep.pc = "media" /\ sweep.doomed = None
    BY <1>3 DEF ListDownloads, Listed
  <2>2. sweep' = [sweep EXCEPT !.pc = "downloads", !.dirs = sweep.dirs, !.todo = td]
    BY <1>1, <1>3 DEF ListDownloads, Sweeps
  <2>3. td \in SUBSET Names /\ td \cap sweep.inUse = {}
    BY DEF Loose
  <2>4. UNCHANGED Handlers /\ UNCHANGED <<disk, faults, urgents, missed>>
    BY <1>3 DEF ListDownloads
  <2> HIDE DEF td
  <2> QED
    BY <1>1, <2>1, <2>2, <2>3, <2>4, ListKeeps
<1>4. CASE EndSweep
  <2>1. UNCHANGED Handlers /\ UNCHANGED <<disk, faults, urgents, missed>> /\ sweep' = Resting
    BY <1>4 DEF EndSweep
  <2>2. sweep' \in Sweeps /\ sweep'.pc = "idle" /\ sweep'.doomed = None /\ SweepOK'
    BY <2>1 DEF Resting, Sweeps, SweepOK
  <2> QED
    BY <2>1, <2>2, SweepMoves
<1> QED
  BY <1>2, <1>3, <1>4

\* A file grows old when no handler relies on it.
LEMMA AgeKeeps ==
  ASSUME DownloadsInv, NEW n \in Names, Age(n)
  PROVE  DownloadsInv'
<1>1. PICK g : g = [disk[n] EXCEPT !.old = TRUE] /\ disk' = [disk EXCEPT ![n] = g]
  BY DEF Age
<1>2. On(n) /\ disk[n].by = None /\ ~ Needed(n) /\ disk[n] \in Files
  BY Known DEF Age, On
<1>3. g \in Files /\ g.whole = disk[n].whole /\ g.by = disk[n].by
  BY <1>1, <1>2, FileAged
<1>4. /\ disk' \in [Names -> Files \cup {Absent}] /\ disk'[n] = g
      /\ \A m \in Names : m # n => disk'[m] = disk[m]
  BY <1>1, <1>3, Known
<1>5. /\ \A m \in Names : disk'[m] # Absent <=> On(m)
      /\ \A m \in Names : disk'[m].whole = disk[m].whole /\ disk'[m].by = disk[m].by
  BY <1>2, <1>3, <1>4, FilesAre DEF On
<1>6. UNCHANGED Handlers /\ UNCHANGED <<sweep, faults, urgents, missed>>
  BY DEF Age
<1>7. TypeInv' /\ Alone'
  BY <1>4, <1>6, SweepingStays DEF DownloadsInv, TypeInv
<1>8. SweepOK'
  BY <1>6 DEF SweepOK, DownloadsInv
<1>9. ASSUME NEW d \in Chats
      PROVE  SeenOK(d)' /\ ScratchOK(d)' /\ GentleOK(d)'
  <2>1. /\ job' = job /\ queued' = queued /\ path' = path
        /\ raced' = raced /\ killed' = killed /\ snatched' = snatched
    BY <1>6, SweepingStays
  <2>2. /\ SeenOK(d) /\ ScratchOK(d) /\ GentleOK(d) /\ JobOK(d)
        /\ path[d] \in {None} \cup Finals /\ job[d].out \in {None} \cup Names
    BY DEF DownloadsInv, TypeInv, Jobs
  <2>3. \A e : File(d, e)' = File(d, e)
    BY <2>1 DEF File
  <2>4. /\ job[d].pc \in {"copy", "rename"} => File(d, "part") \in Names
        /\ job[d].pc \in {"encrypt", "decrypt", "ffmpeg", "convert"} =>
             {File(d, "final"), File(d, "encrypted"), File(d, "decrypted")} \subseteq Names
    BY <2>2, KindNames DEF JobOK, At, File
  <2>5. SeenOK(d)'
    <3>1. Seen(d) /\ path[d] # None => disk'[path[d]] # Absent
      BY <1>5, <2>2 DEF SeenOK, Finals
    <3>2. Seen(d) /\ At(d, "convert") => disk'[File(d, "final")] # Absent
      BY <1>5, <2>2, <2>4 DEF SeenOK, At
    <3>3. Seen(d) /\ job[d].pc \in {"clean", "ready"} /\ job[d].out # None => disk'[job[d].out] # Absent
      BY <1>5, <2>2 DEF SeenOK
    <3> QED
      BY <1>6, <2>1, <2>2, <2>3, <3>1, <3>2, <3>3 DEF SeenOK, Seen, At, On
  <2>6. ScratchOK(d)'
    BY <1>5, <2>1, <2>2, <2>3, <2>4 DEF ScratchOK, At, On
  <2>7. GentleOK(d)'
    <3> SUFFICES ASSUME job[d].track \notin raced \cup snatched, urgents = 0
                 PROVE  /\ job[d].pc \in {"copy", "rename"} =>
                             disk'[File(d, "part")] # Absent /\ ~ disk'[File(d, "part")].old
                        /\ At(d, "decrypt") =>
                             disk'[File(d, "encrypted")] # Absent /\ ~ disk'[File(d, "encrypted")].old
                        /\ At(d, "ffmpeg") =>
                             disk'[File(d, "decrypted")] # Absent /\ ~ disk'[File(d, "decrypted")].old
                        /\ job[d].pc \in {"encrypt", "decrypt", "ffmpeg"} => disk'[File(d, "final")] = Absent
      BY <1>6, <2>1, <2>2, <2>3 DEF GentleOK, Safe, At, On
    <3>1. At(d, "copy") => File(d, "part") # n
      BY <1>2, <2>2, DownloadsAssumption DEF ScratchOK, At
    <3>2. /\ At(d, "rename") => File(d, "part") # n
          /\ At(d, "decrypt") => File(d, "encrypted") # n
          /\ At(d, "ffmpeg") => File(d, "decrypted") # n
      BY <1>2 DEF Needed, File, At
    <3> QED
      BY <1>4, <1>5, <2>2, <2>4, <3>1, <3>2 DEF GentleOK, Safe, At, On
  <2> QED
    BY <2>5, <2>6, <2>7
<1>10. \A m \in Names : Shown(m)'
  BY <1>5, <1>6, SweepingStays DEF Shown, On, DownloadsInv
<1> QED
  BY <1>7, <1>8, <1>9, <1>10 DEF DownloadsInv

\* After a restart nothing is in use, and the programs that were writing have
\* been killed.
LEMMA RestartKeeps ==
  ASSUME DownloadsInv, Restart
  PROVE  DownloadsInv'
<1>1. Idle \in Jobs /\ Idle.pc = "idle" /\ Idle.out = None /\ Idle.track = None
  <2>1. 0 \in 0 .. Cycles /\ "idle" \in Stages
    BY DownloadsAssumption DEF Stages
  <2> QED
    BY <2>1 DEF Idle, Jobs
<1>2. /\ \A c \in Chats : job'[c] = Idle /\ path'[c] = None
      /\ job' \in [Chats -> Jobs] /\ path' \in [Chats -> {None} \cup Finals]
      /\ queued' = {} /\ missed' = {} /\ sweep' = Resting
      /\ UNCHANGED <<requests, faults, urgents>>
  BY <1>1 DEF Restart
<1>3. ASSUME NEW n \in Names
      PROVE  /\ disk'[n] \in Files \cup {Absent}
             /\ disk'[n] # Absent => /\ On(n) /\ disk'[n].by = None
                                     /\ disk'[n].whole = disk[n].whole
  <2>1. disk'[n] = IF On(n) THEN [disk[n] EXCEPT !.by = None] ELSE Absent
    BY DEF Restart
  <2>2. CASE On(n)
    <3>1. disk[n] \in Files
      BY <2>2, Known DEF On
    <3> QED
      BY <2>1, <2>2, <3>1, FileAbandoned
  <2>3. CASE ~ On(n)
    BY <2>1, <2>3
  <2> QED
    BY <2>2, <2>3
<1>4. disk' \in [Names -> Files \cup {Absent}]
  <2>1. disk' = [n \in Names |-> disk'[n]]
    BY DEF Restart
  <2> QED
    BY <1>3, <2>1
<1>5. /\ restarts' \in 0 .. MaxRestarts /\ Remembered
      /\ raced' = raced
      /\ \A c \in Chats : job[c].pc \in {"convert", "ytrun"} => job[c].track \in killed'
  <2>1. restarts \in 0 .. MaxRestarts /\ MaxRestarts \in Nat
    BY DownloadsAssumption DEF DownloadsInv, TypeInv
  <2>2. \A c \in Chats : job[c].pc \in {"convert", "ytrun"} => job[c].track \in Tracks
    BY Before DEF JobOK, At
  <2> QED
    BY <2>1, <2>2 DEF Restart, Remembered, DownloadsInv, TypeInv
<1>6. TypeInv'
  <2>1. (\A c \in Chats : JobOK(c))'
    BY <1>1, <1>2 DEF JobOK, At
  <2>2. sweep' \in Sweeps
    BY <1>2 DEF Resting, Sweeps
  <2> QED
    BY <1>2, <1>4, <1>5, <2>1, <2>2 DEF TypeInv, DownloadsInv, Remembered
<1>7. SweepOK' /\ Alone'
  BY <1>1, <1>2 DEF SweepOK, Alone, Fetching, Resting
<1>8. ASSUME NEW c \in Chats
      PROVE  SeenOK(c)' /\ ScratchOK(c)' /\ GentleOK(c)'
  <2>1. SeenOK(c)'
    BY <1>1, <1>2 DEF SeenOK, Seen, At, Resting
  <2>2. \A n \in Names : disk'[n] # Absent => disk'[n].by # c
    BY <1>3, DownloadsAssumption
  <2> QED
    BY <1>1, <1>2, <2>1, <2>2, NoScratch
<1>9. ASSUME NEW n \in Names
      PROVE  Shown(n)'
  <2> SUFFICES ASSUME n \in Finals, disk'[n] # Absent, ~ disk'[n].whole
               PROVE  IF Renamed(n) THEN n[1] \in raced'
                      ELSE disk'[n].by # None \/ n[1] \in killed'
    BY DEF Shown, On
  <2>1. On(n) /\ ~ disk[n].whole /\ Shown(n)
    BY <1>3 DEF DownloadsInv
  <2>2. CASE Renamed(n)
    BY <1>5, <2>1, <2>2 DEF Shown
  <2>3. CASE ~ Renamed(n) /\ n[1] \in killed
    BY <1>5, <2>3 DEF Remembered
  <2>4. CASE ~ Renamed(n) /\ disk[n].by # None
    <3>1. PICK c \in Chats : disk[n].by = c
      BY <2>1, <2>4, Known, FilesAre DEF On
    <3>2. /\ job[c].pc \in {"copy", "ytrun", "convert"} /\ n[1] = job[c].track
          /\ n[2] = "ytdlp" => job[c].pc = "ytrun"
      BY <2>1, <3>1 DEF DownloadsInv, ScratchOK
    <3>3. job[c].pc # "copy"
      BY <2>4, <3>2, Before DEF JobOK, Renamed, Finals
    <3> QED
      BY <1>5, <2>4, <3>2, <3>3
  <2> QED
    BY <2>1, <2>2, <2>3, <2>4 DEF Shown
<1> QED
  BY <1>6, <1>7, <1>8, <1>9 DEF DownloadsInv
-----------------------------------------------------------------------------
(* The invariant. *)

\* It holds at first, and every step keeps it.
LEMMA InitInv ==
  ASSUME Init
  PROVE  DownloadsInv
<1>1. Idle \in Jobs /\ Idle.pc = "idle" /\ Idle.out = None /\ Idle.track = None
  <2>1. 0 \in 0 .. Cycles /\ "idle" \in Stages
    BY DownloadsAssumption DEF Stages
  <2> QED
    BY <2>1 DEF Idle, Jobs
<1>2. /\ disk \in [Names -> Files \cup {Absent}] /\ \A n \in Names : ~ On(n)
      /\ job \in [Chats -> Jobs] /\ \A c \in Chats : job[c] = Idle /\ path[c] = None
      /\ path \in [Chats -> {None} \cup Finals] /\ queued = {} /\ missed = {}
      /\ raced = {} /\ killed = {} /\ snatched = {}
      /\ sweep = Resting
  BY <1>1 DEF Init, On
<1>3. /\ requests \in 0 .. MaxRequests /\ faults \in 0 .. MaxFaults
      /\ urgents \in 0 .. MaxUrgent /\ restarts \in 0 .. MaxRestarts
  BY DownloadsAssumption DEF Init
<1>4. TypeInv
  <2>1. \A c \in Chats : JobOK(c)
    BY <1>1, <1>2 DEF JobOK, At
  <2> QED
    BY <1>2, <1>3, <2>1 DEF TypeInv, Resting, Sweeps
<1>5. SweepOK /\ Alone
  BY <1>1, <1>2 DEF SweepOK, Alone, Fetching, Resting
<1>6. ASSUME NEW c \in Chats
      PROVE  SeenOK(c) /\ ScratchOK(c) /\ GentleOK(c)
  BY <1>1, <1>2, <1>6 DEF SeenOK, Seen, ScratchOK, GentleOK, At
<1>7. \A n \in Names : Shown(n)
  BY <1>2 DEF Shown
<1> QED
  BY <1>4, <1>5, <1>6, <1>7 DEF DownloadsInv

LEMMA StepInv ==
  ASSUME DownloadsInv, [Next]_vars
  PROVE  DownloadsInv'
<1>1. CASE UNCHANGED vars
  <2>1. TypeInv' /\ SweepOK' /\ Alone'
    BY <1>1 DEF vars, past, DownloadsInv, TypeInv, SweepOK, Alone, Fetching, JobOK, At
  <2>2. ASSUME NEW c \in Chats
        PROVE  SeenOK(c)' /\ ScratchOK(c)' /\ GentleOK(c)'
    <3>1. SeenOK(c)'
      BY <1>1 DEF vars, past, DownloadsInv, SeenOK, Seen, At, On, File
    <3>2. ScratchOK(c)' /\ GentleOK(c)'
      BY <1>1 DEF vars, past, DownloadsInv, ScratchOK, GentleOK, Safe, At, On, File
    <3> QED
      BY <3>1, <3>2
  <2>3. \A n \in Names : Shown(n)'
    BY <1>1, ShownStays DEF vars, past, Remembered, DownloadsInv, TypeInv
  <2> QED
    BY <2>1, <2>2, <2>3 DEF DownloadsInv
<1>2. ASSUME NEW c \in Chats, NEW t \in Tracks, Request(c, t)
      PROVE  DownloadsInv'
  BY <1>2, RequestKeeps
<1>3. ASSUME NEW c \in Chats, Handler(c) \/ Reopen(c) \/ End(c)
      PROVE  DownloadsInv'
  BY <1>3, HandlerKeeps
<1>4. ASSUME NEW c \in Chats, Stop(c)
      PROVE  DownloadsInv'
  BY <1>4, StopKeeps
<1>5. ASSUME NEW urgent \in BOOLEAN, BeginSweep(urgent)
      PROVE  DownloadsInv'
  BY <1>5, BeginSweepKeeps
<1>6. ASSUME NEW n \in Names, Visit(n) \/ Age(n)
      PROVE  DownloadsInv'
  BY <1>6, VisitKeeps, AgeKeeps
<1>7. CASE (\E dir \in Directories : ListMedia(dir)) \/ ListDownloads \/ EndSweep
  BY <1>7, SweepGoesOn
<1>8. CASE Remove
  BY <1>8, RemoveKeeps
<1>9. CASE Restart
  BY <1>9, RestartKeeps
<1> QED
  BY <1>1, <1>2, <1>3, <1>4, <1>5, <1>6, <1>7, <1>8, <1>9 DEF Next, Sweeper

LEMMA AlwaysInv == Spec => []DownloadsInv
  BY InitInv, StepInv, PTL DEF Spec
-----------------------------------------------------------------------------
(* What it says. *)

\* Its parts are the properties, or imply them.
LEMMA InvTyped ==
  ASSUME DownloadsInv
  PROVE  TypeOK
<1>1. \A n \in Names : disk[n] = Absent \/ disk[n] \in [whole : BOOLEAN, old : BOOLEAN, by : {None} \cup Chats]
  BY DEF DownloadsInv, TypeInv, Files
<1>2. path \in [Chats -> {None} \cup Names]
  BY DEF DownloadsInv, TypeInv, Finals
<1> QED
  BY <1>1, <1>2 DEF TypeOK, DownloadsInv, TypeInv, Jobs, Sweeps

LEMMA InvMissing ==
  ASSUME DownloadsInv
  PROVE  MissingForAReason
<1> SUFFICES ASSUME NEW c \in queued, path[c] # None, ~ On(path[c])
             PROVE  c \in missed
  BY DEF MissingForAReason
<1>1. c \in Chats
  BY DEF DownloadsInv, TypeInv
<1> QED
  BY <1>1 DEF DownloadsInv, SeenOK, Seen

LEMMA InvPartial ==
  ASSUME DownloadsInv
  PROVE  PartialForAReason
  BY DEF PartialForAReason, DownloadsInv, Shown, Finals

\* The step of a download that goes wrong.
LEMMA StumbleKinds ==
  ASSUME DownloadsInv, [Next]_vars, NEW c \in Chats, Stumbles(c)
  PROVE  \/ faults' > faults
         \/ RenamePart(c) /\ ~ On(File(c, "part"))
         \/ Decrypt(c) /\ ~ On(File(c, "encrypted"))
         \/ Ffmpeg(c) /\ (~ On(File(c, "decrypted")) \/ On(File(c, "final")))
<1> job \in [Chats -> Jobs] /\ job[c] \in Jobs /\ JobOK(c) /\ faults \in Nat /\ Cycles \in Nat
  BY Before, DownloadsAssumption DEF DownloadsInv, TypeInv
<1>1. job[c].cycle \in Int /\ ~ (job[c].cycle > job[c].cycle)
  BY DEF Jobs
<1>2. ASSUME job'[c] = job[c]
      PROVE  FALSE
  BY <1>1, <1>2 DEF Stumbles, At
<1>3. ASSUME NEW p \in Stages, Go(c, p), p \notin {"ytdlp", "clean"}
      PROVE  FALSE
  BY <1>1, <1>3, GoTurns DEF Stumbles, At, Turn
<1>4. ASSUME NEW n \in Names, Ready(c, n)
      PROVE  FALSE
  BY <1>1, <1>4, ReadyTurns DEF Stumbles, At, Turn
<1>5. ASSUME job'[c] = Idle
      PROVE  FALSE
  <2>1. Idle.pc = "idle" /\ Idle.cycle = 0
    BY DEF Idle
  <2>2. ~ (0 > job[c].cycle)
    BY DEF Jobs
  <2> QED
    BY <1>5, <2>1, <2>2 DEF Stumbles
<1>6. Drop(c) => job'[c] = Idle
  BY DEF Drop
<1>7. Fault => faults' > faults
  BY DEF Fault
<1>8. ASSUME Handler(c)
      PROVE  \/ faults' > faults
             \/ RenamePart(c) /\ ~ On(File(c, "part"))
             \/ Decrypt(c) /\ ~ On(File(c, "encrypted"))
             \/ Ffmpeg(c) /\ (~ On(File(c, "decrypted")) \/ On(File(c, "final")))
  <2>1. CASE Resolve(c)
    BY <1>3, <1>7, <2>1 DEF Resolve, Stages
  <2>2. CASE StatFile(c)
    <3>1. job[c].track \in Tracks /\ Kind[job[c].track] \in {"cdn", "spotify"}
      BY <2>2 DEF StatFile, JobOK, At
    <3>2. File(c, "final") \in Names
      BY <3>1, KindNames DEF File
    <3> QED
      BY <1>3, <1>4, <2>2, <3>2 DEF StatFile, Stages
  <2>3. CASE CreatePart(c)
    BY <1>3, <2>3 DEF CreatePart, Stages
  <2>4. CASE CopyBody(c)
    BY <1>3, <1>7, <2>4 DEF CopyBody, Stages
  <2>5. CASE RenamePart(c)
    <3>1. File(c, "final") \in Names
      BY <2>5, KindNames DEF RenamePart, JobOK, At, File
    <3> QED
      BY <1>4, <2>5, <3>1 DEF RenamePart
  <2>6. CASE YtDlp(c)
    <3>1. File(c, "ytdlp") \in Names
      BY <2>6, KindNames DEF YtDlp, JobOK, At, File
    <3> QED
      BY <1>3, <1>4, <2>6, <3>1 DEF YtDlp, Stages
  <2>7. CASE YtDlpEnds(c)
    <3>1. File(c, "ytdlp") \in Names
      BY <2>7, KindNames DEF YtDlpEnds, JobOK, At, File
    <3> QED
      BY <1>4, <1>5, <1>6, <1>7, <2>7, <3>1 DEF YtDlpEnds
  <2>8. CASE Native(c)
    <3>1. File(c, "final") \in Names
      BY <2>8, KindNames DEF Native, JobOK, At, File
    <3> QED
      BY <1>4, <1>7, <2>8, <3>1 DEF Native
  <2>9. CASE Encrypt(c)
    BY <1>3, <1>7, <2>9 DEF Encrypt, Stages
  <2>10. CASE Decrypt(c)
    BY <1>3, <2>10 DEF Decrypt, Stages
  <2>11. CASE Ffmpeg(c)
    BY <1>3, <2>11 DEF Ffmpeg, Stages
  <2>12. CASE FfmpegEnds(c)
    <3>1. CASE job' = [job EXCEPT ![c].pc = "clean", ![c].out = File(c, "final")]
      <4>1. File(c, "final") # None
        BY <2>12, DownloadsAssumption DEF FfmpegEnds, JobOK, At, File
      <4>2. job'[c] = [job[c] EXCEPT !.pc = "clean", !.out = File(c, "final")]
        BY <3>1
      <4>3. job'[c].pc = "clean" /\ job'[c].out # None /\ job'[c].cycle = job[c].cycle
        BY <4>1, <4>2 DEF Jobs
      <4> QED
        BY <1>1, <4>3 DEF Stumbles
    <3> QED
      BY <1>7, <2>12, <3>1 DEF FfmpegEnds
  <2>13. CASE CleanScratch(c)
    BY <1>3, <1>5, <1>6, <2>13 DEF CleanScratch, Stages
  <2>14. CASE SetPath(c)
    BY <1>3, <2>14 DEF SetPath, Stages
  <2>15. CASE Open(c)
    BY <1>3, <1>5, <1>6, <2>15 DEF Open, Stages
  <2> QED
    BY <1>8, <2>1, <2>2, <2>3, <2>4, <2>5, <2>6, <2>7, <2>8, <2>9, <2>10, <2>11, <2>12, <2>13,
       <2>14, <2>15 DEF Handler
<1>9. ASSUME Reopen(c) \/ End(c)
      PROVE  FALSE
  BY <1>3, <1>5, <1>6, <1>9 DEF Reopen, End, Stages
<1>10. ASSUME NEW d \in Chats \ {c}, Handler(d) \/ Reopen(d) \/ End(d)
       PROVE  FALSE
  <2>1. Kept(d)
    BY <1>10, HandlerKept
  <2> QED
    BY <1>2, <2>1 DEF Kept, Handled
<1>11. ASSUME NEW d \in Chats, NEW t \in Tracks, Request(d, t)
       PROVE  FALSE
  <2>1. CASE d = c
    <3>1. At(c, "idle") /\ job'[c].pc # "clean"
      <4>1. PICK p \in {"resolve", "ytdlp", "stat", "native"} :
              job' = [job EXCEPT ![c] = [pc |-> p, track |-> t, cycle |-> 1, out |-> None]]
        BY <1>11, <2>1 DEF Request
      <4>2. job'[c].pc = p /\ At(c, "idle")
        BY <1>11, <2>1, <4>1 DEF Request
      <4> QED
        BY <4>2
    <3> QED
      BY <3>1 DEF Stumbles, At
  <2>2. CASE d # c
    BY <1>2, <1>11, <2>2 DEF Request
  <2> QED
    BY <2>1, <2>2
<1>12. ASSUME UNCHANGED job
       PROVE  FALSE
  BY <1>2, <1>12
<1>13. ASSUME Restart
       PROVE  FALSE
  BY <1>5, <1>13 DEF Restart
<1>14. ASSUME (\E d \in Chats : Stop(d)) \/ (\E u \in BOOLEAN : BeginSweep(u)) \/ Sweeper \/ (\E n \in Names : Age(n))
       PROVE  UNCHANGED job
  BY <1>14 DEF Stop, BeginSweep, Sweeper, ListMedia, Visit, Remove, ListDownloads, EndSweep, Age,
     Handlers
<1> QED
  BY <1>8, <1>9, <1>10, <1>11, <1>12, <1>13, <1>14 DEF Next, vars

\* The scratch files of a download that runs alone, with no urgent sweep, are
\* where it left them.
LEMMA InvGentle ==
  ASSUME DownloadsInv, [Next]_vars
  PROVE  \A c \in Chats : Stumbles(c) => \/ faults' > faults \/ urgents > 0
                                         \/ job[c].track \in raced \cup snatched
<1> SUFFICES ASSUME NEW c \in Chats, Stumbles(c), ~ (faults' > faults), ~ (urgents > 0),
                    job[c].track \notin raced \cup snatched
             PROVE  FALSE
  OBVIOUS
<1>1. urgents = 0
  BY DownloadsAssumption DEF DownloadsInv, TypeInv
<1>2. GentleOK(c)
  BY DEF DownloadsInv
<1>3. CASE RenamePart(c) /\ ~ On(File(c, "part"))
  BY <1>1, <1>2, <1>3 DEF GentleOK, Safe, RenamePart, At
<1>4. CASE Decrypt(c) /\ ~ On(File(c, "encrypted"))
  BY <1>1, <1>2, <1>4 DEF GentleOK, Safe, Decrypt, At
<1>5. CASE Ffmpeg(c) /\ (~ On(File(c, "decrypted")) \/ On(File(c, "final")))
  BY <1>1, <1>2, <1>5 DEF GentleOK, Safe, Ffmpeg, At
<1> QED
  BY <1>3, <1>4, <1>5, StumbleKinds
-----------------------------------------------------------------------------
(* The theorems. *)

\* Every variable holds what the code's types allow (cleanup.go,
\* http_client.go, spotify_dl.go).
THEOREM DownloadsTyped == Spec => []TypeOK
  BY AlwaysInv, InvTyped, PTL

\* A queued track loses its file to the sweep only if it got its path after a
\* sweep had collected the paths in use (cleanup.go:138-142): however many
\* chats, tracks, urgent sweeps and restarts.
THEOREM FilesStayWhileQueued == Spec => []MissingForAReason
  BY AlwaysInv, InvMissing, PTL

\* A truncated file that nobody writes stands under a name that requests take
\* for downloaded only when ffmpeg or yt-dlp was killed on it, and under the
\* name of a CDN's file only when two handlers fetched the track at once
\* (http_client.go:206-227, spotify_dl.go:183-191, youtube.go:194-195, 236).
THEOREM ShownFilesAreWhole == Spec => []PartialForAReason
  BY AlwaysInv, InvPartial, PTL

\* A download that runs alone and meets no failure is not disturbed by the
\* routine sweep, unless it writes a file anew between the sweep's look at its
\* age and the removal (cleanup.go:202-211, 280-289).
THEOREM RoutineStaysGentle == Spec => RoutineIsGentle
<1>1. DownloadsInv /\ [Next]_vars =>
        [\A c \in Chats : Stumbles(c) => \/ faults' > faults \/ urgents > 0
                                         \/ job[c].track \in raced \cup snatched]_vars
  BY InvGentle
<1> QED
  BY <1>1, AlwaysInv, PTL DEF Spec, RoutineIsGentle
=============================================================================
