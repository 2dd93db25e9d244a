------------------------------- MODULE Store --------------------------------
(***************************************************************************)
(* What the bot keeps in MongoDB, the caches before it, and the commands   *)
(* that read, change, back up and restore it (internal/db/, internal/bot/  *)
(* settings.go, auth.go, backup.go, participant.go).  A document is the    *)
(* set of what is on in it: the settings of a chat and its flag, the       *)
(* flags of a user, the members of a list, the logger's switch.  A step is *)
(* one request to MongoDB or one access to a cache.                        *)
(***************************************************************************)
EXTENDS Integers, FiniteSets

CONSTANTS
  Chats, Users, Lists, Loggers,  \* the documents, by what they are
  Collection,                    \* the collection of each
  Items,                         \* what may be on in each
  NeedsRight,                    \* cmd_delete: the bot must be able to delete
                                 \* messages for it to be turned on
  Unreachable,                   \* "invalid" of a chat, "blocked" and "deleted"
                                 \* of a user
  None,                          \* no document, no entry, no backup
  Backups,                       \* the last backup that earlier runs may have left
  Threads,
  Kinds,                         \* the commands that are given
  Faults,                        \* "refused" (a request fails), "lost" (a write
                                 \* is done and its answer does not come), "crash"
  MaxCommands, MaxTrouble        \* bounds: commands and failures of a behaviour

Docs == Chats \cup Users \cup Lists \cup Loggers
Values == {None} \cup SUBSET UNION {Items[k] : k \in Docs}
On(value) == IF value = None THEN {} ELSE value

\* What the collections may hold: each document what may be on in it.
Contents == {s \in [Docs -> Values] : \A k \in Docs : On(s[k]) \subseteq Items[k]}

\* A document is of one kind, and the logger's has one switch.  A backup is of
\* collections that are known.
ASSUME StoreAssumption ==
  /\ Docs # {}
  /\ Chats \cap (Users \cup Lists \cup Loggers) = {}
  /\ Users \cap (Lists \cup Loggers) = {}
  /\ Lists \cap Loggers = {}
  /\ \A k \in Chats : Unreachable \in Items[k]
  /\ \A k \in Loggers : \E i \in Items[k] : Items[k] = {i}
  /\ \A s \in SUBSET UNION {Items[k] : k \in Docs} : s # None
  /\ Backups \subseteq {None} \cup [dump : Contents, names : SUBSET {Collection[k] : k \in Docs}]
  /\ MaxCommands \in Nat /\ MaxTrouble \in Nat

VARIABLES
  stored,    \* the documents
  cache,     \* chatCache, userCache, authCache, loggerCache
  zip,       \* the last backup that was sent
  pc, frame, \* where each command is, and what it holds
  commands, trouble,
  suspect    \* the entries that may be older than the document

vars == <<stored, cache, zip, pc, frame, commands, trouble, suspect>>

Idle == [kind |-> "none", key |-> CHOOSE k \in Docs : TRUE, item |-> Unreachable,
         on |-> FALSE, seen |-> None, dump |-> [k \in Docs |-> None],
         names |-> {}, todo |-> {}, left |-> {}, failed |-> FALSE,
         touched |-> {}]  \* the documents that have changed since the command
                          \* read them, or that it could not read

\* The documents outlive the process.
Init ==
  /\ stored \in Contents
  /\ cache = [k \in Docs |-> None]
  /\ zip \in Backups
  /\ pc = [t \in Threads |-> "idle"]
  /\ frame = [t \in Threads |-> Idle]
  /\ commands = MaxCommands /\ trouble = MaxTrouble
  /\ suspect = {}

At(t, label) == pc[t] = label
Goto(t, label) == pc' = [pc EXCEPT ![t] = label]
Key(t) == frame[t].key
Touched(t) == frame[t].touched
Kind(t) == frame[t].kind
In(c) == {k \in Docs : Collection[k] = c}
Fails(fault) == fault \in Faults /\ trouble > 0 /\ trouble' = trouble - 1

\* A writer has changed the document and not yet the entry.
Pending(k) == \E t \in Threads : (At(t, "evict") \/ At(t, "keep")) /\ Key(t) = k

\* t gives the documents their values in new, and goes on with the frame f.
Changes(t, new, f) ==
  /\ stored' = new
  /\ frame' = [u \in Threads |->
       IF u = t THEN f
       ELSE IF At(u, "idle") THEN Idle
       ELSE [frame[u] EXCEPT !.touched = @ \cup {k \in Docs : new[k] # stored[k]}]]

Caches(t, value) ==
  /\ cache' = [cache EXCEPT ![Key(t)] = value]
  /\ suspect' = IF Key(t) \in Touched(t) THEN suspect \cup {Key(t)}
                ELSE suspect \ {Key(t)}

Begin(t, f, label) ==
  /\ At(t, "idle") /\ commands > 0 /\ commands' = commands - 1
  /\ f.kind \in Kinds
  /\ frame' = [frame EXCEPT ![t] = f]
  /\ Goto(t, label)
  /\ UNCHANGED <<stored, cache, zip, trouble, suspect>>

Return(t) == Goto(t, "idle") /\ frame' = [frame EXCEPT ![t] = Idle]
-----------------------------------------------------------------------------
(* The commands. *)

\* settingsHandler, authListHandler, GetLoggerStatus: the document is read.
Show(t) == \E k \in Docs :
  Begin(t, [Idle EXCEPT !.kind = "show", !.key = k], "lookup")

\* settingsCallbackHandler: a setting is read and its negation is written.
Toggle(t) == \E k \in Chats : \E i \in Items[k] \ {Unreachable} :
  Begin(t, [Idle EXCEPT !.kind = "toggle", !.key = k, !.item = i], "lookup")

\* SetCmdDelete(false) when the bot loses its right, SetLoggerStatus.
Set(t) == \E k \in Chats \cup Loggers :
  \E i \in Items[k] \cap (IF k \in Chats THEN NeedsRight ELSE Items[k]),
     on \in (IF k \in Chats THEN {FALSE} ELSE BOOLEAN) :
  Begin(t, [Idle EXCEPT !.kind = "set", !.key = k, !.item = i, !.on = on], "write")

\* addAuthHandler and removeAuthHandler: nothing is written when the list
\* that is read says that there is nothing to do.
Admit(t) == \E k \in Lists : \E i \in Items[k], on \in BOOLEAN :
  Begin(t, [Idle EXCEPT !.kind = "admit", !.key = k, !.item = i, !.on = on], "lookup")

\* storeChatToDB: AddChat and AddUser.
Meet(t) == \E k \in Chats \cup Users :
  Begin(t, [Idle EXCEPT !.kind = "meet", !.key = k, !.item = Unreachable], "lookup")

\* bulkSetFlag on one document.
Mark(t) == \E k \in Chats \cup Users : \E i \in Items[k] \cap {Unreachable} :
  Begin(t, [Idle EXCEPT !.kind = "mark", !.key = k, !.item = i, !.on = TRUE], "write")

\* GetActiveChats and GetActiveUsers, one document of the cursor.
List(t) == \E k \in Chats \cup Users :
  Begin(t, [Idle EXCEPT !.kind = "list", !.key = k], "find")

\* BackupToZip: the names of the collections that exist.
Backup(t) ==
  LET names == {Collection[k] : k \in {k \in Docs : stored[k] # None}} IN
  Begin(t, [Idle EXCEPT !.kind = "backup", !.names = names,
                        !.left = {k \in Docs : Collection[k] \in names}], "dump")

\* RestoreFromZip of the last backup.
Restore(t) ==
  /\ zip # None
  /\ Begin(t, [Idle EXCEPT !.kind = "restore", !.dump = zip.dump, !.names = zip.names,
                        !.todo = zip.names], "drop")
-----------------------------------------------------------------------------
(* A read: the entry, else the document, which is then cached. *)

\* AddUser alone asks for an entry that says the user can be reached.
Lookup(t) ==
  LET k == Key(t) IN
  /\ At(t, "lookup")
  /\ \/ /\ Kind(t) = "meet" /\ k \in Users
        /\ IF cache[k] = {} THEN Return(t) ELSE Goto(t, "write") /\ UNCHANGED frame
     \/ /\ Kind(t) # "meet" \/ k \notin Users
        /\ cache[k] # None
        /\ frame' = [frame EXCEPT ![t].seen = cache[k], ![t].touched =
             IF k \in suspect \/ Pending(k) THEN {k} ELSE {}]
        /\ Goto(t, "decide")
     \/ /\ Kind(t) # "meet" \/ k \notin Users
        /\ cache[k] = None
        /\ Goto(t, "find") /\ UNCHANGED frame
  /\ UNCHANGED <<stored, cache, zip, commands, trouble, suspect>>

\* slip: that there is no document is cached like a document.
FindAbsent(t) ==
  /\ At(t, "find")
  /\ frame' = [frame EXCEPT ![t].seen = stored[Key(t)], ![t].touched = {}]
  /\ Goto(t, "fill")
  /\ UNCHANGED <<stored, cache, zip, commands, trouble, suspect>>

\* A cursor over the active ones does not meet a document with a flag; a
\* request that fails leaves the caller with no document.
Find(t) ==
  LET k == Key(t)
      met == stored[k] # None /\ (Kind(t) = "list" => Unreachable \notin stored[k]) IN
  /\ At(t, "find")
  /\ \/ /\ frame' = [frame EXCEPT ![t].seen = IF met THEN stored[k] ELSE None, ![t].touched = {}]
        /\ Goto(t, IF met THEN "fill" ELSE "decide")
        /\ UNCHANGED trouble
     \/ /\ Fails("refused")
        /\ frame' = [frame EXCEPT ![t].touched = {k}]
        /\ Goto(t, "decide")
  /\ UNCHANGED <<stored, cache, zip, commands, suspect>>

Fill(t) ==
  /\ At(t, "fill")
  /\ Caches(t, frame[t].seen)
  /\ Goto(t, "decide")
  /\ UNCHANGED <<stored, zip, frame, commands, trouble>>

\* slip: the button writes the setting it has read.
DecideSame(t) ==
  /\ At(t, "decide")
  /\ IF Kind(t) = "toggle"
     THEN Goto(t, "write") /\ frame' = [frame EXCEPT ![t].on = frame[t].item \in On(frame[t].seen)]
     ELSE Return(t)
  /\ UNCHANGED <<stored, cache, zip, commands, trouble, suspect>>

\* What the command does with what it has read.  The setting that needs a
\* right stays off when the bot has not got it.
Decide(t) ==
  LET f == frame[t] IN
  /\ At(t, "decide")
  /\ \/ /\ \/ f.kind \in {"show", "list"}
           \/ f.kind = "toggle" /\ f.item \in NeedsRight \ On(f.seen)
           \/ f.kind = "admit" /\ (f.item \in On(f.seen)) = f.on
           \/ f.kind = "meet" /\ f.seen # None /\ Unreachable \notin f.seen
        /\ Return(t)
     \/ /\ f.kind = "toggle"
        /\ frame' = [frame EXCEPT ![t].on = f.item \notin On(f.seen)]
        /\ Goto(t, "write")
     \/ /\ \/ f.kind = "admit" /\ (f.item \in On(f.seen)) # f.on
           \/ f.kind = "meet" /\ Unreachable \in On(f.seen)
        /\ Goto(t, "write") /\ UNCHANGED frame
     \/ /\ f.kind = "meet" /\ f.seen = None
        /\ Goto(t, "insert") /\ UNCHANGED frame
  /\ UNCHANGED <<stored, cache, zip, commands, trouble, suspect>>
-----------------------------------------------------------------------------
(* A write: the document, then the entry. *)

\* Only $set and $addToSet with upsert make a document.
Upserts(f) == \/ f.kind \in {"toggle", "set"}
              \/ f.kind = "admit" /\ f.on
              \/ f.kind = "meet" /\ f.key \in Users

\* AddUser clears both flags.
Written(f, old) ==
  IF old = None /\ ~ Upserts(f) THEN None
  ELSE IF f.kind = "meet" /\ f.key \in Users THEN {}
  ELSE IF f.on THEN On(old) \cup {f.item} ELSE On(old) \ {f.item}

\* SetLoggerStatus and AddUser cache the new value, the others drop the entry.
Refreshes(f) == f.key \in Loggers \/ (f.key \in Users /\ f.kind = "meet")

Write(t) ==
  LET f == frame[t]
      new == [stored EXCEPT ![f.key] = Written(f, @)] IN
  /\ At(t, "write")
  /\ \/ /\ Changes(t, new, [f EXCEPT !.touched = {}])
        /\ Goto(t, IF Refreshes(f) THEN "keep" ELSE "evict")
        /\ UNCHANGED <<trouble, suspect>>
     \/ Fails("refused") /\ Return(t) /\ UNCHANGED <<stored, suspect>>
     \/ /\ Fails("lost")
        /\ Changes(t, new, Idle) /\ Goto(t, "idle")
        /\ suspect' = suspect \cup {f.key}
  /\ UNCHANGED <<cache, zip, commands>>

\* slip: the entry is left to its time.
EvictNothing(t) ==
  /\ At(t, "evict")
  /\ Return(t)
  /\ UNCHANGED <<stored, cache, zip, commands, trouble, suspect>>

Evict(t) ==
  /\ At(t, "evict")
  /\ cache' = [cache EXCEPT ![Key(t)] = None]
  /\ suspect' = suspect \ {Key(t)}
  /\ Return(t)
  /\ UNCHANGED <<stored, zip, commands, trouble>>

Keep(t) ==
  /\ At(t, "keep")
  /\ Caches(t, IF frame[t].on THEN {frame[t].item} ELSE {})
  /\ Return(t)
  /\ UNCHANGED <<stored, zip, commands, trouble>>

\* AddChat's upsert with $setOnInsert; the entry is left alone.
Insert(t) ==
  /\ At(t, "insert")
  /\ \/ /\ Changes(t, [stored EXCEPT ![Key(t)] = On(@)], Idle)
        /\ Goto(t, "idle")
        /\ UNCHANGED trouble
     \/ Fails("refused") /\ Return(t) /\ UNCHANGED stored
  /\ UNCHANGED <<cache, zip, commands, suspect>>
-----------------------------------------------------------------------------
(* Backup and restore. *)

Read(t, k) ==
  frame' = [frame EXCEPT ![t].dump[k] = stored[k], ![t].left = @ \ {k}, ![t].touched = @ \ {k}]

\* slip: an error of the cursor ends the collection and is not looked at.
DumpUnchecked(t) ==
  /\ At(t, "dump")
  /\ \E k \in frame[t].left :
       \/ Read(t, k) /\ UNCHANGED trouble
       \/ Fails("refused") /\ frame' = [frame EXCEPT ![t].left = @ \ In(Collection[k])]
  /\ UNCHANGED <<stored, cache, zip, pc, commands, suspect>>

\* backupOneCollection: one collection after the other, document by document;
\* what follows an error is left out of the file.
Dump(t) ==
  LET f == frame[t] IN
  /\ At(t, "dump")
  /\ \E k \in f.left :
       LET c == Collection[k] IN
       /\ \A d \in f.names \ {c} : In(d) \cap f.left \in {{}, In(d)}
       /\ \/ Read(t, k) /\ UNCHANGED trouble
          \/ /\ Fails("refused")
             /\ frame' = [frame EXCEPT ![t].left = @ \ In(c), ![t].failed = TRUE]
  /\ UNCHANGED <<stored, cache, zip, pc, commands, suspect>>

\* The file is sent, if Telegram takes it, and removed.
Send(t) ==
  LET f == frame[t] IN
  /\ At(t, "dump") /\ f.left = {}
  /\ \/ zip' = [dump |-> f.dump, names |-> f.names] /\ UNCHANGED trouble
     \/ Fails("refused") /\ UNCHANGED zip
  /\ Return(t)
  /\ UNCHANGED <<stored, cache, commands, suspect>>

\* slip: the documents are put back among those that are there.
DropNothing(t) ==
  /\ At(t, "drop")
  /\ \E c \in frame[t].todo :
       frame' = [frame EXCEPT ![t].todo = @ \ {c}, ![t].touched = @ \ In(c),
                   ![t].left = {k \in In(c) : frame[t].dump[k] # None /\ stored[k] = None}]
  /\ Goto(t, "insert many")
  /\ UNCHANGED <<stored, cache, zip, commands, trouble, suspect>>

\* restoreOneCollection drops the collection; an error leaves it as it is and
\* goes on with the next one.
Drop(t) ==
  LET f == frame[t] IN
  /\ At(t, "drop")
  /\ \E c \in f.todo :
       \/ /\ Changes(t, [k \in Docs |-> IF k \in In(c) THEN None ELSE stored[k]],
                     [f EXCEPT !.todo = @ \ {c}, !.touched = @ \ In(c),
                               !.left = {k \in In(c) : f.dump[k] # None}])
          /\ suspect' = suspect \cup In(c)
          /\ Goto(t, "insert many")
          /\ UNCHANGED trouble
       \/ /\ Fails("refused")
          /\ frame' = [frame EXCEPT ![t].todo = @ \ {c}, ![t].failed = TRUE]
          /\ UNCHANGED <<stored, pc, suspect>>
  /\ UNCHANGED <<cache, zip, commands>>

\* InsertMany, document by document: one that somebody has made meanwhile is
\* an error, and the rest is not inserted.
InsertMany(t) ==
  LET f == frame[t] IN
  /\ At(t, "insert many") /\ f.left # {}
  /\ \/ \E k \in f.left :
          /\ stored[k] = None
          /\ Changes(t, [stored EXCEPT ![k] = f.dump[k]],
                     [f EXCEPT !.left = @ \ {k}, !.touched = @ \ {k}])
          /\ suspect' = suspect \cup {k}
          /\ UNCHANGED trouble
     \/ /\ \/ (\E k \in f.left : stored[k] # None) /\ UNCHANGED trouble
           \/ Fails("refused")
        /\ frame' = [frame EXCEPT ![t].left = {}, ![t].failed = TRUE]
        /\ UNCHANGED <<stored, suspect>>
  /\ UNCHANGED <<cache, zip, pc, commands>>

NextCollection(t) ==
  /\ At(t, "insert many") /\ frame[t].left = {}
  /\ Goto(t, "drop")
  /\ UNCHANGED <<stored, cache, zip, frame, commands, trouble, suspect>>

\* restoreHandler reports which collections have failed.
Report(t) ==
  /\ At(t, "drop") /\ frame[t].todo = {}
  /\ Return(t)
  /\ UNCHANGED <<stored, cache, zip, commands, trouble, suspect>>

\* The process ends, wherever its commands are, and starts with empty caches.
Restart ==
  /\ Fails("crash")
  /\ cache' = [k \in Docs |-> None]
  /\ pc' = [t \in Threads |-> "idle"]
  /\ frame' = [t \in Threads |-> Idle]
  /\ suspect' = {}
  /\ UNCHANGED <<stored, zip, commands>>

\* cacheTTL is over.
Expire(k) ==
  /\ cache[k] # None
  /\ cache' = [cache EXCEPT ![k] = None]
  /\ suspect' = suspect \ {k}
  /\ UNCHANGED <<stored, zip, pc, frame, commands, trouble>>

Command(t) ==
  \/ Show(t) \/ Toggle(t) \/ Set(t) \/ Admit(t) \/ Meet(t)
  \/ Mark(t) \/ List(t) \/ Backup(t) \/ Restore(t)

Step(t) ==
  \/ Lookup(t) \/ Find(t) \/ Fill(t) \/ Decide(t)
  \/ Write(t) \/ Evict(t) \/ Keep(t) \/ Insert(t)
  \/ Dump(t) \/ Send(t) \/ Drop(t) \/ InsertMany(t) \/ NextCollection(t) \/ Report(t)

Next ==
  \/ \E t \in Threads : Command(t) \/ Step(t)
  \/ \E k \in Docs : Expire(k)
  \/ Restart

Spec == Init /\ [][Next]_vars
-----------------------------------------------------------------------------
Labels == {"idle", "lookup", "find", "fill", "decide", "write", "evict", "keep",
           "insert", "dump", "drop", "insert many"}

TypeOK ==
  /\ stored \in [Docs -> Values]
  /\ cache \in [Docs -> Values]
  /\ pc \in [Threads -> Labels]
  /\ \A t \in Threads : /\ frame[t].key \in Docs
                        /\ frame[t].seen \in Values
                        /\ frame[t].left \cup frame[t].touched \subseteq Docs
                        /\ At(t, "fill") => frame[t].seen # None
  /\ zip # None => zip.dump \in [Docs -> Values]
  /\ commands \in 0 .. MaxCommands
  /\ trouble \in 0 .. MaxTrouble
  /\ suspect \subseteq Docs

\* An entry differs from its document only for a reason: a reader has put back
\* what it read before somebody changed the document, the answer to a write
\* was lost, a restore has replaced the document, or the writer is about to
\* drop the entry (chats.go:67, 88, 142; users.go:53; backup.go:215).
StaleForAReason ==
  \A k \in Docs : cache[k] \in {None, stored[k]} \/ k \in suspect \/ Pending(k)

\* A press on a button of the settings changes the setting, unless what the
\* handler has read was no longer so, or could not be read (settings.go:112,
\* 124, 127).
TogglesFlip ==
  [][\A t \in Threads :
       (At(t, "write") /\ pc'[t] = "evict" /\ Kind(t) = "toggle" /\ Key(t) \notin Touched(t))
         => (frame[t].item \in On(stored[Key(t)])) # (frame[t].item \in On(stored'[Key(t)]))]_vars

\* A backup that reports no failed collection holds every document as it was
\* read, those that existed and have not changed since as they are: nothing is
\* left out in silence (backup.go:116-154).
BackupIsWhole ==
  \A t \in Threads : (At(t, "dump") /\ frame[t].left = {} /\ ~ frame[t].failed) =>
    \A k \in Docs : Collection[k] \in frame[t].names =>
      frame[t].dump[k] = stored[k] \/ k \in Touched(t)

\* "This intentionally restores the exact state captured at backup time (drop +
\* reinsert) rather than merging" (backup.go:160): a restore that reports no
\* failed collection has left the documents of its collections as the backup
\* has them, those that another command has changed since excepted.
RestoreIsExact ==
  \A t \in Threads :
    (At(t, "drop") /\ frame[t].todo = {} /\ ~ frame[t].failed) =>
      \A k \in Docs : Collection[k] \in frame[t].names =>
        stored[k] = frame[t].dump[k] \/ k \in Touched(t)
=============================================================================
