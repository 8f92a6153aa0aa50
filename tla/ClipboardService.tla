-------------------------- MODULE ClipboardService --------------------------
(***************************************************************************)
(* The clipboard of the sync server: one current profile, kept in a file   *)
(* of the store and cached in memory behind a tokio RwLock, the numbered   *)
(* events of its changes, in a ring buffer and on a broadcast channel, and *)
(* a history table in SQLite.  Requests of HTTP and WebSocket clients run  *)
(* as tasks; a task is a sequence of steps that end where it awaits, and   *)
(* HTTP tasks are dropped at any of these when their client goes away.     *)
(*                                                                         *)
(* Sources: xime-sync-service/src/clipboard.rs, xime-sync-store/src/       *)
(* clipboard.rs and history.rs.                                            *)
(***************************************************************************)
EXTENDS Naturals, Sequences, FiniteSets

CONSTANTS
    Tasks,      \* request handlers
    Profiles,   \* profiles that clients upload (valid, named by their hash)
    Empty,      \* Profile::default(): what a missing file is read as
    Unset,      \* the cache before the first request
    Free,       \* nobody holds the write lock of the cache
    BufferCap,  \* EVENT_BUFFER_CAPACITY
    MaxItems,   \* rows the history table keeps
    MaxSeq,     \* bound on the events of one life of the server
    Faults      \* "cancel", "crash", "store": which failures happen

ASSUME NamesAssumption == /\ Empty \notin Profiles /\ Unset \notin Profiles \cup {Empty}
                          /\ Free \notin Tasks
ASSUME BoundsAssumption == BufferCap \in Nat \ {0} /\ MaxItems \in Nat \ {0} /\ MaxSeq \in Nat
ASSUME FaultsAssumption == Faults \subseteq {"cancel", "crash", "store"}

VARIABLES
    disk,       \* clipboard/current.json
    late,       \* writes of dropped tasks that the blocking pool has not done
    cache,      \* ClipboardContext.current
    writer,     \* the task that holds its write lock
    task,       \* what each handler is doing
    seq,        \* ClipboardContext.seq
    buffer,     \* ClipboardContext.history
    readers,    \* who holds the read lock of the buffer
    sent,       \* what went through ClipboardContext.broadcast
    rows,       \* the table clipboard_history
    torn        \* history: in this life a task was dropped half-way, or a load failed

serviceVars == <<disk, late, cache, writer, task, seq, buffer, readers, sent, rows, torn>>

NoTask == [phase |-> "idle", profile |-> Empty, seq |-> 0]
Busy(t) == task[t].phase # "idle"
At(t, phase) == task[t].phase = phase
Goto(t, phase) == task' = [task EXCEPT ![t].phase = phase]
Finish(t) == task' = [task EXCEPT ![t] = NoTask]
Event(t) == [seq |-> task[t].seq, profile |-> task[t].profile]

ServiceInit ==
    /\ disk = Empty /\ late = {} /\ cache = Unset /\ writer = Free
    /\ task = [t \in Tasks |-> NoTask]
    /\ seq = 0 /\ buffer = <<>> /\ readers = {} /\ sent = <<>> /\ rows = {}
    /\ torn = FALSE

-----------------------------------------------------------------------------
(* put *)

\* Mutant of Put: the uploaded profile is not validated.
PutUnchecked(t, p) ==
    /\ ~Busy(t)
    /\ seq + Cardinality({u \in Tasks : Busy(u)}) < MaxSeq
    /\ \E q \in {p, Empty} :
          task' = [task EXCEPT ![t] = [NoTask EXCEPT !.phase = "put", !.profile = q]]
    /\ UNCHANGED <<disk, late, cache, writer, seq, buffer, readers, sent, rows, torn>>

\* A valid upload (validate_profile refuses the others) asks for the write lock.
Put(t, p) ==
    /\ ~Busy(t)
    /\ seq + Cardinality({u \in Tasks : Busy(u)}) < MaxSeq
    /\ task' = [task EXCEPT ![t] = [NoTask EXCEPT !.phase = "put", !.profile = p]]
    /\ UNCHANGED <<disk, late, cache, writer, seq, buffer, readers, sent, rows, torn>>

\* The write lock; a cached profile is compared at once, and the same hash ends
\* the request as Unchanged.
Enter(t) ==
    /\ At(t, "put") /\ writer = Free
    /\ IF cache = task[t].profile
       THEN Finish(t) /\ UNCHANGED writer
       ELSE Goto(t, IF cache = Unset THEN "read" ELSE "save") /\ writer' = t
    /\ UNCHANGED <<disk, late, cache, seq, buffer, readers, sent, rows, torn>>

\* get_current turns a failed read into no profile.
ReadBack == {disk} \cup (IF "store" \in Faults THEN {Empty} ELSE {})

\* The cache stays unset when the stored profile is the uploaded one.
Compare(t) ==
    /\ At(t, "read")
    /\ \E current \in ReadBack :
          IF current = task[t].profile
          THEN Finish(t) /\ writer' = Free
          ELSE Goto(t, "save") /\ UNCHANGED writer
    /\ UNCHANGED <<disk, late, cache, seq, buffer, readers, sent, rows, torn>>

Save(t) ==
    /\ At(t, "save")
    /\ disk' = task[t].profile
    /\ Goto(t, "saved")
    /\ UNCHANGED <<late, cache, writer, seq, buffer, readers, sent, rows, torn>>

\* Mutant of SaveFails: the cache takes the profile the store refused.
SaveFailsCached(t) ==
    /\ "store" \in Faults
    /\ At(t, "save")
    /\ Finish(t) /\ writer' = Free /\ cache' = task[t].profile
    /\ UNCHANGED <<disk, late, seq, buffer, readers, sent, rows, torn>>

SaveFails(t) ==
    /\ "store" \in Faults
    /\ At(t, "save")
    /\ Finish(t) /\ writer' = Free
    /\ UNCHANGED <<disk, late, cache, seq, buffer, readers, sent, rows, torn>>

\* Mutant of Commit: the lock is given back before the event is recorded.
CommitUnlocks(t) ==
    /\ At(t, "saved")
    /\ cache' = task[t].profile /\ seq' = seq + 1
    /\ task' = [task EXCEPT ![t].phase = "record", ![t].seq = seq + 1]
    /\ writer' = Free
    /\ UNCHANGED <<disk, late, buffer, readers, sent, rows, torn>>

\* After the save: the cache and the event's number.
Commit(t) ==
    /\ At(t, "saved")
    /\ cache' = task[t].profile
    /\ seq' = seq + 1
    /\ task' = [task EXCEPT ![t].phase = "record", ![t].seq = seq + 1]
    /\ UNCHANGED <<disk, late, writer, buffer, readers, sent, rows, torn>>

\* Mutant of Ring: one event too many.
RingOneMore(events, e) ==
    Append(IF Len(events) > BufferCap THEN Tail(events) ELSE events, e)

Ring(events, e) ==
    Append(IF Len(events) >= BufferCap THEN Tail(events) ELSE events, e)

\* The ring buffer has a lock of its own, which replays to subscribers hold.
Record(t) ==
    /\ At(t, "record") /\ readers = {}
    /\ buffer' = Ring(buffer, Event(t))
    /\ Goto(t, "send")
    /\ UNCHANGED <<disk, late, cache, writer, seq, readers, sent, rows, torn>>

Send(t) ==
    /\ At(t, "send")
    /\ sent' = Append(sent, Event(t))
    /\ Goto(t, "insert")
    /\ UNCHANGED <<disk, late, cache, writer, seq, buffer, readers, rows, torn>>

\* The rows of the highest numbers stay.
Newest(table) == {r \in table : Cardinality({q \in table : q.seq > r.seq}) < MaxItems}

\* HistoryRepo.insert: the number is the key, and a row that has it is replaced.
\* An error of SQLite is logged only.
Inserted(e) == Newest({r \in rows : r.seq # e.seq} \cup {e})

Insert(t) ==
    /\ At(t, "insert")
    /\ rows' \in {Inserted(Event(t))} \cup (IF "store" \in Faults THEN {rows} ELSE {})
    /\ Finish(t) /\ (IF writer = t THEN writer' = Free ELSE UNCHANGED writer)
    /\ UNCHANGED <<disk, late, cache, seq, buffer, readers, sent, torn>>

-----------------------------------------------------------------------------
(* load_current, when the cache is unset; otherwise it changes nothing. *)

Get(t) ==
    /\ ~Busy(t) /\ writer = Free /\ cache = Unset
    /\ task' = [task EXCEPT ![t] = [NoTask EXCEPT !.phase = "load"]]
    /\ writer' = t
    /\ UNCHANGED <<disk, late, cache, seq, buffer, readers, sent, rows, torn>>

\* A failed read is cached as the empty profile.
Load(t) ==
    /\ At(t, "load")
    /\ cache' \in ReadBack
    /\ torn' = (torn \/ cache' # disk)
    /\ Finish(t) /\ writer' = Free
    /\ UNCHANGED <<disk, late, seq, buffer, readers, sent, rows>>

-----------------------------------------------------------------------------
(* Failures. *)

\* The future of an HTTP handler is dropped at an await.  A file operation it
\* awaits goes on in the blocking pool, outside of the lock.
Cancel(t) ==
    /\ "cancel" \in Faults
    /\ task[t].phase \in {"put", "read", "save", "saved", "record", "load"}
    /\ Finish(t)
    /\ writer' = IF writer = t THEN Free ELSE writer
    /\ late' = IF At(t, "save") THEN late \cup {task[t].profile} ELSE late
    /\ torn' = (torn \/ task[t].phase \in {"save", "saved", "record"})
    /\ UNCHANGED <<disk, cache, seq, buffer, readers, sent, rows>>

LateWrite(p) ==
    /\ p \in late
    /\ disk' = p /\ late' = late \ {p}
    /\ UNCHANGED <<cache, writer, task, seq, buffer, readers, sent, rows, torn>>

\* The process ends; the file and the table stay, the numbers start again.
Restart ==
    /\ "crash" \in Faults
    /\ late' = {} /\ cache' = Unset /\ writer' = Free
    /\ task' = [t \in Tasks |-> NoTask]
    /\ seq' = 0 /\ buffer' = <<>> /\ readers' = {} /\ sent' = <<>> /\ torn' = FALSE
    /\ UNCHANGED <<disk, rows>>

-----------------------------------------------------------------------------
\* What a handler does once it has begun.
Work(t) == \/ Enter(t) \/ Compare(t) \/ Save(t) \/ SaveFails(t) \/ Commit(t)
           \/ Record(t) \/ Send(t) \/ Insert(t) \/ Load(t)

ServiceStep ==
    \/ \E t \in Tasks, p \in Profiles : Put(t, p)
    \/ \E t \in Tasks : Get(t) \/ Work(t) \/ Cancel(t)
    \/ \E p \in Profiles : LateWrite(p)

-----------------------------------------------------------------------------
(* Properties *)

Phases == {"idle", "put", "read", "save", "saved", "record", "send", "insert", "load"}
TaskStates == [phase : Phases, profile : Profiles \cup {Empty}, seq : Nat]
Events == [seq : Nat, profile : Profiles]

\* Every variable holds a value of its type.
ServiceTypeOK ==
    /\ disk \in Profiles \cup {Empty} /\ late \subseteq Profiles
    /\ cache \in Profiles \cup {Empty, Unset} /\ writer \in Tasks \cup {Free}
    /\ task \in [Tasks -> TaskStates]
    /\ seq \in Nat /\ torn \in BOOLEAN
    /\ buffer \in Seq(Events) /\ sent \in Seq(Events) /\ rows \subseteq Events

\* "The whole sequence read, compare, persist, update the cache is atomic": while
\* nobody is inside, the cache is what is stored and the last recorded event is
\* what is cached.  A client that leaves in the middle of its upload and a failed
\* load are the only ways out of this.
ServiceConsistent ==
    writer = Free /\ cache # Unset /\ ~torn =>
        /\ cache = disk
        /\ buffer # <<>> => buffer[Len(buffer)].profile = cache

\* Events are recorded and announced in the order of their numbers, so that
\* "after number n" means the same to every subscriber, cancelled uploads or not.
Ascending(events) ==
    \A i \in 1 .. Len(events) - 1 : events[i].seq < events[i + 1].seq
EventsInOrder == Ascending(buffer) /\ Ascending(sent)

=============================================================================
