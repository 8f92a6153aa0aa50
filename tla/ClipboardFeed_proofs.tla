------------------------ MODULE ClipboardFeed_proofs ------------------------
(***************************************************************************)
(* Proofs about the clipboard service and its feed, for any number of      *)
(* handlers and clients and all capacities with BufferCap <= OutCap:       *)
(*   - FeedInv: types, and the room a replay finds in its channel;         *)
(*   - LockedInv: what the write lock of the profile keeps together, and   *)
(*     the order of the events in the buffer and on the broadcast;         *)
(*   - StreamInv: what each stream has queued and passed over, from which  *)
(*     it follows that a live stream has no hole and that a client never   *)
(*     goes backwards.                                                     *)
(***************************************************************************)
EXTENDS ClipboardFeed, TLAPS

(* A task that uploads has a profile a client may upload. *)
TaskInv == \A t \in Tasks : task[t].phase \notin {"idle", "load"} => task[t].profile \in Profiles

ServiceInv == ServiceTypeOK /\ TaskInv

LEMMA RingType ==
    ASSUME NEW events \in Seq(Events), NEW e \in Events
    PROVE  Ring(events, e) \in Seq(Events)
  <1>1. CASE Len(events) >= BufferCap
    <2>1. Len(events) > 0
      BY <1>1, BoundsAssumption
    <2>2. Tail(events) \in Seq(Events)
      BY <2>1
    <2> QED BY <1>1, <2>2 DEF Ring
  <1>2. CASE ~(Len(events) >= BufferCap)
    BY <1>2 DEF Ring
  <1> QED BY <1>1, <1>2

(* The ring never grows beyond its capacity. *)
LEMMA RingLength ==
    ASSUME NEW events \in Seq(Events), NEW e \in Events, Len(events) <= BufferCap
    PROVE  Len(Ring(events, e)) <= BufferCap
  <1>1. CASE Len(events) >= BufferCap
    <2>1. Len(events) > 0 /\ Len(events) = BufferCap
      BY <1>1, BoundsAssumption
    <2>2. Tail(events) \in Seq(Events) /\ Len(Tail(events)) = BufferCap - 1
      BY <2>1
    <2>3. Len(Append(Tail(events), e)) = BufferCap
      BY <2>2, BoundsAssumption
    <2> QED BY <1>1, <2>3, BoundsAssumption DEF Ring
  <1>2. CASE ~(Len(events) >= BufferCap)
    <2>1. Len(Append(events, e)) = Len(events) + 1
      OBVIOUS
    <2> QED BY <1>2, <2>1, BoundsAssumption DEF Ring
  <1> QED BY <1>1, <1>2

LEMMA ServiceInitInv == ServiceInit => ServiceInv
  <1> SUFFICES ASSUME ServiceInit PROVE ServiceInv
    OBVIOUS
  <1>1. task \in [Tasks -> TaskStates]
    BY DEF ServiceInit, NoTask, TaskStates, Phases
  <1>2. TaskInv
    BY DEF ServiceInit, NoTask, TaskInv
  <1>3. buffer \in Seq(Events) /\ sent \in Seq(Events) /\ rows \subseteq Events
    BY DEF ServiceInit
  <1>4. /\ disk \in Profiles \cup {Empty} /\ late \subseteq Profiles
        /\ cache \in Profiles \cup {Empty, Unset} /\ writer \in Tasks \cup {Free}
        /\ seq \in Nat /\ torn \in BOOLEAN
    BY DEF ServiceInit
  <1> QED BY <1>1, <1>2, <1>3, <1>4 DEF ServiceInv, ServiceTypeOK

LEMMA EventType ==
    ASSUME ServiceInv, NEW t \in Tasks, task[t].phase \notin {"idle", "load"}
    PROVE  Event(t) \in Events
  BY DEF ServiceInv, ServiceTypeOK, TaskStates, TaskInv, Event, Events

(* What every step does to a task: it goes on, or it ends. *)
LEMMA GotoKeeps ==
    ASSUME ServiceInv, NEW t \in Tasks, NEW phase \in Phases \ {"load"}, Goto(t, phase),
           task[t].phase \notin {"idle", "load"}
    PROVE  task' \in [Tasks -> TaskStates] /\ TaskInv'
  BY DEF ServiceInv, ServiceTypeOK, TaskStates, TaskInv, Goto, Phases

LEMMA FinishKeeps ==
    ASSUME ServiceInv, NEW t \in Tasks, Finish(t)
    PROVE  task' \in [Tasks -> TaskStates] /\ TaskInv'
  BY DEF ServiceInv, ServiceTypeOK, TaskStates, TaskInv, Finish, NoTask, Phases

(* The profile of a task at work is one a client may upload. *)
LEMMA ProfileType ==
    ASSUME ServiceInv, NEW t \in Tasks, task[t].phase \notin {"idle", "load"}
    PROVE  task[t].profile \in Profiles
  BY DEF ServiceInv, TaskInv

(* The steps of a request, one by one. *)
LEMMA WorkKeepsInv ==
    ASSUME ServiceInv, NEW t \in Tasks, Work(t) PROVE ServiceInv'
  <1> USE DEF ServiceInv
  <1>1. CASE Enter(t)
    <2>1. task' \in [Tasks -> TaskStates] /\ TaskInv'
      BY <1>1, GotoKeeps, FinishKeeps DEF Enter, At, Phases
    <2> QED BY <1>1, <2>1 DEF Enter, ServiceTypeOK
  <1>2. CASE Compare(t)
    <2>1. task' \in [Tasks -> TaskStates] /\ TaskInv'
      BY <1>2, GotoKeeps, FinishKeeps DEF Compare, At, Phases
    <2> QED BY <1>2, <2>1 DEF Compare, ServiceTypeOK
  <1>3. CASE Save(t)
    <2>1. task' \in [Tasks -> TaskStates] /\ TaskInv'
      BY <1>3, GotoKeeps DEF Save, At, Phases
    <2> QED BY <1>3, <2>1, ProfileType DEF Save, At, ServiceTypeOK
  <1>4. CASE SaveFails(t)
    <2>1. task' \in [Tasks -> TaskStates] /\ TaskInv'
      BY <1>4, FinishKeeps DEF SaveFails
    <2> QED BY <1>4, <2>1 DEF SaveFails, ServiceTypeOK
  <1>5. CASE Commit(t)
    <2>1. task[t].profile \in Profiles
      BY <1>5, ProfileType DEF Commit, At
    <2>2. task[t] \in TaskStates /\ seq + 1 \in Nat
      BY DEF ServiceTypeOK
    <2>3. task' = [task EXCEPT ![t] = [@ EXCEPT !.phase = "record", !.seq = seq + 1]]
      BY <1>5 DEF Commit, ServiceTypeOK
    <2>4. task' \in [Tasks -> TaskStates] /\ TaskInv'
      BY <2>1, <2>2, <2>3 DEF ServiceTypeOK, TaskStates, Phases, TaskInv
    <2> QED BY <1>5, <2>1, <2>2, <2>4 DEF Commit, ServiceTypeOK
  <1>6. CASE Record(t)
    <2>1. Event(t) \in Events
      BY <1>6, EventType DEF Record, At
    <2>2. buffer' \in Seq(Events)
      BY <1>6, <2>1, RingType DEF Record, ServiceTypeOK
    <2>3. task' \in [Tasks -> TaskStates] /\ TaskInv'
      BY <1>6, GotoKeeps DEF Record, At, Phases
    <2> QED BY <1>6, <2>2, <2>3 DEF Record, ServiceTypeOK
  <1>7. CASE Send(t)
    <2>1. Event(t) \in Events
      BY <1>7, EventType DEF Send, At
    <2>2. sent' \in Seq(Events)
      BY <1>7, <2>1 DEF Send, ServiceTypeOK
    <2>3. task' \in [Tasks -> TaskStates] /\ TaskInv'
      BY <1>7, GotoKeeps DEF Send, At, Phases
    <2> QED BY <1>7, <2>2, <2>3 DEF Send, ServiceTypeOK
  <1>8. CASE Insert(t)
    <2>1. Event(t) \in Events
      BY <1>8, EventType DEF Insert, At
    <2>2. rows' \subseteq Events
      BY <1>8, <2>1 DEF Insert, Inserted, Newest, ServiceTypeOK
    <2>3. task' \in [Tasks -> TaskStates] /\ TaskInv'
      BY <1>8, FinishKeeps DEF Insert
    <2> QED BY <1>8, <2>2, <2>3 DEF Insert, ServiceTypeOK
  <1>9. CASE Load(t)
    <2>1. task' \in [Tasks -> TaskStates] /\ TaskInv'
      BY <1>9, FinishKeeps DEF Load
    <2>2. cache' \in Profiles \cup {Empty}
      BY <1>9 DEF Load, ReadBack, ServiceTypeOK
    <2> QED BY <1>9, <2>1, <2>2 DEF Load, ServiceTypeOK
  <1> QED BY <1>1, <1>2, <1>3, <1>4, <1>5, <1>6, <1>7, <1>8, <1>9 DEF Work

LEMMA ServiceStepKeepsInv ==
    ASSUME ServiceInv, ServiceStep PROVE ServiceInv'
  <1> USE DEF ServiceInv
  <1>1. ASSUME NEW t \in Tasks, NEW p \in Profiles, Put(t, p) PROVE ServiceInv'
    <2>1. task' \in [Tasks -> TaskStates] /\ TaskInv'
      BY <1>1 DEF Put, NoTask, ServiceTypeOK, TaskStates, Phases, TaskInv
    <2> QED BY <1>1, <2>1 DEF Put, ServiceTypeOK
  <1>2. ASSUME NEW t \in Tasks, Get(t) PROVE ServiceInv'
    <2>1. task' \in [Tasks -> TaskStates] /\ TaskInv'
      BY <1>2 DEF Get, NoTask, ServiceTypeOK, TaskStates, Phases, TaskInv
    <2> QED BY <1>2, <2>1 DEF Get, ServiceTypeOK
  <1>3. ASSUME NEW t \in Tasks, Work(t) PROVE ServiceInv'
    BY <1>3, WorkKeepsInv
  <1>4. ASSUME NEW t \in Tasks, Cancel(t) PROVE ServiceInv'
    <2>1. late' \subseteq Profiles
      BY <1>4, ProfileType DEF Cancel, At, ServiceTypeOK
    <2>2. task' \in [Tasks -> TaskStates] /\ TaskInv'
      BY <1>4, FinishKeeps DEF Cancel
    <2> QED BY <1>4, <2>1, <2>2 DEF Cancel, ServiceTypeOK
  <1>5. ASSUME NEW p \in Profiles, LateWrite(p) PROVE ServiceInv'
    BY <1>5 DEF LateWrite, ServiceTypeOK, TaskInv
  <1> QED BY <1>1, <1>2, <1>3, <1>4, <1>5 DEF ServiceStep

LEMMA RestartKeepsInv ==
    ASSUME ServiceInv, Restart PROVE ServiceInv'
  <1>1. task' \in [Tasks -> TaskStates]
    BY DEF Restart, NoTask, TaskStates, Phases
  <1>2. TaskInv'
    BY DEF Restart, NoTask, TaskInv
  <1>3. buffer' \in Seq(Events) /\ sent' \in Seq(Events) /\ rows' \subseteq Events
    BY DEF Restart, ServiceInv, ServiceTypeOK
  <1>4. /\ disk' \in Profiles \cup {Empty} /\ late' \subseteq Profiles
        /\ cache' \in Profiles \cup {Empty, Unset} /\ writer' \in Tasks \cup {Free}
        /\ seq' \in Nat /\ torn' \in BOOLEAN
    BY DEF Restart, ServiceInv, ServiceTypeOK
  <1> QED BY <1>1, <1>2, <1>3, <1>4 DEF ServiceInv, ServiceTypeOK

-----------------------------------------------------------------------------
(* The feed. *)

FeedTypeOK ==
    /\ stream \in [Clients -> {"off", "replay", "between", "live"}]
    /\ replayed \in [Clients -> Nat]
    /\ cursor \in [Clients -> Nat]
    /\ out \in [Clients -> Seq(Nat)]

(* What a replay has queued, it has read from the buffer before, and the buffer  *)
(* stays as it is meanwhile, because the stream is one of its readers.           *)
RoomInv ==
    /\ Len(buffer) <= BufferCap
    /\ \A c \in Clients :
          /\ stream[c] = "off" => replayed[c] = 0
          /\ stream[c] = "replay" =>
                c \in readers /\ replayed[c] <= Len(buffer) /\ Len(out[c]) <= replayed[c]

FeedInv == ServiceInv /\ FeedTypeOK /\ RoomInv

LEMMA FeedInitInv == Init => FeedInv
  <1> SUFFICES ASSUME Init PROVE FeedInv
    OBVIOUS
  <1>1. ServiceInv
    BY ServiceInitInv DEF Init
  <1>2. FeedTypeOK
    BY DEF Init, FeedTypeOK
  <1>3. RoomInv
    <2>1. Len(buffer) = 0
      BY DEF Init, ServiceInit
    <2> QED BY <2>1, BoundsAssumption DEF Init, RoomInv
  <1> QED BY <1>1, <1>2, <1>3 DEF FeedInv

(* Only Record changes the buffer while the server runs, and it waits for readers. *)
LEMMA ServiceStepBuffer ==
    ASSUME ServiceInv, ServiceStep, Len(buffer) <= BufferCap
    PROVE  /\ readers' = readers
           /\ Len(buffer') <= BufferCap
           /\ buffer' = buffer \/ readers = {}
  <1>1. ASSUME NEW t \in Tasks, NEW p \in Profiles, Put(t, p)
        PROVE  buffer' = buffer /\ readers' = readers
    BY <1>1 DEF Put
  <1>2. ASSUME NEW t \in Tasks, Get(t) PROVE buffer' = buffer /\ readers' = readers
    BY <1>2 DEF Get
  <1>3. ASSUME NEW t \in Tasks, Work(t), ~Record(t)
        PROVE  buffer' = buffer /\ readers' = readers
    BY <1>3 DEF Work, Enter, Compare, Save, SaveFails, Commit, Send, Insert, Load
  <1>4. ASSUME NEW t \in Tasks, Record(t)
        PROVE  readers' = readers /\ readers = {} /\ Len(buffer') <= BufferCap
    <2>1. Event(t) \in Events
      BY <1>4, EventType DEF Record, At
    <2>2. buffer \in Seq(Events)
      BY DEF ServiceInv, ServiceTypeOK
    <2> QED BY <1>4, <2>1, <2>2, RingLength DEF Record
  <1>5. ASSUME NEW t \in Tasks, Cancel(t) PROVE buffer' = buffer /\ readers' = readers
    BY <1>5 DEF Cancel
  <1>6. ASSUME NEW p \in Profiles, LateWrite(p) PROVE buffer' = buffer /\ readers' = readers
    BY <1>6 DEF LateWrite
  <1> QED BY <1>1, <1>2, <1>3, <1>4, <1>5, <1>6 DEF ServiceStep

LEMMA UnchangedServiceInv ==
    ASSUME ServiceInv, UnchangedService PROVE ServiceInv' /\ buffer' = buffer
  BY DEF ServiceInv, UnchangedService, ServiceTypeOK, TaskInv

(* At most one number is added to the channel of one client. *)
LEMMA QueueOut ==
    ASSUME FeedTypeOK, NEW c \in Clients, NEW n \in Nat, Queue(c, n) \/ out' = out
    PROVE  /\ out' \in [Clients -> Seq(Nat)]
           /\ Len(out'[c]) <= Len(out[c]) + 1
           /\ \A d \in Clients : d # c => out'[d] = out[d]
  <1>1. out[c] \in Seq(Nat)
    BY DEF FeedTypeOK
  <1>2. CASE out' = out
    BY <1>1, <1>2 DEF FeedTypeOK
  <1>3. CASE out' = [out EXCEPT ![c] = Append(@, n)]
    <2>1. Append(out[c], n) \in Seq(Nat) /\ Len(Append(out[c], n)) = Len(out[c]) + 1
      BY <1>1
    <2>2. out'[c] = Append(out[c], n)
      BY <1>3 DEF FeedTypeOK
    <2>3. Len(out'[c]) <= Len(out[c]) + 1
      BY <1>1, <2>1, <2>2
    <2>4. out' \in [Clients -> Seq(Nat)] /\ \A d \in Clients : d # c => out'[d] = out[d]
      BY <1>3, <2>1 DEF FeedTypeOK
    <2> QED BY <2>3, <2>4
  <1> QED BY <1>2, <1>3 DEF Queue

LEMMA FeedNextInv == FeedInv /\ [Next]_vars => FeedInv'
  <1> SUFFICES ASSUME FeedInv, [Next]_vars PROVE FeedInv'
    OBVIOUS
  <1> USE DEF FeedInv
  <1>1. CASE ServiceStep /\ UNCHANGED feedVars
    <2>1. ServiceInv'
      BY <1>1, ServiceStepKeepsInv
    <2>2. FeedTypeOK'
      BY <1>1 DEF FeedTypeOK, feedVars
    <2>3. /\ readers' = readers
          /\ Len(buffer') <= BufferCap
          /\ buffer' = buffer \/ readers = {}
      BY <1>1, ServiceStepBuffer DEF RoomInv
    <2>4. RoomInv'
      BY <1>1, <2>3 DEF RoomInv, feedVars
    <2> QED BY <2>1, <2>2, <2>4
  <1>2. ASSUME NEW c \in Clients, Connect(c) PROVE FeedInv'
    <2>1. ServiceInv' /\ buffer' = buffer
      BY <1>2, UnchangedServiceInv DEF Connect
    <2>2. FeedTypeOK'
      BY <1>2 DEF Connect, FeedTypeOK
    <2>3. Len(out[c]) = 0 /\ replayed[c] = 0 /\ Len(buffer) \in Nat
      BY <1>2 DEF Connect, RoomInv, ServiceInv, ServiceTypeOK
    <2>4. RoomInv'
      BY <1>2, <2>1, <2>3 DEF Connect, FeedTypeOK, RoomInv
    <2> QED BY <2>1, <2>2, <2>4
  <1>3. ASSUME NEW c \in Clients, Replay(c) PROVE FeedInv'
    <2>1. ServiceInv' /\ buffer' = buffer
      BY <1>3, UnchangedServiceInv DEF Replay
    <2>2. Len(buffer) \in Nat /\ replayed[c] \in Nat /\ replayed[c] + 1 <= Len(buffer)
      BY <1>3 DEF Replay, ServiceInv, ServiceTypeOK, FeedTypeOK
    <2>3. NextReplayed(c) \in Nat
      <3>1. buffer[replayed[c] + 1] \in Events
        BY <2>2 DEF ServiceInv, ServiceTypeOK
      <3> QED BY <3>1 DEF NextReplayed, Events
    <2>4. /\ out' \in [Clients -> Seq(Nat)]
          /\ Len(out'[c]) <= Len(out[c]) + 1
          /\ \A d \in Clients : d # c => out'[d] = out[d]
      BY <1>3, <2>3, QueueOut DEF Replay
    <2>5. FeedTypeOK'
      <3>1. /\ stream' = stream /\ cursor' = cursor
            /\ replayed' = [replayed EXCEPT ![c] = replayed[c] + 1]
        BY <1>3 DEF Replay
      <3>2. replayed' \in [Clients -> Nat]
        BY <3>1 DEF FeedTypeOK
      <3>3. stream' \in [Clients -> {"off", "replay", "between", "live"}]
            /\ cursor' \in [Clients -> Nat]
        BY <3>1 DEF FeedTypeOK
      <3> QED BY <3>2, <3>3, <2>4 DEF FeedTypeOK
    <2>6. Len(out'[c]) <= replayed'[c] /\ replayed'[c] <= Len(buffer) /\ c \in readers
      <3>1. Len(out[c]) \in Nat /\ Len(out'[c]) \in Nat
        BY <2>4 DEF FeedTypeOK
      <3>2. replayed'[c] = replayed[c] + 1
        BY <1>3 DEF Replay, FeedTypeOK
      <3>3. Len(out[c]) <= replayed[c] /\ c \in readers
        BY <1>3 DEF Replay, RoomInv
      <3> QED BY <2>2, <2>4, <3>1, <3>2, <3>3
    <2>7. \A d \in Clients : d # c => out'[d] = out[d] /\ replayed'[d] = replayed[d]
      BY <1>3, <2>4 DEF Replay, FeedTypeOK
    <2>8. RoomInv'
      BY <1>3, <2>1, <2>6, <2>7 DEF Replay, RoomInv
    <2> QED BY <2>1, <2>5, <2>8
  <1>4. ASSUME NEW c \in Clients, Unlock(c) PROVE FeedInv'
    <2>1. ServiceInv' /\ buffer' = buffer
      BY <1>4, UnchangedServiceInv DEF Unlock
    <2>2. FeedTypeOK'
      BY <1>4 DEF Unlock, FeedTypeOK
    <2>3. RoomInv'
      BY <1>4, <2>1 DEF Unlock, FeedTypeOK, RoomInv
    <2> QED BY <2>1, <2>2, <2>3
  <1>5. ASSUME NEW c \in Clients, Subscribe(c) PROVE FeedInv'
    <2>1. ServiceInv' /\ buffer' = buffer
      BY <1>5, UnchangedServiceInv DEF Subscribe
    <2>2. FeedTypeOK'
      BY <1>5 DEF Subscribe, FeedTypeOK
    <2>3. RoomInv'
      BY <1>5, <2>1 DEF Subscribe, FeedTypeOK, RoomInv
    <2> QED BY <2>1, <2>2, <2>3
  <1>6. ASSUME NEW c \in Clients, Live(c) PROVE FeedInv'
    <2>1. ServiceInv' /\ buffer' = buffer
      BY <1>6, UnchangedServiceInv DEF Live
    <2>2. sent[cursor[c] + 1].seq \in Nat
      <3>1. cursor[c] + 1 \in 1 .. Len(sent) /\ sent \in Seq(Events)
        BY <1>6 DEF Live, FeedTypeOK, ServiceInv, ServiceTypeOK
      <3>2. sent[cursor[c] + 1] \in Events
        BY <3>1
      <3> QED BY <3>2 DEF Events
    <2>3. /\ out' \in [Clients -> Seq(Nat)]
          /\ \A d \in Clients : d # c => out'[d] = out[d]
      BY <1>6, <2>2, QueueOut DEF Live
    <2>4. /\ stream' = stream /\ replayed' = replayed /\ readers' = readers
          /\ cursor' = [cursor EXCEPT ![c] = cursor[c] + 1] /\ stream[c] = "live"
      BY <1>6 DEF Live
    <2>5. FeedTypeOK'
      <3>1. cursor' \in [Clients -> Nat]
        BY <2>4 DEF FeedTypeOK
      <3>2. stream' \in [Clients -> {"off", "replay", "between", "live"}]
            /\ replayed' \in [Clients -> Nat]
        BY <2>4 DEF FeedTypeOK
      <3> QED BY <3>1, <3>2, <2>3 DEF FeedTypeOK
    <2>6. RoomInv'
      <3>1. ASSUME NEW d \in Clients, stream[d] = "replay" PROVE out'[d] = out[d]
        BY <2>3, <2>4, <3>1
      <3> QED BY <2>1, <2>4, <3>1 DEF RoomInv
    <2> QED BY <2>1, <2>5, <2>6
  <1>7. ASSUME NEW c \in Clients, Lag(c) \/ Disconnect(c) PROVE FeedInv'
    <2>1. ServiceInv' /\ buffer' = buffer
      BY <1>7, UnchangedServiceInv DEF Lag, Disconnect
    <2>2. FeedTypeOK'
      <3>1. stream' \in [Clients -> {"off", "replay", "between", "live"}]
        BY <1>7 DEF Lag, Disconnect, ClosedStream, FeedTypeOK
      <3>2. replayed' = [replayed EXCEPT ![c] = 0] /\ cursor' = [cursor EXCEPT ![c] = 0]
        BY <1>7 DEF Lag, Disconnect, ClosedStream
      <3>3. replayed' \in [Clients -> Nat] /\ cursor' \in [Clients -> Nat]
        BY <3>2 DEF FeedTypeOK
      <3>4. out' \in [Clients -> Seq(Nat)]
        <4>1. <<>> \in Seq(Nat)
          OBVIOUS
        <4> QED BY <1>7, <4>1 DEF Lag, Disconnect, FeedTypeOK
      <3> QED BY <3>1, <3>3, <3>4 DEF FeedTypeOK
    <2>3. stream'[c] = "off" /\ replayed'[c] = 0
      BY <1>7 DEF Lag, Disconnect, ClosedStream, FeedTypeOK
    <2>4. \A d \in Clients : d # c =>
             /\ stream'[d] = stream[d] /\ replayed'[d] = replayed[d]
             /\ out'[d] = out[d] /\ (d \in readers => d \in readers')
      BY <1>7 DEF Lag, Disconnect, ClosedStream, FeedTypeOK
    <2>5. RoomInv'
      BY <2>1, <2>3, <2>4 DEF RoomInv
    <2> QED BY <2>1, <2>2, <2>5
  <1>8. ASSUME NEW c \in Clients, Receive(c) PROVE FeedInv'
    <2>1. ServiceInv' /\ buffer' = buffer
      BY <1>8, UnchangedServiceInv DEF Receive
    <2>2. out[c] \in Seq(Nat) /\ out[c] # <<>>
      BY <1>8 DEF Receive, FeedTypeOK
    <2>3. Tail(out[c]) \in Seq(Nat) /\ Len(Tail(out[c])) <= Len(out[c])
      BY <2>2
    <2>4. FeedTypeOK'
      BY <1>8, <2>3 DEF Receive, FeedTypeOK
    <2>5. Len(out'[c]) <= Len(out[c]) /\ \A d \in Clients : d # c => out'[d] = out[d]
      BY <1>8, <2>3 DEF Receive, FeedTypeOK
    <2>6. Len(out[c]) \in Nat /\ Len(out'[c]) \in Nat /\ replayed[c] \in Nat
      BY <2>2, <2>4 DEF FeedTypeOK
    <2>7. stream[c] = "replay" => Len(out'[c]) <= replayed[c]
      BY <2>5, <2>6 DEF RoomInv
    <2>8. RoomInv'
      BY <1>8, <2>1, <2>5, <2>7 DEF Receive, RoomInv
    <2> QED BY <2>1, <2>4, <2>8
  <1>9. CASE ServerRestart
    <2>1. ServiceInv'
      BY <1>9, RestartKeepsInv DEF ServerRestart
    <2>2. FeedTypeOK'
      BY <1>9 DEF ServerRestart, FeedTypeOK
    <2>3. Len(buffer') = 0
      BY <1>9 DEF ServerRestart, Restart
    <2>4. RoomInv'
      BY <1>9, <2>3, BoundsAssumption DEF ServerRestart, RoomInv
    <2> QED BY <2>1, <2>2, <2>4
  <1>10. CASE UNCHANGED vars
    BY <1>10 DEF vars, serviceVars, feedVars, ServiceInv, ServiceTypeOK, TaskInv,
                 FeedTypeOK, RoomInv
  <1> QED BY <1>1, <1>2, <1>3, <1>4, <1>5, <1>6, <1>7, <1>8, <1>9, <1>10
          DEF Next, StreamStep

LEMMA FeedInvAlways == Spec => []FeedInv
  BY FeedInitInv, FeedNextInv, PTL DEF Spec

-----------------------------------------------------------------------------
(* Every variable of the clipboard service holds a value of its type. *)
THEOREM ServiceTypeCorrect == Spec => []ServiceTypeOK
  <1>1. FeedInv => ServiceTypeOK
    BY DEF FeedInv, ServiceInv
  <1> QED BY <1>1, FeedInvAlways, PTL

(* A subscriber that never reads cannot stop the server: a replay, which holds   *)
(* the lock every upload needs, always finds room in its client's channel,       *)
(* however large the buffer is, because the channel is at least as large.        *)
THEOREM ReplayNeverWaits == Spec => []ReplayHasRoom
  <1>1. FeedInv => ReplayHasRoom
    <2> SUFFICES ASSUME FeedInv, NEW c \in Clients,
                        stream[c] = "replay", replayed[c] < Len(buffer)
                 PROVE  Len(out[c]) < OutCap
      BY DEF ReplayHasRoom, HasRoom
    <2>1. Len(out[c]) <= replayed[c] /\ Len(buffer) <= BufferCap
      BY DEF FeedInv, RoomInv
    <2>2. /\ Len(out[c]) \in Nat /\ replayed[c] \in Nat /\ Len(buffer) \in Nat
          /\ BufferCap \in Nat /\ OutCap \in Nat
      BY BoundsAssumption, CapsAssumption
         DEF FeedInv, FeedTypeOK, ServiceInv, ServiceTypeOK
    <2> QED BY <2>1, <2>2, RoomAssumption
  <1> QED BY <1>1, FeedInvAlways, PTL

-----------------------------------------------------------------------------
(* One request at a time: the write lock of the cache. *)

Inside == {"read", "save", "saved", "record", "send", "insert", "load"}

(* Whoever is between the lock and the end of its request holds the lock. *)
WriterInv == \A t \in Tasks : task[t].phase \in Inside <=> writer = t

(* What is stored, what is cached and the last recorded event are one profile. *)
InStep == cache # Unset => /\ cache = disk
                           /\ buffer # <<>> => buffer[Len(buffer)].profile = cache

(* Where the task that holds the lock stands, and what holds at that place.  A   *)
(* write of a dropped task can only come late in a life that is torn.            *)
StoredInv ==
    /\ cache = Unset => buffer = <<>>
    /\ \A t \in Tasks :
          /\ At(t, "read") \/ At(t, "load") => cache = Unset
          /\ At(t, "record") \/ At(t, "send") \/ At(t, "insert") => cache = task[t].profile
    /\ ~torn =>
          /\ late = {}
          /\ (\A t \in Tasks : ~At(t, "saved") /\ ~At(t, "record")) => InStep
          /\ \A t \in Tasks : At(t, "saved") \/ At(t, "record") => disk = task[t].profile

LEMMA GotoFacts ==
    ASSUME ServiceInv, NEW t \in Tasks, NEW phase, Goto(t, phase)
    PROVE  /\ task'[t].phase = phase /\ task'[t].profile = task[t].profile
           /\ task'[t].seq = task[t].seq
           /\ \A u \in Tasks : u # t => task'[u] = task[u]
  BY DEF ServiceInv, ServiceTypeOK, TaskStates, Goto

LEMMA FinishFacts ==
    ASSUME ServiceInv, NEW t \in Tasks, Finish(t)
    PROVE  task'[t].phase = "idle" /\ \A u \in Tasks : u # t => task'[u] = task[u]
  BY DEF ServiceInv, ServiceTypeOK, Finish, NoTask

LEMMA CommitFacts ==
    ASSUME ServiceInv, NEW t \in Tasks, Commit(t)
    PROVE  /\ task'[t].phase = "record" /\ task'[t].profile = task[t].profile
           /\ task'[t].seq = seq + 1
           /\ \A u \in Tasks : u # t => task'[u] = task[u]
  <1>1. task[t] \in TaskStates
    BY DEF ServiceInv, ServiceTypeOK
  <1>2. task' = [task EXCEPT ![t] = [@ EXCEPT !.phase = "record", !.seq = seq + 1]]
    BY DEF Commit, ServiceInv, ServiceTypeOK
  <1>3. /\ task'[t] = [task[t] EXCEPT !.phase = "record", !.seq = seq + 1]
        /\ \A u \in Tasks : u # t => task'[u] = task[u]
    BY <1>2 DEF ServiceInv, ServiceTypeOK
  <1> QED
    BY <1>1, <1>3 DEF TaskStates

(* The lock goes where the task that works goes. *)
LEMMA WriterStep ==
    ASSUME ServiceInv, WriterInv, ServiceStep
    PROVE  WriterInv'
  <1> USE NamesAssumption DEF WriterInv, Inside
  <1>1. ASSUME NEW t \in Tasks, NEW p \in Profiles, Put(t, p) PROVE WriterInv'
    <2>1. /\ task'[t].phase = "put" /\ task[t].phase = "idle" /\ writer' = writer
          /\ \A u \in Tasks : u # t => task'[u] = task[u]
      BY <1>1 DEF Put, Busy, NoTask, ServiceInv, ServiceTypeOK
    <2> QED BY <2>1
  <1>2. ASSUME NEW t \in Tasks, Get(t) PROVE WriterInv'
    <2>1. /\ task'[t].phase = "load" /\ writer = Free /\ writer' = t
          /\ \A u \in Tasks : u # t => task'[u] = task[u]
      BY <1>2 DEF Get, NoTask, ServiceInv, ServiceTypeOK
    <2> QED BY <2>1
  (* a task that goes on, with the lock or on its way to it *)
  <1>3. ASSUME NEW t \in Tasks, Enter(t) PROVE WriterInv'
    <2>1. /\ writer = Free /\ \A u \in Tasks : u # t => task'[u] = task[u]
          /\ \/ task'[t].phase = "idle" /\ writer' = writer
             \/ task'[t].phase \in {"read", "save"} /\ writer' = t
      BY <1>3, GotoFacts, FinishFacts DEF Enter
    <2> QED BY <2>1
  <1>4. ASSUME NEW t \in Tasks, NEW p, writer = t \/ task[t].phase \in Inside,
               \A u \in Tasks : u # t => task'[u] = task[u],
               \/ task'[t].phase \in Inside /\ writer' = writer
               \/ task'[t].phase = "idle" /\ writer' = Free
        PROVE  WriterInv'
    BY <1>4
  <1>5. ASSUME NEW t \in Tasks, Compare(t) \/ Save(t) \/ SaveFails(t) \/ Record(t) \/ Send(t)
                                \/ Insert(t) \/ Load(t)
        PROVE  WriterInv'
    <2>1. task[t].phase \in Inside /\ writer = t
      BY <1>5 DEF Compare, Save, SaveFails, Record, Send, Insert, Load, At
    <2>2. \/ (\E phase \in Inside : Goto(t, phase)) /\ writer' = writer
          \/ Finish(t) /\ writer' = Free
      BY <1>5, <2>1 DEF Compare, Save, SaveFails, Record, Send, Insert, Load
    <2> QED BY <1>4, <2>1, <2>2, GotoFacts, FinishFacts
  <1>6. ASSUME NEW t \in Tasks, Commit(t) PROVE WriterInv'
    <2>1. task[t].phase \in Inside /\ writer' = writer
      BY <1>6 DEF Commit, At
    <2> QED BY <1>4, <1>6, <2>1, CommitFacts
  <1>7. ASSUME NEW t \in Tasks, Cancel(t) PROVE WriterInv'
    <2>1. /\ task'[t].phase = "idle" /\ \A u \in Tasks : u # t => task'[u] = task[u]
          /\ writer' = IF writer = t THEN Free ELSE writer
      BY <1>7, FinishFacts DEF Cancel
    <2> QED BY <2>1
  <1>8. ASSUME NEW p, LateWrite(p) PROVE WriterInv'
    BY <1>8 DEF LateWrite
  <1> QED BY <1>1, <1>2, <1>3, <1>5, <1>6, <1>7, <1>8 DEF ServiceStep, Work

(* The last event of the ring is the one that was put there. *)
LEMMA RingLast ==
    ASSUME NEW events \in Seq(Events), NEW e \in Events
    PROVE  /\ Ring(events, e) # <<>>
           /\ Ring(events, e)[Len(Ring(events, e))] = e
  <1> DEFINE kept == IF Len(events) >= BufferCap THEN Tail(events) ELSE events
  <1>1. kept \in Seq(Events)
    <2>1. CASE Len(events) >= BufferCap
      <3>1. Len(events) > 0
        BY <2>1, BoundsAssumption
      <3> QED BY <2>1, <3>1
    <2>2. CASE ~(Len(events) >= BufferCap)
      BY <2>2
    <2> QED BY <2>1, <2>2
  <1>2. Ring(events, e) = Append(kept, e)
    BY DEF Ring
  <1> HIDE DEF kept
  <1>3. Append(kept, e) # <<>> /\ Append(kept, e)[Len(Append(kept, e))] = e
    BY <1>1
  <1> QED BY <1>2, <1>3

(* While t holds the lock nobody else is inside. *)
LEMMA OthersOutside ==
    ASSUME WriterInv, NEW t \in Tasks, writer = t \/ task[t].phase \in Inside,
           NEW u \in Tasks, u # t, task'[u] = task[u]
    PROVE  task'[u].phase \notin Inside /\ task[u].phase \notin Inside
  BY DEF WriterInv

(* The store, the cache and the buffer stay together under the lock. *)
LEMMA StoredStep ==
    ASSUME ServiceInv, WriterInv, StoredInv, ServiceStep
    PROVE  StoredInv'
  <1> USE DEF At
  (* what only asks for the lock, or gives it back without a change *)
  <1>1. ASSUME NEW t \in Tasks, \A u \in Tasks : u # t => task'[u] = task[u],
               task'[t].phase \notin {"record", "send", "insert", "saved"},
               task'[t].phase \in {"read", "load"} => cache = Unset,
               task[t].phase \notin {"record", "saved"},
               UNCHANGED <<disk, late, cache, buffer, torn>>
        PROVE  StoredInv'
    <2>1. (\A u \in Tasks : ~At(u, "saved")' /\ ~At(u, "record")') =>
             \A u \in Tasks : ~At(u, "saved") /\ ~At(u, "record")
      BY <1>1
    <2>2. InStep' <=> InStep
      BY <1>1 DEF InStep
    <2>3. \A u \in Tasks :
            /\ At(u, "read")' \/ At(u, "load")' => cache' = Unset
            /\ At(u, "record")' \/ At(u, "send")' \/ At(u, "insert")' => cache' = task'[u].profile
            /\ ~torn /\ (At(u, "saved")' \/ At(u, "record")') => disk' = task'[u].profile
      BY <1>1 DEF StoredInv
    <2> QED BY <1>1, <2>1, <2>2, <2>3 DEF StoredInv
  <1>2. ASSUME NEW t \in Tasks, NEW p \in Profiles, Put(t, p) PROVE StoredInv'
    <2>1. /\ task'[t].phase = "put" /\ task[t].phase = "idle"
          /\ \A u \in Tasks : u # t => task'[u] = task[u]
      BY <1>2 DEF Put, Busy, NoTask, ServiceInv, ServiceTypeOK
    <2> QED BY <1>1, <1>2, <2>1 DEF Put
  <1>3. ASSUME NEW t \in Tasks, Get(t) PROVE StoredInv'
    <2>1. /\ task'[t].phase = "load" /\ task[t].phase = "idle" /\ cache = Unset
          /\ \A u \in Tasks : u # t => task'[u] = task[u]
      BY <1>3 DEF Get, Busy, NoTask, ServiceInv, ServiceTypeOK
    <2> QED BY <1>1, <1>3, <2>1 DEF Get
  <1>4. ASSUME NEW t \in Tasks, Enter(t) PROVE StoredInv'
    <2>1. /\ \A u \in Tasks : u # t => task'[u] = task[u]
          /\ task[t].phase = "put"
          /\ task'[t].phase \in {"idle", "read", "save"}
          /\ task'[t].phase = "read" => cache = Unset
      BY <1>4, GotoFacts, FinishFacts DEF Enter
    <2> QED BY <1>1, <1>4, <2>1 DEF Enter
  <1>5. ASSUME NEW t \in Tasks, Compare(t) \/ SaveFails(t) PROVE StoredInv'
    <2>1. /\ \A u \in Tasks : u # t => task'[u] = task[u]
          /\ task[t].phase \in {"read", "save"}
          /\ task'[t].phase \in {"idle", "save"}
      BY <1>5, GotoFacts, FinishFacts DEF Compare, SaveFails
    <2> QED BY <1>1, <1>5, <2>1 DEF Compare, SaveFails
  <1>6. ASSUME NEW t \in Tasks, Save(t) PROVE StoredInv'
    <2>1. /\ task'[t].phase = "saved" /\ task'[t].profile = task[t].profile
          /\ task[t].phase = "save" /\ disk' = task[t].profile
          /\ UNCHANGED <<late, cache, buffer, torn>>
          /\ \A u \in Tasks : u # t => task'[u] = task[u]
      BY <1>6, GotoFacts DEF Save
    <2>2. \A u \in Tasks : u # t => task'[u].phase \notin Inside
      BY <2>1, OthersOutside DEF Inside
    <2> QED BY <2>1, <2>2 DEF StoredInv, Inside
  <1>7. ASSUME NEW t \in Tasks, Commit(t) PROVE StoredInv'
    <2>1. /\ task'[t].phase = "record" /\ task'[t].profile = task[t].profile
          /\ task[t].phase = "saved" /\ cache' = task[t].profile
          /\ UNCHANGED <<disk, late, buffer, torn>>
          /\ \A u \in Tasks : u # t => task'[u] = task[u]
      BY <1>7, CommitFacts DEF Commit
    <2>2. \A u \in Tasks : u # t => task'[u].phase \notin Inside
      BY <2>1, OthersOutside DEF Inside
    <2>3. cache' \in Profiles
      BY <2>1, ProfileType
    <2>4. cache' # Unset
      BY <2>3, NamesAssumption
    <2> QED BY <2>1, <2>2, <2>4 DEF StoredInv, Inside
  <1>8. ASSUME NEW t \in Tasks, Record(t) PROVE StoredInv'
    <2>1. /\ task'[t].phase = "send" /\ task'[t].profile = task[t].profile
          /\ task[t].phase = "record" /\ buffer' = Ring(buffer, Event(t))
          /\ UNCHANGED <<disk, late, cache, torn>>
          /\ \A u \in Tasks : u # t => task'[u] = task[u]
      BY <1>8, GotoFacts DEF Record
    <2>2. \A u \in Tasks : u # t => task'[u].phase \notin Inside
      BY <2>1, OthersOutside DEF Inside
    <2>3. cache = task[t].profile /\ cache # Unset
      <3>1. task[t].profile \in Profiles
        BY <2>1, ProfileType
      <3> QED BY <2>1, <3>1, NamesAssumption DEF StoredInv
    <2>4. buffer' # <<>> /\ buffer'[Len(buffer')].profile = cache
      <3>1. Event(t) \in Events /\ buffer \in Seq(Events)
        BY <2>1, EventType DEF ServiceInv, ServiceTypeOK
      <3>2. buffer' # <<>> /\ buffer'[Len(buffer')] = Event(t)
        BY <2>1, <3>1, RingLast
      <3> QED BY <2>3, <3>2 DEF Event
    <2>5. ~torn => late = {} /\ disk = task[t].profile
      BY <2>1 DEF StoredInv
    <2>6. ~torn => InStep'
      BY <2>1, <2>3, <2>4, <2>5 DEF InStep
    <2> QED BY <2>1, <2>2, <2>3, <2>5, <2>6 DEF StoredInv, Inside
  <1>9. ASSUME NEW t \in Tasks, Send(t) \/ Insert(t) PROVE StoredInv'
    <2>1. /\ task[t].phase \in {"send", "insert"} /\ UNCHANGED <<disk, late, cache, buffer, torn>>
          /\ \/ task'[t].phase = "insert" /\ task'[t].profile = task[t].profile
             \/ task'[t].phase = "idle"
          /\ \A u \in Tasks : u # t => task'[u] = task[u]
      BY <1>9, GotoFacts, FinishFacts DEF Send, Insert
    <2>2. \A u \in Tasks : u # t => task'[u].phase \notin Inside /\ task[u].phase \notin Inside
      BY <2>1, OthersOutside DEF Inside
    <2>3. \A u \in Tasks : ~At(u, "saved") /\ ~At(u, "record")
      BY <2>1, <2>2 DEF Inside
    <2>4. ~torn => late = {} /\ InStep
      BY <2>3 DEF StoredInv
    <2>5. ~torn => InStep'
      BY <2>1, <2>4 DEF InStep
    <2>6. cache = task[t].profile
      BY <2>1 DEF StoredInv
    <2> QED BY <2>1, <2>2, <2>4, <2>5, <2>6 DEF StoredInv, Inside
  <1>10. ASSUME NEW t \in Tasks, Load(t) PROVE StoredInv'
    <2>1. /\ task[t].phase = "load" /\ task'[t].phase = "idle"
          /\ cache' \in ReadBack /\ torn' = (torn \/ cache' # disk)
          /\ UNCHANGED <<disk, late, buffer>>
          /\ \A u \in Tasks : u # t => task'[u] = task[u]
      BY <1>10, FinishFacts DEF Load
    <2>2. \A u \in Tasks : u # t => task'[u].phase \notin Inside
      BY <2>1, OthersOutside DEF Inside
    <2>3. buffer = <<>>
      BY <2>1 DEF StoredInv
    <2>4. ~torn' => cache' = disk /\ ~torn
      BY <2>1
    <2>5. ~torn' => InStep' /\ late' = {}
      BY <2>1, <2>3, <2>4 DEF InStep, StoredInv
    <2> QED BY <2>1, <2>2, <2>3, <2>5 DEF StoredInv, Inside
  <1>11. ASSUME NEW t \in Tasks, Cancel(t) PROVE StoredInv'
    <2>1. /\ task'[t].phase = "idle" /\ UNCHANGED <<disk, cache, buffer>>
          /\ \A u \in Tasks : u # t => task'[u] = task[u]
          /\ torn' = (torn \/ task[t].phase \in {"save", "saved", "record"})
          /\ late' = IF At(t, "save") THEN late \cup {task[t].profile} ELSE late
      BY <1>11, FinishFacts DEF Cancel
    <2>2. CASE task[t].phase \in {"save", "saved", "record"}
      <3>1. torn' = TRUE
        BY <2>1, <2>2
      <3> QED BY <2>1, <3>1 DEF StoredInv
    <2>3. CASE task[t].phase \notin {"save", "saved", "record"}
      <3>1. late' = late /\ torn' = torn
        BY <2>1, <2>3 DEF ServiceInv, ServiceTypeOK
      <3> QED BY <1>1, <2>1, <2>3, <3>1
    <2> QED BY <2>2, <2>3
  <1>12. ASSUME NEW p, LateWrite(p) PROVE StoredInv'
    <2>1. torn /\ torn' = torn /\ UNCHANGED <<cache, task, buffer>>
      BY <1>12 DEF LateWrite, StoredInv, ServiceInv, ServiceTypeOK
    <2> QED BY <2>1 DEF StoredInv
  <1> QED BY <1>2, <1>3, <1>4, <1>5, <1>6, <1>7, <1>8, <1>9, <1>10, <1>11, <1>12
          DEF ServiceStep, Work

-----------------------------------------------------------------------------
(* The order of the events. *)

Sorted(events) == \A i, j \in DOMAIN events : i < j => events[i].seq < events[j].seq
UpTo(events, n) == \A i \in DOMAIN events : events[i].seq <= n
Before(events, n) == \A i \in DOMAIN events : events[i].seq < n

(* A number is new until its event is in the buffer, and then until it is sent. *)
OrderInv ==
    /\ Sorted(buffer) /\ Sorted(sent)
    /\ UpTo(buffer, seq) /\ UpTo(sent, seq)
    /\ \A t \in Tasks :
          /\ At(t, "record") \/ At(t, "send") => task[t].seq = seq /\ Before(sent, seq)
          /\ At(t, "record") => Before(buffer, seq)

LEMMA AppendSorted ==
    ASSUME NEW events \in Seq(Events), NEW e \in Events, Sorted(events), Before(events, e.seq)
    PROVE  /\ Sorted(Append(events, e)) /\ UpTo(Append(events, e), e.seq)
           /\ DOMAIN Append(events, e) = 1 .. Len(events) + 1
           /\ Append(events, e)[Len(events) + 1] = e
           /\ \A i \in DOMAIN events : Append(events, e)[i] = events[i]
  <1> DEFINE longer == Append(events, e)
  <1>1. /\ DOMAIN events = 1 .. Len(events) /\ Len(events) \in Nat
        /\ DOMAIN longer = 1 .. Len(events) + 1 /\ longer[Len(events) + 1] = e
        /\ \A i \in 1 .. Len(events) : longer[i] = events[i]
    OBVIOUS
  <1> HIDE DEF longer
  <1>2. Sorted(longer)
    <2> SUFFICES ASSUME NEW i \in 1 .. Len(events) + 1, NEW j \in 1 .. Len(events) + 1, i < j
                 PROVE  longer[i].seq < longer[j].seq
      BY <1>1 DEF Sorted
    <2>1. i \in 1 .. Len(events)
      BY <1>1
    <2>2. CASE j = Len(events) + 1
      BY <1>1, <2>1, <2>2 DEF Before
    <2>3. CASE j # Len(events) + 1
      <3>1. j \in 1 .. Len(events)
        BY <1>1, <2>3
      <3> QED BY <1>1, <2>1, <3>1 DEF Sorted
    <2> QED BY <2>2, <2>3
  <1>3. UpTo(longer, e.seq)
    <2> SUFFICES ASSUME NEW i \in 1 .. Len(events) + 1
                 PROVE  longer[i].seq <= e.seq
      BY <1>1 DEF UpTo
    <2>1. e.seq \in Nat
      BY DEF Events
    <2>2. CASE i = Len(events) + 1
      BY <1>1, <2>1, <2>2
    <2>3. CASE i # Len(events) + 1
      <3>1. i \in 1 .. Len(events)
        BY <1>1, <2>3
      <3>2. events[i] \in Events
        BY <3>1
      <3>3. events[i].seq \in Nat /\ events[i].seq < e.seq /\ longer[i] = events[i]
        BY <1>1, <3>1, <3>2 DEF Before, Events
      <3> QED BY <2>1, <3>3
    <2> QED BY <2>2, <2>3
  <1> QED BY <1>1, <1>2, <1>3 DEF longer

LEMMA TailSorted ==
    ASSUME NEW events \in Seq(Events), events # <<>>, Sorted(events), NEW n, Before(events, n)
    PROVE  Tail(events) \in Seq(Events) /\ Sorted(Tail(events)) /\ Before(Tail(events), n)
  <1> DEFINE rest == Tail(events)
  <1>1. /\ DOMAIN events = 1 .. Len(events) /\ Len(events) \in Nat
        /\ rest \in Seq(Events) /\ DOMAIN rest = 1 .. Len(events) - 1
        /\ \A i \in 1 .. Len(events) - 1 : rest[i] = events[i + 1]
    OBVIOUS
  <1> HIDE DEF rest
  <1>2. Sorted(rest)
    <2> SUFFICES ASSUME NEW i \in 1 .. Len(events) - 1, NEW j \in 1 .. Len(events) - 1, i < j
                 PROVE  rest[i].seq < rest[j].seq
      BY <1>1 DEF Sorted
    <2>1. i + 1 \in 1 .. Len(events) /\ j + 1 \in 1 .. Len(events) /\ i + 1 < j + 1
      BY <1>1
    <2> QED BY <1>1, <2>1 DEF Sorted
  <1>3. Before(rest, n)
    <2> SUFFICES ASSUME NEW i \in 1 .. Len(events) - 1 PROVE rest[i].seq < n
      BY <1>1 DEF Before
    <2>1. i + 1 \in 1 .. Len(events)
      BY <1>1
    <2> QED BY <1>1, <2>1 DEF Before
  <1> QED BY <1>1, <1>2, <1>3 DEF rest

(* A ring stays sorted when its newest event has the highest number. *)
LEMMA RingSorted ==
    ASSUME NEW events \in Seq(Events), NEW e \in Events, Sorted(events), Before(events, e.seq)
    PROVE  Sorted(Ring(events, e)) /\ UpTo(Ring(events, e), e.seq)
  <1>1. CASE Len(events) >= BufferCap
    <2>1. Len(events) > 0
      BY <1>1, BoundsAssumption
    <2>2. events # <<>>
      BY <2>1
    <2>3. Tail(events) \in Seq(Events) /\ Sorted(Tail(events)) /\ Before(Tail(events), e.seq)
      BY <2>2, TailSorted
    <2>4. Sorted(Append(Tail(events), e)) /\ UpTo(Append(Tail(events), e), e.seq)
      BY <2>3, AppendSorted
    <2> QED BY <1>1, <2>4 DEF Ring
  <1>2. CASE ~(Len(events) >= BufferCap)
    BY <1>2, AppendSorted DEF Ring
  <1> QED BY <1>1, <1>2

(* Numbers grow, and events are recorded and sent in their order. *)
LEMMA OrderStep ==
    ASSUME ServiceInv, WriterInv, OrderInv, ServiceStep
    PROVE  OrderInv'
  <1> USE DEF At
  (* a step that records and sends nothing *)
  <1>1. ASSUME NEW t \in Tasks, \A u \in Tasks : u # t => task'[u] = task[u],
               task'[t].phase \notin {"record", "send"}, UNCHANGED <<buffer, sent, seq>>
        PROVE  OrderInv'
    BY <1>1 DEF OrderInv
  <1>2. ASSUME NEW t \in Tasks, NEW p \in Profiles, Put(t, p) PROVE OrderInv'
    <2>1. task'[t].phase = "put" /\ \A u \in Tasks : u # t => task'[u] = task[u]
      BY <1>2 DEF Put, NoTask, ServiceInv, ServiceTypeOK
    <2> QED BY <1>1, <1>2, <2>1 DEF Put
  <1>3. ASSUME NEW t \in Tasks, Get(t) PROVE OrderInv'
    <2>1. task'[t].phase = "load" /\ \A u \in Tasks : u # t => task'[u] = task[u]
      BY <1>3 DEF Get, NoTask, ServiceInv, ServiceTypeOK
    <2> QED BY <1>1, <1>3, <2>1 DEF Get
  <1>4. ASSUME NEW t \in Tasks,
               \/ Enter(t) \/ Compare(t) \/ Save(t) \/ SaveFails(t) \/ Insert(t) \/ Load(t)
               \/ Cancel(t)
        PROVE  OrderInv'
    <2>1. /\ \A u \in Tasks : u # t => task'[u] = task[u]
          /\ task'[t].phase \in {"idle", "read", "save", "saved"}
      BY <1>4, GotoFacts, FinishFacts DEF Enter, Compare, Save, SaveFails, Insert, Load, Cancel
    <2>2. UNCHANGED <<buffer, sent, seq>>
      BY <1>4 DEF Enter, Compare, Save, SaveFails, Insert, Load, Cancel
    <2> QED BY <1>1, <2>1, <2>2
  <1>5. ASSUME NEW t \in Tasks, Commit(t) PROVE OrderInv'
    <2>1. /\ task'[t].phase = "record" /\ task'[t].seq = seq + 1 /\ seq' = seq + 1
          /\ task[t].phase = "saved" /\ UNCHANGED <<buffer, sent>>
          /\ \A u \in Tasks : u # t => task'[u] = task[u]
      BY <1>5, CommitFacts DEF Commit
    <2>2. \A u \in Tasks : u # t => task'[u].phase \notin {"record", "send"}
      BY <2>1, OthersOutside DEF Inside
    <2>3. seq \in Nat /\ (\A i \in DOMAIN buffer : buffer[i].seq \in Nat)
                      /\ (\A i \in DOMAIN sent : sent[i].seq \in Nat)
      <3>1. buffer \in Seq(Events) /\ sent \in Seq(Events) /\ seq \in Nat
        BY DEF ServiceInv, ServiceTypeOK
      <3>2. \A i \in DOMAIN buffer : buffer[i] \in Events
        BY <3>1
      <3>3. \A i \in DOMAIN sent : sent[i] \in Events
        BY <3>1
      <3> QED BY <3>1, <3>2, <3>3 DEF Events
    <2>4. Before(buffer, seq') /\ Before(sent, seq') /\ UpTo(buffer, seq') /\ UpTo(sent, seq')
      BY <2>1, <2>3 DEF OrderInv, Before, UpTo
    <2> QED BY <2>1, <2>2, <2>4 DEF OrderInv, Before, UpTo, Sorted
  <1>6. ASSUME NEW t \in Tasks, Record(t) PROVE OrderInv'
    <2>1. /\ task'[t].phase = "send" /\ task'[t].seq = task[t].seq
          /\ task[t].phase = "record" /\ UNCHANGED <<sent, seq>>
          /\ buffer' = Ring(buffer, Event(t))
          /\ \A u \in Tasks : u # t => task'[u] = task[u]
      BY <1>6, GotoFacts DEF Record
    <2>2. \A u \in Tasks : u # t => task'[u].phase \notin {"record", "send"}
      BY <2>1, OthersOutside DEF Inside
    <2>3. task[t].seq = seq /\ Before(buffer, seq) /\ Before(sent, seq)
      BY <2>1 DEF OrderInv
    <2>4. Event(t) \in Events /\ Event(t).seq = seq /\ buffer \in Seq(Events)
      BY <2>1, <2>3, EventType DEF Event, ServiceInv, ServiceTypeOK
    <2>5. Sorted(buffer') /\ UpTo(buffer', seq)
      BY <2>1, <2>3, <2>4, RingSorted DEF OrderInv
    <2> QED BY <2>1, <2>2, <2>3, <2>5 DEF OrderInv, Before, UpTo, Sorted
  <1>7. ASSUME NEW t \in Tasks, Send(t) PROVE OrderInv'
    <2>1. /\ task'[t].phase = "insert" /\ task[t].phase = "send" /\ UNCHANGED <<buffer, seq>>
          /\ sent' = Append(sent, Event(t))
          /\ \A u \in Tasks : u # t => task'[u] = task[u]
      BY <1>7, GotoFacts DEF Send
    <2>2. \A u \in Tasks : u # t => task'[u].phase \notin {"record", "send"}
      BY <2>1, OthersOutside DEF Inside
    <2>3. task[t].seq = seq /\ Before(sent, seq)
      BY <2>1 DEF OrderInv
    <2>4. Event(t) \in Events /\ Event(t).seq = seq /\ sent \in Seq(Events)
      BY <2>1, <2>3, EventType DEF Event, ServiceInv, ServiceTypeOK
    <2>5. Sorted(sent') /\ UpTo(sent', seq)
      BY <2>1, <2>3, <2>4, AppendSorted DEF OrderInv
    <2> QED BY <2>1, <2>2, <2>5 DEF OrderInv, Before, UpTo, Sorted
  <1>8. ASSUME NEW p, LateWrite(p) PROVE OrderInv'
    BY <1>8 DEF LateWrite, OrderInv
  <1> QED BY <1>2, <1>3, <1>4, <1>5, <1>6, <1>7, <1>8 DEF ServiceStep, Work

LockedInv == WriterInv /\ StoredInv /\ OrderInv

LEMMA LockedInit == ServiceInit => LockedInv
  <1> SUFFICES ASSUME ServiceInit PROVE LockedInv
    OBVIOUS
  <1>1. /\ \A t \in Tasks : task[t].phase = "idle"
        /\ buffer = <<>> /\ sent = <<>> /\ late = {} /\ cache = Unset /\ writer = Free
    BY DEF ServiceInit, NoTask
  <1>2. DOMAIN buffer = {} /\ DOMAIN sent = {}
    BY <1>1
  <1>3. WriterInv
    BY <1>1, NamesAssumption DEF WriterInv, Inside
  <1>4. StoredInv
    BY <1>1 DEF StoredInv, InStep, At
  <1>5. OrderInv
    BY <1>1, <1>2 DEF OrderInv, Sorted, UpTo, Before, At
  <1> QED BY <1>3, <1>4, <1>5 DEF LockedInv

(* A restart is a new life with the stored profile. *)
LEMMA LockedRestart == Restart => LockedInv'
  <1> SUFFICES ASSUME Restart PROVE LockedInv'
    OBVIOUS
  <1>1. /\ \A t \in Tasks : task'[t].phase = "idle"
        /\ buffer' = <<>> /\ sent' = <<>> /\ late' = {} /\ cache' = Unset /\ writer' = Free
    BY DEF Restart, NoTask
  <1>2. DOMAIN buffer' = {} /\ DOMAIN sent' = {}
    BY <1>1
  <1>3. WriterInv'
    BY <1>1, NamesAssumption DEF WriterInv, Inside
  <1>4. StoredInv'
    BY <1>1 DEF StoredInv, InStep, At
  <1>5. OrderInv'
    BY <1>1, <1>2 DEF OrderInv, Sorted, UpTo, Before, At
  <1> QED BY <1>3, <1>4, <1>5 DEF LockedInv

LEMMA LockedFrame ==
    ASSUME LockedInv, UnchangedService PROVE LockedInv'
  BY DEF LockedInv, UnchangedService, WriterInv, StoredInv, InStep, At, OrderInv, Sorted, UpTo,
         Before

(* What the feed's steps leave alone. *)
LEMMA FeedSteps ==
    ASSUME NEW c \in Clients, Connect(c) \/ StreamStep(c) \/ Receive(c) \/ Disconnect(c)
    PROVE  UnchangedService
  BY DEF Connect, StreamStep, Replay, Unlock, Subscribe, Live, Lag, Receive, Disconnect

LEMMA LockedAlways == Spec => [](FeedInv /\ LockedInv)
  <1>1. Init => LockedInv
    BY LockedInit DEF Init
  <1>2. FeedInv /\ LockedInv /\ [Next]_vars => LockedInv'
    <2> SUFFICES ASSUME FeedInv, LockedInv, [Next]_vars PROVE LockedInv'
      OBVIOUS
    <2>1. CASE ServiceStep
      BY <2>1, WriterStep, StoredStep, OrderStep DEF LockedInv, FeedInv
    <2>2. ASSUME NEW c \in Clients, Connect(c) \/ StreamStep(c) \/ Receive(c) \/ Disconnect(c)
          PROVE  LockedInv'
      BY <2>2, FeedSteps, LockedFrame
    <2>3. CASE ServerRestart
      BY <2>3, LockedRestart DEF ServerRestart
    <2>4. CASE UNCHANGED vars
      BY <2>4, LockedFrame DEF vars, serviceVars, UnchangedService
    <2> QED BY <2>1, <2>2, <2>3, <2>4 DEF Next
  <1> QED BY <1>1, <1>2, FeedInvAlways, PTL DEF Spec

(* While nobody is inside the lock, the stored profile, the cached one and the   *)
(* last recorded event agree, for any number of uploads, whatever writes fail,   *)
(* unless a client has left in the middle of an upload or a load has failed.     *)
THEOREM ServiceConsistentAlways == Spec => []ServiceConsistent
  <1>1. FeedInv /\ LockedInv => ServiceConsistent
    <2> SUFFICES ASSUME LockedInv, writer = Free, cache # Unset, ~torn
                 PROVE  cache = disk /\ (buffer # <<>> => buffer[Len(buffer)].profile = cache)
      BY DEF ServiceConsistent
    <2>1. \A t \in Tasks : ~At(t, "saved") /\ ~At(t, "record")
      BY NamesAssumption DEF LockedInv, WriterInv, Inside, At
    <2> QED BY <2>1 DEF LockedInv, StoredInv, InStep
  <1> QED BY <1>1, LockedAlways, PTL

(* Events are recorded and announced in the order of their numbers, although an  *)
(* upload may be dropped between taking its number and recording it.             *)
THEOREM EventsInOrderAlways == Spec => []EventsInOrder
  <1>1. FeedInv /\ LockedInv => EventsInOrder
    <2> SUFFICES ASSUME FeedInv, LockedInv PROVE EventsInOrder
      OBVIOUS
    <2>1. buffer \in Seq(Events) /\ sent \in Seq(Events)
      BY DEF FeedInv, ServiceInv, ServiceTypeOK
    <2>2. ASSUME NEW events \in Seq(Events), Sorted(events)
          PROVE  Ascending(events)
      <3>1. DOMAIN events = 1 .. Len(events) /\ Len(events) \in Nat
        OBVIOUS
      <3>2. \A i \in 1 .. Len(events) - 1 :
               i \in DOMAIN events /\ i + 1 \in DOMAIN events /\ i < i + 1
        BY <3>1
      <3> QED BY <2>2, <3>2 DEF Sorted, Ascending
    <2> QED BY <2>1, <2>2 DEF LockedInv, OrderInv, EventsInOrder
  <1> QED BY <1>1, LockedAlways, PTL

-----------------------------------------------------------------------------
(* What a client receives. *)

StreamTypeOK ==
    /\ maxSent \in [Clients -> Nat] /\ start \in [Clients -> Nat] /\ lastId \in [Clients -> Nat]
    /\ queued \in [Clients -> SUBSET Nat]

(* The channel of c is sorted and above what c has received. *)
ChannelInv(c) ==
    /\ \A i \in DOMAIN out[c] : lastId[c] < out[c][i]
    /\ \A i, j \in DOMAIN out[c] : i < j => out[c][i] < out[c][j]

(* maxSent is the highest number the stream has queued, or else the client's own, *)
(* which after a restart of the server may be above every number it will see.     *)
MaxInv(c) ==
    stream[c] # "off" =>
        /\ lastId[c] <= maxSent[c]
        /\ \A i \in DOMAIN out[c] : out[c][i] <= maxSent[c]
        /\ maxSent[c] = lastId[c] \/ (maxSent[c] \in queued[c] /\ maxSent[c] <= seq)

(* A replay has queued nothing that it has not passed in the buffer. *)
ReplayInv(c) ==
    stream[c] = "replay" =>
        \/ maxSent[c] = lastId[c]
        \/ /\ replayed[c] \in DOMAIN buffer
           /\ maxSent[c] <= buffer[replayed[c]].seq

(* What a live stream has yet to receive is not below what it has queued: an     *)
(* upload sends under the lock it records under, so at most one event can be in  *)
(* the replay and still come through the broadcast.                              *)
LiveInv(c) ==
    stream[c] = "live" =>
        /\ start[c] <= cursor[c] /\ cursor[c] <= Len(sent)
        /\ \/ maxSent[c] <= lastId[c]
           \/ \A i \in cursor[c] + 1 .. Len(sent) : maxSent[c] <= sent[i].seq
        /\ \A i \in start[c] + 1 .. cursor[c] :
              sent[i].seq \in queued[c] \/ sent[i].seq <= lastId[c]

OneStream(c) == ChannelInv(c) /\ MaxInv(c) /\ ReplayInv(c) /\ LiveInv(c)
StreamInv == StreamTypeOK /\ \A c \in Clients : OneStream(c)

(* A stream's own state, which steps of other clients and of uploads leave alone. *)
SameStream(c) ==
    /\ stream'[c] = stream[c] /\ replayed'[c] = replayed[c] /\ maxSent'[c] = maxSent[c]
    /\ cursor'[c] = cursor[c] /\ start'[c] = start[c] /\ queued'[c] = queued[c]
    /\ out'[c] = out[c] /\ lastId'[c] = lastId[c]

LEMMA StreamFrame ==
    ASSUME NEW c \in Clients, OneStream(c), SameStream(c), UNCHANGED <<buffer, sent, seq>>
    PROVE  OneStream(c)'
  <1>1. ChannelInv(c)' /\ MaxInv(c)'
    BY DEF OneStream, SameStream, ChannelInv, MaxInv
  <1>2. ReplayInv(c)'
    BY DEF OneStream, SameStream, ReplayInv
  <1>3. LiveInv(c)'
    BY DEF OneStream, SameStream, LiveInv
  <1> QED BY <1>1, <1>2, <1>3 DEF OneStream

(* What an upload does to the numbers, the broadcast and the buffer. *)
LEMMA UploadFacts ==
    ASSUME ServiceInv, WriterInv, OrderInv, ServiceStep
    PROVE  /\ seq' \in Nat /\ seq <= seq' /\ readers' = readers
           /\ buffer' = buffer \/ readers = {}
           /\ \/ sent' = sent
              \/ /\ Len(sent') = Len(sent) + 1 /\ sent'[Len(sent) + 1].seq = seq
                 /\ \A i \in 1 .. Len(sent) : sent'[i] = sent[i]
  <1>1. seq \in Nat /\ sent \in Seq(Events)
    BY DEF ServiceInv, ServiceTypeOK
  <1>2. ASSUME NEW t \in Tasks, NEW p \in Profiles, Put(t, p)
        PROVE  seq' = seq /\ readers' = readers /\ buffer' = buffer /\ sent' = sent
    BY <1>2 DEF Put
  <1>3. ASSUME NEW t \in Tasks,
               \/ Get(t) \/ Enter(t) \/ Compare(t) \/ Save(t) \/ SaveFails(t) \/ Insert(t)
               \/ Load(t) \/ Cancel(t)
        PROVE  seq' = seq /\ readers' = readers /\ buffer' = buffer /\ sent' = sent
    BY <1>3 DEF Get, Enter, Compare, Save, SaveFails, Insert, Load, Cancel
  <1>4. ASSUME NEW t \in Tasks, Commit(t)
        PROVE  seq' = seq + 1 /\ readers' = readers /\ buffer' = buffer /\ sent' = sent
    BY <1>4 DEF Commit
  <1>5. ASSUME NEW t \in Tasks, Record(t)
        PROVE  seq' = seq /\ readers' = readers /\ readers = {} /\ sent' = sent
    BY <1>5 DEF Record
  <1>6. ASSUME NEW t \in Tasks, Send(t)
        PROVE  /\ seq' = seq /\ readers' = readers /\ buffer' = buffer
               /\ Len(sent') = Len(sent) + 1 /\ sent'[Len(sent) + 1].seq = seq
               /\ \A i \in 1 .. Len(sent) : sent'[i] = sent[i]
    <2>1. task[t].seq = seq /\ Event(t).seq = seq
      BY <1>6 DEF Send, OrderInv, At, Event
    <2>2. sent' = Append(sent, Event(t)) /\ UNCHANGED <<seq, readers, buffer>>
      BY <1>6 DEF Send
    <2> QED BY <1>1, <2>1, <2>2
  <1>7. ASSUME NEW p, LateWrite(p)
        PROVE  seq' = seq /\ readers' = readers /\ buffer' = buffer /\ sent' = sent
    BY <1>7 DEF LateWrite
  <1>8. \/ seq' = seq
        \/ seq' = seq + 1
    BY <1>2, <1>3, <1>4, <1>5, <1>6, <1>7 DEF ServiceStep, Work
  <1>9. seq' \in Nat /\ seq <= seq'
    BY <1>1, <1>8
  <1> QED BY <1>2, <1>3, <1>4, <1>5, <1>6, <1>7, <1>9 DEF ServiceStep, Work

(* An upload disturbs no stream. *)
LEMMA UploadKeepsStreams ==
    ASSUME FeedInv, LockedInv, StreamInv, ServiceStep, UNCHANGED feedVars
    PROVE  StreamInv'
  <1>1. StreamTypeOK'
    BY DEF StreamInv, StreamTypeOK, feedVars
  <1>2. ASSUME NEW c \in Clients PROVE OneStream(c)'
    <2>1. SameStream(c) /\ OneStream(c)
      BY DEF SameStream, feedVars, StreamInv
    <2>2. /\ seq' \in Nat /\ seq <= seq' /\ readers' = readers
          /\ buffer' = buffer \/ readers = {}
          /\ \/ sent' = sent
             \/ /\ Len(sent') = Len(sent) + 1 /\ sent'[Len(sent) + 1].seq = seq
                /\ \A i \in 1 .. Len(sent) : sent'[i] = sent[i]
      BY UploadFacts DEF FeedInv, LockedInv
    <2>3. /\ maxSent[c] \in Nat /\ lastId[c] \in Nat /\ seq \in Nat /\ cursor[c] \in Nat
          /\ start[c] \in Nat /\ Len(sent) \in Nat
      BY DEF StreamInv, StreamTypeOK, FeedInv, FeedTypeOK, ServiceInv, ServiceTypeOK
    <2>4. ChannelInv(c)'
      BY <2>1 DEF OneStream, SameStream, ChannelInv
    <2>5. MaxInv(c)'
      <3>1. maxSent[c] <= seq => maxSent[c] <= seq'
        BY <2>2, <2>3
      <3> QED BY <2>1, <3>1 DEF OneStream, SameStream, MaxInv
    <2>6. ReplayInv(c)'
      <3>1. stream[c] = "replay" => buffer' = buffer
        BY <2>2 DEF FeedInv, RoomInv
      <3> QED BY <2>1, <3>1 DEF OneStream, SameStream, ReplayInv
    <2>7. LiveInv(c)'
      <3> SUFFICES ASSUME stream[c] = "live"
                   PROVE  /\ start[c] <= cursor[c] /\ cursor[c] <= Len(sent')
                          /\ \/ maxSent[c] <= lastId[c]
                             \/ \A i \in cursor[c] + 1 .. Len(sent') : maxSent[c] <= sent'[i].seq
                          /\ \A i \in start[c] + 1 .. cursor[c] :
                                sent'[i].seq \in queued[c] \/ sent'[i].seq <= lastId[c]
        BY <2>1 DEF SameStream, LiveInv
      <3>1. /\ start[c] <= cursor[c] /\ cursor[c] <= Len(sent)
            /\ \/ maxSent[c] <= lastId[c]
               \/ \A i \in cursor[c] + 1 .. Len(sent) : maxSent[c] <= sent[i].seq
            /\ \A i \in start[c] + 1 .. cursor[c] :
                  sent[i].seq \in queued[c] \/ sent[i].seq <= lastId[c]
        BY <2>1 DEF OneStream, LiveInv
      <3>2. CASE sent' = sent
        BY <3>1, <3>2
      <3>3. CASE /\ Len(sent') = Len(sent) + 1 /\ sent'[Len(sent) + 1].seq = seq
                 /\ \A i \in 1 .. Len(sent) : sent'[i] = sent[i]
        <4>1. maxSent[c] <= lastId[c] \/ maxSent[c] <= seq
          BY <2>1, <2>3 DEF OneStream, MaxInv
        <4>2. \A i \in cursor[c] + 1 .. Len(sent') :
                 i = Len(sent) + 1 \/ (i \in cursor[c] + 1 .. Len(sent) /\ i \in 1 .. Len(sent))
          BY <2>3, <3>3
        <4>3. \A i \in start[c] + 1 .. cursor[c] : i \in 1 .. Len(sent)
          BY <2>3, <3>1
        <4>4. cursor[c] <= Len(sent')
          BY <2>3, <3>1, <3>3
        <4> QED BY <3>1, <3>3, <4>1, <4>2, <4>3, <4>4
      <3> QED BY <2>2, <3>2, <3>3
    <2> QED BY <2>4, <2>5, <2>6, <2>7 DEF OneStream
  <1> QED BY <1>1, <1>2 DEF StreamInv

(* Numbers in the buffer and on the broadcast. *)
LEMMA NumberTypes ==
    ASSUME FeedInv
    PROVE  /\ Len(buffer) \in Nat /\ Len(sent) \in Nat /\ seq \in Nat
           /\ DOMAIN buffer = 1 .. Len(buffer) /\ DOMAIN sent = 1 .. Len(sent)
           /\ \A i \in 1 .. Len(buffer) : buffer[i].seq \in Nat
           /\ \A i \in 1 .. Len(sent) : sent[i].seq \in Nat
  <1>1. buffer \in Seq(Events) /\ sent \in Seq(Events) /\ seq \in Nat
    BY DEF FeedInv, ServiceInv, ServiceTypeOK
  <1>2. \A i \in 1 .. Len(buffer) : buffer[i] \in Events
    BY <1>1
  <1>3. \A i \in 1 .. Len(sent) : sent[i] \in Events
    BY <1>1
  <1> QED BY <1>1, <1>2, <1>3 DEF Events

(* A number above everything queued goes to the end of the channel. *)
LEMMA QueueKeeps ==
    ASSUME FeedInv, StreamTypeOK, NEW c \in Clients, ChannelInv(c), MaxInv(c),
           stream[c] # "off", NEW n \in Nat, maxSent[c] < n, n <= seq, Queue(c, n),
           UNCHANGED <<stream, lastId, seq>>
    PROVE  /\ ChannelInv(c)' /\ MaxInv(c)'
           /\ maxSent'[c] = n /\ queued'[c] = queued[c] \cup {n}
           /\ maxSent' \in [Clients -> Nat] /\ queued' \in [Clients -> SUBSET Nat]
           /\ \A d \in Clients : d # c => /\ out'[d] = out[d] /\ queued'[d] = queued[d]
                                          /\ maxSent'[d] = maxSent[d]
  <1> DEFINE s == out[c]
  <1>1. /\ out'[c] = Append(s, n) /\ s \in Seq(Nat)
        /\ \A d \in Clients : d # c => out'[d] = out[d]
    BY DEF Queue, FeedInv, FeedTypeOK
  <1>2. /\ maxSent'[c] = n /\ maxSent' \in [Clients -> Nat]
        /\ \A d \in Clients : d # c => maxSent'[d] = maxSent[d]
    BY DEF Queue, StreamTypeOK
  <1>3. queued' = [queued EXCEPT ![c] = queued[c] \cup {n}]
    BY DEF Queue
  <1>4. /\ queued'[c] = queued[c] \cup {n} /\ queued' \in [Clients -> SUBSET Nat]
        /\ \A d \in Clients : d # c => queued'[d] = queued[d]
    BY <1>3 DEF StreamTypeOK
  <1>5. /\ Len(s) \in Nat /\ DOMAIN s = 1 .. Len(s) /\ DOMAIN Append(s, n) = 1 .. Len(s) + 1
        /\ Append(s, n)[Len(s) + 1] = n /\ \A i \in 1 .. Len(s) : Append(s, n)[i] = s[i]
        /\ \A i \in 1 .. Len(s) : s[i] \in Nat
    BY <1>1
  <1>6. /\ lastId[c] \in Nat /\ maxSent[c] \in Nat /\ lastId[c] <= maxSent[c]
        /\ \A i \in 1 .. Len(s) : lastId[c] < s[i] /\ s[i] <= maxSent[c]
        /\ \A i, j \in 1 .. Len(s) : i < j => s[i] < s[j]
    BY <1>5 DEF StreamTypeOK, ChannelInv, MaxInv
  <1> HIDE DEF s
  <1>7. \A i \in 1 .. Len(s) + 1 : i \in 1 .. Len(s) \/ i = Len(s) + 1
    BY <1>5
  <1>8. \A i \in 1 .. Len(s) + 1 : lastId[c] < Append(s, n)[i] /\ Append(s, n)[i] <= n
    <2> TAKE i \in 1 .. Len(s) + 1
    <2>1. CASE i \in 1 .. Len(s)
      BY <1>5, <1>6, <2>1
    <2>2. CASE i = Len(s) + 1
      BY <1>5, <1>6, <2>2
    <2> QED BY <1>7, <2>1, <2>2
  <1>9. \A i, j \in 1 .. Len(s) + 1 : i < j => Append(s, n)[i] < Append(s, n)[j]
    <2> TAKE i, j \in 1 .. Len(s) + 1
    <2> SUFFICES ASSUME i < j PROVE Append(s, n)[i] < Append(s, n)[j]
      OBVIOUS
    <2>1. i \in 1 .. Len(s)
      BY <1>5
    <2>2. CASE j \in 1 .. Len(s)
      BY <1>5, <1>6, <2>1, <2>2
    <2>3. CASE j = Len(s) + 1
      BY <1>5, <1>6, <2>1, <2>3
    <2> QED BY <1>7, <2>2, <2>3
  <1>10. ChannelInv(c)'
    BY <1>1, <1>5, <1>8, <1>9 DEF ChannelInv, s
  <1>11. MaxInv(c)'
    BY <1>1, <1>2, <1>4, <1>5, <1>6, <1>8 DEF MaxInv, s
  <1> QED BY <1>1, <1>2, <1>4, <1>10, <1>11

(* The invariant of all streams, from that of the one that moves. *)
LEMMA OneStreamSuffices ==
    ASSUME StreamInv, NEW c \in Clients, UnchangedService, OneStream(c)', StreamTypeOK',
           \A d \in Clients : d # c => SameStream(d)
    PROVE  StreamInv'
  <1>1. UNCHANGED <<buffer, sent, seq>>
    BY DEF UnchangedService
  <1> QED BY <1>1, StreamFrame DEF StreamInv

LEMMA ConnectKeeps ==
    ASSUME FeedInv, StreamInv, NEW c \in Clients, Connect(c) PROVE StreamInv'
  <1>1. StreamTypeOK'
    BY DEF Connect, StreamInv, StreamTypeOK
  <1>2. \A d \in Clients : d # c => SameStream(d)
    BY DEF Connect, SameStream, FeedInv, FeedTypeOK, StreamInv, StreamTypeOK
  <1>3. /\ stream'[c] = "replay" /\ maxSent'[c] = lastId[c] /\ lastId'[c] = lastId[c]
        /\ out'[c] = <<>> /\ lastId[c] \in Nat
    BY DEF Connect, FeedInv, FeedTypeOK, StreamInv, StreamTypeOK
  <1>4. DOMAIN out'[c] = {}
    BY <1>3
  <1>5. OneStream(c)'
    BY <1>3, <1>4 DEF OneStream, ChannelInv, MaxInv, ReplayInv, LiveInv
  <1> QED BY <1>1, <1>2, <1>5, OneStreamSuffices DEF Connect

LEMMA ReplayKeeps ==
    ASSUME FeedInv, LockedInv, StreamInv, NEW c \in Clients, Replay(c) PROVE StreamInv'
  <1> DEFINE k == replayed[c] + 1
             n == NextReplayed(c)
  <1>1. /\ stream[c] = "replay" /\ stream'[c] = "replay" /\ UnchangedService
        /\ UNCHANGED <<buffer, sent, seq, stream, cursor, start, lastId>>
        /\ replayed'[c] = k /\ \A d \in Clients : d # c => replayed'[d] = replayed[d]
    BY DEF Replay, UnchangedService, FeedInv, FeedTypeOK
  <1>2. k \in 1 .. Len(buffer) /\ k \in DOMAIN buffer /\ n = buffer[k].seq /\ n \in Nat
        /\ n <= seq
    <2>1. replayed[c] \in Nat /\ replayed[c] < Len(buffer)
      BY DEF Replay, FeedInv, FeedTypeOK
    <2>2. k \in 1 .. Len(buffer) /\ k \in DOMAIN buffer
      BY <2>1, NumberTypes
    <2>3. n = buffer[k].seq
      BY DEF NextReplayed
    <2> QED BY <2>2, <2>3, NumberTypes DEF LockedInv, OrderInv, UpTo
  <1>3. OneStream(c) /\ lastId[c] \in Nat /\ maxSent[c] \in Nat /\ replayed[c] \in Nat
    BY DEF StreamInv, StreamTypeOK, FeedInv, FeedTypeOK
  <1>4. maxSent[c] = lastId[c] \/ maxSent[c] < n
    <2>1. CASE replayed[c] \in DOMAIN buffer /\ maxSent[c] <= buffer[replayed[c]].seq
      <3>1. buffer[replayed[c]].seq < n
        <4>1. replayed[c] < k
          BY <1>3
        <4> QED BY <1>2, <2>1, <4>1 DEF LockedInv, OrderInv, Sorted
      <3>2. buffer[replayed[c]].seq \in Nat
        BY <2>1, NumberTypes
      <3> QED BY <1>2, <1>3, <2>1, <3>1, <3>2
    <2> QED BY <1>1, <1>3, <2>1 DEF OneStream, ReplayInv
  <1>5. CASE n > lastId[c]
    <2>1. Queue(c, n)
      BY <1>5 DEF Replay
    <2>2. maxSent[c] < n
      BY <1>2, <1>3, <1>4, <1>5
    <2> HIDE DEF n, k
    <2>3. /\ ChannelInv(c)' /\ MaxInv(c)'
          /\ maxSent'[c] = n /\ queued'[c] = queued[c] \cup {n}
          /\ maxSent' \in [Clients -> Nat] /\ queued' \in [Clients -> SUBSET Nat]
          /\ \A d \in Clients : d # c => /\ out'[d] = out[d] /\ queued'[d] = queued[d]
                                         /\ maxSent'[d] = maxSent[d]
      BY <1>1, <1>2, <1>3, <2>1, <2>2, QueueKeeps DEF StreamInv, OneStream
    <2>4. ReplayInv(c)'
      BY <1>1, <1>2, <2>3 DEF ReplayInv
    <2>5. LiveInv(c)'
      BY <1>1 DEF LiveInv
    <2>6. StreamTypeOK' /\ \A d \in Clients : d # c => SameStream(d)
      BY <1>1, <2>3 DEF StreamInv, StreamTypeOK, SameStream
    <2> QED BY <1>1, <2>3, <2>4, <2>5, <2>6, OneStreamSuffices DEF OneStream
  <1>6. CASE ~(n > lastId[c])
    <2>1. UNCHANGED <<out, queued, maxSent>>
      BY <1>6 DEF Replay
    <2>2. maxSent[c] = lastId[c]
      BY <1>1, <1>2, <1>3, <1>4, <1>6 DEF OneStream, MaxInv
    <2>3. OneStream(c)'
      BY <1>1, <1>3, <2>1, <2>2 DEF OneStream, ChannelInv, MaxInv, ReplayInv, LiveInv
    <2>4. StreamTypeOK' /\ \A d \in Clients : d # c => SameStream(d)
      BY <1>1, <2>1 DEF StreamInv, StreamTypeOK, SameStream
    <2> QED BY <1>1, <2>3, <2>4, OneStreamSuffices
  <1> QED BY <1>5, <1>6

LEMMA UnlockKeeps ==
    ASSUME FeedInv, StreamInv, NEW c \in Clients, Unlock(c) PROVE StreamInv'
  <1>1. StreamTypeOK'
    BY DEF Unlock, StreamInv, StreamTypeOK
  <1>2. \A d \in Clients : d # c => SameStream(d)
    BY DEF Unlock, SameStream, FeedInv, FeedTypeOK
  <1>3. /\ stream[c] = "replay" /\ stream'[c] = "between"
        /\ UNCHANGED <<maxSent, queued, out, lastId, seq>>
    BY DEF Unlock, UnchangedService, FeedInv, FeedTypeOK
  <1>4. OneStream(c)
    BY DEF StreamInv
  <1>5. OneStream(c)'
    BY <1>3, <1>4 DEF OneStream, ChannelInv, MaxInv, ReplayInv, LiveInv
  <1> QED BY <1>1, <1>2, <1>5, OneStreamSuffices DEF Unlock

(* Nothing that was sent before the subscription is received after it. *)
LEMMA SubscribeKeeps ==
    ASSUME FeedInv, StreamInv, NEW c \in Clients, Subscribe(c) PROVE StreamInv'
  <1>0. Len(sent) \in Nat
    BY NumberTypes
  <1>1. StreamTypeOK'
    <2>1. start' = [start EXCEPT ![c] = Len(sent)] /\ UNCHANGED <<maxSent, lastId, queued>>
      BY DEF Subscribe
    <2> QED BY <1>0, <2>1 DEF StreamInv, StreamTypeOK
  <1>2. \A d \in Clients : d # c => SameStream(d)
    BY DEF Subscribe, SameStream, FeedInv, FeedTypeOK, StreamInv, StreamTypeOK
  <1>3. /\ stream[c] = "between" /\ stream'[c] = "live" /\ cursor'[c] = Len(sent)
        /\ start'[c] = Len(sent) /\ UNCHANGED <<maxSent, queued, out, lastId, seq, sent>>
    BY DEF Subscribe, UnchangedService, FeedInv, FeedTypeOK, StreamInv, StreamTypeOK
  <1>4. OneStream(c)
    BY DEF StreamInv
  <1>5. ChannelInv(c)' /\ MaxInv(c)' /\ ReplayInv(c)'
    BY <1>3, <1>4 DEF OneStream, ChannelInv, MaxInv, ReplayInv
  <1>6. Len(sent) + 1 .. Len(sent) = {}
    BY <1>0
  <1>7. LiveInv(c)'
    BY <1>0, <1>3, <1>6 DEF LiveInv
  <1> QED BY <1>1, <1>2, <1>5, <1>7, OneStreamSuffices DEF Subscribe, OneStream

(* The next event of the broadcast is new and is queued, or the replay queued it. *)
LEMMA LiveKeeps ==
    ASSUME FeedInv, LockedInv, StreamInv, NEW c \in Clients, Live(c) PROVE StreamInv'
  <1> DEFINE k == cursor[c] + 1
             n == sent[k].seq
  <1>1. /\ stream[c] = "live" /\ stream'[c] = "live" /\ UnchangedService
        /\ UNCHANGED <<buffer, sent, seq, stream, replayed, start, lastId>>
        /\ cursor'[c] = k /\ \A d \in Clients : d # c => cursor'[d] = cursor[d]
    BY DEF Live, UnchangedService, FeedInv, FeedTypeOK
  <1>2. k \in 1 .. Len(sent) /\ n \in Nat /\ n <= seq /\ k \in Nat /\ Len(sent) \in Nat
    <2>1. cursor[c] \in Nat /\ cursor[c] < Len(sent)
      BY DEF Live, FeedInv, FeedTypeOK
    <2>2. k \in 1 .. Len(sent) /\ k \in DOMAIN sent
      BY <2>1, NumberTypes
    <2> QED BY <2>1, <2>2, NumberTypes DEF LockedInv, OrderInv, UpTo
  <1>3. /\ OneStream(c) /\ lastId[c] \in Nat /\ maxSent[c] \in Nat /\ start[c] \in Nat
        /\ cursor[c] \in Nat
    BY DEF StreamInv, StreamTypeOK, FeedInv, FeedTypeOK
  <1>4. /\ start[c] <= cursor[c] /\ cursor[c] <= Len(sent)
        /\ \/ maxSent[c] <= lastId[c]
           \/ \A i \in k .. Len(sent) : maxSent[c] <= sent[i].seq
        /\ \A i \in start[c] + 1 .. cursor[c] :
              sent[i].seq \in queued[c] \/ sent[i].seq <= lastId[c]
    BY <1>1, <1>3 DEF OneStream, LiveInv
  <1>5. \A i \in k + 1 .. Len(sent) : i \in k .. Len(sent) /\ n <= sent[i].seq
    <2> TAKE i \in k + 1 .. Len(sent)
    <2>1. i \in k .. Len(sent) /\ i \in DOMAIN sent /\ k \in DOMAIN sent /\ k < i
      BY <1>2, NumberTypes
    <2>2. n < sent[i].seq
      BY <2>1 DEF LockedInv, OrderInv, Sorted
    <2>3. sent[i].seq \in Nat
      BY <2>1, NumberTypes
    <2> QED BY <1>2, <2>1, <2>2, <2>3
  <1>6. \A i \in start[c] + 1 .. k : i = k \/ i \in start[c] + 1 .. cursor[c]
    BY <1>3
  <1>7. start[c] <= k /\ k <= Len(sent)
    BY <1>2, <1>3, <1>4
  <1>8. CASE n > maxSent[c]
    <2>1. Queue(c, n) /\ maxSent[c] < n
      BY <1>2, <1>3, <1>8 DEF Live
    <2> HIDE DEF n, k
    <2>2. /\ ChannelInv(c)' /\ MaxInv(c)'
          /\ maxSent'[c] = n /\ queued'[c] = queued[c] \cup {n}
          /\ maxSent' \in [Clients -> Nat] /\ queued' \in [Clients -> SUBSET Nat]
          /\ \A d \in Clients : d # c => /\ out'[d] = out[d] /\ queued'[d] = queued[d]
                                         /\ maxSent'[d] = maxSent[d]
      BY <1>1, <1>2, <1>3, <2>1, QueueKeeps DEF StreamInv, OneStream
    <2>3. ReplayInv(c)'
      BY <1>1 DEF ReplayInv
    <2>4. \A i \in start[c] + 1 .. k : sent[i].seq \in queued'[c] \/ sent[i].seq <= lastId[c]
      BY <1>4, <1>6, <2>2 DEF n
    <2>5. LiveInv(c)'
      BY <1>1, <1>5, <1>7, <2>2, <2>4 DEF LiveInv
    <2>6. StreamTypeOK' /\ \A d \in Clients : d # c => SameStream(d)
      BY <1>1, <2>2 DEF StreamInv, StreamTypeOK, SameStream
    <2> QED BY <1>1, <2>2, <2>3, <2>5, <2>6, OneStreamSuffices DEF OneStream
  <1>9. CASE ~(n > maxSent[c])
    <2>1. UNCHANGED <<out, queued, maxSent>>
      BY <1>9 DEF Live
    <2>2. maxSent[c] <= lastId[c] \/ n = maxSent[c]
      <3>1. k \in k .. Len(sent)
        BY <1>2
      <3>2. maxSent[c] <= lastId[c] \/ maxSent[c] <= n
        BY <1>4, <3>1
      <3> QED BY <1>2, <1>3, <1>9, <3>2
    <2>3. n \in queued[c] \/ n <= lastId[c]
      <3>1. maxSent[c] = lastId[c] \/ maxSent[c] \in queued[c]
        BY <1>1, <1>3 DEF OneStream, MaxInv
      <3> QED BY <1>2, <1>3, <1>9, <2>2, <3>1
    <2> HIDE DEF n, k
    <2>4. \A i \in start[c] + 1 .. k : sent[i].seq \in queued[c] \/ sent[i].seq <= lastId[c]
      BY <1>4, <1>6, <2>3 DEF n
    <2>5. maxSent[c] <= lastId[c] \/ \A i \in k + 1 .. Len(sent) : maxSent[c] <= sent[i].seq
      BY <1>4, <1>5
    <2>6. LiveInv(c)'
      BY <1>1, <1>7, <2>1, <2>4, <2>5 DEF LiveInv
    <2>7. ChannelInv(c)' /\ MaxInv(c)' /\ ReplayInv(c)'
      BY <1>1, <1>3, <2>1 DEF OneStream, ChannelInv, MaxInv, ReplayInv
    <2>8. StreamTypeOK' /\ \A d \in Clients : d # c => SameStream(d)
      BY <1>1, <2>1 DEF StreamInv, StreamTypeOK, SameStream
    <2> QED BY <1>1, <2>6, <2>7, <2>8, OneStreamSuffices DEF OneStream
  <1> QED BY <1>8, <1>9

LEMMA CloseKeeps ==
    ASSUME FeedInv, StreamInv, NEW c \in Clients, Lag(c) \/ Disconnect(c) PROVE StreamInv'
  <1>1. ClosedStream(c) /\ lastId' = lastId /\ UnchangedService
        /\ (out' = out \/ out' = [out EXCEPT ![c] = <<>>])
    BY DEF Lag, Disconnect
  <1>2. maxSent' = [maxSent EXCEPT ![c] = 0] /\ start' = [start EXCEPT ![c] = 0]
        /\ queued' = [queued EXCEPT ![c] = {}]
    BY <1>1 DEF ClosedStream
  <1>3. StreamTypeOK'
    BY <1>1, <1>2 DEF StreamInv, StreamTypeOK
  <1>4. \A d \in Clients : d # c => SameStream(d)
    BY <1>1 DEF ClosedStream, SameStream, FeedInv, FeedTypeOK, StreamInv, StreamTypeOK
  <1>5. stream'[c] = "off" /\ (out'[c] = out[c] \/ out'[c] = <<>>)
    BY <1>1 DEF ClosedStream, FeedInv, FeedTypeOK
  <1>6. ChannelInv(c)'
    <2>1. CASE out'[c] = <<>>
      <3>1. DOMAIN out'[c] = {}
        BY <2>1
      <3> QED BY <3>1 DEF ChannelInv
    <2>2. CASE out'[c] = out[c]
      BY <1>1, <2>2 DEF StreamInv, OneStream, ChannelInv
    <2> QED BY <1>5, <2>1, <2>2
  <1>7. OneStream(c)'
    BY <1>5, <1>6 DEF OneStream, MaxInv, ReplayInv, LiveInv
  <1> QED BY <1>1, <1>3, <1>4, <1>7, OneStreamSuffices

(* The client takes the lowest number of its channel, above all it has. *)
LEMMA ReceiveKeeps ==
    ASSUME FeedInv, StreamInv, NEW c \in Clients, Receive(c)
    PROVE  StreamInv' /\ lastId'[c] > lastId[c]
  <1> DEFINE s == out[c]
  <1>1. /\ s # <<>> /\ s \in Seq(Nat) /\ UnchangedService
        /\ UNCHANGED <<buffer, sent, seq, stream, replayed, maxSent, cursor, start, queued>>
        /\ lastId' = [lastId EXCEPT ![c] = Head(s)] /\ out' = [out EXCEPT ![c] = Tail(s)]
    BY DEF Receive, UnchangedService, FeedInv, FeedTypeOK
  <1>2. /\ Len(s) \in Nat /\ Len(s) > 0 /\ DOMAIN s = 1 .. Len(s) /\ Head(s) = s[1]
        /\ DOMAIN Tail(s) = 1 .. Len(s) - 1
        /\ \A i \in 1 .. Len(s) - 1 : Tail(s)[i] = s[i + 1]
        /\ \A i \in 1 .. Len(s) : s[i] \in Nat
    BY <1>1
  <1>3. OneStream(c) /\ lastId[c] \in Nat /\ maxSent[c] \in Nat
    BY DEF StreamInv, StreamTypeOK
  <1>4. /\ \A i \in 1 .. Len(s) : lastId[c] < s[i]
        /\ \A i, j \in 1 .. Len(s) : i < j => s[i] < s[j]
        /\ stream[c] # "off" => \A i \in 1 .. Len(s) : s[i] <= maxSent[c]
    BY <1>2, <1>3 DEF OneStream, ChannelInv, MaxInv
  <1>5. 1 \in 1 .. Len(s) /\ Head(s) \in Nat /\ lastId[c] < Head(s)
    BY <1>2, <1>4
  <1>6. lastId'[c] = Head(s) /\ out'[c] = Tail(s)
    BY <1>1 DEF FeedInv, FeedTypeOK, StreamInv, StreamTypeOK
  <1>7. StreamTypeOK' /\ \A d \in Clients : d # c => SameStream(d)
    BY <1>1, <1>5 DEF StreamInv, StreamTypeOK, SameStream, FeedInv, FeedTypeOK
  <1> HIDE DEF s
  <1>8. \A i \in 1 .. Len(s) - 1 : i + 1 \in 1 .. Len(s) /\ 1 < i + 1
    BY <1>2
  <1>9. ChannelInv(c)'
    <2>1. \A i \in 1 .. Len(s) - 1 : Head(s) < Tail(s)[i]
      BY <1>2, <1>4, <1>5, <1>8
    <2>2. \A i, j \in 1 .. Len(s) - 1 : i < j => Tail(s)[i] < Tail(s)[j]
      <3> TAKE i, j \in 1 .. Len(s) - 1
      <3>1. i < j => i + 1 < j + 1
        BY <1>2
      <3> QED BY <1>2, <1>4, <1>8, <3>1
    <2> QED BY <1>2, <1>6, <2>1, <2>2 DEF ChannelInv
  <1>10. stream[c] # "off" => Head(s) <= maxSent[c] /\ maxSent[c] # lastId[c]
    BY <1>2, <1>3, <1>4, <1>5
  <1>11. MaxInv(c)'
    <2>1. stream[c] # "off" => \A i \in 1 .. Len(s) - 1 : Tail(s)[i] <= maxSent[c]
      BY <1>2, <1>4, <1>8
    <2> QED BY <1>1, <1>2, <1>3, <1>6, <1>10, <2>1 DEF OneStream, MaxInv
  <1>12. ReplayInv(c)'
    BY <1>1, <1>3, <1>10 DEF OneStream, ReplayInv
  <1>13. LiveInv(c)'
    <2>1. stream[c] = "live" =>
             /\ start[c] <= cursor[c] /\ cursor[c] <= Len(sent)
             /\ \/ maxSent[c] <= lastId[c]
                \/ \A i \in cursor[c] + 1 .. Len(sent) : maxSent[c] <= sent[i].seq
             /\ \A i \in start[c] + 1 .. cursor[c] :
                   sent[i].seq \in queued[c] \/ sent[i].seq <= lastId[c]
      BY <1>3 DEF OneStream, LiveInv
    <2>2. stream[c] = "live" => maxSent[c] > lastId[c]
      BY <1>3, <1>5, <1>10
    <2>3. ASSUME NEW m \in Nat, m <= lastId[c] PROVE m <= Head(s)
      BY <1>3, <1>5, <2>3
    <2>4. stream[c] = "live" => \A i \in start[c] + 1 .. cursor[c] : sent[i].seq \in Nat
      <3> SUFFICES ASSUME stream[c] = "live", NEW i \in start[c] + 1 .. cursor[c]
                   PROVE  sent[i].seq \in Nat
        OBVIOUS
      <3>1. start[c] \in Nat /\ cursor[c] \in Nat
        BY DEF FeedInv, FeedTypeOK, StreamInv, StreamTypeOK
      <3>2. i \in 1 .. Len(sent)
        BY <2>1, <3>1, NumberTypes
      <3> QED BY <3>2, NumberTypes
    <2>5. maxSent[c] > lastId[c] => ~(maxSent[c] <= lastId[c])
      BY <1>3
    <2> QED BY <1>1, <1>6, <2>1, <2>2, <2>3, <2>4, <2>5 DEF LiveInv
  <1>14. StreamInv'
    BY <1>1, <1>7, <1>9, <1>11, <1>12, <1>13, OneStreamSuffices DEF OneStream
  <1> QED BY <1>3, <1>5, <1>6, <1>14

(* A restart of the server ends every stream; the clients keep their numbers. *)
LEMMA RestartEndsStreams ==
    ASSUME FeedInv, StreamInv, ServerRestart PROVE StreamInv'
  <1>1. StreamTypeOK'
    BY DEF ServerRestart, StreamInv, StreamTypeOK
  <1>2. ASSUME NEW c \in Clients PROVE OneStream(c)'
    <2>1. stream'[c] = "off" /\ out'[c] = <<>>
      BY DEF ServerRestart
    <2>2. DOMAIN out'[c] = {}
      BY <2>1
    <2> QED BY <2>1, <2>2 DEF OneStream, ChannelInv, MaxInv, ReplayInv, LiveInv
  <1> QED BY <1>1, <1>2 DEF StreamInv

LEMMA StreamInit == Init => StreamInv
  <1> SUFFICES ASSUME Init PROVE StreamInv
    OBVIOUS
  <1>1. StreamTypeOK
    BY DEF Init, StreamTypeOK
  <1>2. ASSUME NEW c \in Clients PROVE OneStream(c)
    <2>1. stream[c] = "off" /\ out[c] = <<>>
      BY DEF Init
    <2>2. DOMAIN out[c] = {}
      BY <2>1
    <2> QED BY <2>1, <2>2 DEF OneStream, ChannelInv, MaxInv, ReplayInv, LiveInv
  <1> QED BY <1>1, <1>2 DEF StreamInv

LEMMA StreamNext ==
    ASSUME FeedInv, LockedInv, StreamInv, [Next]_vars PROVE StreamInv'
  <1>1. CASE ServiceStep /\ UNCHANGED feedVars
    BY <1>1, UploadKeepsStreams
  <1>2. ASSUME NEW c \in Clients, Connect(c) \/ StreamStep(c) \/ Receive(c) \/ Disconnect(c)
        PROVE  StreamInv'
    BY <1>2, ConnectKeeps, ReplayKeeps, UnlockKeeps, SubscribeKeeps, LiveKeeps, CloseKeeps,
       ReceiveKeeps DEF StreamStep
  <1>3. CASE ServerRestart
    BY <1>3, RestartEndsStreams
  <1>4. CASE UNCHANGED vars
    <2>1. UnchangedService /\ UNCHANGED feedVars
      BY <1>4 DEF vars, serviceVars, UnchangedService
    <2>2. StreamTypeOK'
      BY <2>1 DEF feedVars, StreamInv, StreamTypeOK
    <2>3. \A c \in Clients : OneStream(c)'
      BY <2>1, StreamFrame DEF feedVars, UnchangedService, SameStream, StreamInv
    <2> QED BY <2>2, <2>3 DEF StreamInv
  <1> QED BY <1>1, <1>2, <1>3, <1>4 DEF Next

FullInv == FeedInv /\ LockedInv /\ StreamInv

LEMMA StreamAlways == Spec => []FullInv
  <1>1. Init => StreamInv
    BY StreamInit
  <1>2. FeedInv /\ LockedInv /\ StreamInv /\ [Next]_vars => StreamInv'
    BY StreamNext
  <1>3. FeedInv /\ LockedInv /\ StreamInv => FullInv
    BY DEF FullInv
  <1> QED BY <1>1, <1>2, <1>3, LockedAlways, PTL DEF Spec

(* A live stream has left out no event between its subscription and the last one *)
(* it received from the broadcast, for any capacity of the broadcast: what the   *)
(* stream passes over the replay has queued, or the client had already.          *)
THEOREM NoHoleWhileLiveAlways == Spec => []NoHoleWhileLive
  <1>1. FullInv => NoHoleWhileLive
    BY DEF FullInv, StreamInv, OneStream, LiveInv, NoHoleWhileLive
  <1> QED BY <1>1, StreamAlways, PTL

(* The number a client has received only grows, across replays, subscriptions,   *)
(* reconnections and restarts of the server: nothing comes twice or out of order.*)
THEOREM NeverBackwardsAlways == Spec => NeverBackwards
  <1> DEFINE Forwards == \A c \in Clients : lastId'[c] # lastId[c] => lastId'[c] > lastId[c]
  <1>1. FullInv /\ [Next]_vars => Forwards
    <2> SUFFICES ASSUME FullInv, [Next]_vars PROVE Forwards
      OBVIOUS
    <2>1. CASE lastId' = lastId
      BY <2>1
    <2>2. ASSUME NEW c \in Clients, Receive(c) PROVE Forwards
      <3>1. lastId'[c] > lastId[c]
        BY <2>2, ReceiveKeeps DEF FullInv
      <3>2. \A d \in Clients : d # c => lastId'[d] = lastId[d]
        BY <2>2 DEF Receive, FullInv, StreamInv, StreamTypeOK
      <3> QED BY <3>1, <3>2
    <2>3. ASSUME NEW c \in Clients, Connect(c) \/ StreamStep(c) \/ Disconnect(c)
          PROVE  lastId' = lastId
      BY <2>3 DEF Connect, StreamStep, Replay, Unlock, Subscribe, Live, Lag, Disconnect
    <2>4. ServerRestart \/ UNCHANGED feedVars => lastId' = lastId
      BY DEF ServerRestart, feedVars
    <2> QED BY <2>1, <2>2, <2>3, <2>4 DEF Next, vars
  <1>2. FullInv /\ [Next]_vars => [Forwards]_vars
    BY <1>1
  <1> HIDE DEF Forwards
  <1>3. Spec => [][Forwards]_vars
    BY <1>2, StreamAlways, PTL DEF Spec
  <1> QED BY <1>3 DEF NeverBackwards, Forwards

=============================================================================
