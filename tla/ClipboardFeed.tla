--------------------------- MODULE ClipboardFeed ---------------------------
(***************************************************************************)
(* The SSE feed of clipboard events on top of ClipboardService.  A stream  *)
(* first replays the ring buffer after the client's Last-Event-ID, under   *)
(* the read lock of the buffer, and only then subscribes to the broadcast. *)
(* Events go to the client through a bounded mpsc channel that the client  *)
(* empties as it likes; a client that lost its stream comes back with the  *)
(* last number it received.                                                *)
(*                                                                         *)
(* Source: xime-sync-server/src/handlers/sse.rs.                           *)
(***************************************************************************)
EXTENDS ClipboardService

CONSTANTS
    Clients,    \* SSE clients
    OutCap,     \* capacity of a stream's mpsc channel
    ChannelCap  \* capacity of the broadcast channel

ASSUME CapsAssumption == OutCap \in Nat \ {0} /\ ChannelCap \in Nat \ {0}
\* Both capacities are 128 in the code, in two files that do not know each other.
ASSUME RoomAssumption == BufferCap <= OutCap

VARIABLES
    stream,     \* the phase of each client's stream
    replayed,   \* how much of the buffer the replay has looked at
    maxSent,    \* run_sse_stream's max_sent
    cursor,     \* how much of the broadcast the stream has received
    start,      \* where in the broadcast it subscribed
    queued,     \* history: the numbers the stream has queued for the client
    out,        \* the mpsc channel: numbers not taken by the client
    lastId      \* the client's Last-Event-ID

feedVars == <<stream, replayed, maxSent, cursor, start, queued, out, lastId>>
vars == <<serviceVars, feedVars>>

ClosedStream(c) ==
    /\ stream' = [stream EXCEPT ![c] = "off"]
    /\ replayed' = [replayed EXCEPT ![c] = 0]
    /\ maxSent' = [maxSent EXCEPT ![c] = 0]
    /\ cursor' = [cursor EXCEPT ![c] = 0]
    /\ start' = [start EXCEPT ![c] = 0]
    /\ queued' = [queued EXCEPT ![c] = {}]

Init ==
    /\ ServiceInit
    /\ stream = [c \in Clients |-> "off"]
    /\ replayed = [c \in Clients |-> 0]
    /\ maxSent = [c \in Clients |-> 0]
    /\ cursor = [c \in Clients |-> 0]
    /\ start = [c \in Clients |-> 0]
    /\ queued = [c \in Clients |-> {}]
    /\ out = [c \in Clients |-> <<>>]
    /\ lastId = [c \in Clients |-> 0]

UnchangedService ==
    UNCHANGED <<disk, late, cache, writer, task, seq, buffer, sent, rows, torn>>

-----------------------------------------------------------------------------
(* The stream. *)

\* GET /events, and the read lock of the buffer.
Connect(c) ==
    /\ stream[c] = "off" /\ out[c] = <<>>
    /\ stream' = [stream EXCEPT ![c] = "replay"]
    /\ maxSent' = [maxSent EXCEPT ![c] = lastId[c]]
    /\ readers' = readers \cup {c}
    /\ UnchangedService
    /\ UNCHANGED <<replayed, cursor, start, queued, out, lastId>>

\* send_clipboard_event: waits while the channel is full.
HasRoom(c) == Len(out[c]) < OutCap
Queue(c, n) ==
    /\ HasRoom(c)
    /\ out' = [out EXCEPT ![c] = Append(@, n)]
    /\ queued' = [queued EXCEPT ![c] = @ \cup {n}]
    /\ maxSent' = [maxSent EXCEPT ![c] = n]

NextReplayed(c) == buffer[replayed[c] + 1].seq

Replay(c) ==
    /\ stream[c] = "replay" /\ replayed[c] < Len(buffer)
    /\ IF NextReplayed(c) > lastId[c]
       THEN Queue(c, NextReplayed(c))
       ELSE UNCHANGED <<out, queued, maxSent>>
    /\ replayed' = [replayed EXCEPT ![c] = @ + 1]
    /\ UnchangedService
    /\ UNCHANGED <<readers, stream, cursor, start, lastId>>

\* Mutant of Unlock: the guard lives on.
UnlockNever(c) ==
    /\ stream[c] = "replay" /\ replayed[c] = Len(buffer)
    /\ stream' = [stream EXCEPT ![c] = "between"]
    /\ UnchangedService
    /\ UNCHANGED <<readers, replayed, maxSent, cursor, start, queued, out, lastId>>

\* The read lock is given back; no subscription yet.
Unlock(c) ==
    /\ stream[c] = "replay" /\ replayed[c] = Len(buffer)
    /\ stream' = [stream EXCEPT ![c] = "between"]
    /\ readers' = readers \ {c}
    /\ UnchangedService
    /\ UNCHANGED <<replayed, maxSent, cursor, start, queued, out, lastId>>

Subscribe(c) ==
    /\ stream[c] = "between"
    /\ stream' = [stream EXCEPT ![c] = "live"]
    /\ cursor' = [cursor EXCEPT ![c] = Len(sent)]
    /\ start' = [start EXCEPT ![c] = Len(sent)]
    /\ UnchangedService
    /\ UNCHANGED <<readers, replayed, maxSent, queued, out, lastId>>

Lagging(c) == Len(sent) - cursor[c] > ChannelCap

\* Mutant of Live: what was replayed is sent again.
LiveRepeats(c) ==
    /\ stream[c] = "live" /\ cursor[c] < Len(sent) /\ ~Lagging(c)
    /\ Queue(c, sent[cursor[c] + 1].seq)
    /\ cursor' = [cursor EXCEPT ![c] = @ + 1]
    /\ UnchangedService
    /\ UNCHANGED <<readers, stream, replayed, start, lastId>>

\* An event of the broadcast, unless the replay has sent it.
Live(c) ==
    /\ stream[c] = "live" /\ cursor[c] < Len(sent) /\ ~Lagging(c)
    /\ IF sent[cursor[c] + 1].seq > maxSent[c]
       THEN Queue(c, sent[cursor[c] + 1].seq)
       ELSE UNCHANGED <<out, queued, maxSent>>
    /\ cursor' = [cursor EXCEPT ![c] = @ + 1]
    /\ UnchangedService
    /\ UNCHANGED <<readers, stream, replayed, start, lastId>>

\* Mutant of Lag: a receiver that lags goes on with what is left.
LagSkips(c) ==
    /\ stream[c] = "live" /\ Lagging(c)
    /\ cursor' = [cursor EXCEPT ![c] = Len(sent) - ChannelCap]
    /\ UnchangedService
    /\ UNCHANGED <<readers, stream, replayed, maxSent, start, queued, out, lastId>>

\* recv says Lagged, and the stream ends; what it queued can still be read.
Lag(c) ==
    /\ stream[c] = "live" /\ Lagging(c)
    /\ ClosedStream(c)
    /\ UnchangedService
    /\ UNCHANGED <<readers, out, lastId>>

-----------------------------------------------------------------------------
(* The client. *)

Receive(c) ==
    /\ out[c] # <<>>
    /\ lastId' = [lastId EXCEPT ![c] = Head(out[c])]
    /\ out' = [out EXCEPT ![c] = Tail(@)]
    /\ UnchangedService
    /\ UNCHANGED <<readers, stream, replayed, maxSent, cursor, start, queued>>

\* The connection is lost with what is under way; the stream notices at its next
\* send and gives the read lock back if it has it.
Disconnect(c) ==
    /\ stream[c] # "off"
    /\ ClosedStream(c)
    /\ out' = [out EXCEPT ![c] = <<>>]
    /\ readers' = readers \ {c}
    /\ UnchangedService
    /\ UNCHANGED lastId

\* A restart of the server ends every stream.
ServerRestart ==
    /\ Restart
    /\ stream' = [c \in Clients |-> "off"]
    /\ replayed' = [c \in Clients |-> 0]
    /\ maxSent' = [c \in Clients |-> 0]
    /\ cursor' = [c \in Clients |-> 0]
    /\ start' = [c \in Clients |-> 0]
    /\ queued' = [c \in Clients |-> {}]
    /\ out' = [c \in Clients |-> <<>>]
    /\ UNCHANGED lastId

-----------------------------------------------------------------------------
StreamStep(c) == Replay(c) \/ Unlock(c) \/ Subscribe(c) \/ Live(c) \/ Lag(c)

Next == \/ ServiceStep /\ UNCHANGED feedVars
        \/ \E c \in Clients : Connect(c) \/ StreamStep(c) \/ Receive(c) \/ Disconnect(c)
        \/ ServerRestart

Spec == Init /\ [][Next]_vars

\* Tokio runs what can run and its RwLock is first come, first served.  A client
\* is never obliged to read, to leave or to come.
FairSpec == /\ Spec
            /\ \A t \in Tasks : /\ WF_vars(Work(t) /\ UNCHANGED feedVars)
                                /\ SF_vars(Enter(t) /\ UNCHANGED feedVars)
                                /\ SF_vars(Record(t) /\ UNCHANGED feedVars)
            /\ \A c \in Clients : WF_vars(StreamStep(c))

-----------------------------------------------------------------------------
(* Properties *)

\* A replay holds the lock that every upload needs (while the upload holds the
\* lock that every request needs), and waits for its client when the channel is
\* full: the channel has room for a whole buffer, so a client that does not read
\* never stops the server.
ReplayHasRoom == \A c \in Clients : stream[c] = "replay" /\ replayed[c] < Len(buffer)
                                      => HasRoom(c)

\* On a live stream no event is left out between the subscription and the last
\* one received: a stream that would have to skip ends.
NoHoleWhileLive ==
    \A c \in Clients : stream[c] = "live" =>
        \A i \in start[c] + 1 .. cursor[c] :
            sent[i].seq \in queued[c] \/ sent[i].seq <= lastId[c]

\* A client never receives an event twice, nor one older than one it has, across
\* replays, subscriptions, reconnects and restarts.
NeverBackwards ==
    [][\A c \in Clients : lastId'[c] # lastId[c] => lastId'[c] > lastId[c]]_vars

\* An upload or a load always comes to its end, whatever the subscribers do.
RequestsFinish == \A t \in Tasks : Busy(t) ~> ~Busy(t)

=============================================================================
