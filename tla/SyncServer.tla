---------------------------- MODULE SyncServer ----------------------------
(***************************************************************************)
(* The clipboard server as its WebSocket clients see it: the process that  *)
(* starts and dies, the connections on /sync with their snapshots and      *)
(* changes, and the attachments uploaded over them, which go through the   *)
(* temporary file of LocalStorage::put.                                    *)
(*                                                                         *)
(* One upload of the clipboard is one step here, told to the subscribers   *)
(* or dropped half-way; ClipboardService has its steps one by one.  Names  *)
(* are file names with one stem: the temporary file is named after the     *)
(* stem, so files with different stems never meet.                         *)
(*                                                                         *)
(* Source: xime-sync-server/src (handlers/ws.rs, handlers/http.rs, lib.rs),*)
(* xime-sync-service/src/clipboard.rs, xime-sync-store/src/local.rs.       *)
(***************************************************************************)
EXTENDS Integers, Sequences

CONSTANTS
    Conns,       \* WebSocket clients
    Profiles,    \* valid profiles
    Names,       \* attachment names of one stem
    None,        \* no name, no file, nothing shown
    Empty,       \* the profile of an empty clipboard
    ChannelCap,  \* capacity of the broadcast channel
    MaxSent      \* bound: uploads told in the life of a process

ASSUME BoundsAssumption == ChannelCap \in Nat \ {0} /\ MaxSent \in Nat
ASSUME NoneAssumption ==
    /\ None \notin Profiles \cup Names \cup {Empty}
    /\ "tmp" \notin Names

VARIABLES
    up,          \* whether a server process listens
    current,     \* the current profile
    sent,        \* the events broadcast since the process started
    untold,      \* history: the current profile is that of a dropped upload
    conn,        \* the phase of each connection
    cursor,      \* how much of the broadcast it has received
    shown,       \* what its client was told last on it
    pending,     \* handle_socket_impl's pending_file
    writer,      \* the put_file under way on the connection
    tmp,         \* the temporary file of the stem
    file,        \* the attachments
    suspect      \* history: names last renamed by a put that met another

clipVars == <<current, sent, untold>>
connVars == <<conn, cursor, shown, pending>>
fileVars == <<writer, tmp, file, suspect>>
vars == <<up, clipVars, connVars, fileVars>>

Init ==
    /\ up = FALSE
    /\ current = Empty /\ sent = <<>> /\ untold = FALSE
    /\ conn = [c \in Conns |-> "off"]
    /\ cursor = [c \in Conns |-> 0]
    /\ shown = [c \in Conns |-> None]
    /\ pending = [c \in Conns |-> None]
    /\ writer = [c \in Conns |-> None]
    /\ tmp = None
    /\ file = [n \in Names |-> None]
    /\ suspect = {}

-----------------------------------------------------------------------------
(* The server process. *)

\* run_managed, up to the bind.
ServerStarts ==
    /\ ~up /\ up' = TRUE
    /\ UNCHANGED <<clipVars, connVars, fileVars>>

\* With its process go the events, the connections and the puts under way; the
\* temporary file is never used again, the next process has another number.
ServerDies ==
    /\ up /\ up' = FALSE
    /\ sent' = <<>> /\ untold' = FALSE
    /\ conn' = [c \in Conns |-> "off"]
    /\ cursor' = [c \in Conns |-> 0]
    /\ shown' = [c \in Conns |-> None]
    /\ pending' = [c \in Conns |-> None]
    /\ writer' = [c \in Conns |-> None]
    /\ tmp' = None
    /\ UNCHANGED <<current, file, suspect>>

-----------------------------------------------------------------------------
(* The clipboard. *)

\* ClipboardService::put; the profile that is there already is dropped.
Put(p) ==
    /\ p # current /\ Len(sent) < MaxSent
    /\ current' = p
    /\ sent' = Append(sent, p)
    /\ untold' = FALSE

HttpPut(p) ==
    /\ up /\ Put(p)
    /\ UNCHANGED <<up, connVars, fileVars>>

\* The client leaves after the cache is set and before the event is broadcast.
HttpPutDropped(p) ==
    /\ up /\ p # current
    /\ current' = p
    /\ untold' = TRUE
    /\ UNCHANGED <<sent, up, connVars, fileVars>>

-----------------------------------------------------------------------------
(* A connection on /sync. *)

Live(c) == conn[c] = "live" /\ writer[c] = None

\* ws_handler lets a client with the password in; the auth.ok frame is sent.
Connect(c) ==
    /\ up /\ conn[c] = "off"
    /\ conn' = [conn EXCEPT ![c] = "acked"]
    /\ UNCHANGED <<cursor, shown, pending>>
    /\ UNCHANGED <<up, clipVars, fileVars>>

Subscribe(c) ==
    /\ conn[c] = "acked"
    /\ conn' = [conn EXCEPT ![c] = "live"]
    /\ cursor' = [cursor EXCEPT ![c] = Len(sent)]
    /\ UNCHANGED <<shown, pending>>
    /\ UNCHANGED <<up, clipVars, fileVars>>

Lagging(c) == Len(sent) - cursor[c] > ChannelCap

\* clipboard.changed
Changed(c) ==
    /\ Live(c) /\ cursor[c] < Len(sent) /\ ~Lagging(c)
    /\ shown' = [shown EXCEPT ![c] = sent[cursor[c] + 1]]
    /\ cursor' = [cursor EXCEPT ![c] = @ + 1]
    /\ UNCHANGED <<conn, pending>>
    /\ UNCHANGED <<up, clipVars, fileVars>>

Closed(c) ==
    /\ conn' = [conn EXCEPT ![c] = "off"]
    /\ cursor' = [cursor EXCEPT ![c] = 0]
    /\ shown' = [shown EXCEPT ![c] = None]
    /\ pending' = [pending EXCEPT ![c] = None]

\* An error of the broadcast, and a subscriber too slow for it is one, ends the connection.
Lagged(c) ==
    /\ Live(c) /\ Lagging(c)
    /\ Closed(c)
    /\ UNCHANGED <<up, clipVars, fileVars>>

\* Mutant of Leave: the handler is dropped with the put it awaits.
LeaveAny(c) ==
    /\ conn[c] # "off"
    /\ Closed(c)
    /\ UNCHANGED <<up, clipVars, fileVars>>

\* The idle timeout, a close frame, an error of the socket.
Leave(c) ==
    /\ conn[c] = "acked" \/ Live(c)
    /\ Closed(c)
    /\ UNCHANGED <<up, clipVars, fileVars>>

\* clipboard.set
WsSet(c, p) ==
    /\ Live(c) /\ Put(p)
    /\ UNCHANGED <<up, connVars, fileVars>>

\* Mutant of WsGet: answered before the subscription as well.
WsGetEarly(c) ==
    /\ conn[c] = "acked" \/ Live(c)
    /\ shown' = [shown EXCEPT ![c] = current]
    /\ UNCHANGED <<conn, cursor, pending>>
    /\ UNCHANGED <<up, clipVars, fileVars>>

\* clipboard.get, answered with a snapshot.
WsGet(c) ==
    /\ Live(c)
    /\ shown' = [shown EXCEPT ![c] = current]
    /\ UNCHANGED <<conn, cursor, pending>>
    /\ UNCHANGED <<up, clipVars, fileVars>>

-----------------------------------------------------------------------------
(* Attachments.  A content is the name it was sent for, and whether it is  *)
(* whole: the first part of a frame and two writers' bytes are not.        *)

Content == [name : Names, whole : BOOLEAN]
\* A put under way: its name; the file its handle is open on ("tmp", the name
\* another put renamed that to, or None once it was replaced); whether another put
\* was under way beside it; whether all is written.
Writer == [name : Names, at : {"tmp"} \cup Names \cup {None}, shared : BOOLEAN, done : BOOLEAN]

\* file.set; a name that is no file name clears what was declared.
FileSet(c, n) ==
    /\ Live(c)
    /\ pending' = [pending EXCEPT ![c] = n]
    /\ UNCHANGED <<conn, cursor, shown>>
    /\ UNCHANGED <<up, clipVars, fileVars>>

\* The binary frame: the temporary file is created or emptied.
Binary(c) ==
    /\ Live(c) /\ pending[c] # None
    /\ pending' = [pending EXCEPT ![c] = None]
    /\ LET others == {d \in Conns : writer[d] # None}
       IN  writer' = [d \in Conns |->
             CASE d = c -> [name |-> pending[c], at |-> "tmp", shared |-> others # {}, done |-> FALSE]
               [] d \in others -> [writer[d] EXCEPT !.shared = TRUE]
               [] OTHER -> None]
    /\ tmp' = [name |-> pending[c], whole |-> FALSE]
    /\ UNCHANGED <<file, suspect>>
    /\ UNCHANGED <<conn, cursor, shown, up, clipVars>>

\* Two writers of one file may leave a mixture.
Written(c) ==
    {[name |-> writer[c].name, whole |-> w] : w \in {TRUE, ~writer[c].shared}}

\* All bytes are written, to wherever the open file is by now.
FinishWrite(c) ==
    /\ writer[c] # None /\ ~writer[c].done
    /\ writer' = [writer EXCEPT ![c].done = TRUE]
    /\ \E content \in Written(c) :
        /\ tmp' = IF writer[c].at = "tmp" THEN content ELSE tmp
        /\ file' = [n \in Names |-> IF writer[c].at = n THEN content ELSE file[n]]
    /\ UNCHANGED <<suspect, up, clipVars, connVars>>

\* The open handles follow the file that is renamed to n.
HandleAfterRename(at, n) == IF at = "tmp" THEN n ELSE IF at = n THEN None ELSE at

EndWriter(c, n) ==
    writer' = [d \in Conns |->
        IF d = c \/ writer[d] = None THEN None
        ELSE [writer[d] EXCEPT !.at = HandleAfterRename(@, n)]]

\* Mutant of Rename: the write is not waited for.
RenameEarly(c) ==
    /\ writer[c] # None /\ tmp # None
    /\ file' = [file EXCEPT ![writer[c].name] = tmp]
    /\ tmp' = None
    /\ suspect' = IF writer[c].shared THEN suspect \cup {writer[c].name}
                                     ELSE suspect \ {writer[c].name}
    /\ EndWriter(c, writer[c].name)
    /\ UNCHANGED <<up, clipVars, connVars>>

\* The put ends with the rename of what the temporary file is by now.
Rename(c) ==
    /\ writer[c] # None /\ writer[c].done /\ tmp # None
    /\ file' = [file EXCEPT ![writer[c].name] = tmp]
    /\ tmp' = None
    /\ suspect' = IF writer[c].shared THEN suspect \cup {writer[c].name}
                                     ELSE suspect \ {writer[c].name}
    /\ EndWriter(c, writer[c].name)
    /\ UNCHANGED <<up, clipVars, connVars>>

\* A failed write, or a rename of what another put has renamed: disconnected.
PutFileFails(c) ==
    /\ writer[c] # None /\ (~writer[c].done \/ tmp = None)
    /\ writer' = [writer EXCEPT ![c] = None]
    /\ Closed(c)
    /\ UNCHANGED <<tmp, file, suspect, up, clipVars>>

-----------------------------------------------------------------------------
ConnNext(c) ==
    \/ Connect(c)
    \/ Subscribe(c)
    \/ Changed(c)
    \/ Lagged(c)
    \/ Leave(c)
    \/ \E p \in Profiles : WsSet(c, p)
    \/ WsGet(c)
    \/ \E n \in Names \cup {None} : FileSet(c, n)
    \/ Binary(c)
    \/ FinishWrite(c)
    \/ Rename(c)
    \/ PutFileFails(c)

Next ==
    \/ ServerStarts
    \/ ServerDies
    \/ \E p \in Profiles : HttpPut(p) \/ HttpPutDropped(p)
    \/ \E c \in Conns : ConnNext(c)

Spec == Init /\ [][Next]_vars

-----------------------------------------------------------------------------
(* Properties. *)

\* Types, with the two facts the names of the variables promise: a cursor is a
\* place in the broadcast, and only a live connection is writing.
TypeOK ==
    /\ up \in BOOLEAN
    /\ current \in Profiles \cup {Empty}
    /\ sent \in Seq(Profiles) /\ untold \in BOOLEAN
    /\ conn \in [Conns -> {"off", "acked", "live"}]
    /\ cursor \in [Conns -> 0..Len(sent)]
    /\ shown \in [Conns -> Profiles \cup {Empty, None}]
    /\ pending \in [Conns -> Names \cup {None}]
    /\ writer \in [Conns -> Writer \cup {None}]
    /\ \A c \in Conns : writer[c] # None => conn[c] = "live"
    /\ tmp \in Content \cup {None}
    /\ file \in [Names -> Content \cup {None}]
    /\ suspect \subseteq Names

\* A client that was told anything on its connection, by a snapshot or a change,
\* and has received every event, was last told the profile that is current now,
\* however snapshots and changes met; unless that profile is a dropped upload's.
\* A change between auth.ok and the subscription is why it must have been told.
WsConverges ==
    \A c \in Conns :
        conn[c] = "live" /\ shown[c] # None /\ cursor[c] = Len(sent) /\ ~untold
            => shown[c] = current

\* An attachment is the whole of one upload sent for its name, whatever fails or
\* is killed half-way, unless the put that renamed it met another of its stem.
FileWhole ==
    \A n \in Names \ suspect :
        file[n] # None => file[n].name = n /\ file[n].whole

=============================================================================
