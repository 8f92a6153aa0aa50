---------------------------- MODULE ImeSession ----------------------------
(***************************************************************************)
(* One winxime-server (a single Rime engine behind a mutex that every      *)
(* request takes with try_lock) and the text services (TSF DLLs) loaded    *)
(* into the applications.  A letter the user types travels from the key    *)
(* event of a text service through a named-pipe request into the engine's  *)
(* input, comes back as preedit or commit in the response, and reaches the *)
(* document in an edit session that TSF runs later.                        *)
(*                                                                         *)
(* Sources: winxime-server/src/ipc_server.rs, winxime-server/src/main.rs,  *)
(* winxime-tsf/src/text_input_processor.rs, language_bar.rs.               *)
(***************************************************************************)
EXTENDS Naturals, Sequences, FiniteSets

CONSTANTS
    Clients,    \* text services: one per application thread
    Letters,    \* identities of the letters the user types, each once
    Events,     \* which events of the environment happen (see EventNames)
    MaxEdits,   \* bound on the edit sessions TSF has not run yet, per client
    None,       \* no client
    Maint       \* the settings program's connection

\* "release": key releases reach the service too; "caps": so does Caps Lock;
\* "select": the settings program selects a schema; "candidates": the engine has
\* some to show; "away": the focus goes where there is no text service.
EventNames == {"switch", "deactivate", "tray", "button", "redeploy",
               "fetch", "crash", "terminate", "release", "caps", "select",
               "candidates", "away"}

ASSUME ClientsAssumption == None \notin Clients /\ Maint \notin Clients /\ None # Maint
ASSUME EventsAssumption == Events \subseteq EventNames
ASSUME MaxEditsAssumption == MaxEdits \in Nat \ {0}

VARIABLES
    (* the server process *)
    up,         \* the process runs
    holder,     \* who holds the engine mutex: a client's thread, Maint or None
    input,      \* the letters in the engine's composition
    asciiOpt,   \* the engine's option "ascii_mode"
    asciiFlag,  \* the server's AtomicBool ascii_mode, the gate of every key
    shown,      \* the candidate window is on the screen
    lastWriter, \* who changed the engine's input last, if it reads composing from
                \* the response (Maint needs none); None for a change nobody reads
    (* the user *)
    owner,      \* the client a letter was typed into, None while untyped
    focus,      \* the client that has the keyboard
    notice,     \* the focus notification TSF has yet to deliver
    (* the text services *)
    active,     \* between Activate and Deactivate
    link,       \* the IpcClient: "none", "live", or "broken" and not noticed
    composing,  \* XimeTextService.composing
    degraded,   \* XimeTextService.degraded
    localAscii, \* XimeTextService.ascii_mode
    comp,       \* the text of the TSF composition held, {} for no composition
    doc,        \* the letters the document received
    edits,      \* the edit sessions requested and not run
    call,       \* the blocking request the client's thread is in
    answer      \* its response

serverVars == <<up, holder, input, asciiOpt, asciiFlag, shown, lastWriter>>
userVars   == <<owner, focus, notice>>
viewVars   == <<comp, doc, edits>>
flagVars   == <<active, link, composing, degraded, localAscii>>
callVars   == <<call, answer>>
vars       == <<serverVars, userVars, viewVars, flagVars, callVars>>

Ops    == {"start", "focusOut", "letter", "confirm", "cancel", "release",
           "caps", "toggle", "button"}
KeyOps == {"letter", "confirm", "cancel", "release", "caps"}

\* What a response tells the text service.  "broken" stands for the IpcError
\* of a pipe whose server is gone; "busy" is the empty response of try_lock.
Answers == [kind : {"ok", "unhandled", "busy", "broken"},
            commit : SUBSET Letters, preedit : SUBSET Letters,
            composing : BOOLEAN, ascii : BOOLEAN]

Edits == [commit : SUBSET Letters, preedit : SUBSET Letters, composing : BOOLEAN]

Calls == [op : Ops, letter : SUBSET Letters,
          phase : {"idle", "sent", "serving", "answered"}]

Silent(kind) == [kind |-> kind, commit |-> {}, preedit |-> {},
                 composing |-> FALSE, ascii |-> FALSE]

IdleCall == [op |-> "start", letter |-> {}, phase |-> "idle"]

Idle(c) == call[c].phase = "idle"
Typed   == {l \in Letters : owner[l] # None}

Init ==
    /\ up = TRUE /\ holder = None /\ input = {} /\ shown = FALSE
    /\ asciiOpt = FALSE /\ asciiFlag = FALSE /\ lastWriter = None
    /\ owner = [l \in Letters |-> None]
    /\ focus = None
    /\ notice = [c \in Clients |-> "none"]
    /\ active = [c \in Clients |-> TRUE]
    /\ link = [c \in Clients |-> "live"]
    /\ composing = [c \in Clients |-> FALSE]
    /\ degraded = [c \in Clients |-> FALSE]
    /\ localAscii = [c \in Clients |-> FALSE]
    /\ comp = [c \in Clients |-> {}]
    /\ doc = [c \in Clients |-> {}]
    /\ edits = [c \in Clients |-> <<>>]
    /\ call = [c \in Clients |-> IdleCall]
    /\ answer = [c \in Clients |-> Silent("ok")]

-----------------------------------------------------------------------------
(* The text service: requests.  Its thread blocks in the pipe read until the
   response is there, so it starts nothing else while a call is out.        *)

Request(c, op, letter) ==
    call' = [call EXCEPT ![c] = [op |-> op, letter |-> letter, phase |-> "sent"]]

\* IpcClientHandle::connect: keeps the client it has, even a broken one.
Connectable(c) == link[c] # "none" \/ up
\* Mutant of Connect: the client is kept while its handshake is still pending.
ConnectPending(c) == link' = [link EXCEPT ![c] = IF @ = "none" THEN "pending" ELSE @]

Connect(c) == link' = [link EXCEPT ![c] = IF @ = "none" THEN "live" ELSE @]

ShouldHandleKey(c) == composing[c] \/ ~localAscii[c]

\* The user moves the keyboard focus; TSF owes each active side a notification.
SwitchFocus(f) ==
    /\ "switch" \in Events
    /\ f # focus /\ (f = None => "away" \in Events)
    /\ \A c \in {f, focus} \cap Clients : notice[c] = "none"
    /\ focus' = f
    /\ notice' = [c \in Clients |->
                    CASE ~active[c]    -> "none"
                      [] c = f         -> "gain"
                      [] c = focus     -> "lose"
                      [] OTHER         -> notice[c]]
    /\ UNCHANGED <<owner, serverVars, viewVars, flagVars, callVars>>

\* ITfThreadMgrEventSink::OnSetFocus(document): StartSession, then FocusIn.
HandleGain(c) ==
    /\ notice[c] = "gain" /\ Idle(c)
    /\ notice' = [notice EXCEPT ![c] = "none"]
    /\ IF Connectable(c)
       THEN Connect(c) /\ Request(c, "start", {})
       ELSE UNCHANGED <<link, call>>
    /\ UNCHANGED <<owner, focus, serverVars, viewVars, active, composing,
                   degraded, localAscii, answer>>

\* OnSetFocus(null): FocusOut first, abort_composition after it has returned.
HandleLose(c) ==
    /\ notice[c] = "lose" /\ Idle(c)
    /\ notice' = [notice EXCEPT ![c] = "none"]
    /\ IF link[c] # "none"
       THEN Request(c, "focusOut", {}) /\ UNCHANGED <<composing, comp>>
       ELSE /\ composing' = [composing EXCEPT ![c] = FALSE]
            /\ comp' = [comp EXCEPT ![c] = {}]
            /\ UNCHANGED call
    /\ UNCHANGED <<owner, focus, serverVars, doc, edits, active, link,
                   degraded, localAscii, answer>>

\* The key goes to the application as if no input method were there.
PassThrough(c, letter) == doc' = [doc EXCEPT ![c] = @ \cup letter]

\* A press of a letter types one not typed before, any other key types none.
Press(c, op, letter) ==
    /\ focus = c /\ notice[c] = "none" /\ active[c] /\ Idle(c)
    /\ IF op = "letter"
       THEN \E l \in Letters \ Typed :
                letter = {l} /\ owner' = [owner EXCEPT ![l] = c]
       ELSE letter = {} /\ UNCHANGED owner

\* OnTestKeyDown claims the key, OnKeyDown sends it.
KeyDown(c, op, letter) ==
    /\ Press(c, op, letter)
    /\ ~degraded[c] /\ ShouldHandleKey(c)
    /\ Len(edits[c]) < MaxEdits
    /\ IF Connectable(c)
       THEN Connect(c) /\ Request(c, op, letter) /\ UNCHANGED <<degraded, doc>>
       ELSE /\ degraded' = [degraded EXCEPT ![c] = TRUE]
            /\ PassThrough(c, letter)
            /\ UNCHANGED <<link, call>>
    /\ UNCHANGED <<focus, notice, serverVars, comp, edits, active, composing,
                   localAscii, answer>>

\* OnTestKeyDown declines: TSF never calls OnKeyDown for this key.
KeyBypass(c, op, letter) ==
    /\ Press(c, op, letter)
    /\ degraded[c] \/ ~ShouldHandleKey(c)
    /\ PassThrough(c, letter)
    /\ UNCHANGED <<focus, notice, serverVars, comp, edits, flagVars, callVars>>

\* Caps Lock is no key of the input method: it is claimed while composing is set.
CapsDown(c) ==
    /\ "caps" \in Events
    /\ composing[c]
    /\ KeyDown(c, "caps", {})

\* OnTestKeyUp ignores degraded; the release of a key is sent to the engine too.
KeyUp(c) ==
    /\ "release" \in Events
    /\ Press(c, "release", {})
    /\ ShouldHandleKey(c) /\ link[c] # "none"
    /\ Request(c, "release", {})
    /\ UNCHANGED <<focus, notice, serverVars, viewVars, flagVars, answer>>

\* OnKeyUp of Shift.
ShiftUp(c) ==
    /\ Press(c, "toggle", {})
    /\ link[c] # "none" /\ Len(edits[c]) < MaxEdits
    /\ Request(c, "toggle", {})
    /\ UNCHANGED <<focus, notice, serverVars, viewVars, flagVars, answer>>

\* A click on the language bar's button.
ButtonClick(c) ==
    /\ "button" \in Events
    /\ Press(c, "button", {})
    /\ link[c] # "none"
    /\ Request(c, "button", {})
    /\ UNCHANGED <<focus, notice, serverVars, viewVars, flagVars, answer>>

\* Deactivate: neither the engine nor the candidate window hears of it.
Deactivate(c) ==
    /\ "deactivate" \in Events
    /\ active[c] /\ Idle(c)
    /\ active' = [active EXCEPT ![c] = FALSE]
    /\ notice' = [notice EXCEPT ![c] = "none"]
    /\ composing' = [composing EXCEPT ![c] = FALSE]
    /\ degraded' = [degraded EXCEPT ![c] = FALSE]
    /\ comp' = [comp EXCEPT ![c] = {}]
    /\ UNCHANGED <<owner, focus, serverVars, doc, edits, link, localAscii, callVars>>

\* Activate and OnActivated(TRUE): connect if there is no client, StartSession.
Activate(c) ==
    /\ ~active[c] /\ Idle(c)
    /\ active' = [active EXCEPT ![c] = TRUE]
    /\ IF Connectable(c)
       THEN Connect(c) /\ Request(c, "start", {})
       ELSE UNCHANGED <<link, call>>
    /\ UNCHANGED <<userVars, serverVars, viewVars, composing, degraded,
                   localAscii, answer>>

-----------------------------------------------------------------------------
(* The server.  process_request holds the engine mutex from Accept to Serve. *)

Reply(c, a) ==
    /\ call' = [call EXCEPT ![c].phase = "answered"]
    /\ answer' = [answer EXCEPT ![c] = a]

Accept(c) ==
    /\ call[c].phase = "sent" /\ link[c] = "live"
    /\ holder = None
    /\ holder' = c
    /\ call' = [call EXCEPT ![c].phase = "serving"]
    /\ UNCHANGED <<up, input, asciiOpt, asciiFlag, shown, lastWriter, userVars,
                   viewVars, flagVars, answer>>

\* Mutant of RefuseBusy: lock() instead of try_lock().
RefuseNever(c) == FALSE

\* try_lock fails: the request is answered at once and not carried out.
RefuseBusy(c) ==
    /\ call[c].phase = "sent" /\ link[c] = "live"
    /\ holder # None
    /\ Reply(c, Silent("busy"))
    /\ UNCHANGED <<serverVars, userVars, viewVars, flagVars>>

Serving(c, ops) == call[c].phase = "serving" /\ holder = c /\ call[c].op \in ops

\* StartSession only reads the status, the ascii mode from the engine's option.
ServeStart(c) ==
    /\ Serving(c, {"start"})
    /\ Reply(c, [Silent("ok") EXCEPT !.composing = input # {}, !.ascii = asciiOpt])
    /\ holder' = None
    /\ UNCHANGED <<up, input, asciiOpt, asciiFlag, shown, lastWriter, userVars,
                   viewVars, flagVars>>

\* Mutant of ServeFocusOut: the composition is cleared, the window stays.
ServeFocusOutNoHide(c) ==
    /\ Serving(c, {"focusOut"})
    /\ input' = {} /\ lastWriter' = c /\ holder' = None
    /\ Reply(c, Silent("ok"))
    /\ UNCHANGED <<up, shown, asciiOpt, asciiFlag, userVars, viewVars, flagVars>>

ServeFocusOut(c) ==
    /\ Serving(c, {"focusOut"})
    /\ input' = {} /\ shown' = FALSE /\ lastWriter' = c
    /\ Reply(c, Silent("ok"))
    /\ holder' = None
    /\ UNCHANGED <<up, asciiOpt, asciiFlag, userVars, viewVars, flagVars>>

\* What Rime does with a key it accepts: the set of <<input', commit>> it may end
\* in, empty when it never does.  A letter extends the input; a full code may
\* commit together with it, or push the previous code out and start a new one.
\* Esc drops the input.  With the option on, only a running input takes letters.
RimeKey(op, letter) ==
    CASE op = "letter" /\ input = {} ->
             IF asciiOpt THEN {} ELSE {<<letter, {}>>, <<{}, letter>>}
      [] op = "letter" /\ input # {} ->
             {<<input \cup letter, {}>>} \cup
             (IF asciiOpt THEN {} ELSE {<<{}, input \cup letter>>, <<letter, input>>})
      [] op = "confirm" /\ input # {} -> {<<{}, input>>}
      [] op = "cancel" /\ input # {} -> {<<{}, {}>>}
      [] OTHER -> {}

\* And with one it rejects, for the application to take.  Any key may be rejected
\* unchanged (all are while Caps Lock is lit), but Caps Lock itself commits the
\* input or drops it first, and a printable key that no processor of the schema
\* wants commits it (DirectCommit).
RimeReject(op) ==
    {<<input, {}>>} \cup
    (CASE input = {}                         -> {}
       [] op = "caps"                        -> {<<{}, input>>, <<{}, {}>>}
       [] op = "letter" /\ ~asciiOpt         -> {<<{}, input>>}
       [] OTHER                              -> {})

\* The flag is asked first: while it is set the engine never sees the key.
ServeKeyGated(c) ==
    /\ Serving(c, KeyOps)
    /\ asciiFlag
    /\ Reply(c, [Silent("unhandled") EXCEPT !.composing = input # {}, !.ascii = asciiOpt])
    /\ holder' = None
    /\ UNCHANGED <<up, input, asciiOpt, asciiFlag, shown, lastWriter, userVars,
                   viewVars, flagVars>>

\* window.show when the composition has candidates, hide otherwise.
RefreshWindow(commit) ==
    shown' \in IF commit # {} \/ input' = {} \/ "candidates" \notin Events
               THEN {FALSE} ELSE BOOLEAN

\* The commit is taken and the window told whether or not the key was handled;
\* Caps Lock may have switched the option as well.
ServeKeyUnhandled(c) ==
    /\ Serving(c, KeyOps)
    /\ ~asciiFlag
    /\ asciiOpt' \in IF call[c].op = "caps" THEN BOOLEAN ELSE {asciiOpt}
    /\ \E r \in RimeReject(call[c].op) :
          /\ input' = r[1]
          /\ lastWriter' = IF r[1] = input THEN lastWriter ELSE None
          /\ RefreshWindow(r[2])
          /\ Reply(c, [kind |-> "unhandled", commit |-> r[2], preedit |-> r[1],
                       composing |-> r[1] # {}, ascii |-> asciiOpt'])
    /\ holder' = None
    /\ UNCHANGED <<up, asciiFlag, userVars, viewVars, flagVars>>

ServeKey(c) ==
    /\ Serving(c, KeyOps)
    /\ ~asciiFlag
    /\ \E r \in RimeKey(call[c].op, call[c].letter) :
          /\ input' = r[1]
          /\ RefreshWindow(r[2])
          /\ Reply(c, [kind |-> "ok", commit |-> r[2], preedit |-> r[1],
                       composing |-> r[1] # {}, ascii |-> asciiOpt])
    /\ lastWriter' = c
    /\ holder' = None
    /\ UNCHANGED <<up, asciiOpt, asciiFlag, userVars, viewVars, flagVars>>

\* Mutant of ServeToggle: the composition is not cleared before the switch.
ServeToggleNoClear(c) ==
    /\ Serving(c, {"toggle", "button"})
    /\ asciiOpt' = ~asciiOpt /\ asciiFlag' = ~asciiOpt /\ lastWriter' = c
    /\ shown' = FALSE /\ holder' = None
    /\ Reply(c, [Silent("ok") EXCEPT !.ascii = ~asciiOpt])
    /\ UNCHANGED <<up, input, userVars, viewVars, flagVars>>

\* ToggleAsciiMode: the engine's option decides the new mode; a running input
\* is cleared, and handed back as commit text when the new mode is ASCII.
ServeToggle(c) ==
    /\ Serving(c, {"toggle", "button"})
    /\ input' = {} /\ shown' = FALSE
    /\ asciiOpt' = ~asciiOpt /\ asciiFlag' = ~asciiOpt
    /\ lastWriter' = IF call[c].op = "toggle" THEN c ELSE None
    /\ Reply(c, [Silent("ok") EXCEPT !.commit = IF asciiOpt THEN {} ELSE input,
                                     !.ascii = ~asciiOpt])
    /\ holder' = None
    /\ UNCHANGED <<up, userVars, viewVars, flagVars>>

\* A market command or ReloadConfig of the setup program takes the mutex ...
MaintBegin ==
    /\ Events \cap {"redeploy", "fetch"} # {}
    /\ up /\ holder = None
    /\ holder' = Maint
    /\ UNCHANGED <<up, input, asciiOpt, asciiFlag, shown, lastWriter, userVars,
                   viewVars, flagVars, callVars>>

\* ... for a download that leaves the engine alone ...
FetchEnd ==
    /\ "fetch" \in Events
    /\ holder = Maint
    /\ holder' = None
    /\ UNCHANGED <<up, input, asciiOpt, asciiFlag, shown, lastWriter, userVars,
                   viewVars, flagVars, callVars>>

\* ... or for redeploy: a new session, empty and with the option off; neither
\* the flag nor the candidate window is told.
RedeployEnd ==
    /\ "redeploy" \in Events
    /\ holder = Maint
    /\ holder' = None
    /\ input' = {} /\ asciiOpt' = FALSE /\ lastWriter' = Maint
    /\ UNCHANGED <<up, asciiFlag, shown, userVars, viewVars, flagVars, callVars>>

\* SelectSchema of the settings program: the engine drops its input, and most
\* schemas reset the option; neither the flag nor the candidate window is told.
SelectSchema ==
    /\ "select" \in Events
    /\ up /\ holder = None
    /\ input' = {} /\ lastWriter' = Maint
    /\ asciiOpt' \in {asciiOpt, FALSE}
    /\ UNCHANGED <<up, holder, asciiFlag, shown, userVars, viewVars, flagVars, callVars>>

\* A left click on the tray icon: the option only, and only if the lock is free.
TrayToggle ==
    /\ "tray" \in Events
    /\ up /\ holder = None
    /\ asciiOpt' = ~asciiOpt
    /\ UNCHANGED <<up, holder, input, asciiFlag, shown, lastWriter, userVars,
                   viewVars, flagVars, callVars>>

\* The process dies (tray Quit, ShutdownServer, a crash) with all its state.
Crash ==
    /\ "crash" \in Events
    /\ up
    /\ up' = FALSE /\ holder' = None /\ input' = {} /\ shown' = FALSE
    /\ asciiOpt' = FALSE /\ asciiFlag' = FALSE /\ lastWriter' = None
    /\ link' = [c \in Clients |-> IF link[c] = "live" THEN "broken" ELSE link[c]]
    /\ call' = [c \in Clients |->
                  IF call[c].phase = "serving" THEN [call[c] EXCEPT !.phase = "sent"]
                                               ELSE call[c]]
    /\ UNCHANGED <<userVars, viewVars, active, composing, degraded, localAscii, answer>>

Restart ==
    /\ ~up
    /\ up' = TRUE
    /\ UNCHANGED <<holder, input, asciiOpt, asciiFlag, shown, lastWriter, userVars,
                   viewVars, flagVars, callVars>>

\* The pipe read fails; a response not read yet may be lost with the server.
Break(c) ==
    /\ link[c] = "broken"
    /\ call[c].phase \in {"sent", "answered"} /\ answer[c].kind # "broken"
    /\ Reply(c, Silent("broken"))
    /\ UNCHANGED <<serverVars, userVars, viewVars, flagVars>>

-----------------------------------------------------------------------------
(* The text service: responses. *)

Answered(c, ops) == call[c].phase = "answered" /\ call[c].op \in ops
\* The stored response is reset with the call: nothing reads it after this.
Hangup(c) ==
    /\ call' = [call EXCEPT ![c] = IdleCall]
    /\ answer' = [answer EXCEPT ![c] = Silent("ok")]

\* start_session and process_key drop a client whose pipe failed, the others keep it.
DropBroken(c) ==
    link' = [link EXCEPT ![c] = IF answer[c].kind = "broken" THEN "none" ELSE @]

ReturnStart(c) ==
    /\ Answered(c, {"start"})
    /\ IF answer[c].kind = "ok"
       THEN /\ localAscii' = [localAscii EXCEPT ![c] = answer[c].ascii]
            /\ degraded' = [degraded EXCEPT ![c] = FALSE]
       ELSE UNCHANGED <<localAscii, degraded>>
    /\ DropBroken(c)
    /\ Hangup(c)
    /\ UNCHANGED <<serverVars, userVars, viewVars, active, composing>>

\* Mutant of ReturnFocusOut: abort_composition writes what was on the screen.
ReturnFocusOutCommits(c) ==
    /\ Answered(c, {"focusOut"})
    /\ composing' = [composing EXCEPT ![c] = FALSE]
    /\ doc' = [doc EXCEPT ![c] = @ \cup comp[c]]
    /\ Hangup(c)
    /\ UNCHANGED <<serverVars, userVars, comp, edits, active, link, degraded, localAscii>>

\* focus_out ignores its result; abort_composition follows.
ReturnFocusOut(c) ==
    /\ Answered(c, {"focusOut"})
    /\ composing' = [composing EXCEPT ![c] = FALSE]
    /\ comp' = [comp EXCEPT ![c] = {}]
    /\ Hangup(c)
    /\ UNCHANGED <<serverVars, userVars, doc, edits, active, link, degraded, localAscii>>

\* schedule_edit_session of the response.
Schedule(c) ==
    edits' = [edits EXCEPT ![c] =
                Append(@, [commit |-> answer[c].commit, preedit |-> answer[c].preedit,
                           composing |-> answer[c].composing])]

\* Mutant of ReturnKeyHandled: the key was handled and is not eaten.
ReturnKeyHandledTwice(c) ==
    /\ Answered(c, KeyOps) /\ answer[c].kind = "ok"
    /\ composing' = [composing EXCEPT ![c] = answer[c].composing]
    /\ Schedule(c) /\ PassThrough(c, call[c].letter)
    /\ Hangup(c)
    /\ UNCHANGED <<serverVars, userVars, comp, degraded, active, link, localAscii>>

\* Mutant of ReturnKeyHandled: composing is set by a key, never cleared by one.
ReturnKeyHandledSticky(c) ==
    /\ Answered(c, KeyOps) /\ answer[c].kind = "ok"
    /\ composing' = [composing EXCEPT ![c] = @ \/ answer[c].composing]
    /\ Schedule(c)
    /\ Hangup(c)
    /\ UNCHANGED <<serverVars, userVars, comp, doc, degraded, active, link, localAscii>>

ReturnKeyHandled(c) ==
    /\ Answered(c, KeyOps)
    /\ answer[c].kind = "ok"
    /\ composing' = [composing EXCEPT ![c] = answer[c].composing]
    /\ degraded' = [degraded EXCEPT ![c] = FALSE]
    /\ Schedule(c)
    /\ Hangup(c)
    /\ UNCHANGED <<serverVars, userVars, comp, doc, active, link, localAscii>>

\* Not handled, busy or broken: the application gets the key, and the rest of the
\* response is dropped, a commit and the end of the composition with it.  Only the
\* response to a key press touches degraded (handle_key_up_event does not).
ReturnKeyUnhandled(c) ==
    /\ Answered(c, KeyOps)
    /\ answer[c].kind # "ok"
    /\ degraded' = [degraded EXCEPT ![c] =
                      IF call[c].op = "release" THEN @ ELSE answer[c].kind # "unhandled"]
    /\ PassThrough(c, call[c].letter)
    /\ DropBroken(c)
    /\ Hangup(c)
    /\ UNCHANGED <<serverVars, userVars, comp, edits, active, composing, localAscii>>

\* Mutant of ReturnToggle: Shift takes from the response what the button does.
ReturnToggleModeOnly(c) ==
    /\ Answered(c, {"toggle"})
    /\ IF answer[c].kind = "ok"
       THEN localAscii' = [localAscii EXCEPT ![c] = answer[c].ascii]
       ELSE UNCHANGED localAscii
    /\ Hangup(c)
    /\ UNCHANGED <<serverVars, userVars, viewVars, active, link, composing, degraded>>

\* The tail of OnKeyUp(Shift): composing is set from the response before it is
\* compared with it, so only a commit ever schedules an edit session.
ReturnToggle(c) ==
    /\ Answered(c, {"toggle"})
    /\ IF answer[c].kind = "ok"
       THEN /\ localAscii' = [localAscii EXCEPT ![c] = answer[c].ascii]
            /\ composing' = [composing EXCEPT ![c] = answer[c].composing]
            /\ IF answer[c].commit # {} THEN Schedule(c) ELSE UNCHANGED edits
       ELSE UNCHANGED <<localAscii, composing, edits>>
    /\ Hangup(c)
    /\ UNCHANGED <<serverVars, userVars, comp, doc, active, link, degraded>>

\* The language bar's OnClick takes the mode from the response and nothing else.
ReturnButton(c) ==
    /\ Answered(c, {"button"})
    /\ IF answer[c].kind = "ok"
       THEN localAscii' = [localAscii EXCEPT ![c] = answer[c].ascii]
       ELSE UNCHANGED localAscii
    /\ Hangup(c)
    /\ UNCHANGED <<serverVars, userVars, viewVars, active, link, composing, degraded>>

-----------------------------------------------------------------------------
(* TSF runs the edit sessions in the order they were requested. *)

\* DoEditSession.  A commit needs a composition to write through; the application
\* may refuse to start one, and then the text is lost.
RunEdit(c, started) ==
    /\ edits[c] # <<>> /\ Idle(c)
    /\ LET e == Head(edits[c])
           written == e.commit # {} /\ (comp[c] # {} \/ started)
           held == IF e.commit # {} THEN {} ELSE comp[c]
       IN  /\ doc' = [doc EXCEPT ![c] = IF written THEN @ \cup e.commit ELSE @]
           /\ comp' = [comp EXCEPT ![c] =
                         IF e.composing /\ (held # {} \/ started) THEN e.preedit ELSE {}]
    /\ edits' = [edits EXCEPT ![c] = Tail(@)]
    /\ UNCHANGED <<serverVars, userVars, flagVars, callVars>>

\* GetFocus fails in a thread whose window lost the focus: nothing is written.
DropEdit(c) ==
    /\ edits[c] # <<>> /\ Idle(c) /\ focus # c
    /\ edits' = [edits EXCEPT ![c] = Tail(@)]
    /\ UNCHANGED <<serverVars, userVars, comp, doc, flagVars, callVars>>

\* OnCompositionTerminated: the application ended the composition itself.
CompositionTerminated(c) ==
    /\ "terminate" \in Events
    /\ comp[c] # {} /\ Idle(c)
    /\ comp' = [comp EXCEPT ![c] = {}]
    /\ UNCHANGED <<serverVars, userVars, doc, edits, flagVars, callVars>>

-----------------------------------------------------------------------------
UserStep(c) ==
    \/ \E letter \in {{l} : l \in Letters} : KeyDown(c, "letter", letter)
    \/ \E letter \in {{l} : l \in Letters} : KeyBypass(c, "letter", letter)
    \/ \E op \in {"confirm", "cancel"} : KeyDown(c, op, {})
    \/ \E op \in {"confirm", "cancel"} : KeyBypass(c, op, {})
    \/ CapsDown(c) \/ KeyUp(c) \/ ShiftUp(c) \/ ButtonClick(c)
    \/ Deactivate(c) \/ Activate(c)

Serve(c) == \/ Accept(c) \/ RefuseBusy(c) \/ Break(c)
            \/ ServeStart(c) \/ ServeFocusOut(c) \/ ServeToggle(c)
            \/ ServeKeyGated(c) \/ ServeKeyUnhandled(c) \/ ServeKey(c)

Return(c) == \/ ReturnStart(c) \/ ReturnFocusOut(c) \/ ReturnKeyHandled(c)
             \/ ReturnKeyUnhandled(c) \/ ReturnToggle(c) \/ ReturnButton(c)

RunEdits(c) == \/ \E started \in BOOLEAN : RunEdit(c, started)
               \/ DropEdit(c)

ClientStep(c) == HandleGain(c) \/ HandleLose(c) \/ Return(c) \/ RunEdits(c)

MaintEnd == FetchEnd \/ RedeployEnd

Next == \/ \E f \in Clients \cup {None} : SwitchFocus(f)
        \/ \E c \in Clients : UserStep(c) \/ Serve(c) \/ ClientStep(c)
                              \/ CompositionTerminated(c)
        \/ MaintBegin \/ MaintEnd \/ SelectSchema \/ TrayToggle \/ Crash \/ Restart

Spec == Init /\ [][Next]_vars

\* Threads run: the server's handler of a connection, the reader of a response,
\* a maintenance command that has begun.  The user, the crash and the restart
\* are under no obligation.
Fairness == /\ \A c \in Clients : WF_vars(Serve(c)) /\ WF_vars(Return(c))
            /\ WF_vars(MaintEnd)

FairSpec == Spec /\ Fairness

-----------------------------------------------------------------------------
(* Properties *)

\* Every variable holds a value of its type.
TypeOK ==
    /\ up \in BOOLEAN /\ holder \in Clients \cup {None, Maint}
    /\ input \subseteq Letters /\ shown \in BOOLEAN
    /\ asciiOpt \in BOOLEAN /\ asciiFlag \in BOOLEAN
    /\ lastWriter \in Clients \cup {None, Maint}
    /\ owner \in [Letters -> Clients \cup {None}]
    /\ focus \in Clients \cup {None}
    /\ notice \in [Clients -> {"none", "gain", "lose"}]
    /\ active \in [Clients -> BOOLEAN]
    /\ link \in [Clients -> {"none", "live", "broken"}]
    /\ composing \in [Clients -> BOOLEAN]
    /\ degraded \in [Clients -> BOOLEAN]
    /\ localAscii \in [Clients -> BOOLEAN]
    /\ comp \in [Clients -> SUBSET Letters]
    /\ doc \in [Clients -> SUBSET Letters]
    /\ edits \in [Clients -> Seq(Edits)]
    /\ call \in [Clients -> Calls]
    /\ answer \in [Clients -> Answers]

\* What c has of the committed letters: in a response, an edit session or its document.
Held(c) == answer[c].commit \cup doc[c] \cup UNION {edits[c][i].commit : i \in DOMAIN edits[c]}

\* Every place on c's way to its document where a committed letter can be, and the
\* engine's input: no letter is in two of them, so c never commits a letter twice.
CommitOnceIn(c) ==
    /\ input \cap Held(c) = {}
    /\ answer[c].commit \cap doc[c] = {}
    /\ \A i \in DOMAIN edits[c] :
          edits[c][i].commit \cap (answer[c].commit \cup doc[c]) = {}
    /\ \A i, j \in DOMAIN edits[c] :
          i # j => edits[c][i].commit \cap edits[c][j].commit = {}

\* No application is given a letter twice and the engine keeps none it has handed
\* out, even by a server that dies with requests half done, whose unread responses
\* turn into raw keys (handle_key_event after an IpcError).
CommitOnceEach == \A c \in Clients : CommitOnceIn(c)

\* No letter is committed twice, by one application or by two, in whatever order
\* requests, edit sessions and focus changes come, as long as the server lives.
CommitAtMostOnce ==
    /\ CommitOnceEach
    /\ \A c, d \in Clients : c # d => Held(c) \cap Held(d) = {}

\* While the server's flag says ASCII the engine holds no input: otherwise
\* letters out of the user's reach (no key gets past the flag in ProcessKeyEvent)
\* would surface after the next switch to Chinese.
NoHiddenComposition == asciiFlag => input = {}

\* A text service that claims every key because it believes a composition runs
\* is right as long as the last change of the engine's input is one whose response
\* it has read: not another service's or the settings program's, its language
\* bar's (OnClick reads the mode only), one lost with the server, or that of a key
\* Rime rejected after clearing or committing the input, whose response it drops
\* (should_handle_key takes all keys while composing is set).
ComposingExplained ==
    \A c \in Clients :
        Idle(c) /\ composing[c] /\ lastWriter = c => input # {}

\* A candidate window on the screen shows a composition the engine still has; the
\* exceptions are the settings program's: a redeploy replaces the session and
\* SelectSchema clears it under the window.
WindowExplained == shown /\ input = {} => lastWriter = Maint

\* A thread of an application is never stuck in a request: try_lock answers
\* "busy" at once, however long the mutex is held.
CallsReturn == \A c \in Clients : call[c].phase # "idle" ~> Idle(c)

\* The life of a letter as a user sees it (LetterLifecycle).
Pending(l) ==
    \/ l \in input
    \/ \E c \in Clients : \/ l \in call[c].letter \cup answer[c].commit
                         \/ \E i \in DOMAIN edits[c] : l \in edits[c][i].commit

LetterStatus ==
    [l \in Letters |->
        CASE owner[l] = None                    -> "untyped"
          [] \E c \in Clients : l \in doc[c]     -> CHOOSE c \in Clients : l \in doc[c]
          [] (\A c \in Clients : l \notin doc[c]) /\ owner[l] # None /\ Pending(l) -> "pending"
          [] OTHER                              -> "dropped"]

Lifecycle == INSTANCE LetterLifecycle WITH status <- LetterStatus

\* Every step of the system moves letters forward in their life: what was
\* delivered stays where it is and what was dropped never comes back.
ImplementsLifecycle == Lifecycle!Spec

\* A letter ends up in the document it was typed into or nowhere ("focus_out +
\* clear the composition" when the focus is lost).
LettersStayHome ==
    \A c \in Clients : \A l \in doc[c] : owner[l] = c

=============================================================================
